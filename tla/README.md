# Ringpop in TLA+

Ringpop is a library that turns the workers of an application into a cluster: a
SWIM-style membership protocol gossips who is alive, a consistent hash ring over
the members decides who owns a key, and requests are forwarded to the owner of
their key. This directory holds TLA+ models of that code, TLC configurations that
check them on small instances, and TLAPS proofs: of what one node and a cluster of any
size keep true, and of the abstract specifications that each of them implements; of
one conclusion per ping, round of ping-reqs, join and forwarded request; of the rounds
of the iterator, the entries of the update log, and who owns the points of the ring.

All definitions are translated from the source (`index.js`, `lib/`, `server/`).
`PROJECT.json` lists for every definition the lines it stands for, and for every
property a fault of the code that breaks it. Those faults are definitions in the
modules, each just before the definition it replaces, with a comment that starts
with "Fault:"; no specification uses them.

## The system

JavaScript runs every callback to completion, so an action of a model is one
callback: a request handler, a response, a timer. Everything that is hard comes
from what happens between two of them.

| Component | Code | State | Operations | Interacts with |
|---|---|---|---|---|
| Membership | `lib/membership.js`, `lib/membership-update-rules.js` | member list, stash of updates before the node is ready | `update`, `set`, `makeAlive/Suspect/Faulty/Leave` | emits `updated`, `set` to the listeners |
| Listeners | `lib/membership-update-listener.js`, `lib/membership-set-listener.js` | none | one call per `update` or `set` | suspicion, dissemination, ring |
| Suspicion | `lib/swim/suspicion.js` | timer per suspect, `isStoppedAll` | `start`, `stop`, `stopAll`, `reenable`, the timer | `makeFaulty` |
| Dissemination | `lib/dissemination.js` | one counted change per address, limit of the count | `recordChange`, `issueAsSender`, `issueAsReceiver`, `fullSync` | pings and their responses |
| Hash ring | `lib/ring.js`, `lib/rbtree.js` | servers, points | `addRemoveServers`, `lookup`, `lookupN` | listeners, forwarding |
| Gossip loop | `lib/swim/gossip.js`, `index.js` `pingMemberNow` | `isStopped`, two timers, `isPinging` | `start`, `stop`, `run` | ping, ping-req, operator |
| Ping-req | `lib/swim/ping-req-sender.js` | errors and `calledBack` of a round | `sendPingReq`, `onPingReq` | `makeSuspect` |
| Join | `lib/swim/join-sender.js`, `server/join-handler.js` | rounds, counters, collected responses | `join`, `joinGroup`, `joinNode`, `selectGroup` | bootstrap, admin join |
| Node | `index.js`, `server/*.js` | `isReady`, `destroyed` | `bootstrap`, `destroy`, the handlers | all of the above |
| Request proxy | `lib/request-proxy/*.js`, `index.js` `handleOrProxy(All)` | list of sends, retry timers | `proxyReq`, `send`, `attemptRetry`, `handleRequest`, `destroy` | ring, channel |
| Member iterator | `lib/membership-iterator.js` | index, round | `next` | membership, gossip |
| Update rollup | `lib/membership-update-rollup.js` | buffer, flush timer | `trackUpdates`, `flushBuffer` | log only |

What makes each one correct:

- Membership: no record is replaced by an older one; the local member is never
  stored as suspect or faulty; ring, timers and rumours follow the list, although
  each of them is maintained by differences.
- Suspicion: a suspect period that begins ends, by refutation or as faulty, and
  belongs to a member that is listed.
- Gossip: exactly one loop, never two pings, and no path that ends it silently.
- Ping-req and join: one conclusion, called back once, that fits the answers
  whatever their order.
- Forwarding: the owner handles the request, the client is answered once.
- Hash ring: lookups find the first server clockwise, and no server that has gone,
  also when points collide; the tree is a search tree and balanced.
- Iterator and rollup: nobody is left out of a round, no burst is split or joined.
- The cluster: nobody knows an incarnation that its owner did not give itself, and
  when nothing fails any more, everybody comes to hold one list that is true.

`PROJECT.json` "hazards" lists at which line each of these can go wrong.

## The modules

| Module | Models | State |
|---|---|---|
| `MembershipRules` | override rules, acceptance of a changeset, merge of stashed changesets | none, functions of records |
| `NodeState` | what one node holds, and what update, set, the listeners, suspicion and dissemination do to it | none, functions of a record `node` |
| `RingpopNode` | one node in an open environment; one action per handler, response, timer, operator call | `node`, `joining`, `rejoining`, `destroyed`, `now` |
| `MCRingpopNode` | changesets for TLC | |
| `FailureDetection` | what one node promises about each member it knows: an abstract specification | `view`, `periods`, `ring`, `enabled` |
| `NodeStateProofs`, `RingpopNodeProofs` | lemmas about `NodeState`, theorems about `RingpopNode`, and that it implements `FailureDetection` | |
| `Cluster` | several nodes: pings, relayed pings, joins, leaves, crashes, restarts, over a network that loses and delays | a `NodeState` record per node, `wire`, what each node waits for |
| `MCCluster` | symmetry of the nodes | |
| `MemberViews` | what the member lists of a cluster promise, whoever says what to whom: an abstract specification | `view` of every node, `up`, `clock` |
| `ClusterProofs` | theorems about `Cluster`: its incarnations, what every node of it keeps, its conversations, and that it implements `MemberViews` | |
| `Gossip` | the loop of timers and pings | `loop`, `life`, `left`, `destroyed`, `starts` |
| `GossipProofs` | theorems about `Gossip`: one ping at a time | |
| `PingReq` | one round of indirect pings, with membership updates in between | the Member object, the answers, the verdict |
| `PingReqProofs` | theorems about `PingReq`: one conclusion, and its verdict | |
| `JoinSender` | one join: groups, rounds, retries, late answers | rounds, group, counters, responses |
| `JoinSenderProofs` | theorems about `JoinSender`: its turns, its count, its conclusion | |
| `MemberIterator` | who is pinged next, over a list that changes between two choices | `members` in order, `up`, `index`, the round |
| `UpdateRollup` | the buffer of updates and its flush timer | `buffer`, `timer`, time since the last update |
| `HashRing` | what the ring promises: a map from points to servers | `servers`, `points` |
| `RBTree` | insertion, removal, bounds and iterator of the red-black tree | none, functions of a record `tree` |
| `TreeRing` | the ring as it is implemented, over `RBTree` | `servers`, `tree` |
| `MCTreeRing` | servers whose points collide | |
| `LocalObjectsProofs` | theorems about the objects of one process: `MemberIterator`, `UpdateRollup`, `HashRing` | |
| `RequestProxy` | one forwarded request of one or more keys: sends, retries, receivers, ring changes, destroy | `ring` of every node, `parts` of the request, `wire`, `handled` |
| `MCRequestProxy` | points of three nodes, one of which two of them share, and hashes of two keys | |
| `RequestProxyProofs` | theorems about `RequestProxy`: its owner, its attempts, its answers | |

`NodeState` is a module of functions, `IssueAsSender(n)`, `Update(self, n, batch,
now)` and so on, because the same state is used once (`RingpopNode`, one node and
whatever the world may send it) and once per node (`Cluster`, which composes the
calls of several nodes). `Cluster` also justifies what `RingpopNode` assumes of the
world, see below.

How the state corresponds: `node.members` is `membership.members` as a map from
addresses; `node.stash` the merge of `membership.stashedUpdates` so far (merging
is done as the changesets arrive, which gives the same map as merging all of them
in `set`); `node.timers` maps an address to the incarnation its suspicion timer
captured; `node.stoppedAll` is `suspicion.isStoppedAll`; `node.ring` the servers of
the hash ring; `node.changes` the dissemination table with its piggyback counts;
`node.maxCount` is `dissemination.maxPiggybackCount`; `node.gossiping` the negation
of `gossip.isStopped`. A changeset is a map from addresses to changes, since both
things a node sends (the table, or a full sync) hold one change per address.

`now` is `Date.now()`. It does not go back, and several calls may read the same
value: equal incarnation numbers are among the interesting cases.

`FailureDetection` is what is left of a node when everything is taken away that serves
to find out and to tell: there are no changesets, no stash, no rumours, and a suspect
period does not know an incarnation. A peer moves by a record that is news of it
(`Overrides`: a later incarnation, which of a peer that has left must be alive, or a
worse status of the same one), or it stays as it is. If it moves, its new record alone
decides about its suspect period, and its record and its former place decide about its
place in the ring: a suspect keeps a place and gets none. `RingpopNode` implements it
under `view <- node.members`, `periods <- DOMAIN node.timers`, `ring <- node.ring` and
`enabled <- ~node.stoppedAll`. All requests, responses, timers and joins are `Learn`;
`Destroy` and `AdminLeave` are `Stop`, the admin join of a node that has left is
`Resume`. The code keeps the three in step in two different listeners, one of which
stops no timers and removes no servers; here they move in one step or not at all.

In `Gossip` the handle of a period timer (`held`) and the timers whose handle was
overwritten (`stray`) are separate, because `stop` can only clear the former.

In `Cluster` every message belongs to what its asker waits for: a ping to its answer,
a ping-req to the relayed ping, its answer and the verdict. When the asker's timeout
comes first, a ping may stay on the wire as a late one, whose answer nobody hears.
What it abstracts:

- The clocks of the nodes are not compared with one another. What matters of
  `Date.now()` is that it is read later than the time before, also by the next
  process at an address, so that `clock` counts the incarnations of each node.
- Gossip goes in rounds: `todo` holds the pairs that have not pinged in this one.
  Protocol periods of equal length and an iterator that completes its rounds
  (`MemberIterator`) give that up to the order, which is free. Without it, one pair
  could ping for ever and the others never.
- One peer is asked in a round of ping-reqs, the one there is among three nodes;
  `PingReq` has the rounds of several.
- Whatever else fails because of one trouble (the relay's ping of the same target,
  the ping-req after the ping) is not counted as another.
- It begins with a cluster whose bootstraps are over. A restart and its join are
  steps of the model, and so is a join whose answer is lost.

`MemberViews` says what all those messages may do to the member lists, and nothing of
how: a step makes lists learn (records only go forward in the order of the override
rules; a node keeps its own record, or is alive at its next incarnation; nobody holds
an incarnation that its owner has not given itself, or a leave of its last one that it
has not declared), or is a leave, a crash or a restart. `Cluster` implements it under
`view <- [a \in Addr |-> node[a].members]`; `up` and `clock` are the same. A ping, its
answer, a relayed ping, a suspicion, a join and an admin join are all `Learn`.

In `MemberIterator` a call of `next()` is a step per turn of its loop, with nothing
in between, and the list is an array in whose middle addresses are inserted. In
`UpdateRollup` time goes in ticks, and updates are told apart by the burst they
belong to.

In `RBTree` a tree is a record of the nodes by their value, each with its color, its
children and its string, and the loops of `insert` and `remove` are recursive
operators with the loop's variables. `TreeRing` is shown to implement `HashRing` under the
mapping `points <- Contents(tree)`. A server whose points are all taken has
none, and the removal of a server takes the points that others lost to it with it:
`HashRing` says so, because the code does so. `lookupN` is compared for n > 0: its
loop runs once before it looks at n, so that `lookupN(key, 0)` returns one server.

In `RequestProxy` a ring is its servers and its points, as in `HashRing`: a point that
two nodes claim is with the one that came first, and goes when either leaves. The
checksum is computed from the names of the servers only (`Checksum`), so that it does
not show who came first. A request carries the checksum at its lookup (`looked`, which the
code does not keep) and that at its sending (`head`); `handled` records which of its keys
the handler owns in its own ring. The rings begin with all nodes, each ring joined in an order of
its own. The nodes, their points and the hashes of the keys are parameters; of the order
on hashes it is only assumed that the first point of a set from a hash on is also the
first of every smaller set that it is in.
The answer and the handling of a request are one step, an
answer under way longer is a request under way longer. A timeout at the sender
leaves the request on the wire, so that it may be handled after it was sent again.

## What the runs check

Runs that pass:

| Run | Instance | Shows |
|---|---|---|
| `RingpopNode.cfg` | two addresses, clock up to 3, changesets with every status and incarnation, about 77,000 states | types, `LocalView`, `TimersGuardSuspects`, `RingFollowsMembership`, `RumoursAreCurrent`, `DestroyedIsQuiet`, of every step `SuspectPeriodKept` and what `FailureDetection` promises of it (`ImplementsDetection`), and with fair timers `SuspectPeriodEnds` |
| `Cluster.cfg` | three nodes, one of which loses or delays a ping, crashes and restarts, or leaves and rejoins; one ping awaited at a time, the next one sent when no late ping is left, piggyback factor 1, about 780,000 states | `IncarnationsOwned`: nobody ever holds, spreads or sends an incarnation of a node that the node has not given itself; a ping that is over leaves nothing on the wire that could be taken for an answer (`TypeOK`); and the lists do what `MemberViews` promises (`ImplementsViews`) |
| `ClusterConverge.cfg` | three nodes; one of them loses or delays a ping, crashes, or leaves and may rejoin; a late ping may arrive at any time later, about 470,000 states | `Converges`: the nodes that gossip come to agree, on a list that holds nobody faulty who runs and nobody alive who does not |
| `Gossip.cfg` | four starts, two slots for pings | `OnePing`, a rate timer if and only if gossip runs (`TypeOK`), `PeriodsRecur`, `StoppedDiesOut` |
| `PingReq.cfg` | a target, up to three peers, incarnations up to 3 | `CalledBackOnce`, `VerdictFits`, `OnlyAliveIsSuspected`, `Concludes` |
| `JoinSender.cfg` | six hosts, three of them preferred, joinSize 2, factor 2, nine failures | `JoinedOnce`, `AskedInTurns`, `DestroyedDoesNotJoin`, `JoinEnds` |
| `MemberIterator.cfg` | three members and one that joins, any order, one call of `getStats` or restart of gossip | `RoundIsComplete`, `ServedAgain` |
| `UpdateRollup.cfg` | an interval of 20 ticks | `OneEntryPerBurst`, `PausesFlush` |
| `TreeRing.cfg` | five servers, fifteen points, of which some collide within a server and between two | `TreeIsSound`, `LookupsAgree` for every hash and every n, `ImplementsHashRing` |
| `RequestProxy.cfg` | a sender and two receivers, five points, one of them claimed by the sender and a receiver, two keys, one retry, two ring changes, about 240,000 states | `AnsweredOnce`, `AttemptsBounded`, `OwnerIfSettled`: who accepts a request owns its keys in its own ring, but for keys at the shared point; and `Concludes` |

Why the bounds are enough to meet the interesting cases: the rules compare two
records of one address, so that one peer and three clock readings give every pair
of status and of older, equal and newer incarnation, and the parts of the state
are maps whose entries do not influence one another (the proofs confirm it for
any number of addresses). Four starts of gossip allow two loops to be left over and the
third stopped; two slots would show a second ping. Three peers give every mixture
of answers with a last one. Six hosts make a first group of four, a shorter second
group at the end of the round, and later rounds. One retry and two ring changes
give a change before the sending and another one before the receiving or the
retry; one of the five points is claimed by two nodes, one key hashes to it, and the other
to a point of one node's. Three nodes are an asker, a target and a relay, and with the piggyback factor 1
a rumour is lost with the message that carries it, so that the full sync has to
work. One trouble per behaviour keeps the cluster finite: what it leaves behind
goes on with every interleaving, and the nodes are alike, so that it is always the
same one that has it. Restarts are in
`Cluster.cfg` only, the liveness check with them does not end in reasonable time.
Five servers make trees of four levels and every case of rotation and borrowing; the
order in which servers come and go is free.

Runs that find the code to disagree with its documents (the quotations are in
`PROJECT.json` "findings"):

| Run | Property | What happens |
|---|---|---|
| `RingpopNodeSuspect.cfg` | `SuspectBecomesFaulty` | leave, rejoin: `reenable` starts no timer for members that are suspect already, and they stay suspect |
| `ClusterRejoin.cfg` | `ConvergesToOne` | a node leaves, rejoins and leaves again, and nothing fails: who missed the rejoin keeps the first leave, since a leave does not override a leave at any incarnation; full syncs go back and forth without effect until the node rejoins |

Other behaviour of the code that is followed by the models and may surprise:

- A leave before the node is ready stops the protocols, but the change is dropped
  from the stash: the node stays alive to itself (`server/admin-leave-handler.js:48`).
- A node that has left and refutes a rumour is alive without gossip; an admin join
  then takes the other branch, which does not start it
  (`server/admin-join-handler.js:36`).
- `set` does not adjust the piggyback limit (`lib/membership-set-listener.js:46`).
- Stop and start during a ping make two loops of which one handle is kept, so that
  the next stop leaves one (`lib/swim/gossip.js:118`). `StoppedDiesOut` shows that
  it ends with its next period.
- The destination of a request is looked up before the body is read and the channel
  identified, the checksum is taken afterwards: a ring that changes in between
  passes the check (`lib/request-proxy/send.js:140`). `OwnerIfSettled` says what
  holds when its servers do not change.
- When the peers of a ping-req round give different errors, one "unreachable" among them
  is enough for a suspicion (`lib/swim/ping-req-sender.js:248`); the comment above it
  (232-237) says that all errors must be of that type. `VerdictFits` says of a round what
  both say: one success outweighs all errors, nobody is suspected before all have answered
  or when none of them says that it could not reach the target, nor let off when all say
  so. It leaves the mixture open.
- With joinSize or parallelismFactor 0 the first group of a join is empty, nobody is asked,
  and nothing ends the join (`lib/swim/join-sender.js:385`). `JoinSender.cfg` asks for
  two hosts, so that `JoinEnds` says nothing of it.
- Two servers with a common point: the first to join owns it (`lib/rbtree.js:114`), and the
  checksum is that of the names (`lib/ring.js:96`). Two rings with equal checksums may map
  a key at that point differently, and a receiver accepts, under enforced consistency, a
  request for a key that its own ring gives to another node. `OwnerIfSettled` is about the
  keys at all other points.
- `getStats` sorts the member list in place, so that a look at the statistics makes
  the iterator skip members of the present round (`lib/membership.js:122`);
  `RoundIsComplete` is about the other rounds, and `ServedAgain` about all of them.

`CHECK_DEADLOCK FALSE` stands where a model ends: a join that is over, a request
that is answered.

## Fairness

- `RingpopNode`: a timer of suspicion that is not cleared fires (`setTimeout`).
- `Gossip`: period timers fire; every ping and ping-req is answered or times out,
  since each is sent with `pingTimeout` or `pingReqTimeout`. No operator call is fair.
- `PingReq`: every ping-req is answered or times out.
- `JoinSender`: the retry timer fires, every request is answered or times out
  (`joinTimeout`).
- `Cluster`: while anything can be sent, received or answered, something is, and the
  rounds see to it that nobody is left out (`Talk`); suspicion timers fire
  (`Timeout`); a join is tried again until it is answered (`Join`). Failures,
  crashes, restarts and operators are not fair, and there is a finite number of them.
- `MemberIterator`: the loop of `next()` runs, and while gossip runs the protocol calls
  it again (`gossiping /\ Call`). After `stop` nobody need call it (`gossip.js:69`,
  `117`), so that `ServedAgain` is about members that stay pingable while gossip, from
  some time on, goes on running.
- `UpdateRollup`: time goes on, and a timer that is due fires, at whatever delay.
- `RequestProxy`: bodies are read, a channel is identified or fails, requests time
  out, retry timers fire, the local application answers. Receivers are not fair.

## What is proved

`RingpopNodeProofs` proves for every finite set of addresses, any set of
changesets and any bound of the clock:

- `TypeCorrect`, `LocalViewHolds`, `TimersGuardSuspectsHolds`,
  `RingFollowsMembershipHolds`, `RumoursAreCurrentHolds`,
  `StoppedMeansNoTimersHolds`, `DestroyedIsQuietHolds`: the invariants;
- `NoRegressHolds` (the member list only goes forward; no run checks it beside the
  refinement, which says more), `SuspectPeriodKeptHolds`: the properties of steps;
- `ImplementsDetectionHolds`: the refinement of `FailureDetection`.

The invariants are not inductive one by one. `IInv` joins them and adds what they
need of one another: the rumours are only current if update and table agree on
what was accepted, the timers only sound if incarnations do not go back, the local
view only true if no incarnation of the local member is ahead of the clock, which
in turn needs to be known of the stash and of the rumours. `NodeStateProofs` proves
that each function of `NodeState` (apply, set, issue, stop, start, reenable)
keeps the parts of `IInv` that concern it; `RingpopNodeProofs` has one step per
action that composes these lemmas, and concludes `Invariance`; the theorems follow.

The refinement goes by calls again. `Heard(n, m)` says of two states of a node that
the peers have moved or are kept as `FailureDetection` has it, and that a new
incarnation of the local member is alive. `HeardUpdates` proves it of any updates that
are news, as the listener of `updated` applies them; `AcceptedIsNews` that the override
rules accept nothing else; `ReadyAsUpdated` that the other listener, of `set`, leaves
nothing behind that it should have stopped or removed, since a node that is not ready
knows only itself. No step calls for two updates that may both accept something: news
of news need not be news, because of leaves. What the local member does follows from
`IInv` before and after the step (`OwnMoves`), and this is where the assumption about
the environment is used: a leave of a later incarnation than the node has assigned
itself would not be its own word.

Assumed: the named assumptions on the constants, and of the environment what
`Deliverable` says, that nobody asserts an incarnation of this node which is
later than the one it has assigned itself. The next module proves that this is no
restriction: the nodes of a cluster are such an environment to each other.

`ClusterProofs` proves for any finite set of nodes and any bounds, so for any number of
messages under way, losses, late answers, crashes, restarts and leaves:

- `IncarnationsOwnedHolds`: nobody lists, stashes, spreads or sends an incarnation of
  a node that this node has not given itself;
- `NodesAreSoundHolds`: every node keeps the local view, the timers, the ring and the
  rumours that `RingpopNodeProofs` proves of one node;
- `EnvironmentIsConsistentHolds`: no message under way to whomever asserts an incarnation
  of a running node that is later than the one it lists itself, which is what
  `RingpopNode` assumes of its environment.

Neither of the first two is inductive without the other: a node only answers a lie by a later
incarnation of its own because its local member is sound, and its local member is
only sound because nobody tells it of an incarnation it has not reached. `CInv` adds
what carries incarnations from one node to the next: the stash of a node that
joins, the rumours, what a join has collected, and every message on the wire
(`AnswersOwned`, `WireOwned`); that a running node lists itself (`UpKnown`); and
that a node only pings members it lists and forgets none of them while it runs
(`PingsKnown`), which a failed ping needs to make its target suspect. The third follows from the first
once a running node is known to list itself at its last incarnation (`OwnClocks`, see
below). The lemmas of
`NodeStateProofs` are used once per call; one lemma per kind of step says when all
other nodes are left as sound as they were.

`ConversationsHold` and `TypeCorrect` of the same module are about the conversations.
`Conversations` says of
every node that one message at most is in flight of the ping it has not ended; where
that message may be, given what the node waits for (`Fits`); and that a relay keeps
what it needs for its answer exactly as long as that message is the relayed ping or
its answer. That is why a verdict cannot be taken for one of another round, and why
neither a wait nor an entry of a relay is left over. An attempt to prove the type
invariant without it showed a flaw of the model that no run had met: with two
crashes, the closures of the relays of a crashed asker were kept for ever. `Crash` now
takes them away together with the pings they belong to.

`ImplementsViewsHolds` is the refinement: `Cluster` implements `MemberViews` for any
number of nodes. The promise that is hard to keep is about leaves. A leave overrides
what is not a leave at the same incarnation, so a rumour that is as old as the
rejoin of its subject must not have an incarnation that the subject still has.
`NotLeft` gives of every node the first incarnation nobody may say it has left: its
present one, unless it has left or does not run. `VInv` adds to the other invariants
that all leaves in lists, stashes, rumours, collected answers and messages are below it
(`NothingUntold`), that a running node holds itself at its last incarnation
(`OwnClocks`), and that a process that has ended relays nothing (`RelaysRun`). A node
on its way through a step is `Reached` from the one before: it has gone forward only,
has kept its word, and tells no leave too many. One lemma per call says that `Reached`
goes on, one per action that the step is `Learn`, and `AdminLeave`, `Crash` and
`Restart` are the three other actions of `MemberViews`.

`GossipProofs` proves `TypeCorrect` and `OnePingHolds` for any bounds. The flag
`isPinging` alone says nothing of pings; the invariant relates the two: no ping is in
progress while the flag is down, there is one rate interval exactly while gossip
runs, and no two pings at all, whoever asked for them and however many loops
`stop()` has left behind.

`PingReqProofs` proves `TypeCorrect`, `CalledBackOnceHolds`, `VerdictFitsHolds` and
`OnlyAliveIsSuspectedHolds` for any peers and any updates of the target meanwhile. Its
invariant describes the round before it is over (all answers are errors, and not
everybody has answered) and afterwards (one success, or everybody's errors and what
they amount to), and ties the two to the flag `calledBack`. That the conclusion comes
with the last answer follows from the cardinalities of the errors and the peers.

`RequestProxyProofs` proves `OwnerIfSettledHolds` and `AttemptsBoundedHolds` for
any nodes, points, keys and hashes, any number of retries and of ring changes, whatever
points collide and in whatever order the nodes came. What carries over from one ring to
another with the same checksum is the owner of a point that one node alone claims: such
a point is in every ring that has its server, and all points of a ring are points of its
servers (`SoundRings`, kept by `AddSound` and `RemoveSound`), so that a key which it maps
in the ring of all points of these servers is mapped by it in each of them
(`SettledOwner`). The invariant says of every part, of every request on the wire and of
every handled one that its destination is that owner, for each of its keys that has one,
by the servers of its lookup (`OwnedBy`); where consistency is enforced the handler's ring
has the servers whose checksum was sent, so that the handler owned, when it accepted the
request, the keys that these servers map to it. For the second theorem it numbers
the attempts of a part: no attempt is on the wire twice, handled twice or both, and none has a number above
what the retries allow, so that the numbers inject what was handled into
1..MaxRetries + 1. `AnsweredOnceHolds` counts: `pending` is the number of the parts
without an answer, each answer belongs to a part that was open, and the callback is
used up only by the last of them or by an error (`AInv`). `TypeCorrect` rests on the
first two invariants, since a retry may not be numbered above its limit. Assumed are a
finite set of nodes, that their points are points, and what `FirstAssumption` says of
the first point from a hash on.

`JoinSenderProofs` proves `TypeCorrect`, `JoinedOnceHolds`, `AskedInTurnsHolds` and
`DestroyedDoesNotJoinHolds` for any hosts, preferred or not, any sizes, limits and
orders of answers. A join is waiting for its retry, asking a group, or done (`Pausing`,
`Asking`, `Done`). While it asks, every host of the group is silent, has joined or has
failed, and none of them is to be asked in this round or has joined before, so that
a late answer of an earlier group cannot be counted (`GroupIsSound`); what a group
lacks is what the join lacks. `Turns` says that within a round all hosts that are left
have been asked equally often, and those that were asked once more, the preferred ones
first.

`LocalObjectsProofs` is about three objects that nothing interleaves with, but that long
sequences of calls might bring out of order:

- `TypeCorrect` and `RoundIsCompleteHolds` of `MemberIterator`, for any number of
  members. `RoundIsSound` says in the middle of a round what its end needs: a member
  that is entitled to a turn and has not had it is still ahead of the index (`Ahead`).
  An insertion before the index moves the members behind it one position on, so that
  one is met twice, and none is lost; an insertion after it is met in this round.
  It holds of rounds in which nothing was sorted or shuffled, as the property says.
  Its hypothesis is no more than the code gives, since the list is only reordered when a
  round is over, by a restart of gossip, or by `getStats`.
- `OneEntryPerBurstHolds` of `UpdateRollup`, for any positive interval: what is buffered
  is of the burst of the last update, because the timer is renewed with each update and
  an update that comes after the interval flushes first, even if the timer is late.
- `PointsAreSoundHolds` of `HashRing`, for any servers and any points of theirs:
  whatever the history of additions and removals, every point belongs to a server of
  the ring that claims it, and a server of the ring has the points that are its alone.
  The invariant adds that servers are servers, and one lemma about the replacement of
  points serves all three calls. It carries over to the tree by the refinement that
  `TreeRing.cfg` checks.

Only model-checked: liveness, since the prover has no ENABLED and fairness rests on it
(`SuspectPeriodEnds`, `Converges`, `PeriodsRecur`, `StoppedDiesOut`, `Concludes`,
`JoinEnds`, `ServedAgain`, `PausesFlush`); and `RBTree` with `TreeRing`, whose operators
are recursive: what a recursion over data computes cannot be proved here, so that the
balance of the tree, its lookups and its refinement of `HashRing` are checked for five
servers and every order of their coming and going.

## What is not modelled

- The checksums as strings or numbers: equality of checksums is equality of what
  they are computed from, of a ring the names of its servers.
- A list of bootstrap hosts that names a host twice, which `JoinSender` would have to
  count twice, as the code does.
- The contents of requests, HTTP heads, logging, statistics, events.
- The length of timeouts and periods (the rollup's excepted): a timer fires at some
  later time.
- A second bootstrap during the first, a clock that goes back, a changeset with two
  changes of one address (no node sends one).
- In `Cluster`: partitions, which need a failure per pair of nodes, and a message
  that arrives twice, which TChannel does not do.
- Error constructors, option parsing, host files, benchmarks, and the command line
  tools of `scripts/`, which run and print and keep nothing.

## Plan

Done, in this order, the most important behaviour first: `MembershipRules`,
`NodeState`, `RingpopNode` with its proofs, `Gossip`, `PingReq`, `JoinSender`,
`RequestProxy` with its first two theorems; then `Cluster` (which took the place of
a model of replicas that only apply the same changes in different orders),
`HashRing` with its proof, `RBTree`, `TreeRing`, `MemberIterator`, `UpdateRollup`; then
the proofs about `Cluster`, `Gossip` and `PingReq`; then those about `JoinSender`, the
answers of `RequestProxy` and the conversations of `Cluster`, and `MemberViews` with the
proof that `Cluster` implements it; then `FailureDetection` with the proof that
`RingpopNode` implements it, and the proofs about the iterator and the rollup.

Next:

1. `Cluster` with a bootstrap of all nodes from nothing.
2. `FailureDetection` of every node of a cluster. A verdict is two updates of one
   member, what the peer's answer says and the suspicion, so that `Cluster` needs two
   steps of the abstract specification where `RingpopNode` needs one.
