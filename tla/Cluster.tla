------------------------------ MODULE Cluster ------------------------------
(***************************************************************************)
(* Several ringpop nodes that ping one another over a network that loses   *)
(* and delays messages, while nodes crash, restart, leave and rejoin.      *)
(* NodeState gives what each call does to a node; this module composes the *)
(* calls of different nodes: a ping with the answer it gets, the round of  *)
(* ping-reqs after a ping that failed, a join with the hosts that answer.  *)
(*                                                                         *)
(* Date.now() is modelled by what matters of it: whenever a node reads it  *)
(* to give itself an incarnation, the reading is later than the one before,*)
(* across restarts too.  clock holds the last incarnation of each node.    *)
(*                                                                         *)
(* There is trouble a limited number of times: a ping fails though the     *)
(* member is up, a process ends, a node leaves.  The properties ask what   *)
(* becomes of the views that the trouble leaves behind.                    *)
(***************************************************************************)
EXTENDS NodeState

CONSTANTS
  JoinSize,     \* hosts that must answer a join: min(3, the other hosts)
  MaxWire,      \* a node pings while fewer messages are awaited,
  MaxLate,      \* and no more pings than this are late
  Troubles,     \* the kinds of trouble there may be
  Troubled,     \* the nodes that may have it
  MaxTrouble    \* bound on failures, crashes and leaves together

ASSUME BoundsAssumption ==
  /\ {JoinSize, MaxWire, MaxLate, MaxTrouble} \subseteq Nat
  /\ Troubles \subseteq {"failure", "crash", "restart", "leave"}
  /\ Troubled \subseteq Addr

VARIABLES
  node,         \* the state of each node, see NodeState
  up,           \* the nodes whose process runs
  clock,        \* the last incarnation each node gave itself
  pinging,      \* the ping of each node that is not over: see Pings
  joined,       \* the hosts that have answered the join of each node
  answers,      \* what they answered, merged
  asked,        \* what each node needs to answer the ping-reqs it handles
  todo,         \* the pings that are left of the present round, as pairs
  wire,         \* the messages in flight
  trouble       \* how many failures, crashes and leaves there were

joins == <<joined, answers>>
vars == <<node, up, clock, pinging, joins, asked, todo, wire, trouble>>

\* ringpop.isPinging: no ping, one that waits for its answer, or one that
\* failed and is followed by ping-reqs.
NoPing == [to |-> {}, failed |-> FALSE]
Pings == {NoPing} \cup [to : {{a} : a \in Addr}, failed : BOOLEAN]

Inc(n, a) == n.members[a].inc

\* The reading of Date.now() that node a makes next.
Now(a) == clock[a] + 1

\* The clock of a node that has become n.
ClockOf(a, n) ==
  IF HasMember(n, a) /\ Inc(n, a) > clock[a] THEN Inc(n, a) ELSE clock[a]

\* Node a becomes n, and its clock follows.
SetNode(a, n) ==
  /\ node' = [node EXCEPT ![a] = n]
  /\ clock' = [clock EXCEPT ![a] = ClockOf(a, node'[a])]

\* Something goes wrong, once more.
Trouble(kind, a) ==
  /\ kind \in Troubles /\ a \in Troubled
  /\ trouble < MaxTrouble
  /\ trouble' = trouble + 1

----------------------------------------------------------------------------
(* A cluster in which everybody is alive to everybody, and the news of it   *)
(* have been spread: where a quiet bootstrap of all nodes ends.             *)

Formed(a) ==
  [NewNode EXCEPT
     !.ready = TRUE,
     !.members = [b \in Addr |-> [status |-> "alive", inc |-> 1]],
     !.ring = Addr,
     !.maxCount = AdjustedCount(Addr),
     !.gossiping = TRUE]

Init ==
  /\ node = [a \in Addr |-> Formed(a)]
  /\ up = Addr
  /\ clock = [a \in Addr |-> 1]
  /\ pinging = [a \in Addr |-> NoPing]
  /\ joined = [a \in Addr |-> {}]
  /\ answers = [a \in Addr |-> NoMap]
  /\ asked = [a \in Addr |-> NoMap]
  /\ todo = {}
  /\ wire = {}
  /\ trouble = 0

----------------------------------------------------------------------------
(* Messages.  Each belongs to a ping of its asker, the node that waits. *)

\* A ping of a to b, on behalf of asker: a itself or, if a relays it, another.
\* A ping is late when nobody waits for its answer any more.
Ping(a, n, b, asker) ==
  [kind |-> "ping", asker |-> asker, from |-> a, to |-> b,
   changes |-> SenderBatch(n), inc |-> Inc(n, a), sum |-> n.members,
   late |-> FALSE]

Answer(m, changes) ==
  [kind |-> "answer", asker |-> m.asker, from |-> m.to, to |-> m.from,
   changes |-> changes]

PingReq(a, p) ==
  [kind |-> "ping-req", asker |-> a, from |-> a, to |-> p,
   changes |-> SenderBatch(node[a]), inc |-> Inc(node[a], a),
   sum |-> node[a].members]

Verdict(p, asker, ok, changes) ==
  [kind |-> "verdict", asker |-> asker, from |-> p, to |-> asker, ok |-> ok,
   changes |-> changes]

\* The messages that belong to what a waits for.
Pending(a) == {m \in wire : m.asker = a /\ ~(m.kind = "ping" /\ m.late)}

\* Those that somebody waits for.
Awaited == UNION {Pending(a) : a \in Addr}

\* Node n at a has received these changes.
Receive(a, n, changes) == Update(a, n, changes, Now(a))

\* What n at b answers to a request whose sender has incarnation inc and
\* membership sum, the checksum.
AnswerTo(b, n, from, inc, sum) == ReceiverBatch(b, n, from, inc, n.members = sum)

----------------------------------------------------------------------------
(* A ping and its answer *)

\* Who pings whom in a round: a node that gossips, each member it may ping.
MayPing(a, b) ==
  a \in up /\ node[a].ready /\ node[a].gossiping /\ IsPingable(a, node[a], b)

AllPings == {p \in Addr \X Addr : MayPing(p[1], p[2])}

\* The pings that are left of this round or, if there are none, of the next.
Left ==
  LET pings == AllPings
  IN  IF todo \cap pings # {} THEN todo \cap pings ELSE pings

\* pingMemberNow.  A ping to a process that does not run is not delivered.
SendPing(a, b) ==
  /\ pinging[a] = NoPing
  /\ Cardinality(Awaited) < MaxWire /\ Cardinality(wire \ Awaited) <= MaxLate
  /\ <<a, b>> \in Left
  /\ wire' = IF b \in up THEN wire \cup {Ping(a, node[a], b, a)} ELSE wire
  /\ pinging' = [pinging EXCEPT ![a] = [to |-> {b}, failed |-> FALSE]]
  /\ todo' = Left \ {<<a, b>>}
  /\ SetNode(a, IssueAsSender(node[a]))
  /\ UNCHANGED <<up, joins, asked, trouble>>

\* handlePing
HandlePing(m) ==
  /\ m \in wire /\ m.kind = "ping" /\ m.to \in up
  /\ \E n \in {Receive(m.to, node[m.to], m.changes)} :
       /\ SetNode(m.to, IssueAsReceiver(n, m.from, m.inc))
       /\ wire' = (wire \ {m}) \cup
            IF m.late THEN {}
            ELSE {Answer(m, AnswerTo(m.to, n, m.from, m.inc, m.sum))}
  /\ UNCHANGED <<up, pinging, joins, asked, todo, trouble>>

EndPing(a) == pinging' = [pinging EXCEPT ![a] = NoPing]

\* The answer arrives at the node that asked: the ping is over.
HandleAnswer(m) ==
  /\ m \in wire /\ m.kind = "answer" /\ m.to = m.asker
  /\ SetNode(m.to, Receive(m.to, node[m.to], m.changes))
  /\ wire' = wire \ {m}
  /\ EndPing(m.to)
  /\ UNCHANGED <<up, joins, asked, todo, trouble>>

----------------------------------------------------------------------------
(* A ping that fails, and the round of ping-reqs.  One peer is asked: the   *)
(* one there is in a cluster of three.  Module PingReq has a whole round.   *)

Peers(a) == {p \in Addr \ pinging[a].to : IsPingable(a, node[a], p)}

\* sendPingReq, to peer p if there is one; W is what is left on the wire.
SendPingReq(a, W) ==
  \/ /\ Peers(a) = {}
     /\ wire' = W
     /\ EndPing(a)
     /\ UNCHANGED <<node, clock>>
  \/ \E p \in Peers(a) :
       /\ wire' = IF p \in up THEN W \cup {PingReq(a, p)} ELSE W
       /\ pinging' = [pinging EXCEPT ![a].failed = TRUE]
       /\ SetNode(a, IssueAsSender(node[a]))

\* The ping of a times out: nobody was there, or the network failed.  Then
\* the ping is lost, or it is late, and an answer is not listened to.
PingFails(a) ==
  /\ a \in up
  /\ pinging[a] # NoPing /\ ~pinging[a].failed
  /\ \/ Pending(a) = {} /\ SendPingReq(a, wire) /\ UNCHANGED trouble
     \/ /\ Pending(a) # {}
        /\ Trouble("failure", a)
        /\ \E lost \in BOOLEAN :
             SendPingReq(a, (wire \ Pending(a)) \cup
               {[m EXCEPT !.late = TRUE] :
                  m \in {x \in Pending(a) : x.kind = "ping" /\ ~lost}})
  /\ UNCHANGED <<up, joins, asked, todo>>

\* handlePingReq at p: the changes are applied, and the ping is relayed.
\* What p needs for its answer is kept in its closure.
HandlePingReq(m) ==
  /\ m \in wire /\ m.kind = "ping-req" /\ m.to \in up
  /\ \E p \in {m.to}, t \in pinging[m.asker].to :
       \E n \in {Receive(p, node[p], m.changes)} :
         /\ SetNode(p, IssueAsSender(n))
         /\ wire' = (wire \ {m}) \cup {Ping(p, n, t, m.asker)}
         /\ asked' = [asked EXCEPT ![p] = Overlay(@,
                         [x \in {m.asker} |-> [inc |-> m.inc, sum |-> m.sum]])]
  /\ UNCHANGED <<up, pinging, joins, todo, trouble>>

\* The end of handlePingReq at p, which has become n: the ping that was
\* relayed, m, had an answer or had none.
AnswerPingReq(p, n, m, ok) ==
  LET req == asked[p][m.asker]
  IN  /\ SetNode(p, IssueAsReceiver(n, m.asker, req.inc))
      /\ wire' = (wire \ {m}) \cup
           {Verdict(p, m.asker, ok, AnswerTo(p, n, m.asker, req.inc, req.sum))}
      /\ asked' = [asked EXCEPT ![p] = [x \in DOMAIN @ \ {m.asker} |-> @[x]]]
      /\ UNCHANGED <<up, pinging, joins, todo, trouble>>

RelayAnswered(m) ==
  /\ m \in wire /\ m.kind = "answer" /\ m.to # m.asker
  /\ \E n \in {Receive(m.to, node[m.to], m.changes)} : AnswerPingReq(m.to, n, m, TRUE)

\* The relayed ping times out.  If the target is up, this is the trouble
\* that made the first ping fail, and it is not counted again.
RelayFails(m) ==
  /\ m \in wire /\ m.kind = "ping" /\ m.from # m.asker
  /\ AnswerPingReq(m.from, node[m.from], m, FALSE)

\* Fault: the suspicion is of the next incarnation.
SuspectNext(a, n, t) == MakeUpdate(a, n, t, "suspect", Inc(n, t) + 1, Now(a))

\* makeSuspect, of the incarnation that a holds now.
Suspect(a, n, t) == MakeUpdate(a, n, t, "suspect", Inc(n, t), Now(a))

\* The peer answers, and the asker judges.
HandleVerdict(m) ==
  /\ m \in wire /\ m.kind = "verdict"
  /\ \E n \in {Receive(m.to, node[m.to], m.changes)}, t \in pinging[m.to].to :
       SetNode(m.to, IF m.ok THEN n ELSE Suspect(m.to, n, t))
  /\ wire' = wire \ {m}
  /\ EndPing(m.to)
  /\ UNCHANGED <<up, joins, asked, todo, trouble>>

\* Fault: a verdict that comes too late is listened to.
PingReqUnansweredHeard(a) ==
  /\ a \in up
  /\ pinging[a].failed
  /\ \A m \in Pending(a) :
       m.kind \in {"ping-req", "verdict"} /\ pinging[a].to \subseteq up
  /\ EndPing(a)
  /\ UNCHANGED <<node, up, clock, joins, asked, todo, wire, trouble>>

\* The peer does not answer, and there is no verdict: the peer is down, or
\* the ping-req or its answer is lost.  The latter is the trouble that made
\* the ping of a member that is up fail, and it is not counted again.
PingReqUnanswered(a) ==
  /\ a \in up
  /\ pinging[a].failed
  /\ \A m \in Pending(a) :
       m.kind \in {"ping-req", "verdict"} /\ pinging[a].to \subseteq up
  /\ wire' = wire \ Pending(a)
  /\ EndPing(a)
  /\ UNCHANGED <<node, up, clock, joins, asked, todo, trouble>>

\* The suspect period of b at a is over.
SuspicionTimeout(a, b) ==
  /\ a \in up
  /\ b \in DOMAIN node[a].timers
  /\ SetNode(a, MakeUpdate(a, node[a], b, "faulty", node[a].timers[b], Now(a)))
  /\ UNCHANGED <<up, pinging, joins, asked, todo, wire, trouble>>

----------------------------------------------------------------------------
(* Crashes, restarts and joins *)

\* What a has sent may still arrive, but nobody waits for what it asked: the
\* pings that are relayed for it are lost, and what their relays need with
\* them.  What was sent to it is gone; a ping relayed to it will time out.
WireAfterCrash(a) ==
  {m \in wire : /\ m.to = a => m.kind = "ping" /\ m.from # m.asker
                /\ m.from = a \/ m.asker = a => m.kind \in {"answer", "verdict"}
                /\ m.asker # a}
  \cup {[m EXCEPT !.late = TRUE] :
           m \in {x \in wire : x.kind = "ping" /\ x.asker = a /\ x.from = a}}

\* The process ends.
Crash(a) ==
  /\ Trouble("crash", a)
  /\ a \in up
  /\ up' = up \ {a}
  /\ wire' = WireAfterCrash(a)
  /\ asked' = [p \in Addr |-> IF p = a THEN NoMap
                              ELSE [x \in DOMAIN asked[p] \ {a} |-> asked[p][x]]]
  /\ node' = [node EXCEPT ![a] = NewNode]
  /\ pinging' = [pinging EXCEPT ![a] = NoPing]
  /\ joined' = [joined EXCEPT ![a] = {}]
  /\ answers' = [answers EXCEPT ![a] = NoMap]
  /\ UNCHANGED <<clock, todo>>

\* A new process at the same address, and its bootstrap: it knows itself.
Restart(a) ==
  /\ "restart" \in Troubles
  /\ a \notin up
  /\ up' = up \cup {a}
  /\ SetNode(a, MakeUpdate(a, NewNode, a, "alive", Now(a), Now(a)))
  /\ UNCHANGED <<pinging, joins, asked, todo, wire, trouble>>

\* handleJoin at b, for a.
HostAfterJoin(a, b) ==
  MakeUpdate(b, node[b], a, "alive", Inc(node[a], a), Now(b))

IsJoining(a, b) ==
  /\ a \in up /\ ~node[a].ready
  /\ b \in up \ {a}
  /\ b \notin joined[a]

\* A host answers the join.  With the last answer that is needed the join is
\* complete, and the node is ready.
JoinAnswered(a, b) ==
  /\ IsJoining(a, b)
  /\ \E host \in {HostAfterJoin(a, b)} :
     \E merged \in {MergeChangeset(a, answers[a], FullSync(b, host))} :
       LET done == Cardinality(joined[a]) + 1 >= JoinSize
       IN  /\ node' = [node EXCEPT
                 ![b] = host,
                 ![a] = IF done THEN BecomeReady(a, Receive(a, @, merged)) ELSE @]
           /\ joined' = [joined EXCEPT ![a] = IF done THEN {} ELSE @ \cup {b}]
           /\ answers' = [answers EXCEPT ![a] = IF done THEN NoMap ELSE merged]
  /\ clock' = [clock EXCEPT ![b] = ClockOf(b, node'[b])]
  /\ UNCHANGED <<up, pinging, asked, todo, wire, trouble>>

\* The host's answer is lost, or late.
JoinLost(a, b) ==
  /\ IsJoining(a, b)
  /\ SetNode(b, HostAfterJoin(a, b))
  /\ UNCHANGED <<up, pinging, joins, asked, todo, wire, trouble>>

----------------------------------------------------------------------------
(* The operator *)

AdminLeave(a) ==
  /\ Trouble("leave", a)
  /\ a \in up /\ node[a].ready
  /\ node[a].members[a].status # "leave"
  /\ SetNode(a, StopProtocols(
                  MakeUpdate(a, node[a], a, "leave", Inc(node[a], a), Now(a))))
  /\ UNCHANGED <<up, pinging, joins, asked, todo, wire>>

AdminJoin(a) ==
  /\ a \in up /\ node[a].ready
  /\ node[a].members[a].status = "leave"
  /\ SetNode(a, Reenable(StartGossip(
                  MakeUpdate(a, node[a], a, "alive", Now(a), Now(a)))))
  /\ UNCHANGED <<up, pinging, joins, asked, todo, wire, trouble>>

----------------------------------------------------------------------------
Handle ==
  \E m \in wire :
    \/ HandlePing(m) \/ HandleAnswer(m)
    \/ HandlePingReq(m) \/ RelayAnswered(m) \/ RelayFails(m) \/ HandleVerdict(m)

Talk ==
  \/ \E a, b \in Addr : SendPing(a, b)
  \/ Handle
  \/ \E a \in Addr : PingFails(a) \/ PingReqUnanswered(a)

Timeout == \E a, b \in Addr : SuspicionTimeout(a, b)

Join == \E a, b \in Addr : JoinAnswered(a, b)

Next ==
  \/ Talk
  \/ Timeout
  \/ \E a \in Addr : Crash(a) \/ Restart(a)
  \/ Join
  \/ \E a, b \in Addr : JoinLost(a, b)
  \/ \E a \in Addr : AdminLeave(a) \/ AdminJoin(a)

Spec == Init /\ [][Next]_vars

\* What the code's scheduling gives: gossip goes on, round after round (todo
\* keeps the rounds complete), suspect periods end, and a join is tried again
\* until it is answered.
Fairness == WF_vars(Talk) /\ WF_vars(Timeout) /\ WF_vars(Join)

FairSpec == Spec /\ Fairness

----------------------------------------------------------------------------
(* Properties *)

\* Each node keeps its type, and a ping that is over leaves no trace.
TypeOK ==
  /\ \A a \in Addr : IsNode(node[a])
  /\ clock \in [Addr -> Nat]
  /\ pinging \in [Addr -> Pings]
  /\ \A m \in wire : m \in Pending(m.asker) => pinging[m.asker] # NoPing
  /\ \A a, b \in Addr : b \in DOMAIN asked[a] =>
       \E m \in wire : m.asker = b /\ a \in {m.from, m.to}

\* Nobody knows an incarnation of a node later than the node gave itself: in
\* lists, stashes, rumours, and on the wire.  Only the node itself may answer
\* a suspicion by a later one, or its answers would be overridden by lies.
IncarnationsOwned ==
  \A b \in Addr :
    /\ \A a \in Addr : \A f \in {node[a].members, node[a].stash, node[a].changes} :
         b \in DOMAIN f => f[b].inc <= clock[b]
    /\ \A m \in wire : b \in DOMAIN m.changes => m.changes[b].inc <= clock[b]

Gossiping == {a \in up : node[a].ready /\ node[a].gossiping}

\* The nodes that gossip hold the same list.
Agree == \A a, b \in Gossiping : node[a].members = node[b].members

\* Members that run are not held suspect or faulty, and those that do not
\* run are not held alive.
Truthful ==
  \A a \in Gossiping : \A b \in DOMAIN node[a].members \ {a} :
      IF b \in up THEN node[a].members[b].status \in {"alive", "leave"}
                  ELSE node[a].members[b].status \in {"faulty", "leave"}

\* When the trouble is over, the nodes that gossip come to hold one list and
\* keep it, and it tells who runs: dissemination, its limited rumours and the
\* full sync repair what lost pings, late ones, crashes and leaves have left.
Converges == <>[](Agree /\ Truthful)

Views == INSTANCE MemberViews WITH view <- [a \in Addr |-> node[a].members]

\* However messages cross, get lost or come late, and whoever crashes, leaves
\* or comes back meanwhile, the member lists do what MemberViews states: a
\* list never goes back, and no old rumour makes a node that has joined again
\* leave, or anybody believe that it has left.
ImplementsViews == Views!Spec

\* The nodes that gossip come to hold one list and keep it, whatever it says.
\* docs/architecture_design.md:51: "The cluster will eventually converge on
\* one membership checksum".
ConvergesToOne == <>[]Agree
=============================================================================
