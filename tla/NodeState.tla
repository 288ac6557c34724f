----------------------------- MODULE NodeState -----------------------------
(***************************************************************************)
(* The state of one ringpop node and the synchronous calls that change it. *)
(* JavaScript runs each call to completion, so each operator here is one   *)
(* whole call: Membership.prototype.update with the listener it emits to   *)
(* (suspicion timers, dissemination table, hash ring, piggyback limit),    *)
(* set, the make* functions, and the two ways to issue changes.            *)
(*                                                                         *)
(* A node is a record:                                                     *)
(*   ready       ringpop.isReady                                           *)
(*   members     membership.membersByAddress                               *)
(*   stash       membership.stashedUpdates, already merged                 *)
(*   timers      suspicion.timers: the incarnation number in the closure   *)
(*   stoppedAll  suspicion.isStoppedAll === true                           *)
(*   ring        the keys of ring.servers                                  *)
(*   changes     dissemination.changes, with piggybackCount as "count"     *)
(*   maxCount    dissemination.maxPiggybackCount                           *)
(*   gossiping   !gossip.isStopped                                         *)
(***************************************************************************)
EXTENDS MembershipRules

CONSTANT PiggybackFactor    \* dissemination.piggybackFactor, 15 by default

ASSUME FactorAssumption == PiggybackFactor \in Nat \ {0}

\* An entry of the dissemination table.
Rumor == [status : Status, inc : Nat, src : Addr, srcInc : Nat, count : Nat]

\* The shape of a node, and the types of its fields.
NodeShape(n) ==
  [ready : {n.ready}, members : {n.members}, stash : {n.stash},
   timers : {n.timers}, stoppedAll : {n.stoppedAll}, ring : {n.ring},
   changes : {n.changes}, maxCount : {n.maxCount}, gossiping : {n.gossiping}]

IsNode(n) ==
  /\ n \in NodeShape(n)
  /\ n.ready \in BOOLEAN
  /\ IsMap(n.members, Record)
  /\ IsMap(n.stash, Change)
  /\ IsMap(n.timers, Nat)
  /\ n.stoppedAll \in BOOLEAN
  /\ n.ring \subseteq Addr
  /\ IsMap(n.changes, Rumor)
  /\ n.maxCount \in Nat
  /\ n.gossiping \in BOOLEAN

NoMap == [a \in {} |-> 0]

\* A constructed RingPop object.  Dissemination.Defaults.maxPiggybackCount is 1.
NewNode ==
  [ready |-> FALSE, members |-> NoMap, stash |-> NoMap, timers |-> NoMap,
   stoppedAll |-> FALSE, ring |-> {}, changes |-> NoMap, maxCount |-> 1,
   gossiping |-> FALSE]

HasMember(n, a) == a \in DOMAIN n.members

\* A member that may be chosen as a ping or ping-req target.
IsPingable(self, n, a) ==
  HasMember(n, a) /\ a # self /\ n.members[a].status \in {"alive", "suspect"}

----------------------------------------------------------------------------
(* The parts of the state that follow an array of updates. *)

WithStatus(updates, S) == {a \in DOMAIN updates : updates[a].status \in S}

\* suspicion.start for the suspects.  It replaces a running timer, and does
\* nothing for the local member and while the subprotocol is stopped.
Started(self, n, updates) ==
  IF n.stoppedAll THEN {} ELSE WithStatus(updates, {"suspect"}) \ {self}

\* Fault: an alive update leaves the suspect period running.
TimersAfterNoStop(self, n, updates) ==
  LET stopped == WithStatus(updates, {"faulty", "leave"})
      kept    == [a \in DOMAIN n.timers \ stopped |-> n.timers[a]]
  IN  Overlay(kept, [a \in Started(self, n, updates) |-> updates[a].inc])

\* suspicion.stop for everyone else that was updated, then the starts.
TimersAfter(self, n, updates) ==
  LET stopped == WithStatus(updates, {"alive", "faulty", "leave"})
      kept    == [a \in DOMAIN n.timers \ stopped |-> n.timers[a]]
  IN  Overlay(kept, [a \in Started(self, n, updates) |-> updates[a].inc])

\* Fault: an address that is being disseminated keeps its entry.
ChangesAfterFirst(n, updates) ==
  Overlay([a \in DOMAIN updates |->
             [status |-> updates[a].status, inc |-> updates[a].inc,
              src |-> updates[a].src, srcInc |-> updates[a].srcInc,
              count |-> 0]],
          n.changes)

\* dissemination.recordChange for every update.  A change that was never
\* issued has no piggybackCount yet, which issueAs reads as 0.
ChangesAfter(n, updates) ==
  Overlay(n.changes,
          [a \in DOMAIN updates |->
             [status |-> updates[a].status, inc |-> updates[a].inc,
              src |-> updates[a].src, srcInc |-> updates[a].srcInc,
              count |-> 0]])

\* Fault: a member that leaves stays in the ring.
RingAfterNoLeave(n, updates) ==
  (n.ring \cup WithStatus(updates, {"alive"})) \ WithStatus(updates, {"faulty"})

\* Fault: a suspect loses its place in the ring.
RingAfterNoSuspect(n, updates) ==
  (n.ring \cup WithStatus(updates, {"alive"}))
    \ WithStatus(updates, {"suspect", "faulty", "leave"})

\* ring.addRemoveServers: all the additions, then all the removals.
RingAfter(n, updates) ==
  (n.ring \cup WithStatus(updates, {"alive"}))
    \ WithStatus(updates, {"faulty", "leave"})

\* Fault: the logarithm is of k, which may be 0.
CeilLog10Plain(k) ==
  IF k = 0 THEN -1 ELSE Cardinality({d \in 0..(k - 1) : 10^d < k})

\* Math.ceil(log10(k + 1)): the number of decimal digits of k, 0 for 0.
CeilLog10(k) == Cardinality({d \in 0..(k - 1) : 10^d <= k})

AdjustedCount(servers) == PiggybackFactor * CeilLog10(Cardinality(servers))

----------------------------------------------------------------------------
(* Membership.prototype.update and set. *)

\* update() past the stash: apply the rules, then the 'updated' listener.
\* ringChanged is emitted, and the piggyback limit adjusted, only when the
\* set of servers changed.
Apply(self, n, batch, now) ==
  LET updates == Updates(self, n.members, batch, now)
      ring    == RingAfter(n, updates)
  IN  [n EXCEPT
         !.members  = Overlay(@, Records(updates)),
         !.timers   = TimersAfter(self, n, updates),
         !.changes  = ChangesAfter(n, updates),
         !.ring     = ring,
         !.maxCount = IF ring # n.ring THEN AdjustedCount(ring) ELSE @]

\* update() for a change that is not local: stashed until the node is ready.
Update(self, n, batch, now) ==
  IF n.ready THEN Apply(self, n, batch, now)
             ELSE [n EXCEPT !.stash = MergeChangeset(self, @, batch)]

\* makeAlive, makeSuspect, makeFaulty, makeLeave: one change whose source is
\* the local member, or the subject itself while there is no local member.
\* Only makeAlive of the local member is a local update, and is never stashed.
MakeBatch(self, n, a, status, inc) ==
  [x \in {a} |->
     [status |-> status, inc |-> inc,
      src    |-> IF HasMember(n, self) THEN self ELSE a,
      srcInc |-> IF HasMember(n, self) THEN n.members[self].inc ELSE inc]]

MakeUpdate(self, n, a, status, inc, now) ==
  LET batch == MakeBatch(self, n, a, status, inc)
  IN  IF status = "alive" /\ a = self THEN Apply(self, n, batch, now)
                                      ELSE Update(self, n, batch, now)

\* Fault: set() starts no suspect periods.
SetMembershipUntimed(self, n) ==
  [n EXCEPT
     !.members = Overlay(@, Records(n.stash)),
     !.changes = ChangesAfter(n, n.stash),
     !.ring    = @ \cup WithStatus(n.stash, {"alive"}),
     !.stash   = NoMap]

\* set(): the merged stash becomes members, whatever the rules say, and the
\* 'set' listener follows.  Unlike the other listener it stops no timer,
\* removes no server and does not emit ringChanged.
SetMembership(self, n) ==
  [n EXCEPT
     !.members = Overlay(@, Records(n.stash)),
     !.timers  = Overlay(@, [a \in Started(self, n, n.stash) |-> n.stash[a].inc]),
     !.changes = ChangesAfter(n, n.stash),
     !.ring    = @ \cup WithStatus(n.stash, {"alive"}),
     !.stash   = NoMap]

----------------------------------------------------------------------------
(* Dissemination: what a call of issueAs sends, and what it leaves. *)

\* Every entry that is not filtered is counted; one whose count passes the
\* limit is deleted instead of being sent.
Issued(n, filtered) ==
  {a \in DOMAIN n.changes \ filtered : n.changes[a].count + 1 <= n.maxCount}

AfterIssue(n, filtered) ==
  [n EXCEPT !.changes =
     [a \in filtered \cup Issued(n, filtered) |->
        IF a \in filtered THEN n.changes[a]
                          ELSE [n.changes[a] EXCEPT !.count = @ + 1]]]

\* The entries that came from this very incarnation of the sender.
FilteredFor(n, sender, senderInc) ==
  {a \in DOMAIN n.changes :
     /\ n.changes[a].src = sender
     /\ n.changes[a].srcInc = senderInc
     /\ senderInc # 0}

\* issueAsSender filters nothing.
IssueAsSender(n) == AfterIssue(n, {})

\* issueAsReceiver filters what the sender told; the full sync it may answer
\* with reads the member list and changes nothing.
IssueAsReceiver(n, sender, senderInc) ==
  AfterIssue(n, FilteredFor(n, sender, senderInc))

\* The changes on the wire.
ToChange(r) ==
  [status |-> r.status, inc |-> r.inc, src |-> r.src, srcInc |-> r.srcInc]

SenderBatch(n) == [a \in Issued(n, {}) |-> ToChange(n.changes[a])]

\* A full sync states every member in the name of the local node; it carries
\* no sourceIncarnationNumber, so it is never filtered later: 0.
FullSync(self, n) ==
  [a \in DOMAIN n.members |->
     [status |-> n.members[a].status, inc |-> n.members[a].inc,
      src |-> self, srcInc |-> 0]]

\* Fault: no full sync when the checksums differ.
ReceiverBatchNoSync(self, n, sender, senderInc, sameChecksum) ==
  [a \in Issued(n, FilteredFor(n, sender, senderInc)) |-> ToChange(n.changes[a])]

\* The full sync is the answer when nothing is left to send and the two
\* membership checksums differ.
ReceiverBatch(self, n, sender, senderInc, sameChecksum) ==
  LET issued == Issued(n, FilteredFor(n, sender, senderInc))
  IN  IF issued = {} /\ ~sameChecksum THEN FullSync(self, n)
      ELSE [a \in issued |-> ToChange(n.changes[a])]

----------------------------------------------------------------------------
(* Starting and stopping the subprotocols. *)

\* ringpop.destroy and the admin leave: gossip.stop, suspicion.stopAll.
StopProtocols(n) ==
  [n EXCEPT !.gossiping = FALSE, !.timers = NoMap, !.stoppedAll = TRUE]

\* gossip.start
StartGossip(n) == [n EXCEPT !.gossiping = TRUE]

\* The successful end of bootstrap: set, gossip.start, isReady.
BecomeReady(self, n) ==
  [StartGossip(SetMembership(self, n)) EXCEPT !.ready = TRUE]

\* suspicion.reenable; no timer is started for members already suspect.
Reenable(n) == [n EXCEPT !.stoppedAll = FALSE]

----------------------------------------------------------------------------
(* What every node keeps, stated of one node n at address self, time t. *)

\* The local member is alive or has left, and no incarnation of it is later
\* than the clock.  A ready node lists itself, one that is not ready lists
\* nobody else.
LocalMemberIsSound(self, n, t) ==
  /\ HasMember(n, self) =>
       /\ n.members[self].status \in {"alive", "leave"}
       /\ n.members[self].inc <= t
  /\ n.ready => HasMember(n, self)
  /\ ~n.ready => DOMAIN n.members \subseteq {self}

\* A timer is about a suspect, at the incarnation it will declare faulty.
TimersAreSound(self, n) ==
  \A a \in DOMAIN n.timers :
    /\ a # self
    /\ HasMember(n, a)
    /\ n.members[a].status = "suspect"
    /\ n.members[a].inc = n.timers[a]

\* All alive members, and nobody who is faulty or left.
RingIsSound(n) ==
  /\ \A a \in DOMAIN n.members : n.members[a].status = "alive" => a \in n.ring
  /\ \A a \in n.ring :
       HasMember(n, a) /\ n.members[a].status \in {"alive", "suspect"}

\* A rumour says what the membership list says.
RumoursAreSound(n) ==
  \A a \in DOMAIN n.changes :
    /\ HasMember(n, a)
    /\ n.members[a].status = n.changes[a].status
    /\ n.members[a].inc = n.changes[a].inc

----------------------------------------------------------------------------
(* What one call may do to a node n: leave it as m. *)

\* The order of statuses at one incarnation.
Rank == [alive |-> 0, suspect |-> 1, faulty |-> 2, leave |-> 3]

\* Nobody is forgotten, incarnation numbers never go back, and at one
\* incarnation a remote member's status only gets worse.
OnlyForward(self, n, m) ==
  \A a \in DOMAIN n.members :
    /\ HasMember(m, a)
    /\ m.members[a].inc >= n.members[a].inc
    /\ a # self /\ m.members[a].inc = n.members[a].inc =>
         Rank[m.members[a].status] >= Rank[n.members[a].status]

Suspects(n) == {a \in DOMAIN n.members : n.members[a].status = "suspect"}

\* If every suspect had its suspect period, every suspect has one.
PeriodsKept(n, m) ==
  Suspects(n) \subseteq DOMAIN n.timers /\ ~n.stoppedAll =>
    Suspects(m) \subseteq DOMAIN m.timers \/ m.stoppedAll
=============================================================================
