---------------------------- MODULE ClusterProofs ----------------------------
(***************************************************************************)
(* For any number of nodes, messages, failures, crashes, restarts and      *)
(* leaves: nobody in a cluster knows an incarnation of a node later than   *)
(* the node gave itself; each node has one conversation at most; and the   *)
(* member lists do what module MemberViews promises.                       *)
(***************************************************************************)
EXTENDS Cluster, NodeStateProofs

\* What f says of each address is no later than that address's clock in T.
IsBounded(f, T) == \A x \in DOMAIN f : f[x].inc <= T[x]

\* A changeset that tells nothing that did not happen.
IsBatch(b, T) == IsMap(b, Change) /\ IsBounded(b, T)

\* A node that knows nothing that did not happen.
NodeOwned(self, n, T) ==
  /\ NodeInv(self, n, T[self])
  /\ IsBounded(n.members, T)
  /\ IsBounded(n.stash, T)

\* m is n after some calls: owned, and nobody is forgotten.
Follows(self, n, m, T) ==
  /\ NodeOwned(self, m, T)
  /\ DOMAIN n.members \subseteq DOMAIN m.members
  /\ m.ready = n.ready

----------------------------------------------------------------------------
(* Maps *)

LEMMA OverlayBounded ==
  ASSUME NEW f, NEW g, NEW T, IsBounded(f, T), IsBounded(g, T)
  PROVE  IsBounded(Overlay(f, g), T)
BY DEF IsBounded, Overlay

\* Merging changesets invents nothing.
LEMMA MergeBatch ==
  ASSUME NEW self, NEW T, NEW index, NEW b, IsBatch(index, T), IsBatch(b, T)
  PROVE  IsBatch(MergeChangeset(self, index, b), T)
<1> DEFINE g == [a \in {x \in DOMAIN b \ {self} :
                          x \notin DOMAIN index \/ index[x].inc < b[x].inc} |-> b[a]]
<1>1. IsMap(g, Change) /\ IsBounded(g, T)
  BY DEF IsBatch, IsMap, IsBounded
<1>2. MergeChangeset(self, index, b) = Overlay(index, g)
  BY DEF MergeChangeset
<1> HIDE DEF g
<1> QED BY <1>1, <1>2, OverlayBounded, OverlayIsMap DEF IsBatch

\* The clocks only advance.
LEMMA BatchRaised ==
  ASSUME NEW T \in [Addr -> Nat], NEW U \in [Addr -> Nat],
         \A x \in Addr : T[x] <= U[x], NEW b, IsBatch(b, T)
  PROVE  IsBatch(b, U)
<1> SUFFICES ASSUME NEW x \in DOMAIN b PROVE b[x].inc <= U[x]
  BY DEF IsBatch, IsBounded
<1>1. x \in Addr /\ b[x].inc \in Nat /\ b[x].inc <= T[x]
  BY DEF IsBatch, IsBounded, IsMap, Change
<1>2. T[x] \in Nat /\ U[x] \in Nat /\ T[x] <= U[x]
  BY <1>1
<1> QED BY <1>1, <1>2

LEMMA NodeRaised ==
  ASSUME NEW self \in Addr, NEW T \in [Addr -> Nat], NEW U \in [Addr -> Nat],
         \A x \in Addr : T[x] <= U[x], NEW n, NodeOwned(self, n, T)
  PROVE  NodeOwned(self, n, U)
<1>1. T[self] \in Nat /\ U[self] \in Nat /\ T[self] <= U[self]
  OBVIOUS
<1>2. IsMap(n.members, Record) /\ IsMap(n.stash, Change)
  BY DEF NodeOwned, NodeInv, IsNode
<1>3. IsBounded(n.members, U)
  <2> SUFFICES ASSUME NEW x \in DOMAIN n.members PROVE n.members[x].inc <= U[x]
    BY DEF IsBounded
  <2>1. x \in Addr /\ n.members[x].inc \in Nat /\ n.members[x].inc <= T[x]
    BY <1>2 DEF NodeOwned, IsBounded, IsMap, Record
  <2>2. T[x] \in Nat /\ U[x] \in Nat /\ T[x] <= U[x]
    BY <2>1
  <2> QED BY <2>1, <2>2
<1>4. IsBounded(n.stash, U)
  BY <1>2, BatchRaised DEF NodeOwned, IsBatch
<1>5. HasMember(n, self) => n.members[self].inc <= U[self]
  BY <1>3 DEF IsBounded, HasMember
<1>6. NodeInv(self, n, U[self])
  BY <1>5 DEF NodeOwned, NodeInv, LocalMemberIsSound
<1> QED BY <1>3, <1>4, <1>6 DEF NodeOwned

----------------------------------------------------------------------------
(* Calls *)

\* The local member's answer to a suspicion has the clock's reading; any
\* other update is what the batch said.
LEMMA UpdatesBounded ==
  ASSUME NEW self \in Addr, NEW T \in [Addr -> Nat], NEW members, NEW b,
         IsBatch(b, T)
  PROVE  IsBounded(Updates(self, members, b, T[self]), T)
<1> DEFINE u == Updates(self, members, b, T[self])
<1> SUFFICES ASSUME NEW x \in DOMAIN u PROVE u[x].inc <= T[x]
  BY DEF IsBounded
<1>1. x \in Accepted(self, members, b) /\ x \in DOMAIN b
  BY DEF Updates, Accepted
<1>2. b[x].inc <= T[x]
  BY <1>1 DEF IsBatch, IsBounded
<1>3. CASE x \in DOMAIN members /\ IsLocalOverride(self, x, b[x])
  <2>1. u[x].inc = T[self] /\ x = self
    BY <1>1, <1>3 DEF Updates, Reassert, IsLocalOverride
  <2> QED BY <2>1
<1>4. CASE ~(x \in DOMAIN members /\ IsLocalOverride(self, x, b[x]))
  BY <1>1, <1>2, <1>4 DEF Updates
<1> QED BY <1>3, <1>4

LEMMA RecordsBounded ==
  ASSUME NEW u, NEW T, IsBounded(u, T)
  PROVE  IsBounded(Records(u), T)
BY DEF IsBounded, Records, RecordOf

LEMMA ApplyBounded ==
  ASSUME NEW self \in Addr, NEW T \in [Addr -> Nat], NEW n, NEW b,
         NodeOwned(self, n, T), IsBatch(b, T)
  PROVE  /\ IsBounded(Apply(self, n, b, T[self]).members, T)
         /\ IsBounded(Apply(self, n, b, T[self]).stash, T)
<1> DEFINE m == Apply(self, n, b, T[self])
           u == Updates(self, n.members, b, T[self])
<1>1. n \in NodeShape(n)
  BY DEF NodeOwned, NodeInv, IsNode
<1>2. m.members = Overlay(n.members, Records(u)) /\ m.stash = n.stash
  <2> HIDE DEF u
  <2> QED BY <1>1 DEF NodeShape, Apply, u
<1>3. IsBounded(u, T)
  BY UpdatesBounded
<1> HIDE DEF u, m
<1>4. IsBounded(m.members, T) /\ IsBounded(m.stash, T)
  BY <1>2, <1>3, RecordsBounded, OverlayBounded DEF NodeOwned
<1> QED BY <1>4 DEF m

\* update() before the node is ready, at any time t.
LEMMA StashOwned ==
  ASSUME NEW self \in Addr, NEW T \in [Addr -> Nat], NEW n, NEW b, NEW t,
         NodeOwned(self, n, T), IsBatch(b, T), ~n.ready
  PROVE  Follows(self, n, Update(self, n, b, t), T)
<1> DEFINE m == [n EXCEPT !.stash = MergeChangeset(self, @, b)]
<1>1. n \in NodeShape(n) /\ IsMap(n.stash, Change)
  BY DEF NodeOwned, NodeInv, IsNode
<1>2. /\ m.members = n.members /\ m.ready = n.ready
      /\ m.stash = MergeChangeset(self, n.stash, b)
  BY <1>1 DEF NodeShape
<1>3. NodeInv(self, m, T[self])
  BY StashInv DEF NodeOwned, IsBatch
<1>4. Update(self, n, b, t) = m
  BY DEF Update
<1> HIDE DEF m
<1>5. IsBounded(m.stash, T)
  BY <1>1, <1>2, MergeBatch DEF NodeOwned, IsBatch
<1> QED BY <1>2, <1>3, <1>4, <1>5 DEF Follows, NodeOwned

\* update()
LEMMA UpdateOwned ==
  ASSUME NEW self \in Addr, NEW T \in [Addr -> Nat], NEW n, NEW b,
         NodeOwned(self, n, T), IsBatch(b, T)
  PROVE  Follows(self, n, Update(self, n, b, T[self]), T)
<1> DEFINE m == Update(self, n, b, T[self])
<1>1. CASE ~n.ready
  BY <1>1, StashOwned
<1>2. CASE n.ready
  <2>1. self \in DOMAIN b => b[self].inc <= T[self]
    BY DEF IsBatch, IsBounded
  <2>2. NodeInv(self, n, T[self]) /\ IsMap(b, Change) /\ T[self] \in Nat
    BY DEF NodeOwned, IsBatch
  <2>3. NodeInv(self, m, T[self]) /\ Keeps(self, n, m)
    BY <2>1, <2>2, UpdateInv, UpdateKeeps
  <2>4. m = Apply(self, n, b, T[self])
    BY <1>2 DEF Update
  <2>5. IsBounded(m.members, T) /\ IsBounded(m.stash, T)
    BY <2>4, ApplyBounded
  <2> HIDE DEF m
  <2>6. Follows(self, n, m, T)
    BY <2>3, <2>5 DEF Follows, NodeOwned, Keeps, OnlyForward, HasMember
  <2> QED BY <2>6 DEF m
<1> QED BY <1>1, <1>2

\* makeAlive, makeSuspect, makeFaulty, makeLeave
LEMMA MakeUpdateOwned ==
  ASSUME NEW self \in Addr, NEW T \in [Addr -> Nat], NEW n, NEW a \in Addr,
         NEW status \in Status, NEW inc \in Nat, inc <= T[a],
         NodeOwned(self, n, T)
  PROVE  Follows(self, n, MakeUpdate(self, n, a, status, inc, T[self]), T)
<1> DEFINE b == MakeBatch(self, n, a, status, inc)
           m == MakeUpdate(self, n, a, status, inc, T[self])
<1>1. NodeInv(self, n, T[self]) /\ IsMap(n.members, Record)
  BY DEF NodeOwned, NodeInv, IsNode
<1>2. HasMember(n, self) => n.members[self].inc \in Nat
  BY <1>1 DEF IsMap, HasMember, Record
<1>3. IsBatch(b, T)
  BY <1>2 DEF MakeBatch, IsBatch, IsMap, IsBounded, Change
<1> HIDE DEF b
<1>4. NodeInv(self, m, T[self]) /\ Keeps(self, n, m)
  <2>1. T[self] \in Nat /\ (a = self => inc <= T[self])
    OBVIOUS
  <2> QED BY <1>1, <2>1, MakeUpdateInv, MakeUpdateKeeps
<1>5. CASE status = "alive" /\ a = self
  <2>1. m = Apply(self, n, b, T[self])
    BY <1>5 DEF MakeUpdate, b
  <2>2. IsBounded(m.members, T) /\ IsBounded(m.stash, T)
    BY <1>3, <2>1, ApplyBounded
  <2> HIDE DEF m
  <2>3. Follows(self, n, m, T)
    BY <1>4, <2>2 DEF Follows, NodeOwned, Keeps, OnlyForward, HasMember
  <2> QED BY <2>3 DEF m
<1>6. CASE ~(status = "alive" /\ a = self)
  <2>1. m = Update(self, n, b, T[self])
    BY <1>6 DEF MakeUpdate, b
  <2> QED BY <1>3, <2>1, UpdateOwned
<1> QED BY <1>5, <1>6

\* A node m that has the members and the stash of n.
LEMMA SameOwned ==
  ASSUME NEW self \in Addr, NEW T, NEW n, NEW m,
         NodeOwned(self, n, T), NodeInv(self, m, T[self]),
         m.members = n.members, m.stash = n.stash, m.ready = n.ready
  PROVE  Follows(self, n, m, T)
BY DEF NodeOwned, Follows

LEMMA AfterIssueOwned ==
  ASSUME NEW self \in Addr, NEW T \in [Addr -> Nat], NEW n,
         NEW filtered \in SUBSET DOMAIN n.changes, NodeOwned(self, n, T)
  PROVE  /\ Follows(self, n, AfterIssue(n, filtered), T)
         /\ AfterIssue(n, filtered).members = n.members
<1> DEFINE m == AfterIssue(n, filtered)
<1>1. NodeInv(self, n, T[self]) /\ n \in NodeShape(n)
  BY DEF NodeOwned, NodeInv, IsNode
<1>2. m.members = n.members /\ m.stash = n.stash /\ m.ready = n.ready
  BY <1>1 DEF NodeShape, AfterIssue
<1>3. NodeInv(self, m, T[self])
  BY <1>1, AfterIssueInv
<1> HIDE DEF m
<1>4. Follows(self, n, m, T)
  BY <1>2, <1>3, SameOwned
<1> QED BY <1>2, <1>4 DEF m

LEMMA IssueAsSenderOwned ==
  ASSUME NEW self \in Addr, NEW T \in [Addr -> Nat], NEW n, NodeOwned(self, n, T)
  PROVE  /\ Follows(self, n, IssueAsSender(n), T)
         /\ IssueAsSender(n).members = n.members
BY AfterIssueOwned DEF IssueAsSender

LEMMA IssueAsReceiverOwned ==
  ASSUME NEW self \in Addr, NEW T \in [Addr -> Nat], NEW n, NEW sender, NEW inc,
         NodeOwned(self, n, T)
  PROVE  /\ Follows(self, n, IssueAsReceiver(n, sender, inc), T)
         /\ IssueAsReceiver(n, sender, inc).members = n.members
<1> DEFINE F == FilteredFor(n, sender, inc)
<1>1. F \in SUBSET DOMAIN n.changes
  BY DEF FilteredFor
<1>2. IssueAsReceiver(n, sender, inc) = AfterIssue(n, F)
  BY DEF IssueAsReceiver
<1> HIDE DEF F
<1> QED BY <1>1, <1>2, AfterIssueOwned

\* The admin endpoints: the leave stops the subprotocols, the join starts
\* them.
LEMMA StopProtocolsOwned ==
  ASSUME NEW self \in Addr, NEW T \in [Addr -> Nat], NEW n, NodeOwned(self, n, T)
  PROVE  Follows(self, n, StopProtocols(n), T)
<1>1. NodeInv(self, n, T[self]) /\ n \in NodeShape(n)
  BY DEF NodeOwned, NodeInv, IsNode
<1>2. /\ StopProtocols(n).members = n.members
      /\ StopProtocols(n).stash = n.stash /\ StopProtocols(n).ready = n.ready
  BY <1>1 DEF NodeShape, StopProtocols
<1>3. NodeInv(self, StopProtocols(n), T[self])
  BY <1>1, StopProtocolsInv
<1> QED BY <1>2, <1>3, SameOwned

LEMMA StartGossipOwned ==
  ASSUME NEW self \in Addr, NEW T \in [Addr -> Nat], NEW n, NodeOwned(self, n, T)
  PROVE  Follows(self, n, StartGossip(n), T)
<1>1. NodeInv(self, n, T[self]) /\ n \in NodeShape(n)
  BY DEF NodeOwned, NodeInv, IsNode
<1>2. /\ StartGossip(n).members = n.members
      /\ StartGossip(n).stash = n.stash /\ StartGossip(n).ready = n.ready
  BY <1>1 DEF NodeShape, StartGossip
<1>3. NodeInv(self, StartGossip(n), T[self])
  BY <1>1, StartGossipInv
<1> QED BY <1>2, <1>3, SameOwned

LEMMA ReenableOwned ==
  ASSUME NEW self \in Addr, NEW T \in [Addr -> Nat], NEW n, NodeOwned(self, n, T)
  PROVE  Follows(self, n, Reenable(n), T)
<1>1. NodeInv(self, n, T[self]) /\ n \in NodeShape(n)
  BY DEF NodeOwned, NodeInv, IsNode
<1>2. /\ Reenable(n).members = n.members
      /\ Reenable(n).stash = n.stash /\ Reenable(n).ready = n.ready
  BY <1>1 DEF NodeShape, Reenable
<1>3. NodeInv(self, Reenable(n), T[self])
  BY <1>1, ReenableInv
<1> QED BY <1>2, <1>3, SameOwned

\* set() makes members of what was stashed.
LEMMA BecomeReadyOwned ==
  ASSUME NEW self \in Addr, NEW T \in [Addr -> Nat], NEW n,
         NodeOwned(self, n, T), ~n.ready, HasMember(n, self)
  PROVE  /\ NodeOwned(self, BecomeReady(self, n), T)
         /\ DOMAIN n.members \subseteq DOMAIN BecomeReady(self, n).members
<1> DEFINE m == BecomeReady(self, n)
<1>1. n \in NodeShape(n) /\ NodeInv(self, n, T[self])
  BY DEF NodeOwned, NodeInv, IsNode
<1>2. m.members = Overlay(n.members, Records(n.stash)) /\ m.stash = NoMap
  BY <1>1 DEF NodeShape, BecomeReady, StartGossip, SetMembership
<1>3. NodeInv(self, m, T[self])
  BY <1>1, BecomeReadyInv
<1> HIDE DEF m
<1>4. IsBounded(m.members, T)
  BY <1>2, RecordsBounded, OverlayBounded DEF NodeOwned
<1>5. IsBounded(m.stash, T)
  BY <1>2 DEF IsBounded, NoMap
<1>6. DOMAIN n.members \subseteq DOMAIN m.members
  <2>1. DOMAIN m.members = DOMAIN n.members \cup DOMAIN Records(n.stash)
    BY <1>2, OverlayDomain
  <2> QED BY <2>1
<1> QED BY <1>3, <1>4, <1>5, <1>6 DEF m, NodeOwned

\* A new process.
LEMMA NewNodeOwned ==
  ASSUME NEW self \in Addr, NEW T \in [Addr -> Nat]
  PROVE  NodeOwned(self, NewNode, T)
<1>1. IsNode(NewNode)
  BY DEF IsNode, NodeShape, NewNode, NoMap, IsMap
<1>2. NodeInv(self, NewNode, T[self])
  BY <1>1 DEF NodeInv, NewNode, NoMap, LocalMemberIsSound, TimersAreSound,
              RingIsSound, RumoursAreSound, HasMember
<1>3. IsBounded(NewNode.members, T) /\ IsBounded(NewNode.stash, T)
  BY DEF IsBounded, NewNode, NoMap
<1> QED BY <1>2, <1>3 DEF NodeOwned

----------------------------------------------------------------------------
(* What a node sends *)

\* Rumours say what the member list says.
LEMMA RumoursBatch ==
  ASSUME NEW self \in Addr, NEW T \in [Addr -> Nat], NEW n, NodeOwned(self, n, T),
         NEW S \in SUBSET DOMAIN n.changes
  PROVE  IsBatch([a \in S |-> ToChange(n.changes[a])], T)
<1> DEFINE b == [a \in S |-> ToChange(n.changes[a])]
<1>1. IsMap(n.changes, Rumor) /\ RumoursAreSound(n) /\ IsBounded(n.members, T)
  BY DEF NodeOwned, NodeInv, IsNode
<1>2. IsMap(b, Change)
  BY <1>1 DEF IsMap, ToChange, Rumor, Change
<1>3. IsBounded(b, T)
  <2> SUFFICES ASSUME NEW a \in S PROVE n.changes[a].inc <= T[a]
    BY DEF IsBounded, ToChange
  <2>1. a \in DOMAIN n.members /\ n.members[a].inc = n.changes[a].inc
    BY <1>1 DEF RumoursAreSound, HasMember
  <2> QED BY <1>1, <2>1 DEF IsBounded
<1> QED BY <1>2, <1>3 DEF IsBatch

LEMMA SenderBatchOwned ==
  ASSUME NEW self \in Addr, NEW T \in [Addr -> Nat], NEW n, NodeOwned(self, n, T)
  PROVE  IsBatch(SenderBatch(n), T)
<1>1. Issued(n, {}) \in SUBSET DOMAIN n.changes
  BY DEF Issued
<1> QED BY <1>1, RumoursBatch DEF SenderBatch

LEMMA FullSyncOwned ==
  ASSUME NEW self \in Addr, NEW T \in [Addr -> Nat], NEW n, NodeOwned(self, n, T)
  PROVE  IsBatch(FullSync(self, n), T)
<1>1. IsMap(n.members, Record) /\ IsBounded(n.members, T)
  BY DEF NodeOwned, NodeInv, IsNode
<1> QED BY <1>1 DEF FullSync, IsBatch, IsMap, IsBounded, Record, Change

LEMMA ReceiverBatchOwned ==
  ASSUME NEW self \in Addr, NEW T \in [Addr -> Nat], NEW n, NodeOwned(self, n, T),
         NEW sender, NEW inc, NEW same
  PROVE  IsBatch(ReceiverBatch(self, n, sender, inc, same), T)
<1> DEFINE S == Issued(n, FilteredFor(n, sender, inc))
<1>1. S \in SUBSET DOMAIN n.changes
  BY DEF Issued
<1>2. ReceiverBatch(self, n, sender, inc, same)
        = IF S = {} /\ ~same THEN FullSync(self, n)
          ELSE [a \in S |-> ToChange(n.changes[a])]
  BY DEF ReceiverBatch
<1> HIDE DEF S
<1> QED BY <1>1, <1>2, RumoursBatch, FullSyncOwned

----------------------------------------------------------------------------
(* The invariant of the cluster *)

\* Nodes know of a node what it gave itself.
NodesOwned ==
  /\ DOMAIN node = Addr
  /\ clock \in [Addr -> Nat]
  /\ \A a \in Addr : NodeOwned(a, node[a], clock)

\* A node that runs knows itself from its first moment on.
UpKnown == up \subseteq Addr /\ \A a \in up : HasMember(node[a], a)

\* A node pings members, and it never forgets one while it runs.
PingsKnown ==
  /\ pinging \in [Addr -> Pings]
  /\ \A a \in Addr : pinging[a].to \subseteq DOMAIN node[a].members
  /\ \A a \in Addr \ up : pinging[a].to = {}

\* What a join has collected.
AnswersOwned ==
  DOMAIN answers = Addr /\ \A a \in Addr : IsBatch(answers[a], clock)

\* A message with addresses and a changeset.
IsMessage(m, T) ==
  /\ {"kind", "asker", "from", "to", "changes"} \subseteq DOMAIN m
  /\ {m.asker, m.from, m.to} \subseteq Addr
  /\ IsBatch(m.changes, T)

WireOwned == \A m \in wire : IsMessage(m, clock)

CInv == NodesOwned /\ UpKnown /\ PingsKnown /\ AnswersOwned /\ WireOwned

\* The clocks when node a reads its own next.
Later(a) == [clock EXCEPT ![a] = Now(a)]

\* A step after which nobody has forgotten a member.
Advances ==
  /\ NodesOwned'
  /\ \A a \in Addr : clock[a] <= clock'[a]
  /\ \A a \in Addr : DOMAIN node[a].members \subseteq DOMAIN node'[a].members

----------------------------------------------------------------------------
(* What a step has to show *)

LEMMA MessageRaised ==
  ASSUME NEW T \in [Addr -> Nat], NEW U \in [Addr -> Nat],
         \A x \in Addr : T[x] <= U[x], NEW m, IsMessage(m, T)
  PROVE  IsMessage(m, U)
BY BatchRaised DEF IsMessage

\* The parts that follow when a step only advances.
LEMMA Carried ==
  ASSUME CInv, Advances
  PROVE  /\ up' = up => UpKnown'
         /\ answers' = answers => AnswersOwned'
         /\ pinging' = pinging /\ up' = up => PingsKnown'
         /\ \A m \in wire : IsMessage(m, clock')
         /\ wire' \subseteq wire => WireOwned'
<1>1. clock \in [Addr -> Nat] /\ clock' \in [Addr -> Nat]
  BY DEF CInv, NodesOwned, Advances
<1>2. \A a \in Addr : clock[a] <= clock'[a]
  BY DEF Advances
<1>3. ASSUME up' = up PROVE UpKnown'
  BY <1>3 DEF CInv, UpKnown, Advances, HasMember
<1>4. ASSUME answers' = answers PROVE AnswersOwned'
  BY <1>1, <1>2, <1>4, BatchRaised DEF CInv, AnswersOwned
<1>5. ASSUME pinging' = pinging, up' = up PROVE PingsKnown'
  BY <1>5 DEF CInv, PingsKnown, Advances
<1>6. \A m \in wire : IsMessage(m, clock')
  BY <1>1, <1>2, MessageRaised DEF CInv, WireOwned
<1>7. ASSUME wire' \subseteq wire PROVE WireOwned'
  BY <1>6, <1>7 DEF WireOwned
<1> QED BY <1>3, <1>4, <1>5, <1>6, <1>7

\* Ending a ping.
LEMMA PingEnded ==
  ASSUME CInv, Advances, up' = up, NEW a \in Addr, EndPing(a)
  PROVE  PingsKnown'
<1>1. pinging \in [Addr -> Pings] /\ pinging' = [pinging EXCEPT ![a] = NoPing]
  BY DEF CInv, PingsKnown, EndPing
<1>2. NoPing \in Pings /\ NoPing.to = {}
  BY DEF NoPing, Pings
<1>3. pinging' \in [Addr -> Pings]
  BY <1>1, <1>2
<1>4. \A x \in Addr : pinging'[x].to \subseteq pinging[x].to
  BY <1>1, <1>2
<1> QED BY <1>3, <1>4 DEF CInv, PingsKnown, Advances

\* One node has made some calls, one of which may have read the clock: its
\* new clock is its new incarnation, or the old one.  k is a node on the way
\* to n, of whose state a message tells.
LEMMA LaterClock ==
  ASSUME CInv, NEW a \in Addr
  PROVE  /\ Later(a) \in [Addr -> Nat]
         /\ Later(a)[a] = Now(a)
         /\ \A x \in Addr : clock[x] <= Later(a)[x]
         /\ NodeOwned(a, node[a], Later(a))
         /\ \A x \in Addr \ {a} : Later(a)[x] = clock[x]
<1>1. clock \in [Addr -> Nat] /\ NodeOwned(a, node[a], clock)
  BY DEF CInv, NodesOwned
<1>2. /\ Later(a) \in [Addr -> Nat] /\ Later(a)[a] = Now(a)
      /\ \A x \in Addr : clock[x] <= Later(a)[x]
      /\ \A x \in Addr \ {a} : Later(a)[x] = clock[x]
  BY <1>1 DEF Later, Now
<1> QED BY <1>1, <1>2, NodeRaised

LEMMA Settled ==
  ASSUME CInv, NEW a \in Addr, NEW n, NodeOwned(a, n, Later(a)),
         NEW U \in [Addr -> Nat],
         U[a] = ClockOf(a, n), \A x \in Addr \ {a} : U[x] = clock[x]
  PROVE  NodeOwned(a, n, U)
<1>1. clock \in [Addr -> Nat]
  BY DEF CInv, NodesOwned
<1>2. NodeInv(a, n, Later(a)[a]) /\ IsMap(n.members, Record) /\ IsMap(n.stash, Change)
  BY DEF NodeOwned, NodeInv, IsNode
<1>3. HasMember(n, a) => n.members[a].inc <= U[a]
  BY <1>1, <1>2 DEF ClockOf, Inc, HasMember, IsMap, Record
<1>4. IsBounded(n.members, U)
  <2> SUFFICES ASSUME NEW x \in DOMAIN n.members PROVE n.members[x].inc <= U[x]
    BY DEF IsBounded
  <2>1. CASE x = a
    BY <1>3, <2>1 DEF HasMember
  <2>2. CASE x # a
    <3>1. x \in Addr
      BY <1>2 DEF IsMap
    <3>2. U[x] = Later(a)[x]
      BY <2>2, <3>1, LaterClock
    <3> QED BY <3>2 DEF NodeOwned, IsBounded
  <2> QED BY <2>1, <2>2
<1>5. IsBounded(n.stash, U)
  <2> SUFFICES ASSUME NEW x \in DOMAIN n.stash PROVE n.stash[x].inc <= U[x]
    BY DEF IsBounded
  <2>1. x \in Addr /\ x # a
    BY <1>2 DEF NodeInv, IsMap
  <2>2. U[x] = Later(a)[x]
    BY <2>1, LaterClock
  <2> QED BY <2>2 DEF NodeOwned, IsBounded
<1>6. NodeInv(a, n, U[a])
  BY <1>2, <1>3 DEF NodeInv, LocalMemberIsSound
<1> QED BY <1>4, <1>5, <1>6 DEF NodeOwned

LEMMA NodeCall ==
  ASSUME CInv, NEW a \in Addr, NEW n, NodeOwned(a, n, Later(a)), SetNode(a, n)
  PROVE  /\ NodesOwned'
         /\ \A x \in Addr : clock[x] <= clock'[x]
         /\ \A x \in Addr \ {a} : node'[x] = node[x]
         /\ node'[a] = n
         /\ DOMAIN node[a].members \subseteq DOMAIN n.members => Advances
         /\ \A k : k.members = n.members /\ NodeOwned(a, k, Later(a))
              => NodeOwned(a, k, clock')
<1>1. DOMAIN node = Addr /\ clock \in [Addr -> Nat]
  BY DEF CInv, NodesOwned
<1>2. /\ node' = [node EXCEPT ![a] = n]
      /\ clock' = [clock EXCEPT ![a] = ClockOf(a, n)]
  BY <1>1 DEF SetNode
<1>3. /\ DOMAIN node' = Addr /\ node'[a] = n
      /\ \A x \in Addr \ {a} : node'[x] = node[x]
  BY <1>1, <1>2
<1>4. IsMap(n.members, Record)
  BY DEF NodeOwned, NodeInv, IsNode
<1>5. ClockOf(a, n) \in Nat /\ clock[a] <= ClockOf(a, n)
  BY <1>1, <1>4 DEF ClockOf, Inc, HasMember, IsMap, Record
<1>6. /\ clock' \in [Addr -> Nat] /\ clock'[a] = ClockOf(a, n)
      /\ \A x \in Addr \ {a} : clock'[x] = clock[x]
  BY <1>1, <1>2, <1>5
<1>7. \A x \in Addr : clock[x] <= clock'[x]
  BY <1>1, <1>5, <1>6
<1>8. \A k : k.members = n.members /\ NodeOwned(a, k, Later(a))
        => NodeOwned(a, k, clock')
  BY <1>6, Settled DEF ClockOf, HasMember, Inc
<1>9. NodesOwned'
  <2> SUFFICES ASSUME NEW x \in Addr PROVE NodeOwned(x, node'[x], clock')
    BY <1>3, <1>6 DEF NodesOwned
  <2>1. CASE x = a
    BY <1>3, <1>8, <2>1
  <2>2. CASE x # a
    <3>1. NodeOwned(x, node[x], clock) /\ node'[x] = node[x]
      BY <1>3, <2>2 DEF CInv, NodesOwned
    <3> QED BY <1>1, <1>6, <1>7, <3>1, NodeRaised
  <2> QED BY <2>1, <2>2
<1>10. DOMAIN node[a].members \subseteq DOMAIN n.members => Advances
  BY <1>3, <1>7, <1>9 DEF Advances
<1> QED BY <1>3, <1>7, <1>8, <1>9, <1>10

\* Calls of a node of the cluster, one after another.
LEMMA FollowsThen ==
  ASSUME NEW self, NEW n, NEW m, NEW k, NEW T,
         Follows(self, n, m, T), Follows(self, m, k, T)
  PROVE  Follows(self, n, k, T)
BY DEF Follows

LEMMA ReceiveFollows ==
  ASSUME CInv, NEW a \in Addr, NEW n, NodeOwned(a, n, Later(a)),
         NEW b, IsBatch(b, clock)
  PROVE  Follows(a, n, Receive(a, n, b), Later(a))
<1>1. /\ Later(a) \in [Addr -> Nat] /\ Later(a)[a] = Now(a)
      /\ \A x \in Addr : clock[x] <= Later(a)[x]
  BY LaterClock
<1>2. clock \in [Addr -> Nat]
  BY DEF CInv, NodesOwned
<1>3. IsBatch(b, Later(a))
  BY <1>1, <1>2, BatchRaised
<1>4. Follows(a, n, Update(a, n, b, Later(a)[a]), Later(a))
  BY <1>1, <1>3, UpdateOwned
<1> QED BY <1>1, <1>4 DEF Receive

LEMMA MakeFollows ==
  ASSUME CInv, NEW a \in Addr, NEW n, NodeOwned(a, n, Later(a)),
         NEW b \in Addr, NEW status \in Status, NEW inc \in Nat,
         inc <= clock[b] \/ (b = a /\ inc <= Now(a))
  PROVE  Follows(a, n, MakeUpdate(a, n, b, status, inc, Now(a)), Later(a))
<1>1. /\ Later(a) \in [Addr -> Nat] /\ Later(a)[a] = Now(a)
      /\ \A x \in Addr : clock[x] <= Later(a)[x]
  BY LaterClock
<1>2. clock \in [Addr -> Nat]
  BY DEF CInv, NodesOwned
<1>3. inc <= Later(a)[b]
  <2>1. clock[b] \in Nat /\ Later(a)[b] \in Nat /\ clock[b] <= Later(a)[b]
    BY <1>1, <1>2
  <2> QED BY <1>1, <2>1
<1>4. Follows(a, n, MakeUpdate(a, n, b, status, inc, Later(a)[a]), Later(a))
  BY <1>1, <1>3, MakeUpdateOwned
<1> QED BY <1>1, <1>4

\* What a node knows of a member.
LEMMA KnownInc ==
  ASSUME NEW self, NEW n, NEW T, NodeOwned(self, n, T), NEW x, HasMember(n, x)
  PROVE  x \in Addr /\ Inc(n, x) \in Nat /\ Inc(n, x) <= T[x]
BY DEF NodeOwned, NodeInv, IsNode, IsMap, IsBounded, Record, HasMember, Inc

----------------------------------------------------------------------------
(* Pings *)

LEMMA SendPingInv ==
  ASSUME CInv, NEW a \in Addr, NEW b \in Addr, SendPing(a, b)
  PROVE  CInv'
<1> DEFINE n == IssueAsSender(node[a])
<1>1. NodeOwned(a, node[a], Later(a)) /\ Later(a) \in [Addr -> Nat]
  BY LaterClock
<1>2. Follows(a, node[a], n, Later(a)) /\ n.members = node[a].members
  BY <1>1, IssueAsSenderOwned
<1> HIDE DEF n
<1>3. SetNode(a, n) /\ up' = up /\ answers' = answers
  BY DEF SendPing, n, joins
<1>4. /\ Advances
      /\ \A k : k.members = n.members /\ NodeOwned(a, k, Later(a))
           => NodeOwned(a, k, clock')
  BY <1>2, <1>3, NodeCall DEF Follows
<1>5. UpKnown' /\ AnswersOwned' /\ \A m \in wire : IsMessage(m, clock')
  BY <1>3, <1>4, Carried
<1>6. a \in up /\ b \in DOMAIN node[a].members
  BY DEF SendPing, Left, AllPings, MayPing, IsPingable, HasMember
<1>7. PingsKnown'
  <2>1. pinging \in [Addr -> Pings]
    BY DEF CInv, PingsKnown
  <2>2. pinging' = [pinging EXCEPT ![a] = [to |-> {b}, failed |-> FALSE]]
    BY DEF SendPing
  <2>3. [to |-> {b}, failed |-> FALSE] \in Pings
    BY DEF Pings
  <2>4. /\ pinging' \in [Addr -> Pings] /\ pinging'[a].to = {b}
        /\ \A x \in Addr \ {a} : pinging'[x] = pinging[x]
    BY <2>1, <2>2, <2>3
  <2> QED BY <1>3, <1>4, <1>6, <2>4 DEF CInv, PingsKnown, Advances
<1>8. IsMessage(Ping(a, node[a], b, a), clock')
  <2>1. NodeOwned(a, node[a], clock') /\ clock' \in [Addr -> Nat]
    BY <1>1, <1>2, <1>4 DEF Advances, NodesOwned
  <2>2. IsBatch(SenderBatch(node[a]), clock')
    BY <2>1, SenderBatchOwned
  <2> QED BY <2>2 DEF IsMessage, Ping
<1>9. wire' \subseteq wire \cup {Ping(a, node[a], b, a)}
  BY DEF SendPing
<1>10. WireOwned'
  BY <1>5, <1>8, <1>9 DEF WireOwned
<1> QED BY <1>4, <1>5, <1>7, <1>10 DEF CInv, Advances

\* The answer to a request, from the node k that has taken in its changes.
LEMMA AnswerOwned ==
  ASSUME NEW b \in Addr, NEW T \in [Addr -> Nat], NEW k, NodeOwned(b, k, T),
         NEW from, NEW inc, NEW sum
  PROVE  IsBatch(AnswerTo(b, k, from, inc, sum), T)
BY ReceiverBatchOwned DEF AnswerTo

LEMMA HandlePingInv ==
  ASSUME CInv, NEW m \in wire, HandlePing(m)
  PROVE  CInv'
<1> DEFINE b == m.to
           k == Receive(b, node[b], m.changes)
           n == IssueAsReceiver(k, m.from, m.inc)
           ans == Answer(m, AnswerTo(b, k, m.from, m.inc, m.sum))
<1>1. IsMessage(m, clock)
  BY DEF CInv, WireOwned
<1>2. /\ b \in Addr /\ m.from \in Addr /\ m.asker \in Addr
      /\ IsBatch(m.changes, clock)
  BY <1>1 DEF IsMessage
<1>3. /\ SetNode(b, n) /\ up' = up /\ answers' = answers /\ pinging' = pinging
      /\ wire' \subseteq wire \cup {ans}
  BY DEF HandlePing, joins
<1> HIDE DEF b
<1>4. NodeOwned(b, node[b], Later(b)) /\ Later(b) \in [Addr -> Nat]
  BY <1>2, LaterClock
<1>5. Follows(b, node[b], k, Later(b))
  BY <1>2, <1>4, ReceiveFollows
<1> HIDE DEF k
<1>6. Follows(b, k, n, Later(b)) /\ n.members = k.members
  BY <1>2, <1>4, <1>5, IssueAsReceiverOwned DEF Follows
<1> HIDE DEF n
<1>7. Follows(b, node[b], n, Later(b))
  BY <1>5, <1>6, FollowsThen
<1>8. /\ Advances
      /\ \A x : x.members = n.members /\ NodeOwned(b, x, Later(b))
           => NodeOwned(b, x, clock')
  BY <1>2, <1>3, <1>7, NodeCall DEF Follows
<1>9. NodeOwned(b, k, clock') /\ clock' \in [Addr -> Nat]
  BY <1>5, <1>6, <1>8 DEF Follows, Advances, NodesOwned
<1>10. IsMessage(ans, clock')
  <2>1. IsBatch(AnswerTo(b, k, m.from, m.inc, m.sum), clock')
    BY <1>2, <1>9, AnswerOwned
  <2> QED BY <1>2, <2>1 DEF IsMessage, Answer, b
<1> HIDE DEF ans
<1>11. /\ UpKnown' /\ AnswersOwned' /\ PingsKnown'
       /\ \A x \in wire : IsMessage(x, clock')
  BY <1>3, <1>8, Carried
<1>12. WireOwned'
  BY <1>3, <1>10, <1>11 DEF WireOwned
<1> QED BY <1>8, <1>11, <1>12 DEF CInv, Advances

LEMMA HandleAnswerInv ==
  ASSUME CInv, NEW m \in wire, HandleAnswer(m)
  PROVE  CInv'
<1> DEFINE b == m.to
           n == Receive(b, node[b], m.changes)
<1>1. b \in Addr /\ IsBatch(m.changes, clock)
  BY DEF CInv, WireOwned, IsMessage
<1>2. /\ SetNode(b, n) /\ up' = up /\ answers' = answers /\ EndPing(b)
      /\ wire' \subseteq wire
  BY DEF HandleAnswer, joins
<1> HIDE DEF b
<1>3. Follows(b, node[b], n, Later(b))
  BY <1>1, LaterClock, ReceiveFollows
<1> HIDE DEF n
<1>4. Advances
  BY <1>1, <1>2, <1>3, NodeCall DEF Follows
<1>5. UpKnown' /\ AnswersOwned' /\ WireOwned'
  BY <1>2, <1>4, Carried
<1>6. PingsKnown'
  BY <1>1, <1>2, <1>4, PingEnded
<1> QED BY <1>4, <1>5, <1>6 DEF CInv, Advances

----------------------------------------------------------------------------
(* Ping-reqs *)

\* The node stays as it is.
LEMMA Unchanged ==
  ASSUME CInv, node' = node, clock' = clock
  PROVE  Advances
<1>1. \A a \in Addr : clock[a] <= clock[a]
  BY DEF CInv, NodesOwned
<1> QED BY <1>1 DEF CInv, NodesOwned, Advances

\* The asker's half of a round, whatever W was left on the wire.
LEMMA SendPingReqInv ==
  ASSUME CInv, NEW a \in Addr, pinging[a] # NoPing, NEW W, \A x \in W : IsMessage(x, clock),
         SendPingReq(a, W), UNCHANGED <<up, joins>>
  PROVE  CInv'
<1> DEFINE n == IssueAsSender(node[a])
<1>0. /\ clock \in [Addr -> Nat] /\ pinging \in [Addr -> Pings]
      /\ up' = up /\ answers' = answers
  BY DEF CInv, NodesOwned, PingsKnown, joins
<1>1. CASE /\ wire' = W /\ EndPing(a) /\ UNCHANGED <<node, clock>>
  <2>1. Advances
    BY <1>1, Unchanged
  <2>2. UpKnown' /\ AnswersOwned'
    BY <1>0, <2>1, Carried
  <2>3. PingsKnown'
    BY <1>0, <1>1, <2>1, PingEnded
  <2>4. WireOwned'
    BY <1>1 DEF WireOwned
  <2> QED BY <2>1, <2>2, <2>3, <2>4 DEF CInv, Advances
<1>2. ASSUME NEW p \in Peers(a),
             wire' = IF p \in up THEN W \cup {PingReq(a, p)} ELSE W,
             pinging' = [pinging EXCEPT ![a].failed = TRUE],
             SetNode(a, n)
      PROVE  CInv'
  <2>1. NodeOwned(a, node[a], Later(a)) /\ Later(a) \in [Addr -> Nat]
    BY LaterClock
  <2>2. Follows(a, node[a], n, Later(a)) /\ n.members = node[a].members
    BY <2>1, IssueAsSenderOwned
  <2> HIDE DEF n
  <2>3. /\ Advances
        /\ \A k : k.members = n.members /\ NodeOwned(a, k, Later(a))
             => NodeOwned(a, k, clock')
    BY <1>2, <2>2, NodeCall DEF Follows
  <2>4. UpKnown' /\ AnswersOwned'
    BY <1>0, <2>3, Carried
  <2>5. PingsKnown'
    <3>1. /\ pinging' \in [Addr -> Pings]
          /\ \A x \in Addr : pinging'[x].to = pinging[x].to
      <4>1. pinging' = [x \in Addr |-> IF x = a THEN [pinging[a] EXCEPT !.failed = TRUE]
                                               ELSE pinging[x]]
        BY <1>0, <1>2
      <4>2. pinging[a] \in [to : {{x} : x \in Addr}, failed : BOOLEAN]
        BY <1>0 DEF Pings
      <4>3. /\ [pinging[a] EXCEPT !.failed = TRUE] \in Pings
            /\ [pinging[a] EXCEPT !.failed = TRUE].to = pinging[a].to
        BY <4>2 DEF Pings
      <4> QED BY <1>0, <4>1, <4>3
    <3> QED BY <1>0, <2>3, <3>1 DEF CInv, PingsKnown, Advances
  <2>6. NodeOwned(a, node[a], clock') /\ clock' \in [Addr -> Nat]
    BY <2>1, <2>2, <2>3 DEF Advances, NodesOwned
  <2>7. IsMessage(PingReq(a, p), clock')
    <3>1. IsBatch(SenderBatch(node[a]), clock')
      BY <2>6, SenderBatchOwned
    <3>2. p \in Addr
      BY DEF Peers
    <3> QED BY <3>1, <3>2 DEF IsMessage, PingReq
  <2>8. \A x \in W : IsMessage(x, clock')
    BY <1>0, <2>3, <2>6, MessageRaised DEF Advances
  <2>9. WireOwned'
    BY <1>2, <2>7, <2>8 DEF WireOwned
  <2> QED BY <2>3, <2>4, <2>5, <2>9 DEF CInv, Advances
<1> QED BY <1>1, <1>2 DEF SendPingReq

\* A late message tells what it told.
LEMMA LateMessage ==
  ASSUME NEW m, NEW T, IsMessage(m, T)
  PROVE  IsMessage([m EXCEPT !.late = TRUE], T)
<1> DEFINE l == [m EXCEPT !.late = TRUE]
<1>1. {"kind", "asker", "from", "to", "changes"} \subseteq DOMAIN m
  BY DEF IsMessage
<1>2. /\ DOMAIN l = DOMAIN m /\ l.asker = m.asker /\ l.from = m.from
      /\ l.to = m.to /\ l.changes = m.changes
  BY <1>1
<1> HIDE DEF l
<1>3. IsMessage(l, T)
  BY <1>2 DEF IsMessage
<1> QED BY <1>3 DEF l

LEMMA PingFailsInv ==
  ASSUME CInv, NEW a \in Addr, PingFails(a)
  PROVE  CInv'
<1>1. pinging[a] # NoPing /\ UNCHANGED <<up, joins>>
  BY DEF PingFails
<1>2. \A x \in wire : IsMessage(x, clock)
  BY DEF CInv, WireOwned
<1>3. CASE SendPingReq(a, wire)
  BY <1>1, <1>2, <1>3, SendPingReqInv
<1>4. ASSUME NEW lost \in BOOLEAN,
             SendPingReq(a, (wire \ Pending(a)) \cup
               {[m EXCEPT !.late = TRUE] :
                  m \in {x \in Pending(a) : x.kind = "ping" /\ ~lost}})
      PROVE  CInv'
  <2> DEFINE W == (wire \ Pending(a)) \cup
               {[m EXCEPT !.late = TRUE] :
                  m \in {x \in Pending(a) : x.kind = "ping" /\ ~lost}}
  <2>1. \A x \in W : IsMessage(x, clock)
    BY <1>2, LateMessage DEF Pending
  <2>2. SendPingReq(a, W)
    BY <1>4
  <2> HIDE DEF W
  <2> QED BY <1>1, <2>1, <2>2, SendPingReqInv
<1> QED BY <1>3, <1>4 DEF PingFails

LEMMA HandlePingReqInv ==
  ASSUME CInv, NEW m \in wire, HandlePingReq(m)
  PROVE  CInv'
<1> DEFINE p == m.to
           k == Receive(p, node[p], m.changes)
           n == IssueAsSender(k)
<1>1. /\ p \in Addr /\ m.from \in Addr /\ m.asker \in Addr
      /\ IsBatch(m.changes, clock)
  BY DEF CInv, WireOwned, IsMessage
<1>2. PICK t \in pinging[m.asker].to :
        /\ SetNode(p, n) /\ up' = up /\ answers' = answers /\ pinging' = pinging
        /\ wire' \subseteq wire \cup {Ping(p, k, t, m.asker)}
  BY DEF HandlePingReq, joins
<1>3. t \in Addr
  BY <1>1 DEF CInv, PingsKnown, Pings, NoPing
<1> HIDE DEF p
<1>4. NodeOwned(p, node[p], Later(p)) /\ Later(p) \in [Addr -> Nat]
  BY <1>1, LaterClock
<1>5. Follows(p, node[p], k, Later(p))
  BY <1>1, <1>4, ReceiveFollows
<1> HIDE DEF k
<1>6. Follows(p, k, n, Later(p)) /\ n.members = k.members
  BY <1>1, <1>4, <1>5, IssueAsSenderOwned DEF Follows
<1> HIDE DEF n
<1>7. Follows(p, node[p], n, Later(p))
  BY <1>5, <1>6, FollowsThen
<1>8. /\ Advances
      /\ \A x : x.members = n.members /\ NodeOwned(p, x, Later(p))
           => NodeOwned(p, x, clock')
  BY <1>1, <1>2, <1>7, NodeCall DEF Follows
<1>9. NodeOwned(p, k, clock') /\ clock' \in [Addr -> Nat]
  BY <1>5, <1>6, <1>8 DEF Follows, Advances, NodesOwned
<1>10. IsMessage(Ping(p, k, t, m.asker), clock')
  <2>1. IsBatch(SenderBatch(k), clock')
    BY <1>1, <1>9, SenderBatchOwned
  <2> QED BY <1>1, <1>3, <2>1 DEF IsMessage, Ping
<1>11. /\ UpKnown' /\ AnswersOwned' /\ PingsKnown'
       /\ \A x \in wire : IsMessage(x, clock')
  BY <1>2, <1>8, Carried
<1>12. WireOwned'
  BY <1>2, <1>10, <1>11 DEF WireOwned
<1> QED BY <1>8, <1>11, <1>12 DEF CInv, Advances

\* The relay, become k, answers the asker.
LEMMA AnswerPingReqInv ==
  ASSUME CInv, NEW p \in Addr, NEW k, Follows(p, node[p], k, Later(p)),
         NEW m, m.asker \in Addr, NEW ok, AnswerPingReq(p, k, m, ok)
  PROVE  CInv'
<1> DEFINE req == asked[p][m.asker]
           n == IssueAsReceiver(k, m.asker, req.inc)
           v == Verdict(p, m.asker, ok, AnswerTo(p, k, m.asker, req.inc, req.sum))
<1>1. /\ SetNode(p, n) /\ up' = up /\ answers' = answers /\ pinging' = pinging
      /\ wire' \subseteq wire \cup {v}
  BY DEF AnswerPingReq, joins
<1>2. NodeOwned(p, node[p], Later(p)) /\ Later(p) \in [Addr -> Nat]
  BY LaterClock
<1>3. Follows(p, k, n, Later(p)) /\ n.members = k.members
  BY <1>2, IssueAsReceiverOwned DEF Follows
<1> HIDE DEF n
<1>4. Follows(p, node[p], n, Later(p))
  BY <1>3, FollowsThen
<1>5. /\ Advances
      /\ \A x : x.members = n.members /\ NodeOwned(p, x, Later(p))
           => NodeOwned(p, x, clock')
  BY <1>1, <1>4, NodeCall DEF Follows
<1>6. NodeOwned(p, k, clock') /\ clock' \in [Addr -> Nat]
  BY <1>3, <1>5 DEF Follows, Advances, NodesOwned
<1>7. IsMessage(v, clock')
  <2>1. IsBatch(AnswerTo(p, k, m.asker, req.inc, req.sum), clock')
    BY <1>6, AnswerOwned
  <2> QED BY <2>1 DEF IsMessage, Verdict
<1> HIDE DEF v
<1>8. /\ UpKnown' /\ AnswersOwned' /\ PingsKnown'
      /\ \A x \in wire : IsMessage(x, clock')
  BY <1>1, <1>5, Carried
<1>9. WireOwned'
  BY <1>1, <1>7, <1>8 DEF WireOwned
<1> QED BY <1>5, <1>8, <1>9 DEF CInv, Advances

LEMMA RelayAnsweredInv ==
  ASSUME CInv, NEW m \in wire, RelayAnswered(m)
  PROVE  CInv'
<1>1. m.to \in Addr /\ m.asker \in Addr /\ IsBatch(m.changes, clock)
  BY DEF CInv, WireOwned, IsMessage
<1>2. AnswerPingReq(m.to, Receive(m.to, node[m.to], m.changes), m, TRUE)
  BY DEF RelayAnswered
<1>3. Follows(m.to, node[m.to], Receive(m.to, node[m.to], m.changes), Later(m.to))
  BY <1>1, LaterClock, ReceiveFollows
<1> QED BY <1>1, <1>2, <1>3, AnswerPingReqInv

LEMMA RelayFailsInv ==
  ASSUME CInv, NEW m \in wire, RelayFails(m)
  PROVE  CInv'
<1>1. m.from \in Addr /\ m.asker \in Addr
  BY DEF CInv, WireOwned, IsMessage
<1>2. AnswerPingReq(m.from, node[m.from], m, FALSE)
  BY DEF RelayFails
<1>3. Follows(m.from, node[m.from], node[m.from], Later(m.from))
  BY <1>1, LaterClock DEF Follows
<1> QED BY <1>1, <1>2, <1>3, AnswerPingReqInv

LEMMA HandleVerdictInv ==
  ASSUME CInv, NEW m \in wire, HandleVerdict(m)
  PROVE  CInv'
<1> DEFINE a == m.to
           k == Receive(a, node[a], m.changes)
<1>1. a \in Addr /\ IsBatch(m.changes, clock)
  BY DEF CInv, WireOwned, IsMessage
<1>2. PICK t \in pinging[a].to :
        /\ SetNode(a, IF m.ok THEN k ELSE Suspect(a, k, t))
        /\ up' = up /\ answers' = answers /\ EndPing(a) /\ wire' \subseteq wire
  BY DEF HandleVerdict, joins
<1> HIDE DEF a
<1>3. Follows(a, node[a], k, Later(a))
  BY <1>1, LaterClock, ReceiveFollows
<1>4. t \in DOMAIN node[a].members
  BY <1>1, <1>2 DEF CInv, PingsKnown
<1> HIDE DEF k
<1>5. Follows(a, node[a], Suspect(a, k, t), Later(a))
  <2>1. t \in Addr /\ Inc(k, t) \in Nat /\ Inc(k, t) <= Later(a)[t]
    BY <1>3, <1>4, KnownInc DEF Follows, HasMember
  <2>2. Later(a) \in [Addr -> Nat] /\ Later(a)[a] = Now(a)
    BY <1>1, LaterClock
  <2>3. "suspect" \in Status
    BY DEF Status
  <2>4. Follows(a, k, MakeUpdate(a, k, t, "suspect", Inc(k, t), Later(a)[a]), Later(a))
    BY <1>1, <1>3, <2>1, <2>2, <2>3, MakeUpdateOwned DEF Follows
  <2> QED BY <1>3, <2>2, <2>4, FollowsThen DEF Suspect
<1> DEFINE n == IF m.ok THEN k ELSE Suspect(a, k, t)
<1>6. Follows(a, node[a], n, Later(a)) /\ SetNode(a, n)
  BY <1>2, <1>3, <1>5
<1> HIDE DEF n
<1>7. Advances
  BY <1>1, <1>6, NodeCall DEF Follows
<1>8. UpKnown' /\ AnswersOwned' /\ WireOwned'
  BY <1>2, <1>7, Carried
<1>9. PingsKnown'
  BY <1>1, <1>2, <1>7, PingEnded
<1> QED BY <1>7, <1>8, <1>9 DEF CInv, Advances

LEMMA PingReqUnansweredInv ==
  ASSUME CInv, NEW a \in Addr, PingReqUnanswered(a)
  PROVE  CInv'
<1>1. /\ node' = node /\ clock' = clock /\ up' = up /\ answers' = answers
      /\ EndPing(a) /\ wire' \subseteq wire
  BY DEF PingReqUnanswered, joins
<1>2. Advances
  BY <1>1, Unchanged
<1>3. UpKnown' /\ AnswersOwned' /\ WireOwned'
  BY <1>1, <1>2, Carried
<1>4. PingsKnown'
  BY <1>1, <1>2, PingEnded
<1> QED BY <1>2, <1>3, <1>4 DEF CInv, Advances

----------------------------------------------------------------------------
(* Suspicion and the operator *)

\* A call of one node that sends nothing.
LEMMA QuietCall ==
  ASSUME CInv, NEW a \in Addr, NEW n, Follows(a, node[a], n, Later(a)),
         SetNode(a, n), UNCHANGED <<up, pinging, joins, wire>>
  PROVE  CInv'
<1>1. up' = up /\ answers' = answers /\ pinging' = pinging /\ wire' \subseteq wire
  BY DEF joins
<1>2. Advances
  BY NodeCall DEF Follows
<1> QED BY <1>1, <1>2, Carried DEF CInv, Advances

LEMMA SuspicionTimeoutInv ==
  ASSUME CInv, NEW a \in Addr, NEW b \in Addr, SuspicionTimeout(a, b)
  PROVE  CInv'
<1> DEFINE inc == node[a].timers[b]
           n == MakeUpdate(a, node[a], b, "faulty", inc, Now(a))
<1>1. NodeOwned(a, node[a], clock) /\ b \in DOMAIN node[a].timers
  BY DEF CInv, NodesOwned, SuspicionTimeout
<1>2. HasMember(node[a], b) /\ inc = Inc(node[a], b)
  BY <1>1 DEF NodeOwned, NodeInv, TimersAreSound, Inc
<1>3. inc \in Nat /\ inc <= clock[b]
  BY <1>1, <1>2, KnownInc
<1>4. SetNode(a, n) /\ UNCHANGED <<up, pinging, joins, wire>>
  BY DEF SuspicionTimeout
<1>5. Follows(a, node[a], n, Later(a))
  BY <1>3, LaterClock, MakeFollows DEF Status
<1> HIDE DEF n
<1> QED BY <1>4, <1>5, QuietCall

LEMMA AdminLeaveInv ==
  ASSUME CInv, NEW a \in Addr, AdminLeave(a)
  PROVE  CInv'
<1> DEFINE inc == Inc(node[a], a)
           k == MakeUpdate(a, node[a], a, "leave", inc, Now(a))
           n == StopProtocols(k)
<1>1. NodeOwned(a, node[a], clock) /\ HasMember(node[a], a)
  BY DEF CInv, NodesOwned, UpKnown, AdminLeave
<1>2. inc \in Nat /\ inc <= clock[a]
  BY <1>1, KnownInc
<1>3. SetNode(a, n) /\ UNCHANGED <<up, pinging, joins, wire>>
  BY DEF AdminLeave
<1> HIDE DEF inc
<1>4. Follows(a, node[a], k, Later(a))
  BY <1>2, LaterClock, MakeFollows DEF Status
<1> HIDE DEF k
<1>5. Follows(a, k, n, Later(a))
  BY <1>4, LaterClock, StopProtocolsOwned DEF Follows
<1> HIDE DEF n
<1> QED BY <1>3, <1>4, <1>5, FollowsThen, QuietCall

\* makeAlive of the local member, at the next reading of its clock.
LEMMA AliveAgain ==
  ASSUME CInv, NEW a \in Addr, NEW n, NodeOwned(a, n, Later(a))
  PROVE  /\ Follows(a, n, MakeUpdate(a, n, a, "alive", Now(a), Now(a)), Later(a))
         /\ HasMember(MakeUpdate(a, n, a, "alive", Now(a), Now(a)), a)
<1>1. Later(a) \in [Addr -> Nat] /\ Later(a)[a] = Now(a)
  BY LaterClock
<1>2. Now(a) \in Nat /\ NodeInv(a, n, Now(a))
  BY <1>1 DEF NodeOwned
<1>3. "alive" \in Status
  BY DEF Status
<1>4. Follows(a, n, MakeUpdate(a, n, a, "alive", Now(a), Now(a)), Later(a))
  BY <1>2, <1>3, MakeFollows
<1> QED BY <1>2, <1>4, MakeAliveAdds

LEMMA AdminJoinInv ==
  ASSUME CInv, NEW a \in Addr, AdminJoin(a)
  PROVE  CInv'
<1> DEFINE k == MakeUpdate(a, node[a], a, "alive", Now(a), Now(a))
           l == StartGossip(k)
           n == Reenable(l)
<1>1. SetNode(a, n) /\ UNCHANGED <<up, pinging, joins, wire>>
  BY DEF AdminJoin
<1>2. NodeOwned(a, node[a], Later(a)) /\ Later(a) \in [Addr -> Nat]
  BY LaterClock
<1>3. Follows(a, node[a], k, Later(a))
  BY <1>2, AliveAgain
<1> HIDE DEF k
<1>4. Follows(a, k, l, Later(a))
  BY <1>2, <1>3, StartGossipOwned DEF Follows
<1> HIDE DEF l
<1>5. Follows(a, l, n, Later(a))
  BY <1>2, <1>4, ReenableOwned DEF Follows
<1> HIDE DEF n
<1> QED BY <1>1, <1>3, <1>4, <1>5, FollowsThen, QuietCall

----------------------------------------------------------------------------
(* Crashes, restarts and joins *)

\* What a process knew is gone, and its clock is not.
LEMMA CrashInv ==
  ASSUME CInv, NEW a \in Addr, Crash(a)
  PROVE  CInv'
<1>1. /\ DOMAIN node = Addr /\ clock \in [Addr -> Nat] /\ pinging \in [Addr -> Pings]
      /\ DOMAIN answers = Addr /\ up \subseteq Addr
      /\ \A x \in Addr : NodeOwned(x, node[x], clock)
  BY DEF CInv, NodesOwned, PingsKnown, AnswersOwned, UpKnown
<1>2. /\ node' = [node EXCEPT ![a] = NewNode] /\ clock' = clock
      /\ up' = up \ {a} /\ pinging' = [pinging EXCEPT ![a] = NoPing]
      /\ answers' = [answers EXCEPT ![a] = NoMap] /\ wire' = WireAfterCrash(a)
  BY DEF Crash
<1>3. /\ DOMAIN node' = Addr /\ node'[a] = NewNode
      /\ \A x \in Addr \ {a} : node'[x] = node[x]
  BY <1>1, <1>2
<1>4. NodesOwned'
  <2>1. NodeOwned(a, NewNode, clock)
    BY <1>1, NewNodeOwned
  <2>2. \A x \in Addr : NodeOwned(x, node'[x], clock')
    BY <1>1, <1>2, <1>3, <2>1
  <2> QED BY <1>1, <1>2, <1>3, <2>2 DEF NodesOwned
<1>5. UpKnown'
  BY <1>1, <1>2, <1>3 DEF CInv, UpKnown
<1>6. PingsKnown'
  <2>1. NoPing \in Pings /\ NoPing.to = {}
    BY DEF NoPing, Pings
  <2>2. /\ pinging' \in [Addr -> Pings] /\ pinging'[a].to = {}
        /\ \A x \in Addr \ {a} : pinging'[x] = pinging[x]
    BY <1>1, <1>2, <2>1
  <2> QED BY <1>1, <1>2, <1>3, <2>2 DEF CInv, PingsKnown
<1>7. AnswersOwned'
  <2>1. IsBatch(NoMap, clock)
    BY DEF IsBatch, IsMap, IsBounded, NoMap
  <2> QED BY <1>1, <1>2, <2>1 DEF CInv, AnswersOwned
<1>8. WireOwned'
  BY <1>2, LateMessage DEF CInv, WireOwned, WireAfterCrash
<1> QED BY <1>4, <1>5, <1>6, <1>7, <1>8 DEF CInv

LEMMA RestartInv ==
  ASSUME CInv, NEW a \in Addr, Restart(a)
  PROVE  CInv'
<1> DEFINE n == MakeUpdate(a, NewNode, a, "alive", Now(a), Now(a))
<1>1. /\ a \notin up /\ up' = up \cup {a} /\ SetNode(a, n)
      /\ pinging' = pinging /\ answers' = answers /\ wire' = wire
  BY DEF Restart, joins
<1>2. NodeOwned(a, n, Later(a)) /\ HasMember(n, a)
  BY LaterClock, NewNodeOwned, AliveAgain DEF Follows
<1> HIDE DEF n
<1>3. /\ NodesOwned'
      /\ \A x \in Addr : clock[x] <= clock'[x]
      /\ \A x \in Addr \ {a} : node'[x] = node[x]
      /\ node'[a] = n
  BY <1>1, <1>2, NodeCall
<1>4. clock \in [Addr -> Nat] /\ clock' \in [Addr -> Nat]
  BY <1>3 DEF CInv, NodesOwned
<1>5. UpKnown'
  BY <1>1, <1>2, <1>3 DEF CInv, UpKnown
<1>6. PingsKnown'
  BY <1>1, <1>3 DEF CInv, PingsKnown
<1>7. AnswersOwned'
  BY <1>1, <1>3, <1>4, BatchRaised DEF CInv, AnswersOwned
<1>8. WireOwned'
  BY <1>1, <1>3, <1>4, MessageRaised DEF CInv, WireOwned
<1> QED BY <1>3, <1>5, <1>6, <1>7, <1>8 DEF CInv

\* A host takes a joining node in, at the incarnation it has.
LEMMA HostOwned ==
  ASSUME CInv, NEW a \in up, NEW b \in Addr
  PROVE  Follows(b, node[b], HostAfterJoin(a, b), Later(b))
<1>1. a \in Addr /\ NodeOwned(a, node[a], clock) /\ HasMember(node[a], a)
  BY DEF CInv, NodesOwned, UpKnown
<1>2. Inc(node[a], a) \in Nat /\ Inc(node[a], a) <= clock[a]
  BY <1>1, KnownInc
<1>3. "alive" \in Status
  BY DEF Status
<1> QED BY <1>1, <1>2, <1>3, LaterClock, MakeFollows DEF HostAfterJoin

LEMMA JoinLostInv ==
  ASSUME CInv, NEW a \in Addr, NEW b \in Addr, JoinLost(a, b)
  PROVE  CInv'
<1>1. a \in up /\ SetNode(b, HostAfterJoin(a, b)) /\ UNCHANGED <<up, pinging, joins, wire>>
  BY DEF JoinLost, IsJoining
<1> QED BY <1>1, HostOwned, QuietCall

\* What a has of the hosts' answers with that of b, what becomes of a that
\* is told them, and whether the join of a is then complete.
Merged(a, b) == MergeChangeset(a, answers[a], FullSync(b, HostAfterJoin(a, b)))
Told(a, b) == Receive(a, node[a], Merged(a, b))
Complete(a) == Cardinality(joined[a]) + 1 >= JoinSize

LEMMA JoinAnsweredNodes ==
  ASSUME CInv, NEW a \in Addr, NEW b \in Addr, JoinAnswered(a, b)
  PROVE  /\ a \in up /\ b \in up \ {a} /\ ~node[a].ready /\ HasMember(node[a], a)
         /\ DOMAIN node' = Addr /\ node'[b] = HostAfterJoin(a, b)
         /\ node'[a] = IF Complete(a) THEN BecomeReady(a, Told(a, b)) ELSE node[a]
         /\ \A x \in Addr \ {a, b} : node'[x] = node[x]
         /\ clock' \in [Addr -> Nat] /\ clock'[b] = ClockOf(b, HostAfterJoin(a, b))
         /\ \A x \in Addr \ {b} : clock'[x] = clock[x]
         /\ \A x \in Addr : clock[x] <= clock'[x]
         /\ answers' = [answers EXCEPT ![a] = IF Complete(a) THEN NoMap ELSE Merged(a, b)]
         /\ IsBatch(Merged(a, b), clock')
         /\ Follows(a, node[a], Told(a, b), clock')
<1> DEFINE host == HostAfterJoin(a, b)
           n == IF Complete(a) THEN BecomeReady(a, Told(a, b)) ELSE node[a]
<1>1. /\ DOMAIN node = Addr /\ clock \in [Addr -> Nat]
      /\ \A x \in Addr : NodeOwned(x, node[x], clock) /\ IsBatch(answers[x], clock)
  BY DEF CInv, NodesOwned, AnswersOwned
<1>2. a \in up /\ b \in up \ {a} /\ ~node[a].ready /\ HasMember(node[a], a)
  BY DEF JoinAnswered, IsJoining, CInv, UpKnown
<1>3. /\ node' = [node EXCEPT ![b] = host,
                    ![a] = IF Complete(a) THEN BecomeReady(a, Receive(a, @, Merged(a, b))) ELSE @]
      /\ answers' = [answers EXCEPT ![a] = IF Complete(a) THEN NoMap ELSE Merged(a, b)]
      /\ clock' = [clock EXCEPT ![b] = ClockOf(b, node'[b])]
  BY DEF JoinAnswered, Complete, Merged
<1> HIDE DEF host
<1>4. Follows(b, node[b], host, Later(b))
  BY <1>2, HostOwned DEF host
<1>5. /\ DOMAIN node' = Addr /\ node'[b] = host /\ node'[a] = n
      /\ \A x \in Addr \ {a, b} : node'[x] = node[x]
  BY <1>1, <1>2, <1>3 DEF Told
<1> HIDE DEF n
<1>6. /\ clock' \in [Addr -> Nat] /\ clock'[b] = ClockOf(b, host)
      /\ \A x \in Addr \ {b} : clock'[x] = clock[x]
      /\ \A x \in Addr : clock[x] <= clock'[x]
  <2>1. clock' = [clock EXCEPT ![b] = ClockOf(b, host)]
    BY <1>3, <1>5
  <2>2. IsMap(host.members, Record)
    BY <1>4 DEF Follows, NodeOwned, NodeInv, IsNode
  <2>3. ClockOf(b, host) \in Nat /\ clock[b] <= ClockOf(b, host)
    BY <1>1, <2>2 DEF ClockOf, Inc, HasMember, IsMap, Record
  <2> QED BY <1>1, <2>1, <2>3
<1>7. NodeOwned(b, host, clock')
  BY <1>4, <1>6, Settled DEF Follows
<1>8. NodeOwned(a, node[a], clock') /\ IsBatch(answers[a], clock')
  BY <1>1, <1>6, NodeRaised, BatchRaised
<1>9. IsBatch(Merged(a, b), clock')
  BY <1>6, <1>7, <1>8, FullSyncOwned, MergeBatch DEF Merged, host
<1>10. Follows(a, node[a], Told(a, b), clock')
  BY <1>2, <1>6, <1>8, <1>9, StashOwned DEF Receive, Told
<1> QED BY <1>2, <1>3, <1>5, <1>6, <1>9, <1>10 DEF host, n

LEMMA JoinAnsweredInv ==
  ASSUME CInv, NEW a \in Addr, NEW b \in Addr, JoinAnswered(a, b)
  PROVE  CInv'
<1> DEFINE host == HostAfterJoin(a, b)
           k == Told(a, b)
           n == IF Complete(a) THEN BecomeReady(a, k) ELSE node[a]
<1>1. /\ clock \in [Addr -> Nat] /\ DOMAIN answers = Addr
      /\ \A x \in Addr : NodeOwned(x, node[x], clock) /\ IsBatch(answers[x], clock)
      /\ up' = up /\ pinging' = pinging /\ wire' = wire
  BY DEF CInv, NodesOwned, AnswersOwned, JoinAnswered
<1>2. /\ a \in up /\ b \in up \ {a} /\ ~node[a].ready /\ HasMember(node[a], a)
      /\ DOMAIN node' = Addr /\ node'[b] = host /\ node'[a] = n
      /\ \A x \in Addr \ {a, b} : node'[x] = node[x]
      /\ clock' \in [Addr -> Nat] /\ clock'[b] = ClockOf(b, host)
      /\ \A x \in Addr \ {b} : clock'[x] = clock[x]
      /\ \A x \in Addr : clock[x] <= clock'[x]
      /\ answers' = [answers EXCEPT ![a] = IF Complete(a) THEN NoMap ELSE Merged(a, b)]
      /\ IsBatch(Merged(a, b), clock')
      /\ Follows(a, node[a], k, clock')
  BY JoinAnsweredNodes
<1>3. Follows(b, node[b], host, Later(b))
  BY <1>2, HostOwned
<1> HIDE DEF host, k
<1>4. NodeOwned(b, host, clock')
  BY <1>2, <1>3, Settled DEF Follows
<1>5. \A x \in Addr : NodeOwned(x, node[x], clock') /\ IsBatch(answers[x], clock')
  BY <1>1, <1>2, NodeRaised, BatchRaised
<1>6. NodeOwned(a, n, clock') /\ DOMAIN node[a].members \subseteq DOMAIN n.members
  <2>1. ~k.ready /\ HasMember(k, a) /\ NodeOwned(a, k, clock')
    BY <1>2 DEF Follows, HasMember
  <2>2. /\ NodeOwned(a, BecomeReady(a, k), clock')
        /\ DOMAIN k.members \subseteq DOMAIN BecomeReady(a, k).members
    BY <1>2, <2>1, BecomeReadyOwned
  <2> QED BY <1>2, <1>5, <2>2 DEF Follows
<1> HIDE DEF n
<1>7. Advances
  <2>1. \A x \in Addr : NodeOwned(x, node'[x], clock')
    BY <1>2, <1>4, <1>5, <1>6
  <2>2. \A x \in Addr : DOMAIN node[x].members \subseteq DOMAIN node'[x].members
    BY <1>2, <1>3, <1>6 DEF Follows
  <2> QED BY <1>2, <2>1, <2>2 DEF Advances, NodesOwned
<1>8. AnswersOwned'
  <2>1. IsBatch(NoMap, clock')
    BY DEF IsBatch, IsMap, IsBounded, NoMap
  <2> QED BY <1>1, <1>2, <1>5, <2>1 DEF AnswersOwned
<1>9. UpKnown' /\ PingsKnown' /\ WireOwned'
  BY <1>1, <1>7, Carried
<1> QED BY <1>7, <1>8, <1>9 DEF CInv, Advances

----------------------------------------------------------------------------
(* The theorem *)

LEMMA InitCInv ==
  ASSUME Init
  PROVE  CInv
<1>1. ASSUME NEW a \in Addr PROVE NodeOwned(a, Formed(a), clock)
  <2> DEFINE n == Formed(a)
  <2>1. clock[a] = 1 /\ \A x \in Addr : clock[x] = 1
    BY DEF Init
  <2>2. AdjustedCount(Addr) \in Nat
    BY AdjustedCountType
  <2>3. /\ n \in NodeShape(n) /\ n.ready = TRUE /\ n.stash = NoMap /\ n.timers = NoMap
        /\ n.members = [x \in Addr |-> [status |-> "alive", inc |-> 1]]
        /\ n.ring = Addr /\ n.stoppedAll = FALSE /\ n.changes = NoMap
        /\ n.maxCount = AdjustedCount(Addr) /\ n.gossiping = TRUE
    BY DEF Formed, NewNode, NodeShape
  <2> HIDE DEF n
  <2>4. IsNode(n)
    <3>1. IsMap([x \in Addr |-> [status |-> "alive", inc |-> 1]], Record)
      BY DEF IsMap, Record, Status
    <3>2. \A T : IsMap(NoMap, T)
      BY DEF IsMap, NoMap
    <3> QED BY <2>2, <2>3, <3>1, <3>2 DEF IsNode
  <2>5. NodeInv(a, n, clock[a])
    BY <2>1, <2>3, <2>4 DEF NodeInv, NoMap, LocalMemberIsSound, TimersAreSound,
                            RingIsSound, RumoursAreSound, HasMember
  <2>6. IsBounded(n.members, clock) /\ IsBounded(n.stash, clock)
    BY <2>1, <2>3 DEF IsBounded, NoMap
  <2> QED BY <2>5, <2>6 DEF NodeOwned, n
<1>2. NodesOwned
  BY <1>1 DEF Init, NodesOwned
<1>3. UpKnown
  BY DEF Init, UpKnown, HasMember, Formed, NewNode
<1>4. PingsKnown
  BY DEF Init, PingsKnown, Pings, NoPing
<1>5. AnswersOwned
  BY DEF Init, AnswersOwned, IsBatch, IsMap, IsBounded, NoMap
<1>6. WireOwned
  BY DEF Init, WireOwned
<1> QED BY <1>2, <1>3, <1>4, <1>5, <1>6 DEF CInv

LEMMA NextCInv ==
  ASSUME CInv, [Next]_vars
  PROVE  CInv'
<1>1. ASSUME NEW a \in Addr, NEW b \in Addr, SendPing(a, b) PROVE CInv'
  BY <1>1, SendPingInv
<1>2. ASSUME NEW m \in wire, \/ HandlePing(m) \/ HandleAnswer(m) \/ HandlePingReq(m)
                            \/ RelayAnswered(m) \/ RelayFails(m) \/ HandleVerdict(m)
      PROVE  CInv'
  BY <1>2, HandlePingInv, HandleAnswerInv, HandlePingReqInv, RelayAnsweredInv,
     RelayFailsInv, HandleVerdictInv
<1>3. ASSUME NEW a \in Addr, PingFails(a) \/ PingReqUnanswered(a) PROVE CInv'
  BY <1>3, PingFailsInv, PingReqUnansweredInv
<1>4. ASSUME NEW a \in Addr, NEW b \in Addr,
             SuspicionTimeout(a, b) \/ JoinAnswered(a, b) \/ JoinLost(a, b)
      PROVE  CInv'
  BY <1>4, SuspicionTimeoutInv, JoinAnsweredInv, JoinLostInv
<1>5. ASSUME NEW a \in Addr, Crash(a) \/ Restart(a) \/ AdminLeave(a) \/ AdminJoin(a)
      PROVE  CInv'
  BY <1>5, CrashInv, RestartInv, AdminLeaveInv, AdminJoinInv
<1>6. ASSUME UNCHANGED vars PROVE CInv'
  <2>1. /\ node' = node /\ clock' = clock /\ up' = up /\ answers' = answers
        /\ pinging' = pinging /\ wire' = wire
    BY <1>6 DEF vars, joins
  <2>2. Advances
    BY <2>1, Unchanged
  <2> QED BY <2>1, <2>2, Carried DEF CInv, Advances
<1> QED BY <1>1, <1>2, <1>3, <1>4, <1>5, <1>6 DEF Next, Talk, Handle, Timeout, Join

\* Nobody ever holds, spreads or sends an incarnation of a node that the node
\* has not given itself: however many nodes ping, relay, suspect, crash,
\* restart, join and leave, in whatever order messages arrive or get lost.
THEOREM IncarnationsOwnedHolds == Spec => []IncarnationsOwned
<1>1. CInv => IncarnationsOwned
  <2> SUFFICES ASSUME CInv, NEW b \in Addr
               PROVE  /\ \A a \in Addr :
                           \A f \in {node[a].members, node[a].stash, node[a].changes} :
                              b \in DOMAIN f => f[b].inc <= clock[b]
                      /\ \A m \in wire :
                           b \in DOMAIN m.changes => m.changes[b].inc <= clock[b]
    BY DEF IncarnationsOwned
  <2>1. ASSUME NEW a \in Addr,
               NEW f \in {node[a].members, node[a].stash, node[a].changes},
               b \in DOMAIN f
        PROVE  f[b].inc <= clock[b]
    <3>1. NodeOwned(a, node[a], clock)
      BY DEF CInv, NodesOwned
    <3>2. CASE f \in {node[a].members, node[a].stash}
      BY <2>1, <3>1, <3>2 DEF NodeOwned, IsBounded
    <3>3. CASE f = node[a].changes
      BY <2>1, <3>1, <3>3 DEF NodeOwned, NodeInv, RumoursAreSound, HasMember, IsBounded
    <3> QED BY <3>2, <3>3
  <2>2. ASSUME NEW m \in wire, b \in DOMAIN m.changes
        PROVE  m.changes[b].inc <= clock[b]
    BY <2>2 DEF CInv, WireOwned, IsMessage, IsBatch, IsBounded
  <2> QED BY <2>1, <2>2
<1>2. Init => CInv
  BY InitCInv
<1>3. CInv /\ [Next]_vars => CInv'
  BY NextCInv
<1> QED BY <1>1, <1>2, <1>3, PTL DEF Spec

\* Each node's own promises, which RingpopNode checks of one node in a world
\* that tells it nothing impossible: the local member is alive or has left,
\* timers guard suspects, the ring follows the list, rumours are current.
NodesAreSound ==
  \A a \in Addr :
    /\ IsNode(node[a])
    /\ LocalMemberIsSound(a, node[a], clock[a])
    /\ TimersAreSound(a, node[a])
    /\ RingIsSound(node[a])
    /\ RumoursAreSound(node[a])

\* The other nodes are such a world: in a cluster of any size every node
\* keeps its promises, whatever becomes of the others.
THEOREM NodesAreSoundHolds == Spec => []NodesAreSound
<1>1. CInv => NodesAreSound
  BY DEF CInv, NodesOwned, NodeOwned, NodeInv, NodesAreSound
<1>2. Init => CInv
  BY InitCInv
<1>3. CInv /\ [Next]_vars => CInv'
  BY NextCInv
<1> QED BY <1>1, <1>2, <1>3, PTL DEF Spec

----------------------------------------------------------------------------
(* The conversation of each node: its ping, what is in flight of it, and    *)
(* what a relay keeps for it.                                               *)

\* a has pinged b: it waits for the answer, or ping-reqs have followed.
Asks(a, b, failed) == pinging[a] = [to |-> {b}, failed |-> failed]

\* Where the one message of a's conversation may be.
Fits(a, m) ==
  \/ m.kind = "ping" /\ m.from = a /\ Asks(a, m.to, FALSE)
  \/ m.kind = "answer" /\ m.to = a /\ Asks(a, m.from, FALSE)
  \/ m.kind = "ping-req" /\ m.from = a /\ m.to # a /\ pinging[a].failed
  \/ m.kind = "ping" /\ m.from # a /\ Asks(a, m.to, TRUE)
  \/ m.kind = "answer" /\ m.to # a /\ Asks(a, m.from, TRUE)
  \/ m.kind = "verdict" /\ m.to = a /\ m.from # a /\ pinging[a].failed

\* m is a ping that p relays for a, or the answer to it.
IsRelayedBy(a, m, p) ==
  /\ p # a
  /\ \/ m.kind = "ping" /\ m.from = p
     \/ m.kind = "answer" /\ m.to = p

\* One message at most is in flight, of the ping that a has not ended; and a
\* node keeps what it needs for its answer exactly while it relays for a.
Exchange(a) ==
  /\ \A m, l \in Pending(a) : m = l
  /\ \A m \in Pending(a) : Fits(a, m)
  /\ \A p \in Addr :
       a \in DOMAIN asked[p] <=> \E m \in Pending(a) : IsRelayedBy(a, m, p)

\* Only a node's own pings are late.
IsLatePing(m) == m.kind = "ping" /\ m.late
PingFits(m) ==
  m.kind = "ping" => "late" \in DOMAIN m /\ (m.late => m.from = m.asker)

Conversations ==
  /\ DOMAIN asked = Addr
  /\ \A m \in wire : PingFits(m)
  /\ \A a \in Addr : Exchange(a)

WInv == CInv /\ Conversations

\* A node that has no ping has nothing in flight, and nobody relays for it.
LEMMA Idle ==
  ASSUME Conversations, NEW a \in Addr, pinging[a] = NoPing
  PROVE  Pending(a) = {}
<1> SUFFICES ASSUME NEW m \in Pending(a) PROVE FALSE
  OBVIOUS
<1>1. Fits(a, m)
  BY DEF Conversations, Exchange
<1>2. NoPing.failed = FALSE /\ NoPing.to = {}
  BY DEF NoPing
<1>3. \A b, f : Asks(a, b, f) => pinging[a].to = {b}
  BY DEF Asks
<1> QED BY <1>1, <1>2, <1>3 DEF Fits

\* A step of the conversation of a: the messages new take the place of old,
Moves(a, old, new) ==
  /\ wire' = (wire \ old) \cup new
  /\ \A m \in old \cup new : m.asker = a
  /\ \A m \in new : PingFits(m)

\* and the other conversations stay as they are.
Alone(a) ==
  /\ \A x \in Addr \ {a} : pinging'[x] = pinging[x]
  /\ DOMAIN asked' = Addr
  /\ \A p \in Addr : \A x \in Addr \ {a} :
       x \in DOMAIN asked'[p] <=> x \in DOMAIN asked[p]

LEMMA Onwards ==
  ASSUME NEW a \in Addr, NEW old, NEW new, Moves(a, old, new)
  PROVE  /\ \A x \in Addr \ {a} : Pending(x)' = Pending(x)
         /\ Pending(a)' = (Pending(a) \ old) \cup {m \in new : ~IsLatePing(m)}
<1>1. ASSUME NEW x \in Addr \ {a} PROVE Pending(x)' = Pending(x)
  BY <1>1 DEF Pending, Moves
<1>2. Pending(a)' = (Pending(a) \ old) \cup {m \in new : ~IsLatePing(m)}
  BY DEF Pending, IsLatePing, Moves
<1> QED BY <1>1, <1>2

\* The conversation of x does not depend on anything else.
LEMMA ExchangeKept ==
  ASSUME NEW x \in Addr, Exchange(x), Pending(x)' = Pending(x), pinging'[x] = pinging[x],
         \A p \in Addr : x \in DOMAIN asked'[p] <=> x \in DOMAIN asked[p]
  PROVE  Exchange(x)'
BY DEF Exchange, Fits, Asks, IsRelayedBy

LEMMA OneExchange ==
  ASSUME Conversations, NEW a \in Addr, NEW old, NEW new, Moves(a, old, new),
         Alone(a), Exchange(a)'
  PROVE  Conversations'
<1>1. ASSUME NEW x \in Addr \ {a} PROVE Exchange(x)'
  <2>1. Exchange(x) /\ Pending(x)' = Pending(x)
    BY Onwards DEF Conversations
  <2> QED BY <2>1, ExchangeKept DEF Alone
<1>2. \A m \in wire' : PingFits(m)
  BY DEF Conversations, Moves
<1>3. \A x \in Addr : Exchange(x)'
  BY <1>1
<1> QED BY <1>2, <1>3 DEF Conversations, PingFits, Alone

\* The conversation is over, or one message is in flight.
LEMMA Silence ==
  ASSUME NEW a \in Addr, Pending(a)' = {}, \A p \in Addr : a \notin DOMAIN asked'[p]
  PROVE  Exchange(a)'
BY DEF Exchange

LEMMA OneMessage ==
  ASSUME NEW a \in Addr, NEW m, Pending(a)' = {m}, Fits(a, m)',
         \A p \in Addr : a \in DOMAIN asked'[p] <=> IsRelayedBy(a, m, p)
  PROVE  Exchange(a)'
BY DEF Exchange, IsRelayedBy

\* The message that is handled is the only one of its conversation.
LEMMA TheMessage ==
  ASSUME WInv, NEW m \in wire, ~IsLatePing(m)
  PROVE  /\ m.asker \in Addr /\ Pending(m.asker) = {m} /\ Fits(m.asker, m)
         /\ \A p \in Addr : m.asker \in DOMAIN asked[p] <=> IsRelayedBy(m.asker, m, p)
<1>1. m.asker \in Addr
  BY DEF WInv, CInv, WireOwned, IsMessage
<1>2. m \in Pending(m.asker)
  BY DEF Pending, IsLatePing
<1>3. Exchange(m.asker)
  BY <1>1 DEF WInv, Conversations
<1> QED BY <1>1, <1>2, <1>3 DEF Exchange

\* A step that neither sends nor hears anything.
LEMMA Quiet ==
  ASSUME Conversations, UNCHANGED <<wire, pinging, asked>>
  PROVE  Conversations'
BY DEF Conversations, Exchange, Pending, Fits, Asks, IsRelayedBy, PingFits

LEMMA SendPingSpeaks ==
  ASSUME WInv, NEW a \in Addr, NEW b \in Addr, SendPing(a, b)
  PROVE  Conversations'
<1>0. PICK m : m = Ping(a, node[a], b, a)
  OBVIOUS
<1> DEFINE new == IF b \in up THEN {m} ELSE {}
<1>1. /\ Conversations /\ pinging \in [Addr -> Pings] /\ pinging[a] = NoPing
      /\ pinging' = [pinging EXCEPT ![a] = [to |-> {b}, failed |-> FALSE]]
      /\ asked' = asked /\ DOMAIN asked = Addr /\ wire' = (wire \ {}) \cup new
  BY <1>0 DEF WInv, CInv, PingsKnown, SendPing, Conversations
<1>2. /\ m.kind = "ping" /\ m.asker = a /\ m.from = a /\ m.to = b /\ m.late = FALSE
      /\ PingFits(m) /\ ~IsLatePing(m)
  BY <1>0 DEF Ping, PingFits, IsLatePing
<1>3. Pending(a) = {} /\ \A p \in Addr : a \notin DOMAIN asked[p]
  BY <1>1, Idle DEF Conversations, Exchange
<1>4. Moves(a, {}, new)
  BY <1>1, <1>2 DEF Moves
<1>5. Pending(a)' = (Pending(a) \ {}) \cup {x \in new : ~IsLatePing(x)}
  BY <1>4, Onwards
<1>6. Asks(a, b, FALSE)' /\ Alone(a)
  BY <1>1 DEF Asks, Alone
<1>7. Exchange(a)'
  <2>1. CASE b \in up
    <3>1. Pending(a)' = {m}
      BY <1>2, <1>3, <1>5, <2>1
    <3>2. Fits(a, m)'
      BY <1>2, <1>6 DEF Fits, Asks
    <3>3. \A p \in Addr : a \in DOMAIN asked'[p] <=> IsRelayedBy(a, m, p)
      BY <1>1, <1>2, <1>3 DEF IsRelayedBy
    <3> QED BY <3>1, <3>2, <3>3, OneMessage
  <2>2. CASE b \notin up
    <3>1. Pending(a)' = {}
      BY <1>3, <1>5, <2>2
    <3> QED BY <1>1, <1>3, <3>1, Silence
  <2> QED BY <2>1, <2>2
<1> QED BY <1>1, <1>4, <1>6, <1>7, OneExchange

\* The answer takes the place of the ping.
LEMMA HandlePingSpeaks ==
  ASSUME WInv, NEW m \in wire, HandlePing(m)
  PROVE  Conversations'
<1> DEFINE a == m.asker
<1>1. /\ Conversations /\ a \in Addr /\ m.kind = "ping"
      /\ pinging' = pinging /\ asked' = asked /\ Alone(a)
  BY DEF WInv, CInv, WireOwned, IsMessage, HandlePing, Conversations, Alone
<1>2. CASE m.late
  <2>1. Moves(a, {m}, {}) /\ m \notin Pending(a)
    BY <1>1, <1>2 DEF HandlePing, Pending, Moves
  <2>2. Pending(a)' = (Pending(a) \ {m}) \cup {x \in {} : ~IsLatePing(x)}
    BY <1>1, <2>1, Onwards
  <2>3. Exchange(a)'
    BY <1>1, <2>1, <2>2, ExchangeKept DEF Conversations
  <2> QED BY <1>1, <2>1, <2>3, OneExchange
<1>3. CASE ~m.late
  <2>1. PICK ch : wire' = (wire \ {m}) \cup {Answer(m, ch)}
    BY <1>3 DEF HandlePing
  <2> DEFINE l == Answer(m, ch)
  <2>2. /\ l.kind = "answer" /\ l.asker = a /\ l.from = m.to /\ l.to = m.from
        /\ PingFits(l) /\ ~IsLatePing(l)
    BY DEF Answer, PingFits, IsLatePing
  <2>3. Moves(a, {m}, {l})
    BY <2>1, <2>2 DEF Moves
  <2> HIDE DEF l
  <2>4. /\ Pending(a) = {m} /\ Fits(a, m)
        /\ \A p \in Addr : a \in DOMAIN asked[p] <=> IsRelayedBy(a, m, p)
    BY <1>3, TheMessage DEF IsLatePing
  <2>5. Pending(a)' = {l}
    <3>1. Pending(a)' = (Pending(a) \ {m}) \cup {x \in {l} : ~IsLatePing(x)}
      BY <1>1, <2>3, Onwards
    <3> QED BY <2>2, <2>4, <3>1
  <2>6. Fits(a, l)'
    BY <1>1, <2>2, <2>4 DEF Fits, Asks
  <2>7. \A p \in Addr : IsRelayedBy(a, l, p) <=> IsRelayedBy(a, m, p)
    BY <1>1, <2>2 DEF IsRelayedBy
  <2>8. Exchange(a)'
    BY <1>1, <2>4, <2>5, <2>6, <2>7, OneMessage
  <2> QED BY <1>1, <2>2, <2>3, <2>8, OneExchange
<1> QED BY <1>2, <1>3

\* With its answer the ping is over.
LEMMA EndPingSpeaks ==
  ASSUME WInv, NEW a \in Addr, NEW old, wire' = wire \ old, asked' = asked,
         EndPing(a), \A m \in old : m.asker = a, Pending(a) \subseteq old,
         \A p \in Addr : a \notin DOMAIN asked[p]
  PROVE  Conversations'
<1>1. Conversations /\ Alone(a) /\ Moves(a, old, {})
  BY DEF WInv, CInv, PingsKnown, Conversations, EndPing, Alone, Moves
<1>2. Pending(a)' = (Pending(a) \ old) \cup {m \in {} : ~IsLatePing(m)}
  BY <1>1, Onwards
<1>3. Exchange(a)'
  BY <1>2, Silence
<1> QED BY <1>1, <1>3, OneExchange

LEMMA HandleAnswerSpeaks ==
  ASSUME WInv, NEW m \in wire, HandleAnswer(m)
  PROVE  Conversations'
<1> DEFINE a == m.asker
<1>1. /\ m.kind = "answer" /\ m.to = a /\ ~IsLatePing(m)
      /\ wire' = wire \ {m} /\ asked' = asked /\ EndPing(a)
  BY DEF HandleAnswer, IsLatePing
<1>2. /\ a \in Addr /\ Pending(a) = {m}
      /\ \A p \in Addr : a \in DOMAIN asked[p] <=> IsRelayedBy(a, m, p)
  BY <1>1, TheMessage
<1>3. \A p \in Addr : ~IsRelayedBy(a, m, p)
  BY <1>1 DEF IsRelayedBy
<1> QED BY <1>1, <1>2, <1>3, EndPingSpeaks

LEMMA HandleVerdictSpeaks ==
  ASSUME WInv, NEW m \in wire, HandleVerdict(m)
  PROVE  Conversations'
<1> DEFINE a == m.asker
<1>1. /\ m.kind = "verdict" /\ ~IsLatePing(m)
      /\ wire' = wire \ {m} /\ asked' = asked /\ EndPing(m.to)
  BY DEF HandleVerdict, IsLatePing
<1>2. /\ a \in Addr /\ Pending(a) = {m} /\ Fits(a, m)
      /\ \A p \in Addr : a \in DOMAIN asked[p] <=> IsRelayedBy(a, m, p)
  BY <1>1, TheMessage
<1>3. m.to = a /\ \A p \in Addr : ~IsRelayedBy(a, m, p)
  BY <1>1, <1>2 DEF IsRelayedBy, Fits
<1> QED BY <1>1, <1>2, <1>3, EndPingSpeaks

\* Before a ping-req is handled and when a relay has answered, nobody relays.
LEMMA PingReqUnansweredSpeaks ==
  ASSUME WInv, NEW a \in Addr, PingReqUnanswered(a)
  PROVE  Conversations'
<1>1. /\ wire' = wire \ Pending(a) /\ asked' = asked /\ EndPing(a)
      /\ \A m \in Pending(a) : m.kind \in {"ping-req", "verdict"}
  BY DEF PingReqUnanswered
<1>2. \A m \in Pending(a) : m.asker = a /\ \A p \in Addr : ~IsRelayedBy(a, m, p)
  BY <1>1 DEF Pending, IsRelayedBy
<1>3. \A p \in Addr : a \notin DOMAIN asked[p]
  BY <1>2 DEF WInv, Conversations, Exchange
<1> QED BY <1>1, <1>2, <1>3, EndPingSpeaks

\* A ping of another node's that fails, and the ping-req that follows.
LEMMA SendPingReqSpeaks ==
  ASSUME WInv, NEW a \in Addr, pinging[a] # NoPing, asked' = asked,
         \A p \in Addr : a \notin DOMAIN asked[p],
         NEW late, \A m \in late : m.asker = a /\ PingFits(m) /\ IsLatePing(m),
         SendPingReq(a, (wire \ Pending(a)) \cup late)
  PROVE  Conversations'
<1>1. /\ Conversations /\ pinging \in [Addr -> Pings] /\ DOMAIN asked = Addr
      /\ \A m \in Pending(a) : m.asker = a
  BY DEF WInv, CInv, PingsKnown, Conversations, Pending
<1>2. CASE wire' = (wire \ Pending(a)) \cup late /\ EndPing(a)
  <2>1. Moves(a, Pending(a), late) /\ Alone(a)
    BY <1>1, <1>2 DEF Moves, Alone, EndPing
  <2>2. Pending(a)' = (Pending(a) \ Pending(a)) \cup {m \in late : ~IsLatePing(m)}
    BY <2>1, Onwards
  <2>3. Exchange(a)'
    BY <2>2, Silence
  <2> QED BY <1>1, <2>1, <2>3, OneExchange
<1>3. ASSUME NEW p \in Peers(a),
             wire' = IF p \in up THEN ((wire \ Pending(a)) \cup late) \cup {PingReq(a, p)}
                     ELSE (wire \ Pending(a)) \cup late,
             pinging' = [pinging EXCEPT ![a].failed = TRUE]
      PROVE  Conversations'
  <2>1. PICK m : m = PingReq(a, p)
    OBVIOUS
  <2> DEFINE new == late \cup (IF p \in up THEN {m} ELSE {})
  <2>2. /\ m.kind = "ping-req" /\ m.asker = a /\ m.from = a /\ m.to = p /\ p # a
        /\ PingFits(m) /\ ~IsLatePing(m)
    BY <2>1 DEF PingReq, PingFits, IsLatePing, Peers, IsPingable
  <2>3. Moves(a, Pending(a), new)
    <3>1. wire' = (wire \ Pending(a)) \cup new
      BY <1>3, <2>1
    <3> QED BY <1>1, <2>2, <3>1 DEF Moves
  <2>4. pinging'[a].failed /\ Alone(a)
    <3>1. pinging[a] \in [to : {{x} : x \in Addr}, failed : BOOLEAN]
      BY <1>1 DEF Pings
    <3>2. /\ pinging'[a] = [pinging[a] EXCEPT !.failed = TRUE]
          /\ \A x \in Addr \ {a} : pinging'[x] = pinging[x]
      BY <1>1, <1>3
    <3> QED BY <1>1, <3>1, <3>2 DEF Alone
  <2>5. Pending(a)' = (Pending(a) \ Pending(a)) \cup {x \in new : ~IsLatePing(x)}
    BY <2>3, Onwards
  <2>6. Exchange(a)'
    <3>1. CASE p \in up
      <4>1. Pending(a)' = {m}
        BY <2>2, <2>5, <3>1
      <4>2. Fits(a, m)'
        BY <2>2, <2>4 DEF Fits
      <4>3. \A q \in Addr : a \in DOMAIN asked'[q] <=> IsRelayedBy(a, m, q)
        BY <2>2 DEF IsRelayedBy
      <4> QED BY <4>1, <4>2, <4>3, OneMessage
    <3>2. CASE p \notin up
      <4>1. Pending(a)' = {}
        BY <2>5, <3>2
      <4> QED BY <4>1, Silence
    <3> QED BY <3>1, <3>2
  <2> QED BY <1>1, <2>3, <2>4, <2>6, OneExchange
<1> QED BY <1>2, <1>3 DEF SendPingReq

\* A ping that becomes late.
LEMMA LateFits ==
  ASSUME NEW m, {"kind", "asker", "from", "late"} \subseteq DOMAIN m,
         m.kind = "ping", m.from = m.asker
  PROVE  LET l == [m EXCEPT !.late = TRUE]
         IN  l.asker = m.asker /\ PingFits(l) /\ IsLatePing(l)
<1> DEFINE l == [m EXCEPT !.late = TRUE]
<1>1. /\ DOMAIN l = DOMAIN m /\ l.kind = m.kind /\ l.asker = m.asker
      /\ l.from = m.from /\ l.late = TRUE
  OBVIOUS
<1> HIDE DEF l
<1>2. l.asker = m.asker /\ PingFits(l) /\ IsLatePing(l)
  BY <1>1 DEF PingFits, IsLatePing
<1> QED BY <1>2 DEF l

\* A ping that fails is the asker's own: nobody relays for it yet.
LEMMA PingFailsSpeaks ==
  ASSUME WInv, NEW a \in Addr, PingFails(a)
  PROVE  Conversations'
<1>1. pinging[a] # NoPing /\ ~pinging[a].failed /\ asked' = asked
  BY DEF PingFails
<1>2. \A m \in Pending(a) :
        /\ m \in wire /\ m.asker = a /\ Fits(a, m)
        /\ m.kind = "ping" => m.from = a /\ "late" \in DOMAIN m
        /\ {"kind", "asker", "from"} \subseteq DOMAIN m
        /\ \A p \in Addr : ~IsRelayedBy(a, m, p)
  <2> SUFFICES ASSUME NEW m \in Pending(a)
               PROVE  /\ m \in wire /\ m.asker = a /\ Fits(a, m)
                      /\ m.kind = "ping" => m.from = a /\ "late" \in DOMAIN m
                      /\ {"kind", "asker", "from"} \subseteq DOMAIN m
                      /\ \A p \in Addr : ~IsRelayedBy(a, m, p)
    OBVIOUS
  <2>1. m \in wire /\ m.asker = a /\ Fits(a, m) /\ PingFits(m)
    BY DEF WInv, Conversations, Exchange, Pending
  <2>2. \A b : ~Asks(a, b, TRUE)
    BY <1>1 DEF Asks
  <2>3. {"kind", "asker", "from"} \subseteq DOMAIN m
    BY <2>1 DEF WInv, CInv, WireOwned, IsMessage
  <2> QED BY <1>1, <2>1, <2>2, <2>3 DEF Fits, PingFits, IsRelayedBy
<1>3. \A p \in Addr : a \notin DOMAIN asked[p]
  BY <1>2 DEF WInv, Conversations, Exchange
<1>4. CASE Pending(a) = {} /\ SendPingReq(a, wire)
  <2>1. PICK none : none = {}
    OBVIOUS
  <2>2. (wire \ Pending(a)) \cup none = wire
    BY <1>4, <2>1
  <2>3. SendPingReq(a, (wire \ Pending(a)) \cup none)
    BY <1>4, <2>2
  <2>4. \A m \in none : m.asker = a /\ PingFits(m) /\ IsLatePing(m)
    BY <2>1
  <2> QED BY <1>1, <1>3, <2>3, <2>4, SendPingReqSpeaks
<1>5. ASSUME NEW lost \in BOOLEAN,
             SendPingReq(a, (wire \ Pending(a)) \cup
               {[m EXCEPT !.late = TRUE] :
                  m \in {x \in Pending(a) : x.kind = "ping" /\ ~lost}})
      PROVE  Conversations'
  <2> DEFINE late == {[m EXCEPT !.late = TRUE] :
                        m \in {x \in Pending(a) : x.kind = "ping" /\ ~lost}}
  <2>1. \A m \in late : m.asker = a /\ PingFits(m) /\ IsLatePing(m)
    BY <1>2, LateFits
  <2> HIDE DEF late
  <2> QED BY <1>1, <1>3, <1>5, <2>1, SendPingReqSpeaks DEF late
<1> QED BY <1>4, <1>5 DEF PingFails

\* The relayed ping takes the place of the ping-req, and the relay keeps what
\* it needs.
LEMMA HandlePingReqSpeaks ==
  ASSUME WInv, NEW m \in wire, HandlePingReq(m)
  PROVE  Conversations'
<1> DEFINE a == m.asker
           p == m.to
<1>1. m.kind = "ping-req" /\ ~IsLatePing(m) /\ pinging' = pinging /\ Conversations
  BY DEF HandlePingReq, IsLatePing, WInv
<1>2. /\ a \in Addr /\ p \in Addr /\ Pending(a) = {m} /\ Fits(a, m)
      /\ \A q \in Addr : a \in DOMAIN asked[q] <=> IsRelayedBy(a, m, q)
  BY <1>1, TheMessage DEF WInv, CInv, WireOwned, IsMessage
<1>3. p # a /\ pinging[a].failed
  BY <1>1, <1>2 DEF Fits
<1>4. PICK t, n, l :
        /\ t \in pinging[a].to
        /\ l = Ping(p, n, t, a)
        /\ wire' = (wire \ {m}) \cup {l}
        /\ asked' = [asked EXCEPT ![p] =
             Overlay(@, [x \in {a} |-> [inc |-> m.inc, sum |-> m.sum]])]
  BY DEF HandlePingReq
<1> HIDE DEF a, p
<1>5. /\ l.kind = "ping" /\ l.asker = a /\ l.from = p /\ l.to = t
      /\ PingFits(l) /\ ~IsLatePing(l)
  BY <1>4 DEF Ping, PingFits, IsLatePing
<1>6. Moves(a, {m}, {l})
  BY <1>4, <1>5 DEF Moves, a
<1>7. Pending(a)' = {l}
  <2>1. Pending(a)' = (Pending(a) \ {m}) \cup {x \in {l} : ~IsLatePing(x)}
    BY <1>2, <1>6, Onwards
  <2> QED BY <1>2, <1>5, <2>1
<1>8. /\ DOMAIN asked' = Addr /\ DOMAIN asked'[p] = DOMAIN asked[p] \cup {a}
      /\ \A q \in Addr \ {p} : asked'[q] = asked[q]
  <2>1. DOMAIN asked = Addr
    BY <1>1 DEF Conversations
  <2>2. /\ DOMAIN asked' = Addr /\ \A q \in Addr \ {p} : asked'[q] = asked[q]
        /\ asked'[p] = Overlay(asked[p], [x \in {a} |-> [inc |-> m.inc, sum |-> m.sum]])
    BY <1>2, <1>4, <2>1
  <2>3. DOMAIN [x \in {a} |-> [inc |-> m.inc, sum |-> m.sum]] = {a}
    OBVIOUS
  <2> QED BY <2>2, <2>3, OverlayDomain
<1>9. Alone(a)
  BY <1>1, <1>8 DEF Alone
<1>10. Fits(a, l)'
  <2>1. pinging[a] \in Pings /\ t \in pinging[a].to
    BY <1>2, <1>4 DEF WInv, CInv, PingsKnown
  <2>2. pinging[a] \in [to : {{x} : x \in Addr}, failed : BOOLEAN]
    BY <2>1 DEF Pings, NoPing
  <2>3. pinging[a] = [to |-> {t}, failed |-> TRUE]
    <3>1. pinging[a].to = {t} /\ pinging[a].failed = TRUE
      BY <1>3, <2>1, <2>2
    <3> QED BY <2>2, <3>1
  <2> QED BY <1>1, <1>3, <1>5, <2>3 DEF Fits, Asks
<1>11. \A q \in Addr : a \in DOMAIN asked'[q] <=> IsRelayedBy(a, l, q)
  <2>1. \A q \in Addr : a \notin DOMAIN asked[q]
    BY <1>1, <1>2 DEF IsRelayedBy
  <2> QED BY <1>3, <1>5, <1>8, <2>1 DEF IsRelayedBy
<1>12. Exchange(a)'
  BY <1>2, <1>7, <1>10, <1>11, OneMessage
<1> QED BY <1>1, <1>2, <1>6, <1>9, <1>12, OneExchange

\* The verdict takes the place of what was relayed, and the relay needs
\* nothing any more.
LEMMA AnswerPingReqSpeaks ==
  ASSUME WInv, NEW m \in wire, ~IsLatePing(m), NEW p \in Addr,
         IsRelayedBy(m.asker, m, p), NEW n, NEW ok, AnswerPingReq(p, n, m, ok)
  PROVE  Conversations'
<1> DEFINE a == m.asker
<1>1. /\ Conversations /\ a \in Addr /\ Pending(a) = {m} /\ Fits(a, m)
      /\ \A q \in Addr : a \in DOMAIN asked[q] <=> IsRelayedBy(a, m, q)
  BY TheMessage DEF WInv
<1>2. PICK ch, v :
        /\ v = Verdict(p, a, ok, ch)
        /\ wire' = (wire \ {m}) \cup {v}
        /\ asked' = [asked EXCEPT ![p] = [x \in DOMAIN @ \ {a} |-> @[x]]]
        /\ pinging' = pinging
  BY DEF AnswerPingReq
<1> HIDE DEF a
<1>3. /\ v.kind = "verdict" /\ v.asker = a /\ v.from = p /\ v.to = a
      /\ PingFits(v) /\ ~IsLatePing(v)
  BY <1>2 DEF Verdict, PingFits, IsLatePing
<1>4. Moves(a, {m}, {v})
  BY <1>2, <1>3 DEF Moves, a
<1>5. Pending(a)' = {v}
  <2>1. Pending(a)' = (Pending(a) \ {m}) \cup {x \in {v} : ~IsLatePing(x)}
    BY <1>1, <1>4, Onwards
  <2> QED BY <1>1, <1>3, <2>1
<1>6. /\ DOMAIN asked' = Addr /\ DOMAIN asked'[p] = DOMAIN asked[p] \ {a}
      /\ \A q \in Addr \ {p} : asked'[q] = asked[q]
  BY <1>1, <1>2 DEF Conversations
<1>7. Alone(a)
  BY <1>2, <1>6 DEF Alone
<1>8. p # a /\ pinging[a].failed
  BY <1>1 DEF IsRelayedBy, Fits, Asks, a
<1>9. Fits(a, v)'
  BY <1>2, <1>3, <1>8 DEF Fits
<1>10. \A q \in Addr : a \in DOMAIN asked'[q] <=> IsRelayedBy(a, v, q)
  <2>1. \A q \in Addr : IsRelayedBy(a, m, q) => q = p
    BY DEF IsRelayedBy, a
  <2> QED BY <1>1, <1>3, <1>6, <2>1 DEF IsRelayedBy
<1>11. Exchange(a)'
  BY <1>1, <1>5, <1>9, <1>10, OneMessage
<1> QED BY <1>1, <1>4, <1>7, <1>11, OneExchange

LEMMA RelayAnsweredSpeaks ==
  ASSUME WInv, NEW m \in wire, RelayAnswered(m)
  PROVE  Conversations'
<1>1. m.kind = "answer" /\ m.to # m.asker /\ m.to \in Addr
  BY DEF RelayAnswered, WInv, CInv, WireOwned, IsMessage
<1>2. ~IsLatePing(m) /\ IsRelayedBy(m.asker, m, m.to)
  BY <1>1 DEF IsLatePing, IsRelayedBy
<1>3. PICK n : AnswerPingReq(m.to, n, m, TRUE)
  BY DEF RelayAnswered
<1> QED BY <1>1, <1>2, <1>3, AnswerPingReqSpeaks

LEMMA RelayFailsSpeaks ==
  ASSUME WInv, NEW m \in wire, RelayFails(m)
  PROVE  Conversations'
<1>1. m.kind = "ping" /\ m.from # m.asker /\ m.from \in Addr /\ PingFits(m)
  BY DEF RelayFails, WInv, CInv, WireOwned, IsMessage, Conversations
<1>2. ~IsLatePing(m) /\ IsRelayedBy(m.asker, m, m.from)
  BY <1>1 DEF IsLatePing, IsRelayedBy, PingFits
<1>3. PICK n : AnswerPingReq(m.from, n, m, FALSE)
  BY DEF RelayFails
<1> QED BY <1>1, <1>2, <1>3, AnswerPingReqSpeaks

\* What is in flight of another node's conversation, once a has crashed, is
\* what was in flight and was not a's to handle or to relay.
SurvivesCrash(a, m) ==
  /\ m.to = a => m.kind = "ping" /\ m.from # m.asker
  /\ m.from = a => m.kind \in {"answer", "verdict"}

LEMMA CrashLeaves ==
  ASSUME WInv, NEW a \in Addr, wire' = WireAfterCrash(a)
  PROVE  /\ Pending(a)' = {}
         /\ \A x \in Addr \ {a} :
              Pending(x)' = {m \in Pending(x) : SurvivesCrash(a, m)}
         /\ \A m \in wire' : PingFits(m)
<1> DEFINE kept == {m \in wire : SurvivesCrash(a, m) /\ m.asker # a}
           late == {[m EXCEPT !.late = TRUE] :
                      m \in {x \in wire : x.kind = "ping" /\ x.asker = a /\ x.from = a}}
<1>1. wire' = kept \cup late
  BY DEF WireAfterCrash, SurvivesCrash
<1>2. \A m \in late : m.asker = a /\ PingFits(m) /\ IsLatePing(m)
  <2> SUFFICES ASSUME NEW m \in wire, m.kind = "ping", m.asker = a, m.from = a
               PROVE  LET l == [m EXCEPT !.late = TRUE]
                      IN  l.asker = a /\ PingFits(l) /\ IsLatePing(l)
    OBVIOUS
  <2>1. {"kind", "asker", "from", "late"} \subseteq DOMAIN m
    BY DEF WInv, CInv, WireOwned, IsMessage, Conversations, PingFits
  <2> QED BY <2>1, LateFits
<1> HIDE DEF late
<1>3. Pending(a)' = {}
  BY <1>1, <1>2 DEF Pending, IsLatePing
<1>4. ASSUME NEW x \in Addr \ {a}
      PROVE  Pending(x)' = {m \in Pending(x) : SurvivesCrash(a, m)}
  BY <1>1, <1>2 DEF Pending
<1>5. \A m \in wire' : PingFits(m)
  BY <1>1, <1>2 DEF WInv, Conversations
<1> QED BY <1>3, <1>4, <1>5

LEMMA CrashSpeaks ==
  ASSUME WInv, NEW a \in Addr, Crash(a)
  PROVE  Conversations'
<1>1. /\ Conversations /\ DOMAIN asked = Addr /\ pinging \in [Addr -> Pings]
      /\ wire' = WireAfterCrash(a) /\ pinging' = [pinging EXCEPT ![a] = NoPing]
      /\ asked' = [p \in Addr |-> IF p = a THEN NoMap
                                  ELSE [x \in DOMAIN asked[p] \ {a} |-> asked[p][x]]]
  BY DEF WInv, CInv, PingsKnown, Conversations, Crash
<1>2. /\ Pending(a)' = {}
      /\ \A x \in Addr \ {a} : Pending(x)' = {m \in Pending(x) : SurvivesCrash(a, m)}
      /\ \A m \in wire' : PingFits(m)
  BY <1>1, CrashLeaves
<1>3. /\ DOMAIN asked' = Addr /\ DOMAIN asked'[a] = {}
      /\ \A p \in Addr \ {a} : DOMAIN asked'[p] = DOMAIN asked[p] \ {a}
  BY <1>1 DEF NoMap
<1>4. Exchange(a)'
  BY <1>2, <1>3, Silence
<1>5. ASSUME NEW x \in Addr \ {a} PROVE Exchange(x)'
  <2>1. /\ Exchange(x) /\ pinging'[x] = pinging[x]
        /\ Pending(x)' = {m \in Pending(x) : SurvivesCrash(a, m)}
    BY <1>1, <1>2 DEF Conversations
  <2>2. \A m \in Pending(x) : m.asker = x
    BY DEF Pending
  <2>3. \A m, l \in Pending(x)' : m = l
    BY <2>1 DEF Exchange
  <2>4. \A m \in Pending(x)' : Fits(x, m)'
    BY <2>1 DEF Exchange, Fits, Asks
  <2>5. ASSUME NEW p \in Addr
        PROVE  x \in DOMAIN asked'[p] <=> \E m \in Pending(x)' : IsRelayedBy(x, m, p)
    <3>1. x \in DOMAIN asked[p] <=> \E m \in Pending(x) : IsRelayedBy(x, m, p)
      BY <2>1 DEF Exchange
    <3>2. ASSUME NEW m \in Pending(x), IsRelayedBy(x, m, p)
          PROVE  SurvivesCrash(a, m) <=> p # a
      BY <2>2, <3>2 DEF SurvivesCrash, IsRelayedBy
    <3>3. CASE p = a
      BY <1>3, <2>1, <3>2, <3>3
    <3>4. CASE p # a
      BY <1>3, <2>1, <3>1, <3>2, <3>4
    <3> QED BY <3>3, <3>4
  <2> QED BY <2>3, <2>4, <2>5 DEF Exchange, IsRelayedBy
<1> QED BY <1>2, <1>3, <1>4, <1>5 DEF Conversations, PingFits

LEMMA InitWInv ==
  ASSUME Init
  PROVE  WInv
<1>1. wire = {} /\ asked = [a \in Addr |-> NoMap]
  BY DEF Init
<1>2. Conversations
  BY <1>1 DEF Conversations, Exchange, Pending, NoMap
<1> QED BY <1>2, InitCInv DEF WInv

LEMMA NextWInv ==
  ASSUME WInv, [Next]_vars
  PROVE  WInv'
<1>1. CInv'
  BY NextCInv DEF WInv
<1>2. ASSUME NEW a \in Addr, NEW b \in Addr, SendPing(a, b) PROVE Conversations'
  BY <1>2, SendPingSpeaks
<1>3. ASSUME NEW m \in wire, \/ HandlePing(m) \/ HandleAnswer(m) \/ HandlePingReq(m)
                            \/ RelayAnswered(m) \/ RelayFails(m) \/ HandleVerdict(m)
      PROVE  Conversations'
  BY <1>3, HandlePingSpeaks, HandleAnswerSpeaks, HandlePingReqSpeaks,
     RelayAnsweredSpeaks, RelayFailsSpeaks, HandleVerdictSpeaks
<1>4. ASSUME NEW a \in Addr, PingFails(a) \/ PingReqUnanswered(a) PROVE Conversations'
  BY <1>4, PingFailsSpeaks, PingReqUnansweredSpeaks
<1>5. ASSUME NEW a \in Addr, Crash(a) PROVE Conversations'
  BY <1>5, CrashSpeaks
<1>6. ASSUME NEW a \in Addr, NEW b \in Addr,
             \/ SuspicionTimeout(a, b) \/ JoinAnswered(a, b) \/ JoinLost(a, b)
             \/ Restart(a) \/ AdminLeave(a) \/ AdminJoin(a)
      PROVE  Conversations'
  <2>1. UNCHANGED <<wire, pinging, asked>>
    BY <1>6 DEF SuspicionTimeout, JoinAnswered, JoinLost, Restart, AdminLeave, AdminJoin
  <2> QED BY <2>1, Quiet DEF WInv
<1>7. ASSUME UNCHANGED vars PROVE Conversations'
  BY <1>7, Quiet DEF WInv, vars
<1>8. Conversations'
  BY <1>2, <1>3, <1>4, <1>5, <1>6, <1>7 DEF Next, Talk, Handle, Timeout, Join
<1> QED BY <1>1, <1>8 DEF WInv

\* A node has one conversation at most, and one message of it in flight, which is
\* where the node waits for it; and a relay keeps what it needs for its answer
\* exactly as long as it relays.  So no verdict is taken for one of another round.
THEOREM ConversationsHold == Spec => []Conversations
<1>1. WInv => Conversations
  BY DEF WInv
<1>2. Init => WInv
  BY InitWInv
<1>3. WInv /\ [Next]_vars => WInv'
  BY NextWInv
<1> QED BY <1>1, <1>2, <1>3, PTL DEF Spec

\* Each node keeps its type, and a ping that is over leaves no trace: nothing
\* in flight that somebody waits for, no relay that still keeps what it needed
\* for its answer, whatever was lost or late and whoever crashed.
THEOREM TypeCorrect == Spec => []TypeOK
<1>1. WInv => TypeOK
  <2> SUFFICES ASSUME WInv PROVE TypeOK
    OBVIOUS
  <2>1. (\A a \in Addr : IsNode(node[a])) /\ clock \in [Addr -> Nat]
    BY DEF WInv, CInv, NodesOwned, NodeOwned, NodeInv
  <2>2. pinging \in [Addr -> Pings]
    BY DEF WInv, CInv, PingsKnown
  <2>3. ASSUME NEW m \in wire, m \in Pending(m.asker) PROVE pinging[m.asker] # NoPing
    <3>1. m.asker \in Addr
      BY DEF WInv, CInv, WireOwned, IsMessage
    <3> QED BY <2>3, <3>1, Idle DEF WInv
  <2>4. ASSUME NEW a \in Addr, NEW b \in Addr, b \in DOMAIN asked[a]
        PROVE  \E m \in wire : m.asker = b /\ a \in {m.from, m.to}
    <3>1. PICK m \in Pending(b) : IsRelayedBy(b, m, a)
      BY <2>4 DEF WInv, Conversations, Exchange
    <3> QED BY <3>1 DEF Pending, IsRelayedBy
  <2> QED BY <2>1, <2>2, <2>3, <2>4 DEF TypeOK
<1>2. Init => WInv
  BY InitWInv
<1>3. WInv /\ [Next]_vars => WInv'
  BY NextWInv
<1> QED BY <1>1, <1>2, <1>3, PTL DEF Spec

----------------------------------------------------------------------------
(* What the member lists promise: Cluster implements MemberViews. *)

\* The first incarnation of each node that nobody may say has left.
NotLeft ==
  [b \in Addr |-> IF b \in up /\ node[b].members[b].status # "leave"
                    THEN clock[b] ELSE clock[b] + 1]

\* f says of nobody that it left when it did not.
Tells(f, F) == \A x \in DOMAIN f : f[x].status = "leave" => f[x].inc < F[x]

NodeTells(n, F) == Tells(n.members, F) /\ Tells(n.stash, F)

\* A node that runs holds itself at its last incarnation.
OwnClocks == \A a \in up : node[a].members[a].inc = clock[a]

\* A process that has ended relays nothing.
RelaysRun == \A p \in Addr \ up : DOMAIN asked[p] = {}

NothingUntold ==
  /\ \A a \in Addr : NodeTells(node[a], NotLeft)
  /\ \A a \in Addr : Tells(answers[a], NotLeft)
  /\ \A m \in wire : Tells(m.changes, NotLeft)

VInv == WInv /\ OwnClocks /\ RelaysRun /\ NothingUntold

\* Maps tell what they are made of.
LEMMA OverlayTells ==
  ASSUME NEW f, NEW g, NEW F, Tells(f, F), Tells(g, F)
  PROVE  Tells(Overlay(f, g), F)
BY DEF Tells, Overlay

LEMMA MergeTells ==
  ASSUME NEW self, NEW F, NEW index, NEW b, Tells(index, F), Tells(b, F)
  PROVE  Tells(MergeChangeset(self, index, b), F)
<1> DEFINE g == [a \in {x \in DOMAIN b \ {self} :
                          x \notin DOMAIN index \/ index[x].inc < b[x].inc} |-> b[a]]
<1>1. Tells(g, F)
  BY DEF Tells
<1>2. MergeChangeset(self, index, b) = Overlay(index, g)
  BY DEF MergeChangeset
<1> HIDE DEF g
<1> QED BY <1>1, <1>2, OverlayTells

LEMMA RecordsTell ==
  ASSUME NEW u, NEW F, Tells(u, F)
  PROVE  Tells(Records(u), F)
BY DEF Tells, Records, RecordOf

LEMMA UpdatesTell ==
  ASSUME NEW self, NEW members, NEW b, NEW t, NEW F, Tells(b, F)
  PROVE  Tells(Updates(self, members, b, t), F)
<1> DEFINE u == Updates(self, members, b, t)
<1> SUFFICES ASSUME NEW x \in DOMAIN u, u[x].status = "leave" PROVE u[x].inc < F[x]
  BY DEF Tells
<1>1. x \in DOMAIN b /\ u[x] = b[x]
  BY DEF Updates, Accepted, Reassert
<1> QED BY <1>1 DEF Tells

LEMMA TellsRaised ==
  ASSUME NEW T, NEW f, IsMap(f, T), \A x \in DOMAIN f : f[x].inc \in Nat,
         NEW F \in [Addr -> Nat], NEW G \in [Addr -> Nat],
         \A x \in Addr : F[x] <= G[x], Tells(f, F)
  PROVE  Tells(f, G)
<1> SUFFICES ASSUME NEW x \in DOMAIN f, f[x].status = "leave" PROVE f[x].inc < G[x]
  BY DEF Tells
<1>1. x \in Addr /\ f[x].inc \in Nat /\ f[x].inc < F[x]
  BY DEF IsMap, Tells
<1>2. F[x] \in Nat /\ G[x] \in Nat /\ F[x] <= G[x]
  BY <1>1
<1> QED BY <1>1, <1>2

----------------------------------------------------------------------------
(* What one running node becomes in its step *)

Alive(inc) == [status |-> "alive", inc |-> inc]

\* The local member is as it was, or alive at the clock's next reading.
KeepsWord(a, n) ==
  HasMember(n, a) /\ n.members[a] \in {node[a].members[a], Alive(Now(a))}

\* n is the node at a after some calls of its step.
Reached(a, n) ==
  /\ Follows(a, node[a], n, Later(a))
  /\ OnlyForward(a, node[a], n)
  /\ KeepsWord(a, n)
  /\ NodeTells(n, NotLeft)

LEMMA NotLeftType ==
  ASSUME CInv
  PROVE  /\ NotLeft \in [Addr -> Nat]
         /\ \A a \in Addr : clock[a] <= NotLeft[a] /\ NotLeft[a] <= clock[a] + 1
         /\ \A a \in up : node[a].members[a].status # "leave" => NotLeft[a] = clock[a]
<1>1. clock \in [Addr -> Nat] /\ up \subseteq Addr
  BY DEF CInv, NodesOwned, UpKnown
<1>2. \A a \in Addr : clock[a] \in Nat /\ clock[a] <= clock[a] /\ clock[a] <= clock[a] + 1
  BY <1>1
<1> QED BY <1>1, <1>2 DEF NotLeft

LEMMA ForwardSelf ==
  ASSUME NEW self, NEW n, NEW m, IsMap(n.members, Record), m.members = n.members
  PROVE  OnlyForward(self, n, m)
<1>1. \A x \in DOMAIN n.members :
        n.members[x].status \in Status /\ n.members[x].inc \in Nat
  BY DEF IsMap, Record
<1> QED BY <1>1 DEF OnlyForward, HasMember, Rank, Status

LEMMA ForwardThen ==
  ASSUME NEW self, NEW n, NEW m, NEW k,
         IsMap(n.members, Record), IsMap(m.members, Record), IsMap(k.members, Record),
         OnlyForward(self, n, m), OnlyForward(self, m, k)
  PROVE  OnlyForward(self, n, k)
<1> SUFFICES ASSUME NEW a \in DOMAIN n.members
             PROVE  /\ a \in DOMAIN k.members
                    /\ k.members[a].inc >= n.members[a].inc
                    /\ a # self /\ k.members[a].inc = n.members[a].inc =>
                         Rank[k.members[a].status] >= Rank[n.members[a].status]
  BY DEF OnlyForward, HasMember
<1>1. /\ a \in DOMAIN m.members /\ m.members[a].inc >= n.members[a].inc
      /\ a # self /\ m.members[a].inc = n.members[a].inc =>
           Rank[m.members[a].status] >= Rank[n.members[a].status]
  BY DEF OnlyForward, HasMember
<1>2. /\ a \in DOMAIN k.members /\ k.members[a].inc >= m.members[a].inc
      /\ a # self /\ k.members[a].inc = m.members[a].inc =>
           Rank[k.members[a].status] >= Rank[m.members[a].status]
  BY <1>1 DEF OnlyForward, HasMember
<1>3. n.members[a] \in Record /\ m.members[a] \in Record /\ k.members[a] \in Record
  BY <1>1, <1>2 DEF IsMap
<1>4. \A s \in Status : Rank[s] \in Nat
  BY DEF Rank, Status
<1> QED BY <1>1, <1>2, <1>3, <1>4 DEF Record

LEMMA ReachedTypes ==
  ASSUME CInv, NEW a \in Addr, NEW n, NodeOwned(a, n, Later(a))
  PROVE  /\ NodeInv(a, n, Now(a)) /\ Now(a) \in Nat
         /\ IsMap(n.members, Record) /\ IsMap(n.stash, Change)
         /\ n \in NodeShape(n)
<1>1. Later(a) \in [Addr -> Nat] /\ Later(a)[a] = Now(a)
  BY LaterClock
<1>2. NodeInv(a, n, Now(a)) /\ Now(a) \in Nat
  BY <1>1 DEF NodeOwned
<1> QED BY <1>2 DEF NodeInv, IsNode

\* Before any call.
LEMMA ReachedFirst ==
  ASSUME VInv, NEW a \in up
  PROVE  Reached(a, node[a])
<1>1. CInv /\ a \in Addr /\ HasMember(node[a], a) /\ NodeTells(node[a], NotLeft)
  BY DEF VInv, WInv, CInv, UpKnown, NothingUntold
<1>2. NodeOwned(a, node[a], Later(a))
  BY <1>1, LaterClock
<1>3. OnlyForward(a, node[a], node[a])
  BY <1>1, <1>2, ReachedTypes, ForwardSelf
<1> QED BY <1>1, <1>2, <1>3 DEF Reached, KeepsWord, Follows

\* A call that leaves the lists as they are.
LEMMA ReachedSame ==
  ASSUME VInv, NEW a \in up, NEW n, NEW m, Reached(a, n),
         Follows(a, n, m, Later(a)), m.members = n.members, m.stash = n.stash
  PROVE  Reached(a, m)
<1>1. CInv /\ a \in Addr
  BY DEF VInv, WInv, CInv, UpKnown
<1>2. Follows(a, node[a], m, Later(a))
  BY FollowsThen DEF Reached
<1> QED BY <1>2 DEF Reached, OnlyForward, KeepsWord, HasMember, NodeTells

----------------------------------------------------------------------------
(* An update of the local member *)

\* What the batch says of the local member is old, or false, or its own word.
OwnBatch(a, b) ==
  a \in DOMAIN b =>
    \/ b[a].status \in {"suspect", "faulty"}
    \/ b[a].inc <= clock[a]
    \/ b[a].status = "alive" /\ b[a].inc = Now(a)

\* Nobody else makes a node leave, or tells it its incarnation.
LEMMA OwnUpdate ==
  ASSUME VInv, NEW a \in up, NEW n, Reached(a, n), NEW b,
         IsBatch(b, Later(a)), Tells(b, NotLeft), OwnBatch(a, b),
         a \in DOMAIN Updates(a, n.members, b, Now(a))
  PROVE  RecordOf(Updates(a, n.members, b, Now(a))[a]) = Alive(Now(a))
<1> DEFINE u == Updates(a, n.members, b, Now(a))
           r == n.members[a]
<1>1. /\ CInv /\ a \in Addr /\ node[a].members[a].inc = clock[a] /\ clock[a] \in Nat
      /\ Now(a) = clock[a] + 1
  BY DEF VInv, WInv, CInv, UpKnown, NodesOwned, OwnClocks, Now
<1>2. a \in DOMAIN n.members /\ r \in {node[a].members[a], Alive(Now(a))}
  BY DEF Reached, KeepsWord, HasMember
<1>3. /\ NotLeft[a] \in Nat /\ NotLeft[a] <= clock[a] + 1
      /\ node[a].members[a].status # "leave" => NotLeft[a] = clock[a]
  BY <1>1, NotLeftType
<1>4. a \in DOMAIN b /\ b[a].inc \in Nat
  BY DEF Updates, Accepted, IsBatch, IsMap, Change
<1>5. r.inc = clock[a] \/ (r.inc = clock[a] + 1 /\ r.status = "alive")
  BY <1>1, <1>2 DEF Alive
<1>6. CASE IsLocalOverride(a, a, b[a])
  <2>1. u[a] = Reassert(b[a], Now(a))
    BY <1>2, <1>6 DEF Updates
  <2> QED BY <2>1 DEF Reassert, RecordOf, Alive
<1>7. CASE ~IsLocalOverride(a, a, b[a])
  <2>1. u[a] = b[a] /\ Overrides(r, b[a])
    BY <1>2, <1>7 DEF Updates, Accepted
  <2>2. b[a].status \notin {"suspect", "faulty"}
    BY <1>7 DEF IsLocalOverride
  <2>3. \/ b[a].status = "alive" /\ b[a].inc > r.inc
        \/ b[a].status = "leave" /\ r.status # "leave" /\ b[a].inc >= r.inc
    BY <2>1, <2>2 DEF Overrides, IsAliveOverride, IsSuspectOverride, IsFaultyOverride,
                      IsLeaveOverride
  <2>4. b[a].status = "leave" => b[a].inc < NotLeft[a]
    BY <1>4 DEF Tells
  <2>5. ~(b[a].status = "leave" /\ r.status # "leave" /\ b[a].inc >= r.inc)
    <3> SUFFICES ASSUME b[a].status = "leave", r.status # "leave", b[a].inc >= r.inc
                 PROVE  FALSE
      OBVIOUS
    <3>1. CASE r = node[a].members[a]
      BY <1>1, <1>3, <1>4, <2>4, <3>1
    <3>2. CASE r = Alive(Now(a))
      BY <1>1, <1>3, <1>4, <2>4, <3>2 DEF Alive
    <3> QED BY <1>2, <3>1, <3>2
  <2>6. b[a].status = "alive" /\ b[a].inc > r.inc
    BY <2>3, <2>5
  <2>7. b[a].inc = Now(a)
    BY <1>1, <1>4, <1>5, <2>6 DEF OwnBatch
  <2> QED BY <2>1, <2>6, <2>7 DEF RecordOf, Alive
<1> QED BY <1>6, <1>7

LEMMA ApplyTells ==
  ASSUME VInv, NEW a \in up, NEW n, Reached(a, n), NEW b,
         IsBatch(b, Later(a)), Tells(b, NotLeft), OwnBatch(a, b)
  PROVE  /\ KeepsWord(a, Apply(a, n, b, Now(a)))
         /\ NodeTells(Apply(a, n, b, Now(a)), NotLeft)
<1> DEFINE m == Apply(a, n, b, Now(a))
           u == Updates(a, n.members, b, Now(a))
<1>1. n \in NodeShape(n) /\ a \in DOMAIN n.members
  BY DEF Reached, Follows, NodeOwned, NodeInv, IsNode, KeepsWord, HasMember
<1>2. m.members = Overlay(n.members, Records(u)) /\ m.stash = n.stash
  <2> HIDE DEF u
  <2> QED BY <1>1 DEF NodeShape, Apply, u
<1>3. Tells(u, NotLeft)
  BY UpdatesTell
<1>4. a \in DOMAIN u => RecordOf(u[a]) = Alive(Now(a))
  BY OwnUpdate
<1> HIDE DEF m, u
<1>5. NodeTells(m, NotLeft)
  BY <1>2, <1>3, RecordsTell, OverlayTells DEF Reached, NodeTells
<1>6. a \in DOMAIN m.members /\ m.members[a] \in {n.members[a], Alive(Now(a))}
  BY <1>1, <1>2, <1>4 DEF Overlay, Records
<1>7. KeepsWord(a, m)
  BY <1>6 DEF Reached, KeepsWord, HasMember
<1> QED BY <1>5, <1>7 DEF m

\* A call that updates the lists is the next call of the step.
LEMMA ReachedNext ==
  ASSUME VInv, NEW a \in up, NEW n, NEW m, Reached(a, n),
         Follows(a, n, m, Later(a)), OnlyForward(a, n, m),
         KeepsWord(a, m), NodeTells(m, NotLeft)
  PROVE  Reached(a, m)
<1>1. CInv /\ a \in Addr
  BY DEF VInv, WInv, CInv, UpKnown
<1>2. Follows(a, node[a], m, Later(a))
  BY FollowsThen DEF Reached
<1>3. /\ IsMap(node[a].members, Record) /\ IsMap(n.members, Record)
      /\ IsMap(m.members, Record)
  <2>1. NodeOwned(a, node[a], Later(a))
    BY <1>1, LaterClock
  <2> QED BY <1>1, <2>1, ReachedTypes DEF Reached, Follows
<1>4. OnlyForward(a, node[a], m)
  BY <1>3, ForwardThen DEF Reached
<1> QED BY <1>2, <1>4 DEF Reached

\* update()
LEMMA UpdateReached ==
  ASSUME VInv, NEW a \in up, NEW n, Reached(a, n), NEW b,
         IsBatch(b, Later(a)), Tells(b, NotLeft), OwnBatch(a, b)
  PROVE  Reached(a, Update(a, n, b, Now(a)))
<1> DEFINE m == Update(a, n, b, Now(a))
<1>1. /\ CInv /\ a \in Addr /\ NodeOwned(a, n, Later(a))
      /\ Later(a) \in [Addr -> Nat] /\ Later(a)[a] = Now(a)
  BY LaterClock DEF VInv, WInv, CInv, UpKnown, Reached, Follows
<1>2. Follows(a, n, m, Later(a))
  <2>1. Follows(a, n, Update(a, n, b, Later(a)[a]), Later(a))
    BY <1>1, UpdateOwned
  <2> QED BY <1>1, <2>1
<1>3. OnlyForward(a, n, m)
  <2>1. NodeInv(a, n, Now(a)) /\ Now(a) \in Nat /\ IsMap(b, Change)
    BY <1>1, ReachedTypes DEF IsBatch
  <2>2. a \in DOMAIN b => b[a].inc <= Now(a)
    BY <1>1 DEF IsBatch, IsBounded
  <2> QED BY <2>1, <2>2, UpdateKeeps DEF Keeps
<1>4. KeepsWord(a, m) /\ NodeTells(m, NotLeft)
  <2>1. CASE n.ready
    BY <2>1, ApplyTells DEF Update
  <2>2. CASE ~n.ready
    <3> DEFINE k == [n EXCEPT !.stash = MergeChangeset(a, @, b)]
    <3>1. n \in NodeShape(n)
      BY <1>1, ReachedTypes
    <3>2. k.members = n.members /\ k.stash = MergeChangeset(a, n.stash, b)
      BY <3>1 DEF NodeShape
    <3>3. m = k
      BY <2>2 DEF Update
    <3> HIDE DEF k, m
    <3> QED BY <3>2, <3>3, MergeTells DEF Reached, KeepsWord, HasMember, NodeTells
  <2> QED BY <2>1, <2>2
<1> HIDE DEF m
<1>5. Reached(a, m)
  BY <1>2, <1>3, <1>4, ReachedNext
<1> QED BY <1>5 DEF m

\* What arrives from others.
LEMMA ReceiveReached ==
  ASSUME VInv, NEW a \in up, NEW n, Reached(a, n), NEW b,
         IsBatch(b, clock), Tells(b, NotLeft)
  PROVE  Reached(a, Receive(a, n, b))
<1>1. /\ CInv /\ a \in Addr /\ Later(a) \in [Addr -> Nat] /\ clock \in [Addr -> Nat]
      /\ \A x \in Addr : clock[x] <= Later(a)[x]
  BY LaterClock DEF VInv, WInv, CInv, UpKnown, NodesOwned
<1>2. IsBatch(b, Later(a))
  BY <1>1, BatchRaised
<1>3. OwnBatch(a, b)
  BY DEF OwnBatch, IsBatch, IsBounded
<1> QED BY <1>2, <1>3, UpdateReached DEF Receive

\* makeAlive, makeSuspect and makeFaulty.
LEMMA MakeReached ==
  ASSUME VInv, NEW a \in up, NEW n, Reached(a, n), NEW x \in Addr,
         NEW status \in Status \ {"leave"}, NEW inc \in Nat, inc <= Later(a)[x],
         x = a => status # "alive" \/ inc = Now(a)
  PROVE  Reached(a, MakeUpdate(a, n, x, status, inc, Now(a)))
<1> DEFINE b == MakeBatch(a, n, x, status, inc)
           m == MakeUpdate(a, n, x, status, inc, Now(a))
<1>1. /\ CInv /\ a \in Addr /\ NodeOwned(a, n, Later(a)) /\ HasMember(n, a)
      /\ Later(a) \in [Addr -> Nat] /\ Later(a)[a] = Now(a)
  BY LaterClock DEF VInv, WInv, CInv, UpKnown, Reached, Follows, KeepsWord
<1>2. IsMap(n.members, Record)
  BY <1>1, ReachedTypes
<1>3. n.members[a].inc \in Nat
  BY <1>1, <1>2 DEF IsMap, HasMember, Record
<1>4. IsBatch(b, Later(a)) /\ Tells(b, NotLeft) /\ OwnBatch(a, b)
  BY <1>1, <1>3 DEF MakeBatch, IsBatch, IsMap, IsBounded, Change, Tells, OwnBatch, Status
<1> HIDE DEF b
<1>5. CASE status = "alive" /\ x = a
  <2>1. m = Apply(a, n, b, Now(a))
    BY <1>5 DEF MakeUpdate, b
  <2>2. KeepsWord(a, m) /\ NodeTells(m, NotLeft)
    BY <1>4, <2>1, ApplyTells
  <2>3. Follows(a, n, m, Later(a))
    <3>1. Follows(a, n, MakeUpdate(a, n, x, status, inc, Later(a)[a]), Later(a))
      BY <1>1, MakeUpdateOwned
    <3> QED BY <1>1, <3>1
  <2>4. OnlyForward(a, n, m)
    <3>1. NodeInv(a, n, Now(a)) /\ Now(a) \in Nat /\ (x = a => inc <= Now(a))
      BY <1>1, ReachedTypes
    <3> QED BY <1>1, <3>1, MakeUpdateKeeps DEF Keeps
  <2> HIDE DEF m
  <2>5. Reached(a, m)
    BY <2>2, <2>3, <2>4, ReachedNext
  <2> QED BY <2>5 DEF m
<1>6. CASE ~(status = "alive" /\ x = a)
  <2>1. m = Update(a, n, b, Now(a))
    BY <1>6 DEF MakeUpdate, b
  <2> QED BY <1>4, <2>1, UpdateReached
<1> QED BY <1>5, <1>6

\* Issuing changes, and starting and stopping the subprotocols.
LEMMA SenderReached ==
  ASSUME VInv, NEW a \in up, NEW n, Reached(a, n)
  PROVE  Reached(a, IssueAsSender(n))
<1>1. /\ a \in Addr /\ Later(a) \in [Addr -> Nat] /\ NodeOwned(a, n, Later(a))
      /\ n \in NodeShape(n)
  BY LaterClock, ReachedTypes DEF VInv, WInv, CInv, UpKnown, Reached, Follows
<1>2. /\ IssueAsSender(n).members = n.members
      /\ IssueAsSender(n).stash = n.stash
  BY <1>1 DEF NodeShape, IssueAsSender, AfterIssue
<1>3. Follows(a, n, IssueAsSender(n), Later(a))
  BY <1>1, IssueAsSenderOwned
<1> QED BY <1>2, <1>3, ReachedSame

LEMMA ReceiverReached ==
  ASSUME VInv, NEW a \in up, NEW n, Reached(a, n), NEW sender, NEW inc
  PROVE  Reached(a, IssueAsReceiver(n, sender, inc))
<1>1. /\ a \in Addr /\ Later(a) \in [Addr -> Nat] /\ NodeOwned(a, n, Later(a))
      /\ n \in NodeShape(n)
  BY LaterClock, ReachedTypes DEF VInv, WInv, CInv, UpKnown, Reached, Follows
<1>2. /\ IssueAsReceiver(n, sender, inc).members = n.members
      /\ IssueAsReceiver(n, sender, inc).stash = n.stash
  BY <1>1 DEF NodeShape, IssueAsReceiver, AfterIssue
<1>3. Follows(a, n, IssueAsReceiver(n, sender, inc), Later(a))
  BY <1>1, IssueAsReceiverOwned
<1> QED BY <1>2, <1>3, ReachedSame

LEMMA StartedReached ==
  ASSUME VInv, NEW a \in up, NEW n, Reached(a, n)
  PROVE  Reached(a, Reenable(StartGossip(n)))
<1> DEFINE k == StartGossip(n)
           m == Reenable(k)
<1>1. a \in Addr /\ Later(a) \in [Addr -> Nat]
  BY LaterClock DEF VInv, WInv, CInv, UpKnown
<1>2. NodeOwned(a, n, Later(a)) /\ n \in NodeShape(n)
  BY <1>1, ReachedTypes DEF VInv, WInv, Reached, Follows
<1>3. Follows(a, n, k, Later(a)) /\ k.members = n.members /\ k.stash = n.stash
  BY <1>1, <1>2, StartGossipOwned DEF NodeShape, StartGossip
<1> HIDE DEF k
<1>4. Reached(a, k)
  BY <1>3, ReachedSame
<1>5. NodeOwned(a, k, Later(a)) /\ k \in NodeShape(k)
  BY <1>1, <1>4, ReachedTypes DEF VInv, WInv, Reached, Follows
<1>6. Follows(a, k, m, Later(a)) /\ m.members = k.members /\ m.stash = k.stash
  BY <1>1, <1>5, ReenableOwned DEF NodeShape, Reenable
<1> HIDE DEF m
<1>7. Reached(a, m)
  BY <1>4, <1>6, ReachedSame
<1> QED BY <1>7 DEF m, k

----------------------------------------------------------------------------
(* What a node tells others *)

LEMMA RumoursTell ==
  ASSUME NEW self, NEW T, NEW n, NodeOwned(self, n, T), NEW F, Tells(n.members, F),
         NEW S \in SUBSET DOMAIN n.changes
  PROVE  Tells([a \in S |-> ToChange(n.changes[a])], F)
<1>1. RumoursAreSound(n)
  BY DEF NodeOwned, NodeInv
<1> QED BY <1>1 DEF Tells, ToChange, RumoursAreSound, HasMember

LEMMA SenderTells ==
  ASSUME NEW self, NEW T, NEW n, NodeOwned(self, n, T), NEW F, Tells(n.members, F)
  PROVE  Tells(SenderBatch(n), F)
<1>1. Issued(n, {}) \in SUBSET DOMAIN n.changes
  BY DEF Issued
<1> QED BY <1>1, RumoursTell DEF SenderBatch

LEMMA FullSyncTells ==
  ASSUME NEW self, NEW n, NEW F, Tells(n.members, F)
  PROVE  Tells(FullSync(self, n), F)
BY DEF FullSync, Tells

LEMMA ReceiverTells ==
  ASSUME NEW self, NEW T, NEW n, NodeOwned(self, n, T), NEW F, Tells(n.members, F),
         NEW from, NEW inc, NEW sum
  PROVE  Tells(AnswerTo(self, n, from, inc, sum), F)
<1> DEFINE S == Issued(n, FilteredFor(n, from, inc))
           same == n.members = sum
<1>1. S \in SUBSET DOMAIN n.changes
  BY DEF Issued
<1>2. AnswerTo(self, n, from, inc, sum)
        = IF S = {} /\ ~same THEN FullSync(self, n)
          ELSE [a \in S |-> ToChange(n.changes[a])]
  BY DEF AnswerTo, ReceiverBatch
<1> HIDE DEF S, same
<1> QED BY <1>1, <1>2, RumoursTell, FullSyncTells

----------------------------------------------------------------------------
(* A step of the lists *)

\* What a step does to node x.
Steps(x) ==
  \/ node'[x] = node[x] /\ clock'[x] = clock[x]
  \/ /\ x \in up
     /\ OnlyForward(x, node[x], node'[x])
     /\ \/ /\ clock'[x] = clock[x]
           /\ node'[x].members[x] = node[x].members[x]
        \/ /\ clock'[x] = clock[x] + 1
           /\ node'[x].members[x] = Alive(clock'[x])

LEMMA StepsRaise ==
  ASSUME VInv, CInv', up' = up, \A x \in Addr : Steps(x)
  PROVE  /\ OwnClocks'
         /\ \A x \in Addr : NotLeft[x] <= NotLeft'[x]
<1>1. /\ CInv /\ OwnClocks /\ up \subseteq Addr
      /\ clock \in [Addr -> Nat] /\ clock' \in [Addr -> Nat]
  BY DEF VInv, WInv, CInv, UpKnown, NodesOwned
<1>2. OwnClocks'
  <2> SUFFICES ASSUME NEW x \in up PROVE node'[x].members[x].inc = clock'[x]
    BY DEF OwnClocks
  <2>1. node[x].members[x].inc = clock[x] /\ Steps(x)
    BY <1>1 DEF OwnClocks
  <2> QED BY <2>1 DEF Steps, Alive
<1>3. ASSUME NEW x \in Addr PROVE NotLeft[x] <= NotLeft'[x]
  <2>1. Steps(x) /\ clock[x] \in Nat /\ clock'[x] \in Nat
    BY <1>1
  <2>2. NotLeft[x] = IF x \in up /\ node[x].members[x].status # "leave"
                       THEN clock[x] ELSE clock[x] + 1
    BY DEF NotLeft
  <2>3. NotLeft'[x] = IF x \in up /\ node'[x].members[x].status # "leave"
                        THEN clock'[x] ELSE clock'[x] + 1
    BY DEF NotLeft
  <2>4. CASE clock'[x] = clock[x] /\ node'[x].members[x] = node[x].members[x]
    BY <2>1, <2>2, <2>3, <2>4
  <2>5. CASE clock'[x] = clock[x] + 1
    BY <2>1, <2>2, <2>3, <2>5
  <2> QED BY <2>1, <2>4, <2>5 DEF Steps
<1> QED BY <1>2, <1>3

\* The maps of a cluster tell on what they told, if no node takes back a leave
\* without a new incarnation.
LEMMA ToldOn ==
  ASSUME CInv, CInv', \A x \in Addr : NotLeft[x] <= NotLeft'[x],
         \A x \in Addr : NodeTells(node'[x], NotLeft) \/ NodeTells(node'[x], NotLeft'),
         \A x \in Addr : Tells(answers'[x], NotLeft),
         \A m \in wire' : Tells(m.changes, NotLeft)
  PROVE  NothingUntold'
<1>1. NotLeft \in [Addr -> Nat] /\ NotLeft' \in [Addr -> Nat]
  BY DEF CInv, NodesOwned, NotLeft
<1>2. \A f : IsMap(f, Record) => \A x \in DOMAIN f : f[x].inc \in Nat
  BY DEF IsMap, Record
<1>3. \A f : IsMap(f, Change) => \A x \in DOMAIN f : f[x].inc \in Nat
  BY DEF IsMap, Change
<1>4. ASSUME NEW x \in Addr PROVE NodeTells(node'[x], NotLeft')
  <2> SUFFICES ASSUME NodeTells(node'[x], NotLeft) PROVE NodeTells(node'[x], NotLeft')
    OBVIOUS
  <2>1. IsMap(node'[x].members, Record) /\ IsMap(node'[x].stash, Change)
    BY DEF CInv, NodesOwned, NodeOwned, NodeInv, IsNode
  <2>2. Tells(node'[x].members, NotLeft) /\ Tells(node'[x].stash, NotLeft)
    BY DEF NodeTells
  <2>3. Tells(node'[x].members, NotLeft')
    BY <1>1, <1>2, <2>1, <2>2, TellsRaised
  <2>4. Tells(node'[x].stash, NotLeft')
    BY <1>1, <1>3, <2>1, <2>2, TellsRaised
  <2> QED BY <2>3, <2>4 DEF NodeTells
<1>5. ASSUME NEW x \in Addr PROVE Tells(answers'[x], NotLeft')
  <2>1. IsMap(answers'[x], Change)
    BY DEF CInv, AnswersOwned, IsBatch
  <2> QED BY <1>1, <1>3, <2>1, TellsRaised
<1>6. ASSUME NEW m \in wire' PROVE Tells(m.changes, NotLeft')
  <2>1. IsMap(m.changes, Change)
    BY DEF CInv, WireOwned, IsMessage, IsBatch
  <2> QED BY <1>1, <1>3, <2>1, TellsRaised
<1> QED BY <1>4, <1>5, <1>6 DEF NothingUntold

LEMMA StepTells ==
  ASSUME VInv, WInv', up' = up, \A x \in Addr : Steps(x), RelaysRun',
         \A x \in Addr : NodeTells(node'[x], NotLeft),
         \A x \in Addr : Tells(answers'[x], NotLeft),
         \A m \in wire' : Tells(m.changes, NotLeft)
  PROVE  VInv'
<1>1. CInv /\ CInv'
  BY DEF VInv, WInv
<1>2. OwnClocks' /\ \A x \in Addr : NotLeft[x] <= NotLeft'[x]
  BY <1>1, StepsRaise
<1>3. NothingUntold'
  BY <1>1, <1>2, ToldOn
<1> QED BY <1>2, <1>3 DEF VInv

\* The invariant says what MemberViews asks of the lists.
LEMMA Truth == VInv => Views!NothingInvented
<1> SUFFICES ASSUME VInv, NEW a \in Addr, NEW b \in DOMAIN node[a].members
             PROVE  /\ node[a].members[b].inc <= clock[b]
                    /\ node[a].members[b].status = "leave" /\ node[a].members[b].inc = clock[b]
                         => (b \in up => node[b].members[b].status = "leave")
  BY DEF Views!NothingInvented, Views!MayHaveLeft, VInv, WInv, CInv, NodesOwned, NodeOwned,
         NodeInv, IsNode, IsMap
<1>1. NodeOwned(a, node[a], clock) /\ Tells(node[a].members, NotLeft)
  BY DEF VInv, WInv, CInv, NodesOwned, NothingUntold, NodeTells
<1>2. b \in Addr /\ node[a].members[b].inc <= clock[b]
  BY <1>1 DEF NodeOwned, NodeInv, IsNode, IsMap, IsBounded
<1>3. clock[b] \in Nat
  BY <1>2 DEF VInv, WInv, CInv, NodesOwned
<1>4. node[a].members[b].status = "leave" => node[a].members[b].inc < NotLeft[b]
  BY <1>1 DEF Tells
<1> QED BY <1>2, <1>3, <1>4 DEF NotLeft

LEMMA StepLearns ==
  ASSUME VInv, VInv', up' = up, \A x \in Addr : Steps(x)
  PROVE  Views!Learn
<1>1. /\ DOMAIN node = Addr /\ DOMAIN node' = Addr /\ up \subseteq Addr
      /\ clock \in [Addr -> Nat] /\ clock' \in [Addr -> Nat]
      /\ \A x \in Addr : IsMap(node[x].members, Record) /\ IsMap(node'[x].members, Record)
  BY DEF VInv, WInv, CInv, NodesOwned, UpKnown, NodeOwned, NodeInv, IsNode
<1>2. ASSUME NEW x \in up
      PROVE  Views!Forward(node[x].members, node'[x].members)
  <2> SUFFICES ASSUME NEW b \in DOMAIN node[x].members
               PROVE  /\ b \in DOMAIN node'[x].members
                      /\ \/ node'[x].members[b] = node[x].members[b]
                         \/ Views!Overrides(node'[x].members[b], node[x].members[b])
    BY DEF Views!Forward
  <2>1. x \in Addr /\ Steps(x) /\ node[x].members[b] \in Record
    BY <1>1 DEF IsMap
  <2>2. CASE node'[x] = node[x]
    BY <2>2
  <2>3. CASE OnlyForward(x, node[x], node'[x])
    <3> DEFINE r == node[x].members[b]
               t == node'[x].members[b]
    <3>1. /\ b \in DOMAIN node'[x].members /\ t.inc >= r.inc
          /\ b # x /\ t.inc = r.inc => Rank[t.status] >= Rank[r.status]
      BY <2>3 DEF OnlyForward, HasMember
    <3>2. r \in Record /\ t \in Record
      BY <1>1, <2>1, <3>1 DEF IsMap
    <3> HIDE DEF r, t
    <3>3. CASE t.inc > r.inc
      BY <3>1, <3>3 DEF Views!Overrides, r, t
    <3>4. CASE t.inc = r.inc /\ b # x
      <4>1. t.status = r.status \/ Rank[t.status] > Rank[r.status]
        BY <3>1, <3>2, <3>4 DEF Rank, Record, Status
      <4>2. CASE t.status = r.status
        <5>1. t = r
          BY <3>2, <3>4, <4>2 DEF Record
        <5> QED BY <3>1, <5>1 DEF r, t
      <4>3. CASE Rank[t.status] > Rank[r.status]
        BY <3>1, <3>4, <4>3 DEF Views!Overrides, Views!Rank, Rank, r, t
      <4> QED BY <4>1, <4>2, <4>3
    <3>5. CASE t.inc = r.inc /\ b = x
      <4>1. r.inc = clock[x] /\ clock[x] \in Nat
        BY <1>1, <2>1, <3>5 DEF VInv, OwnClocks, r
      <4>2. t = r
        BY <2>1, <3>5, <4>1 DEF Steps, Alive, r, t
      <4> QED BY <3>1, <4>2 DEF r, t
    <3>6. t.inc > r.inc \/ t.inc = r.inc
      BY <3>1, <3>2 DEF Record
    <3> QED BY <3>3, <3>4, <3>5, <3>6
  <2> QED BY <2>1, <2>2, <2>3 DEF Steps
<1>3. ASSUME NEW x \in up PROVE Views!KeepsWord(x)
  <2>1. x \in Addr /\ Steps(x) /\ clock[x] \in Nat
    BY <1>1
  <2>2. CASE clock'[x] = clock[x]
    BY <2>1, <2>2 DEF Views!KeepsWord, Steps
  <2>3. CASE clock'[x] # clock[x]
    BY <2>1, <2>3 DEF Views!KeepsWord, Views!Alive, Steps, Alive
  <2> QED BY <2>2, <2>3
<1>4. \A x \in Addr \ up : node'[x].members = node[x].members /\ clock'[x] = clock[x]
  BY DEF Steps
<1>5. Views!NothingInvented'
  BY Truth, PTL
<1> QED BY <1>1, <1>2, <1>3, <1>4, <1>5 DEF Views!Learn

\* The step of a running node that has become n.
LEMMA ReachedSteps ==
  ASSUME VInv, NEW a \in up, NEW n, Reached(a, n),
         node'[a] = n, clock'[a] = ClockOf(a, n)
  PROVE  Steps(a)
<1>1. /\ a \in Addr /\ node[a].members[a].inc = clock[a]
      /\ clock[a] \in Nat /\ Now(a) = clock[a] + 1
  BY DEF VInv, WInv, CInv, UpKnown, NodesOwned, OwnClocks, Now
<1>2. /\ HasMember(n, a) /\ n.members[a] \in {node[a].members[a], Alive(Now(a))}
      /\ OnlyForward(a, node[a], n)
  BY DEF Reached, KeepsWord
<1>3. CASE n.members[a] = node[a].members[a]
  <2>1. ClockOf(a, n) = clock[a]
    BY <1>1, <1>3 DEF ClockOf, Inc
  <2> QED BY <1>2, <1>3, <2>1 DEF Steps
<1>4. CASE n.members[a] = Alive(Now(a))
  <2>1. n.members[a].inc = clock[a] + 1 /\ clock[a] + 1 > clock[a]
    BY <1>1, <1>4 DEF Alive
  <2>2. ClockOf(a, n) = clock[a] + 1
    BY <1>2, <2>1 DEF ClockOf, Inc
  <2> QED BY <1>1, <1>2, <1>4, <2>2 DEF Steps
<1> QED BY <1>2, <1>3, <1>4

\* A step of one running node, and what it leaves on the wire.
LEMMA OneNode ==
  ASSUME VInv, WInv', NEW a \in up, NEW n, Reached(a, n), SetNode(a, n),
         up' = up, answers' = answers, RelaysRun',
         \A m \in wire' : Tells(m.changes, NotLeft)
  PROVE  VInv' /\ Views!Learn
<1>1. a \in Addr /\ DOMAIN node = Addr /\ clock \in [Addr -> Nat]
  BY DEF VInv, WInv, CInv, UpKnown, NodesOwned
<1>2. /\ node'[a] = n /\ \A x \in Addr \ {a} : node'[x] = node[x]
      /\ clock'[a] = ClockOf(a, n) /\ \A x \in Addr \ {a} : clock'[x] = clock[x]
  BY <1>1 DEF SetNode
<1>3. ASSUME NEW x \in Addr PROVE Steps(x)
  <2>1. Steps(a)
    BY <1>2, ReachedSteps
  <2> QED BY <1>2, <2>1 DEF Steps
<1>4. \A x \in Addr : NodeTells(node'[x], NotLeft)
  BY <1>2 DEF VInv, NothingUntold, Reached
<1>5. \A x \in Addr : Tells(answers'[x], NotLeft)
  BY DEF VInv, NothingUntold
<1>6. VInv'
  BY <1>3, <1>4, <1>5, StepTells
<1> QED BY <1>3, <1>6, StepLearns

\* The relays are as they were.
LEMMA RelaysKept ==
  ASSUME VInv, up' = up, asked' = asked
  PROVE  RelaysRun'
BY DEF VInv, RelaysRun

----------------------------------------------------------------------------
(* The steps that learn *)

LEMMA SendPingLearns ==
  ASSUME VInv, WInv', NEW a \in Addr, NEW b \in Addr, SendPing(a, b)
  PROVE  VInv' /\ Views!Learn
<1>1. /\ a \in up /\ SetNode(a, IssueAsSender(node[a]))
      /\ up' = up /\ answers' = answers /\ asked' = asked
      /\ wire' \subseteq wire \cup {Ping(a, node[a], b, a)}
  BY DEF SendPing, Left, AllPings, MayPing, joins
<1>2. Reached(a, IssueAsSender(node[a]))
  BY <1>1, ReachedFirst, SenderReached
<1>3. Tells(SenderBatch(node[a]), NotLeft)
  BY SenderTells DEF VInv, WInv, CInv, NodesOwned, NothingUntold, NodeTells
<1>4. \A m \in wire' : Tells(m.changes, NotLeft)
  BY <1>1, <1>3 DEF VInv, NothingUntold, Ping
<1> QED BY <1>1, <1>2, <1>4, RelaysKept, OneNode

\* What arrives at b, a node that runs, as message m.
LEMMA HeardReached ==
  ASSUME VInv, NEW m \in wire, NEW b \in up
  PROVE  Reached(b, Receive(b, node[b], m.changes))
<1>1. IsBatch(m.changes, clock) /\ Tells(m.changes, NotLeft)
  BY DEF VInv, WInv, CInv, WireOwned, IsMessage, NothingUntold
<1> QED BY <1>1, ReachedFirst, ReceiveReached

\* What a node on its way answers.
LEMMA AnswerTells ==
  ASSUME VInv, NEW b \in up, NEW k, Reached(b, k), NEW from, NEW inc, NEW sum
  PROVE  Tells(AnswerTo(b, k, from, inc, sum), NotLeft)
BY ReceiverTells DEF Reached, Follows, NodeTells

LEMMA HandlePingLearns ==
  ASSUME VInv, WInv', NEW m \in wire, HandlePing(m)
  PROVE  VInv' /\ Views!Learn
<1>1. PICK b \in up : b = m.to
  BY DEF HandlePing
<1> DEFINE k == Receive(b, node[b], m.changes)
           n == IssueAsReceiver(k, m.from, m.inc)
           ans == Answer(m, AnswerTo(b, k, m.from, m.inc, m.sum))
<1>2. /\ SetNode(b, n) /\ up' = up /\ answers' = answers /\ asked' = asked
      /\ wire' \subseteq wire \cup {ans}
  BY <1>1 DEF HandlePing, joins
<1>3. Reached(b, k)
  BY HeardReached
<1> HIDE DEF k
<1>4. Reached(b, n)
  BY <1>3, ReceiverReached
<1>5. Tells(ans.changes, NotLeft)
  BY <1>3, AnswerTells DEF Answer
<1> HIDE DEF n, ans
<1>6. \A x \in wire' : Tells(x.changes, NotLeft)
  BY <1>2, <1>5 DEF VInv, NothingUntold
<1> QED BY <1>2, <1>4, <1>6, RelaysKept, OneNode

\* A node that waits for a message runs.
LEMMA AskerRuns ==
  ASSUME VInv, NEW m \in wire, ~IsLatePing(m)
  PROVE  m.asker \in up
<1>1. m.asker \in Addr /\ Fits(m.asker, m)
  BY TheMessage DEF VInv
<1>2. pinging[m.asker].to # {} \/ pinging[m.asker].failed
  BY <1>1 DEF Fits, Asks
<1>3. pinging[m.asker] \in Pings /\ (m.asker \notin up => pinging[m.asker].to = {})
  BY <1>1 DEF VInv, WInv, CInv, PingsKnown
<1>4. \A p \in Pings : p.failed => p.to # {}
  BY DEF Pings, NoPing
<1> QED BY <1>2, <1>3, <1>4

\* So does a node that relays.
LEMMA RelayRuns ==
  ASSUME VInv, NEW m \in wire, ~IsLatePing(m), NEW p \in Addr, IsRelayedBy(m.asker, m, p)
  PROVE  p \in up
BY TheMessage DEF VInv, RelaysRun

LEMMA HandleAnswerLearns ==
  ASSUME VInv, WInv', NEW m \in wire, HandleAnswer(m)
  PROVE  VInv' /\ Views!Learn
<1>1. ~IsLatePing(m)
  BY DEF HandleAnswer, IsLatePing
<1>2. PICK b \in up : b = m.to
  BY <1>1, AskerRuns DEF HandleAnswer
<1>3. /\ SetNode(b, Receive(b, node[b], m.changes))
      /\ up' = up /\ answers' = answers /\ asked' = asked /\ wire' \subseteq wire
  BY <1>2 DEF HandleAnswer, joins
<1>4. \A x \in wire' : Tells(x.changes, NotLeft)
  BY <1>3 DEF VInv, NothingUntold
<1> QED BY <1>3, <1>4, HeardReached, RelaysKept, OneNode

LEMMA HandlePingReqLearns ==
  ASSUME VInv, WInv', NEW m \in wire, HandlePingReq(m)
  PROVE  VInv' /\ Views!Learn
<1>1. PICK p \in up : p = m.to
  BY DEF HandlePingReq
<1> DEFINE k == Receive(p, node[p], m.changes)
           n == IssueAsSender(k)
           kept == [x \in {m.asker} |-> [inc |-> m.inc, sum |-> m.sum]]
<1>2. PICK t \in pinging[m.asker].to :
        /\ SetNode(p, n) /\ up' = up /\ answers' = answers
        /\ asked' = [asked EXCEPT ![p] = Overlay(@, kept)]
        /\ wire' \subseteq wire \cup {Ping(p, k, t, m.asker)}
  BY <1>1 DEF HandlePingReq, joins
<1>3. Reached(p, k)
  BY HeardReached
<1> HIDE DEF k, kept
<1>4. Reached(p, n)
  BY <1>3, SenderReached
<1>5. Tells(SenderBatch(k), NotLeft)
  BY <1>3, SenderTells DEF Reached, Follows, NodeTells
<1> HIDE DEF n
<1>6. \A x \in wire' : Tells(x.changes, NotLeft)
  BY <1>2, <1>5 DEF VInv, NothingUntold, Ping
<1>7. RelaysRun'
  BY <1>2 DEF VInv, RelaysRun, WInv, Conversations
<1> QED BY <1>2, <1>4, <1>6, <1>7, OneNode

LEMMA AnswerPingReqLearns ==
  ASSUME VInv, WInv', NEW p \in up, NEW k, Reached(p, k),
         NEW m, NEW ok, AnswerPingReq(p, k, m, ok)
  PROVE  VInv' /\ Views!Learn
<1> DEFINE req == asked[p][m.asker]
           n == IssueAsReceiver(k, m.asker, req.inc)
           v == Verdict(p, m.asker, ok, AnswerTo(p, k, m.asker, req.inc, req.sum))
<1>1. /\ SetNode(p, n) /\ up' = up /\ answers' = answers
      /\ asked' = [asked EXCEPT ![p] = [x \in DOMAIN @ \ {m.asker} |-> @[x]]]
      /\ wire' \subseteq wire \cup {v}
  BY DEF AnswerPingReq, joins
<1>2. Reached(p, n)
  BY ReceiverReached
<1>3. Tells(v.changes, NotLeft)
  BY AnswerTells DEF Verdict
<1> HIDE DEF n, v
<1>4. \A x \in wire' : Tells(x.changes, NotLeft)
  BY <1>1, <1>3 DEF VInv, NothingUntold
<1>5. RelaysRun'
  BY <1>1 DEF VInv, RelaysRun, WInv, Conversations
<1> QED BY <1>1, <1>2, <1>4, <1>5, OneNode

LEMMA RelayAnsweredLearns ==
  ASSUME VInv, WInv', NEW m \in wire, RelayAnswered(m)
  PROVE  VInv' /\ Views!Learn
<1>1. m.kind = "answer" /\ m.to # m.asker /\ m.to \in Addr
  BY DEF RelayAnswered, VInv, WInv, CInv, WireOwned, IsMessage
<1>2. ~IsLatePing(m) /\ IsRelayedBy(m.asker, m, m.to)
  BY <1>1 DEF IsLatePing, IsRelayedBy
<1>3. m.to \in up
  BY <1>1, <1>2, RelayRuns
<1>4. AnswerPingReq(m.to, Receive(m.to, node[m.to], m.changes), m, TRUE)
  BY DEF RelayAnswered
<1> QED BY <1>3, <1>4, HeardReached, AnswerPingReqLearns

LEMMA RelayFailsLearns ==
  ASSUME VInv, WInv', NEW m \in wire, RelayFails(m)
  PROVE  VInv' /\ Views!Learn
<1>1. m.kind = "ping" /\ m.from # m.asker /\ m.from \in Addr /\ PingFits(m)
  BY DEF RelayFails, VInv, WInv, CInv, WireOwned, IsMessage, Conversations
<1>2. ~IsLatePing(m) /\ IsRelayedBy(m.asker, m, m.from)
  BY <1>1 DEF IsLatePing, IsRelayedBy, PingFits
<1>3. m.from \in up
  BY <1>1, <1>2, RelayRuns
<1>4. AnswerPingReq(m.from, node[m.from], m, FALSE)
  BY DEF RelayFails
<1> QED BY <1>3, <1>4, ReachedFirst, AnswerPingReqLearns

LEMMA HandleVerdictLearns ==
  ASSUME VInv, WInv', NEW m \in wire, HandleVerdict(m)
  PROVE  VInv' /\ Views!Learn
<1>1. m.kind = "verdict" /\ ~IsLatePing(m)
  BY DEF HandleVerdict, IsLatePing
<1>2. m.to = m.asker /\ m.asker \in up
  <2>1. Fits(m.asker, m)
    BY <1>1, TheMessage DEF VInv
  <2> QED BY <1>1, <2>1, AskerRuns DEF Fits
<1>3. PICK a \in up : a = m.to
  BY <1>2
<1> DEFINE k == Receive(a, node[a], m.changes)
<1>4. PICK t \in pinging[a].to :
        /\ SetNode(a, IF m.ok THEN k ELSE Suspect(a, k, t))
        /\ up' = up /\ answers' = answers /\ asked' = asked /\ wire' \subseteq wire
  BY <1>3 DEF HandleVerdict, joins
<1>5. Reached(a, k)
  BY HeardReached
<1> HIDE DEF k
<1>6. Reached(a, Suspect(a, k, t))
  <2>1. t \in DOMAIN node[a].members /\ a \in Addr
    BY DEF VInv, WInv, CInv, PingsKnown, UpKnown
  <2>2. t \in Addr /\ Inc(k, t) \in Nat /\ Inc(k, t) <= Later(a)[t]
    BY <1>5, <2>1, KnownInc DEF Reached, Follows, HasMember
  <2>3. "suspect" \in Status \ {"leave"} /\ "suspect" # "alive"
    BY DEF Status
  <2> QED BY <1>5, <2>2, <2>3, MakeReached DEF Suspect
<1> DEFINE n == IF m.ok THEN k ELSE Suspect(a, k, t)
<1>7. Reached(a, n) /\ SetNode(a, n)
  BY <1>4, <1>5, <1>6
<1> HIDE DEF n
<1>8. \A x \in wire' : Tells(x.changes, NotLeft)
  BY <1>4 DEF VInv, NothingUntold
<1> QED BY <1>4, <1>7, <1>8, RelaysKept, OneNode

\* A step that changes no node.
LEMMA NoNode ==
  ASSUME VInv, WInv', UNCHANGED <<node, clock, up, answers, asked>>,
         \A m \in wire' : Tells(m.changes, NotLeft)
  PROVE  VInv' /\ Views!Learn
<1>1. \A x \in Addr : Steps(x)
  BY DEF Steps
<1>2. RelaysRun'
  BY RelaysKept
<1>3. VInv'
  BY <1>1, <1>2, StepTells DEF VInv, NothingUntold
<1> QED BY <1>1, <1>3, StepLearns

LEMMA SendPingReqLearns ==
  ASSUME VInv, WInv', NEW a \in up, NEW W, \A m \in W : Tells(m.changes, NotLeft),
         SendPingReq(a, W), UNCHANGED <<up, joins, asked>>
  PROVE  VInv' /\ Views!Learn
<1>1. up' = up /\ answers' = answers /\ asked' = asked
  BY DEF joins
<1>2. CASE wire' = W /\ UNCHANGED <<node, clock>>
  BY <1>1, <1>2, NoNode
<1>3. ASSUME NEW p \in Peers(a),
             wire' = IF p \in up THEN W \cup {PingReq(a, p)} ELSE W,
             SetNode(a, IssueAsSender(node[a]))
      PROVE  VInv' /\ Views!Learn
  <2>1. Reached(a, IssueAsSender(node[a]))
    BY ReachedFirst, SenderReached
  <2>2. Tells(SenderBatch(node[a]), NotLeft)
    BY SenderTells DEF VInv, WInv, CInv, NodesOwned, UpKnown, NothingUntold, NodeTells
  <2>3. \A m \in wire' : Tells(m.changes, NotLeft)
    BY <1>3, <2>2 DEF PingReq
  <2> QED BY <1>1, <1>3, <2>1, <2>3, RelaysKept, OneNode
<1> QED BY <1>2, <1>3 DEF SendPingReq

LEMMA PingFailsLearns ==
  ASSUME VInv, WInv', NEW a \in Addr, PingFails(a)
  PROVE  VInv' /\ Views!Learn
<1>1. a \in up /\ UNCHANGED <<up, joins, asked>>
  BY DEF PingFails
<1>2. \A m \in wire : Tells(m.changes, NotLeft)
  BY DEF VInv, NothingUntold
<1>3. CASE SendPingReq(a, wire)
  BY <1>1, <1>2, <1>3, SendPingReqLearns
<1>4. ASSUME NEW lost \in BOOLEAN,
             SendPingReq(a, (wire \ Pending(a)) \cup
               {[m EXCEPT !.late = TRUE] :
                  m \in {x \in Pending(a) : x.kind = "ping" /\ ~lost}})
      PROVE  VInv' /\ Views!Learn
  <2> DEFINE W == (wire \ Pending(a)) \cup
               {[m EXCEPT !.late = TRUE] :
                  m \in {x \in Pending(a) : x.kind = "ping" /\ ~lost}}
  <2>1. \A m \in wire : [m EXCEPT !.late = TRUE].changes = m.changes
    BY DEF VInv, WInv, CInv, WireOwned, IsMessage
  <2>2. \A m \in W : Tells(m.changes, NotLeft)
    BY <1>2, <2>1 DEF Pending
  <2>3. SendPingReq(a, W)
    BY <1>4
  <2> HIDE DEF W
  <2> QED BY <1>1, <2>2, <2>3, SendPingReqLearns
<1> QED BY <1>3, <1>4 DEF PingFails

LEMMA PingReqUnansweredLearns ==
  ASSUME VInv, WInv', NEW a \in Addr, PingReqUnanswered(a)
  PROVE  VInv' /\ Views!Learn
<1>1. UNCHANGED <<node, clock, up, answers, asked>> /\ wire' \subseteq wire
  BY DEF PingReqUnanswered, joins
<1>2. \A m \in wire' : Tells(m.changes, NotLeft)
  BY <1>1 DEF VInv, NothingUntold
<1> QED BY <1>1, <1>2, NoNode

\* A step of one running node that sends nothing.
LEMMA OneQuietNode ==
  ASSUME VInv, WInv', NEW a \in up, NEW n, Reached(a, n), SetNode(a, n),
         UNCHANGED <<up, joins, asked, wire>>
  PROVE  VInv' /\ Views!Learn
<1>1. up' = up /\ answers' = answers /\ asked' = asked /\ wire' = wire
  BY DEF joins
<1>2. \A m \in wire' : Tells(m.changes, NotLeft)
  BY <1>1 DEF VInv, NothingUntold
<1> QED BY <1>1, <1>2, RelaysKept, OneNode

LEMMA SuspicionTimeoutLearns ==
  ASSUME VInv, WInv', NEW a \in Addr, NEW b \in Addr, SuspicionTimeout(a, b)
  PROVE  VInv' /\ Views!Learn
<1> DEFINE inc == node[a].timers[b]
           n == MakeUpdate(a, node[a], b, "faulty", inc, Now(a))
<1>1. /\ a \in up /\ b \in DOMAIN node[a].timers /\ NodeOwned(a, node[a], Later(a))
      /\ SetNode(a, n) /\ UNCHANGED <<up, joins, asked, wire>>
  BY LaterClock DEF SuspicionTimeout, VInv, WInv
<1>2. HasMember(node[a], b) /\ inc = Inc(node[a], b)
  BY <1>1 DEF NodeOwned, NodeInv, TimersAreSound, Inc
<1>3. inc \in Nat /\ inc <= Later(a)[b]
  BY <1>1, <1>2, KnownInc
<1>4. "faulty" \in Status \ {"leave"} /\ "faulty" # "alive"
  BY DEF Status
<1> HIDE DEF inc
<1>5. Reached(a, n)
  BY <1>1, <1>3, <1>4, ReachedFirst, MakeReached
<1> HIDE DEF n
<1> QED BY <1>1, <1>5, OneQuietNode

\* A host that takes a joining node in.
LEMMA HostReached ==
  ASSUME VInv, NEW a \in up, NEW b \in up \ {a}
  PROVE  Reached(b, HostAfterJoin(a, b))
<1>1. a \in Addr /\ b \in Addr /\ NodeOwned(a, node[a], clock) /\ HasMember(node[a], a)
  BY DEF VInv, WInv, CInv, NodesOwned, UpKnown
<1>2. Inc(node[a], a) \in Nat /\ Inc(node[a], a) <= clock[a]
  BY <1>1, KnownInc
<1>3. Later(b)[a] = clock[a]
  BY <1>1, LaterClock DEF VInv, WInv
<1>4. "alive" \in Status \ {"leave"}
  BY DEF Status
<1> QED BY <1>1, <1>2, <1>3, <1>4, ReachedFirst, MakeReached DEF HostAfterJoin

LEMMA JoinLostLearns ==
  ASSUME VInv, WInv', NEW a \in Addr, NEW b \in Addr, JoinLost(a, b)
  PROVE  VInv' /\ Views!Learn
<1>1. /\ a \in up /\ b \in up \ {a} /\ SetNode(b, HostAfterJoin(a, b))
      /\ UNCHANGED <<up, joins, asked, wire>>
  BY DEF JoinLost, IsJoining
<1> QED BY <1>1, HostReached, OneQuietNode

LEMMA AdminJoinLearns ==
  ASSUME VInv, WInv', NEW a \in Addr, AdminJoin(a)
  PROVE  VInv' /\ Views!Learn
<1> DEFINE k == MakeUpdate(a, node[a], a, "alive", Now(a), Now(a))
           n == Reenable(StartGossip(k))
<1>1. a \in up /\ SetNode(a, n) /\ UNCHANGED <<up, joins, asked, wire>>
  BY DEF AdminJoin
<1>2. Now(a) \in Nat /\ Later(a)[a] = Now(a) /\ "alive" \in Status \ {"leave"}
  BY LaterClock DEF VInv, WInv, CInv, NodesOwned, Now, Status
<1>3. Reached(a, k)
  BY <1>1, <1>2, ReachedFirst, MakeReached
<1> HIDE DEF k
<1>4. Reached(a, n)
  BY <1>1, <1>3, StartedReached
<1> HIDE DEF n
<1> QED BY <1>1, <1>4, OneQuietNode

\* What a node that is not ready keeps for later; then it is ready.
LEMMA ReadyTells ==
  ASSUME NEW self, NEW n, NEW k, NEW b, NEW t \in Nat, ~n.ready,
         k = Update(self, n, b, t), NodeInv(self, k, t), n \in NodeShape(n),
         HasMember(n, self), NEW F, NodeTells(n, F), Tells(b, F)
  PROVE  /\ OnlyForward(self, n, BecomeReady(self, k))
         /\ BecomeReady(self, k).members[self] = n.members[self]
         /\ NodeTells(BecomeReady(self, k), F)
<1> DEFINE m == BecomeReady(self, k)
<1>1. k = [n EXCEPT !.stash = MergeChangeset(self, @, b)]
  BY DEF Update
<1>2. k.members = n.members /\ ~k.ready /\ k.stash = MergeChangeset(self, n.stash, b)
  BY <1>1 DEF NodeShape
<1>3. k \in NodeShape(k) /\ self \notin DOMAIN k.stash
  BY DEF NodeInv, IsNode
<1>4. m.members = Overlay(k.members, Records(k.stash)) /\ m.stash = NoMap
  BY <1>3 DEF NodeShape, BecomeReady, StartGossip, SetMembership
<1>5. OnlyForward(self, k, m)
  BY <1>2, BecomeReadyKeeps
<1> HIDE DEF m
<1>6. OnlyForward(self, n, m)
  BY <1>2, <1>5 DEF OnlyForward, HasMember
<1>7. m.members[self] = n.members[self]
  BY <1>2, <1>3, <1>4 DEF Overlay, Records, HasMember
<1>8. NodeTells(m, F)
  <2>1. Tells(k.stash, F)
    BY <1>2, MergeTells DEF NodeTells
  <2>2. Tells(m.members, F)
    BY <1>2, <1>4, <2>1, RecordsTell, OverlayTells DEF NodeTells
  <2> QED BY <1>4, <2>2 DEF NodeTells, Tells, NoMap
<1> QED BY <1>6, <1>7, <1>8 DEF m

LEMMA JoinAnsweredLearns ==
  ASSUME VInv, WInv', NEW a \in Addr, NEW b \in Addr, JoinAnswered(a, b)
  PROVE  VInv' /\ Views!Learn
<1> DEFINE host == HostAfterJoin(a, b)
           k == Told(a, b)
           n == BecomeReady(a, k)
<1>1. /\ up' = up /\ asked' = asked /\ wire' = wire /\ DOMAIN answers = Addr /\ CInv
      /\ \A x \in Addr : NodeTells(node[x], NotLeft) /\ Tells(answers[x], NotLeft)
      /\ clock[a] \in Nat /\ node[a] \in NodeShape(node[a])
  BY DEF JoinAnswered, VInv, WInv, CInv, AnswersOwned, NothingUntold, NodesOwned,
         NodeOwned, NodeInv, IsNode
<1>2. /\ a \in up /\ b \in up \ {a} /\ ~node[a].ready /\ HasMember(node[a], a)
      /\ node'[b] = host /\ node'[a] = IF Complete(a) THEN n ELSE node[a]
      /\ \A x \in Addr \ {a, b} : node'[x] = node[x]
      /\ clock'[b] = ClockOf(b, host) /\ \A x \in Addr \ {b} : clock'[x] = clock[x]
      /\ answers' = [answers EXCEPT ![a] = IF Complete(a) THEN NoMap ELSE Merged(a, b)]
      /\ Follows(a, node[a], k, clock')
  BY <1>1, JoinAnsweredNodes
<1>3. Reached(b, host)
  BY <1>2, HostReached
<1>4. Tells(Merged(a, b), NotLeft)
  BY <1>1, <1>3, FullSyncTells, MergeTells DEF Merged, Reached, NodeTells
<1>5. /\ OnlyForward(a, node[a], n) /\ n.members[a] = node[a].members[a]
      /\ NodeTells(n, NotLeft)
  <2>1. k = Update(a, node[a], Merged(a, b), Now(a))
    BY DEF Told, Receive
  <2>2. Now(a) \in Nat /\ NodeInv(a, k, clock[a])
    BY <1>1, <1>2 DEF Now, Follows, NodeOwned
  <2>3. Update(a, node[a], Merged(a, b), Now(a)) = Update(a, node[a], Merged(a, b), clock[a])
    BY <1>2 DEF Update
  <2> HIDE DEF k
  <2> QED BY <1>1, <1>2, <1>4, <2>1, <2>2, <2>3, ReadyTells
<1> HIDE DEF host, n
<1>6. ASSUME NEW x \in Addr PROVE Steps(x)
  <2>1. CASE x = b
    BY <1>2, <1>3, <2>1, ReachedSteps
  <2>2. CASE x = a
    BY <1>2, <1>5, <2>2 DEF Steps
  <2>3. CASE x \notin {a, b}
    BY <1>2, <2>3 DEF Steps
  <2> QED BY <2>1, <2>2, <2>3
<1>7. \A x \in Addr : NodeTells(node'[x], NotLeft)
  BY <1>1, <1>2, <1>3, <1>5 DEF Reached
<1>8. \A x \in Addr : Tells(answers'[x], NotLeft)
  BY <1>1, <1>2, <1>4 DEF Tells, NoMap
<1>9. \A m \in wire' : Tells(m.changes, NotLeft)
  BY <1>1 DEF VInv, NothingUntold
<1>10. VInv'
  BY <1>1, <1>6, <1>7, <1>8, <1>9, RelaysKept, StepTells
<1> QED BY <1>1, <1>6, <1>10, StepLearns

----------------------------------------------------------------------------
(* The steps that do something else *)

\* What a member list becomes by makeLeave of the local member.
LEMMA LeaveMembers ==
  ASSUME NEW self \in Addr, NEW n, NEW t, NodeInv(self, n, t), NEW now,
         n.ready, n.members[self].status # "leave"
  PROVE  LET k == MakeUpdate(self, n, self, "leave", Inc(n, self), now)
         IN  /\ k.members = [n.members EXCEPT ![self].status = "leave"]
             /\ k.stash = n.stash
             /\ k \in NodeShape(k)
<1> DEFINE inc == Inc(n, self)
           b == MakeBatch(self, n, self, "leave", inc)
           u == Updates(self, n.members, b, now)
           k == MakeUpdate(self, n, self, "leave", inc, now)
           r == n.members[self]
<1>1. /\ n \in NodeShape(n) /\ self \in DOMAIN n.members
      /\ n.members \in [DOMAIN n.members -> Record] /\ r \in Record
  BY DEF NodeInv, IsNode, IsMap, LocalMemberIsSound, HasMember
<1>2. /\ DOMAIN b = {self} /\ b[self].status = "leave" /\ b[self].inc = r.inc
      /\ k = Apply(self, n, b, now)
  BY DEF MakeBatch, MakeUpdate, Update, Inc
<1> HIDE DEF b
<1>3. r.inc \in Nat
  BY <1>1 DEF Record
<1>4. IsLeaveOverride(r, b[self]) /\ ~IsLocalOverride(self, self, b[self])
  BY <1>2, <1>3 DEF IsLeaveOverride, IsLocalOverride
<1>5. u = [x \in {self} |-> b[x]]
  BY <1>1, <1>2, <1>4 DEF Updates, Accepted, Overrides
<1>6. k.members = Overlay(n.members, Records(u)) /\ k.stash = n.stash /\ k \in NodeShape(k)
  <2> HIDE DEF u, k
  <2> QED BY <1>1, <1>2 DEF NodeShape, Apply, u
<1> HIDE DEF u, k
<1>7. [r EXCEPT !.status = "leave"] = [status |-> "leave", inc |-> r.inc]
  BY <1>1 DEF Record
<1> HIDE DEF r
<1>8. k.members = [n.members EXCEPT ![self] = [status |-> "leave", inc |-> r.inc]]
  BY <1>1, <1>2, <1>5, <1>6 DEF Overlay, Records, RecordOf
<1>9. k.members = [n.members EXCEPT ![self].status = "leave"]
  BY <1>7, <1>8 DEF r
<1> QED BY <1>6, <1>9 DEF k, inc

LEMMA AdminLeaveLeaves ==
  ASSUME VInv, WInv', NEW a \in Addr, AdminLeave(a)
  PROVE  VInv' /\ Views!Leave(a)
<1> DEFINE k == MakeUpdate(a, node[a], a, "leave", Inc(node[a], a), Now(a))
           n == StopProtocols(k)
           left == [node[a].members EXCEPT ![a].status = "leave"]
<1>1. /\ a \in up /\ node[a].ready /\ node[a].members[a].status # "leave"
      /\ SetNode(a, n) /\ up' = up /\ answers' = answers /\ asked' = asked /\ wire' = wire
  BY DEF AdminLeave, joins
<1>2. /\ CInv /\ CInv' /\ DOMAIN node = Addr /\ clock \in [Addr -> Nat] /\ up \subseteq Addr
      /\ NodeInv(a, node[a], clock[a]) /\ HasMember(node[a], a)
      /\ node[a].members[a].inc = clock[a] /\ IsMap(node[a].members, Record)
  BY <1>1 DEF VInv, WInv, CInv, NodesOwned, NodeOwned, NodeInv, IsNode, UpKnown, OwnClocks
<1>3. k.members = left /\ k.stash = node[a].stash /\ k \in NodeShape(k)
  BY <1>1, <1>2, LeaveMembers
<1> HIDE DEF k
<1>4. n.members = left /\ n.stash = node[a].stash
  BY <1>3 DEF NodeShape, StopProtocols
<1> HIDE DEF n
<1>5. /\ DOMAIN left = DOMAIN node[a].members
      /\ left[a] = [status |-> "leave", inc |-> clock[a]]
      /\ \A x \in DOMAIN left \ {a} : left[x] = node[a].members[x]
  BY <1>2 DEF IsMap, Record, HasMember
<1> HIDE DEF left
<1>6. /\ node'[a] = n /\ \A x \in Addr \ {a} : node'[x] = node[x]
      /\ clock' = clock
  <2>1. ClockOf(a, n) = clock[a]
    BY <1>4, <1>5 DEF ClockOf, Inc
  <2>2. node' = [node EXCEPT ![a] = n] /\ clock' = [clock EXCEPT ![a] = clock[a]]
    BY <1>1, <1>2, <2>1 DEF SetNode
  <2> QED BY <1>2, <2>2
<1>7. OwnClocks'
  BY <1>1, <1>2, <1>4, <1>5, <1>6 DEF VInv, OwnClocks
<1>8. /\ NotLeft \in [Addr -> Nat] /\ NotLeft'[a] = clock[a] + 1
      /\ NotLeft[a] <= clock[a] + 1
      /\ \A x \in Addr \ {a} : NotLeft'[x] = NotLeft[x]
  <2>1. NotLeft \in [Addr -> Nat] /\ NotLeft[a] <= clock[a] + 1
    BY <1>2, NotLeftType
  <2> QED BY <1>1, <1>4, <1>5, <1>6, <2>1 DEF NotLeft
<1>9. \A x \in Addr : NotLeft[x] <= NotLeft'[x]
  BY <1>2, <1>8
<1>10. NodeTells(node'[a], NotLeft')
  <2>1. /\ Tells(node[a].members, NotLeft) /\ Tells(node[a].stash, NotLeft)
        /\ IsMap(node[a].stash, Change) /\ a \notin DOMAIN node[a].stash
    BY <1>2 DEF VInv, NothingUntold, NodeTells, NodeInv, IsNode
  <2>2. Tells(left, NotLeft')
    <3> SUFFICES ASSUME NEW x \in DOMAIN left, left[x].status = "leave"
                 PROVE  left[x].inc < NotLeft'[x]
      BY DEF Tells
    <3>1. CASE x = a
      BY <1>2, <1>5, <1>8, <3>1
    <3>2. CASE x # a
      BY <1>2, <1>5, <1>8, <2>1, <3>2 DEF Tells, IsMap
    <3> QED BY <3>1, <3>2
  <2>3. Tells(node[a].stash, NotLeft')
    BY <1>8, <2>1 DEF Tells, IsMap
  <2> QED BY <1>4, <1>6, <2>2, <2>3 DEF NodeTells
<1>11. NothingUntold'
  <2>1. \A x \in Addr : NodeTells(node'[x], NotLeft) \/ NodeTells(node'[x], NotLeft')
    BY <1>6, <1>10 DEF VInv, NothingUntold
  <2>2. \A x \in Addr : Tells(answers'[x], NotLeft)
    BY <1>1 DEF VInv, NothingUntold
  <2>3. \A m \in wire' : Tells(m.changes, NotLeft)
    BY <1>1 DEF VInv, NothingUntold
  <2> QED BY <1>2, <1>9, <2>1, <2>2, <2>3, ToldOn
<1>12. Views!Leave(a)
  BY <1>1, <1>4, <1>6 DEF Views!Leave, left
<1> QED BY <1>1, <1>7, <1>11, <1>12, RelaysKept DEF VInv

LEMMA CrashCrashes ==
  ASSUME VInv, WInv', NEW a \in Addr, Crash(a)
  PROVE  VInv' /\ Views!Crash(a)
<1>1. /\ a \in up /\ up' = up \ {a} /\ clock' = clock /\ wire' = WireAfterCrash(a)
      /\ node' = [node EXCEPT ![a] = NewNode]
      /\ answers' = [answers EXCEPT ![a] = NoMap]
      /\ asked' = [p \in Addr |-> IF p = a THEN NoMap
                                  ELSE [x \in DOMAIN asked[p] \ {a} |-> asked[p][x]]]
  BY DEF Crash
<1>2. /\ CInv /\ CInv' /\ DOMAIN node = Addr /\ clock \in [Addr -> Nat]
      /\ up \subseteq Addr /\ DOMAIN answers = Addr
  BY DEF VInv, WInv, CInv, NodesOwned, UpKnown, AnswersOwned
<1>3. node'[a] = NewNode /\ \A x \in Addr \ {a} : node'[x] = node[x]
  BY <1>1, <1>2
<1>4. OwnClocks'
  BY <1>1, <1>2, <1>3 DEF VInv, OwnClocks
<1>5. RelaysRun'
  BY <1>1 DEF VInv, RelaysRun, NoMap
<1>6. \A x \in Addr : NotLeft[x] <= NotLeft'[x]
  BY <1>1, <1>2, <1>3 DEF NotLeft
<1>7. Tells(NoMap, NotLeft)
  BY DEF Tells, NoMap
<1>8. \A x \in Addr : NodeTells(node'[x], NotLeft)
  <2>1. NodeTells(NewNode, NotLeft)
    BY <1>7 DEF NodeTells, NewNode
  <2> QED BY <1>3, <2>1 DEF VInv, NothingUntold
<1>9. \A x \in Addr : Tells(answers'[x], NotLeft)
  BY <1>1, <1>2, <1>7 DEF VInv, NothingUntold
<1>10. \A m \in wire' : Tells(m.changes, NotLeft)
  <2>1. \A m \in wire : [m EXCEPT !.late = TRUE].changes = m.changes
    BY DEF VInv, WInv, CInv, WireOwned, IsMessage
  <2> QED BY <1>1, <2>1 DEF WireAfterCrash, VInv, NothingUntold
<1>11. NothingUntold'
  BY <1>2, <1>6, <1>8, <1>9, <1>10, ToldOn
<1>12. Views!Crash(a)
  <2>1. node'[a].members = [b \in {} |-> 0]
    BY <1>3 DEF NewNode, NoMap
  <2>2. [x \in Addr |-> node'[x].members]
          = [[x \in Addr |-> node[x].members] EXCEPT ![a] = [b \in {} |-> 0]]
    BY <1>3, <2>1
  <2> QED BY <1>1, <2>2 DEF Views!Crash
<1> QED BY <1>4, <1>5, <1>11, <1>12 DEF VInv

\* The first call of a new process.
LEMMA FirstMembers ==
  ASSUME NEW a \in Addr, NEW t
  PROVE  LET n == MakeUpdate(a, NewNode, a, "alive", t, t)
         IN  n.members = [x \in {a} |-> Alive(t)] /\ n.stash = NoMap
<1> DEFINE b == MakeBatch(a, NewNode, a, "alive", t)
           u == Updates(a, NewNode.members, b, t)
           n == MakeUpdate(a, NewNode, a, "alive", t, t)
<1>1. NewNode \in NodeShape(NewNode) /\ NewNode.members = NoMap /\ NewNode.stash = NoMap
  BY DEF NewNode, NodeShape
<1>2. /\ DOMAIN b = {a} /\ b[a].status = "alive" /\ b[a].inc = t
      /\ n = Apply(a, NewNode, b, t)
  BY DEF MakeBatch, MakeUpdate
<1> HIDE DEF b
<1>3. u = [x \in {a} |-> b[x]]
  BY <1>1, <1>2 DEF Updates, Accepted, NoMap
<1>4. n.members = Overlay(NoMap, Records(u)) /\ n.stash = NoMap
  <2> HIDE DEF u, n
  <2> QED BY <1>1, <1>2 DEF NodeShape, Apply, u
<1> HIDE DEF u, n
<1>5. n.members = [x \in {a} |-> Alive(t)]
  BY <1>2, <1>3, <1>4 DEF Overlay, Records, RecordOf, Alive, NoMap
<1> QED BY <1>4, <1>5 DEF n

LEMMA RestartRestarts ==
  ASSUME VInv, WInv', NEW a \in Addr, Restart(a)
  PROVE  VInv' /\ Views!Restart(a)
<1> DEFINE n == MakeUpdate(a, NewNode, a, "alive", Now(a), Now(a))
<1>1. /\ a \notin up /\ up' = up \cup {a} /\ SetNode(a, n)
      /\ answers' = answers /\ asked' = asked /\ wire' = wire
  BY DEF Restart, joins
<1>2. /\ CInv /\ CInv' /\ DOMAIN node = Addr /\ clock \in [Addr -> Nat]
      /\ up \subseteq Addr /\ Now(a) = clock[a] + 1
  BY DEF VInv, WInv, CInv, NodesOwned, UpKnown, Now
<1>3. n.members = [x \in {a} |-> Alive(Now(a))] /\ n.stash = NoMap
  BY FirstMembers
<1> HIDE DEF n
<1>4. /\ node'[a] = n /\ \A x \in Addr \ {a} : node'[x] = node[x]
      /\ clock' = [clock EXCEPT ![a] = clock[a] + 1]
  <2>1. a \in DOMAIN n.members /\ n.members[a].inc = clock[a] + 1
    BY <1>2, <1>3 DEF Alive
  <2>2. clock[a] + 1 > clock[a]
    BY <1>2
  <2>3. ClockOf(a, n) = clock[a] + 1
    BY <2>1, <2>2 DEF ClockOf, HasMember, Inc
  <2> QED BY <1>1, <1>2, <2>3 DEF SetNode
<1>5. /\ clock'[a] = Now(a) /\ \A x \in Addr \ {a} : clock'[x] = clock[x]
      /\ n.members[a] = Alive(Now(a))
  BY <1>2, <1>3, <1>4
<1>6. OwnClocks'
  BY <1>1, <1>2, <1>4, <1>5 DEF VInv, OwnClocks, Alive
<1>7. RelaysRun'
  BY <1>1 DEF VInv, RelaysRun
<1>8. \A x \in Addr : NotLeft[x] <= NotLeft'[x]
  BY <1>1, <1>2, <1>4, <1>5 DEF NotLeft, Alive
<1>9. \A x \in Addr : NodeTells(node'[x], NotLeft)
  <2>1. NodeTells(n, NotLeft)
    BY <1>3 DEF NodeTells, Tells, Alive, NoMap
  <2> QED BY <1>4, <2>1 DEF VInv, NothingUntold
<1>10. NothingUntold'
  <2>1. \A x \in Addr : Tells(answers'[x], NotLeft)
    BY <1>1 DEF VInv, NothingUntold
  <2>2. \A m \in wire' : Tells(m.changes, NotLeft)
    BY <1>1 DEF VInv, NothingUntold
  <2> QED BY <1>2, <1>8, <1>9, <2>1, <2>2, ToldOn
<1>11. Views!Restart(a)
  <2>1. node'[a].members = [b \in {a} |-> Views!Alive(clock'[b])]
    BY <1>3, <1>4, <1>5 DEF Views!Alive, Alive
  <2>2. [x \in Addr |-> node'[x].members]
          = [[x \in Addr |-> node[x].members]
               EXCEPT ![a] = [b \in {a} |-> Views!Alive(clock'[b])]]
    BY <1>4, <2>1
  <2> QED BY <1>1, <1>4, <2>2 DEF Views!Restart
<1> QED BY <1>6, <1>7, <1>10, <1>11 DEF VInv

----------------------------------------------------------------------------
(* The refinement *)

LEMMA InitViews ==
  ASSUME Init
  PROVE  VInv /\ Views!Init
<1>1. WInv
  BY InitWInv
<1>2. /\ \A a \in Addr : node[a].members = [b \in Addr |-> Alive(1)] /\ node[a].stash = NoMap
      /\ clock = [a \in Addr |-> 1] /\ up = Addr
  BY DEF Init, Formed, NewNode, Alive
<1>3. OwnClocks /\ RelaysRun
  BY <1>2 DEF OwnClocks, RelaysRun, Alive
<1>4. NothingUntold
  BY <1>2 DEF Init, NothingUntold, NodeTells, Tells, Alive, NoMap
<1>5. Views!Init
  BY <1>2 DEF Views!Init, Views!Alive, Alive
<1> QED BY <1>1, <1>3, <1>4, <1>5 DEF VInv

LEMMA NextViews ==
  ASSUME VInv, [Next]_vars
  PROVE  VInv' /\ [Views!Next]_(Views!vars)
<1>1. WInv'
  BY NextWInv DEF VInv
<1>2. ASSUME NEW a \in Addr, NEW b \in Addr, SendPing(a, b) PROVE VInv' /\ Views!Learn
  BY <1>1, <1>2, SendPingLearns
<1>3. ASSUME NEW m \in wire, \/ HandlePing(m) \/ HandleAnswer(m) \/ HandlePingReq(m)
                            \/ RelayAnswered(m) \/ RelayFails(m) \/ HandleVerdict(m)
      PROVE  VInv' /\ Views!Learn
  BY <1>1, <1>3, HandlePingLearns, HandleAnswerLearns, HandlePingReqLearns,
     RelayAnsweredLearns, RelayFailsLearns, HandleVerdictLearns
<1>4. ASSUME NEW a \in Addr, PingFails(a) \/ PingReqUnanswered(a)
      PROVE  VInv' /\ Views!Learn
  BY <1>1, <1>4, PingFailsLearns, PingReqUnansweredLearns
<1>5. ASSUME NEW a \in Addr, NEW b \in Addr,
             SuspicionTimeout(a, b) \/ JoinAnswered(a, b) \/ JoinLost(a, b)
      PROVE  VInv' /\ Views!Learn
  BY <1>1, <1>5, SuspicionTimeoutLearns, JoinAnsweredLearns, JoinLostLearns
<1>6. ASSUME NEW a \in Addr, AdminJoin(a) PROVE VInv' /\ Views!Learn
  BY <1>1, <1>6, AdminJoinLearns
<1>7. ASSUME NEW a \in Addr, Crash(a) \/ Restart(a) \/ AdminLeave(a)
      PROVE  VInv' /\ (Views!Leave(a) \/ Views!Crash(a) \/ Views!Restart(a))
  BY <1>1, <1>7, AdminLeaveLeaves, CrashCrashes, RestartRestarts
<1>8. ASSUME UNCHANGED vars PROVE VInv' /\ UNCHANGED Views!vars
  <2>1. UNCHANGED <<node, up, clock, answers, asked, wire>>
    BY <1>8 DEF vars, joins
  <2>2. OwnClocks' /\ RelaysRun' /\ NothingUntold'
    BY <2>1 DEF VInv, OwnClocks, RelaysRun, NothingUntold, NodeTells, Tells, NotLeft
  <2> QED BY <1>1, <2>1, <2>2 DEF VInv, Views!vars
<1> QED BY <1>2, <1>3, <1>4, <1>5, <1>6, <1>7, <1>8
        DEF Next, Talk, Handle, Timeout, Join, Views!Next

\* However messages cross, get lost or come late, and whoever crashes, leaves
\* or comes back meanwhile, in a cluster of any size every step of a list
\* goes forward, and nobody is made to leave, or believed to have left, by
\* an old rumour, nor given an incarnation that it did not give itself.
THEOREM ImplementsViewsHolds == Spec => ImplementsViews
<1>1. Init => VInv /\ Views!Init
  BY InitViews
<1>2. VInv /\ [Next]_vars => VInv' /\ [Views!Next]_(Views!vars)
  BY NextViews
<1> QED BY <1>1, <1>2, PTL DEF Spec, ImplementsViews, Views!Spec

\* What RingpopNode assumes of the world around a node: the node lists
\* itself, and no changeset on its way asserts an incarnation of it that is
\* later than the one it lists, by whatever way and however late it comes.
EnvironmentIsConsistent ==
  \A a \in up :
    /\ HasMember(node[a], a)
    /\ \A m \in wire : a \in DOMAIN m.changes => m.changes[a].inc <= Inc(node[a], a)

\* The nodes of a cluster are to one another the environment that RingpopNode
\* assumes (Deliverable), so that what is proved of one node in that
\* environment speaks of the nodes of a cluster.
THEOREM EnvironmentIsConsistentHolds == Spec => []EnvironmentIsConsistent
<1>1. VInv => EnvironmentIsConsistent
  <2> SUFFICES ASSUME VInv, NEW a \in up
               PROVE  /\ HasMember(node[a], a)
                      /\ \A m \in wire : a \in DOMAIN m.changes =>
                           m.changes[a].inc <= Inc(node[a], a)
    BY DEF EnvironmentIsConsistent
  <2>1. HasMember(node[a], a)
    BY DEF VInv, WInv, CInv, UpKnown
  <2>2. \A m \in wire : a \in DOMAIN m.changes => m.changes[a].inc <= clock[a]
    BY DEF VInv, WInv, CInv, WireOwned, IsMessage, IsBatch, IsBounded
  <2>3. Inc(node[a], a) = clock[a]
    BY DEF VInv, OwnClocks, Inc
  <2> QED BY <2>1, <2>2, <2>3
<1>2. Init => VInv
  BY InitViews
<1>3. VInv /\ [Next]_vars => VInv'
  BY NextViews
<1> QED BY <1>1, <1>2, <1>3, PTL DEF Spec
=============================================================================
