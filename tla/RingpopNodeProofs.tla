------------------------- MODULE RingpopNodeProofs -------------------------
(***************************************************************************)
(* The safety properties of RingpopNode hold for any number of addresses,  *)
(* any changesets and any clock.                                           *)
(***************************************************************************)
EXTENDS RingpopNode, NodeStateProofs

\* The inductive invariant.  Besides what every node keeps it says that a
\* bootstrap whose join is outstanding has added the local member and has not
\* ended otherwise, and that destroy() stopped both subprotocols for good.
IInv ==
  /\ TypeOK
  /\ NodeInv(Self, node, now)
  /\ joining => HasMember(node, Self) /\ ~node.ready
  /\ destroyed => ~node.gossiping /\ node.stoppedAll

\* What a step does to the membership list and the suspect periods.
Moves == OnlyForward(Self, node, node') /\ PeriodsKept(node, node')

LEMMA InitInv == Init => IInv
<1> SUFFICES ASSUME Init PROVE IInv
  OBVIOUS
<1>1. /\ node \in NodeShape(node) /\ node.ready = FALSE /\ node.members = NoMap
      /\ node.stash = NoMap /\ node.timers = NoMap /\ node.stoppedAll = FALSE
      /\ node.ring = {} /\ node.changes = NoMap /\ node.maxCount = 1
      /\ node.gossiping = FALSE
  BY DEF Init, NewNode, NodeShape
<1>2. DOMAIN NoMap = {}
  BY DEF NoMap
<1>3. /\ IsMap(NoMap, Record) /\ IsMap(NoMap, Change)
      /\ IsMap(NoMap, Nat) /\ IsMap(NoMap, Rumor)
  <2>1. /\ NoMap \in [DOMAIN NoMap -> Record] /\ NoMap \in [DOMAIN NoMap -> Change]
        /\ NoMap \in [DOMAIN NoMap -> Nat] /\ NoMap \in [DOMAIN NoMap -> Rumor]
    BY <1>2 DEF NoMap
  <2>2. DOMAIN NoMap \subseteq Addr
    BY <1>2
  <2> QED BY <2>1, <2>2 DEF IsMap
<1>4. IsNode(node)
  <2>1. node.ready \in BOOLEAN /\ node.stoppedAll \in BOOLEAN /\ node.gossiping \in BOOLEAN
    BY <1>1
  <2>2. /\ IsMap(node.members, Record) /\ IsMap(node.stash, Change)
        /\ IsMap(node.timers, Nat) /\ IsMap(node.changes, Rumor)
    BY <1>1, <1>3
  <2>3. node.ring \subseteq Addr /\ node.maxCount \in Nat
    BY <1>1
  <2> QED BY <1>1, <2>1, <2>2, <2>3 DEF IsNode
<1>5. NodeInv(Self, node, now)
  BY <1>1, <1>2, <1>4 DEF NodeInv, LocalMemberIsSound, TimersAreSound, RingIsSound,
                          RumoursAreSound, HasMember
<1> QED BY <1>4, <1>5 DEF Init, IInv, TypeOK

\* The facts about a deliverable changeset that the lemmas ask for.
LEMMA DeliverableBatch ==
  ASSUME IInv, NEW b \in Deliverable
  PROVE  IsMap(b, Change) /\ (Self \in DOMAIN b => b[Self].inc <= now)
<1>1. IsMap(b, Change)
  BY BatchesAssumption DEF Deliverable
<1>2. ASSUME Self \in DOMAIN b PROVE b[Self].inc <= now
  <2>1. b[Self].inc \in Nat /\ now \in Nat
    BY <1>1, <1>2 DEF IsMap, Change, IInv, TypeOK
  <2>2. CASE HasMember(node, Self)
    <3>1. node.members[Self].inc \in Nat
      BY <2>2 DEF IInv, TypeOK, IsNode, IsMap, HasMember, Record
    <3>2. node.members[Self].inc <= now
      BY <2>2 DEF IInv, NodeInv, LocalMemberIsSound
    <3>3. b[Self].inc <= node.members[Self].inc
      BY <2>2, <1>2 DEF Deliverable
    <3> QED BY <2>1, <3>1, <3>2, <3>3
  <2>3. CASE ~HasMember(node, Self)
    BY <2>3, <1>2 DEF Deliverable
  <2> QED BY <2>2, <2>3
<1> QED BY <1>1, <1>2

\* A call that keeps the node as NodeStateProofs says, and neither begins nor
\* ends a bootstrap nor revives a destroyed node.
LEMMA CallInv ==
  ASSUME IInv, NodeInv(Self, node', now), Keeps(Self, node, node'),
         UNCHANGED <<joining, destroyed, now>>, rejoining' \in BOOLEAN
  PROVE  IInv' /\ Moves
<1>1. HasMember(node, Self) => HasMember(node', Self)
  BY DEF Keeps, OnlyForward, HasMember
<1>2. TypeOK'
  BY DEF IInv, TypeOK, NodeInv
<1>3. NodeInv(Self, node, now)'
  BY DEF NodeInv, IsNode, LocalMemberIsSound, TimersAreSound, RingIsSound,
         RumoursAreSound, HasMember, NodeShape
<1>4. (joining => HasMember(node, Self) /\ ~node.ready)'
  BY <1>1 DEF IInv, Keeps, HasMember
<1>5. (destroyed => ~node.gossiping /\ node.stoppedAll)'
  BY DEF IInv, Keeps
<1> QED BY <1>2, <1>3, <1>4, <1>5 DEF IInv, Moves, Keeps

\* issueAsReceiver keeps the filtered entries, which are entries.
LEMMA IssueInv ==
  ASSUME NEW n, NodeInv(Self, n, now), now \in Nat, NEW s, NEW i
  PROVE  /\ NodeInv(Self, IssueAsReceiver(n, s, i), now)
         /\ Keeps(Self, n, IssueAsReceiver(n, s, i))
         /\ NodeInv(Self, IssueAsSender(n), now)
         /\ Keeps(Self, n, IssueAsSender(n))
<1>1. FilteredFor(n, s, i) \in SUBSET DOMAIN n.changes
  BY DEF FilteredFor
<1>2. {} \in SUBSET DOMAIN n.changes
  OBVIOUS
<1>3. /\ NodeInv(Self, AfterIssue(n, FilteredFor(n, s, i)), now)
      /\ Keeps(Self, n, AfterIssue(n, FilteredFor(n, s, i)))
  BY <1>1, AfterIssueInv, AfterIssueKeeps
<1>4. /\ NodeInv(Self, AfterIssue(n, {}), now)
      /\ Keeps(Self, n, AfterIssue(n, {}))
  BY <1>2, AfterIssueInv, AfterIssueKeeps
<1> QED BY <1>3, <1>4 DEF IssueAsReceiver, IssueAsSender

\* Two calls that keep the node, one after the other.
LEMMA TwoCalls ==
  ASSUME NEW n, NEW m, NEW k, NodeInv(Self, n, now), NodeInv(Self, m, now),
         NodeInv(Self, k, now), Keeps(Self, n, m), Keeps(Self, m, k)
  PROVE  Keeps(Self, n, k)
<1>1. /\ IsMap(n.members, Record) /\ IsMap(m.members, Record)
      /\ IsMap(k.members, Record)
  BY DEF NodeInv, IsNode
<1>2. OnlyForward(Self, m, k) /\ PeriodsKept(m, k)
  BY DEF Keeps
<1>3. OnlyForward(Self, n, k) /\ PeriodsKept(n, k)
  BY <1>1, <1>2, KeepsThen
<1> QED BY <1>3 DEF Keeps

\* Every step of the node preserves the invariant, moves the membership list
\* only forward and loses no suspect period.
LEMMA StepInv ==
  ASSUME IInv, [Next]_vars
  PROVE  IInv' /\ Moves
<1> USE SelfAssumption
<1>1. /\ NodeInv(Self, node, now) /\ now \in Nat /\ TypeOK
      /\ IsMap(node.members, Record) /\ node \in NodeShape(node)
  BY DEF IInv, TypeOK, NodeInv, IsNode
<1>2. OnlyForward(Self, node, node) /\ PeriodsKept(node, node)
  BY <1>1, SameKeeps
<1>2a. Keeps(Self, node, node)
  BY <1>2 DEF Keeps
<1>3. ASSUME NEW b \in Deliverable
      PROVE  /\ NodeInv(Self, Update(Self, node, b, now), now)
             /\ Keeps(Self, node, Update(Self, node, b, now))
  <2>1. IsMap(b, Change) /\ (Self \in DOMAIN b => b[Self].inc <= now)
    BY DeliverableBatch
  <2>2. NodeInv(Self, Update(Self, node, b, now), now)
    BY <1>1, <2>1, UpdateInv
  <2>3. Keeps(Self, node, Update(Self, node, b, now))
    BY <1>1, <2>1, UpdateKeeps
  <2> QED BY <2>2, <2>3
<1>4. ASSUME NEW a \in Addr, NEW st \in Status, NEW inc \in Nat, a = Self => inc <= now
      PROVE  /\ NodeInv(Self, MakeUpdate(Self, node, a, st, inc, now), now)
             /\ Keeps(Self, node, MakeUpdate(Self, node, a, st, inc, now))
  <2>1. NodeInv(Self, MakeUpdate(Self, node, a, st, inc, now), now)
    BY <1>1, <1>4, MakeUpdateInv
  <2>2. Keeps(Self, node, MakeUpdate(Self, node, a, st, inc, now))
    BY <1>1, <1>4, MakeUpdateKeeps
  <2> QED BY <2>1, <2>2
<1>5. CASE Bootstrap
  <2> DEFINE m == MakeUpdate(Self, node, Self, "alive", now, now)
  <2>1. NodeInv(Self, m, now) /\ Keeps(Self, node, m)
    <3>1. "alive" \in Status
      BY DEF Status
    <3>2. now <= now
      BY <1>1
    <3> QED BY <1>1, <1>4, <3>1, <3>2
  <2>2. HasMember(m, Self)
    BY <1>1, MakeAliveAdds
  <2> HIDE DEF m
  <2>3. node' = m /\ ~node.ready /\ joining' /\ UNCHANGED <<rejoining, destroyed, now>>
    BY <1>5 DEF Bootstrap, m
  <2>4. joining' \in BOOLEAN
    BY <1>5 DEF Bootstrap
  <2>5. TypeOK'
    BY <1>1, <2>1, <2>3, <2>4 DEF TypeOK, NodeInv
  <2>6. NodeInv(Self, node, now)'
    BY <2>1, <2>3 DEF NodeInv, IsNode, NodeShape, LocalMemberIsSound, TimersAreSound,
                      RingIsSound, RumoursAreSound, HasMember
  <2>7. HasMember(node, Self)' /\ ~node'.ready
    BY <2>1, <2>2, <2>3 DEF HasMember, Keeps
  <2>8. (destroyed => ~node.gossiping /\ node.stoppedAll)'
    BY <2>1, <2>3 DEF IInv, Keeps
  <2>9. Moves
    BY <2>1, <2>3 DEF Moves, Keeps
  <2> QED BY <2>5, <2>6, <2>7, <2>8, <2>9 DEF IInv
<1>6. ASSUME NEW b \in Deliverable, JoinComplete(b)
      PROVE  IInv' /\ Moves
  <2> DEFINE m == Update(Self, node, b, now)
             k == BecomeReady(Self, m)
  <2>1. NodeInv(Self, m, now) /\ Keeps(Self, node, m)
    BY <1>3
  <2> HIDE DEF m
  <2>2. ~m.ready /\ HasMember(m, Self)
    BY <1>6, <2>1 DEF JoinComplete, IInv, Keeps, OnlyForward, HasMember
  <2>3. NodeInv(Self, k, now)
    BY <1>1, <2>1, <2>2, BecomeReadyInv
  <2>4. OnlyForward(Self, m, k) /\ PeriodsKept(m, k)
    BY <1>1, <2>1, <2>2, BecomeReadyKeeps
  <2> HIDE DEF k
  <2>5. /\ node' = k /\ joining' = FALSE /\ destroyed = FALSE
        /\ UNCHANGED <<rejoining, destroyed, now>>
    BY <1>1, <1>6 DEF JoinComplete, k, m, TypeOK
  <2>6. TypeOK'
    BY <1>1, <2>3, <2>5 DEF TypeOK, NodeInv
  <2>7. NodeInv(Self, node, now)'
    BY <2>3, <2>5 DEF NodeInv, IsNode, NodeShape, LocalMemberIsSound, TimersAreSound,
                      RingIsSound, RumoursAreSound, HasMember
  <2>8. Moves
    <3>1. IsMap(m.members, Record) /\ IsMap(k.members, Record)
      BY <2>1, <2>3 DEF NodeInv, IsNode
    <3>2. OnlyForward(Self, node, k) /\ PeriodsKept(node, k)
      BY <1>1, <2>1, <2>4, <3>1, KeepsThen
    <3> QED BY <2>5, <3>2 DEF Moves
  <2> QED BY <2>5, <2>6, <2>7, <2>8 DEF IInv
<1>7. CASE JoinFail
  BY <1>2, <1>7 DEF JoinFail, IInv, TypeOK, NodeInv, IsNode, NodeShape,
     LocalMemberIsSound, TimersAreSound, RingIsSound, RumoursAreSound, HasMember, Moves
<1>8. CASE Destroy
  <2> DEFINE m == StopProtocols(node)
  <2>1. NodeInv(Self, m, now)
    BY <1>1, StopProtocolsInv
  <2>2. /\ m.members = node.members /\ m.ready = node.ready /\ m.stoppedAll = TRUE
        /\ m.gossiping = FALSE
    BY <1>1 DEF StopProtocols, NodeShape
  <2> HIDE DEF m
  <2>3. OnlyForward(Self, node, m) /\ PeriodsKept(node, m)
    BY <1>1, <1>2a, <2>2, KeepsThenSame
  <2>4. node' = m /\ destroyed' = TRUE /\ UNCHANGED <<joining, rejoining, now>>
    BY <1>8 DEF Destroy, m
  <2>5. TypeOK'
    BY <1>1, <2>1, <2>4 DEF TypeOK, NodeInv
  <2>6. NodeInv(Self, node, now)'
    BY <2>1, <2>4 DEF NodeInv, IsNode, NodeShape, LocalMemberIsSound, TimersAreSound,
                      RingIsSound, RumoursAreSound, HasMember
  <2>7. (joining => HasMember(node, Self) /\ ~node.ready)'
    BY <2>2, <2>4 DEF IInv, HasMember
  <2> QED BY <2>2, <2>3, <2>4, <2>5, <2>6, <2>7 DEF IInv, Moves
<1>9. CASE Tick
  <2>1. NodeInv(Self, node, now + 1)
    BY <1>1, LaterInv
  <2>2. now' = now + 1 /\ UNCHANGED <<node, joining, rejoining, destroyed>>
    BY <1>9 DEF Tick
  <2>3. NodeInv(Self, node, now)'
    BY <2>1, <2>2 DEF NodeInv, IsNode, NodeShape, LocalMemberIsSound, TimersAreSound,
                      RingIsSound, RumoursAreSound, HasMember
  <2>4. TypeOK'
    BY <1>1, <2>2, <2>3 DEF TypeOK, NodeInv
  <2> QED BY <1>2, <2>2, <2>3, <2>4 DEF IInv, Moves, HasMember
<1>10. ASSUME NEW b \in Deliverable, ReceiveResponse(b)
       PROVE  IInv' /\ Moves
  <2>1. node' = Update(Self, node, b, now) /\ UNCHANGED <<joining, rejoining, destroyed, now>>
    BY <1>10 DEF ReceiveResponse
  <2>2. NodeInv(Self, node', now) /\ Keeps(Self, node, node') /\ rejoining' \in BOOLEAN
    BY <1>1, <1>3, <2>1 DEF TypeOK
  <2> QED BY <2>1, <2>2, CallInv
<1>11. ASSUME NEW b \in Deliverable, NEW s \in Others, NEW i \in Times, ReceivePing(b, s, i)
       PROVE  IInv' /\ Moves
  <2> DEFINE m == Update(Self, node, b, now)
             k == IssueAsReceiver(m, s, i)
  <2>1. NodeInv(Self, m, now) /\ Keeps(Self, node, m)
    BY <1>3
  <2> HIDE DEF m
  <2>2. NodeInv(Self, k, now) /\ Keeps(Self, m, k)
    BY <1>1, <2>1, IssueInv
  <2> HIDE DEF k
  <2>3. Keeps(Self, node, k)
    BY <1>1, <2>1, <2>2, TwoCalls
  <2>4. node' = k /\ UNCHANGED <<joining, rejoining, destroyed, now>>
    BY <1>11 DEF ReceivePing, k, m
  <2> QED BY <1>1, <2>2, <2>3, <2>4, CallInv DEF TypeOK
<1>12. ASSUME NEW b \in Deliverable, ReceivePingReq(b)
       PROVE  IInv' /\ Moves
  <2> DEFINE m == Update(Self, node, b, now)
             k == IssueAsSender(m)
  <2>1. NodeInv(Self, m, now) /\ Keeps(Self, node, m)
    BY <1>3
  <2> HIDE DEF m
  <2>2. NodeInv(Self, k, now) /\ Keeps(Self, m, k)
    BY <1>1, <2>1, IssueInv
  <2> HIDE DEF k
  <2>3. Keeps(Self, node, k)
    BY <1>1, <2>1, <2>2, TwoCalls
  <2>4. node' = k /\ UNCHANGED <<joining, rejoining, destroyed, now>>
    BY <1>12 DEF ReceivePingReq, k, m
  <2> QED BY <1>1, <2>2, <2>3, <2>4, CallInv DEF TypeOK
<1>13. CASE SendPing
  <2>1. NodeInv(Self, IssueAsSender(node), now) /\ Keeps(Self, node, IssueAsSender(node))
    BY <1>1, IssueInv
  <2>2. node' = IssueAsSender(node) /\ UNCHANGED <<joining, rejoining, destroyed, now>>
    BY <1>13 DEF SendPing
  <2> QED BY <1>1, <2>1, <2>2, CallInv DEF TypeOK
<1>14. ASSUME NEW a \in Addr, NEW i \in Times, ReceiveJoin(a, i)
       PROVE  IInv' /\ Moves
  <2>1. node' = MakeUpdate(Self, node, a, "alive", i, now) /\ a # Self
        /\ UNCHANGED <<joining, rejoining, destroyed, now>>
    BY <1>14 DEF ReceiveJoin
  <2>2. "alive" \in Status /\ i \in Nat
    BY TimeAssumption DEF Status, Times
  <2>3. NodeInv(Self, node', now) /\ Keeps(Self, node, node')
    BY <1>4, <2>1, <2>2
  <2> QED BY <1>1, <2>1, <2>3, CallInv DEF TypeOK
<1>15. ASSUME NEW a \in Addr, SuspectMember(a)
       PROVE  IInv' /\ Moves
  <2>1. node' = MakeUpdate(Self, node, a, "suspect", node.members[a].inc, now) /\ a # Self
        /\ HasMember(node, a) /\ UNCHANGED <<joining, rejoining, destroyed, now>>
    BY <1>15 DEF SuspectMember
  <2>2. "suspect" \in Status /\ node.members[a].inc \in Nat
    BY <1>1, <2>1 DEF Status, IsMap, HasMember, Record
  <2>3. NodeInv(Self, node', now) /\ Keeps(Self, node, node')
    BY <1>4, <2>1, <2>2
  <2> QED BY <1>1, <2>1, <2>3, CallInv DEF TypeOK
<1>16. ASSUME NEW a \in Addr, SuspicionTimeout(a)
       PROVE  IInv' /\ Moves
  <2>1. node' = MakeUpdate(Self, node, a, "faulty", node.timers[a], now)
        /\ a \in DOMAIN node.timers /\ UNCHANGED <<joining, rejoining, destroyed, now>>
    BY <1>16 DEF SuspicionTimeout
  <2>2. "faulty" \in Status /\ node.timers[a] \in Nat /\ a # Self
    BY <1>1, <2>1 DEF Status, NodeInv, IsNode, IsMap, TimersAreSound
  <2>3. NodeInv(Self, node', now) /\ Keeps(Self, node, node')
    BY <1>4, <2>1, <2>2
  <2> QED BY <1>1, <2>1, <2>3, CallInv DEF TypeOK
<1>17. CASE AdminLeave
  <2> DEFINE m == MakeUpdate(Self, node, Self, "leave", node.members[Self].inc, now)
             k == StopProtocols(m)
  <2>0. /\ node' = k /\ HasMember(node, Self) /\ ~destroyed
        /\ UNCHANGED <<joining, rejoining, destroyed, now>>
    BY <1>17 DEF AdminLeave
  <2>1. NodeInv(Self, m, now) /\ Keeps(Self, node, m)
    <3>1. "leave" \in Status /\ node.members[Self].inc \in Nat
      BY <1>1, <2>0 DEF Status, IsMap, HasMember, Record
    <3>2. node.members[Self].inc <= now
      BY <1>1, <2>0 DEF NodeInv, LocalMemberIsSound
    <3> QED BY <1>4, <3>1, <3>2
  <2> HIDE DEF m
  <2>2. NodeInv(Self, k, now)
    BY <1>1, <2>1, StopProtocolsInv
  <2>3. k.members = m.members /\ k.ready = m.ready /\ k.stoppedAll = TRUE
    BY <2>1 DEF StopProtocols, NodeInv, IsNode, NodeShape
  <2> HIDE DEF k
  <2>4. OnlyForward(Self, node, k) /\ PeriodsKept(node, k)
    <3>1. IsMap(m.members, Record)
      BY <2>1 DEF NodeInv, IsNode
    <3> QED BY <1>1, <2>1, <2>3, <3>1, KeepsThenSame
  <2>5. HasMember(k, Self) /\ k.ready = node.ready
    BY <2>0, <2>1, <2>3, <2>4 DEF OnlyForward, HasMember, Keeps
  <2>6. TypeOK'
    BY <1>1, <2>0, <2>2 DEF TypeOK, NodeInv
  <2>7. NodeInv(Self, node, now)'
    BY <2>0, <2>2 DEF NodeInv, IsNode, NodeShape, LocalMemberIsSound, TimersAreSound,
                      RingIsSound, RumoursAreSound, HasMember
  <2> QED BY <2>0, <2>4, <2>5, <2>6, <2>7 DEF IInv, Moves, HasMember
<1>18. CASE AdminJoin
  <2>1. CASE node.members[Self].status = "leave"
    <3> DEFINE m == MakeUpdate(Self, node, Self, "alive", now, now)
               g == StartGossip(m)
               k == Reenable(g)
    <3>0. /\ node' = k /\ ~destroyed /\ UNCHANGED <<joining, rejoining, destroyed, now>>
          /\ HasMember(node, Self)
      BY <1>18, <2>1 DEF AdminJoin
    <3>1. NodeInv(Self, m, now) /\ Keeps(Self, node, m)
      <4>1. "alive" \in Status /\ now <= now
        BY <1>1 DEF Status
      <4> QED BY <1>1, <1>4, <4>1
    <3> HIDE DEF m
    <3>2. NodeInv(Self, g, now)
      BY <1>1, <3>1, StartGossipInv
    <3>3. NodeInv(Self, k, now)
      <4> HIDE DEF g
      <4> QED BY <1>1, <3>2, ReenableInv
    <3>4. k.members = m.members /\ k.ready = m.ready /\ k.timers = m.timers
      BY <3>1 DEF StartGossip, Reenable, NodeInv, IsNode, NodeShape
    <3> HIDE DEF k
    <3>5. OnlyForward(Self, node, k) /\ PeriodsKept(node, k)
      <4>1. IsMap(m.members, Record)
        BY <3>1 DEF NodeInv, IsNode
      <4> QED BY <1>1, <3>1, <3>4, <4>1, KeepsThenSame
    <3>6. HasMember(k, Self) /\ k.ready = node.ready
      BY <3>0, <3>1, <3>4, <3>5 DEF OnlyForward, HasMember, Keeps
    <3>7. TypeOK'
      BY <1>1, <3>0, <3>3 DEF TypeOK, NodeInv
    <3>8. NodeInv(Self, node, now)'
      BY <3>0, <3>3 DEF NodeInv, IsNode, NodeShape, LocalMemberIsSound, TimersAreSound,
                        RingIsSound, RumoursAreSound, HasMember
    <3> QED BY <3>0, <3>5, <3>6, <3>7, <3>8 DEF IInv, Moves, HasMember
  <2>2. CASE node.members[Self].status # "leave"
    <3>1. node' = node /\ rejoining' = TRUE /\ UNCHANGED <<joining, destroyed, now>>
      BY <1>18, <2>2 DEF AdminJoin
    <3>2. NodeInv(Self, node', now) /\ Keeps(Self, node, node') /\ rejoining' \in BOOLEAN
      BY <1>1, <1>2a, <3>1
    <3> QED BY <3>1, <3>2, CallInv
  <2> QED BY <2>1, <2>2
<1>19. ASSUME NEW b \in Deliverable, AdminJoinComplete(b)
       PROVE  IInv' /\ Moves
  <2>1. node' = Update(Self, node, b, now) /\ rejoining' = FALSE
        /\ UNCHANGED <<joining, destroyed, now>>
    BY <1>19 DEF AdminJoinComplete
  <2>2. NodeInv(Self, node', now) /\ Keeps(Self, node, node') /\ rejoining' \in BOOLEAN
    BY <1>3, <2>1
  <2> QED BY <2>1, <2>2, CallInv
<1>20. CASE AdminJoinFail
  <2>1. node' = node /\ rejoining' \in BOOLEAN /\ UNCHANGED <<joining, destroyed, now>>
    BY <1>20 DEF AdminJoinFail
  <2>2. NodeInv(Self, node', now) /\ Keeps(Self, node, node')
    BY <1>1, <1>2a, <2>1
  <2> QED BY <2>1, <2>2, CallInv
<1>21. CASE AdminGossip
  <2> DEFINE m == StartGossip(node)
  <2>1. NodeInv(Self, m, now)
    BY <1>1, StartGossipInv
  <2>2. /\ m.members = node.members /\ m.ready = node.ready /\ m.timers = node.timers
    BY <1>1 DEF StartGossip, NodeShape
  <2> HIDE DEF m
  <2>3. OnlyForward(Self, node, m) /\ PeriodsKept(node, m)
    BY <1>1, <1>2a, <2>2, KeepsThenSame
  <2>4. node' = m /\ ~destroyed /\ UNCHANGED <<joining, rejoining, destroyed, now>>
    BY <1>21 DEF AdminGossip, m
  <2>5. TypeOK'
    BY <1>1, <2>1, <2>4 DEF TypeOK, NodeInv
  <2>6. NodeInv(Self, node, now)'
    BY <2>1, <2>4 DEF NodeInv, IsNode, NodeShape, LocalMemberIsSound, TimersAreSound,
                      RingIsSound, RumoursAreSound, HasMember
  <2> QED BY <2>2, <2>3, <2>4, <2>5, <2>6 DEF IInv, Moves, HasMember
<1>22. CASE UNCHANGED vars
  <2>1. UNCHANGED <<node, joining, rejoining, destroyed, now>>
    BY <1>22 DEF vars
  <2>2. NodeInv(Self, node', now) /\ Keeps(Self, node, node')
    BY <1>1, <1>2a, <2>1
  <2>3. rejoining' \in BOOLEAN
    BY <1>1, <2>1 DEF TypeOK
  <2> QED BY <2>1, <2>2, <2>3, CallInv
<1> QED
  BY <1>5, <1>6, <1>7, <1>8, <1>9, <1>10, <1>11, <1>12, <1>13, <1>14, <1>15,
     <1>16, <1>17, <1>18, <1>19, <1>20, <1>21, <1>22 DEF Next

----------------------------------------------------------------------------
(* What a call makes of each member *)

\* Of peer a, node m knows what node n knew, and has it where n had it.
PeerKept(n, m, a) ==
  /\ a \in DOMAIN m.members <=> a \in DOMAIN n.members
  /\ a \in DOMAIN n.members => m.members[a] = n.members[a]
  /\ a \in m.ring <=> a \in n.ring
  /\ a \in DOMAIN m.timers <=> a \in DOMAIN n.timers

\* Node m has news of peer a, and has drawn all the conclusions.
PeerMoved(n, m, a) ==
  /\ a \in DOMAIN m.members
  /\ a \in DOMAIN n.members => Detection!Overrides(m.members[a], n.members[a])
  /\ a \in DOMAIN m.timers <=> m.members[a].status = "suspect" /\ ~n.stoppedAll
  /\ a \in m.ring <=> \/ m.members[a].status = "alive"
                      \/ m.members[a].status = "suspect" /\ a \in n.ring

\* A new incarnation of the local member is alive.
OwnWord(n, m) ==
  HasMember(n, Self) /\ m.members[Self].inc > n.members[Self].inc =>
    m.members[Self].status = "alive"

Heard(n, m) ==
  /\ m.stoppedAll = n.stoppedAll
  /\ OwnWord(n, m)
  /\ \A a \in Others : PeerMoved(n, m, a) \/ PeerKept(n, m, a)

\* The nodes differ in nothing that FailureDetection is about.
SameView(n, m) ==
  /\ m.members = n.members
  /\ m.timers = n.timers
  /\ m.ring = n.ring
  /\ m.stoppedAll = n.stoppedAll

\* A batch says of the local member nothing that it did not say first.
OwnBatch(n, b) ==
  Self \in DOMAIN b /\ HasMember(n, Self) =>
    b[Self].inc <= n.members[Self].inc \/ b[Self].status = "alive"

\* Heard is about what a node knows only.
LEMMA HeardBetween ==
  ASSUME NEW n, NEW n1, NEW m1, NEW m,
         SameView(n, n1), Heard(n1, m1), SameView(m1, m)
  PROVE  Heard(n, m)
BY DEF SameView, Heard, OwnWord, PeerMoved, PeerKept, HasMember

LEMMA HeardNothing ==
  ASSUME NEW n, IsMap(n.members, Record)
  PROVE  Heard(n, n)
<1>1. HasMember(n, Self) => n.members[Self].inc \in Nat
  BY DEF IsMap, HasMember, Record
<1> QED BY <1>1 DEF Heard, OwnWord, PeerKept

\* The override rules accept nothing but news.
LEMMA AcceptedIsNews ==
  ASSUME NEW r \in Record, NEW c \in Change, Overrides(r, c)
  PROVE  Detection!Overrides(c, r)
<1>1. /\ r.status \in Status /\ r.inc \in Nat
      /\ c.status \in Status /\ c.inc \in Nat
  BY DEF Record, Change
<1>2. CASE c.inc > r.inc
  BY <1>1, <1>2 DEF Overrides, IsAliveOverride, IsSuspectOverride, IsFaultyOverride,
                    IsLeaveOverride, Detection!Overrides
<1>3. CASE ~(c.inc > r.inc)
  <2>1. c.inc = r.inc
    BY <1>1, <1>3, <1>1 DEF Overrides, IsAliveOverride, IsSuspectOverride,
                            IsFaultyOverride, IsLeaveOverride
  <2>2. \/ c.status = "suspect" /\ r.status = "alive"
        \/ c.status = "faulty" /\ r.status \in {"alive", "suspect"}
        \/ c.status = "leave" /\ r.status \in {"alive", "suspect", "faulty"}
    BY <1>1, <2>1 DEF Overrides, IsAliveOverride, IsSuspectOverride,
                      IsFaultyOverride, IsLeaveOverride, Status
  <2>3. Detection!Rank[c.status] > Detection!Rank[r.status]
    BY <2>2 DEF Detection!Rank
  <2> QED BY <2>1, <2>3 DEF Detection!Overrides
<1> QED BY <1>2, <1>3

\* The heart of it: a node m that differs from n by updates u as the
\* listeners apply them, the listener of 'set' as the listener of 'updated'.
LEMMA HeardUpdates ==
  ASSUME NEW n, NEW m, NEW u, NEW t \in Nat,
         NodeInv(Self, n, t), IsMap(u, Change),
         m.members = Overlay(n.members, Records(u)),
         m.timers = TimersAfter(Self, n, u),
         m.ring = RingAfter(n, u),
         m.stoppedAll = n.stoppedAll,
         \A a \in DOMAIN u \ {Self} : a \in DOMAIN n.members =>
            Detection!Overrides(u[a], n.members[a]),
         OwnBatch(n, u)
  PROVE  /\ Heard(n, m)
         /\ \A a \in Others \ DOMAIN u : PeerKept(n, m, a)
<1>1. /\ IsMap(n.members, Record) /\ IsMap(n.timers, Nat) /\ n.stoppedAll \in BOOLEAN
      /\ n.stoppedAll => DOMAIN n.timers = {}
  BY DEF NodeInv, IsNode
<1>1a. Updated(Record, n.members, u, m.members)
  BY <1>1, MembersAfter
<1>1b. TimersUpdated(Self, n, u, m.timers)
  BY <1>1, TimersAfterFacts
<1>2. /\ DOMAIN m.members = DOMAIN n.members \cup DOMAIN u
      /\ \A a \in DOMAIN u : m.members[a].status = u[a].status /\ m.members[a].inc = u[a].inc
      /\ \A a \in DOMAIN n.members \ DOMAIN u : m.members[a] = n.members[a]
  BY <1>1a DEF Updated
<1>3. DOMAIN m.timers =
        (DOMAIN n.timers \ WithStatus(u, {"alive", "faulty", "leave"}))
          \cup Started(Self, n, u)
  BY <1>1b DEF TimersUpdated
<1>4. \A a \in DOMAIN u : u[a].status \in Status
  BY DEF IsMap, Change
<1>5. ASSUME NEW a \in Others \ DOMAIN u
      PROVE  PeerKept(n, m, a)
  BY <1>2, <1>3 DEF PeerKept, RingAfter, WithStatus, Started
<1>6. ASSUME NEW a \in Others, a \in DOMAIN u
      PROVE  PeerMoved(n, m, a)
  <2>1. a \in DOMAIN m.members
    BY <1>2, <1>6
  <2>2. a \in DOMAIN n.members => Detection!Overrides(m.members[a], n.members[a])
    BY <1>2, <1>6 DEF Others, Detection!Overrides
  <2>3. a \in DOMAIN m.timers <=> m.members[a].status = "suspect" /\ ~n.stoppedAll
    BY <1>1, <1>2, <1>3, <1>4, <1>6 DEF Started, WithStatus, Others, Status
  <2>4. a \in m.ring <=> \/ m.members[a].status = "alive"
                         \/ m.members[a].status = "suspect" /\ a \in n.ring
    BY <1>2, <1>4, <1>6 DEF RingAfter, WithStatus, Status
  <2> QED BY <2>1, <2>2, <2>3, <2>4 DEF PeerMoved
<1>7. OwnWord(n, m)
  <2> SUFFICES ASSUME HasMember(n, Self), m.members[Self].inc > n.members[Self].inc
               PROVE  m.members[Self].status = "alive"
    BY DEF OwnWord
  <2>1. n.members[Self].inc \in Nat
    BY <1>1 DEF IsMap, HasMember, Record
  <2>2. Self \in DOMAIN u
    BY <1>2, <2>1 DEF HasMember
  <2>3. u[Self].inc \in Nat
    BY <2>2 DEF IsMap, Change
  <2> QED BY <1>2, <2>1, <2>2, <2>3 DEF OwnBatch
<1> QED BY <1>5, <1>6, <1>7 DEF Heard

\* Membership.prototype.update with its listener.
LEMMA ApplyHeard ==
  ASSUME NEW n, NEW b, NEW t \in Nat, NodeInv(Self, n, t), CanApply(Self, n, b, t),
         OwnBatch(n, b)
  PROVE  /\ Heard(n, Apply(Self, n, b, t))
         /\ \A a \in Others \ DOMAIN b : PeerKept(n, Apply(Self, n, b, t), a)
<1> DEFINE m == Apply(Self, n, b, t)
           u == Updates(Self, n.members, b, t)
<1>1. IsNode(n) /\ IsMap(b, Change) /\ IsMap(n.members, Record)
  BY DEF NodeInv, IsNode, CanApply
<1>2. IsMap(u, Change) /\ DOMAIN u \subseteq DOMAIN b
  BY <1>1, UpdatesType
<1>3. /\ m.stoppedAll = n.stoppedAll
      /\ m.members = Overlay(n.members, Records(u))
      /\ m.timers = TimersAfter(Self, n, u)
      /\ m.ring = RingAfter(n, u)
  BY <1>1, ApplyFields
<1>4. ASSUME NEW a \in DOMAIN u \ {Self}, a \in DOMAIN n.members
      PROVE  Detection!Overrides(u[a], n.members[a])
  <2>1. a \in DOMAIN b /\ ~IsLocalOverride(Self, a, b[a])
    BY <1>2 DEF IsLocalOverride
  <2>2. u[a] = b[a] /\ Overrides(n.members[a], b[a])
    BY <1>4, <2>1 DEF Updates, Accepted
  <2>3. b[a] \in Change /\ n.members[a] \in Record
    BY <1>1, <1>4, <2>1 DEF IsMap
  <2> QED BY <2>2, <2>3, AcceptedIsNews
<1>5. OwnBatch(n, u)
  <2> SUFFICES ASSUME Self \in DOMAIN u, HasMember(n, Self)
               PROVE  u[Self].inc <= n.members[Self].inc \/ u[Self].status = "alive"
    BY DEF OwnBatch
  <2>1. Self \in DOMAIN b /\ Self \in Accepted(Self, n.members, b)
    BY DEF Updates, Accepted
  <2>2. u[Self] = b[Self] \/ u[Self].status = "alive"
    BY <2>1 DEF Updates, Reassert
  <2> QED BY <2>1, <2>2 DEF OwnBatch
<1> HIDE DEF m, u
<1>6. Heard(n, m) /\ \A a \in Others \ DOMAIN u : PeerKept(n, m, a)
  BY <1>2, <1>3, <1>4, <1>5, HeardUpdates
<1> QED BY <1>2, <1>6 DEF m

\* A change that is stashed is not heard yet.
LEMMA StashView ==
  ASSUME NEW n, NEW b, NEW t, IsNode(n), ~n.ready
  PROVE  SameView(n, Update(Self, n, b, t))
BY DEF IsNode, NodeShape, Update, SameView

LEMMA SameViewKept ==
  ASSUME NEW n, NEW m, SameView(n, m)
  PROVE  \A a \in Others : PeerKept(n, m, a)
BY DEF SameView, PeerKept

LEMMA UpdateHeard ==
  ASSUME NEW n, NEW b, NEW t \in Nat, NodeInv(Self, n, t), IsMap(b, Change),
         Self \in DOMAIN b => b[Self].inc <= t, OwnBatch(n, b)
  PROVE  /\ Heard(n, Update(Self, n, b, t))
         /\ \A a \in Others \ DOMAIN b : PeerKept(n, Update(Self, n, b, t), a)
<1>1. CASE n.ready
  <2>1. CanApply(Self, n, b, t)
    BY <1>1 DEF NodeInv, LocalMemberIsSound, CanApply
  <2> QED BY <1>1, <2>1, ApplyHeard DEF Update
<1>2. CASE ~n.ready
  <2> DEFINE m == Update(Self, n, b, t)
  <2>1. IsNode(n) /\ IsMap(n.members, Record)
    BY DEF NodeInv, IsNode
  <2>2. SameView(n, m) /\ SameView(n, n)
    BY <1>2, <2>1, StashView DEF SameView
  <2> HIDE DEF m
  <2>3. Heard(n, m)
    BY <2>1, <2>2, HeardNothing, HeardBetween
  <2> QED BY <2>2, <2>3, SameViewKept DEF m
<1> QED BY <1>1, <1>2

\* makeAlive of the local member, and the other make* of a peer or at the
\* local member's own incarnation.
LEMMA MakeHeard ==
  ASSUME NEW n, NEW a \in Addr, NEW status \in Status, NEW inc \in Nat, NEW t \in Nat,
         NodeInv(Self, n, t),
         a = Self => /\ inc <= t
                     /\ \/ status = "alive"
                        \/ HasMember(n, Self) /\ inc = n.members[Self].inc
  PROVE  LET m == MakeUpdate(Self, n, a, status, inc, t)
         IN  /\ Heard(n, m)
             /\ \A p \in Others \ {a} : PeerKept(n, m, p)
<1> DEFINE b == MakeBatch(Self, n, a, status, inc)
<1>1. IsMap(n.members, Record)
  BY DEF NodeInv, IsNode
<1>2. HasMember(n, Self) => n.members[Self].inc \in Nat
  BY <1>1 DEF IsMap, HasMember, Record
<1>3. /\ IsMap(b, Change) /\ DOMAIN b = {a}
      /\ b[a].inc = inc /\ b[a].status = status
  BY <1>2, SelfAssumption DEF MakeBatch, IsMap, Change
<1>4. MakeUpdate(Self, n, a, status, inc, t) =
        IF status = "alive" /\ a = Self THEN Apply(Self, n, b, t)
                                        ELSE Update(Self, n, b, t)
  BY DEF MakeUpdate
<1> HIDE DEF b
<1>5. OwnBatch(n, b)
  BY <1>2, <1>3 DEF OwnBatch
<1>6. CASE status = "alive" /\ a = Self
  <2>1. CanApply(Self, n, b, t)
    BY <1>3, <1>6 DEF CanApply
  <2> QED BY <1>3, <1>4, <1>5, <1>6, <2>1, ApplyHeard
<1>7. CASE ~(status = "alive" /\ a = Self)
  <2>1. Self \in DOMAIN b => b[Self].inc <= t
    BY <1>3
  <2> QED BY <1>3, <1>4, <1>5, <1>7, <2>1, UpdateHeard
<1> QED BY <1>6, <1>7

\* set(): whoever is in the stash was not known before.
LEMMA ReadyHeard ==
  ASSUME NEW n, NEW t \in Nat, NodeInv(Self, n, t), ~n.ready
  PROVE  Heard(n, BecomeReady(Self, n))
<1> DEFINE m == BecomeReady(Self, n)
<1>1. /\ m.members = Overlay(n.members, Records(n.stash))
      /\ m.timers = TimersAfter(Self, n, n.stash)
      /\ m.ring = RingAfter(n, n.stash)
      /\ m.stoppedAll = n.stoppedAll
  BY ReadyAsUpdated
<1>2. IsMap(n.stash, Change) /\ Self \notin DOMAIN n.stash
  BY DEF NodeInv, IsNode
<1>3. DOMAIN n.members \subseteq {Self}
  BY DEF NodeInv, LocalMemberIsSound
<1>4. OwnBatch(n, n.stash)
  BY <1>2 DEF OwnBatch
<1> HIDE DEF m
<1>5. Heard(n, m)
  BY <1>1, <1>2, <1>3, <1>4, HeardUpdates
<1> QED BY <1>5 DEF m

\* Issuing changes tells the node nothing.
LEMMA IssueView ==
  ASSUME NEW n, IsNode(n), NEW s, NEW i
  PROVE  SameView(n, IssueAsReceiver(n, s, i)) /\ SameView(n, IssueAsSender(n))
BY DEF IsNode, NodeShape, IssueAsReceiver, IssueAsSender, AfterIssue, SameView

----------------------------------------------------------------------------
(* Steps of FailureDetection *)

\* The local member moves as it may once it keeps its invariant and moves
\* forward; only that a new incarnation of it is alive is not in these.
LEMMA OwnMoves ==
  ASSUME IInv, IInv', Moves, OwnWord(node, node')
  PROVE  Detection!OwnMoves
<1>1. /\ LocalMemberIsSound(Self, node', now') /\ TimersAreSound(Self, node')
      /\ RingIsSound(node')
  BY DEF IInv, NodeInv, LocalMemberIsSound, TimersAreSound, RingIsSound, HasMember
<1>2. IsMap(node.members, Record) /\ IsMap(node'.members, Record)
  BY DEF IInv, NodeInv, IsNode
<1>3. HasMember(node, Self) =>
        /\ HasMember(node', Self)
        /\ \/ node'.members[Self].inc = node.members[Self].inc
           \/ /\ node'.members[Self].inc > node.members[Self].inc
              /\ node'.members[Self].status = "alive"
  <2> SUFFICES ASSUME HasMember(node, Self)
               PROVE  /\ HasMember(node', Self)
                      /\ \/ node'.members[Self].inc = node.members[Self].inc
                         \/ /\ node'.members[Self].inc > node.members[Self].inc
                            /\ node'.members[Self].status = "alive"
    OBVIOUS
  <2>1. HasMember(node', Self) /\ node'.members[Self].inc >= node.members[Self].inc
    BY DEF Moves, OnlyForward, HasMember
  <2>2. node.members[Self].inc \in Nat /\ node'.members[Self].inc \in Nat
    BY <1>2, <2>1 DEF IsMap, HasMember, Record
  <2> QED BY <2>1, <2>2 DEF OwnWord
<1>4. HasMember(node', Self) => node'.members[Self].status \in {"alive", "leave"}
  BY <1>1 DEF LocalMemberIsSound
<1>5. Self \in node'.ring <=> HasMember(node', Self) /\ node'.members[Self].status = "alive"
  BY <1>1, <1>4 DEF RingIsSound, HasMember
<1>6. Self \notin DOMAIN node'.timers
  BY <1>1 DEF TimersAreSound
<1> QED BY <1>3, <1>4, <1>5, <1>6 DEF Detection!OwnMoves, HasMember

LEMMA HeardLearns ==
  ASSUME IInv, IInv', Moves, Heard(node, node')
  PROVE  Detection!Learn
<1>1. Detection!OwnMoves
  BY OwnMoves DEF Heard
<1>2. ASSUME NEW a \in Addr \ {Self}
      PROVE  \/ Detection!Moves(a)
             \/ Detection!Stays(a) /\ (a \in DOMAIN node'.timers <=> a \in DOMAIN node.timers)
  <2>1. PeerMoved(node, node', a) \/ PeerKept(node, node', a)
    BY DEF Heard, Others
  <2>2. CASE PeerMoved(node, node', a)
    BY <2>2 DEF PeerMoved, Detection!Moves
  <2>3. CASE PeerKept(node, node', a)
    BY <2>3 DEF PeerKept, Detection!Stays
  <2> QED BY <2>1, <2>2, <2>3
<1> QED BY <1>1, <1>2 DEF Detection!Learn, Detection!Peers, Heard

\* A call that stops the subprotocols is one that tells of no peer, and then
\* StopProtocols.
LEMMA StopStops ==
  ASSUME IInv, IInv', Moves, NEW m, IsNode(m), node' = StopProtocols(m),
         OwnWord(node, m), \A a \in Others : PeerKept(node, m, a)
  PROVE  Detection!Stop
<1>1. /\ node'.members = m.members /\ node'.ring = m.ring
      /\ node'.timers = NoMap /\ node'.stoppedAll = TRUE
  BY DEF IsNode, NodeShape, StopProtocols
<1>2. Detection!OwnMoves
  BY <1>1, OwnMoves DEF OwnWord
<1>3. \A a \in Addr \ {Self} : Detection!Stays(a)
  BY <1>1 DEF PeerKept, Detection!Stays, Others
<1>4. DOMAIN node'.timers = {}
  BY <1>1 DEF NoMap
<1> QED BY <1>1, <1>2, <1>3, <1>4 DEF Detection!Stop, Detection!Peers

LEMMA DestroyStops ==
  ASSUME IInv, IInv', Moves, Destroy
  PROVE  Detection!Stop
<1>1. IsNode(node) /\ IsMap(node.members, Record)
  BY DEF IInv, NodeInv, IsNode
<1>2. OwnWord(node, node)
  BY <1>1, HeardNothing DEF Heard
<1>3. \A a \in Others : PeerKept(node, node, a)
  BY DEF PeerKept
<1> QED BY <1>1, <1>2, <1>3, StopStops DEF Destroy

LEMMA AdminLeaveStops ==
  ASSUME IInv, IInv', Moves, AdminLeave
  PROVE  Detection!Stop
<1> DEFINE m == MakeUpdate(Self, node, Self, "leave", node.members[Self].inc, now)
<1>1. NodeInv(Self, node, now) /\ now \in Nat /\ HasMember(node, Self)
  BY DEF IInv, TypeOK, AdminLeave
<1>2. node.members[Self].inc \in Nat /\ node.members[Self].inc <= now
  BY <1>1 DEF NodeInv, IsNode, LocalMemberIsSound, IsMap, HasMember, Record
<1>3. "leave" \in Status
  BY DEF Status
<1>4. Heard(node, m) /\ \A a \in Others \ {Self} : PeerKept(node, m, a)
  BY <1>1, <1>2, <1>3, SelfAssumption, MakeHeard
<1>5. IsNode(m)
  BY <1>1, <1>2, <1>3, SelfAssumption, MakeUpdateInv DEF NodeInv
<1>6. node' = StopProtocols(m)
  BY DEF AdminLeave
<1> HIDE DEF m
<1> QED BY <1>4, <1>5, <1>6, StopStops DEF Heard, Others

\* An operator's join of a node that left.
LEMMA RejoinResumes ==
  ASSUME IInv, IInv', Moves, AdminJoin, node.members[Self].status = "leave"
  PROVE  Detection!Resume
<1> DEFINE m == MakeUpdate(Self, node, Self, "alive", now, now)
<1>1. NodeInv(Self, node, now) /\ now \in Nat /\ now <= now
  BY DEF IInv, TypeOK
<1>2. "alive" \in Status
  BY DEF Status
<1>3. Heard(node, m) /\ \A a \in Others \ {Self} : PeerKept(node, m, a)
  BY <1>1, <1>2, SelfAssumption, MakeHeard
<1>4. IsNode(m)
  BY <1>1, <1>2, SelfAssumption, MakeUpdateInv DEF NodeInv
<1>5. node' = Reenable(StartGossip(m))
  BY DEF AdminJoin
<1> HIDE DEF m
<1>6. /\ node'.members = m.members /\ node'.ring = m.ring
      /\ node'.timers = m.timers /\ node'.stoppedAll = FALSE
  BY <1>4, <1>5 DEF IsNode, NodeShape, StartGossip, Reenable
<1>7. Detection!OwnMoves
  BY <1>3, <1>6, OwnMoves DEF Heard, OwnWord
<1>8. \A a \in Addr \ {Self} : Detection!Stays(a)
  BY <1>3, <1>6 DEF PeerKept, Detection!Stays, Others
<1>9. DOMAIN node'.timers = DOMAIN node.timers
  <2>1. DOMAIN node.timers \subseteq Others /\ DOMAIN node'.timers \subseteq Others
    BY DEF IInv, NodeInv, IsNode, IsMap, TimersAreSound, Others
  <2>2. \A a \in Others : a \in DOMAIN node'.timers <=> a \in DOMAIN node.timers
    BY <1>3, <1>6 DEF PeerKept, Others
  <2> QED BY <2>1, <2>2
<1> QED BY <1>6, <1>7, <1>8, <1>9 DEF Detection!Resume, Detection!Peers

\* Whatever the others deliver.
LEMMA DeliverableHeard ==
  ASSUME IInv, NEW b \in Deliverable
  PROVE  Heard(node, Update(Self, node, b, now))
<1>1. IsMap(b, Change) /\ (Self \in DOMAIN b => b[Self].inc <= now)
  BY DeliverableBatch
<1>2. OwnBatch(node, b)
  BY DEF OwnBatch, Deliverable
<1> QED BY <1>1, <1>2, UpdateHeard DEF IInv, TypeOK

\* The join's responses are stashed, the stash becomes the membership.
LEMMA JoinCompleteHeard ==
  ASSUME IInv, NEW b \in Deliverable, JoinComplete(b)
  PROVE  Heard(node, node')
<1> DEFINE m == Update(Self, node, b, now)
           k == BecomeReady(Self, m)
<1>1. NodeInv(Self, node, now) /\ now \in Nat /\ IsNode(node) /\ ~node.ready
  BY DEF IInv, TypeOK, JoinComplete
<1>2. IsMap(b, Change) /\ (Self \in DOMAIN b => b[Self].inc <= now)
  BY DeliverableBatch
<1>3. NodeInv(Self, m, now) /\ Keeps(Self, node, m)
  BY <1>1, <1>2, UpdateInv, UpdateKeeps
<1>4. SameView(node, m)
  BY <1>1, StashView
<1> HIDE DEF m
<1>5. Heard(m, k)
  BY <1>1, <1>3, ReadyHeard DEF Keeps
<1> HIDE DEF k
<1>6. SameView(k, k)
  BY DEF SameView
<1>7. Heard(node, k)
  BY <1>4, <1>5, <1>6, HeardBetween
<1> QED BY <1>7 DEF JoinComplete, k, m

LEMMA StepDetects ==
  ASSUME IInv, IInv', Moves, [Next]_vars
  PROVE  Detection!Next
<1> USE SelfAssumption
<1>1. /\ NodeInv(Self, node, now) /\ now \in Nat /\ IsNode(node) /\ TypeOK
      /\ IsMap(node.members, Record)
  BY DEF IInv, TypeOK, NodeInv, IsNode
<1>2. \A n : SameView(n, n)
  BY DEF SameView
<1>3. Heard(node, node)
  BY <1>1, HeardNothing
<1>4. ASSUME Heard(node, node') PROVE Detection!Next
  BY <1>4, HeardLearns DEF Detection!Next
<1>5. ASSUME SameView(node, node') PROVE Detection!Next
  BY <1>2, <1>3, <1>4, <1>5, HeardBetween
<1>6. CASE Bootstrap
  <2>1. "alive" \in Status /\ now <= now
    BY <1>1 DEF Status
  <2>2. Heard(node, MakeUpdate(Self, node, Self, "alive", now, now))
    BY <1>1, <2>1, MakeHeard
  <2> QED BY <1>4, <1>6, <2>2 DEF Bootstrap
<1>7. ASSUME NEW b \in Deliverable, JoinComplete(b) PROVE Detection!Next
  BY <1>4, <1>7, JoinCompleteHeard
<1>8. CASE Destroy
  BY <1>8, DestroyStops DEF Detection!Next
<1>9. CASE JoinFail \/ Tick \/ AdminJoinFail \/ UNCHANGED vars
  <2>1. node' = node
    BY <1>9 DEF JoinFail, Tick, AdminJoinFail, vars
  <2> QED BY <1>2, <1>5, <2>1
<1>10. ASSUME NEW b \in Deliverable, ReceiveResponse(b) \/ AdminJoinComplete(b)
       PROVE  Detection!Next
  <2>1. node' = Update(Self, node, b, now)
    BY <1>10 DEF ReceiveResponse, AdminJoinComplete
  <2> QED BY <1>4, <2>1, DeliverableHeard
<1>11. ASSUME NEW b \in Deliverable, NEW s, NEW i,
              ReceivePing(b, s, i) \/ ReceivePingReq(b)
       PROVE  Detection!Next
  <2> DEFINE m == Update(Self, node, b, now)
  <2>1. Heard(node, m)
    BY DeliverableHeard
  <2>2. IsNode(m)
    <3>1. IsMap(b, Change) /\ (Self \in DOMAIN b => b[Self].inc <= now)
      BY DeliverableBatch
    <3> QED BY <1>1, <3>1, UpdateInv DEF NodeInv
  <2>3. node' = IssueAsReceiver(m, s, i) \/ node' = IssueAsSender(m)
    BY <1>11 DEF ReceivePing, ReceivePingReq
  <2> HIDE DEF m
  <2>4. SameView(m, node')
    BY <2>2, <2>3, IssueView
  <2> QED BY <1>2, <1>4, <2>1, <2>4, HeardBetween
<1>12. CASE SendPing
  BY <1>1, <1>5, <1>12, IssueView DEF SendPing
<1>13. ASSUME NEW a \in Addr, NEW i \in Times, ReceiveJoin(a, i)
       PROVE  Detection!Next
  <2>1. "alive" \in Status /\ i \in Nat /\ a # Self
    BY <1>13, TimeAssumption DEF Status, Times, ReceiveJoin
  <2>2. Heard(node, MakeUpdate(Self, node, a, "alive", i, now))
    BY <1>1, <2>1, MakeHeard
  <2> QED BY <1>4, <1>13, <2>2 DEF ReceiveJoin
<1>14. ASSUME NEW a \in Addr, SuspectMember(a)
       PROVE  Detection!Next
  <2>1. "suspect" \in Status /\ node.members[a].inc \in Nat /\ a # Self
    BY <1>1, <1>14 DEF Status, SuspectMember, HasMember, IsMap, Record
  <2>2. Heard(node, MakeUpdate(Self, node, a, "suspect", node.members[a].inc, now))
    BY <1>1, <2>1, MakeHeard
  <2> QED BY <1>4, <1>14, <2>2 DEF SuspectMember
<1>15. ASSUME NEW a \in Addr, SuspicionTimeout(a)
       PROVE  Detection!Next
  <2>1. "faulty" \in Status /\ node.timers[a] \in Nat /\ a # Self
    BY <1>1, <1>15 DEF Status, SuspicionTimeout, NodeInv, IsNode, IsMap, TimersAreSound
  <2>2. Heard(node, MakeUpdate(Self, node, a, "faulty", node.timers[a], now))
    BY <1>1, <2>1, MakeHeard
  <2> QED BY <1>4, <1>15, <2>2 DEF SuspicionTimeout
<1>16. CASE AdminLeave
  BY <1>16, AdminLeaveStops DEF Detection!Next
<1>17. CASE AdminJoin
  <2>1. CASE node.members[Self].status = "leave"
    BY <1>17, <2>1, RejoinResumes DEF Detection!Next
  <2>2. CASE node.members[Self].status # "leave"
    BY <1>2, <1>5, <1>17, <2>2 DEF AdminJoin
  <2> QED BY <2>1, <2>2
<1>18. CASE AdminGossip
  <2>1. SameView(node, node')
    BY <1>1, <1>18 DEF AdminGossip, StartGossip, IsNode, NodeShape, SameView
  <2> QED BY <1>5, <2>1
<1> QED BY <1>6, <1>7, <1>8, <1>9, <1>10, <1>11, <1>12, <1>13, <1>14, <1>15,
           <1>16, <1>17, <1>18 DEF Next

----------------------------------------------------------------------------
(* The theorems *)

\* IInv is inductive.
THEOREM Invariance == Spec => []IInv
<1>1. IInv /\ [Next]_vars => IInv'
  BY StepInv
<1> QED BY <1>1, InitInv, PTL DEF Spec

\* The variables keep their types, whatever the environment delivers.
THEOREM TypeCorrect == Spec => []TypeOK
<1>1. IInv => TypeOK
  BY DEF IInv
<1> QED BY <1>1, Invariance, PTL

\* No accusation, however it arrives, makes the local member believe itself
\* suspect or faulty or assigns it an incarnation of the future.
THEOREM LocalViewHolds == Spec => []LocalView
<1>1. IInv => LocalView
  BY DEF IInv, NodeInv, LocalView
<1> QED BY <1>1, Invariance, PTL

\* A suspect period never condemns another incarnation than the suspected.
THEOREM TimersGuardSuspectsHolds == Spec => []TimersGuardSuspects
<1>1. IInv => TimersGuardSuspects
  BY DEF IInv, NodeInv, TimersGuardSuspects
<1> QED BY <1>1, Invariance, PTL

\* The ring holds all alive members and nobody who is faulty or left.
THEOREM RingFollowsMembershipHolds == Spec => []RingFollowsMembership
<1>1. IInv => RingFollowsMembership
  BY DEF IInv, NodeInv, RingFollowsMembership
<1> QED BY <1>1, Invariance, PTL

\* What the node would tell others is what it holds.
THEOREM RumoursAreCurrentHolds == Spec => []RumoursAreCurrent
<1>1. IInv => RumoursAreCurrent
  BY DEF IInv, NodeInv, RumoursAreCurrent
<1> QED BY <1>1, Invariance, PTL

\* No suspect period runs while the suspicion subprotocol is stopped.
THEOREM StoppedMeansNoTimersHolds == Spec => []StoppedMeansNoTimers
<1>1. IInv => StoppedMeansNoTimers
  BY DEF IInv, NodeInv, StoppedMeansNoTimers
<1> QED BY <1>1, Invariance, PTL

\* A destroyed node stays quiet.
THEOREM DestroyedIsQuietHolds == Spec => []DestroyedIsQuiet
<1>1. IInv => DestroyedIsQuiet
  BY DEF IInv, NodeInv, DestroyedIsQuiet
<1> QED BY <1>1, Invariance, PTL

\* The membership list only moves forward: the override rules, the answer to
\* a local override, set() and the operator's calls together.
THEOREM NoRegressHolds == Spec => NoRegress
<1>1. IInv /\ [Next]_vars => [OnlyForward(Self, node, node')]_vars
  BY StepInv DEF Moves
<1> QED BY <1>1, Invariance, PTL DEF Spec, NoRegress

\* No call creates a suspect without its suspect period.
THEOREM SuspectPeriodKeptHolds == Spec => SuspectPeriodKept
<1>1. IInv /\ [Next]_vars => [PeriodsKept(node, node')]_vars
  BY StepInv DEF Moves
<1> QED BY <1>1, Invariance, PTL DEF Spec, SuspectPeriodKept

\* Whatever the node is told and in whatever order, it judges each peer by
\* the news of that peer alone, and its list, its suspect periods and its
\* ring draw the same conclusion from it in the same step.
THEOREM ImplementsDetectionHolds == Spec => ImplementsDetection
<1>1. Init => Detection!Init
  BY DEF Init, NewNode, NoMap, Detection!Init
<1>2. IInv /\ [Next]_vars => [Detection!Next]_(Detection!vars)
  BY StepInv, StepDetects
<1> QED BY <1>1, <1>2, Invariance, PTL DEF Spec, ImplementsDetection, Detection!Spec
=============================================================================
