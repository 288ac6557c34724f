-------------------------- MODULE NodeStateProofs --------------------------
(***************************************************************************)
(* What the calls of NodeState preserve, for any number of addresses and   *)
(* any incarnation numbers.  Everything is stated of one node n at address *)
(* self, so that both RingpopNode and compositions of nodes can use it.    *)
(***************************************************************************)
EXTENDS NodeState, FiniteSetTheorems, TLAPS

\* All that every node keeps, with its type.
NodeInv(self, n, t) ==
  /\ IsNode(n)
  /\ LocalMemberIsSound(self, n, t)
  /\ TimersAreSound(self, n)
  /\ RingIsSound(n)
  /\ RumoursAreSound(n)
  /\ n.stoppedAll => DOMAIN n.timers = {}
  /\ self \notin DOMAIN n.stash

----------------------------------------------------------------------------
(* Maps *)

\* Overlay of two maps is a map.
LEMMA OverlayIsMap ==
  ASSUME NEW T, NEW f, NEW g, IsMap(f, T), IsMap(g, T)
  PROVE  IsMap(Overlay(f, g), T)
BY DEF Overlay, IsMap

\* The second map wins where it is defined.
LEMMA OverlayDomain ==
  ASSUME NEW f, NEW g
  PROVE  DOMAIN Overlay(f, g) = DOMAIN f \cup DOMAIN g
BY DEF Overlay

LEMMA OverlayAt ==
  ASSUME NEW f, NEW g, NEW a \in DOMAIN f \cup DOMAIN g
  PROVE  Overlay(f, g)[a] = IF a \in DOMAIN g THEN g[a] ELSE f[a]
BY DEF Overlay

----------------------------------------------------------------------------
(* The updates of one call *)

\* The accepted changes are changes, about the addresses of the batch.
LEMMA UpdatesType ==
  ASSUME NEW self, NEW members, NEW batch, NEW t \in Nat, IsMap(batch, Change)
  PROVE  /\ IsMap(Updates(self, members, batch, t), Change)
         /\ DOMAIN Updates(self, members, batch, t) \subseteq DOMAIN batch
<1>1. Accepted(self, members, batch) \subseteq DOMAIN batch
  BY DEF Accepted
<1>2. \A a \in DOMAIN batch : batch[a] \in Change
  BY DEF IsMap
<1>3. \A a \in DOMAIN batch : Reassert(batch[a], t) \in Change
  BY <1>2 DEF Change, Status, Reassert
<1> QED BY <1>1, <1>2, <1>3 DEF Updates, IsMap

\* What an update of the local member says: alive now, or what the change
\* said, which is then neither suspect nor faulty.
LEMMA UpdateOfSelf ==
  ASSUME NEW self, NEW members, NEW batch, NEW t \in Nat, IsMap(batch, Change),
         self \in DOMAIN Updates(self, members, batch, t),
         self \in DOMAIN members \/ batch[self].status = "alive",
         batch[self].inc <= t
  PROVE  /\ Updates(self, members, batch, t)[self].status \in {"alive", "leave"}
         /\ Updates(self, members, batch, t)[self].inc <= t
<1> DEFINE u == Updates(self, members, batch, t)
<1>1. self \in Accepted(self, members, batch) /\ self \in DOMAIN batch
  BY DEF Updates, Accepted
<1>2. batch[self] \in Change
  BY <1>1 DEF IsMap
<1>3. CASE self \in DOMAIN members /\ IsLocalOverride(self, self, batch[self])
  BY <1>1, <1>2, <1>3 DEF Updates, Reassert
<1>4. CASE ~(self \in DOMAIN members /\ IsLocalOverride(self, self, batch[self]))
  <2>1. u[self] = batch[self]
    BY <1>1, <1>4 DEF Updates
  <2>2. batch[self].status \in {"alive", "leave"}
    BY <1>2, <1>4 DEF IsLocalOverride, Change, Status
  <2> QED BY <2>1, <2>2
<1> QED BY <1>3, <1>4

\* The records of some updates.
LEMMA RecordsType ==
  ASSUME NEW u, IsMap(u, Change)
  PROVE  /\ IsMap(Records(u), Record)
         /\ DOMAIN Records(u) = DOMAIN u
         /\ \A a \in DOMAIN u : /\ Records(u)[a].status = u[a].status
                                /\ Records(u)[a].inc = u[a].inc
BY DEF Records, RecordOf, IsMap, Change, Record

----------------------------------------------------------------------------
(* The piggyback limit *)

LEMMA AdjustedCountType ==
  ASSUME NEW S \in SUBSET Addr
  PROVE  AdjustedCount(S) \in Nat
<1>1. IsFiniteSet(S) /\ Cardinality(S) \in Nat
  BY AddrAssumption, FS_Subset, FS_CardinalityType
<1> DEFINE k == Cardinality(S)
           D == {d \in 0..(k - 1) : 10^d <= k}
<1>2. IsFiniteSet(0..(k - 1))
  BY <1>1, FS_Interval
<1>3. IsFiniteSet(D)
  <2>1. D \in SUBSET (0..(k - 1))
    OBVIOUS
  <2> HIDE DEF D
  <2> QED BY <1>2, <2>1, FS_Subset
<1>4. Cardinality(D) \in Nat
  BY <1>3, FS_CardinalityType
<1>5. CeilLog10(k) \in Nat
  BY <1>4 DEF CeilLog10
<1> QED BY <1>5, FactorAssumption DEF AdjustedCount

----------------------------------------------------------------------------
(* What follows an array of updates *)

\* Map new agrees with u where u is defined and with old elsewhere.
Updated(T, old, u, new) ==
  /\ IsMap(new, T)
  /\ DOMAIN new = DOMAIN old \cup DOMAIN u
  /\ \A a \in DOMAIN u : new[a].status = u[a].status /\ new[a].inc = u[a].inc
  /\ \A a \in DOMAIN old \ DOMAIN u : new[a] = old[a]

\* Timers new are timers old after updates u.
TimersUpdated(self, n, u, new) ==
  /\ IsMap(new, Nat)
  /\ DOMAIN new =
       (DOMAIN n.timers \ WithStatus(u, {"alive", "faulty", "leave"}))
         \cup Started(self, n, u)
  /\ \A a \in Started(self, n, u) : new[a] = u[a].inc
  /\ \A a \in DOMAIN new \ Started(self, n, u) : new[a] = n.timers[a]

\* The member list after updates u.
LEMMA MembersAfter ==
  ASSUME NEW members, NEW u, IsMap(members, Record), IsMap(u, Change)
  PROVE  Updated(Record, members, u, Overlay(members, Records(u)))
<1> DEFINE r == Records(u)
<1>1. /\ IsMap(r, Record) /\ DOMAIN r = DOMAIN u
      /\ \A a \in DOMAIN u : r[a].status = u[a].status /\ r[a].inc = u[a].inc
  BY RecordsType
<1> HIDE DEF r
<1>2. IsMap(Overlay(members, r), Record)
  BY <1>1, OverlayIsMap
<1>3. DOMAIN Overlay(members, r) = DOMAIN members \cup DOMAIN u
  BY <1>1, OverlayDomain
<1>4. \A a \in DOMAIN u : Overlay(members, r)[a] = r[a]
  BY <1>1, OverlayAt
<1>5. \A a \in DOMAIN members \ DOMAIN u : Overlay(members, r)[a] = members[a]
  BY <1>1, OverlayAt
<1> QED BY <1>1, <1>2, <1>3, <1>4, <1>5 DEF r, Updated

\* The dissemination table after updates u.
LEMMA ChangesAfterFacts ==
  ASSUME NEW n, NEW u, IsMap(n.changes, Rumor), IsMap(u, Change)
  PROVE  Updated(Rumor, n.changes, u, ChangesAfter(n, u))
<1> DEFINE r == [a \in DOMAIN u |->
                   [status |-> u[a].status, inc |-> u[a].inc,
                    src |-> u[a].src, srcInc |-> u[a].srcInc, count |-> 0]]
<1>0. ChangesAfter(n, u) = Overlay(n.changes, r)
  BY DEF ChangesAfter
<1>1. /\ IsMap(r, Rumor) /\ DOMAIN r = DOMAIN u
      /\ \A a \in DOMAIN u : r[a].status = u[a].status /\ r[a].inc = u[a].inc
  BY DEF IsMap, Change, Rumor
<1> HIDE DEF r
<1>2. IsMap(Overlay(n.changes, r), Rumor)
  BY <1>1, OverlayIsMap
<1>3. DOMAIN Overlay(n.changes, r) = DOMAIN n.changes \cup DOMAIN u
  BY <1>1, OverlayDomain
<1>4. \A a \in DOMAIN u : Overlay(n.changes, r)[a] = r[a]
  BY <1>1, OverlayAt
<1>5. \A a \in DOMAIN n.changes \ DOMAIN u : Overlay(n.changes, r)[a] = n.changes[a]
  BY <1>1, OverlayAt
<1> QED BY <1>0, <1>1, <1>2, <1>3, <1>4, <1>5 DEF Updated

\* The suspect periods after updates u: those of members that were not
\* updated go on, and a suspect gets one at its incarnation.
LEMMA TimersAfterFacts ==
  ASSUME NEW self, NEW n, NEW u, IsMap(n.timers, Nat), IsMap(u, Change)
  PROVE  TimersUpdated(self, n, u, TimersAfter(self, n, u))
<1> DEFINE k == [a \in DOMAIN n.timers \ WithStatus(u, {"alive", "faulty", "leave"})
                   |-> n.timers[a]]
           r == [a \in Started(self, n, u) |-> u[a].inc]
<1>0. TimersAfter(self, n, u) = Overlay(k, r)
  BY DEF TimersAfter
<1>1. /\ IsMap(k, Nat)
      /\ DOMAIN k = DOMAIN n.timers \ WithStatus(u, {"alive", "faulty", "leave"})
      /\ \A a \in DOMAIN k : k[a] = n.timers[a]
  BY DEF IsMap
<1>2. Started(self, n, u) \subseteq DOMAIN u
  BY DEF Started, WithStatus
<1>3. /\ IsMap(r, Nat) /\ DOMAIN r = Started(self, n, u)
      /\ \A a \in Started(self, n, u) : r[a] = u[a].inc
  BY <1>2 DEF IsMap, Change
<1> HIDE DEF k, r
<1>4. IsMap(Overlay(k, r), Nat)
  BY <1>1, <1>3, OverlayIsMap
<1>5. DOMAIN Overlay(k, r) = DOMAIN k \cup DOMAIN r
  BY OverlayDomain
<1>6. /\ \A a \in DOMAIN r : Overlay(k, r)[a] = r[a]
      /\ \A a \in DOMAIN k \ DOMAIN r : Overlay(k, r)[a] = k[a]
  BY OverlayAt
<1> QED BY <1>0, <1>1, <1>3, <1>4, <1>5, <1>6 DEF TimersUpdated

----------------------------------------------------------------------------
(* Calls that apply updates *)

\* The heart of it: a node m that differs from n by updates u, as the
\* listeners apply them, keeps what n kept, whatever u says, as long as u
\* does not say that the local member is suspect or faulty.
LEMMA UpdatedNode ==
  ASSUME NEW self, NEW n, NEW m, NEW u, NEW t \in Nat,
         NodeInv(self, n, t), IsMap(u, Change),
         m \in NodeShape(m), m.ready \in BOOLEAN, m.maxCount \in Nat,
         m.gossiping \in BOOLEAN,
         IsMap(m.stash, Change), self \notin DOMAIN m.stash,
         m.members = Overlay(n.members, Records(u)),
         m.timers = TimersAfter(self, n, u),
         m.ring = RingAfter(n, u),
         m.changes = ChangesAfter(n, u),
         m.stoppedAll = n.stoppedAll,
         self \in DOMAIN u => u[self].status \in {"alive", "leave"} /\ u[self].inc <= t,
         m.ready => HasMember(m, self),
         ~m.ready => DOMAIN m.members \subseteq {self}
  PROVE  NodeInv(self, m, t)
<1>0. /\ IsNode(n) /\ LocalMemberIsSound(self, n, t) /\ TimersAreSound(self, n)
      /\ RingIsSound(n) /\ RumoursAreSound(n)
      /\ n.stoppedAll => DOMAIN n.timers = {}
  BY DEF NodeInv
<1>1. /\ IsMap(n.members, Record) /\ IsMap(n.timers, Nat) /\ n.stoppedAll \in BOOLEAN
      /\ n.ring \subseteq Addr /\ IsMap(n.changes, Rumor)
  BY <1>0 DEF IsNode
<1>2. \A a \in DOMAIN u : u[a].status \in Status /\ u[a].inc \in Nat /\ a \in Addr
  BY DEF IsMap, Change
<1>3a. Updated(Record, n.members, u, m.members)
  BY <1>1, MembersAfter
<1>4a. Updated(Rumor, n.changes, u, m.changes)
  BY <1>1, ChangesAfterFacts
<1>5a. TimersUpdated(self, n, u, m.timers)
  BY <1>1, TimersAfterFacts
<1>3. /\ IsMap(m.members, Record)
      /\ DOMAIN m.members = DOMAIN n.members \cup DOMAIN u
      /\ \A a \in DOMAIN u : /\ m.members[a].status = u[a].status
                             /\ m.members[a].inc = u[a].inc
      /\ \A a \in DOMAIN n.members \ DOMAIN u : m.members[a] = n.members[a]
  BY <1>3a DEF Updated
<1>4. /\ IsMap(m.changes, Rumor)
      /\ DOMAIN m.changes = DOMAIN n.changes \cup DOMAIN u
      /\ \A a \in DOMAIN u : /\ m.changes[a].status = u[a].status
                             /\ m.changes[a].inc = u[a].inc
      /\ \A a \in DOMAIN n.changes \ DOMAIN u : m.changes[a] = n.changes[a]
  BY <1>4a DEF Updated
<1>5. /\ IsMap(m.timers, Nat)
      /\ DOMAIN m.timers =
           (DOMAIN n.timers \ WithStatus(u, {"alive", "faulty", "leave"}))
             \cup Started(self, n, u)
      /\ \A a \in Started(self, n, u) : m.timers[a] = u[a].inc
      /\ \A a \in DOMAIN m.timers \ Started(self, n, u) : m.timers[a] = n.timers[a]
  BY <1>5a DEF TimersUpdated
<1>6. m.ring \subseteq Addr
  BY <1>1, <1>2 DEF RingAfter, WithStatus
<1>7. IsNode(m)
  BY <1>1, <1>3, <1>4, <1>5, <1>6 DEF IsNode
<1>8. LocalMemberIsSound(self, m, t)
  <2>1. CASE self \in DOMAIN u
    BY <2>1, <1>3 DEF LocalMemberIsSound, HasMember
  <2>2. CASE self \notin DOMAIN u
    <3>1. HasMember(m, self) => HasMember(n, self) /\ m.members[self] = n.members[self]
      BY <2>2, <1>3 DEF HasMember
    <3> QED BY <3>1, <1>0 DEF LocalMemberIsSound
  <2> QED BY <2>1, <2>2
<1>9. TimersAreSound(self, m)
  <2> SUFFICES ASSUME NEW a \in DOMAIN m.timers
               PROVE  /\ a # self
                      /\ a \in DOMAIN m.members
                      /\ m.members[a].status = "suspect"
                      /\ m.members[a].inc = m.timers[a]
    BY DEF TimersAreSound, HasMember
  <2>1. CASE a \in Started(self, n, u)
    <3>1. a \in DOMAIN u /\ u[a].status = "suspect" /\ a # self
      BY <2>1 DEF Started, WithStatus
    <3> QED BY <3>1, <2>1, <1>3, <1>5
  <2>2. CASE a \notin Started(self, n, u)
    <3>1. a \in DOMAIN n.timers /\ a \notin WithStatus(u, {"alive", "faulty", "leave"})
      BY <2>2, <1>5
    <3>2. /\ a # self /\ a \in DOMAIN n.members
          /\ n.members[a].status = "suspect" /\ n.members[a].inc = n.timers[a]
      BY <3>1, <1>0 DEF TimersAreSound, HasMember
    <3>3. n.stoppedAll = FALSE
      BY <3>1, <1>0, <1>1
    <3>4. a \notin DOMAIN u
      BY <2>2, <3>1, <3>2, <3>3, <1>2 DEF Started, WithStatus, Status
    <3> QED BY <3>1, <3>2, <3>4, <2>2, <1>3, <1>5
  <2> QED BY <2>1, <2>2
<1>10. RingIsSound(m)
  <2>1. ASSUME NEW a \in DOMAIN m.members, m.members[a].status = "alive"
        PROVE  a \in m.ring
    <3>1. CASE a \in DOMAIN u
      BY <3>1, <2>1, <1>3 DEF RingAfter, WithStatus
    <3>2. CASE a \notin DOMAIN u
      BY <3>2, <2>1, <1>3, <1>0 DEF RingAfter, WithStatus, RingIsSound
    <3> QED BY <3>1, <3>2
  <2>2. ASSUME NEW a \in m.ring
        PROVE  a \in DOMAIN m.members /\ m.members[a].status \in {"alive", "suspect"}
    <3>1. CASE a \in DOMAIN u
      BY <3>1, <2>2, <1>2, <1>3 DEF RingAfter, WithStatus, Status
    <3>2. CASE a \notin DOMAIN u
      BY <3>2, <2>2, <1>3, <1>0 DEF RingAfter, WithStatus, RingIsSound, HasMember
    <3> QED BY <3>1, <3>2
  <2> QED BY <2>1, <2>2 DEF RingIsSound, HasMember
<1>11. RumoursAreSound(m)
  <2> SUFFICES ASSUME NEW a \in DOMAIN m.changes
               PROVE  /\ a \in DOMAIN m.members
                      /\ m.members[a].status = m.changes[a].status
                      /\ m.members[a].inc = m.changes[a].inc
    BY DEF RumoursAreSound, HasMember
  <2>1. CASE a \in DOMAIN u
    BY <2>1, <1>3, <1>4
  <2>2. CASE a \notin DOMAIN u
    BY <2>2, <1>3, <1>4, <1>0 DEF RumoursAreSound, HasMember
  <2> QED BY <2>1, <2>2
<1>12. m.stoppedAll => DOMAIN m.timers = {}
  BY <1>0, <1>5 DEF Started
<1> QED BY <1>7, <1>8, <1>9, <1>10, <1>11, <1>12 DEF NodeInv

\* Membership.prototype.update writes what follows the updates, and nothing
\* else.
LEMMA ApplyFields ==
  ASSUME NEW self, NEW n, NEW b, NEW t, IsNode(n)
  PROVE  LET m    == Apply(self, n, b, t)
             u    == Updates(self, n.members, b, t)
             ring == RingAfter(n, u)
         IN  /\ m \in NodeShape(m)
             /\ m.ready = n.ready /\ m.stash = n.stash
             /\ m.stoppedAll = n.stoppedAll /\ m.gossiping = n.gossiping
             /\ m.members = Overlay(n.members, Records(u))
             /\ m.timers = TimersAfter(self, n, u)
             /\ m.ring = ring
             /\ m.changes = ChangesAfter(n, u)
             /\ m.maxCount = IF ring # n.ring THEN AdjustedCount(ring) ELSE n.maxCount
<1> DEFINE u == Updates(self, n.members, b, t)
           ring == RingAfter(n, u)
<1> HIDE DEF u
<1> QED BY DEF IsNode, NodeShape, Apply, u

\* What a batch must be like for Apply: it asserts no later incarnation of
\* the local member than the clock, is the local member's own makeAlive when
\* there is no local member yet, and is about nobody else before the node is
\* ready.
CanApply(self, n, b, t) ==
  /\ IsMap(b, Change)
  /\ self \in DOMAIN b => /\ b[self].inc <= t
                          /\ HasMember(n, self) \/ b[self].status = "alive"
  /\ n.ready \/ (DOMAIN b = {self} /\ self \in DOMAIN b)

\* Membership.prototype.update with its listener preserves the invariant.
LEMMA ApplyInv ==
  ASSUME NEW self, NEW n, NEW b, NEW t \in Nat,
         NodeInv(self, n, t), CanApply(self, n, b, t)
  PROVE  NodeInv(self, Apply(self, n, b, t), t)
<1> DEFINE m == Apply(self, n, b, t)
           u == Updates(self, n.members, b, t)
           ring == RingAfter(n, u)
<1>1. IsNode(n) /\ LocalMemberIsSound(self, n, t) /\ self \notin DOMAIN n.stash
  BY DEF NodeInv
<1>2. IsMap(b, Change)
  BY DEF CanApply
<1>3. IsMap(u, Change) /\ DOMAIN u \subseteq DOMAIN b
  BY <1>2, UpdatesType
<1>4. self \in DOMAIN u => u[self].status \in {"alive", "leave"} /\ u[self].inc <= t
  <2> SUFFICES ASSUME self \in DOMAIN u
               PROVE  u[self].status \in {"alive", "leave"} /\ u[self].inc <= t
    OBVIOUS
  <2>1. self \in DOMAIN b
    BY <1>3
  <2>2. b[self].inc <= t /\ (self \in DOMAIN n.members \/ b[self].status = "alive")
    BY <2>1 DEF CanApply, HasMember
  <2> QED BY <2>2, <1>2, UpdateOfSelf
<1>5. /\ m \in NodeShape(m)
      /\ m.ready = n.ready /\ m.stash = n.stash /\ m.stoppedAll = n.stoppedAll
      /\ m.gossiping = n.gossiping
      /\ m.members = Overlay(n.members, Records(u))
      /\ m.timers = TimersAfter(self, n, u)
      /\ m.ring = ring
      /\ m.changes = ChangesAfter(n, u)
      /\ m.maxCount = IF ring # n.ring THEN AdjustedCount(ring) ELSE n.maxCount
  BY <1>1, ApplyFields
<1>6. ring \subseteq Addr
  BY <1>1, <1>3 DEF IsNode, RingAfter, WithStatus, IsMap
<1>7. m.maxCount \in Nat
  BY <1>1, <1>5, <1>6, AdjustedCountType DEF IsNode
<1>8. /\ n.ready \in BOOLEAN /\ n.gossiping \in BOOLEAN /\ IsMap(n.stash, Change)
      /\ IsMap(n.members, Record)
  BY <1>1 DEF IsNode
<1>9. DOMAIN m.members = DOMAIN n.members \cup DOMAIN u
  <2> HIDE DEF u, m
  <2>1. Updated(Record, n.members, u, m.members)
    BY <1>3, <1>5, <1>8, MembersAfter
  <2> QED BY <2>1 DEF Updated
<1>10. m.ready => HasMember(m, self)
  BY <1>1, <1>5, <1>9 DEF LocalMemberIsSound, HasMember
<1>11. ~m.ready => DOMAIN m.members \subseteq {self}
  BY <1>1, <1>3, <1>5, <1>9 DEF LocalMemberIsSound, CanApply
<1> HIDE DEF m, u, ring
<1>12. NodeInv(self, m, t)
  BY <1>1, <1>3, <1>4, <1>5, <1>7, <1>8, <1>10, <1>11, UpdatedNode DEF ring
<1> QED BY <1>12 DEF m

----------------------------------------------------------------------------
(* The stash *)

\* Merging a changeset into an index keeps it a map without the local member.
LEMMA MergeType ==
  ASSUME NEW self, NEW index, NEW b, IsMap(index, Change), IsMap(b, Change),
         self \notin DOMAIN index
  PROVE  /\ IsMap(MergeChangeset(self, index, b), Change)
         /\ self \notin DOMAIN MergeChangeset(self, index, b)
<1> DEFINE D == {x \in DOMAIN b \ {self} :
                   x \notin DOMAIN index \/ index[x].inc < b[x].inc}
           g == [a \in D |-> b[a]]
<1>1. DOMAIN g \subseteq DOMAIN b /\ self \notin DOMAIN g
  OBVIOUS
<1>2. IsMap(g, Change)
  BY <1>1 DEF IsMap
<1>3. MergeChangeset(self, index, b) = Overlay(index, g)
  BY DEF MergeChangeset
<1> HIDE DEF g
<1>4. IsMap(Overlay(index, g), Change)
  BY <1>2, OverlayIsMap
<1>5. DOMAIN Overlay(index, g) = DOMAIN index \cup DOMAIN g
  BY OverlayDomain
<1> QED BY <1>1, <1>3, <1>4, <1>5

\* An update before the node is ready only fills the stash.
LEMMA StashInv ==
  ASSUME NEW self, NEW n, NEW b, NEW t \in Nat,
         NodeInv(self, n, t), IsMap(b, Change)
  PROVE  NodeInv(self, [n EXCEPT !.stash = MergeChangeset(self, @, b)], t)
<1> DEFINE m == [n EXCEPT !.stash = MergeChangeset(self, @, b)]
           s == MergeChangeset(self, n.stash, b)
<1>1. n \in NodeShape(n) /\ IsMap(n.stash, Change) /\ self \notin DOMAIN n.stash
  BY DEF NodeInv, IsNode
<1>2. IsMap(s, Change) /\ self \notin DOMAIN s
  BY <1>1, MergeType
<1> HIDE DEF s
<1>3. /\ m \in NodeShape(m) /\ m.ready = n.ready /\ m.members = n.members
      /\ m.stash = s /\ m.timers = n.timers /\ m.stoppedAll = n.stoppedAll
      /\ m.ring = n.ring /\ m.changes = n.changes /\ m.maxCount = n.maxCount
      /\ m.gossiping = n.gossiping
  BY <1>1 DEF NodeShape, s
<1> HIDE DEF m
<1>4. NodeInv(self, m, t)
  BY <1>2, <1>3 DEF NodeInv, IsNode, LocalMemberIsSound, TimersAreSound,
                    RingIsSound, RumoursAreSound, HasMember
<1> QED BY <1>4 DEF m

----------------------------------------------------------------------------
(* Membership.prototype.update, called by a handler or by make* *)

LEMMA UpdateInv ==
  ASSUME NEW self, NEW n, NEW b, NEW t \in Nat,
         NodeInv(self, n, t), IsMap(b, Change),
         self \in DOMAIN b => b[self].inc <= t
  PROVE  NodeInv(self, Update(self, n, b, t), t)
<1>1. CASE n.ready
  <2>1. CanApply(self, n, b, t)
    BY <1>1 DEF NodeInv, LocalMemberIsSound, CanApply
  <2> QED BY <1>1, <2>1, ApplyInv DEF Update
<1>2. CASE ~n.ready
  BY <1>2, StashInv DEF Update
<1> QED BY <1>1, <1>2

LEMMA MakeUpdateInv ==
  ASSUME NEW self \in Addr, NEW n, NEW a \in Addr, NEW status \in Status,
         NEW inc \in Nat, NEW t \in Nat,
         NodeInv(self, n, t), a = self => inc <= t
  PROVE  NodeInv(self, MakeUpdate(self, n, a, status, inc, t), t)
<1> DEFINE b == MakeBatch(self, n, a, status, inc)
<1>1. IsMap(n.members, Record)
  BY DEF NodeInv, IsNode
<1>2. HasMember(n, self) => n.members[self].inc \in Nat
  BY <1>1 DEF IsMap, HasMember, Record
<1>3. /\ IsMap(b, Change) /\ DOMAIN b = {a}
      /\ b[a].inc = inc /\ b[a].status = status
  BY <1>2 DEF MakeBatch, IsMap, Change
<1> HIDE DEF b
<1>4. CASE status = "alive" /\ a = self
  <2>1. CanApply(self, n, b, t)
    BY <1>3, <1>4 DEF CanApply
  <2>2. NodeInv(self, Apply(self, n, b, t), t)
    BY <2>1, ApplyInv
  <2> QED BY <1>4, <2>2 DEF MakeUpdate, b
<1>5. CASE ~(status = "alive" /\ a = self)
  <2>1. NodeInv(self, Update(self, n, b, t), t)
    BY <1>3, UpdateInv
  <2> QED BY <1>5, <2>1 DEF MakeUpdate, b
<1> QED BY <1>4, <1>5

----------------------------------------------------------------------------
(* Becoming ready *)

\* set() neither stops timers nor removes servers, and need not: a node that
\* is not ready knows only itself, so there are none to stop or to remove.
LEMMA ReadyAsUpdated ==
  ASSUME NEW self, NEW n, NEW t \in Nat, NodeInv(self, n, t), ~n.ready
  PROVE  /\ BecomeReady(self, n).members = Overlay(n.members, Records(n.stash))
         /\ BecomeReady(self, n).timers = TimersAfter(self, n, n.stash)
         /\ BecomeReady(self, n).ring = RingAfter(n, n.stash)
         /\ BecomeReady(self, n).stoppedAll = n.stoppedAll
<1> DEFINE m == BecomeReady(self, n)
           u == n.stash
<1>1. /\ IsNode(n) /\ LocalMemberIsSound(self, n, t) /\ TimersAreSound(self, n)
      /\ RingIsSound(n) /\ self \notin DOMAIN u
  BY DEF NodeInv
<1>2. IsMap(n.timers, Nat)
  BY <1>1 DEF IsNode
<1>3. DOMAIN n.members \subseteq {self}
  BY <1>1 DEF LocalMemberIsSound
<1>4. DOMAIN n.timers = {}
  BY <1>1, <1>3 DEF TimersAreSound, HasMember
<1>5. n.ring \subseteq {self}
  BY <1>1, <1>3 DEF RingIsSound, HasMember
<1>6. /\ m.members = Overlay(n.members, Records(u))
      /\ m.timers = Overlay(n.timers, [a \in Started(self, n, u) |-> u[a].inc])
      /\ m.ring = n.ring \cup WithStatus(u, {"alive"})
      /\ m.stoppedAll = n.stoppedAll
  <2>1. n \in NodeShape(n)
    BY <1>1 DEF IsNode
  <2> QED BY <2>1 DEF NodeShape, BecomeReady, StartGossip, SetMembership
<1>7. m.timers = TimersAfter(self, n, u)
  <2> DEFINE S == WithStatus(u, {"alive", "faulty", "leave"})
             k == [a \in DOMAIN n.timers \ S |-> n.timers[a]]
  <2>1. k = n.timers
    BY <1>2, <1>4 DEF IsMap
  <2>2. TimersAfter(self, n, u)
          = Overlay(k, [a \in Started(self, n, u) |-> u[a].inc])
    BY DEF TimersAfter
  <2> QED BY <2>1, <2>2, <1>6
<1>8. m.ring = RingAfter(n, u)
  BY <1>1, <1>5, <1>6 DEF RingAfter, WithStatus
<1> QED BY <1>6, <1>7, <1>8

\* set() ignores the override rules and neither stops timers nor removes
\* servers.  Nothing is lost by it: a node that is not ready knows only
\* itself, and the stash is about others.
LEMMA BecomeReadyInv ==
  ASSUME NEW self, NEW n, NEW t \in Nat,
         NodeInv(self, n, t), ~n.ready, HasMember(n, self)
  PROVE  NodeInv(self, BecomeReady(self, n), t)
<1> DEFINE m == BecomeReady(self, n)
           u == n.stash
<1>1. IsNode(n) /\ self \notin DOMAIN u
  BY DEF NodeInv
<1>2. IsMap(u, Change)
  BY <1>1 DEF IsNode
<1>3. /\ m \in NodeShape(m) /\ m.ready = TRUE /\ m.gossiping = TRUE
      /\ m.members = Overlay(n.members, Records(u))
      /\ m.changes = ChangesAfter(n, u)
      /\ m.stash = NoMap /\ m.stoppedAll = n.stoppedAll /\ m.maxCount = n.maxCount
  <2>1. n \in NodeShape(n)
    BY <1>1 DEF IsNode
  <2> QED BY <2>1 DEF NodeShape, BecomeReady, StartGossip, SetMembership
<1>4. m.timers = TimersAfter(self, n, u) /\ m.ring = RingAfter(n, u)
  BY ReadyAsUpdated
<1>5. IsMap(m.stash, Change) /\ self \notin DOMAIN m.stash
  BY <1>3 DEF NoMap, IsMap
<1>6. HasMember(m, self)
  BY <1>3, OverlayDomain DEF HasMember
<1>7. m.maxCount \in Nat
  BY <1>1, <1>3 DEF IsNode
<1> HIDE DEF m, u
<1>8. NodeInv(self, m, t)
  BY <1>1, <1>2, <1>3, <1>4, <1>5, <1>6, <1>7, UpdatedNode
<1> QED BY <1>8 DEF m

----------------------------------------------------------------------------
(* Issuing changes, and the subprotocols *)

\* Issuing counts and forgets rumours, it does not change what they say.
LEMMA AfterIssueInv ==
  ASSUME NEW self, NEW n, NEW filtered \in SUBSET DOMAIN n.changes,
         NEW t \in Nat, NodeInv(self, n, t)
  PROVE  NodeInv(self, AfterIssue(n, filtered), t)
<1> DEFINE m == AfterIssue(n, filtered)
           c == [a \in filtered \cup Issued(n, filtered) |->
                   IF a \in filtered THEN n.changes[a]
                                     ELSE [n.changes[a] EXCEPT !.count = @ + 1]]
<1>1. n \in NodeShape(n) /\ IsMap(n.changes, Rumor) /\ RumoursAreSound(n)
  BY DEF NodeInv, IsNode
<1>2. DOMAIN c \subseteq DOMAIN n.changes
  BY DEF Issued
<1>3. \A a \in DOMAIN c : /\ c[a] \in Rumor
                         /\ c[a].status = n.changes[a].status
                         /\ c[a].inc = n.changes[a].inc
  BY <1>1, <1>2 DEF IsMap, Rumor
<1>4. IsMap(c, Rumor)
  BY <1>1, <1>2, <1>3 DEF IsMap
<1>5. /\ m \in NodeShape(m) /\ m.ready = n.ready /\ m.members = n.members
      /\ m.stash = n.stash /\ m.timers = n.timers /\ m.stoppedAll = n.stoppedAll
      /\ m.ring = n.ring /\ m.changes = c /\ m.maxCount = n.maxCount
      /\ m.gossiping = n.gossiping
  BY <1>1 DEF NodeShape, AfterIssue
<1> HIDE DEF m, c
<1>6. RumoursAreSound(m)
  BY <1>1, <1>2, <1>3, <1>5 DEF RumoursAreSound, HasMember
<1>7. NodeInv(self, m, t)
  BY <1>4, <1>5, <1>6 DEF NodeInv, IsNode, LocalMemberIsSound, TimersAreSound,
                          RingIsSound, HasMember
<1> QED BY <1>7 DEF m

\* A node m that differs from n in its timers, which m may have lost, and in
\* which subprotocols run.
LEMMA StoppedOrStarted ==
  ASSUME NEW self, NEW n, NEW m, NEW t \in Nat, NodeInv(self, n, t),
         m \in NodeShape(m), m.ready = n.ready, m.members = n.members,
         m.stash = n.stash, m.ring = n.ring, m.changes = n.changes,
         m.maxCount = n.maxCount, m.timers = n.timers \/ m.timers = NoMap,
         m.stoppedAll \in BOOLEAN, m.gossiping \in BOOLEAN,
         m.stoppedAll => DOMAIN m.timers = {}
  PROVE  NodeInv(self, m, t)
<1>1. IsMap(m.timers, Nat)
  BY DEF NodeInv, IsNode, IsMap, NoMap
<1>2. IsNode(m)
  BY <1>1 DEF NodeInv, IsNode
<1>3. TimersAreSound(self, m)
  BY DEF NodeInv, TimersAreSound, HasMember, NoMap
<1> QED BY <1>2, <1>3 DEF NodeInv, LocalMemberIsSound, RingIsSound, RumoursAreSound, HasMember

LEMMA StopProtocolsInv ==
  ASSUME NEW self, NEW n, NEW t \in Nat, NodeInv(self, n, t)
  PROVE  NodeInv(self, StopProtocols(n), t)
<1> DEFINE m == StopProtocols(n)
<1>1. n \in NodeShape(n)
  BY DEF NodeInv, IsNode
<1>2. /\ m \in NodeShape(m) /\ m.ready = n.ready /\ m.members = n.members
      /\ m.stash = n.stash /\ m.timers = NoMap /\ m.stoppedAll = TRUE
      /\ m.ring = n.ring /\ m.changes = n.changes /\ m.maxCount = n.maxCount
      /\ m.gossiping = FALSE
  BY <1>1 DEF NodeShape, StopProtocols
<1>3. DOMAIN m.timers = {}
  BY <1>2 DEF NoMap
<1> HIDE DEF m
<1>4. NodeInv(self, m, t)
  BY <1>2, <1>3, StoppedOrStarted
<1> QED BY <1>4 DEF m

LEMMA StartGossipInv ==
  ASSUME NEW self, NEW n, NEW t \in Nat, NodeInv(self, n, t)
  PROVE  NodeInv(self, StartGossip(n), t)
<1> DEFINE m == StartGossip(n)
<1>1. n \in NodeShape(n) /\ n.stoppedAll \in BOOLEAN
      /\ (n.stoppedAll => DOMAIN n.timers = {})
  BY DEF NodeInv, IsNode
<1>2. /\ m \in NodeShape(m) /\ m.ready = n.ready /\ m.members = n.members
      /\ m.stash = n.stash /\ m.timers = n.timers /\ m.stoppedAll = n.stoppedAll
      /\ m.ring = n.ring /\ m.changes = n.changes /\ m.maxCount = n.maxCount
      /\ m.gossiping = TRUE
  BY <1>1 DEF NodeShape, StartGossip
<1> HIDE DEF m
<1>3. NodeInv(self, m, t)
  BY <1>1, <1>2, StoppedOrStarted
<1> QED BY <1>3 DEF m

LEMMA ReenableInv ==
  ASSUME NEW self, NEW n, NEW t \in Nat, NodeInv(self, n, t)
  PROVE  NodeInv(self, Reenable(n), t)
<1> DEFINE m == Reenable(n)
<1>1. n \in NodeShape(n) /\ n.gossiping \in BOOLEAN
  BY DEF NodeInv, IsNode
<1>2. /\ m \in NodeShape(m) /\ m.ready = n.ready /\ m.members = n.members
      /\ m.stash = n.stash /\ m.timers = n.timers /\ m.stoppedAll = FALSE
      /\ m.ring = n.ring /\ m.changes = n.changes /\ m.maxCount = n.maxCount
      /\ m.gossiping = n.gossiping
  BY <1>1 DEF NodeShape, Reenable
<1> HIDE DEF m
<1>3. NodeInv(self, m, t)
  BY <1>1, <1>2, StoppedOrStarted
<1> QED BY <1>3 DEF m

\* The clock advances.
LEMMA LaterInv ==
  ASSUME NEW self, NEW n, NEW t \in Nat, NodeInv(self, n, t)
  PROVE  NodeInv(self, n, t + 1)
<1>1. HasMember(n, self) => n.members[self].inc \in Nat
  BY DEF NodeInv, IsNode, IsMap, HasMember, Record
<1> QED BY <1>1 DEF NodeInv, LocalMemberIsSound

----------------------------------------------------------------------------
(* What a call leaves alone, and how it moves the membership list *)

\* m is n after updates, issues or nothing.
Keeps(self, n, m) ==
  /\ m.ready = n.ready
  /\ m.gossiping = n.gossiping
  /\ m.stoppedAll = n.stoppedAll
  /\ OnlyForward(self, n, m)
  /\ PeriodsKept(n, m)

\* Every accepted change moves the record of its member forward: the override
\* rules, and the clock for the answer to a local override.
LEMMA UpdatesForward ==
  ASSUME NEW self, NEW n, NEW b, NEW t \in Nat, NodeInv(self, n, t),
         IsMap(b, Change), NEW a \in DOMAIN Updates(self, n.members, b, t),
         a \in DOMAIN n.members
  PROVE  LET c == Updates(self, n.members, b, t)[a] IN
         /\ c.inc >= n.members[a].inc
         /\ a # self /\ c.inc = n.members[a].inc
              => Rank[c.status] >= Rank[n.members[a].status]
<1>1. IsMap(n.members, Record) /\ LocalMemberIsSound(self, n, t)
  BY DEF NodeInv, IsNode
<1>2. n.members[a].status \in Status /\ n.members[a].inc \in Nat
  BY <1>1 DEF IsMap, Record
<1>3. a \in DOMAIN b /\ a \in Accepted(self, n.members, b)
  BY DEF Updates, Accepted
<1>4. b[a].status \in Status /\ b[a].inc \in Nat
  BY <1>3 DEF IsMap, Change
<1>5. CASE IsLocalOverride(self, a, b[a])
  <2>1. Updates(self, n.members, b, t)[a].inc = t /\ a = self
    BY <1>3, <1>5 DEF Updates, Reassert, IsLocalOverride
  <2>2. n.members[a].inc <= t
    BY <1>1, <2>1 DEF LocalMemberIsSound, HasMember
  <2> QED BY <1>2, <2>1, <2>2
<1>6. CASE ~IsLocalOverride(self, a, b[a])
  <2>1. Updates(self, n.members, b, t)[a] = b[a]
    BY <1>3, <1>6 DEF Updates
  <2>2. Overrides(n.members[a], b[a])
    BY <1>3, <1>6 DEF Accepted
  <2>3. b[a].inc >= n.members[a].inc
    BY <1>2, <1>4, <2>2 DEF Overrides, IsAliveOverride, IsSuspectOverride,
                            IsFaultyOverride, IsLeaveOverride
  <2>4. b[a].inc = n.members[a].inc => Rank[b[a].status] >= Rank[n.members[a].status]
    BY <1>2, <1>4, <2>2 DEF Overrides, IsAliveOverride, IsSuspectOverride,
                            IsFaultyOverride, IsLeaveOverride, Rank, Status
  <2> QED BY <2>1, <2>3, <2>4
<1> QED BY <1>5, <1>6

\* Updates that say nothing suspect of the local member leave no suspect
\* without its period.
LEMMA UpdatedPeriods ==
  ASSUME NEW self, NEW n, NEW m, NEW u, NEW t \in Nat,
         NodeInv(self, n, t), IsMap(u, Change),
         m.members = Overlay(n.members, Records(u)),
         m.timers = TimersAfter(self, n, u),
         self \in DOMAIN u => u[self].status \in {"alive", "leave"}
  PROVE  PeriodsKept(n, m)
<1>1. IsMap(n.members, Record) /\ IsMap(n.timers, Nat)
  BY DEF NodeInv, IsNode
<1>2. Updated(Record, n.members, u, m.members)
  BY <1>1, MembersAfter
<1>3. TimersUpdated(self, n, u, m.timers)
  BY <1>1, TimersAfterFacts
<1> SUFFICES ASSUME Suspects(n) \subseteq DOMAIN n.timers, ~n.stoppedAll,
                    NEW a \in Suspects(m)
             PROVE  a \in DOMAIN m.timers
  BY DEF PeriodsKept
<1>4. a \in DOMAIN m.members /\ m.members[a].status = "suspect"
  BY DEF Suspects
<1>5. CASE a \in DOMAIN u
  <2>1. u[a].status = "suspect"
    BY <1>2, <1>4, <1>5 DEF Updated
  <2>2. a \in Started(self, n, u)
    BY <1>5, <2>1 DEF Started, WithStatus
  <2> QED BY <1>3, <2>2 DEF TimersUpdated
<1>6. CASE a \notin DOMAIN u
  <2>1. a \in Suspects(n)
    BY <1>2, <1>4, <1>6 DEF Updated, Suspects
  <2> QED BY <1>3, <1>6, <2>1 DEF TimersUpdated, WithStatus
<1> QED BY <1>5, <1>6

LEMMA ApplyKeeps ==
  ASSUME NEW self, NEW n, NEW b, NEW t \in Nat,
         NodeInv(self, n, t), CanApply(self, n, b, t)
  PROVE  Keeps(self, n, Apply(self, n, b, t))
<1> DEFINE m == Apply(self, n, b, t)
           u == Updates(self, n.members, b, t)
<1>1. IsNode(n) /\ IsMap(b, Change)
  BY DEF NodeInv, CanApply
<1>2. IsMap(u, Change) /\ DOMAIN u \subseteq DOMAIN b
  BY <1>1, UpdatesType
<1>3. self \in DOMAIN u => u[self].status \in {"alive", "leave"}
  <2> SUFFICES ASSUME self \in DOMAIN u
               PROVE  u[self].status \in {"alive", "leave"}
    OBVIOUS
  <2>1. b[self].inc <= t /\ (self \in DOMAIN n.members \/ b[self].status = "alive")
    BY <1>2 DEF CanApply, HasMember
  <2> QED BY <2>1, <1>1, UpdateOfSelf
<1>4. /\ m.ready = n.ready /\ m.stoppedAll = n.stoppedAll /\ m.gossiping = n.gossiping
      /\ m.members = Overlay(n.members, Records(u))
      /\ m.timers = TimersAfter(self, n, u)
  BY <1>1, ApplyFields
<1>5. \A a \in DOMAIN u : a \in DOMAIN n.members =>
         /\ u[a].inc >= n.members[a].inc
         /\ a # self /\ u[a].inc = n.members[a].inc
              => Rank[u[a].status] >= Rank[n.members[a].status]
  BY <1>1, UpdatesForward
<1> HIDE DEF m, u
<1>6. IsMap(n.members, Record)
  BY <1>1 DEF IsNode
<1>7. Updated(Record, n.members, u, m.members)
  BY <1>2, <1>4, <1>6, MembersAfter
<1>8. OnlyForward(self, n, m)
  <2> SUFFICES ASSUME NEW a \in DOMAIN n.members
               PROVE  /\ a \in DOMAIN m.members
                      /\ m.members[a].inc >= n.members[a].inc
                      /\ a # self /\ m.members[a].inc = n.members[a].inc =>
                           Rank[m.members[a].status] >= Rank[n.members[a].status]
    BY DEF OnlyForward, HasMember
  <2>1. CASE a \in DOMAIN u
    BY <1>5, <1>7, <2>1 DEF Updated
  <2>2. CASE a \notin DOMAIN u
    <3>1. a \in DOMAIN m.members /\ m.members[a] = n.members[a]
      BY <1>7, <2>2 DEF Updated
    <3>2. n.members[a].status \in Status /\ n.members[a].inc \in Nat
      BY <1>6 DEF IsMap, Record
    <3> QED BY <3>1, <3>2 DEF Rank, Status
  <2> QED BY <2>1, <2>2
<1>9. PeriodsKept(n, m)
  BY <1>2, <1>3, <1>4, UpdatedPeriods
<1>10. Keeps(self, n, m)
  BY <1>4, <1>8, <1>9 DEF Keeps
<1> QED BY <1>10 DEF m

\* A node with the same members and timers.
LEMMA SameKeeps ==
  ASSUME NEW self, NEW n, NEW m, IsMap(n.members, Record),
         m.members = n.members, m.timers = n.timers, m.stoppedAll = n.stoppedAll
  PROVE  OnlyForward(self, n, m) /\ PeriodsKept(n, m)
<1>1. \A a \in DOMAIN n.members :
        n.members[a].status \in Status /\ n.members[a].inc \in Nat
  BY DEF IsMap, Record
<1>2. OnlyForward(self, n, m)
  BY <1>1 DEF OnlyForward, HasMember, Rank, Status
<1>3. PeriodsKept(n, m)
  BY DEF PeriodsKept, Suspects
<1> QED BY <1>2, <1>3

\* update(), stashing or not.
LEMMA UpdateKeeps ==
  ASSUME NEW self, NEW n, NEW b, NEW t \in Nat,
         NodeInv(self, n, t), IsMap(b, Change),
         self \in DOMAIN b => b[self].inc <= t
  PROVE  Keeps(self, n, Update(self, n, b, t))
<1>1. CASE n.ready
  <2>1. CanApply(self, n, b, t)
    BY <1>1 DEF NodeInv, LocalMemberIsSound, CanApply
  <2> QED BY <1>1, <2>1, ApplyKeeps DEF Update
<1>2. CASE ~n.ready
  <2> DEFINE m == [n EXCEPT !.stash = MergeChangeset(self, @, b)]
  <2>1. n \in NodeShape(n) /\ IsMap(n.members, Record)
    BY DEF NodeInv, IsNode
  <2>2. /\ m.ready = n.ready /\ m.members = n.members /\ m.timers = n.timers
        /\ m.stoppedAll = n.stoppedAll /\ m.gossiping = n.gossiping
    BY <2>1 DEF NodeShape
  <2>3. Update(self, n, b, t) = m
    BY <1>2 DEF Update
  <2> HIDE DEF m
  <2>4. OnlyForward(self, n, m) /\ PeriodsKept(n, m)
    BY <2>1, <2>2, SameKeeps
  <2> QED BY <2>2, <2>3, <2>4 DEF Keeps
<1> QED BY <1>1, <1>2

LEMMA MakeUpdateKeeps ==
  ASSUME NEW self \in Addr, NEW n, NEW a \in Addr, NEW status \in Status,
         NEW inc \in Nat, NEW t \in Nat,
         NodeInv(self, n, t), a = self => inc <= t
  PROVE  Keeps(self, n, MakeUpdate(self, n, a, status, inc, t))
<1> DEFINE b == MakeBatch(self, n, a, status, inc)
<1>1. IsMap(n.members, Record)
  BY DEF NodeInv, IsNode
<1>2. HasMember(n, self) => n.members[self].inc \in Nat
  BY <1>1 DEF IsMap, HasMember, Record
<1>3. /\ IsMap(b, Change) /\ DOMAIN b = {a}
      /\ b[a].inc = inc /\ b[a].status = status
  BY <1>2 DEF MakeBatch, IsMap, Change
<1> HIDE DEF b
<1>4. CASE status = "alive" /\ a = self
  <2>1. CanApply(self, n, b, t)
    BY <1>3, <1>4 DEF CanApply
  <2>2. Keeps(self, n, Apply(self, n, b, t))
    BY <2>1, ApplyKeeps
  <2> QED BY <1>4, <2>2 DEF MakeUpdate, b
<1>5. CASE ~(status = "alive" /\ a = self)
  <2>1. Keeps(self, n, Update(self, n, b, t))
    BY <1>3, UpdateKeeps
  <2> QED BY <1>5, <2>1 DEF MakeUpdate, b
<1> QED BY <1>4, <1>5

\* After the local member's makeAlive there is a local member.
LEMMA MakeAliveAdds ==
  ASSUME NEW self \in Addr, NEW n, NEW t \in Nat, NodeInv(self, n, t)
  PROVE  HasMember(MakeUpdate(self, n, self, "alive", t, t), self)
<1> DEFINE b == MakeBatch(self, n, self, "alive", t)
           u == Updates(self, n.members, b, t)
           m == MakeUpdate(self, n, self, "alive", t, t)
<1>1. n \in NodeShape(n)
  BY DEF NodeInv, IsNode
<1>2. m = Apply(self, n, b, t)
  BY DEF MakeUpdate
<1>3. m.members = Overlay(n.members, Records(u))
  <2> HIDE DEF u, b, m
  <2> QED BY <1>1, <1>2 DEF NodeShape, Apply, u
<1>4. DOMAIN m.members = DOMAIN n.members \cup DOMAIN u
  BY <1>3, OverlayDomain DEF Records
<1>5. self \in DOMAIN n.members \/ self \in DOMAIN u
  BY DEF Updates, Accepted, MakeBatch
<1> QED BY <1>4, <1>5 DEF HasMember

\* Issuing touches neither the member list nor the timers.
LEMMA AfterIssueKeeps ==
  ASSUME NEW self, NEW n, NEW filtered, NEW t \in Nat, NodeInv(self, n, t)
  PROVE  Keeps(self, n, AfterIssue(n, filtered))
<1> DEFINE m == AfterIssue(n, filtered)
<1>1. n \in NodeShape(n) /\ IsMap(n.members, Record)
  BY DEF NodeInv, IsNode
<1>2. /\ m.ready = n.ready /\ m.members = n.members /\ m.timers = n.timers
      /\ m.stoppedAll = n.stoppedAll /\ m.gossiping = n.gossiping
  BY <1>1 DEF NodeShape, AfterIssue
<1> HIDE DEF m
<1>3. OnlyForward(self, n, m) /\ PeriodsKept(n, m)
  BY <1>1, <1>2, SameKeeps
<1>4. Keeps(self, n, m)
  BY <1>2, <1>3 DEF Keeps
<1> QED BY <1>4 DEF m

\* set() writes only about members the node did not know.
LEMMA BecomeReadyKeeps ==
  ASSUME NEW self, NEW n, NEW t \in Nat, NodeInv(self, n, t), ~n.ready
  PROVE  /\ OnlyForward(self, n, BecomeReady(self, n))
         /\ PeriodsKept(n, BecomeReady(self, n))
<1> DEFINE m == BecomeReady(self, n)
           u == n.stash
           r == [a \in Started(self, n, u) |-> u[a].inc]
<1>1. /\ n \in NodeShape(n) /\ IsMap(n.members, Record) /\ IsMap(u, Change)
      /\ self \notin DOMAIN u /\ DOMAIN n.members \subseteq {self}
  BY DEF NodeInv, IsNode, LocalMemberIsSound
<1>2. /\ m.members = Overlay(n.members, Records(u))
      /\ m.timers = Overlay(n.timers, r)
  BY <1>1 DEF NodeShape, BecomeReady, StartGossip, SetMembership
<1> HIDE DEF m, r
<1>3. Updated(Record, n.members, u, m.members)
  BY <1>1, <1>2, MembersAfter
<1>4. DOMAIN m.timers = DOMAIN n.timers \cup DOMAIN r
  BY <1>2, OverlayDomain
<1>5. DOMAIN r = Started(self, n, u)
  BY DEF r
<1>6. \A a \in DOMAIN n.members : a \in DOMAIN m.members /\ m.members[a] = n.members[a]
  BY <1>1, <1>3 DEF Updated
<1>7. OnlyForward(self, n, m)
  <2>1. \A a \in DOMAIN n.members :
          n.members[a].status \in Status /\ n.members[a].inc \in Nat
    BY <1>1 DEF IsMap, Record
  <2> QED BY <1>6, <2>1 DEF OnlyForward, HasMember, Rank, Status
<1>8. PeriodsKept(n, m)
  <2> SUFFICES ASSUME Suspects(n) \subseteq DOMAIN n.timers, ~n.stoppedAll,
                      NEW a \in Suspects(m)
               PROVE  a \in DOMAIN m.timers
    BY DEF PeriodsKept
  <2>1. CASE a \in DOMAIN u
    BY <1>1, <1>3, <1>4, <1>5, <2>1 DEF Updated, Started, WithStatus, Suspects
  <2>2. CASE a \notin DOMAIN u
    BY <1>3, <1>4, <2>2 DEF Updated, Suspects
  <2> QED BY <2>1, <2>2
<1> QED BY <1>7, <1>8 DEF m

----------------------------------------------------------------------------
(* Calls made of two *)

\* A call that keeps n, followed by one that moves the list forward.
LEMMA KeepsThen ==
  ASSUME NEW self, NEW n, NEW m, NEW k,
         IsMap(n.members, Record), IsMap(m.members, Record), IsMap(k.members, Record),
         Keeps(self, n, m), OnlyForward(self, m, k), PeriodsKept(m, k)
  PROVE  OnlyForward(self, n, k) /\ PeriodsKept(n, k)
<1>1. OnlyForward(self, n, k)
  <2> SUFFICES ASSUME NEW a \in DOMAIN n.members
               PROVE  /\ a \in DOMAIN k.members
                      /\ k.members[a].inc >= n.members[a].inc
                      /\ a # self /\ k.members[a].inc = n.members[a].inc =>
                           Rank[k.members[a].status] >= Rank[n.members[a].status]
    BY DEF OnlyForward, HasMember
  <2>1. /\ a \in DOMAIN m.members /\ m.members[a].inc >= n.members[a].inc
        /\ a # self /\ m.members[a].inc = n.members[a].inc =>
             Rank[m.members[a].status] >= Rank[n.members[a].status]
    BY DEF Keeps, OnlyForward, HasMember
  <2>2. /\ a \in DOMAIN k.members /\ k.members[a].inc >= m.members[a].inc
        /\ a # self /\ k.members[a].inc = m.members[a].inc =>
             Rank[k.members[a].status] >= Rank[m.members[a].status]
    BY <2>1 DEF OnlyForward, HasMember
  <2>3. n.members[a] \in Record /\ m.members[a] \in Record /\ k.members[a] \in Record
    BY <2>1, <2>2 DEF IsMap
  <2>4. \A s \in Status : Rank[s] \in Nat
    BY DEF Rank, Status
  <2> QED BY <2>1, <2>2, <2>3, <2>4 DEF Record
<1>2. PeriodsKept(n, k)
  BY DEF Keeps, PeriodsKept
<1> QED BY <1>1, <1>2

\* ... and one that stops or starts the subprotocols.
LEMMA KeepsThenSame ==
  ASSUME NEW self, NEW n, NEW m, NEW k,
         IsMap(n.members, Record), IsMap(m.members, Record),
         Keeps(self, n, m), k.members = m.members,
         k.timers = m.timers \/ k.stoppedAll
  PROVE  OnlyForward(self, n, k) /\ PeriodsKept(n, k)
BY DEF Keeps, OnlyForward, PeriodsKept, Suspects, HasMember
=============================================================================
