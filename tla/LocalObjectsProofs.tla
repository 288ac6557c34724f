-------------------------- MODULE LocalObjectsProofs --------------------------
(***************************************************************************)
(* Proofs about three objects that a node keeps for itself, which answer   *)
(* every call at once and wait for no message: the member iterator, the    *)
(* hash ring and the update rollup.                                        *)
(***************************************************************************)
EXTENDS MemberIterator, FunctionTheorems, FiniteSetTheorems, SequenceTheorems, TLAPS

CONSTANTS Server, PointsOf          \* of HashRing
VARIABLES servers, points           \* of HashRing

CONSTANTS FlushInterval, Unset                              \* of UpdateRollup
VARIABLES buffer, timer, updated, destroyed, since, burst   \* of UpdateRollup

Ring == INSTANCE HashRing
Rollup == INSTANCE UpdateRollup

----------------------------------------------------------------------------
(* The member iterator: lists and their orders. *)

\* An order of a finite set lists each of its elements, and lists it once.
LEMMA OrderListsAll ==
  ASSUME NEW S, IsFiniteSet(S), NEW o \in Orders(S)
  PROVE  /\ o \in Seq(S)
         /\ Len(o) = Cardinality(S)
         /\ {o[i] : i \in DOMAIN o} = S
         /\ \A i, j \in DOMAIN o : o[i] = o[j] => i = j
<1> DEFINE n == Cardinality(S)
<1>1. n \in Nat
  BY FS_CardinalityType
<1>2. o \in [1..n -> S] /\ \A i, j \in DOMAIN o : o[i] = o[j] => i = j
  BY DEF Orders
<1>3. o \in Seq(S) /\ Len(o) = n
  BY <1>1, <1>2
<1>4. o \in Injection(1..n, S)
  BY <1>2 DEF Injection, IsInjective
<1>5. Cardinality(1..n) = n
  BY <1>1, FS_Interval
<1>6. o \in Surjection(1..n, S)
  BY <1>4, <1>5, FS_Injection
<1>7. {o[i] : i \in DOMAIN o} = S
  BY <1>2, <1>6 DEF Surjection
<1> QED BY <1>2, <1>3, <1>7

\* What splice(i, 0, a) does to the positions of a list.
LEMMA SpliceMoves ==
  ASSUME members \in Seq(Addr), NEW a \in Addr, NEW i \in 0..(Len(members) - 1)
  PROVE  /\ Spliced(a, i) \in Seq(Addr)
         /\ Len(Spliced(a, i)) = Len(members) + 1
         /\ Spliced(a, i)[i + 1] = a
         /\ \A k \in 1..i : Spliced(a, i)[k] = members[k]
         /\ \A k \in (i + 1)..Len(members) : Spliced(a, i)[k + 1] = members[k]
<1> DEFINE n    == Len(members)
           low  == SubSeq(members, 1, i)
           high == SubSeq(members, i + 1, n)
<1>1. n \in Nat /\ i \in Nat /\ i < n /\ \A k \in 1..n : members[k] \in Addr
  OBVIOUS
<1>2. low \in Seq(Addr) /\ Len(low) = i /\ \A k \in 1..i : low[k] = members[k]
  <2>1. \A k \in 1..i : members[k] \in Addr
    BY <1>1
  <2> QED BY <1>1, <2>1, SubSeqProperties
<1>3. /\ high \in Seq(Addr) /\ Len(high) = n - i
      /\ \A k \in 1..(n - i) : high[k] = members[i + k]
  <2>1. \A k \in (i + 1)..n : members[k] \in Addr
    BY <1>1
  <2> QED BY <1>1, <2>1, SubSeqProperties
<1>4. <<a>> \in Seq(Addr) /\ Len(<<a>>) = 1 /\ <<a>>[1] = a
  OBVIOUS
<1>5. Spliced(a, i) = low \o <<a>> \o high
  BY DEF Spliced
<1> HIDE DEF low, high, n
<1>6. /\ low \o <<a>> \in Seq(Addr) /\ Len(low \o <<a>>) = i + 1
      /\ \A k \in 1..(i + 1) :
           (low \o <<a>>)[k] = IF k <= i THEN low[k] ELSE <<a>>[k - i]
  BY <1>1, <1>2, <1>4, ConcatProperties
<1> DEFINE start == low \o <<a>>
<1> HIDE DEF start
<1>7. /\ start \o high \in Seq(Addr) /\ Len(start \o high) = n + 1
      /\ \A k \in 1..(n + 1) :
           (start \o high)[k] = IF k <= i + 1 THEN start[k] ELSE high[k - (i + 1)]
  <2>1. start \in Seq(Addr) /\ Len(start) = i + 1
    BY <1>6 DEF start
  <2>2. /\ start \o high \in Seq(Addr)
        /\ Len(start \o high) = Len(start) + Len(high)
        /\ \A k \in 1..(Len(start) + Len(high)) :
             (start \o high)[k] = IF k <= Len(start) THEN start[k]
                                                   ELSE high[k - Len(start)]
    BY <1>3, <2>1, ConcatProperties
  <2>3. Len(start) + Len(high) = n + 1
    BY <1>1, <1>3, <2>1
  <2> QED BY <2>1, <2>2, <2>3
<1>8. (start \o high)[i + 1] = a
  <2>1. i + 1 \in 1..(i + 1) /\ ~(i + 1 <= i) /\ (i + 1) - i = 1
    BY <1>1
  <2>2. start[i + 1] = <<a>>[(i + 1) - i]
    BY <1>6, <2>1 DEF start
  <2>3. start[i + 1] = a
    BY <1>4, <2>1, <2>2
  <2>4. i + 1 \in 1..(n + 1) /\ i + 1 <= i + 1
    BY <1>1
  <2> QED BY <1>7, <2>3, <2>4
<1>9. \A k \in 1..i : (start \o high)[k] = members[k]
  <2> SUFFICES ASSUME NEW k \in 1..i PROVE (start \o high)[k] = members[k]
    OBVIOUS
  <2>1. k \in 1..(i + 1) /\ k <= i /\ k \in 1..(n + 1) /\ k <= i + 1
    BY <1>1
  <2>2. start[k] = low[k]
    BY <1>6, <2>1 DEF start
  <2>3. (start \o high)[k] = start[k]
    BY <1>7, <2>1
  <2> QED BY <1>2, <2>2, <2>3
<1>10. \A k \in (i + 1)..n : (start \o high)[k + 1] = members[k]
  BY <1>1, <1>3, <1>7
<1> QED BY <1>5, <1>7, <1>8, <1>9, <1>10 DEF start, n

----------------------------------------------------------------------------
(* The member iterator: its rounds. *)

\* The members that the rest of the round still passes.
Ahead == {members[i] : i \in (index + 1)..Len(members)}

\* Whoever was pingable since the round began, and still is, has been returned
\* or is ahead, unless the list was put into another order.
RoundIsSound ==
  /\ entitled \subseteq Pingable
  /\ ~reordered => entitled \subseteq returned \cup Ahead

IteratorInv == TypeOK /\ RoundIsSound

LEMMA IteratorBegins == Init => IteratorInv
<1> SUFFICES ASSUME Init PROVE IteratorInv
  OBVIOUS
<1>1. IsFiniteSet(Initial)
  BY LocalAssumption, AddrAssumption, FS_Subset
<1>2. /\ members \in Seq(Initial) /\ Listed = Initial
      /\ \A i, j \in DOMAIN members : members[i] = members[j] => i = j
  BY <1>1, OrderListsAll DEF Init, Listed
<1>3. members \in Seq(Addr)
  BY <1>2, LocalAssumption
<1>4. TypeOK
  BY <1>2, <1>3, LocalAssumption, ReordersAssumption DEF Init, TypeOK
<1>5. Pingable \subseteq Ahead
  <2>1. index = 0 /\ DOMAIN members = 1..Len(members)
    BY <1>3 DEF Init
  <2> QED BY <2>1 DEF Pingable, Listed, Ahead
<1> QED BY <1>4, <1>5 DEF Init, IteratorInv, RoundIsSound

\* The list in any order: it holds the same members, and holds each once.
LEMMA ReorderKeepsList ==
  ASSUME TypeOK, members' \in Orders(Listed)
  PROVE  /\ members' \in Seq(Addr)
         /\ Listed' = Listed
         /\ Len(members') >= 1
         /\ \A i, j \in DOMAIN members' : members'[i] = members'[j] => i = j
<1>1. Listed \subseteq Addr /\ Local \in Listed
  BY DEF TypeOK, Listed
<1>2. IsFiniteSet(Listed)
  BY <1>1, AddrAssumption, FS_Subset
<1>3. /\ members' \in Seq(Listed)
      /\ {members'[i] : i \in DOMAIN members'} = Listed
      /\ \A i, j \in DOMAIN members' : members'[i] = members'[j] => i = j
  BY <1>2, OrderListsAll
<1>4. Listed' = Listed
  BY <1>3 DEF Listed
<1>5. members' \in Seq(Addr)
  BY <1>1, <1>3
<1>6. Len(members') >= 1
  <2>1. PICK i \in DOMAIN members' : members'[i] = Local
    BY <1>1, <1>3
  <2> QED BY <1>5, <2>1
<1> QED BY <1>3, <1>4, <1>5, <1>6

\* A turn that goes on: the member it passes is returned if it is pingable.
LEMMA AdvanceKeeps == ASSUME IteratorInv, Advance PROVE IteratorInv'
<1> DEFINE m == members[index + 1]
<1>1. /\ members \in Seq(Addr) /\ index \in Nat /\ index < Len(members)
      /\ UNCHANGED <<members, up, reorders, entitled, reordered>>
  BY DEF IteratorInv, TypeOK, Advance, list
<1>2. index + 1 \in DOMAIN members /\ m \in Listed /\ m \in Addr
  BY <1>1 DEF Listed
<1>3. /\ index' = index + 1
      /\ returned' = IF m \in Pingable THEN returned \cup {m} ELSE returned
      /\ visited' = {} \/ visited' = visited \cup {m}
      /\ last' = m \/ last' = last
  BY DEF Advance, Visit
<1>4. Listed' = Listed /\ Pingable' = Pingable
  BY <1>1 DEF Listed, Pingable
<1>5. TypeOK'
  BY <1>1, <1>2, <1>3, <1>4 DEF IteratorInv, TypeOK
<1>6. Ahead \subseteq Ahead' \cup {m}
  BY <1>1, <1>3 DEF Ahead
<1>7. RoundIsSound'
  BY <1>1, <1>3, <1>4, <1>6 DEF IteratorInv, RoundIsSound
<1> QED BY <1>5, <1>7 DEF IteratorInv

\* A round begins: everybody pingable is entitled, and the first is passed.
LEMMA WrapAroundKeeps == ASSUME IteratorInv, WrapAround PROVE IteratorInv'
<1>1. PICK order \in Orders(Listed) :
        members' = order /\ Visit(order[1], 1) /\ returned' = {order[1]} \cap Pingable
  BY DEF WrapAround
<1>2. UNCHANGED <<up, reorders>> /\ entitled' = Pingable
  BY DEF WrapAround
<1>3. /\ members' \in Seq(Addr) /\ Listed' = Listed /\ Len(members') >= 1
      /\ \A i, j \in DOMAIN members' : members'[i] = members'[j] => i = j
  BY <1>1, ReorderKeepsList DEF IteratorInv
<1> DEFINE m == members'[1]
<1>4. 1 \in DOMAIN members' /\ m \in Listed' /\ m \in Addr
  BY <1>3 DEF Listed
<1>5. /\ index' = 1 /\ returned' = {m} \cap Pingable
      /\ visited' = {} \/ visited' = visited \cup {m}
      /\ last' = m \/ last' = last
  BY <1>1 DEF Visit
<1>6. Pingable' = Pingable
  BY <1>2, <1>3 DEF Pingable
<1>7. TypeOK'
  BY <1>2, <1>3, <1>4, <1>5 DEF IteratorInv, TypeOK
<1>8. Listed' \subseteq Ahead' \cup {m}
  BY <1>3, <1>5 DEF Listed, Ahead
<1>9. RoundIsSound'
  BY <1>2, <1>5, <1>6, <1>8 DEF RoundIsSound, Pingable
<1> QED BY <1>7, <1>9 DEF IteratorInv

\* An insertion leaves whoever is ahead of the iterator ahead of it.
LEMMA AddMemberKeeps ==
  ASSUME IteratorInv, NEW a \in Addr, NEW isUp \in BOOLEAN, AddMember(a, isUp)
  PROVE  IteratorInv'
<1>1. PICK i \in 0..(Len(members) - 1) : members' = Spliced(a, i)
  BY DEF AddMember
<1>2. /\ members \in Seq(Addr) /\ a \notin Listed
      /\ up' = (IF isUp THEN up \cup {a} ELSE up)
      /\ UNCHANGED <<index, visited, last, reorders, returned, entitled, reordered>>
  BY DEF IteratorInv, TypeOK, AddMember, history
<1> DEFINE n == Len(members)
<1>3. /\ members' \in Seq(Addr) /\ Len(members') = n + 1 /\ members'[i + 1] = a
      /\ \A k \in 1..i : members'[k] = members[k]
      /\ \A k \in (i + 1)..n : members'[k + 1] = members[k]
  BY <1>1, <1>2, SpliceMoves
<1>4. /\ n \in Nat /\ i \in 0..(n - 1) /\ DOMAIN members = 1..n
      /\ DOMAIN members' = 1..(n + 1)
  BY <1>1, <1>2, <1>3
<1>5. \A k \in 1..n : \E l \in k..(n + 1) : members'[l] = members[k]
  <2> TAKE k \in 1..n
  <2>1. CASE k <= i
    BY <1>3, <1>4, <2>1
  <2>2. CASE k > i
    <3>1. k + 1 \in k..(n + 1) /\ members'[k + 1] = members[k]
      BY <1>3, <1>4, <2>2
    <3> QED BY <3>1
  <2> QED BY <1>4, <2>1, <2>2
<1>6. Listed' = Listed \cup {a}
  <2>1. Listed \subseteq Listed'
    BY <1>4, <1>5 DEF Listed
  <2>2. a \in Listed'
    BY <1>3, <1>4 DEF Listed
  <2>3. ASSUME NEW l \in 1..(n + 1) PROVE members'[l] \in Listed \cup {a}
    <3>1. CASE l <= i
      BY <1>3, <1>4, <3>1 DEF Listed
    <3>2. CASE l = i + 1
      BY <1>3, <3>2
    <3>3. CASE l > i + 1
      <4>1. l - 1 \in (i + 1)..n /\ l = (l - 1) + 1 /\ l - 1 \in 1..n
        BY <1>4, <3>3
      <4>2. members'[(l - 1) + 1] = members[l - 1]
        BY <1>3, <4>1
      <4> QED BY <1>4, <4>1, <4>2 DEF Listed
    <3> QED BY <1>4, <3>1, <3>2, <3>3
  <2>4. Listed' \subseteq Listed \cup {a}
    BY <1>4, <2>3 DEF Listed
  <2> QED BY <2>1, <2>2, <2>4
<1>7. ASSUME NEW k \in 1..(n + 1), NEW l \in 1..(n + 1), members'[k] = members'[l]
      PROVE  k = l
  <2> DEFINE Old(x) == IF x <= i THEN x ELSE x - 1
  <2>1. ASSUME NEW x \in 1..(n + 1), x # i + 1
        PROVE  Old(x) \in 1..n /\ members'[x] = members[Old(x)] /\ members'[x] # a
    <3>1. CASE x <= i
      BY <1>2, <1>3, <1>4, <3>1 DEF Listed
    <3>2. CASE x > i + 1
      <4>1. x - 1 \in (i + 1)..n /\ x = (x - 1) + 1 /\ x - 1 \in 1..n /\ Old(x) = x - 1
        BY <1>4, <3>2
      <4>2. members'[(x - 1) + 1] = members[x - 1]
        BY <1>3, <4>1
      <4>3. members[x - 1] \in Listed
        BY <1>4, <4>1 DEF Listed
      <4> QED BY <1>2, <4>1, <4>2, <4>3
    <3> QED BY <1>4, <2>1, <3>1, <3>2
  <2>2. CASE k = i + 1 \/ l = i + 1
    BY <1>3, <1>7, <2>1, <2>2
  <2>3. CASE k # i + 1 /\ l # i + 1
    <3>1. members[Old(k)] = members[Old(l)] /\ Old(k) \in 1..n /\ Old(l) \in 1..n
      BY <1>7, <2>1, <2>3
    <3>2. Old(k) = Old(l)
      BY <1>4, <3>1 DEF IteratorInv, TypeOK
    <3> QED BY <1>4, <2>3, <3>2
  <2> QED BY <2>2, <2>3
<1>8. TypeOK'
  <2>1. \A k, l \in DOMAIN members' : members'[k] = members'[l] => k = l
    BY <1>4, <1>7
  <2>2. index' \in 0..Len(members')
    BY <1>2, <1>3, <1>4 DEF IteratorInv, TypeOK
  <2>3. Local \in Listed' /\ up' \subseteq Listed' /\ visited' \subseteq Listed'
    BY <1>2, <1>6 DEF IteratorInv, TypeOK
  <2> QED BY <1>2, <1>3, <2>1, <2>2, <2>3 DEF IteratorInv, TypeOK
<1>9. Pingable \subseteq Pingable'
  BY <1>2, <1>6 DEF Pingable
<1>10. Ahead \subseteq Ahead'
  <2>1. index \in 0..n
    BY DEF IteratorInv, TypeOK
  <2>2. ASSUME NEW k \in (index + 1)..n PROVE members[k] \in Ahead'
    <3>1. k \in 1..n
      BY <1>4, <2>1
    <3>2. PICK l \in k..(n + 1) : members'[l] = members[k]
      BY <1>5, <3>1
    <3>3. l \in (index' + 1)..Len(members')
      BY <1>2, <1>3, <1>4, <2>1, <3>1, <3>2
    <3> QED BY <3>2, <3>3 DEF Ahead
  <2> QED BY <2>2 DEF Ahead
<1>11. RoundIsSound'
  BY <1>2, <1>9, <1>10 DEF IteratorInv, RoundIsSound
<1> QED BY <1>8, <1>11 DEF IteratorInv

\* The calls that put the list into another order.
LEMMA ReorderKeeps ==
  ASSUME IteratorInv, Reorder, members' \in Orders(Listed)
  PROVE  IteratorInv'
<1>1. /\ members' \in Seq(Addr) /\ Listed' = Listed
      /\ \A i, j \in DOMAIN members' : members'[i] = members'[j] => i = j
  BY ReorderKeepsList DEF IteratorInv
<1>2. /\ reordered' = TRUE /\ reorders' \in 0..MaxReorders
      /\ UNCHANGED <<up, index, visited, last, entitled>>
  BY ReordersAssumption DEF Reorder, IteratorInv, TypeOK
<1>3. Len(members') = Len(members)
  <2>1. IsFiniteSet(Listed)
    <3>1. Listed \subseteq Addr
      BY DEF IteratorInv, TypeOK, Listed
    <3> QED BY <3>1, AddrAssumption, FS_Subset
  <2>2. Len(members') = Cardinality(Listed)
    BY <2>1, OrderListsAll
  <2>3. Cardinality(Listed) = Len(members)
    <3> DEFINE n == Len(members)
    <3>1. n \in Nat /\ members \in [1..n -> Addr]
      BY DEF IteratorInv, TypeOK
    <3>2. members \in [1..n -> Listed]
      BY <3>1 DEF Listed
    <3>3. members \in Injection(1..n, Listed)
      BY <3>1, <3>2 DEF IteratorInv, TypeOK, Injection, IsInjective
    <3>4. members \in Surjection(1..n, Listed)
      BY <3>1, <3>2 DEF Listed, Surjection
    <3>5. IsFiniteSet(1..n) /\ Cardinality(1..n) = n
      BY <3>1, FS_Interval
    <3> HIDE DEF n
    <3>6. Cardinality(Listed) = Cardinality(1..n)
      BY <3>3, <3>4, <3>5, FS_Surjection
    <3> QED BY <3>5, <3>6 DEF n
  <2> QED BY <2>2, <2>3
<1>4. TypeOK'
  BY <1>1, <1>2, <1>3 DEF IteratorInv, TypeOK
<1>5. RoundIsSound'
  BY <1>1, <1>2 DEF IteratorInv, RoundIsSound, Pingable
<1> QED BY <1>4, <1>5 DEF IteratorInv

\* Every step of the iterator, and of what happens between its calls.
LEMMA IteratorKeeps == IteratorInv /\ [Next]_vars => IteratorInv'
<1> SUFFICES ASSUME IteratorInv, [Next]_vars PROVE IteratorInv'
  OBVIOUS
<1>1. CASE Call
  BY <1>1 DEF Call, IteratorInv, TypeOK, RoundIsSound, Listed, Pingable, Ahead, list, history
<1>2. CASE Walk
  <2>1. CASE GiveUp
    BY <2>1 DEF GiveUp, IteratorInv, TypeOK, RoundIsSound, Listed, Pingable, Ahead,
                list, history
  <2> QED BY <1>2, <2>1, AdvanceKeeps, WrapAroundKeeps DEF Walk
<1>3. ASSUME NEW a \in Addr, ChangeStatus(a) PROVE IteratorInv'
  BY <1>3 DEF ChangeStatus, IteratorInv, TypeOK, RoundIsSound, Listed, Pingable, Ahead
<1>4. CASE GetStats
  BY <1>4, ReorderKeeps DEF GetStats
<1>5. CASE StopGossip
  BY <1>5 DEF StopGossip, IteratorInv, TypeOK, RoundIsSound, Listed, Pingable, Ahead, history
<1>6. CASE StartGossip
  BY <1>6, ReorderKeeps DEF StartGossip
<1>7. CASE UNCHANGED vars
  BY <1>7 DEF vars, IteratorInv, TypeOK, RoundIsSound, Listed, Pingable, Ahead, list, history
<1> QED BY <1>1, <1>2, <1>3, <1>4, <1>5, <1>6, <1>7, AddMemberKeeps DEF Next

THEOREM IteratorInvariance == Spec => []IteratorInv
BY IteratorBegins, IteratorKeeps, PTL DEF Spec

\* The list stays one of distinct members among which the local one is, and the
\* index inside it, whatever inserts, sorts and shuffles between two calls.
THEOREM TypeCorrect == Spec => []TypeOK
<1>1. IteratorInv => TypeOK
  BY DEF IteratorInv
<1> QED BY <1>1, IteratorInvariance, PTL

\* For a list of any length: a round ends when all members that were pingable
\* throughout it have been returned, wherever others were inserted meanwhile.
THEOREM RoundIsCompleteHolds == Spec => RoundIsComplete
<1>1. IteratorInv /\ [Next]_vars =>
        [WrapAround /\ ~reordered => entitled \subseteq returned]_vars
  <2> SUFFICES ASSUME IteratorInv, WrapAround, ~reordered
               PROVE  entitled \subseteq returned
    OBVIOUS
  <2>1. Len(members) \in Nat /\ index \in Nat /\ index >= Len(members)
    BY DEF IteratorInv, TypeOK, WrapAround
  <2>2. Ahead = {}
    BY <2>1 DEF Ahead
  <2> QED BY <2>2 DEF IteratorInv, RoundIsSound
<1> QED BY <1>1, IteratorInvariance, PTL DEF Spec, RoundIsComplete

----------------------------------------------------------------------------
(* The hash ring. *)

\* The replacement of points keeps every point with a server that claims it.
LEMMA PointsReplaced ==
  ASSUME Ring!PointsAreSound, NEW A \in SUBSET Server, NEW R \in SUBSET Server,
         servers \subseteq Server, A \cap servers = {},
         R \subseteq servers \cup A,
         servers' = (servers \cup A) \ R,
         Ring!ReplacePoints(A, R)
  PROVE  Ring!PointsAreSound'
<1>1. ASSUME NEW p \in DOMAIN points'
      PROVE  points'[p] \in servers' /\ p \in PointsOf[points'[p]]
  <2>1. p \in DOMAIN points \cup Ring!AllPoints(A) /\ p \notin Ring!AllPoints(R)
    BY DEF Ring!ReplacePoints
  <2>2. points'[p] \in servers \cup A /\ p \in PointsOf[points'[p]]
    <3>1. CASE p \in DOMAIN points
      BY <3>1, <1>1 DEF Ring!ReplacePoints, Ring!PointsAreSound
    <3>2. CASE p \notin DOMAIN points
      BY <3>2, <1>1 DEF Ring!ReplacePoints
    <3> QED BY <3>1, <3>2
  <2>3. points'[p] \notin R
    BY <2>1, <2>2 DEF Ring!AllPoints
  <2> QED BY <2>2, <2>3
<1>2. ASSUME NEW s \in servers', NEW p \in PointsOf[s], Ring!Claimants(p) = {s}
      PROVE  p \in DOMAIN points'
  <2>1. s \in servers \cup A /\ s \notin R
    BY <1>2
  <2>2. p \notin Ring!AllPoints(R)
    <3> SUFFICES ASSUME NEW r \in R, p \in PointsOf[r] PROVE FALSE
      BY DEF Ring!AllPoints
    <3> QED BY <1>2, <2>1 DEF Ring!Claimants
  <2>3. p \in DOMAIN points \cup Ring!AllPoints(A)
    <3>1. CASE s \in servers
      BY <3>1, <1>2 DEF Ring!PointsAreSound
    <3>2. CASE s \in A
      BY <3>2, <1>2 DEF Ring!AllPoints
    <3> QED BY <2>1, <3>1, <3>2
  <2> QED BY <2>2, <2>3 DEF Ring!ReplacePoints
<1> QED BY <1>1, <1>2 DEF Ring!PointsAreSound, Ring!Claimants

\* A ring that is sound has servers that are servers.
RingInv == servers \subseteq Server /\ Ring!PointsAreSound

\* One call keeps the invariant: each is a replacement of points.
LEMMA RingKeeps == RingInv /\ [Ring!Next]_Ring!vars => RingInv'
<1> SUFFICES ASSUME RingInv, [Ring!Next]_Ring!vars PROVE RingInv'
  OBVIOUS
<1>1. ASSUME NEW s \in Server, Ring!AddServer(s) PROVE RingInv'
  <2>1. servers' = (servers \cup {s}) \ {} /\ {s} \cap servers = {}
    BY <1>1 DEF Ring!AddServer
  <2>2. Ring!ReplacePoints({s}, {})
    BY <1>1 DEF Ring!AddServer
  <2>3. {} \subseteq servers \cup {s} /\ {s} \in SUBSET Server /\ {} \in SUBSET Server
    BY <1>1
  <2> QED BY <2>1, <2>2, <2>3, PointsReplaced DEF RingInv
<1>2. ASSUME NEW s \in Server, Ring!RemoveServer(s) PROVE RingInv'
  <2>1. servers' = (servers \cup {}) \ {s} /\ {} \cap servers = {}
    BY <1>2 DEF Ring!RemoveServer
  <2>2. Ring!ReplacePoints({}, {s})
    BY <1>2 DEF Ring!RemoveServer
  <2>3. {s} \subseteq servers \cup {} /\ {s} \in SUBSET Server /\ {} \in SUBSET Server
    BY <1>2 DEF Ring!RemoveServer
  <2> QED BY <2>1, <2>2, <2>3, PointsReplaced DEF RingInv
<1>3. ASSUME NEW A \in SUBSET Server, NEW R \in SUBSET Server, Ring!AddRemoveServers(A, R)
      PROVE  RingInv'
  <2> DEFINE added   == A \ servers
             removed == R \cap (servers \cup A)
  <2>1. servers' = (servers \cup added) \ removed /\ added \cap servers = {}
    BY <1>3 DEF Ring!AddRemoveServers
  <2>2. Ring!ReplacePoints(added, removed)
    BY <1>3 DEF Ring!AddRemoveServers
  <2>3. /\ removed \subseteq servers \cup added
        /\ added \in SUBSET Server /\ removed \in SUBSET Server
    OBVIOUS
  <2> HIDE DEF added, removed
  <2> QED BY <2>1, <2>2, <2>3, PointsReplaced DEF RingInv
<1>4. CASE UNCHANGED Ring!vars
  BY <1>4 DEF RingInv, Ring!vars, Ring!PointsAreSound, Ring!Claimants
<1> QED BY <1>1, <1>2, <1>3, <1>4 DEF Ring!Next

\* Whatever joins and leaves, and however hashes collide, a point belongs to a
\* server of the ring that claims it, and a server of the ring has the points
\* that are only its own: no request is routed to a server that was removed
\* (addServerReplicas and removeServerReplicas in lib/ring.js).
THEOREM PointsAreSoundHolds == Ring!Spec => []Ring!PointsAreSound
<1>1. Ring!Init => RingInv
  BY DEF Ring!Init, RingInv, Ring!PointsAreSound
<1>2. RingInv => Ring!PointsAreSound
  BY DEF RingInv
<1> QED BY <1>1, <1>2, RingKeeps, PTL DEF Ring!Spec

----------------------------------------------------------------------------
(* The update rollup. *)

\* What is buffered belongs to the present burst, and is known to be there; and
\* a timer is due no sooner than the burst is over.
RollupInv ==
  /\ buffer \subseteq {burst}
  /\ buffer # {} => updated
  /\ since \in 0..FlushInterval
  /\ timer # Unset => timer = FlushInterval - since

LEMMA RollupKeeps ==
  ASSUME Rollup!IntervalAssumption, Rollup!UnsetAssumption,
         RollupInv, [Rollup!Next]_Rollup!vars
  PROVE  /\ RollupInv'
         /\ Rollup!Next => /\ buffer' \subseteq {burst'}
                           /\ buffer # {} /\ buffer' = {} => since >= FlushInterval
<1> USE DEF Rollup!IntervalAssumption, Rollup!UnsetAssumption, RollupInv
<1>1. CASE Rollup!TrackUpdates
  <2>1. buffer' \subseteq {burst'} /\ buffer' # {} /\ burst' = Rollup!BurstNow
    BY <1>1 DEF Rollup!TrackUpdates, Rollup!IntervalPassed, Rollup!BurstNow
  <2> QED BY <1>1, <2>1 DEF Rollup!TrackUpdates
<1>2. CASE Rollup!FlushTimer
  BY <1>2 DEF Rollup!FlushTimer
<1>3. CASE Rollup!Destroy
  BY <1>3 DEF Rollup!Destroy
<1>4. CASE Rollup!Tick
  BY <1>4 DEF Rollup!Tick
<1>5. CASE UNCHANGED Rollup!vars
  BY <1>5 DEF Rollup!vars
<1> QED BY <1>1, <1>2, <1>3, <1>4, <1>5 DEF Rollup!Next

\* For a flush interval of any length: each log entry is about one burst of
\* updates and about all of it, however late the timer is.
THEOREM OneEntryPerBurstHolds ==
  ASSUME Rollup!IntervalAssumption, Rollup!UnsetAssumption
  PROVE  Rollup!Spec => Rollup!OneEntryPerBurst
<1>1. Rollup!Init => RollupInv
  BY DEF Rollup!Init, RollupInv, Rollup!IntervalAssumption
<1>2. RollupInv /\ [Rollup!Next]_Rollup!vars =>
        /\ RollupInv'
        /\ [/\ buffer' \subseteq {burst'}
            /\ buffer # {} /\ buffer' = {} => since >= FlushInterval]_Rollup!vars
  BY RollupKeeps
<1> QED BY <1>1, <1>2, PTL DEF Rollup!Spec, Rollup!OneEntryPerBurst
=============================================================================
