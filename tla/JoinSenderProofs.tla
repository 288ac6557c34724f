-------------------------- MODULE JoinSenderProofs --------------------------
(***************************************************************************)
(* A join asks its hosts in turns, counts none of them twice, is concluded *)
(* once, and updates the membership only when it has reached joinSize: for *)
(* any hosts and limits, in whatever order the answers of this and of      *)
(* earlier groups arrive.                                                  *)
(***************************************************************************)
EXTENDS JoinSender, FiniteSetTheorems, TLAPS

Groups ==
  [num : Nat, size : Nat, left : Nat, joined : SUBSET Hosts,
   failed : SUBSET Hosts, over : BOOLEAN]

Typed ==
  /\ toTry \subseteq Hosts
  /\ nodesJoined \subseteq Hosts
  /\ numJoined \in Nat
  /\ numFailed \in Nat
  /\ group \in Groups
  /\ waiting \subseteq [host : Hosts, num : 1..group.num]
  /\ responses = Null \/ responses \subseteq Hosts
  /\ retrying \in BOOLEAN
  /\ destroyed \in BOOLEAN
  /\ attempts \in [Hosts -> Nat]

\* No group has been selected yet, or the last one is over.
Idle == group.num = 0 \/ group.over

\* The hosts of the group that have not answered.
Silent == {h \in Hosts : [host |-> h, num |-> group.num] \in waiting}

\* Each host of the group is silent, has joined, or has failed, and neither
\* will be offered again in this round nor has joined before.
GroupIsSound ==
  /\ group.joined \cap group.failed = {}
  /\ group.left = JoinSize - numJoined
  /\ (group.joined \cup group.failed) \cap (toTry \cup nodesJoined) = {}
  /\ Silent \cap (toTry \cup nodesJoined \cup group.joined \cup group.failed) = {}
  /\ Silent \cup group.joined # {} => Cardinality(group.joined) < group.left

\* Every group that is over took one of the joins or failures.
Pausing ==
  /\ retrying
  /\ outcome = "none"
  /\ Idle
  /\ numFailed < MaxJoinAttempts
  /\ group.num <= numJoined + numFailed

Asking ==
  /\ ~retrying
  /\ outcome = "none"
  /\ ~Idle
  /\ GroupIsSound
  /\ numFailed < MaxJoinAttempts
  /\ group.num <= numJoined + numFailed + 1

Done ==
  /\ ~retrying
  /\ outcome \in {"joined", "failed", "too-late", "aborted"}
  /\ Idle
  /\ group.num <= MaxJoinAttempts + JoinSize

Counted ==
  /\ numJoined = Cardinality(nodesJoined)
  /\ numJoined <= JoinSize
  /\ outcome = "joined" => numJoined = JoinSize
  /\ updates = IF outcome = "joined" THEN 1 ELSE 0
  /\ callbacks = IF outcome = "none" THEN 0 ELSE 1

\* The hosts that have been asked in this round and have not joined.
Asked == Hosts \ (nodesJoined \cup toTry)

\* The hosts of a round have been asked equally often when it starts, and are
\* asked once in it; the others only when no preferred one is left.
Turns ==
  /\ toTry \cap nodesJoined = {}
  /\ \A h, k \in toTry : attempts[h] = attempts[k]
  /\ \A h, k \in Asked : attempts[h] = attempts[k]
  /\ \A h \in toTry, k \in Asked : attempts[k] = attempts[h] + 1
  /\ toTry = {} \/ toTry \cap Preferred = {} \/ Asked \subseteq Preferred

JInv == Typed /\ (Pausing \/ Asking \/ Done) /\ Counted /\ Turns

----------------------------------------------------------------------------
(* Counting *)

LEMMA SubsetOfHosts ==
  ASSUME NEW S \in SUBSET Hosts
  PROVE  IsFiniteSet(S) /\ Cardinality(S) \in Nat
BY HostsAssumption, FS_Subset, FS_CardinalityType

LEMMA JoinSizeType == JoinSize \in Nat
BY SizesAssumption, SubsetOfHosts DEF JoinSize

\* One host more.
LEMMA OneMore ==
  ASSUME NEW S \in SUBSET Hosts, NEW h \in Hosts, h \notin S
  PROVE  /\ S \cup {h} \in SUBSET Hosts
         /\ Cardinality(S \cup {h}) = Cardinality(S) + 1
         /\ Cardinality(S) \in Nat
BY SubsetOfHosts, FS_AddElement

LEMMA Disjoint ==
  ASSUME NEW S \in SUBSET Hosts, NEW T \in SUBSET Hosts, S \cap T = {}
  PROVE  Cardinality(S \cup T) = Cardinality(S) + Cardinality(T)
<1>1. IsFiniteSet(S) /\ IsFiniteSet(T) /\ Cardinality(S) \in Nat /\ Cardinality(T) \in Nat
  BY SubsetOfHosts
<1>2. Cardinality(S \cup T) = Cardinality(S) + Cardinality(T) - Cardinality({})
  BY <1>1, FS_Union
<1> QED BY <1>1, <1>2, FS_EmptySet

----------------------------------------------------------------------------
(* Selecting a group *)

\* Whatever group is selected, the turns are kept.
LEMMA TurnsKept ==
  ASSUME Typed, Turns, NEW G \in Selections,
         toTry' = Round \ G, nodesJoined' = nodesJoined,
         attempts' = [h \in Hosts |-> attempts[h] + IF h \in G THEN 1 ELSE 0]
  PROVE  Turns'
<1>1. G \subseteq Round /\ (G \subseteq Preferred \/ Round \cap Preferred \subseteq G)
  BY DEF Selections
<1>2. Round \subseteq Hosts /\ Round \cap nodesJoined = {}
  BY DEF Typed, Turns, Round
<1>3. /\ \A h, k \in Round : attempts[h] = attempts[k]
      /\ \A h \in Round, k \in Hosts \ (nodesJoined \cup Round) : attempts[k] = attempts[h] + 1
      /\ \A h, k \in Hosts \ (nodesJoined \cup Round) : attempts[h] = attempts[k]
      /\ Round \cap Preferred = {} \/ Hosts \ (nodesJoined \cup Round) \subseteq Preferred
  <2>1. CASE toTry = {}
    BY <2>1 DEF Turns, Round, Asked
  <2>2. CASE toTry # {}
    BY <2>2 DEF Turns, Round, Asked
  <2> QED BY <2>1, <2>2
<1>4. \A h \in Hosts : attempts[h] \in Nat /\ attempts'[h] = attempts[h] + IF h \in G THEN 1 ELSE 0
  BY DEF Typed
<1>5. Asked' = Hosts \ (nodesJoined \cup (Round \ G))
  BY DEF Asked
<1>6. \A h \in Round \ G : attempts'[h] = attempts[h]
  BY <1>2, <1>4
<1>7. \A k \in G : attempts'[k] = attempts[k] + 1
  BY <1>1, <1>2, <1>4
<1>8. \A k \in Hosts \ (nodesJoined \cup Round) : attempts'[k] = attempts[k]
  BY <1>1, <1>4
<1>9. Asked' = G \cup (Hosts \ (nodesJoined \cup Round))
  BY <1>1, <1>2, <1>5
<1>10. \A h, k \in toTry' : attempts'[h] = attempts'[k]
  BY <1>3, <1>6
<1>11. \A h \in toTry', k \in Asked' : attempts'[k] = attempts'[h] + 1
  <2> SUFFICES ASSUME NEW h \in Round \ G, NEW k \in Asked'
               PROVE  attempts'[k] = attempts'[h] + 1
    OBVIOUS
  <2>1. CASE k \in G
    BY <1>1, <1>3, <1>6, <1>7, <2>1
  <2>2. CASE k \notin G
    BY <1>3, <1>6, <1>8, <1>9, <2>2
  <2> QED BY <2>1, <2>2
<1>12. \A h, k \in Asked' : attempts'[h] = attempts'[k]
  <2> SUFFICES ASSUME NEW h \in Asked', NEW k \in Asked'
               PROVE  attempts'[h] = attempts'[k]
    OBVIOUS
  <2>1. CASE h \in G /\ k \in G
    BY <1>1, <1>3, <1>7, <2>1
  <2>2. CASE h \in G /\ k \notin G
    BY <1>1, <1>3, <1>7, <1>8, <1>9, <2>2
  <2>3. CASE h \notin G /\ k \in G
    BY <1>1, <1>3, <1>7, <1>8, <1>9, <2>3
  <2>4. CASE h \notin G /\ k \notin G
    BY <1>3, <1>8, <1>9, <2>4
  <2> QED BY <2>1, <2>2, <2>3, <2>4
<1>13. toTry' \cap Preferred = {} \/ Asked' \subseteq Preferred
  BY <1>1, <1>3, <1>9
<1>14. toTry' \cap nodesJoined' = {}
  BY <1>2
<1> QED BY <1>10, <1>11, <1>12, <1>13, <1>14 DEF Turns

LEMMA JoinGroupInv ==
  ASSUME JInv, JoinGroup
  PROVE  JInv'
<1>1. PICK G \in Selections :
        /\ toTry' = Round \ G
        /\ group' = [num |-> group.num + 1, size |-> Cardinality(G),
                     left |-> JoinSize - Cardinality(nodesJoined),
                     joined |-> {}, failed |-> {}, over |-> FALSE]
        /\ waiting' = waiting \cup {[host |-> h, num |-> group.num + 1] : h \in G}
        /\ attempts' = [h \in Hosts |-> attempts[h] + IF h \in G THEN 1 ELSE 0]
  BY DEF JoinGroup, RoundAfter
<1>2. /\ UNCHANGED <<nodesJoined, numJoined, numFailed, responses, destroyed,
                     outcome, callbacks, updates>>
      /\ retrying' = FALSE /\ Pausing
  BY DEF JoinGroup, JInv, Asking, Done
<1>3. Typed /\ Counted /\ Turns /\ group \in Groups
  BY DEF JInv, Typed
<1>4. G \subseteq Round /\ Round \subseteq Hosts /\ Round \cap nodesJoined = {}
  BY <1>3 DEF Selections, Round, Typed, Turns
<1>5. group' \in Groups
  <2>1. Cardinality(G) \in Nat
    BY <1>4, SubsetOfHosts
  <2>2. JoinSize - Cardinality(nodesJoined) \in Nat
    BY <1>3, JoinSizeType DEF Counted, Typed
  <2>3. group.num \in Nat
    BY <1>3 DEF Groups
  <2> QED BY <1>1, <2>1, <2>2, <2>3 DEF Groups
<1>6. group'.num = group.num + 1 /\ group.num \in Nat
  BY <1>1, <1>3 DEF Groups
<1>7. waiting' \subseteq [host : Hosts, num : 1..group'.num]
  BY <1>1, <1>3, <1>4, <1>6 DEF Typed
<1>8. attempts' \in [Hosts -> Nat]
  BY <1>1, <1>3 DEF Typed
<1>9. Typed'
  BY <1>1, <1>2, <1>3, <1>4, <1>5, <1>7, <1>8 DEF Typed
<1>10. Silent' = G
  <2>1. \A r \in waiting : r.num # group'.num
    BY <1>3, <1>6 DEF Typed
  <2>2. \A h \in Hosts : [host |-> h, num |-> group'.num] \notin waiting
    BY <2>1
  <2>3. \A h, k : [host |-> h, num |-> group'.num] = [host |-> k, num |-> group.num + 1]
                   => h = k
    OBVIOUS
  <2>4. \A h \in Hosts : h \in G <=> [host |-> h, num |-> group'.num] \in waiting'
    BY <1>1, <1>6, <2>2, <2>3
  <2> QED BY <1>4, <2>4 DEF Silent
<1>11. GroupIsSound'
  <2>1. group'.left = JoinSize' - numJoined' /\ group'.joined = {} /\ group'.failed = {}
    BY <1>1, <1>2, <1>3 DEF Counted, JoinSize
  <2>2. Silent' \cap (toTry' \cup nodesJoined') = {}
    BY <1>1, <1>2, <1>4, <1>10
  <2>3. G # {} => 0 < group'.left
    <3> DEFINE left == JoinSize - Cardinality(nodesJoined)
    <3>1. left \in Nat /\ left = group'.left
      BY <1>1, <1>5 DEF Groups
    <3> HIDE DEF left
    <3>2. left = 0 => left * Factor = 0
      BY SizesAssumption
    <3>3. Cardinality(G) = IF left * Factor < Cardinality(Round) THEN left * Factor
                                                               ELSE Cardinality(Round)
      BY DEF Selections, left
    <3>4. Cardinality(G) \in Nat /\ Cardinality(Round) \in Nat
      BY <1>4, SubsetOfHosts
    <3>5. left = 0 => Cardinality(G) = 0
      BY <3>2, <3>3, <3>4
    <3>6. Cardinality(G) = 0 => G = {}
      BY <1>4, SubsetOfHosts, FS_EmptySet
    <3> QED BY <3>1, <3>5, <3>6
  <2>4. Cardinality(group'.joined) = 0
    BY <2>1, FS_EmptySet
  <2> QED BY <1>10, <2>1, <2>2, <2>3, <2>4 DEF GroupIsSound
<1>12. ~Idle'
  BY <1>1, <1>6 DEF Idle
<1>13. Asking'
  BY <1>2, <1>3, <1>6, <1>11, <1>12 DEF Asking, Pausing, Typed
<1>14. Counted'
  BY <1>2, <1>3 DEF Counted, JoinSize
<1>15. Turns'
  BY <1>1, <1>2, <1>3, TurnsKept
<1> QED BY <1>9, <1>13, <1>14, <1>15 DEF JInv

----------------------------------------------------------------------------
(* The end of the join *)

LEMMA JoinDestroyedInv ==
  ASSUME JInv, JoinDestroyed
  PROVE  JInv'
<1>1. /\ retrying' = FALSE /\ outcome' = "aborted" /\ callbacks' = callbacks + 1
      /\ UNCHANGED <<toTry, nodesJoined, numJoined, numFailed, group, waiting,
                     responses, destroyed, updates, attempts>>
      /\ group.num = 0 /\ Pausing
  BY DEF JoinDestroyed, Conclude, JInv, Asking, Done
<1>2. Typed'
  BY <1>1 DEF JInv, Typed
<1>3. Done'
  BY <1>1, JoinSizeType, SizesAssumption DEF Done, Idle
<1>4. Counted'
  BY <1>1 DEF JInv, Counted, Pausing, JoinSize
<1>5. Turns'
  BY <1>1 DEF JInv, Turns, Asked
<1> QED BY <1>2, <1>3, <1>4, <1>5 DEF JInv

LEMMA DestroyInv ==
  ASSUME JInv, Destroy
  PROVE  JInv'
BY DEF JInv, Destroy, Typed, Pausing, Asking, Done, Counted, Turns, Asked, Idle,
       GroupIsSound, Silent, JoinSize

----------------------------------------------------------------------------
(* Answers *)

\* An answer to a group that is over, or to one before it, changes nothing but
\* what was told.
LEMMA LateAnswerInv ==
  ASSUME JInv, NEW r \in waiting, waiting' = waiting \ {r},
         r.num # group.num \/ group.over,
         responses' = Null \/ responses' \subseteq Hosts,
         UNCHANGED <<toTry, nodesJoined, numJoined, numFailed, group, retrying,
                     destroyed, outcome, callbacks, updates, attempts>>
  PROVE  JInv'
<1>1. Typed'
  BY DEF JInv, Typed
<1>2. Silent' \subseteq Silent
  BY DEF Silent
<1>3. GroupIsSound => GroupIsSound'
  BY <1>2 DEF GroupIsSound, JoinSize
<1>4. Pausing' \/ Asking' \/ Done'
  BY <1>3 DEF JInv, Pausing, Asking, Done, Idle, JoinSize
<1>5. Counted' /\ Turns'
  BY DEF JInv, Counted, Turns, Asked, JoinSize
<1> QED BY <1>1, <1>4, <1>5 DEF JInv

\* What the group is after one more answer, g, that is sound.
LEMMA AnsweredGroup ==
  ASSUME JInv, Asking, NEW r \in waiting, r.num = group.num, NEW ok \in BOOLEAN
  PROVE  LET g == GroupAnswer(r, ok)
         IN  /\ g \in Groups /\ g # group /\ g.num = group.num /\ g.left = group.left
             /\ g.size = group.size /\ ~g.over
             /\ r.host \in Hosts
             /\ g.joined = IF ok THEN group.joined \cup {r.host} ELSE group.joined
             /\ g.failed = IF ok THEN group.failed ELSE group.failed \cup {r.host}
             /\ g.joined \cap g.failed = {}
             /\ (g.joined \cup g.failed) \cap (toTry \cup nodesJoined) = {}
             /\ Cardinality(g.joined) <= g.left
             /\ Cardinality(g.joined) + Cardinality(g.failed) >= 1
             /\ Cardinality(g.joined) \in Nat /\ Cardinality(g.failed) \in Nat
<1> DEFINE g == GroupAnswer(r, ok)
<1>1. /\ group \in Groups /\ ~group.over /\ r.host \in Hosts
      /\ r.host \in Silent
  <2>1. r = [host |-> r.host, num |-> group.num] /\ r.host \in Hosts
    BY DEF JInv, Typed
  <2> QED BY <2>1 DEF Asking, Idle, JInv, Typed, Silent
<1>2. r.host \notin toTry \cup nodesJoined \cup group.joined \cup group.failed
  BY <1>1 DEF Asking, GroupIsSound
<1>3. g = [group EXCEPT !.joined = IF ok THEN @ \cup {r.host} ELSE @,
                        !.failed = IF ok THEN @ ELSE @ \cup {r.host}]
  BY <1>1 DEF GroupAnswer
<1>4. /\ g.num = group.num /\ g.left = group.left /\ g.size = group.size /\ g.over = group.over
      /\ g.joined = IF ok THEN group.joined \cup {r.host} ELSE group.joined
      /\ g.failed = IF ok THEN group.failed ELSE group.failed \cup {r.host}
      /\ g \in Groups
  <2> HIDE DEF g
  <2>1. CASE ok
    BY <1>1, <1>3, <2>1 DEF Groups
  <2>2. CASE ~ok
    BY <1>1, <1>3, <2>2 DEF Groups
  <2> QED BY <2>1, <2>2
<1> HIDE DEF g
<1>5. group.joined \in SUBSET Hosts /\ group.failed \in SUBSET Hosts /\ group.left \in Nat
  BY <1>1 DEF Groups
<1>6. /\ g.joined \cap g.failed = {}
      /\ (g.joined \cup g.failed) \cap (toTry \cup nodesJoined) = {}
      /\ g # group
  BY <1>2, <1>4 DEF Asking, GroupIsSound
<1>7. /\ Cardinality(group.joined \cup {r.host}) = Cardinality(group.joined) + 1
      /\ Cardinality(group.failed \cup {r.host}) = Cardinality(group.failed) + 1
      /\ Cardinality(group.joined) \in Nat /\ Cardinality(group.failed) \in Nat
  BY <1>1, <1>2, <1>5, OneMore
<1>8. Cardinality(g.joined) + Cardinality(g.failed) >= 1
  BY <1>4, <1>7
<1>9. Cardinality(g.joined) <= g.left
  <2>1. Cardinality(group.joined) < group.left
    BY <1>1 DEF Asking, GroupIsSound
  <2> QED BY <1>4, <1>5, <1>7, <2>1
<1>10. Cardinality(g.joined) \in Nat /\ Cardinality(g.failed) \in Nat
  BY <1>4, <1>7
<1> QED BY <1>1, <1>4, <1>6, <1>8, <1>9, <1>10 DEF g

\* Fewer hosts are left out of a round when more have joined.
LEMMA TurnsJoined ==
  ASSUME Typed, Turns, UNCHANGED <<toTry, attempts>>,
         nodesJoined \subseteq nodesJoined', toTry \cap nodesJoined' = {}
  PROVE  Turns'
<1>1. Asked' \subseteq Asked
  BY DEF Asked
<1> QED BY <1>1 DEF Turns

\* The group waits for more answers.
LEMMA GroupGoesOn ==
  ASSUME JInv, Asking, NEW r \in waiting, waiting' = waiting \ {r},
         r.num = group.num, NEW ok \in BOOLEAN,
         group' = GroupAnswer(r, ok), ~IsOver(GroupAnswer(r, ok)),
         responses' = Null \/ responses' \subseteq Hosts,
         UNCHANGED <<toTry, nodesJoined, numJoined, numFailed, retrying,
                     destroyed, outcome, callbacks, updates, attempts>>
  PROVE  JInv'
<1>1. /\ group' \in Groups /\ group'.num = group.num /\ group'.left = group.left
      /\ ~group'.over /\ r.host \in Hosts
      /\ group'.joined \cup group'.failed = group.joined \cup group.failed \cup {r.host}
      /\ group'.joined \cap group'.failed = {}
      /\ (group'.joined \cup group'.failed) \cap (toTry \cup nodesJoined) = {}
      /\ Cardinality(group'.joined) \in Nat
  <2>1. CASE ok
    BY <2>1, AnsweredGroup
  <2>2. CASE ~ok
    BY <2>2, AnsweredGroup
  <2> QED BY <2>1, <2>2
<1>2. Cardinality(group'.joined) < group'.left
  <2>1. ~(Cardinality(group'.joined) >= group'.left)
    BY DEF IsOver
  <2> QED BY <1>1, <2>1 DEF Groups
<1>3. Silent' \subseteq Silent \ {r.host}
  <2>1. r = [host |-> r.host, num |-> group.num]
    BY DEF JInv, Typed
  <2> QED BY <1>1, <2>1 DEF Silent
<1>4. GroupIsSound'
  <2>1. Silent' \cap (toTry \cup nodesJoined \cup group'.joined \cup group'.failed) = {}
    BY <1>1, <1>3 DEF Asking, GroupIsSound
  <2>2. group'.left = JoinSize' - numJoined'
    BY <1>1 DEF Asking, GroupIsSound, JoinSize
  <2> QED BY <1>1, <1>2, <2>1, <2>2 DEF GroupIsSound
<1>5. Asking'
  BY <1>1, <1>4 DEF Asking, Idle
<1>6. Typed'
  BY <1>1 DEF JInv, Typed
<1>7. Counted' /\ Turns'
  BY DEF JInv, Counted, Turns, Asked, JoinSize
<1> QED BY <1>5, <1>6, <1>7 DEF JInv

\* The group is over, and with it perhaps the join.
LEMMA GroupEnds ==
  ASSUME JInv, Asking, NEW r \in waiting, waiting' = waiting \ {r},
         r.num = group.num, NEW ok \in BOOLEAN, NEW told,
         told = Null \/ told \subseteq Hosts,
         group' = [GroupAnswer(r, ok) EXCEPT !.over = TRUE],
         GroupOver(GroupAnswer(r, ok), told),
         UNCHANGED <<toTry, destroyed, attempts>>
  PROVE  JInv'
<1> DEFINE g == GroupAnswer(r, ok)
           joined == numJoined + Cardinality(g.joined)
           failed == numFailed + Cardinality(g.failed)
<1>1. /\ g \in Groups /\ g.num = group.num /\ g.left = group.left
      /\ (g.joined \cup g.failed) \cap (toTry \cup nodesJoined) = {}
      /\ Cardinality(g.joined) <= g.left
      /\ Cardinality(g.joined) + Cardinality(g.failed) >= 1
      /\ Cardinality(g.joined) \in Nat /\ Cardinality(g.failed) \in Nat
  BY AnsweredGroup
<1>2. PICK verdict \in Verdicts(joined, failed) :
        /\ IF verdict = "aborted"
           THEN UNCHANGED <<nodesJoined, numJoined, numFailed>>
           ELSE /\ nodesJoined' = nodesJoined \cup g.joined
                /\ numJoined' = joined
                /\ numFailed' = failed
        /\ IF verdict = "none"
           THEN retrying' = TRUE /\ UNCHANGED <<outcome, callbacks>>
           ELSE outcome' = verdict /\ callbacks' = callbacks + 1 /\ UNCHANGED retrying
        /\ updates' = IF verdict = "joined" THEN updates + 1 ELSE updates
        /\ responses' = IF verdict = "joined" THEN Null ELSE told
  BY DEF GroupOver, Conclude, UpdatesAfter
<1>3. group' \in Groups /\ group'.num = group.num /\ group'.over
  BY <1>1 DEF Groups
<1> HIDE DEF g
<1>4. /\ numJoined \in Nat /\ numFailed \in Nat /\ JoinSize \in Nat
      /\ MaxJoinAttempts \in Nat /\ group.num \in Nat
      /\ g.joined \in SUBSET Hosts /\ nodesJoined \in SUBSET Hosts
  BY <1>1, JoinSizeType, SizesAssumption DEF JInv, Typed, Groups
<1>5. /\ Idle' /\ JoinSize' = JoinSize
  BY <1>3 DEF Idle, JoinSize
<1>6. /\ ~retrying /\ outcome = "none" /\ updates = 0 /\ callbacks = 0
      /\ numFailed < MaxJoinAttempts /\ group.num <= numJoined + numFailed + 1
      /\ group.left = JoinSize - numJoined /\ numJoined <= JoinSize
      /\ numJoined = Cardinality(nodesJoined)
  BY DEF JInv, Asking, Counted, GroupIsSound
<1>7. joined <= JoinSize /\ joined \in Nat /\ failed \in Nat
  BY <1>1, <1>4, <1>6
<1>8. Cardinality(nodesJoined \cup g.joined) = joined
  BY <1>1, <1>4, <1>6, Disjoint
<1>9. verdict \in {"aborted", "joined", "failed", "none", "too-late"}
  BY DEF Verdicts
<1>10. Typed'
  <2>1. nodesJoined' \subseteq Hosts /\ numJoined' \in Nat /\ numFailed' \in Nat
    BY <1>2, <1>4, <1>7
  <2>2. waiting' \subseteq [host : Hosts, num : 1..group'.num]
    BY <1>3 DEF JInv, Typed
  <2>3. retrying' \in BOOLEAN
    <3>1. CASE verdict = "none"
      BY <1>2, <3>1
    <3>2. CASE verdict # "none"
      BY <1>2, <3>2 DEF JInv, Typed
    <3> QED BY <3>1, <3>2
  <2>4. responses' = Null \/ responses' \subseteq Hosts
    BY <1>2
  <2>5. toTry' \subseteq Hosts /\ attempts' \in [Hosts -> Nat]
    BY DEF JInv, Typed
  <2>6. destroyed' \in BOOLEAN
    BY DEF JInv, Typed
  <2> QED BY <1>3, <2>1, <2>2, <2>3, <2>4, <2>5, <2>6 DEF Typed
<1>11. Turns'
  <2>1. nodesJoined \subseteq nodesJoined' /\ toTry \cap nodesJoined' = {}
    BY <1>1, <1>2 DEF JInv, Turns
  <2> QED BY <2>1, TurnsJoined DEF JInv
<1>12. Counted'
  <2>1. numJoined' = Cardinality(nodesJoined') /\ numJoined' <= JoinSize'
    BY <1>2, <1>5, <1>6, <1>7, <1>8
  <2>2. verdict = "joined" => joined >= JoinSize
    BY DEF Verdicts
  <2>3. outcome' = IF verdict = "none" THEN "none" ELSE verdict
    BY <1>2, <1>6
  <2>4. outcome' = "joined" => numJoined' = JoinSize'
    BY <1>2, <1>4, <1>5, <1>7, <1>9, <2>2, <2>3
  <2>5. /\ updates' = IF outcome' = "joined" THEN 1 ELSE 0
        /\ callbacks' = IF outcome' = "none" THEN 0 ELSE 1
    BY <1>2, <1>6, <2>3
  <2> QED BY <2>1, <2>4, <2>5 DEF Counted
<1>13. CASE verdict = "none"
  <2>1. failed < MaxJoinAttempts
    BY <1>4, <1>7, <1>13 DEF Verdicts
  <2>2. group'.num <= numJoined' + numFailed'
    BY <1>1, <1>2, <1>3, <1>4, <1>6, <1>13
  <2>3. Pausing'
    BY <1>2, <1>5, <1>6, <1>13, <2>1, <2>2 DEF Pausing
  <2> QED BY <1>10, <1>11, <1>12, <2>3 DEF JInv
<1>14. CASE verdict # "none"
  <2>1. group'.num <= MaxJoinAttempts + JoinSize'
    BY <1>3, <1>4, <1>5, <1>6
  <2>2. Done'
    BY <1>2, <1>5, <1>6, <1>9, <1>14, <2>1 DEF Done
  <2> QED BY <1>10, <1>11, <1>12, <2>2 DEF JInv
<1> QED BY <1>13, <1>14

LEMMA JoinAnswerInv ==
  ASSUME JInv, NEW r \in waiting, NEW answer \in Answers, JoinAnswer(r, answer)
  PROVE  JInv'
<1> DEFINE ok == answer # "error"
           g == GroupAnswer(r, ok)
           told == IF answer = "members" THEN Told(r) ELSE responses
<1>1. /\ waiting' = waiting \ {r}
      /\ IF g # group /\ IsOver(g)
         THEN /\ group' = [g EXCEPT !.over = TRUE]
              /\ GroupOver(g, told)
         ELSE /\ group' = g
              /\ responses' = told
              /\ UNCHANGED <<nodesJoined, numJoined, numFailed, retrying,
                             outcome, callbacks, updates>>
      /\ UNCHANGED <<toTry, destroyed, attempts>>
  BY DEF JoinAnswer
<1>2. told = Null \/ told \subseteq Hosts
  BY DEF Told, JInv, Typed
<1>3. CASE r.num # group.num \/ group.over
  <2>1. g = group
    BY <1>3 DEF GroupAnswer
  <2> QED BY <1>1, <1>2, <1>3, <2>1, LateAnswerInv
<1>4. CASE r.num = group.num /\ ~group.over
  <2>1. Asking
    <3>1. ~Idle
      BY <1>4 DEF Idle, JInv, Typed
    <3> QED BY <3>1 DEF JInv, Pausing, Done
  <2>2. ok \in BOOLEAN /\ g # group
    BY <1>4, <2>1, AnsweredGroup
  <2>3. CASE IsOver(g)
    BY <1>1, <1>2, <1>4, <2>1, <2>2, <2>3, GroupEnds
  <2>4. CASE ~IsOver(g)
    BY <1>1, <1>2, <1>4, <2>1, <2>2, <2>4, GroupGoesOn
  <2> QED BY <2>3, <2>4
<1> QED BY <1>3, <1>4

----------------------------------------------------------------------------
(* The theorems *)

\* The invariant of a join.
LEMMA Invariance == Spec => []JInv
<1>1. Init => JInv
  <2> SUFFICES ASSUME Init PROVE JInv
    OBVIOUS
  <2>1. group \in Groups /\ group.num = 0
    BY DEF Init, NoGroup, Groups
  <2>2. Typed
    BY <2>1 DEF Init, Typed
  <2>3. Pausing
    BY <2>1, SizesAssumption DEF Init, Pausing, Idle
  <2>4. Counted
    BY JoinSizeType, FS_EmptySet DEF Init, Counted
  <2>5. Turns
    BY DEF Init, Turns, Asked
  <2> QED BY <2>2, <2>3, <2>4, <2>5 DEF JInv
<1>2. JInv /\ [Next]_vars => JInv'
  <2> SUFFICES ASSUME JInv, [Next]_vars PROVE JInv'
    OBVIOUS
  <2>1. CASE JoinGroup
    BY <2>1, JoinGroupInv
  <2>2. CASE JoinDestroyed
    BY <2>2, JoinDestroyedInv
  <2>3. ASSUME NEW r \in waiting, NEW answer \in Answers, JoinAnswer(r, answer)
        PROVE  JInv'
    BY <2>3, JoinAnswerInv
  <2>4. CASE Destroy
    BY <2>4, DestroyInv
  <2>5. CASE UNCHANGED vars
    BY <2>5 DEF vars, JInv, Typed, Pausing, Asking, Done, Counted, Turns, Asked, Idle,
                GroupIsSound, Silent, JoinSize
  <2> QED BY <2>1, <2>2, <2>3, <2>4, <2>5 DEF Next
<1> QED BY <1>1, <1>2, PTL DEF Spec

\* The types of a join; no more groups are asked than the limits allow.
THEOREM TypeCorrect == Spec => []TypeOK
<1>1. JInv => TypeOK
  <2> SUFFICES ASSUME JInv PROVE TypeOK
    OBVIOUS
  <2>1. group.joined \cup group.failed \subseteq Hosts /\ group.num \in Nat
    BY DEF JInv, Typed, Groups
  <2>2. group.num <= MaxJoinAttempts + JoinSize
    BY <2>1, JoinSizeType, SizesAssumption DEF JInv, Typed, Counted, Pausing, Asking, Done
  <2>3. waiting \subseteq Requests
    <3> SUFFICES ASSUME NEW r \in waiting PROVE r \in Requests
      OBVIOUS
    <3>1. r \in [host : Hosts, num : 1..group.num]
      BY DEF JInv, Typed
    <3>2. r.num \in 1..(MaxJoinAttempts + JoinSize)
      BY <2>1, <2>2, <3>1, JoinSizeType, SizesAssumption
    <3> QED BY <3>1, <3>2 DEF Requests
  <2> QED BY <2>1, <2>3 DEF JInv, Typed, TypeOK, Counted, Pausing, Asking, Done
<1> QED BY <1>1, Invariance, PTL

\* A join counts no host twice, is concluded once, and updates the membership
\* once when it is complete, otherwise never.
THEOREM JoinedOnceHolds == Spec => []JoinedOnce
<1>1. JInv => JoinedOnce
  BY DEF JInv, Typed, Counted, JoinedOnce
<1> QED BY <1>1, Invariance, PTL

\* Hosts that have not joined are asked in turns, the preferred ones first.
THEOREM AskedInTurnsHolds == Spec => []AskedInTurns
<1>1. JInv => AskedInTurns
  <2> SUFFICES ASSUME JInv PROVE AskedInTurns
    OBVIOUS
  <2>1. \A h \in Hosts \ nodesJoined : attempts[h] \in Nat /\ (h \in toTry \/ h \in Asked)
    BY DEF JInv, Typed, Asked
  <2>2. ASSUME NEW h \in Hosts \ nodesJoined, NEW k \in Hosts \ nodesJoined
        PROVE  attempts[h] <= attempts[k] + 1
    BY <2>1 DEF JInv, Turns
  <2>3. ASSUME NEW h \in Preferred \ nodesJoined,
               NEW k \in Hosts \ (Preferred \cup nodesJoined)
        PROVE  attempts[h] >= attempts[k]
    <3>1. h \in Hosts
      BY HostsAssumption
    <3>2. CASE h \in toTry
      <4>1. k \notin Asked
        BY <3>2 DEF JInv, Turns
      <4> QED BY <2>1, <3>1, <3>2, <4>1 DEF JInv, Turns
    <3>3. CASE h \in Asked
      BY <2>1, <3>1, <3>3 DEF JInv, Turns
    <3> QED BY <2>1, <3>1, <3>2, <3>3
  <2> QED BY <2>2, <2>3 DEF AskedInTurns
<1> QED BY <1>1, Invariance, PTL

\* Once destroyed, the node completes no join, whichever answer comes last.
THEOREM DestroyedDoesNotJoinHolds == Spec => DestroyedDoesNotJoin
<1>1. [Next]_vars => [destroyed => outcome' \in {outcome, "aborted"}]_vars
  <2> SUFFICES ASSUME Next, destroyed PROVE outcome' \in {outcome, "aborted"}
    OBVIOUS
  <2>1. CASE JoinGroup \/ Destroy
    BY <2>1 DEF JoinGroup, Destroy
  <2>2. CASE JoinDestroyed
    BY <2>2 DEF JoinDestroyed, Conclude
  <2>3. ASSUME NEW r \in waiting, NEW answer \in Answers, JoinAnswer(r, answer)
        PROVE  outcome' \in {outcome, "aborted"}
    <3>1. \A g, told : GroupOver(g, told) => outcome' \in {outcome, "aborted"}
      BY DEF GroupOver, Verdicts, Conclude
    <3> QED BY <2>3, <3>1 DEF JoinAnswer
  <2> QED BY <2>1, <2>2, <2>3 DEF Next
<1> QED BY <1>1, PTL DEF Spec, DestroyedDoesNotJoin
=============================================================================
