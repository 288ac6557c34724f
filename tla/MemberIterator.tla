--------------------------- MODULE MemberIterator ---------------------------
(***************************************************************************)
(* The choice of the next member to ping (lib/membership-iterator.js) over *)
(* the member list, an array that other calls change between two choices:  *)
(* updates insert members at random positions, statuses change, a start of *)
(* gossip shuffles the array, and getStats sorts it in place.              *)
(*                                                                         *)
(* A call of next() runs to completion.  It is modelled turn by turn of    *)
(* its loop, and everything else waits while it runs.                      *)
(***************************************************************************)
EXTENDS Integers, Sequences, FiniteSets

CONSTANTS
  Addr,           \* addresses; numbers, so that they can be sorted
  Local,          \* ringpop.whoami()
  Initial,        \* the members that the bootstrap brought
  MaxReorders,    \* bound on the calls of getStats and gossip.start
  None            \* null: no member

ASSUME AddrAssumption == Addr \subseteq Nat /\ IsFiniteSet(Addr)
ASSUME LocalAssumption == Local \in Initial /\ Initial \subseteq Addr
ASSUME ReordersAssumption == MaxReorders \in Nat
ASSUME NoneAssumption == None \notin Addr

VARIABLES
  members,        \* membership.members, the addresses in order
  up,             \* the members that are alive or suspect
  gossiping,      \* !gossip.isStopped
  index,          \* currentIndex, counted from 1 as sequences are; 0 at first
  walking,        \* next() is running
  visited,        \* the keys of membersVisited
  last,           \* what next() returned last
  reorders,       \* calls of getStats and gossip.start, up to MaxReorders
  \* History of the round, for the properties:
  returned,       \* the members that next() returned in this round
  entitled,       \* those that were listed and pingable throughout the round
  reordered       \* the list was put into another order during the round

list == <<members, up, gossiping, reorders>>
history == <<returned, entitled, reordered>>
vars == <<list, index, walking, visited, last, history>>

Listed == {members[i] : i \in DOMAIN members}

\* isPingable
Pingable == (up \cap Listed) \ {Local}

\* All orders of a set.
Orders(S) ==
  {o \in [1..Cardinality(S) -> S] : \A i, j \in DOMAIN o : o[i] = o[j] => i = j}

\* The list after the join: members were pushed, and gossip.start shuffled.
Init ==
  /\ members \in Orders(Initial)
  /\ up \in SUBSET Initial
  /\ Local \in up
  /\ gossiping = TRUE
  /\ index = 0
  /\ walking = FALSE
  /\ visited = {}
  /\ last = None
  /\ reorders = 0
  /\ returned = {}
  /\ entitled = Pingable
  /\ reordered = FALSE

----------------------------------------------------------------------------
(* next() *)

\* Fault: every call begins at the start of the list.
CallFromStart ==
  /\ ~walking
  /\ walking' = TRUE
  /\ visited' = {}
  /\ index' = 0
  /\ UNCHANGED <<list, last, history>>

\* gossip, or an operator's tick, asks for the next member.
Call ==
  /\ ~walking
  /\ walking' = TRUE
  /\ visited' = {}
  /\ UNCHANGED <<list, index, last, history>>

\* The end of a turn at member m, which is at position i: done if pingable.
\* membersVisited ends with the call.
Visit(m, i) ==
  /\ index' = i
  /\ IF m \in Pingable
       THEN walking' = FALSE /\ last' = m /\ visited' = {}
       ELSE visited' = visited \cup {m} /\ UNCHANGED <<walking, last>>

\* The loop's condition: some member has not been visited in this call.
More == Cardinality(visited) < Len(members)

\* The next position of the list.
Advance ==
  /\ walking /\ More
  /\ index < Len(members)
  /\ Visit(members[index + 1], index + 1)
  /\ returned' = IF members[index + 1] \in Pingable
                   THEN returned \cup {members[index + 1]} ELSE returned
  /\ UNCHANGED <<list, entitled, reordered>>

\* Fault: a round begins at the second member.
WrapAroundSecond ==
  /\ walking /\ More
  /\ index >= Len(members)
  /\ \E order \in Orders(Listed) :
       /\ members' = order
       /\ Visit(order[2], 2)
       /\ returned' = {order[2]} \cap Pingable
  /\ entitled' = Pingable
  /\ reordered' = FALSE
  /\ UNCHANGED <<up, gossiping, reorders>>

\* Past the end: the list is shuffled, and a round begins at its start.
WrapAround ==
  /\ walking /\ More
  /\ index >= Len(members)
  /\ \E order \in Orders(Listed) :
       /\ members' = order
       /\ Visit(order[1], 1)
       /\ returned' = {order[1]} \cap Pingable
  /\ entitled' = Pingable
  /\ reordered' = FALSE
  /\ UNCHANGED <<up, gossiping, reorders>>

\* Everybody was visited, and nobody is pingable.
GiveUp ==
  /\ walking /\ ~More
  /\ walking' = FALSE
  /\ last' = None
  /\ visited' = {}
  /\ UNCHANGED <<list, index, history>>

----------------------------------------------------------------------------
(* What happens between two calls of next() *)

\* The list with a at position i + 1, as splice(i, 0, a) leaves it.
Spliced(a, i) ==
  SubSeq(members, 1, i) \o <<a>> \o SubSeq(members, i + 1, Len(members))

\* Fault: a known address is inserted again.
AddMemberAgain(a, isUp) ==
  /\ ~walking
  /\ \E i \in 0..(Len(members) - 1) : members' = Spliced(a, i)
  /\ up' = IF isUp THEN up \cup {a} ELSE up
  /\ UNCHANGED <<gossiping, index, walking, visited, last, reorders, history>>

\* applyUpdate for a new address: getJoinPosition is any index of the list,
\* never its end.
AddMember(a, isUp) ==
  /\ ~walking
  /\ a \notin Listed
  /\ \E i \in 0..(Len(members) - 1) : members' = Spliced(a, i)
  /\ up' = IF isUp THEN up \cup {a} ELSE up
  /\ UNCHANGED <<gossiping, index, walking, visited, last, reorders, history>>

\* applyUpdate for a known one: it becomes pingable, or faulty or left.
ChangeStatus(a) ==
  /\ ~walking
  /\ a \in Listed \ {Local}
  /\ up' = IF a \in up THEN up \ {a} ELSE up \cup {a}
  /\ entitled' = entitled \ {a}
  /\ UNCHANGED <<members, gossiping, index, walking, visited, last, reorders,
                 returned, reordered>>

Reorder ==
  /\ ~walking
  /\ reorders < MaxReorders
  /\ reorders' = reorders + 1
  /\ reordered' = TRUE
  /\ UNCHANGED <<up, index, walking, visited, last, returned, entitled>>

\* getStats: Array.prototype.sort sorts membership.members itself.
GetStats ==
  /\ Reorder
  /\ \E o \in Orders(Listed) :
       /\ \A i \in 1..(Len(o) - 1) : o[i] < o[i + 1]
       /\ members' = o
  /\ UNCHANGED gossiping

\* gossip.stop, and gossip.start with its shuffle.
StopGossip ==
  /\ ~walking
  /\ gossiping
  /\ gossiping' = FALSE
  /\ UNCHANGED <<members, up, reorders, index, walking, visited, last, history>>

StartGossip ==
  /\ Reorder
  /\ ~gossiping
  /\ gossiping' = TRUE
  /\ members' \in Orders(Listed)

----------------------------------------------------------------------------
Walk == Advance \/ WrapAround \/ GiveUp

Next ==
  \/ Call
  \/ Walk
  \/ \E a \in Addr, isUp \in BOOLEAN : AddMember(a, isUp)
  \/ \E a \in Addr : ChangeStatus(a)
  \/ GetStats
  \/ StopGossip
  \/ StartGossip

Spec == Init /\ [][Next]_vars

\* A call of next() ends, and while gossip runs there is another one.  When it
\* is stopped only an operator's tick calls next(), and nothing makes anybody
\* send one.  Statuses and operators are free.
FairSpec == Spec /\ WF_vars(Walk) /\ WF_vars(gossiping /\ Call)

----------------------------------------------------------------------------
(* Properties *)

\* The list holds each address once, and the index points into it, or before.
TypeOK ==
  /\ members \in Seq(Addr)
  /\ \A i, j \in DOMAIN members : members[i] = members[j] => i = j
  /\ Local \in Listed
  /\ up \subseteq Listed
  /\ index \in 0..Len(members)
  /\ visited \subseteq Listed
  /\ last \in Addr \cup {None}
  /\ reorders \in 0..MaxReorders

\* docs/references.md:59: members are pinged "until they get through the full
\* membership list".  A round ends when every member that was pingable from
\* its beginning on has been returned, at whatever positions members were
\* inserted meanwhile; only a reordering in the middle can skip a member.
RoundIsComplete ==
  [][WrapAround /\ ~reordered => entitled \subseteq returned]_vars

\* A member that stays pingable is pinged again and again while gossip runs,
\* however others are inserted, as long as the list is not reordered for ever.
\* Of a node whose gossip is stopped for good nothing is said.
ServedAgain ==
  \A a \in Addr : <>[](gossiping /\ a \in Pingable) => []<>(last = a)
=============================================================================
