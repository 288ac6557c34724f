---------------------------- MODULE MemberViews ----------------------------
(***************************************************************************)
(* What the member lists of a cluster promise, whoever says what to whom:  *)
(* the specification that module Cluster implements with its pings, joins  *)
(* and rumours.  Only a node gives itself an incarnation, and only at its  *)
(* operator's word has it left; of the others a node believes what they    *)
(* may have said, or what may be suspected of it, and it never goes back.  *)
(***************************************************************************)
EXTENDS Integers

CONSTANT Addr    \* the addresses of the nodes

VARIABLES
  view,          \* view[a]: the member list of a, a map to status and inc
  up,            \* the nodes whose process runs
  clock          \* the last incarnation each node gave itself

vars == <<view, up, clock>>

Alive(inc) == [status |-> "alive", inc |-> inc]

\* Everybody is alive to everybody.
Init ==
  /\ view = [a \in Addr |-> [b \in Addr |-> Alive(1)]]
  /\ up = Addr
  /\ clock = [a \in Addr |-> 1]

----------------------------------------------------------------------------
\* The order of statuses at one incarnation.
Rank == [alive |-> 0, suspect |-> 1, faulty |-> 2, leave |-> 3]

\* Record s is news to a holder of record r.
Overrides(s, r) ==
  \/ s.inc > r.inc
  \/ s.inc = r.inc /\ Rank[s.status] > Rank[r.status]

\* Nobody is forgotten, and no record goes back.
Forward(v, w) ==
  \A b \in DOMAIN v : b \in DOMAIN w /\ (w[b] = v[b] \/ Overrides(w[b], v[b]))

\* Node b has left its last incarnation, or its process has ended: it says
\* nothing to the contrary.
MayHaveLeft(b) == b \in up => view[b][b].status = "leave"

\* No list has of a node what it did not give itself: no incarnation that is
\* later than its last, and no leave of that one.
NothingInvented ==
  \A a \in Addr : \A b \in DOMAIN view[a] :
    /\ view[a][b].inc <= clock[b]
    /\ view[a][b].status = "leave" /\ view[a][b].inc = clock[b] => MayHaveLeft(b)

\* A node that keeps its incarnation keeps its word.  Otherwise it is alive:
\* it has refuted somebody, or its operator has made it join again.
KeepsWord(a) ==
  IF clock'[a] = clock[a] THEN view'[a][a] = view[a][a]
  ELSE clock'[a] = clock[a] + 1 /\ view'[a][a] = Alive(clock'[a])

\* Nodes that run hear news, or make it.
Learn ==
  /\ up' = up
  /\ DOMAIN view' = Addr /\ DOMAIN clock' = Addr
  /\ \A a \in up : Forward(view[a], view'[a]) /\ KeepsWord(a)
  /\ \A a \in Addr \ up : view'[a] = view[a] /\ clock'[a] = clock[a]
  /\ NothingInvented'

\* The operator makes a node leave.
Leave(a) ==
  /\ a \in up
  /\ view' = [view EXCEPT ![a][a].status = "leave"]
  /\ UNCHANGED <<up, clock>>

\* A process ends, and with it what it knew.
Crash(a) ==
  /\ a \in up
  /\ up' = up \ {a}
  /\ view' = [view EXCEPT ![a] = [b \in {} |-> 0]]
  /\ UNCHANGED clock

\* A new process knows itself, by a new incarnation.
Restart(a) ==
  /\ a \notin up
  /\ up' = up \cup {a}
  /\ clock' = [clock EXCEPT ![a] = @ + 1]
  /\ view' = [view EXCEPT ![a] = [b \in {a} |-> Alive(clock'[b])]]

Next == Learn \/ \E a \in Addr : Leave(a) \/ Crash(a) \/ Restart(a)

Spec == Init /\ [][Next]_vars
=============================================================================
