-------------------------- MODULE FailureDetection --------------------------
(***************************************************************************)
(* What one node promises about each member it knows, whatever it is told  *)
(* and in whatever order: the specification that module RingpopNode        *)
(* implements.  There are no changesets here, no stash and no table of     *)
(* rumours, and a suspect period does not remember what it was started     *)
(* for.  A peer is judged by itself: it moves, by a record that is news of *)
(* it, or it stays as it is.  If it moves, its new record alone decides    *)
(* about its suspect period; its place in the ring depends on what it had  *)
(* before, since a suspect keeps the place it has and gets none.           *)
(***************************************************************************)
EXTENDS Integers

CONSTANTS
  Addr,        \* the addresses of the nodes
  Self         \* the node whose view this is

VARIABLES
  view,        \* the member list, a map from addresses to status and inc
  periods,     \* the suspects whose suspect period runs
  ring,        \* the members that requests are routed to
  enabled      \* suspect periods may begin

vars == <<view, periods, ring, enabled>>

Peers == Addr \ {Self}

Init ==
  /\ view = [a \in {} |-> 0]
  /\ periods = {}
  /\ ring = {}
  /\ enabled = TRUE

----------------------------------------------------------------------------
\* The order of statuses at one incarnation.
Rank == [alive |-> 0, suspect |-> 1, faulty |-> 2, leave |-> 3]

\* Record s is news to a holder of record r.  A member that has left is
\* neither suspected nor found faulty: it comes back by its own word only.
Overrides(s, r) ==
  \/ s.inc > r.inc /\ (r.status = "leave" => s.status = "alive")
  \/ s.inc = r.inc /\ Rank[s.status] > Rank[r.status]

\* Peer a is what it was, and where it was.
Stays(a) ==
  /\ a \in DOMAIN view' <=> a \in DOMAIN view
  /\ a \in DOMAIN view => view'[a] = view[a]
  /\ a \in ring' <=> a \in ring

\* There is news of peer a, or this is the first that is heard of it.
Moves(a) ==
  /\ a \in DOMAIN view'
  /\ a \in DOMAIN view => Overrides(view'[a], view[a])
  /\ a \in periods' <=> view'[a].status = "suspect" /\ enabled
  /\ a \in ring' <=> \/ view'[a].status = "alive"
                     \/ view'[a].status = "suspect" /\ a \in ring

\* The node is alive or has left.  A new incarnation of it is alive.
OwnMoves ==
  /\ Self \in DOMAIN view =>
       /\ Self \in DOMAIN view'
       /\ \/ view'[Self].inc = view[Self].inc
          \/ /\ view'[Self].inc > view[Self].inc
             /\ view'[Self].status = "alive"
  /\ Self \in DOMAIN view' => view'[Self].status \in {"alive", "leave"}
  /\ Self \in ring' <=> Self \in DOMAIN view' /\ view'[Self].status = "alive"
  /\ Self \notin periods'

\* The node is told of its peers, or finds out about them.
Learn ==
  /\ OwnMoves
  /\ \A a \in Peers :
       \/ Moves(a)
       \/ Stays(a) /\ (a \in periods' <=> a \in periods)
  /\ UNCHANGED enabled

\* The node leaves or is destroyed: all suspect periods end, undecided.
Stop ==
  /\ OwnMoves
  /\ \A a \in Peers : Stays(a)
  /\ periods' = {}
  /\ enabled' = FALSE

\* The node joins again: periods may begin, and none does.
Resume ==
  /\ OwnMoves
  /\ \A a \in Peers : Stays(a)
  /\ UNCHANGED periods
  /\ enabled' = TRUE

Next == Learn \/ Stop \/ Resume

Spec == Init /\ [][Next]_vars
=============================================================================
