-------------------------- MODULE MCRequestProxy --------------------------
(***************************************************************************)
(* RequestProxy with five points, one of which two nodes claim.            *)
(***************************************************************************)
EXTENDS RequestProxy

CONSTANTS s, n1, n2, k1, k2

MCNodes == {s, n1, n2}
MCKeys == {k1, k2}
MCPoints == {2, 4, 6, 8, 10}

MCPointsOf == [n \in MCNodes |-> CASE n = s -> {2, 4} [] n = n1 -> {4, 8} [] n = n2 -> {6, 10}]

Hash(k) == IF k = k1 THEN 3 ELSE 7

\* upperBound, and min where the end of the tree is reached.
MCFirst ==
  [P \in SUBSET MCPoints \ {{}}, k \in MCKeys |->
     LET onward == {p \in P : p >= Hash(k)}
     IN  CHOOSE p \in IF onward = {} THEN P ELSE onward :
           \A q \in IF onward = {} THEN P ELSE onward : p <= q]
=============================================================================
