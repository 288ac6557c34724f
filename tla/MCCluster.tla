----------------------------- MODULE MCCluster -----------------------------
(* Cluster for TLC: the nodes that have no trouble are interchangeable. *)
EXTENDS Cluster, TLC

Symmetry == Permutations(Addr \ Troubled)
=============================================================================
