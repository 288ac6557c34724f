--------------------------- MODULE MCRingpopNode ---------------------------
(***************************************************************************)
(* Small instances of RingpopNode: two or three addresses, and changesets  *)
(* with every status at every incarnation number up to MaxTime.            *)
(***************************************************************************)
EXTENDS RingpopNode

CONSTANTS Peer       \* the source of the changesets

MCChange == [status : Status, inc : Times, src : {Peer}, srcInc : {1}]

\* Changesets with at most one change.
MCBatches == {NoMap} \cup UNION {[{a} -> MCChange] : a \in Addr}
=============================================================================
