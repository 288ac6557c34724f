----------------------------- MODULE MCTreeRing -----------------------------
(***************************************************************************)
(* TreeRing with five servers.  The points of s1 and s2 collide at 5, those*)
(* of s3 with each other, and all of s4's are points of other servers.     *)
(***************************************************************************)
EXTENDS TreeRing

CONSTANTS s1, s2, s3, s4, s5

MCServer == {s1, s2, s3, s4, s5}

MCReplicas ==
  [s \in MCServer |->
     CASE s = s1 -> <<7, 1, 5, 12>>
       [] s = s2 -> <<5, 9, 3, 11>>
       [] s = s3 -> <<8, 2, 8, 6>>
       [] s = s4 -> <<3, 8>>
       [] s = s5 -> <<4, 10, 0, 13>>]

MCHashes == 0..14
=============================================================================
