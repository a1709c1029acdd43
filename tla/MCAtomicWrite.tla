--------------------------- MODULE MCAtomicWrite ---------------------------
(* Three builds, two of them of one output path and the third of another   *)
(* with the same stem, sharing two pids.                                   *)
EXTENDS AtomicWrite, TLC

CONSTANTS b1, b2, b3, p1, p2, s1

MCTarget == b1 :> p1 @@ b2 :> p1 @@ b3 :> p2
MCStem   == p1 :> s1 @@ p2 :> s1
MCBlocks == b1 :> 2 @@ b2 :> 1 @@ b3 :> 0
=============================================================================
