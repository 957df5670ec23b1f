----------------------------- MODULE MCPoolEnd -----------------------------
(***************************************************************************)
(* Two clients of one pool, which may be ended.                            *)
(***************************************************************************)
EXTENDS PoolEnd, TLC

CONSTANTS a, b
MCIds == {a, b}
MCSymmetry == Permutations(MCIds)
=============================================================================
