-------------------------- MODULE MCPoolClients --------------------------
(***************************************************************************)
(* Two clients of one pool.                                                *)
(***************************************************************************)
EXTENDS PoolClients, TLC

CONSTANTS a, b
MCIds == {a, b}
MCSymmetry == Permutations(MCIds)
=============================================================================
