-------------------------- MODULE MCPGliteServer --------------------------
(***************************************************************************)
(* Two sockets and one session operation.                                  *)
(***************************************************************************)
EXTENDS PGliteServer, TLC

CONSTANTS a, b, reset
MCDuplexes == {a, b}
MCOps == {reset}
MCIds == MCDuplexes \cup MCOps
\* The sockets are interchangeable.
MCSymmetry == Permutations(MCDuplexes)
=============================================================================
