--------------------------- MODULE MCSessionLock ---------------------------
(***************************************************************************)
(* Three bridges on one lock: the fewest for which waiters can be          *)
(* overtaken.  No symmetry, because the run checks a liveness property.    *)
(***************************************************************************)
EXTENDS SessionLock

CONSTANTS a, b, c
MCIds == {a, b, c}
=============================================================================
