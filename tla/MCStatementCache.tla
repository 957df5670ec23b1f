--------------------------- MODULE MCStatementCache ---------------------------
(* Two clients and two texts for TLC; both are interchangeable. *)
EXTENDS StatementCache, TLC

CONSTANTS c1, c2, t1, t2

MCClients == {c1, c2}
MCTexts == {t1, t2}
MCSymmetry == Permutations(MCClients) \cup Permutations(MCTexts)
===============================================================================
