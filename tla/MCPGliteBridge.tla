--------------------------- MODULE MCPGliteBridge ---------------------------
EXTENDS PGliteBridge, TLC

CONSTANTS t1, t2

MCTables == {t1, t2}
MCNames == 1..2
MCTexts == {[body |-> 1, eol |-> "LF"], [body |-> 1, eol |-> "CRLF"], [body |-> 2, eol |-> "LF"]}
Filled(n) == [cols |-> n, rows |-> 1]
MCInitialData == {[tables |-> (t1 :> first @@ t2 :> second), counter |-> k] :
                    <<first, second, k>> \in {<<NoTable, NoTable, 0>>, <<Filled(1), NoTable, 0>>,
                                              <<Filled(2), Filled(1), 1>>}}
MCLeftovers == {NoSchema, {[tables |-> (t1 :> Filled(1) @@ t2 :> NoTable), counter |-> 0]}}
MCTableOf(n) == IF n = 1 THEN t1 ELSE t2
=============================================================================
