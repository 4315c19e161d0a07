---------------------------- MODULE MCFileImport ----------------------------
(* Two statements that share a row, and a history.                          *)
EXTENDS FileImport

CONSTANTS june, summer, trades, e1, e2, t1

MCRowsOf == [f \in Files |-> CASE f = june   -> {e1}
                              [] f = summer -> {e1, e2}
                              [] f = trades -> {t1}]
=============================================================================
