------------------------- MODULE MCPlaidCursorSync -------------------------
(* PlaidCursorSync for TLC: one event whose provider id churns (a1, a2), in *)
(* an account that may be imported late and may be remapped.                *)
EXTENDS PlaidCursorSync, TLC

CONSTANTS a1, a2, x, f1, f2

MCEvent == a1 :> "A" @@ a2 :> "A"
\* Two purchases alike in date, amount and descriptor, under one id each.
TwinEvent == a1 :> "A" @@ a2 :> "B"
MCFingerprint == a1 :> "p" @@ a2 :> "p"
MCPendingRef == [t \in Txns |-> NoTxn]
MCAccountOf == a1 :> x @@ a2 :> x
MCHomeOf == x :> f1

=============================================================================
