--------------------------- MODULE MCAiAllowance ---------------------------
(* Three turns of one customer in two processes, over four hours and two    *)
(* days.                                                                    *)
EXTENDS AiAllowance, TLC

CONSTANTS t1, t2, t3, p1, p2

MCTurns == {t1, t2, t3}
MCProcs == {p1, p2}
MCProcessOf == t1 :> p1 @@ t2 :> p1 @@ t3 :> p2

TurnSymmetry == Permutations({t1, t2})
=============================================================================
