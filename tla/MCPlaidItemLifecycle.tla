------------------------ MODULE MCPlaidItemLifecycle ------------------------
(* PlaidItemLifecycle for TLC: two invocations on one row, and at most two  *)
(* disturbances of it between them.                                        *)
EXTENDS PlaidItemLifecycle, TLC

CONSTANTS r1, r2

RunSymmetry == Permutations(Runs)

\* At most two disturbances in all: two changes, or a change and a failure.
TwoDisturbances == faults + changes <= 2

=============================================================================
