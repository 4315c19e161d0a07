---------------------------- MODULE MCPlaidRemoval ----------------------------
(* Items that are removed, relinked and restored by overlapping invocations.   *)
EXTENDS PlaidRemoval
=============================================================================
