-------------------------- MODULE MCPlaidSyncLock --------------------------
(* PlaidSyncLock for TLC: three invocations that may outlive their lease.  *)
EXTENDS PlaidSyncLock, TLC

CONSTANTS r1, r2, r3

MCRuns == {r1, r2, r3}

\* The runs are interchangeable: no property checked here is a liveness one.
RunSymmetry == Permutations(MCRuns)

=============================================================================
