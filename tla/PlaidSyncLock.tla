--------------------------- MODULE PlaidSyncLock ---------------------------
(***************************************************************************)
(* The per-item sync lock of src/lib/plaid/sync-lock.ts: a lease kept in   *)
(* one column of the PlaidItem row (syncLockedAt), taken by a conditional  *)
(* UPDATE, recovered by age, and released under a fencing token, which is  *)
(* the instant the holder wrote.  A caller that loses the lease stamps     *)
(* syncIncompleteAt in a second, separate write.                           *)
(*                                                                         *)
(* A run is one invocation of a caller of the lock (webhook, connect,      *)
(* manual refresh, daily sweep, resume job).  Every step of a run is one   *)
(* statement against the database; between two of them other runs act,     *)
(* time passes, and the platform may kill the run.                         *)
(*                                                                         *)
(* Time is an integer clock.  All runs read the same clock: a skew between *)
(* servers that is larger than the headroom LOCK_TTL_MS leaves over the    *)
(* platform's budget is outside this model.                                *)
(***************************************************************************)
EXTENDS Naturals

CONSTANTS
    Runs,            \* the invocations
    LOCK_TTL,        \* LOCK_TTL_MS: the age at which a lease may be taken over
    MaxDuration,     \* the platform kills an invocation of this age
    MaxTime          \* bound on the clock

ASSUME TTLAssumption == LOCK_TTL \in Nat \ {0}
ASSUME DurationAssumption == MaxDuration \in Nat
ASSUME MaxTimeAssumption == MaxTime \in Nat

NoTime == 0          \* SQL NULL; the clock starts at 1

VARIABLES
    now,                \* the clock
    syncLockedAt,       \* PlaidItem.syncLockedAt
    syncIncompleteAt,   \* PlaidItem.syncIncompleteAt
    pc,                 \* where each run is
    claimedAt,          \* each run's reading of the clock, its fencing token
    succeeded           \* each run's verdict on its own body

vars == <<now, syncLockedAt, syncIncompleteAt, pc, claimedAt, succeeded>>

Locations == {"idle", "claiming", "stamping", "running", "releasing"}

(***************************************************************************)
(* The clock                                                               *)
(***************************************************************************)

\* maxDuration: time cannot pass the age at which the platform kills a run.
WithinBudget(r) == pc[r] # "idle" => now < claimedAt[r] + MaxDuration

Tick ==
    /\ now < MaxTime
    /\ \A r \in Runs : WithinBudget(r)
    /\ now' = now + 1
    /\ UNCHANGED <<syncLockedAt, syncIncompleteAt, pc, claimedAt, succeeded>>

(***************************************************************************)
(* claimPlaidItemSyncLockAt                                                *)
(***************************************************************************)

\* Mutant: the run keeps the instant its lease would expire.
ReadClockAsExpiry(r) ==
    /\ pc[r] = "idle"
    /\ pc' = [pc EXCEPT ![r] = "claiming"]
    /\ claimedAt' = [claimedAt EXCEPT ![r] = now + LOCK_TTL]
    /\ UNCHANGED <<now, syncLockedAt, syncIncompleteAt, succeeded>>

\* const now = new Date(): read once, used for the token, the cutoff and the stamp.
ReadClock(r) ==
    /\ pc[r] = "idle"
    /\ pc' = [pc EXCEPT ![r] = "claiming"]
    /\ claimedAt' = [claimedAt EXCEPT ![r] = now]
    /\ UNCHANGED <<now, syncLockedAt, syncIncompleteAt, succeeded>>

\* Mutant: the comparison with the cutoff is turned round.
ClaimableWhileFresh(t) ==
    \/ syncLockedAt = NoTime
    \/ syncLockedAt + LOCK_TTL >= t

\* The WHERE clause of the claim: unlocked, or locked at or before the cutoff.
Claimable(t) ==
    \/ syncLockedAt = NoTime
    \/ syncLockedAt + LOCK_TTL <= t

ClaimWins(r) ==
    /\ pc[r] = "claiming"
    /\ Claimable(claimedAt[r])
    /\ syncLockedAt' = claimedAt[r]
    /\ pc' = [pc EXCEPT ![r] = "running"]
    /\ succeeded' = [succeeded EXCEPT ![r] = FALSE]
    /\ UNCHANGED <<now, syncIncompleteAt, claimedAt>>

\* Mutant: the loser goes on into the body.
ClaimLosesAndRuns(r) ==
    /\ pc[r] = "claiming"
    /\ ~Claimable(claimedAt[r])
    /\ pc' = [pc EXCEPT ![r] = "running"]
    /\ UNCHANGED <<now, syncLockedAt, syncIncompleteAt, claimedAt, succeeded>>

\* count = 0 and the item is visible.  (An item the client cannot see makes
\* the claim throw before it writes anything: no step.)
ClaimLoses(r) ==
    /\ pc[r] = "claiming"
    /\ ~Claimable(claimedAt[r])
    /\ pc' = [pc EXCEPT ![r] = "stamping"]
    /\ UNCHANGED <<now, syncLockedAt, syncIncompleteAt, claimedAt, succeeded>>

\* The loser's marker: a write of its own, best effort.
StampIncomplete(r) ==
    /\ pc[r] = "stamping"
    /\ syncIncompleteAt' \in {claimedAt[r], syncIncompleteAt}
    /\ pc' = [pc EXCEPT ![r] = "idle"]
    /\ UNCHANGED <<now, syncLockedAt, claimedAt, succeeded>>

(***************************************************************************)
(* The body under the lock, and releasePlaidItemSyncLock                   *)
(***************************************************************************)

\* fn() resolves.  Its last write settles the marker, or holds it (first run).
BodySucceeds(r) ==
    /\ pc[r] = "running"
    /\ succeeded' = [succeeded EXCEPT ![r] = TRUE]
    /\ syncIncompleteAt' \in {NoTime, syncIncompleteAt}
    /\ pc' = [pc EXCEPT ![r] = "releasing"]
    /\ UNCHANGED <<now, syncLockedAt, claimedAt>>

\* fn() fails.  The deferred pipeline stamps the marker, the others leave it.
BodyFails(r) ==
    /\ pc[r] = "running"
    /\ syncIncompleteAt' \in {now, syncIncompleteAt}
    /\ pc' = [pc EXCEPT ![r] = "releasing"]
    /\ UNCHANGED <<now, syncLockedAt, claimedAt, succeeded>>

\* Mutant: the release without the fencing token.
StillOwnsUnfenced(r) == syncLockedAt # NoTime

\* The WHERE clause of the release: only while the row carries this run's token.
StillOwns(r) == syncLockedAt = claimedAt[r]

Release(r) ==
    /\ pc[r] = "releasing"
    /\ IF StillOwns(r)
         THEN /\ syncLockedAt' = NoTime
              /\ syncIncompleteAt' = IF succeeded[r] THEN NoTime ELSE syncIncompleteAt
         ELSE UNCHANGED <<syncLockedAt, syncIncompleteAt>>
    /\ pc' = [pc EXCEPT ![r] = "idle"]
    /\ UNCHANGED <<now, claimedAt, succeeded>>

\* The release is best effort: its write may fail, and the lease stays behind.
ReleaseFails(r) ==
    /\ pc[r] = "releasing"
    /\ pc' = [pc EXCEPT ![r] = "idle"]
    /\ UNCHANGED <<now, syncLockedAt, syncIncompleteAt, claimedAt, succeeded>>

\* The platform ends the invocation: a crash, a deployment, the duration budget.
Kill(r) ==
    /\ pc[r] # "idle"
    /\ pc' = [pc EXCEPT ![r] = "idle"]
    /\ UNCHANGED <<now, syncLockedAt, syncIncompleteAt, claimedAt, succeeded>>

(***************************************************************************)
(* The specification                                                       *)
(***************************************************************************)

Init ==
    /\ now = 1
    /\ syncLockedAt = NoTime
    /\ syncIncompleteAt = NoTime
    /\ pc = [r \in Runs |-> "idle"]
    /\ claimedAt = [r \in Runs |-> NoTime]
    /\ succeeded = [r \in Runs |-> FALSE]

RunStep(r) ==
    \/ ReadClock(r)
    \/ ClaimWins(r)
    \/ ClaimLoses(r)
    \/ StampIncomplete(r)
    \/ BodySucceeds(r)
    \/ BodyFails(r)
    \/ Release(r)
    \/ ReleaseFails(r)
    \/ Kill(r)

Next == Tick \/ \E r \in Runs : RunStep(r)

Spec == Init /\ [][Next]_vars

(***************************************************************************)
(* Properties                                                              *)
(***************************************************************************)

Inside(r) == pc[r] \in {"running", "releasing"}

\* A run whose lease has not reached the age at which it may be taken over.
Fresh(r) == Inside(r) /\ now < claimedAt[r] + LOCK_TTL

\* Type invariant: every instant in the row and in a run's hands has passed,
\* and a run that has left "idle" has read the clock (sync-lock.ts:121).
TypeOK ==
    /\ now \in Nat \ {0}
    /\ syncLockedAt \in 0..now
    /\ syncIncompleteAt \in 0..now
    /\ pc \in [Runs -> Locations]
    /\ claimedAt \in [Runs -> 0..now]
    /\ succeeded \in [Runs -> BOOLEAN]
    /\ \A r \in Runs : pc[r] # "idle" => claimedAt[r] # NoTime

\* Two runs never both hold a fresh lease, whatever was killed, delayed
\* between its clock reading and its claim, or left behind by a failed
\* release: the conditional UPDATE at sync-lock.ts:124 and its cutoff.
LeaseExclusive ==
    \A r, s \in Runs : Fresh(r) /\ Fresh(s) => r = s

\* As long as the platform ends runs before their lease can be taken over, no
\* two runs are ever inside the pipeline together (sync-lock.ts:60, "one
\* budget plus headroom").
Mutex ==
    \A r, s \in Runs : Inside(r) /\ Inside(s) => r = s

\* Nobody takes away, shortens or clears the lease of a run that is inside
\* with a fresh lease, except that run itself by leaving: a run that
\* outlived its own lease must not free its successor's (IDEMP-005, the
\* fencing token at sync-lock.ts:165).
LeaseUndisturbed ==
    [][\A r \in Runs : Fresh(r) /\ Fresh(r)' => syncLockedAt' = syncLockedAt]_vars

\* The lock refines the abstract mutual exclusion: the holder is the run
\* inside with a fresh lease.
FreshHolder == {r \in Runs : Fresh(r)}

M == INSTANCE SyncMutex WITH Runs <- Runs, holder <- FreshHolder

\* Every behaviour of the lock is one of the abstract mutual exclusion.
RefinesMutex == M!Spec

=============================================================================
