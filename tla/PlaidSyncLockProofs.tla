------------------------ MODULE PlaidSyncLockProofs ------------------------
(***************************************************************************)
(* What the sync lock guarantees for any set of runs, any TTL, any budget  *)
(* and any horizon of the clock.                                           *)
(*                                                                         *)
(* The inductive invariant has three parts: the types, the two sides of    *)
(* the lease (a run with a fresh lease is the one the row names), and its  *)
(* exclusivity.  Exclusivity alone is not inductive: a release compares    *)
(* tokens, and only a run whose token the row carries is protected by it.  *)
(* With the budget below the TTL no run outlives its lease, and what holds *)
(* of leases holds of the runs themselves.                                 *)
(***************************************************************************)
EXTENDS PlaidSyncLock, TLAPS

\* The row carries the token of every run that is inside with a fresh lease.
RowNamesHolder == \A r \in Runs : Fresh(r) => syncLockedAt = claimedAt[r]

IInv == TypeOK /\ RowNamesHolder /\ LeaseExclusive

-----------------------------------------------------------------------------
\* Type correctness of PlaidSyncLock: no run leaves "idle" without a clock reading.
THEOREM TypeCorrect == Spec => []TypeOK
<1> USE TTLAssumption, DurationAssumption, MaxTimeAssumption
<1>1. Init => TypeOK
  BY DEF Init, TypeOK, Locations, NoTime
<1>2. TypeOK /\ [Next]_vars => TypeOK'
  <2> SUFFICES ASSUME TypeOK, [Next]_vars PROVE TypeOK'
    OBVIOUS
  <2> USE DEF TypeOK, Locations, NoTime
  <2>1. CASE Tick
    BY <2>1 DEF Tick
  <2>2. ASSUME NEW r \in Runs, RunStep(r) PROVE TypeOK'
    <3>1. CASE ReadClock(r)
      BY <3>1 DEF ReadClock
    <3>2. CASE ClaimWins(r)
      BY <3>2 DEF ClaimWins
    <3>3. CASE ClaimLoses(r)
      BY <3>3 DEF ClaimLoses
    <3>4. CASE StampIncomplete(r)
      BY <3>4 DEF StampIncomplete
    <3>5. CASE BodySucceeds(r)
      BY <3>5 DEF BodySucceeds
    <3>6. CASE BodyFails(r)
      BY <3>6 DEF BodyFails
    <3>7. CASE Release(r)
      <4>1. syncLockedAt' \in 0..now /\ syncIncompleteAt' \in 0..now
        BY <3>7 DEF Release
      <4>2. QED
        BY <3>7, <4>1 DEF Release
    <3>8. CASE ReleaseFails(r)
      BY <3>8 DEF ReleaseFails
    <3>9. CASE Kill(r)
      BY <3>9 DEF Kill
    <3>10. QED
      BY <2>2, <3>1, <3>2, <3>3, <3>4, <3>5, <3>6, <3>7, <3>8, <3>9 DEF RunStep
  <2>3. CASE UNCHANGED vars
    BY <2>3 DEF vars
  <2>4. QED
    BY <2>1, <2>2, <2>3 DEF Next
<1>3. QED
  BY <1>1, <1>2, PTL DEF Spec

-----------------------------------------------------------------------------
\* A run that is fresh after a step of another run, or of the clock, was
\* fresh before it with the same token.
LEMMA FreshBefore ==
    ASSUME TypeOK, NEW r \in Runs, Fresh(r)',
           now' >= now, now' \in Nat,
           pc'[r] = pc[r], claimedAt'[r] = claimedAt[r]
    PROVE  Fresh(r)
BY TTLAssumption DEF TypeOK, Fresh, Inside

\* A claim is refused while another run's lease is fresh.
LEMMA FreshBlocksClaim ==
    ASSUME TypeOK, RowNamesHolder,
           NEW r \in Runs, NEW s \in Runs, Fresh(r), pc[s] = "claiming"
    PROVE  ~Claimable(claimedAt[s])
<1>1. syncLockedAt = claimedAt[r] /\ claimedAt[r] # NoTime
  BY DEF RowNamesHolder, TypeOK, Fresh, Inside
<1>2. claimedAt[s] \in 0..now /\ claimedAt[r] \in 0..now /\ now \in Nat
  BY DEF TypeOK
<1>3. QED
  BY <1>1, <1>2, TTLAssumption DEF Fresh, Claimable, NoTime

\* A release that finds its own token in the row frees nobody else's fresh lease.
LEMMA ReleaseFreesOwnLease ==
    ASSUME TypeOK, RowNamesHolder, LeaseExclusive,
           NEW r \in Runs, NEW s \in Runs,
           Fresh(r), pc[s] = "releasing", StillOwns(s)
    PROVE  r = s
<1>1. claimedAt[s] = claimedAt[r]
  BY DEF RowNamesHolder, StillOwns
<1>2. Fresh(s)
  BY <1>1 DEF Fresh, Inside
<1>3. QED
  BY <1>2 DEF LeaseExclusive

-----------------------------------------------------------------------------
\* The invariant is inductive, and no step of PlaidSyncLock touches the row
\* under a run that stays fresh.
LEMMA Inductive ==
    IInv /\ [Next]_vars =>
        /\ (RowNamesHolder /\ LeaseExclusive)'
        /\ \A r \in Runs : Fresh(r) /\ Fresh(r)' => syncLockedAt' = syncLockedAt
<1> SUFFICES ASSUME IInv, [Next]_vars
             PROVE  /\ (RowNamesHolder /\ LeaseExclusive)'
                    /\ \A r \in Runs : Fresh(r) /\ Fresh(r)' => syncLockedAt' = syncLockedAt
  OBVIOUS
<1> USE TTLAssumption
<1> TypeOK /\ RowNamesHolder /\ LeaseExclusive
  BY DEF IInv
<1>1. CASE Tick
  <2>1. now' \in Nat /\ now' >= now
    BY <1>1 DEF Tick, TypeOK
  <2>2. \A r \in Runs : Fresh(r)' => Fresh(r)
    BY <1>1, <2>1, FreshBefore DEF Tick
  <2>3. QED
    BY <1>1, <2>2 DEF Tick, RowNamesHolder, LeaseExclusive
<1>2. ASSUME NEW s \in Runs, RunStep(s), ~ClaimWins(s), ~Release(s)
      PROVE  /\ (RowNamesHolder /\ LeaseExclusive)'
             /\ \A r \in Runs : Fresh(r) /\ Fresh(r)' => syncLockedAt' = syncLockedAt
  <2>1. now' = now /\ syncLockedAt' = syncLockedAt
    BY <1>2 DEF RunStep, ReadClock, ClaimLoses, StampIncomplete, BodySucceeds,
                BodyFails, ReleaseFails, Kill
  <2>2. \A r \in Runs : Fresh(r)' => Fresh(r) /\ claimedAt'[r] = claimedAt[r]
    <3> SUFFICES ASSUME NEW r \in Runs, Fresh(r)'
                 PROVE  Fresh(r) /\ claimedAt'[r] = claimedAt[r]
      OBVIOUS
    <3>1. CASE r # s
      BY <1>2, <2>1, <3>1 DEF RunStep, ReadClock, ClaimLoses, StampIncomplete,
         BodySucceeds, BodyFails, ReleaseFails, Kill, Fresh, Inside, TypeOK
    <3>2. CASE r = s
      BY <1>2, <2>1, <3>2 DEF RunStep, ReadClock, ClaimLoses, StampIncomplete,
         BodySucceeds, BodyFails, ReleaseFails, Kill, Fresh, Inside, TypeOK
    <3>3. QED
      BY <3>1, <3>2
  <2>3. QED
    BY <2>1, <2>2 DEF RowNamesHolder, LeaseExclusive
<1>3. ASSUME NEW s \in Runs, ClaimWins(s)
      PROVE  /\ (RowNamesHolder /\ LeaseExclusive)'
             /\ \A r \in Runs : Fresh(r) /\ Fresh(r)' => syncLockedAt' = syncLockedAt
  <2>1. \A r \in Runs : ~Fresh(r)
    BY <1>3, FreshBlocksClaim DEF ClaimWins
  <2>2. \A r \in Runs : Fresh(r)' => r = s
    BY <1>3, <2>1 DEF ClaimWins, Fresh, Inside, TypeOK
  <2>3. QED
    BY <1>3, <2>1, <2>2 DEF ClaimWins, RowNamesHolder, LeaseExclusive
<1>4. ASSUME NEW s \in Runs, Release(s)
      PROVE  /\ (RowNamesHolder /\ LeaseExclusive)'
             /\ \A r \in Runs : Fresh(r) /\ Fresh(r)' => syncLockedAt' = syncLockedAt
  <2>1. ~Fresh(s)'
    BY <1>4 DEF Release, Fresh, Inside, TypeOK
  <2>2. \A r \in Runs : Fresh(r)' => r # s /\ Fresh(r) /\ claimedAt'[r] = claimedAt[r]
    BY <1>4, <2>1 DEF Release, Fresh, Inside, TypeOK
  <2>3. \A r \in Runs : Fresh(r)' => ~StillOwns(s)
    BY <1>4, <2>2, ReleaseFreesOwnLease DEF Release
  <2>4. \A r \in Runs : Fresh(r)' => syncLockedAt' = syncLockedAt
    BY <1>4, <2>3 DEF Release
  <2>5. QED
    BY <2>2, <2>4 DEF RowNamesHolder, LeaseExclusive
<1>5. CASE UNCHANGED vars
  BY <1>5 DEF vars, RowNamesHolder, LeaseExclusive, Fresh, Inside
<1>6. QED
  BY <1>1, <1>2, <1>3, <1>4, <1>5 DEF Next

LEMMA InitIInv == Init => IInv
BY TTLAssumption DEF Init, IInv, TypeOK, Locations, NoTime, RowNamesHolder,
                     LeaseExclusive, Fresh, Inside

\* The inductive invariant holds in every reachable state.
LEMMA IInvHolds == Spec => []IInv
<1>1. IInv /\ TypeOK' /\ [Next]_vars => IInv'
  BY Inductive DEF IInv
<1>2. QED
  BY <1>1, InitIInv, TypeCorrect, PTL DEF Spec

-----------------------------------------------------------------------------
\* Two runs never both hold a fresh lease (sync-lock.ts:124).
THEOREM LeaseIsExclusive == Spec => []LeaseExclusive
BY IInvHolds, PTL DEF IInv

\* A fresh lease is changed by nobody but its run (the fence, sync-lock.ts:165).
THEOREM LeaseIsUndisturbed == Spec => LeaseUndisturbed
<1>1. IInv /\ [Next]_vars =>
        [\A r \in Runs : Fresh(r) /\ Fresh(r)' => syncLockedAt' = syncLockedAt]_vars
  BY Inductive
<1>2. QED
  BY <1>1, IInvHolds, PTL DEF Spec, LeaseUndisturbed

-----------------------------------------------------------------------------
\* No invocation is older than the platform's budget.
BudgetInv == \A r \in Runs : pc[r] # "idle" => now <= claimedAt[r] + MaxDuration

LEMMA BudgetHolds == Spec => []BudgetInv
<1> USE DurationAssumption
<1>1. Init => BudgetInv
  BY DEF Init, BudgetInv
<1>2. TypeOK /\ BudgetInv /\ [Next]_vars => BudgetInv'
  <2> SUFFICES ASSUME TypeOK, BudgetInv, [Next]_vars PROVE BudgetInv'
    OBVIOUS
  <2>1. CASE Tick
    BY <2>1 DEF Tick, WithinBudget, BudgetInv, TypeOK
  <2>2. ASSUME NEW r \in Runs, RunStep(r) PROVE BudgetInv'
    BY <2>2 DEF RunStep, ReadClock, ClaimWins, ClaimLoses, StampIncomplete, BodySucceeds,
                BodyFails, Release, ReleaseFails, Kill, BudgetInv, TypeOK
  <2>3. CASE UNCHANGED vars
    BY <2>3 DEF vars, BudgetInv
  <2>4. QED
    BY <2>1, <2>2, <2>3 DEF Next
<1>3. QED
  BY <1>1, <1>2, TypeCorrect, PTL DEF Spec

\* With the platform's budget below the TTL (300 s and 360 s), the pipeline
\* itself is mutually exclusive, not just the lease (sync-lock.ts:60).
THEOREM BudgetGivesMutex ==
    ASSUME MaxDuration < LOCK_TTL
    PROVE  Spec => []Mutex
<1>1. TypeOK /\ BudgetInv /\ LeaseExclusive => Mutex
  BY TTLAssumption, DurationAssumption
     DEF TypeOK, BudgetInv, LeaseExclusive, Mutex, Fresh, Inside
<1>2. QED
  BY <1>1, TypeCorrect, BudgetHolds, LeaseIsExclusive, PTL

-----------------------------------------------------------------------------
\* A winning claim enters, and everything else leaves or stutters.
LEMMA StepRefines == IInv /\ IInv' /\ [Next]_vars => [M!Next]_FreshHolder
<1> SUFFICES ASSUME IInv, IInv', [Next]_vars, FreshHolder' # FreshHolder
             PROVE  M!Next
  OBVIOUS
<1> TypeOK /\ TypeOK' /\ RowNamesHolder /\ LeaseExclusive /\ LeaseExclusive'
  BY DEF IInv
<1>1. PICK s \in Runs : (~Fresh(s) /\ Fresh(s)') \/ (Fresh(s) /\ ~Fresh(s)')
  BY DEF FreshHolder
<1>2. CASE ~Fresh(s) /\ Fresh(s)'
  <2>1. ~Tick /\ ~UNCHANGED vars
    BY <1>2, FreshBefore DEF Tick, vars, TypeOK, Fresh, Inside
  <2>2. PICK t \in Runs : RunStep(t)
    BY <2>1 DEF Next
  <2>3. ClaimWins(t)
    BY <1>2, <2>2 DEF RunStep, ReadClock, ClaimLoses, StampIncomplete, BodySucceeds,
       BodyFails, Release, ReleaseFails, Kill, Fresh, Inside, TypeOK
  <2>4. FreshHolder = {}
    BY <2>3, FreshBlocksClaim DEF ClaimWins, FreshHolder
  <2>5. FreshHolder' = {s}
    BY <1>2 DEF FreshHolder, LeaseExclusive
  <2>6. QED
    BY <2>4, <2>5 DEF M!Next, M!Enter
<1>3. CASE Fresh(s) /\ ~Fresh(s)'
  <2>1. FreshHolder = {s}
    BY <1>3 DEF FreshHolder, LeaseExclusive
  <2>2. \A r \in Runs : ~ClaimWins(r)
    BY <1>3, FreshBlocksClaim DEF ClaimWins
  <2>3. \A r \in Runs : Fresh(r)' => Fresh(r)
    <3>1. CASE Tick
      BY <3>1, FreshBefore DEF Tick, TypeOK
    <3>2. ASSUME NEW t \in Runs, RunStep(t)
          PROVE  \A r \in Runs : Fresh(r)' => Fresh(r)
      BY <2>2, <3>2 DEF RunStep, ReadClock, ClaimLoses, StampIncomplete, BodySucceeds,
         BodyFails, Release, ReleaseFails, Kill, Fresh, Inside, TypeOK
    <3>3. CASE UNCHANGED vars
      BY <3>3 DEF vars, Fresh, Inside
    <3>4. QED
      BY <3>1, <3>2, <3>3 DEF Next
  <2>4. FreshHolder' = {}
    BY <1>3, <2>1, <2>3 DEF FreshHolder
  <2>5. QED
    BY <2>1, <2>4 DEF M!Next, M!Leave
<1>4. QED
  BY <1>1, <1>2, <1>3

LEMMA InitRefines == Init => M!Init
BY DEF Init, M!Init, FreshHolder, Fresh, Inside

\* The run with a fresh lease is the holder of the abstract mutual exclusion,
\* whatever the budget (sync-lock.ts:124, 165).
THEOREM RefinesSyncMutex == Spec => RefinesMutex
BY InitRefines, StepRefines, IInvHolds, PTL DEF Spec, RefinesMutex, M!Spec

-----------------------------------------------------------------------------
\* The runs in the pipeline, with a fresh lease or without one.
RunsInside == {r \in Runs : Inside(r)}

Pipeline == INSTANCE SyncMutex WITH Runs <- Runs, holder <- RunsInside

\* With the platform's budget below the TTL the pipeline implements the mutual
\* exclusion, and not just the lease: a run enters only after the one before has
\* left or has been killed (sync-lock.ts:60).  PlaidItemLifecycle, whose runs have
\* no clock, implements the same specification under the same mapping.
THEOREM BudgetImplementsMutex ==
    ASSUME MaxDuration < LOCK_TTL
    PROVE  Spec => Pipeline!Spec
<1> DEFINE Budgeted == TypeOK /\ BudgetInv
<1>1. Budgeted => RunsInside = FreshHolder
  BY TTLAssumption, DurationAssumption
     DEF TypeOK, BudgetInv, RunsInside, FreshHolder, Fresh, Inside
<1>2. Init => Pipeline!Init
  BY DEF Init, Pipeline!Init, RunsInside, Inside
<1>3. Budgeted /\ Budgeted' /\ [M!Next]_FreshHolder => [Pipeline!Next]_RunsInside
  <2> SUFFICES ASSUME Budgeted, Budgeted', [M!Next]_FreshHolder
               PROVE  [Pipeline!Next]_RunsInside
    OBVIOUS
  <2>1. RunsInside = FreshHolder
    BY <1>1
  <2>2. RunsInside' = FreshHolder'
    BY TTLAssumption, DurationAssumption
       DEF TypeOK, BudgetInv, RunsInside, FreshHolder, Fresh, Inside
  <2>3. QED
    BY <2>1, <2>2 DEF M!Next, M!Enter, M!Leave,
                      Pipeline!Next, Pipeline!Enter, Pipeline!Leave
<1>4. Spec => []Budgeted
  BY TypeCorrect, BudgetHolds, PTL
<1>5. QED
  BY <1>2, <1>3, <1>4, StepRefines, IInvHolds, PTL DEF Spec, Pipeline!Spec

=============================================================================
