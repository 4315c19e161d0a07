------------------------------ MODULE JobLedger ------------------------------
(***************************************************************************)
(* The ledger of one background job: lib/jobs/run.ts writes it and takes   *)
(* it for the job's lock, lib/jobs/dispatch.ts reads it to decide whether  *)
(* the job is due.  A "running" row is the claim: a partial unique index   *)
(* allows one per job.  A row that stays "running" longer than the         *)
(* in-flight window is taken for a crashed run and finalised as stale.     *)
(*                                                                         *)
(* Several invocations of the platform's functions work on the job at      *)
(* once: dispatcher wakes, and routes that run the job directly.  Each     *)
(* statement is an action.  The platform kills an invocation after BUDGET; *)
(* it may die before, between any two statements.                          *)
(*                                                                         *)
(* Time is kept as ages: of a row since its startedAt, of an invocation    *)
(* since it began, and the lag of the clock value an invocation works with *)
(* ("now" of the wake, startedAt of the run).  Ages stop at Cap, beyond    *)
(* which no comparison changes any more.                                   *)
(***************************************************************************)
EXTENDS Integers, FiniteSets

CONSTANTS
    Workers,     \* the invocations that may be under way at once
    NoSlot,
    Slots,       \* room for JobRun rows; a slot is used again once its row
                 \* can no longer be read or written
    BUDGET,      \* maxDuration of the routes that run jobs
    WINDOW,      \* IN_FLIGHT_WINDOW_MS = STALE_RUNNING_AFTER_MS
    CADENCE,     \* the period of the job, less the tolerance
    MaxFaults    \* bound: kills and failed ledger writes, in all

\* Routes are killed after 300 s, rows count as crashed after 360 s, and no
\* job is due twice within its own in-flight window.
ASSUME LedgerAssumption ==
    /\ BUDGET \in Nat /\ WINDOW \in Nat /\ CADENCE \in Nat /\ MaxFaults \in Nat
    /\ BUDGET <= WINDOW /\ WINDOW < CADENCE
    /\ NoSlot \notin Slots

VARIABLES
    row,         \* the ledger: [status, age] per slot
    inv,         \* the invocations: [pc, age, lag, stale, slot]
    ledgerFaults \* kills and failed writes so far

ledgerVars == <<row, inv, ledgerFaults>>

Cap == CADENCE + BUDGET

Statuses == {"free", "running", "done", "stale"}
Pcs == {"idle", "scan", "finalise", "facts", "due", "own", "claim", "body", "complete"}

LedgerTypeOK ==
    /\ row \in [Slots -> [status : Statuses, age : 0..Cap]]
    /\ inv \in [Workers -> [pc : Pcs, age : 0..BUDGET, lag : 0..BUDGET,
                            stale : BOOLEAN, slot : Slots \cup {NoSlot}]]
    /\ ledgerFaults \in 0..MaxFaults

-----------------------------------------------------------------------------
(* Reading the ledger *)

Running(s) == row[s].status = "running"

\* Mutant: the comparison also holds at the window itself.
StaleAtWindow(s, w) == Running(s) /\ row[s].age - inv[w].lag >= WINDOW

\* startedAt < now - STALE_RUNNING_AFTER_MS, for the clock value of w.
Stale(s, w) == Running(s) /\ row[s].age - inv[w].lag > WINDOW

\* The row a reader takes for the job's newest.
Newest(s) ==
    /\ row[s].status # "free"
    /\ \A t \in Slots : row[t].status # "free" => row[s].age <= row[t].age

\* decideJobDue for a job with a cadence and no continuation; `s` is its
\* newest row.
IsInFlight(s, w) == Running(s) /\ row[s].age - inv[w].lag < WINDOW

Due(w) ==
    \/ \A s \in Slots : row[s].status = "free"
    \/ \E s \in Slots :
           /\ Newest(s)
           /\ ~IsInFlight(s, w)
           /\ inv[w].stale \/ row[s].age - inv[w].lag >= CADENCE

NotDue(w) ==
    \E s \in Slots :
        /\ Newest(s)
        /\ \/ IsInFlight(s, w)
           \/ ~inv[w].stale /\ row[s].age - inv[w].lag < CADENCE

\* No invocation will write the row of this slot, and no reader needs it for
\* the job's newest.
Reusable(s) ==
    /\ ~Running(s)
    /\ \A w \in Workers : inv[w].slot # s
    /\ \/ row[s].status = "free"
       \/ \E t \in Slots \ {s} : row[t].status # "free" /\ row[t].age <= row[s].age

-----------------------------------------------------------------------------
(* Steps *)

At(w, pc) == inv[w].pc = pc
Goto(w, pc) == inv' = [inv EXCEPT ![w].pc = pc]
LedgerFault == ledgerFaults < MaxFaults /\ ledgerFaults' = ledgerFaults + 1

Idle == [pc |-> "idle", age |-> 0, lag |-> 0, stale |-> FALSE, slot |-> NoSlot]
Ends(w) == inv' = [inv EXCEPT ![w] = Idle]

LedgerInit ==
    /\ row = [s \in Slots |-> [status |-> "free", age |-> 0]]
    /\ inv = [w \in Workers |-> Idle]
    /\ ledgerFaults = 0

\* The dispatcher wakes and reads the clock.
Wake(w) ==
    /\ At(w, "idle")
    /\ Goto(w, "scan")
    /\ UNCHANGED <<row, ledgerFaults>>

\* A fallback route or an operator's "run now" skips the dispatcher.
DirectRun(w) ==
    /\ At(w, "idle")
    /\ Goto(w, "due")
    /\ UNCHANGED <<row, ledgerFaults>>

\* finalizeStaleRunsForWake reads which jobs have a stale row; a failed read
\* is as good as none.
ScanStale(w) ==
    /\ At(w, "scan")
    /\ \/ Goto(w, IF \E s \in Slots : Stale(s, w) THEN "finalise" ELSE "facts")
          /\ UNCHANGED ledgerFaults
       \/ Goto(w, "facts") /\ LedgerFault
    /\ UNCHANGED row

\* Mutant: the update finds the running rows of the job by status alone.
FinalisedWhateverItsAge(w) ==
    [s \in Slots |-> IF Running(s) THEN [row[s] EXCEPT !.status = "stale"] ELSE row[s]]

\* Mutant: the update leaves a row that is still in flight for the reader.
FinalisedNothing(w) == row

\* The update of finalizeStaleRuns, with the clock value of w.
Finalised(w) ==
    [s \in Slots |-> IF Stale(s, w) THEN [row[s] EXCEPT !.status = "stale"] ELSE row[s]]

\* The wake flips the stale rows of every job at once.  A job it had found
\* stale counts as crashed if the update flipped something: a row of its own,
\* or (`elsewhere`) only rows of other jobs.
FinaliseForWake(w) ==
    /\ At(w, "finalise")
    /\ \/ /\ row' = Finalised(w)
          /\ \E elsewhere \in BOOLEAN :
                inv' = [inv EXCEPT ![w].pc = "facts",
                                   ![w].stale = elsewhere \/ \E s \in Slots : Stale(s, w)]
          /\ UNCHANGED ledgerFaults
       \/ Goto(w, "facts") /\ LedgerFault /\ UNCHANGED row

\* loadJobLedgerFacts and selectDueJobs.
SelectDue(w) ==
    /\ At(w, "facts")
    /\ Due(w)
    /\ inv' = [inv EXCEPT ![w].pc = "due", ![w].stale = FALSE]
    /\ UNCHANGED <<row, ledgerFaults>>

SkipNotDue(w) ==
    /\ At(w, "facts")
    /\ NotDue(w)
    /\ Ends(w)
    /\ UNCHANGED <<row, ledgerFaults>>

\* runJob reads the clock: startedAt.
ReadStartedAt(w) ==
    /\ At(w, "due")
    /\ inv' = [inv EXCEPT ![w].pc = "own", ![w].lag = 0]
    /\ UNCHANGED <<row, ledgerFaults>>

\* runJob finalises the stale rows of its own job, best-effort.
FinaliseOwn(w) ==
    /\ At(w, "own")
    /\ Goto(w, "claim")
    /\ \/ row' = Finalised(w) /\ UNCHANGED ledgerFaults
       \/ LedgerFault /\ UNCHANGED row

\* Mutant: no unique index refuses a second running row.
ClaimUnguarded == TRUE

\* The start row is the claim.
ClaimAllowed == \A s \in Slots : ~Running(s)

CreateRow(w) ==
    /\ At(w, "claim")
    /\ ClaimAllowed
    /\ \E s \in Slots :
        /\ Reusable(s)
        /\ row' = [row EXCEPT ![s] = [status |-> "running", age |-> inv[w].lag]]
        /\ inv' = [inv EXCEPT ![w].pc = "body", ![w].slot = s]
    /\ UNCHANGED ledgerFaults

\* P2002, or a ledger that cannot be written: the body does not run.
ClaimRefused(w) ==
    /\ At(w, "claim")
    /\ \/ ~ClaimAllowed /\ UNCHANGED ledgerFaults
       \/ LedgerFault
    /\ Ends(w)
    /\ UNCHANGED row

\* The body is through; or a call of the body fails, and the body goes on or
\* throws.
BodyEnds(w) ==
    /\ At(w, "body")
    /\ Goto(w, "complete")
    /\ UNCHANGED <<row, ledgerFaults>>

BodyErrs(w) ==
    /\ At(w, "body")
    /\ LedgerFault
    /\ UNCHANGED <<row, inv>>

BodyThrows(w) ==
    /\ At(w, "body")
    /\ LedgerFault
    /\ Goto(w, "complete")
    /\ UNCHANGED row

BodyStep(w) == BodyEnds(w) \/ BodyErrs(w) \/ BodyThrows(w)

\* The completion write is keyed on the id alone; its failure is swallowed
\* and leaves a running row.
CompletionOf(w) == [row EXCEPT ![inv[w].slot].status = "done"]

Complete(w) ==
    /\ At(w, "complete")
    /\ \/ row' = CompletionOf(w) /\ UNCHANGED ledgerFaults
       \/ LedgerFault /\ UNCHANGED row
    /\ Ends(w)

\* The platform ends the invocation early.
Kill(w) ==
    /\ ~At(w, "idle")
    /\ LedgerFault
    /\ Ends(w)
    /\ UNCHANGED row

\* Time passes; an invocation that has used up its budget does not see it.
WithinBudget(w) == ~At(w, "idle") => inv[w].age < BUDGET

Tick ==
    /\ \A w \in Workers : WithinBudget(w)
    /\ row' = [s \in Slots |->
                 IF row[s].status # "free" /\ row[s].age < Cap
                 THEN [row[s] EXCEPT !.age = @ + 1] ELSE row[s]]
    /\ inv' = [w \in Workers |->
                 IF At(w, "idle") THEN inv[w]
                 ELSE [inv[w] EXCEPT !.age = @ + 1, !.lag = @ + 1]]
    /\ UNCHANGED ledgerFaults

\* The steps of an invocation before and after the body of the job.
LedgerStep(w) ==
    \/ Wake(w) \/ DirectRun(w)
    \/ ScanStale(w) \/ FinaliseForWake(w) \/ SelectDue(w) \/ SkipNotDue(w)
    \/ ReadStartedAt(w) \/ FinaliseOwn(w) \/ CreateRow(w) \/ ClaimRefused(w)
    \/ Complete(w)

LedgerNext == Tick \/ \E w \in Workers : LedgerStep(w) \/ BodyStep(w) \/ Kill(w)

LedgerSpec == LedgerInit /\ [][LedgerNext]_ledgerVars

\* An invocation under way goes on; the cron keeps waking the dispatcher.
Proceeds(w) ==
    \/ ScanStale(w) \/ FinaliseForWake(w) \/ SelectDue(w) \/ SkipNotDue(w)
    \/ ReadStartedAt(w) \/ FinaliseOwn(w) \/ CreateRow(w) \/ ClaimRefused(w)
    \/ Complete(w)

-----------------------------------------------------------------------------
(* Properties *)

Inside(w) == inv[w].pc \in {"body", "complete"}

\* At most one body of the job runs at a time, whichever wakes and routes
\* overlap and however stale the clocks they compare with: the ledger
\* implements the mutual exclusion that job bodies are written for
\* (lib/jobs/run.ts:61-79).
Holder == {w \in Workers : Inside(w)}
Mutex == INSTANCE SyncMutex WITH Runs <- Workers, holder <- Holder
RefinesMutex == Mutex!Spec

\* The finaliser's verdict stands: the completion write, keyed on the id
\* alone, never turns a run that was declared crashed, and whose job may have
\* been started again, into a finished one (lib/jobs/run.ts:304-306).
VerdictStands ==
    [][\A s \in Slots : row[s].status = "stale" => row'[s].status # "done"]_row

\* Crashed runs, completions that were lost and claims left behind never
\* stop a job for good: it runs again and again (lib/jobs/run.ts:73-77).
JobRunsAgain == []<>(\E w \in Workers : At(w, "body"))

=============================================================================
