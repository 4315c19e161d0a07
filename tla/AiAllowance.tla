----------------------------- MODULE AiAllowance -----------------------------
(***************************************************************************)
(* One customer's daily AI allowance, enforced                             *)
(* (lib/platform/ai/allowance-reservation.ts).  A turn is judged inside a  *)
(* transaction under an advisory lock: the day's spend, then the in-flight *)
(* reservations of this hour and the previous one, then the health of the  *)
(* cost ledger are read, each statement seeing what is committed by then;  *)
(* an admitted turn adds a reservation to the bucket of its hour and gives *)
(* it back when it ends.  The cost of a turn reaches the ledger after the  *)
(* provider has answered and before the reservation is given back.         *)
(*                                                                         *)
(* "now" is read before the transaction is asked for, and everything that  *)
(* depends on time is computed from it: the bucket, the hours summed and   *)
(* the start of the day.  A turn lives for minutes, so it sees the hour    *)
(* change at most once.                                                    *)
(***************************************************************************)
EXTENDS Integers, FiniteSets

CONSTANTS
    Turns,              \* the customer's turns
    NoTurn,
    Procs, ProcessOf,   \* the server process a turn runs in
    ALLOWANCE, RESERVE, \* aiDailyUsdAllowance, RESERVE_USD
    Costs,              \* what a turn may turn out to cost
    FAILURE_TRIP, CONSECUTIVE_TRIP,  \* lib/platform/ai/ledger-health.ts
    DAY,                \* hours per day
    LastHour,           \* bound on time
    MaxFaults           \* bound on crashes and failed statements

ASSUME AllowanceAssumption ==
    /\ NoTurn \notin Turns /\ IsFiniteSet(Turns)
    /\ ProcessOf \in [Turns -> Procs]
    /\ ALLOWANCE \in Nat /\ RESERVE \in Nat \ {0} /\ Costs \subseteq Nat
    /\ FAILURE_TRIP \in Nat /\ CONSECUTIVE_TRIP \in Nat
    /\ DAY \in Nat \ {0} /\ LastHour \in Nat /\ MaxFaults \in Nat

Hours == 0..LastHour

\* The day an instant of this hour falls on.
DayOf(h) == h \div DAY
Days == 0..DayOf(LastHour)

VARIABLES
    hour,        \* the hour it is
    lock,        \* the turn whose transaction holds the advisory lock
    count,       \* RateLimit rows "user:ai-inflight": reservations per hour
    spent,       \* AiInvocation: recorded cost per day it occurred on
    failures,    \* RateLimit rows "system:ai-ledger-write-failures", per hour
    consecutive, \* failed ledger writes in a row, per process
    turn,        \* the turns: [pc, now, spend, flight]
    faults

vars == <<hour, lock, count, spent, failures, consecutive, turn, faults>>

\* "lost" is a turn whose reservation was made and will not be given back.
Pcs == {"idle", "asking", "spend", "flight", "judge", "running", "clearing",
        "settled", "done", "refused", "lost"}

TypeOK ==
    /\ hour \in Hours
    /\ lock \in Turns \cup {NoTurn}
    /\ count \in [Hours -> Nat]
    /\ spent \in [Days -> Nat]
    /\ failures \in [Hours -> Nat]
    /\ consecutive \in [Procs -> Nat]
    /\ turn \in [Turns -> [pc : Pcs, now : Hours, spend : Nat, flight : Nat]]
    /\ faults \in 0..MaxFaults

At(t, pc) == turn[t].pc = pc
Goto(t, pc) == turn' = [turn EXCEPT ![t].pc = pc]
Fault == faults < MaxFaults /\ faults' = faults + 1

\* Mutant: only the bucket of the hour.
InWindowOfTheHour(bucket, now) == bucket[now]

\* Mutant: every bucket the customer has.
InWindowOfAnyAge(bucket, now) ==
    LET upTo[h \in Hours] == bucket[h] + (IF h > 0 THEN upTo[h - 1] ELSE 0) IN upTo[now]

\* The sum over the bucket of the hour of `now` and the one before it.
InWindow(bucket, now) == bucket[now] + (IF now > 0 THEN bucket[now - 1] ELSE 0)

\* Rows since the start of the day of `now`: a clock value read before
\* midnight also finds what is recorded after it.
SpentSince(now) ==
    LET d == DayOf(now) IN spent[d] + (IF d + 1 \in Days THEN spent[d + 1] ELSE 0)

Init ==
    /\ hour = 0
    /\ lock = NoTurn
    /\ count = [h \in Hours |-> 0]
    /\ spent = [d \in Days |-> 0]
    /\ failures = [h \in Hours |-> 0]
    /\ consecutive = [p \in Procs |-> 0]
    /\ turn = [t \in Turns |-> [pc |-> "idle", now |-> 0, spend |-> 0, flight |-> 0]]
    /\ faults = 0

-----------------------------------------------------------------------------
(* Judging a turn *)

\* reserveAiTurn begins and reads the clock.
Ask(t) ==
    /\ At(t, "idle")
    /\ turn' = [turn EXCEPT ![t] = [@ EXCEPT !.pc = "asking", !.now = hour]]
    /\ UNCHANGED <<hour, lock, count, spent, failures, consecutive, faults>>

\* pg_advisory_xact_lock, the first statement of the transaction.
TakeLock(t) ==
    /\ At(t, "asking")
    /\ lock = NoTurn
    /\ lock' = t
    /\ Goto(t, "spend")
    /\ UNCHANGED <<hour, count, spent, failures, consecutive, faults>>

ReadSpend(t) ==
    /\ At(t, "spend")
    /\ turn' = [turn EXCEPT ![t] = [@ EXCEPT !.pc = "flight", !.spend = SpentSince(turn[t].now)]]
    /\ UNCHANGED <<hour, lock, count, spent, failures, consecutive, faults>>

\* A statement of its own, on a snapshot of its own.
ReadInFlight(t) ==
    /\ At(t, "flight")
    /\ turn' = [turn EXCEPT ![t] =
                   [@ EXCEPT !.pc = "judge", !.flight = InWindow(count, turn[t].now)]]
    /\ UNCHANGED <<hour, lock, count, spent, failures, consecutive, faults>>

LedgerUntrusted(t) ==
    \/ InWindow(failures, turn[t].now) >= FAILURE_TRIP
    \/ consecutive[ProcessOf[t]] >= CONSECUTIVE_TRIP

Exhausted(t) == turn[t].spend + turn[t].flight * RESERVE >= ALLOWANCE

\* The verdict, the reservation and the commit that frees the lock.
Admit(t) ==
    /\ At(t, "judge")
    /\ ~LedgerUntrusted(t) /\ ~Exhausted(t)
    /\ count' = [count EXCEPT ![turn[t].now] = @ + 1]
    /\ lock' = NoTurn
    /\ Goto(t, "running")
    /\ UNCHANGED <<hour, spent, failures, consecutive, faults>>

Refuse(t) ==
    /\ At(t, "judge")
    /\ LedgerUntrusted(t) \/ Exhausted(t)
    /\ lock' = NoTurn
    /\ Goto(t, "refused")
    /\ UNCHANGED <<hour, count, spent, failures, consecutive, faults>>

\* The transaction fails, or the process dies in it: it is rolled back and,
\* with enforcement on, the turn is refused.
JudgementFails(t) ==
    /\ turn[t].pc \in {"asking", "spend", "flight", "judge"}
    /\ Fault
    /\ lock' = IF lock = t THEN NoTurn ELSE lock
    /\ Goto(t, "refused")
    /\ UNCHANGED <<hour, count, spent, failures, consecutive>>

\* The commit goes through and its answer is lost: the turn is refused, and
\* nobody holds the reservation it has made.
AdmittedUnheard(t) ==
    /\ At(t, "judge")
    /\ ~LedgerUntrusted(t) /\ ~Exhausted(t)
    /\ Fault
    /\ count' = [count EXCEPT ![turn[t].now] = @ + 1]
    /\ lock' = NoTurn
    /\ Goto(t, "lost")
    /\ UNCHANGED <<hour, spent, failures, consecutive>>

-----------------------------------------------------------------------------
(* Running it *)

\* The provider has answered and the invocation row is written; a process
\* that had failed before goes on to clear the durable failure count.
Recorded(t) ==
    /\ At(t, "running")
    /\ \E c \in Costs : spent' = [spent EXCEPT ![DayOf(hour)] = @ + c]
    /\ consecutive' = [consecutive EXCEPT ![ProcessOf[t]] = 0]
    /\ Goto(t, IF consecutive[ProcessOf[t]] = 0 THEN "settled" ELSE "clearing")
    /\ UNCHANGED <<hour, lock, count, failures, faults>>

\* Every bucket, whoever has counted there since; a failure is swallowed.
ClearFailures(t) ==
    /\ At(t, "clearing")
    /\ \/ failures' = [h \in Hours |-> 0] /\ UNCHANGED faults
       \/ Fault /\ UNCHANGED failures
    /\ Goto(t, "settled")
    /\ UNCHANGED <<hour, lock, count, spent, consecutive>>

\* The invocation row cannot be written: the failure is counted instead.
NotRecorded(t) ==
    /\ At(t, "running")
    /\ Fault
    /\ consecutive' = [consecutive EXCEPT ![ProcessOf[t]] = @ + 1]
    /\ \/ failures' = [failures EXCEPT ![hour] = @ + 1]
       \/ UNCHANGED failures
    /\ Goto(t, "settled")
    /\ UNCHANGED <<hour, lock, count, spent>>

\* A turn that is refused after its admission, or whose calls fail, costs
\* nothing.
CostsNothing(t) ==
    /\ At(t, "running")
    /\ Goto(t, "settled")
    /\ UNCHANGED <<hour, lock, count, spent, failures, consecutive, faults>>

\* Mutant: release() computes the bucket from the clock of its own call.
ReleasedFromTheHour(bucket) == [count EXCEPT ![hour] = IF @ > 0 THEN @ - 1 ELSE @]

\* Mutant: the same, and the update has lost its condition.
ReleasedBelowZero(bucket) == [count EXCEPT ![hour] = @ - 1]

\* release(), in the route's finally: once, from the bucket it was taken in,
\* never below zero.
Released(bucket) == [count EXCEPT ![bucket] = IF @ > 0 THEN @ - 1 ELSE @]

Release(t) ==
    /\ At(t, "settled")
    /\ count' = Released(turn[t].now)
    /\ Goto(t, "done")
    /\ UNCHANGED <<hour, lock, spent, failures, consecutive, faults>>

\* The release fails and is swallowed, or the process dies before it.
LoseRelease(t) ==
    /\ turn[t].pc \in {"running", "clearing", "settled"}
    /\ Fault
    /\ Goto(t, "lost")
    /\ UNCHANGED <<hour, lock, count, spent, failures, consecutive>>

\* The hour changes; no turn under way sees it change twice.
Live(t) == turn[t].pc \notin {"idle", "done", "refused", "lost"}

NextHour ==
    /\ hour < LastHour
    /\ \A t \in Turns : Live(t) => turn[t].now = hour
    /\ hour' = hour + 1
    /\ UNCHANGED <<lock, count, spent, failures, consecutive, turn, faults>>

Next ==
    \/ NextHour
    \/ \E t \in Turns :
        \/ Ask(t) \/ TakeLock(t) \/ ReadSpend(t) \/ ReadInFlight(t)
        \/ Admit(t) \/ Refuse(t) \/ JudgementFails(t) \/ AdmittedUnheard(t)
        \/ Recorded(t) \/ ClearFailures(t) \/ NotRecorded(t) \/ CostsNothing(t)
        \/ Release(t) \/ LoseRelease(t)

Spec == Init /\ [][Next]_vars

-----------------------------------------------------------------------------
(* Properties *)

\* Admitted and not yet returned.
InFlight == {t \in Turns : turn[t].pc \in {"running", "clearing", "settled"}}

\* Each bucket counts its turns in flight and those whose release was lost:
\* no release takes away the reservation of another turn of the same bucket,
\* in whichever hour it comes (allowance-reservation.ts:24-32).
Lost == {t \in Turns : At(t, "lost")}
Held(h) == {t \in InFlight \cup Lost : turn[t].now = h}
ReservationsExact == \A h \in Hours : count[h] = Cardinality(Held(h))

\* A judgement that ends in an admission has counted every turn in flight,
\* except those admitted on a later clock value than its own.
Older(now) == {u \in InFlight : turn[u].now <= now}
CountedUnlessNewer ==
    [][\A t \in Turns :
         At(t, "judge") /\ turn'[t].pc = "running" =>
            turn[t].flight >= Cardinality(Older(turn[t].now))]_vars

\* What a judgement counts is in flight, or was lost two hours ago at most:
\* a lost release does not lock the customer out (allowance-reservation.ts:29-32).
LostReservationsAge ==
    [][\A t \in Turns :
         At(t, "flight") /\ turn'[t].pc = "judge" =>
            turn'[t].flight <=
                Cardinality(InFlight \cup {u \in Lost : turn[u].now >= hour - 2})]_vars

\* The in-flight count is "turns already admitted and not yet returned for
\* this customer" (lib/ai/allowance-core.ts:201), so that however many turns
\* are sent at once, their reserves stay within the allowance.
SimultaneousTurnsBounded ==
    InFlight # {} => RESERVE * (Cardinality(InFlight) - 1) < ALLOWANCE

=============================================================================
