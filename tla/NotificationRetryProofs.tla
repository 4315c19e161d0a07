----------------------- MODULE NotificationRetryProofs -----------------------
(***************************************************************************)
(* The job ledger, and the retry pass that runs in it.                     *)
(*                                                                         *)
(* First the ledger, for any number of invocations, any window and any     *)
(* cadence, as long as the platform kills an invocation within the window  *)
(* (LedgerAssumption).  Mutual exclusion is not inductive by itself.  It   *)
(* rests on what an invocation inside the body owns: a row that is still   *)
(* running, no older than the invocation.  The finaliser leaves such a row *)
(* alone, because the invocation would have been killed before its row     *)
(* came to the age; and a claim finds no running row, so nobody is inside  *)
(* when it is made.                                                        *)
(*                                                                         *)
(* Then the pass.  Each of its steps is a step of JobLedger or leaves the  *)
(* ledger alone, so that at most one invocation is in the body; hence the  *)
(* rows a pass has read and not come to yet are still failed when it does, *)
(* and the mail it is handing over is nobody else's.  That is why nobody   *)
(* is mailed twice and no settled delivery is overwritten, for any number  *)
(* of invocations, deliveries and attempts.                                *)
(***************************************************************************)
EXTENDS NotificationRetry, TLAPS

-----------------------------------------------------------------------------
(* The ledger *)

\* The clock value an invocation works with was read after it began.
LagWithinAge == \A w \in Workers : inv[w].lag <= inv[w].age

\* An invocation in the body owns a running row no older than itself.
Owned ==
    \A w \in Workers : Inside(w) =>
        /\ inv[w].slot \in Slots
        /\ Running(inv[w].slot)
        /\ row[inv[w].slot].age <= inv[w].age

AtMostOneInside == \A v, w \in Workers : Inside(v) /\ Inside(w) => v = w

Invocations == [pc : Pcs, age : 0..BUDGET, lag : 0..BUDGET,
                stale : BOOLEAN, slot : Slots \cup {NoSlot}]

Typed == LedgerTypeOK /\ LagWithinAge

-----------------------------------------------------------------------------
\* What a finaliser leaves in the ledger is typed, and it changes ages of none.
LEMMA FinalisedTyped ==
    ASSUME LedgerTypeOK, NEW w \in Workers
    PROVE  /\ Finalised(w) \in [Slots -> [status : Statuses, age : 0..Cap]]
           /\ \A s \in Slots : Finalised(w)[s].age = row[s].age
BY DEF LedgerTypeOK, Finalised, Statuses

\* Two fields of an invocation are written at once.
LEMMA FieldsWritten ==
    ASSUME NEW i \in Invocations, NEW p \in Pcs, NEW s \in Slots \cup {NoSlot}
    PROVE  /\ [i EXCEPT !.pc = p, !.lag = 0] \in Invocations
           /\ [i EXCEPT !.pc = p, !.lag = 0].lag <= [i EXCEPT !.pc = p, !.lag = 0].age
           /\ [i EXCEPT !.pc = p, !.slot = s] \in Invocations
           /\ [i EXCEPT !.pc = p, !.slot = s].lag = i.lag
           /\ [i EXCEPT !.pc = p, !.slot = s].age = i.age
<1>1. 0 \in 0..BUDGET
  BY LedgerAssumption DEF LedgerAssumption
<1>2. [i EXCEPT !.pc = p, !.lag = 0] \in Invocations
  BY <1>1 DEF Invocations
<1>3. [i EXCEPT !.pc = p, !.slot = s] \in Invocations
  BY DEF Invocations
<1>4. [i EXCEPT !.pc = p, !.lag = 0].lag = 0 /\ [i EXCEPT !.pc = p, !.lag = 0].age = i.age
  BY DEF Invocations
<1>5. [i EXCEPT !.pc = p, !.slot = s].lag = i.lag /\ [i EXCEPT !.pc = p, !.slot = s].age = i.age
  BY DEF Invocations
<1>6. i.age \in 0..BUDGET
  BY DEF Invocations
<1>7. QED
  BY <1>2, <1>3, <1>4, <1>5, <1>6

\* An invocation may be overwritten with any whose clock value is not older
\* than itself.
LEMMA InvocationWritten ==
    ASSUME Typed, NEW w \in Workers, NEW i \in Invocations, i.lag <= i.age,
           inv' = [inv EXCEPT ![w] = i]
    PROVE  inv' \in [Workers -> Invocations] /\ LagWithinAge'
<1>1. inv \in [Workers -> Invocations] /\ LagWithinAge
  BY DEF Typed, LedgerTypeOK, Invocations
<1>2. inv' \in [Workers -> Invocations]
  BY <1>1
<1>3. QED
  BY <1>1, <1>2 DEF LagWithinAge

\* runJob's reading of the clock keeps the invocation typed.
LEMMA ClockRead ==
    ASSUME Typed, NEW w \in Workers, inv' = [inv EXCEPT ![w].pc = "own", ![w].lag = 0]
    PROVE  inv' \in [Workers -> Invocations] /\ LagWithinAge'
<1>1. inv \in [Workers -> Invocations]
  BY DEF Typed, LedgerTypeOK, Invocations
<1> DEFINE i == [inv[w] EXCEPT !.pc = "own", !.lag = 0]
<1>2. inv' = [inv EXCEPT ![w] = i]
  BY <1>1
<1>3. i \in Invocations /\ i.lag <= i.age
  <2>1. NoSlot \in Slots \cup {NoSlot} /\ "own" \in Pcs /\ inv[w] \in Invocations
    BY <1>1 DEF Pcs
  <2>2. QED
    BY <2>1, FieldsWritten
<1> HIDE DEF i
<1>4. QED
  BY <1>2, <1>3, InvocationWritten

\* So does the claim of a row.
LEMMA RowTaken ==
    ASSUME Typed, NEW w \in Workers, NEW s \in Slots,
           inv' = [inv EXCEPT ![w].pc = "body", ![w].slot = s]
    PROVE  inv' \in [Workers -> Invocations] /\ LagWithinAge'
<1>1. inv \in [Workers -> Invocations] /\ inv[w].lag <= inv[w].age
  BY DEF Typed, LedgerTypeOK, Invocations, LagWithinAge
<1> DEFINE i == [inv[w] EXCEPT !.pc = "body", !.slot = s]
<1>2. inv' = [inv EXCEPT ![w] = i]
  BY <1>1
<1>3. i \in Invocations /\ i.lag = inv[w].lag /\ i.age = inv[w].age
  BY <1>1, FieldsWritten DEF Pcs
<1> HIDE DEF i
<1>4. QED
  BY <1>1, <1>2, <1>3, InvocationWritten

\* The initial state is typed.
LEMMA InitTyped == LedgerInit => Typed
BY LedgerAssumption DEF LedgerAssumption, LedgerInit, Typed, LedgerTypeOK, LagWithinAge, Idle,
   Statuses, Pcs, Cap

\* Every step of the ledger keeps it typed.
LEMMA StepTyped == Typed /\ [LedgerNext]_ledgerVars => Typed'
<1> SUFFICES ASSUME Typed, [LedgerNext]_ledgerVars PROVE Typed'
  OBVIOUS
<1> USE LedgerAssumption DEF LedgerAssumption, Typed, LedgerTypeOK, LagWithinAge, Statuses, Pcs
<1>1. CASE Tick
  <2>1. row' \in [Slots -> [status : Statuses, age : 0..Cap]]
    <3>1. Cap \in Nat
      BY DEF Cap
    <3>2. \A s \in Slots : /\ row[s] \in [status : Statuses, age : 0..Cap]
                           /\ row[s].age < Cap => row[s].age + 1 \in 0..Cap
      BY <3>1
    <3>3. \A s \in Slots : row'[s] \in [status : Statuses, age : 0..Cap]
      BY <1>1, <3>2 DEF Tick
    <3>4. QED
      BY <1>1, <3>3 DEF Tick
  <2>2. ASSUME NEW w \in Workers
        PROVE  /\ inv'[w] \in Invocations
               /\ inv'[w].lag <= inv'[w].age
    <3>1. CASE At(w, "idle")
      BY <1>1, <3>1 DEF Tick, Invocations
    <3>2. CASE ~At(w, "idle")
      <4>1. inv[w] \in Invocations /\ inv[w].age < BUDGET /\ inv[w].lag <= inv[w].age
        BY <1>1, <3>2 DEF Tick, WithinBudget, Invocations
      <4>2. inv'[w] = [inv[w] EXCEPT !.age = @ + 1, !.lag = @ + 1]
        BY <1>1, <3>2 DEF Tick
      <4>3. inv[w].age + 1 \in 0..BUDGET /\ inv[w].lag + 1 \in 0..BUDGET
        BY <4>1 DEF Invocations
      <4>4. inv'[w] = [pc |-> inv[w].pc, age |-> inv[w].age + 1, lag |-> inv[w].lag + 1,
                       stale |-> inv[w].stale, slot |-> inv[w].slot]
        BY <4>1, <4>2 DEF Invocations
      <4>5. inv'[w].lag = inv[w].lag + 1 /\ inv'[w].age = inv[w].age + 1
        BY <4>4
      <4>6. inv'[w] \in Invocations
        BY <4>1, <4>3, <4>4 DEF Invocations
      <4>7. inv[w].lag \in Int /\ inv[w].age \in Int
        BY <4>1 DEF Invocations
      <4>8. QED
        BY <4>1, <4>5, <4>6, <4>7
    <3>3. QED
      BY <3>1, <3>2
  <2>3. inv' = [w \in Workers |-> inv'[w]] /\ ledgerFaults' = ledgerFaults
    BY <1>1 DEF Tick
  <2>4. inv' \in [Workers -> Invocations]
    BY <2>2, <2>3
  <2>5. QED
    BY <2>1, <2>2, <2>3, <2>4 DEF Invocations
<1>2. ASSUME NEW w \in Workers, LedgerStep(w) \/ BodyStep(w) \/ Kill(w) PROVE Typed'
  <2> USE DEF At, Goto, Ends, Idle, LedgerFault
  <2>1. CASE Wake(w)
    BY <2>1 DEF Wake
  <2>2. CASE DirectRun(w)
    BY <2>2 DEF DirectRun
  <2>3. CASE ScanStale(w)
    BY <2>3 DEF ScanStale
  <2>4. CASE FinaliseForWake(w)
    <3>1. row' \in [Slots -> [status : Statuses, age : 0..Cap]]
      BY <2>4, FinalisedTyped DEF FinaliseForWake
    <3>2. PICK b \in BOOLEAN : inv' = [inv EXCEPT ![w].pc = "facts", ![w].stale = b]
      <4>1. CASE inv' = [inv EXCEPT ![w].pc = "facts"]
        <5>1. inv' = [inv EXCEPT ![w].pc = "facts", ![w].stale = inv[w].stale]
          BY <4>1
        <5>2. QED
          BY <5>1
      <4>2. ASSUME NEW elsewhere \in BOOLEAN,
                   inv' = [inv EXCEPT ![w].pc = "facts",
                                      ![w].stale = elsewhere \/ \E s \in Slots : Stale(s, w)]
            PROVE  \E b \in BOOLEAN : inv' = [inv EXCEPT ![w].pc = "facts", ![w].stale = b]
        <5>1. (elsewhere \/ \E s \in Slots : Stale(s, w)) \in BOOLEAN
          OBVIOUS
        <5>2. QED
          BY <4>2, <5>1, Zenon
      <4>3. QED
        BY <2>4, <4>1, <4>2 DEF FinaliseForWake
    <3>3. inv' = [inv EXCEPT ![w] = [inv[w] EXCEPT !.pc = "facts", !.stale = b]]
      BY <3>2
    <3>4. ledgerFaults' \in 0..MaxFaults
      BY <2>4 DEF FinaliseForWake
    <3>5. QED
      BY ZenonT(40), <3>1, <3>3, <3>4
  <2>5. CASE SelectDue(w)
    BY ZenonT(40), <2>5 DEF SelectDue
  <2>6. CASE SkipNotDue(w)
    BY <2>6 DEF SkipNotDue
  <2>7. CASE ReadStartedAt(w)
    <3>1. inv' = [inv EXCEPT ![w].pc = "own", ![w].lag = 0]
      BY <2>7 DEF ReadStartedAt
    <3>2. inv' \in [Workers -> Invocations] /\ LagWithinAge'
      BY <3>1, ClockRead
    <3>3. QED
      BY <2>7, <3>2 DEF ReadStartedAt, Invocations
  <2>8. CASE FinaliseOwn(w)
    <3>1. row' \in [Slots -> [status : Statuses, age : 0..Cap]]
      BY <2>8, FinalisedTyped DEF FinaliseOwn
    <3>2. inv' = [inv EXCEPT ![w].pc = "claim"]
      BY <2>8 DEF FinaliseOwn
    <3>3. ledgerFaults' \in 0..MaxFaults
      BY <2>8 DEF FinaliseOwn
    <3>4. QED
      BY SMTT(30), <3>1, <3>2, <3>3
  <2>9. CASE CreateRow(w)
    <3>1. PICK s \in Slots :
            /\ row' = [row EXCEPT ![s] = [status |-> "running", age |-> inv[w].lag]]
            /\ inv' = [inv EXCEPT ![w].pc = "body", ![w].slot = s]
      BY <2>9 DEF CreateRow
    <3>2. inv[w].lag \in 0..Cap
      BY DEF Cap
    <3>3. row' \in [Slots -> [status : Statuses, age : 0..Cap]]
      BY <3>1, <3>2
    <3>4. inv' \in [Workers -> Invocations] /\ LagWithinAge'
      BY <3>1, RowTaken
    <3>5. QED
      BY <2>9, <3>3, <3>4 DEF CreateRow, Invocations
  <2>10. CASE ClaimRefused(w)
    BY <2>10 DEF ClaimRefused
  <2>11. CASE Complete(w)
    BY <2>11 DEF Complete, CompletionOf
  <2>12. CASE BodyStep(w)
    BY <2>12 DEF BodyStep, BodyEnds, BodyErrs, BodyThrows
  <2>13. CASE Kill(w)
    BY <2>13 DEF Kill
  <2>14. QED
    BY <1>2, <2>1, <2>2, <2>3, <2>4, <2>5, <2>6, <2>7, <2>8, <2>9, <2>10, <2>11, <2>12, <2>13 DEF LedgerStep
<1>3. CASE UNCHANGED ledgerVars
  BY <1>3 DEF ledgerVars
<1>4. QED
  BY <1>1, <1>2, <1>3 DEF LedgerNext

-----------------------------------------------------------------------------
IInv == Typed /\ Owned /\ AtMostOneInside

\* A finaliser never takes the row of an invocation that is still inside: the
\* row is younger than the window, by any clock value.
LEMMA OwnedRowsAreFresh ==
    ASSUME Typed, Owned, NEW v \in Workers, NEW w \in Workers, Inside(w)
    PROVE  ~Stale(inv[w].slot, v)
<1>1. inv[w].slot \in Slots /\ row[inv[w].slot].age <= inv[w].age
  BY DEF Owned
<1>2. /\ inv[w].age \in 0..BUDGET /\ inv[v].lag \in 0..BUDGET
      /\ row[inv[w].slot].age \in 0..Cap
  BY <1>1 DEF Typed, LedgerTypeOK
<1>3. Cap \in Nat
  BY LedgerAssumption DEF LedgerAssumption, Cap
<1>4. QED
  BY <1>1, <1>2, <1>3, LedgerAssumption DEF LedgerAssumption, Stale

\* Nobody is inside when a claim is allowed.
LEMMA ClaimFindsNobody ==
    ASSUME Owned, ClaimAllowed, NEW w \in Workers
    PROVE  ~Inside(w)
BY DEF Owned, ClaimAllowed

\* A step that leaves the rows of those inside alone, lets nobody in and ages
\* nobody keeps ownership and exclusion.
LEMMA OthersUndisturbed ==
    ASSUME IInv,
           \A w \in Workers : Inside(w)' =>
               /\ Inside(w)
               /\ inv'[w].slot = inv[w].slot /\ inv'[w].age = inv[w].age
               /\ row'[inv[w].slot] = row[inv[w].slot]
    PROVE  Owned' /\ AtMostOneInside'
<1>1. Owned'
  BY DEF IInv, Owned, Running
<1>2. QED
  BY <1>1 DEF IInv, AtMostOneInside

\* A finaliser's update leaves the rows of those inside alone.
LEMMA FinaliserSparesInside ==
    ASSUME IInv, NEW v \in Workers, NEW w \in Workers, Inside(w)
    PROVE  Finalised(v)[inv[w].slot] = row[inv[w].slot]
BY OwnedRowsAreFresh DEF IInv, Owned, Finalised

\* The invariant is inductive.
LEMMA StepIInv == IInv /\ [LedgerNext]_ledgerVars => IInv'
<1> SUFFICES ASSUME IInv, [LedgerNext]_ledgerVars PROVE IInv'
  OBVIOUS
<1>1. Typed' /\ Typed
  BY StepTyped DEF IInv
<1>2. inv \in [Workers -> Invocations] /\ row \in [Slots -> [status : Statuses, age : 0..Cap]]
  BY <1>1 DEF Typed, LedgerTypeOK, Invocations
<1>3. CASE Tick
  <2>1. ASSUME NEW w \in Workers, Inside(w)'
        PROVE  /\ Inside(w) /\ inv'[w].slot = inv[w].slot
               /\ inv'[w].age = inv[w].age + 1
    BY <1>2, <1>3, <2>1 DEF Tick, Inside, At, Invocations
  <2>2. ASSUME NEW w \in Workers, Inside(w)'
        PROVE  /\ inv'[w].slot \in Slots /\ row'[inv'[w].slot].status = "running"
               /\ row'[inv'[w].slot].age <= inv'[w].age
    <3> DEFINE s == inv[w].slot
    <3>1. s \in Slots /\ row[s].status = "running" /\ row[s].age <= inv[w].age
      BY <2>1, <2>2 DEF IInv, Owned, Running
    <3>2. row[s].age \in Int /\ inv[w].age \in Int
      BY <1>2, <3>1, LedgerAssumption DEF LedgerAssumption, Invocations, Cap
    <3>3. row'[s].status = "running" /\ (row'[s].age = row[s].age \/ row'[s].age = row[s].age + 1)
      BY <1>2, <1>3, <3>1 DEF Tick
    <3>4. QED
      BY <2>1, <2>2, <3>1, <3>2, <3>3
  <2>3. QED
    BY <1>1, <2>1, <2>2 DEF IInv, Owned, AtMostOneInside, Running
<1>4. ASSUME NEW w \in Workers, LedgerStep(w) \/ BodyStep(w) \/ Kill(w) PROVE IInv'
  <2> USE <1>2 DEF Goto, Ends, Idle, At, Inside, Invocations
  <2>1. CASE Wake(w) \/ DirectRun(w) \/ ScanStale(w) \/ SelectDue(w) \/ SkipNotDue(w)
             \/ ReadStartedAt(w) \/ ClaimRefused(w) \/ BodyStep(w) \/ Kill(w)
    BY <1>1, <2>1, OthersUndisturbed DEF IInv, Wake, DirectRun, ScanStale, SelectDue, SkipNotDue,
       ReadStartedAt, ClaimRefused, BodyStep, BodyEnds, BodyErrs, BodyThrows, Kill
  <2>2. CASE FinaliseForWake(w)
    BY SMTT(30), <1>1, <2>2, OthersUndisturbed, FinaliserSparesInside DEF IInv, FinaliseForWake
  <2>3. CASE FinaliseOwn(w)
    BY <1>1, <2>3, OthersUndisturbed, FinaliserSparesInside DEF IInv, FinaliseOwn
  <2>4. CASE CreateRow(w)
    <3>1. PICK s \in Slots :
            /\ row' = [row EXCEPT ![s] = [status |-> "running", age |-> inv[w].lag]]
            /\ inv' = [inv EXCEPT ![w].pc = "body", ![w].slot = s]
      BY <2>4 DEF CreateRow
    <3>2. \A v \in Workers : ~Inside(v)
      BY <2>4, ClaimFindsNobody DEF CreateRow, IInv
    <3>3. \A v \in Workers : Inside(v)' => v = w
      BY <3>1, <3>2
    <3>4. inv'[w].slot = s /\ inv'[w].age = inv[w].age
      BY <3>1
    <3>5. row'[s].status = "running" /\ row'[s].age = inv[w].lag
      BY <3>1
    <3>6. inv[w].lag <= inv[w].age
      BY <1>1 DEF Typed, LagWithinAge
    <3>7. QED
      BY <1>1, <3>3, <3>4, <3>5, <3>6 DEF IInv, Owned, AtMostOneInside, Running
  <2>5. CASE Complete(w)
    <3>1. \A v \in Workers : ~Inside(v)'
      BY <2>5 DEF Complete, IInv, AtMostOneInside
    <3>2. QED
      BY <1>1, <3>1 DEF IInv, Owned, AtMostOneInside
  <2>6. QED
    BY <1>4, <2>1, <2>2, <2>3, <2>4, <2>5 DEF LedgerStep
<1>5. CASE UNCHANGED ledgerVars
  BY <1>1, <1>5, OthersUndisturbed DEF ledgerVars, IInv, Inside
<1>6. QED
  BY <1>3, <1>4, <1>5 DEF LedgerNext

\* Nobody is inside at first.
LEMMA InitIInv == LedgerInit => IInv
<1> SUFFICES ASSUME LedgerInit PROVE IInv
  OBVIOUS
<1>1. \A w \in Workers : ~Inside(w)
  BY DEF LedgerInit, Idle, Inside
<1>2. QED
  BY <1>1, InitTyped DEF IInv, Owned, AtMostOneInside

\* The invariant holds throughout.
LEMMA IInvHolds == LedgerSpec => []IInv
BY InitIInv, StepIInv, PTL DEF LedgerSpec

-----------------------------------------------------------------------------
\* Type correctness of the ledger and of the invocations that use it.
THEOREM LedgerTypeCorrect == LedgerSpec => []LedgerTypeOK
<1>1. IInv => LedgerTypeOK
  BY DEF IInv, Typed
<1>2. QED
  BY <1>1, IInvHolds, PTL

\* The finaliser's verdict stands: completing keeps out of rows declared
\* crashed, though it is keyed on the id alone.
THEOREM VerdictsStand == LedgerSpec => VerdictStands
<1>1. IInv /\ [LedgerNext]_ledgerVars =>
        [\A s \in Slots : row[s].status = "stale" => row'[s].status # "done"]_row
  <2> SUFFICES ASSUME IInv, [LedgerNext]_ledgerVars, NEW s \in Slots,
                      row[s].status = "stale", row'[s].status = "done"
               PROVE  FALSE
    OBVIOUS
  <2>1. row \in [Slots -> [status : Statuses, age : 0..Cap]]
    BY DEF IInv, Typed, LedgerTypeOK
  <2>2. PICK w \in Workers : LedgerStep(w) \/ BodyStep(w) \/ Kill(w)
    BY <2>1 DEF LedgerNext, Tick, ledgerVars
  <2>3. Complete(w)
    <3>1. ~FinaliseForWake(w) /\ ~FinaliseOwn(w)
      BY <2>1 DEF FinaliseForWake, FinaliseOwn, Finalised
    <3>2. ~CreateRow(w)
      BY <2>1 DEF CreateRow
    <3>3. QED
      BY <2>2, <3>1, <3>2 DEF LedgerStep, Wake, DirectRun, ScanStale, SelectDue,
         SkipNotDue, ReadStartedAt, ClaimRefused, BodyStep, BodyEnds, BodyErrs, BodyThrows, Kill
  <2>4. s = inv[w].slot
    BY <2>1, <2>3 DEF Complete, CompletionOf
  <2>5. Running(s)
    BY <2>3, <2>4 DEF Complete, At, IInv, Owned, Inside
  <2>6. QED
    BY <2>5 DEF Running
<1>2. QED
  BY <1>1, IInvHolds, PTL DEF LedgerSpec, VerdictStands

\* The ledger implements SyncMutex: whatever the clocks and the crashes, one
\* body of the job runs at a time.
THEOREM RefinesSyncMutex == LedgerSpec => RefinesMutex
<1>1. LedgerInit => Mutex!Init
  BY DEF Mutex!Init, Holder, LedgerInit, Idle, Inside
<1>2. IInv /\ [LedgerNext]_ledgerVars => [Mutex!Next]_Holder
  <2> SUFFICES ASSUME IInv, [LedgerNext]_ledgerVars, Holder' # Holder
               PROVE  Mutex!Next
    OBVIOUS
  <2>1. inv \in [Workers -> Invocations]
    BY DEF IInv, Typed, LedgerTypeOK, Invocations
  <2>2. PICK w \in Workers : LedgerStep(w) \/ BodyStep(w) \/ Kill(w)
    <3>1. ~Tick
      <4>1. ASSUME Tick PROVE \A w \in Workers : Inside(w)' = Inside(w)
        BY <2>1, <4>1 DEF Tick, Inside, At, Invocations
      <4>2. QED
        BY <4>1 DEF Holder
    <3>2. ~UNCHANGED ledgerVars
      BY DEF ledgerVars, Holder, Inside
    <3>3. QED
      BY <3>1, <3>2 DEF LedgerNext
  <2>3. \A v \in Workers \ {w} : inv'[v] = inv[v]
    BY <2>1, <2>2 DEF LedgerStep, Wake, DirectRun, ScanStale, FinaliseForWake, SelectDue, SkipNotDue,
       ReadStartedAt, FinaliseOwn, CreateRow, ClaimRefused, Complete, BodyStep, BodyEnds, BodyErrs, BodyThrows, Kill, Goto, Ends
  <2>4. \A v \in Workers \ {w} : Inside(v)' = Inside(v)
    BY <2>3 DEF Inside
  <2>5. CASE CreateRow(w)
    <3>1. Holder = {}
      BY <2>5, ClaimFindsNobody DEF CreateRow, IInv, Holder
    <3>2. Inside(w)'
      BY <2>1, <2>5 DEF CreateRow, Inside
    <3>3. Holder' = {w}
      BY <2>4, <3>1, <3>2 DEF Holder
    <3>4. Mutex!Enter(w)
      BY <3>1, <3>3 DEF Mutex!Enter
    <3>5. QED
      BY <3>4 DEF Mutex!Next
  <2>6. CASE ~CreateRow(w)
    <3>1. Inside(w)' => Inside(w)
      BY <2>1, <2>2, <2>6 DEF LedgerStep, Wake, DirectRun, ScanStale, FinaliseForWake, SelectDue,
         SkipNotDue, ReadStartedAt, FinaliseOwn, ClaimRefused, Complete, BodyStep, BodyEnds, BodyErrs, BodyThrows, Kill, Goto, Ends,
         Idle, At, Inside, Invocations
    <3>2. Inside(w) /\ ~Inside(w)'
      BY <2>4, <3>1 DEF Holder
    <3>3. Holder = {w} /\ Holder' = {}
      BY <2>4, <3>2 DEF IInv, AtMostOneInside, Holder
    <3>4. Mutex!Leave(w)
      BY <3>3 DEF Mutex!Leave
    <3>5. QED
      BY <3>4 DEF Mutex!Next
  <2>7. QED
    BY <2>5, <2>6
<1>3. QED
  BY <1>1, <1>2, IInvHolds, PTL DEF LedgerSpec, RefinesMutex, Mutex!Spec

-----------------------------------------------------------------------------
(* The retry pass *)

Steps == {"off", "loop", "send", "record"}
Passes == [step : Steps, todo : SUBSET Mails, seen : [Mails -> 0..MAX_ATTEMPTS],
           closing : SUBSET Mails, at : Mails, outcome : Outcomes]

\* Only an invocation in the body has a pass.
PassInside == \A w \in Workers : pass[w].step # "off" => At(w, "body")

\* What a pass has still to do was read as failed, and is; the mail it is
\* handing over is part of it.
PassCurrent ==
    \A w \in Workers :
        /\ \A m \in pass[w].todo : mail[m].status = "error" /\ pass[w].seen[m] < MAX_ATTEMPTS
        /\ pass[w].closing \subseteq pass[w].todo
        /\ pass[w].step = "off" => pass[w].todo = {}
        /\ pass[w].step \in {"send", "record"} => pass[w].at \in pass[w].todo

\* A pass has handed mail m over and not written it down.
HandedOver(m) ==
    \E w \in Workers : pass[w].step = "record" /\ pass[w].outcome = "sent" /\ pass[w].at = m

\* Of a failed delivery only lost acceptances are unaccounted for.
Accounted ==
    \A m \in Mails :
        /\ accepted[m] <= unknown[m] + 1
        /\ mail[m].status = "error" /\ ~HandedOver(m) => accepted[m] <= unknown[m]

RetryInv == IInv /\ MailTypeOK /\ PassInside /\ PassCurrent /\ Accounted

-----------------------------------------------------------------------------
\* The retry pass keeps to the ledger: this is what lets the results about
\* JobLedger be used for its body.
LEMMA StepOfLedger == [Next]_vars => [LedgerNext]_ledgerVars
BY ZenonT(40) DEF Next, vars, LedgerOnly, PassStep, ReadErrors, CloseObsolete, ClaimMail, Deliver,
   RecordOutcome, PassEnds, PassThrows, InvocationKilled, Obsolete, LedgerNext, BodyStep

\* The retry pass, with all its steps, is a run of the job ledger.
THEOREM RetryImplementsLedger == Spec => LedgerSpec
<1>1. Init => LedgerInit
  BY DEF Init
<1>2. QED
  BY <1>1, StepOfLedger, PTL DEF Spec, LedgerSpec

\* One body at a time, and verdicts that stand, in the composition that TLC
\* checks.
THEOREM RetryRefinesMutex == Spec => RefinesMutex
BY RetryImplementsLedger, RefinesSyncMutex, PTL

\* The same for the finaliser's verdict.
THEOREM RetryVerdictsStand == Spec => VerdictStands
BY RetryImplementsLedger, VerdictsStand, PTL

-----------------------------------------------------------------------------
\* An empty pass.
LEMMA NoPassTyped == NoPass \in Passes /\ NoPass.step = "off" /\ NoPass.todo = {} /\ NoPass.closing = {}
<1>1. [m \in Mails |-> 0] \in [Mails -> 0..MAX_ATTEMPTS] /\ 1 \in Mails
  BY RetryAssumption DEF RetryAssumption, Mails
<1>2. QED
  BY <1>1 DEF NoPass, Passes, Steps, Outcomes

\* What the pass holds after a row of its loop.
LEMMA NextRowFields ==
    ASSUME MailTypeOK, NEW w \in Workers, NEW m \in Mails
    PROVE  /\ NextRow(w, m) \in Passes
           /\ NextRow(w, m).step = "loop"
           /\ NextRow(w, m).todo = pass[w].todo \ {m}
           /\ NextRow(w, m).closing = pass[w].closing \ {m}
           /\ \A n \in Mails \ {m} : NextRow(w, m).seen[n] = pass[w].seen[n]
<1>1. pass[w] \in Passes
  BY DEF MailTypeOK, Passes, Steps
<1>2. 0 \in 0..MAX_ATTEMPTS
  BY RetryAssumption DEF RetryAssumption
<1> DEFINE seen == [pass[w].seen EXCEPT ![m] = 0]
<1>3. seen \in [Mails -> 0..MAX_ATTEMPTS] /\ \A n \in Mails \ {m} : seen[n] = pass[w].seen[n]
  BY <1>1, <1>2 DEF Passes
<1>4. NextRow(w, m) = [pass[w] EXCEPT !.step = "loop", !.todo = @ \ {m}, !.seen = seen,
                                      !.closing = @ \ {m}, !.outcome = "error"]
  BY <1>1 DEF NextRow, Passes
<1> HIDE DEF seen
<1>5. QED
  BY ZenonT(40), <1>1, <1>3, <1>4 DEF Passes, Steps, Outcomes

\* While one invocation has a pass, nobody else has.
LEMMA OnePass ==
    ASSUME RetryInv, NEW w \in Workers, At(w, "body"), NEW v \in Workers \ {w}
    PROVE  pass[v].step = "off"
BY DEF RetryInv, IInv, AtMostOneInside, PassInside, Inside, At

\* A step of the pass of w, and what it has to show of the pass it leaves.
LEMMA PassWritten ==
    ASSUME RetryInv, NEW w \in Workers, At(w, "body"),
           NEW p \in Passes, pass' = [pass EXCEPT ![w] = p], inv' = inv,
           p.step # "off",
           \A m \in p.todo : mail'[m].status = "error" /\ p.seen[m] < MAX_ATTEMPTS,
           p.closing \subseteq p.todo,
           p.step \in {"send", "record"} => p.at \in p.todo
    PROVE  /\ pass' \in [Workers -> Passes] /\ PassInside' /\ PassCurrent'
           /\ \A m \in Mails : HandedOver(m)' <=> p.step = "record" /\ p.outcome = "sent" /\ p.at = m
           /\ \A m \in Mails :
                HandedOver(m) <=> pass[w].step = "record" /\ pass[w].outcome = "sent" /\ pass[w].at = m
<1>1. pass \in [Workers -> Passes]
  BY DEF RetryInv, MailTypeOK, Passes, Steps
<1>2. pass' \in [Workers -> Passes] /\ pass'[w] = p /\ \A v \in Workers \ {w} : pass'[v] = pass[v]
  BY <1>1
<1>3. \A v \in Workers \ {w} : pass[v].step = "off"
  BY OnePass
<1>4. PassInside'
  BY <1>2, <1>3 DEF PassInside, At
<1>5. PassCurrent'
  <2>1. ASSUME NEW v \in Workers \ {w}
        PROVE  pass'[v].step = "off" /\ pass'[v].todo = {} /\ pass'[v].closing = {}
    BY <1>2, <1>3 DEF RetryInv, PassCurrent
  <2>2. QED
    BY <1>2, <2>1 DEF PassCurrent
<1>6. QED
  BY <1>2, <1>3, <1>4, <1>5 DEF HandedOver

\* A pass that ends, throws or is killed forgets what it has not written.
LEMMA PassDropped ==
    ASSUME RetryInv, NEW w \in Workers, pass' = [pass EXCEPT ![w] = NoPass],
           \A v \in Workers \ {w} : inv'[v] = inv[v],
           unknown' = Forget(w), UNCHANGED <<mail, open, accepted>>
    PROVE  MailTypeOK' /\ PassInside' /\ PassCurrent' /\ Accounted'
<1> USE NoPassTyped
<1>1. /\ pass \in [Workers -> Passes] /\ MailTypeOK
      /\ accepted \in [Mails -> Nat] /\ unknown \in [Mails -> Nat]
  BY DEF RetryInv, MailTypeOK, Passes, Steps
<1>2. pass' \in [Workers -> Passes] /\ pass'[w] = NoPass /\ \A v \in Workers \ {w} : pass'[v] = pass[v]
  BY <1>1
<1>3. unknown' \in [Mails -> Nat] /\ \A m \in Mails :
        unknown'[m] = IF pass[w].step = "record" /\ pass[w].outcome = "sent" /\ pass[w].at = m
                      THEN unknown[m] + 1 ELSE unknown[m]
  BY <1>1 DEF Forget, Passes
<1>4. MailTypeOK'
  BY <1>1, <1>2, <1>3 DEF MailTypeOK, Passes, Steps
<1>5. PassInside'
  BY <1>2 DEF RetryInv, PassInside, At
<1>6. PassCurrent'
  BY <1>2 DEF RetryInv, PassCurrent
<1>7. ASSUME NEW m \in Mails
      PROVE  /\ accepted'[m] <= unknown'[m] + 1
             /\ mail'[m].status = "error" /\ ~HandedOver(m)' => accepted'[m] <= unknown'[m]
  <2>1. /\ accepted[m] <= unknown[m] + 1
        /\ mail[m].status = "error" /\ ~HandedOver(m) => accepted[m] <= unknown[m]
        /\ accepted[m] \in Nat /\ unknown[m] \in Nat
    BY <1>1 DEF RetryInv, Accounted
  <2>2. CASE pass[w].step = "record" /\ pass[w].outcome = "sent" /\ pass[w].at = m
    BY <1>3, <2>1, <2>2
  <2>3. CASE ~(pass[w].step = "record" /\ pass[w].outcome = "sent" /\ pass[w].at = m)
    <3>1. HandedOver(m) => HandedOver(m)'
      BY <1>2, <2>3 DEF HandedOver
    <3>2. QED
      BY <1>3, <2>1, <2>3, <3>1
  <2>4. QED
    BY <2>2, <2>3
<1>8. QED
  BY <1>4, <1>5, <1>6, <1>7 DEF Accounted

-----------------------------------------------------------------------------
RetryTyped == MailTypeOK /\ PassInside /\ PassCurrent /\ Accounted

Sending(p, m) == [p EXCEPT !.step = "send", !.at = m, !.seen[m] = 0]
Recording(p, o) == [p EXCEPT !.step = "record", !.outcome = o]

\* The fields of a pass that has claimed a mail.
LEMMA SendingFields ==
    ASSUME NEW p \in Passes, NEW m \in Mails
    PROVE  /\ Sending(p, m) \in Passes
           /\ Sending(p, m).step = "send" /\ Sending(p, m).at = m
           /\ Sending(p, m).todo = p.todo /\ Sending(p, m).closing = p.closing
           /\ Sending(p, m).seen[m] = 0
           /\ \A n \in Mails : n # m => Sending(p, m).seen[n] = p.seen[n]
<1>1. 0 \in 0..MAX_ATTEMPTS
  BY RetryAssumption DEF RetryAssumption
<1> DEFINE seen == [p.seen EXCEPT ![m] = 0]
<1>2. /\ seen \in [Mails -> 0..MAX_ATTEMPTS] /\ seen[m] = 0
      /\ \A n \in Mails : n # m => seen[n] = p.seen[n]
  BY <1>1 DEF Passes
<1>3. Sending(p, m) = [p EXCEPT !.step = "send", !.at = m, !.seen = seen]
  BY DEF Passes, Sending
<1> HIDE DEF seen
<1>4. QED
  BY <1>2, <1>3 DEF Passes, Steps

\* The fields of a pass that has handed a mail over.
LEMMA RecordingFields ==
    ASSUME NEW p \in Passes, NEW o \in Outcomes
    PROVE  /\ Recording(p, o) \in Passes
           /\ Recording(p, o).step = "record" /\ Recording(p, o).outcome = o
           /\ Recording(p, o).at = p.at /\ Recording(p, o).todo = p.todo
           /\ Recording(p, o).closing = p.closing /\ Recording(p, o).seen = p.seen
BY DEF Passes, Steps, Recording

-----------------------------------------------------------------------------
\* Reading the failed rows.
LEMMA ReadErrorsKeeps == ASSUME RetryInv, NEW w \in Workers, ReadErrors(w) PROVE RetryTyped'
<1> DEFINE batch == Oldest({m \in Mails : Retryable(m)})
           seen == [m \in Mails |-> IF m \in batch THEN mail[m].attempts ELSE 0]
           p == [NoPass EXCEPT !.step = "loop", !.todo = batch, !.seen = seen, !.closing = batch \ open]
<1>1. /\ MailTypeOK /\ Accounted /\ pass[w].step = "off" /\ At(w, "body")
      /\ pass' = [pass EXCEPT ![w] = p] /\ UNCHANGED <<inv, mail, open, accepted, unknown>>
  BY DEF RetryInv, ReadErrors, PassAt, ledgerVars
<1>2. batch \subseteq Mails /\ \A m \in batch : mail[m].status = "error" /\ mail[m].attempts < MAX_ATTEMPTS
  BY DEF Oldest, Retryable
<1>3. seen \in [Mails -> 0..MAX_ATTEMPTS] /\ \A m \in batch : seen[m] < MAX_ATTEMPTS
  BY <1>1, <1>2, RetryAssumption DEF RetryAssumption, MailTypeOK
<1> HIDE DEF batch, seen
<1>4. /\ p \in Passes /\ p.step = "loop" /\ p.todo = batch /\ p.closing = batch \ open /\ p.seen = seen
  BY <1>2, <1>3, NoPassTyped DEF Passes, Steps
<1> HIDE DEF p
<1>5. /\ pass' \in [Workers -> Passes] /\ PassInside' /\ PassCurrent'
      /\ \A m \in Mails : ~HandedOver(m)' /\ ~HandedOver(m)
  BY ZenonT(40), <1>1, <1>2, <1>3, <1>4, PassWritten
<1>6. MailTypeOK'
  BY <1>1, <1>5 DEF MailTypeOK, Passes, Steps
<1>7. QED
  BY <1>1, <1>5, <1>6 DEF RetryTyped, Accounted

\* The two outcomes of a claim.
ClaimWon(w, m)  == ClaimMail(w, m) /\ ClaimMatches(w, m)
ClaimLost(w, m) == ClaimMail(w, m) /\ ~ClaimMatches(w, m)

\* Closing a row of the pass, or finding it claimed by somebody else.
LEMMA RowLeftKeeps ==
    ASSUME RetryInv, NEW w \in Workers, NEW m \in Mails, CloseObsolete(w, m) \/ ClaimLost(w, m)
    PROVE  RetryTyped'
<1> DEFINE p == NextRow(w, m)
<1>1. /\ MailTypeOK /\ Accounted /\ PassCurrent /\ pass[w].step = "loop" /\ At(w, "body")
      /\ pass' = [pass EXCEPT ![w] = p] /\ UNCHANGED <<inv, open, accepted, unknown>>
      /\ mail' = mail \/ mail' = [mail EXCEPT ![m].status = "skipped"]
  BY DEF RetryInv, CloseObsolete, ClaimLost, ClaimMail, PassAt, ledgerVars
<1>2. /\ p \in Passes /\ p.step = "loop" /\ p.todo = pass[w].todo \ {m}
      /\ p.closing = pass[w].closing \ {m} /\ \A n \in Mails \ {m} : p.seen[n] = pass[w].seen[n]
  BY <1>1, NextRowFields
<1> HIDE DEF p
<1>3. /\ mail' \in [Mails -> [status : Outcomes, attempts : 1..MAX_ATTEMPTS]]
      /\ \A n \in Mails : mail'[n].status = "error" => mail[n].status = "error"
      /\ \A n \in Mails \ {m} : mail'[n] = mail[n]
  <2>1. mail \in [Mails -> [status : Outcomes, attempts : 1..MAX_ATTEMPTS]] /\ "skipped" \in Outcomes
    BY <1>1 DEF MailTypeOK, Outcomes
  <2>2. CASE mail' = mail
    BY <2>1, <2>2
  <2>3. CASE mail' = [mail EXCEPT ![m].status = "skipped"]
    BY <2>1, <2>3
  <2>4. QED
    BY <1>1, <2>2, <2>3
<1>4. pass[w].todo \subseteq Mails
  BY <1>1 DEF MailTypeOK
<1>5. /\ pass' \in [Workers -> Passes] /\ PassInside' /\ PassCurrent'
      /\ \A n \in Mails : ~HandedOver(n)' /\ ~HandedOver(n)
  <2>1. \A n \in p.todo : mail'[n].status = "error" /\ p.seen[n] < MAX_ATTEMPTS
    BY <1>1, <1>2, <1>3, <1>4 DEF PassCurrent
  <2>2. p.closing \subseteq p.todo
    BY <1>1, <1>2 DEF PassCurrent
  <2>3. QED
    BY <1>1, <1>2, <2>1, <2>2, PassWritten
<1>6. MailTypeOK'
  BY <1>1, <1>3, <1>5 DEF MailTypeOK, Passes, Steps
<1>7. QED
  BY <1>1, <1>3, <1>5, <1>6 DEF RetryTyped, Accounted

\* Claiming a row raises its attempts, from what was read below the cap.
LEMMA ClaimMailKeeps ==
    ASSUME RetryInv, NEW w \in Workers, NEW m \in Mails, ClaimWon(w, m)
    PROVE  RetryTyped'
<1> DEFINE p == Sending(pass[w], m)
<1>1. /\ MailTypeOK /\ Accounted /\ PassCurrent /\ pass[w].step = "loop" /\ At(w, "body")
      /\ UNCHANGED <<inv, open, accepted, unknown>> /\ m \in pass[w].todo
      /\ mail' = [mail EXCEPT ![m].attempts = @ + 1] /\ mail[m].attempts = pass[w].seen[m]
  BY DEF RetryInv, ClaimWon, ClaimMail, ClaimMatches, Current, PassAt, ledgerVars
<1>2. pass[w] \in Passes /\ pass \in [Workers -> Passes]
  BY <1>1 DEF MailTypeOK, Passes, Steps
<1>3. pass' = [pass EXCEPT ![w] = p]
  BY <1>2 DEF ClaimWon, ClaimMail, Sending
<1>4. /\ p \in Passes /\ p.step = "send" /\ p.at = m /\ p.todo = pass[w].todo
      /\ p.closing = pass[w].closing /\ p.seen[m] = 0
      /\ \A n \in Mails : n # m => p.seen[n] = pass[w].seen[n]
  BY <1>2, SendingFields
<1> HIDE DEF p
<1>5. mail[m].attempts + 1 \in 1..MAX_ATTEMPTS /\ 0 < MAX_ATTEMPTS
  BY <1>1, RetryAssumption DEF RetryAssumption, PassCurrent, MailTypeOK
<1>6. /\ mail' \in [Mails -> [status : Outcomes, attempts : 1..MAX_ATTEMPTS]]
      /\ \A n \in Mails : mail'[n].status = mail[n].status
  BY <1>1, <1>5 DEF MailTypeOK
<1>7. /\ pass' \in [Workers -> Passes] /\ PassInside' /\ PassCurrent'
      /\ \A n \in Mails : ~HandedOver(n)' /\ ~HandedOver(n)
  <2>1. \A n \in p.todo : mail'[n].status = "error" /\ p.seen[n] < MAX_ATTEMPTS
    BY <1>1, <1>2, <1>4, <1>5, <1>6 DEF PassCurrent, Passes
  <2>2. p.closing \subseteq p.todo /\ p.at \in p.todo
    BY <1>1, <1>4 DEF PassCurrent
  <2>3. QED
    BY <1>1, <1>3, <1>4, <2>1, <2>2, PassWritten
<1>8. MailTypeOK'
  BY <1>1, <1>6, <1>7 DEF MailTypeOK, Passes, Steps
<1>9. QED
  BY <1>1, <1>6, <1>7, <1>8 DEF RetryTyped, Accounted

\* Handing the mail over: it is a failed one, and nobody has it in hand.
LEMMA DeliverKeeps == ASSUME RetryInv, NEW w \in Workers, Deliver(w) PROVE RetryTyped'
<1> DEFINE m == pass[w].at
<1>1. PICK o \in Outcomes :
        /\ pass' = [pass EXCEPT ![w].step = "record", ![w].outcome = o]
        /\ \/ /\ accepted' = [accepted EXCEPT ![m] = IF o = "sent" THEN @ + 1 ELSE @]
              /\ unknown' = unknown
           \/ /\ o = "error"
              /\ accepted' = [accepted EXCEPT ![m] = @ + 1]
              /\ unknown' = [unknown EXCEPT ![m] = @ + 1]
  BY DEF Deliver
<1>2. /\ MailTypeOK /\ Accounted /\ PassCurrent /\ pass[w].step = "send" /\ At(w, "body")
      /\ UNCHANGED <<inv, mail, open>>
  BY DEF RetryInv, Deliver, PassAt, ledgerVars, BodyErrs
<1>3. pass[w] \in Passes /\ pass \in [Workers -> Passes] /\ m \in Mails
  BY <1>2 DEF MailTypeOK, Passes, Steps
<1> DEFINE p == Recording(pass[w], o)
<1>4. pass' = [pass EXCEPT ![w] = p]
  BY <1>1, <1>3 DEF Recording
<1>5. /\ p \in Passes /\ p.step = "record" /\ p.outcome = o /\ p.at = m /\ p.todo = pass[w].todo
      /\ p.closing = pass[w].closing /\ p.seen = pass[w].seen
  BY <1>3, RecordingFields
<1>6. mail[m].status = "error"
  BY <1>2 DEF PassCurrent
<1> HIDE DEF p, m
<1>7. /\ pass' \in [Workers -> Passes] /\ PassInside' /\ PassCurrent'
      /\ \A n \in Mails : HandedOver(n)' <=> o = "sent" /\ n = m
      /\ \A n \in Mails : ~HandedOver(n)
  <2>1. /\ p.step # "off"
        /\ \A n \in p.todo : mail'[n].status = "error" /\ p.seen[n] < MAX_ATTEMPTS
        /\ p.closing \subseteq p.todo /\ p.at \in p.todo
    BY <1>2, <1>5 DEF PassCurrent, m
  <2>2. /\ pass' \in [Workers -> Passes] /\ PassInside' /\ PassCurrent'
        /\ \A n \in Mails : HandedOver(n)' <=> p.step = "record" /\ p.outcome = "sent" /\ p.at = n
        /\ \A n \in Mails :
             HandedOver(n) <=> pass[w].step = "record" /\ pass[w].outcome = "sent" /\ pass[w].at = n
    BY <1>2, <1>4, <1>5, <2>1, PassWritten
  <2>3. QED
    BY <1>2, <1>5, <2>2
<1>8. accepted \in [Mails -> Nat] /\ unknown \in [Mails -> Nat] /\ accepted[m] <= unknown[m]
  BY <1>2, <1>3, <1>6, <1>7 DEF MailTypeOK, Accounted
<1>9. accepted' \in [Mails -> Nat] /\ unknown' \in [Mails -> Nat]
  BY <1>1, <1>3, <1>8
<1>10. MailTypeOK'
  BY <1>2, <1>7, <1>9 DEF MailTypeOK, Passes, Steps
<1>11. ASSUME NEW n \in Mails
       PROVE  /\ accepted'[n] <= unknown'[n] + 1
              /\ mail'[n].status = "error" /\ ~HandedOver(n)' => accepted'[n] <= unknown'[n]
  <2>1. CASE n = m
    BY <1>1, <1>3, <1>7, <1>8, <2>1
  <2>2. CASE n # m
    <3>1. accepted'[n] = accepted[n] /\ unknown'[n] = unknown[n]
      BY <1>1, <1>8, <2>2
    <3>2. QED
      BY <1>2, <1>7, <2>2, <3>1 DEF Accounted
  <2>3. QED
    BY <2>1, <2>2
<1>12. QED
  BY <1>7, <1>10, <1>11 DEF RetryTyped, Accounted

\* The outcome of a handed over mail is written.
LEMMA RecordOutcomeKeeps == ASSUME RetryInv, NEW w \in Workers, RecordOutcome(w) PROVE RetryTyped'
<1> DEFINE m == pass[w].at
           p == NextRow(w, m)
<1>1. /\ MailTypeOK /\ Accounted /\ PassCurrent /\ pass[w].step = "record" /\ At(w, "body")
      /\ UNCHANGED <<inv, open, accepted, unknown>>
      /\ mail' = [mail EXCEPT ![m].status = pass[w].outcome]
      /\ pass' = [pass EXCEPT ![w] = p]
  BY DEF RetryInv, RecordOutcome, Outcome, PassAt, ledgerVars
<1>2. pass[w] \in Passes /\ m \in Mails /\ pass[w].outcome \in Outcomes
  BY <1>1 DEF MailTypeOK, Passes, Steps
<1>3. /\ p \in Passes /\ p.step = "loop" /\ p.todo = pass[w].todo \ {m}
      /\ p.closing = pass[w].closing \ {m} /\ \A n \in Mails \ {m} : p.seen[n] = pass[w].seen[n]
  BY <1>1, <1>2, NextRowFields
<1> HIDE DEF p
<1>4. /\ mail' \in [Mails -> [status : Outcomes, attempts : 1..MAX_ATTEMPTS]]
      /\ mail'[m].status = pass[w].outcome
      /\ \A n \in Mails \ {m} : mail'[n] = mail[n]
  BY SMTT(30), <1>1, <1>2 DEF MailTypeOK
<1>5. pass[w].todo \subseteq Mails
  BY <1>2 DEF Passes
<1>6. mail[m].status = "error"
  BY <1>1 DEF PassCurrent
<1>7. /\ pass' \in [Workers -> Passes] /\ PassInside' /\ PassCurrent'
      /\ \A n \in Mails : ~HandedOver(n)'
      /\ \A n \in Mails : HandedOver(n) <=> pass[w].outcome = "sent" /\ n = m
  <2>1. \A n \in p.todo : mail'[n].status = "error" /\ p.seen[n] < MAX_ATTEMPTS
    BY <1>1, <1>3, <1>4, <1>5 DEF PassCurrent
  <2>2. p.closing \subseteq p.todo
    BY <1>1, <1>3 DEF PassCurrent
  <2>3. QED
    BY <1>1, <1>3, <2>1, <2>2, PassWritten
<1>8. MailTypeOK'
  BY <1>1, <1>4, <1>7 DEF MailTypeOK, Passes, Steps
<1>9. ASSUME NEW n \in Mails
      PROVE  /\ accepted'[n] <= unknown'[n] + 1
             /\ mail'[n].status = "error" => accepted'[n] <= unknown'[n]
  <2> HIDE DEF m
  <2>1. CASE n = m
    BY <1>1, <1>4, <1>6, <1>7, <2>1 DEF Accounted
  <2>2. CASE n # m
    BY <1>1, <1>4, <1>7, <2>2 DEF Accounted
  <2>3. QED
    BY <2>1, <2>2
<1>10. QED
  BY <1>7, <1>8, <1>9 DEF RetryTyped, Accounted

\* The body of an invocation is left by the steps of its pass only.
LEMMA BodyStays ==
    ASSUME RetryInv, LedgerOnly(Tick) \/ \E w \in Workers : LedgerOnly(LedgerStep(w)),
           NEW v \in Workers, At(v, "body")
    PROVE  At(v, "body")'
<1>1. inv \in [Workers -> Invocations]
  BY DEF RetryInv, IInv, Typed, LedgerTypeOK, Invocations
<1>2. CASE LedgerOnly(Tick)
  BY <1>1, <1>2 DEF LedgerOnly, Tick, At, Invocations
<1>3. ASSUME NEW w \in Workers, LedgerOnly(LedgerStep(w)) PROVE At(v, "body")'
  <2>1. CASE v = w
    BY <1>3, <2>1 DEF LedgerOnly, LedgerStep, Wake, DirectRun, ScanStale, FinaliseForWake, SelectDue,
       SkipNotDue, ReadStartedAt, FinaliseOwn, CreateRow, ClaimRefused, Complete, At
  <2>2. CASE v # w
    BY <1>1, <1>3, <2>2 DEF LedgerOnly, LedgerStep, Wake, DirectRun, ScanStale, FinaliseForWake,
       SelectDue, SkipNotDue, ReadStartedAt, FinaliseOwn, CreateRow, ClaimRefused, Complete, At,
       Goto, Ends
  <2>3. QED
    BY <2>1, <2>2
<1>4. QED
  BY <1>2, <1>3

\* The invariant is inductive.
LEMMA StepRetryInv == RetryInv /\ [Next]_vars => RetryInv'
<1> SUFFICES ASSUME RetryInv, [Next]_vars PROVE RetryInv'
  OBVIOUS
<1>1. IInv'
  BY StepOfLedger, StepIInv DEF RetryInv
<1>2. ASSUME UNCHANGED mailVars, \A v \in Workers : At(v, "body") => At(v, "body")' PROVE RetryTyped'
  <2>1. \A m \in Mails : HandedOver(m)' = HandedOver(m)
    BY <1>2 DEF mailVars, HandedOver
  <2>2. QED
    BY <1>2, <2>1 DEF RetryInv, RetryTyped, MailTypeOK, PassInside, PassCurrent, Accounted, mailVars
<1>3. CASE LedgerOnly(Tick)
  <2>1. \A v \in Workers : At(v, "body") => At(v, "body")'
    BY <1>3, BodyStays
  <2>2. QED
    BY <1>1, <1>2, <1>3, <2>1 DEF LedgerOnly, RetryInv, RetryTyped
<1>4. ASSUME NEW w \in Workers, LedgerOnly(LedgerStep(w)) PROVE RetryInv'
  <2>1. \A v \in Workers : At(v, "body") => At(v, "body")'
    BY <1>4, BodyStays
  <2>2. QED
    BY <1>1, <1>2, <1>4, <2>1 DEF LedgerOnly, RetryInv, RetryTyped
<1>5. ASSUME NEW w \in Workers, PassStep(w) PROVE RetryInv'
  <2>1. CASE PassEnds(w)
    <3>1. \A v \in Workers \ {w} : inv'[v] = inv[v]
      BY <2>1 DEF PassEnds, BodyEnds, Goto, RetryInv, IInv, Typed, LedgerTypeOK
    <3>2. unknown' = Forget(w)
      BY <2>1 DEF PassEnds, PassAt, Forget
    <3>3. QED
      BY <1>1, <2>1, <3>1, <3>2, PassDropped DEF PassEnds, RetryInv
  <2>2. CASE ReadErrors(w) \/ Deliver(w) \/ RecordOutcome(w)
    <3>1. RetryTyped'
      BY <2>2, ReadErrorsKeeps, DeliverKeeps, RecordOutcomeKeeps
    <3>2. QED
      BY <1>1, <3>1 DEF RetryInv, RetryTyped
  <2>3. ASSUME NEW m \in Mails, CloseObsolete(w, m) \/ ClaimMail(w, m) PROVE RetryInv'
    <3>1. RetryTyped'
      BY <2>3, RowLeftKeeps, ClaimMailKeeps DEF ClaimWon, ClaimLost
    <3>2. QED
      BY <1>1, <3>1 DEF RetryInv, RetryTyped
  <2>4. QED
    BY <1>5, <2>1, <2>2, <2>3 DEF PassStep
<1>6. ASSUME NEW w \in Workers, PassThrows(w) \/ InvocationKilled(w) PROVE RetryInv'
  <2>1. \A v \in Workers \ {w} : inv'[v] = inv[v]
    BY <1>6 DEF PassThrows, BodyThrows, InvocationKilled, Kill, Goto, Ends, RetryInv, IInv, Typed, LedgerTypeOK
  <2>2. QED
    BY <1>1, <1>6, <2>1, PassDropped DEF PassThrows, InvocationKilled, RetryInv
<1>7. ASSUME NEW m \in Mails, Obsolete(m) PROVE RetryInv'
  <2>1. UNCHANGED <<inv, mail, pass, accepted, unknown>> /\ open' \in SUBSET Mails
    BY <1>7 DEF Obsolete, ledgerVars, RetryInv, MailTypeOK
  <2>2. \A n \in Mails : HandedOver(n)' = HandedOver(n)
    BY <2>1 DEF HandedOver
  <2>3. MailTypeOK' /\ PassInside' /\ PassCurrent' /\ Accounted'
    BY <2>1, <2>2 DEF RetryInv, MailTypeOK, PassInside, PassCurrent, Accounted, At
  <2>4. QED
    BY <1>1, <2>3 DEF RetryInv
<1>8. CASE UNCHANGED vars
  BY <1>1, <1>2, <1>8 DEF vars, ledgerVars, At, RetryInv, RetryTyped
<1>9. QED
  BY <1>3, <1>4, <1>5, <1>6, <1>7, <1>8 DEF Next

\* At first nothing has been handed over.
LEMMA InitRetryInv == Init => RetryInv
<1> SUFFICES ASSUME Init PROVE RetryInv
  OBVIOUS
<1>1. IInv
  BY InitIInv DEF Init
<1>2. \A m \in Mails : mail[m] = [status |-> "error", attempts |-> 1] /\ accepted[m] = 0 /\ unknown[m] = 0
  BY DEF Init
<1>3. \A w \in Workers : pass[w] = NoPass
  BY DEF Init
<1>4. MailTypeOK
  BY NoPassTyped, RetryAssumption DEF RetryAssumption, Init, MailTypeOK, Passes, Steps, Outcomes
<1>5. PassInside /\ PassCurrent
  BY <1>3, NoPassTyped DEF PassInside, PassCurrent
<1>6. Accounted
  BY <1>2 DEF Accounted
<1>7. QED
  BY <1>1, <1>4, <1>5, <1>6 DEF RetryInv

\* The invariant holds throughout.
LEMMA RetryInvHolds == Spec => []RetryInv
BY InitRetryInv, StepRetryInv, PTL DEF Spec

-----------------------------------------------------------------------------
\* Type correctness of the retry pass with its ledger.
THEOREM RetryTypeCorrect == Spec => []TypeOK
<1>1. RetryInv => TypeOK
  BY DEF RetryInv, IInv, Typed, TypeOK
<1>2. QED
  BY <1>1, RetryInvHolds, PTL

\* Nobody is mailed again unless an earlier acceptance was lost, whatever
\* overlaps and dies.
THEOREM MailsOnce == Spec => []MailedOnce
<1>1. RetryInv => MailedOnce
  BY DEF RetryInv, Accounted, MailedOnce
<1>2. QED
  BY <1>1, RetryInvHolds, PTL

\* A delivery that is sent or closed stays so: whoever writes a row has it
\* among what his pass still has to do, and that is failed.
THEOREM SettledStays == Spec => SettledStands
<1>1. RetryInv /\ [Next]_vars =>
        [\A m \in Mails : mail[m].status # "error" => mail'[m].status = mail[m].status]_mail
  <2> SUFFICES ASSUME RetryInv, [Next]_vars, NEW m \in Mails,
                      mail[m].status # "error", mail'[m].status # mail[m].status
               PROVE  FALSE
    OBVIOUS
  <2>1. /\ mail \in [Mails -> [status : Outcomes, attempts : 1..MAX_ATTEMPTS]]
        /\ \A w \in Workers : m \notin pass[w].todo
    BY DEF RetryInv, MailTypeOK, PassCurrent
  <2>2. PICK w \in Workers :
          RecordOutcome(w) \/ \E n \in Mails : CloseObsolete(w, n) \/ ClaimMail(w, n)
    BY DEF Next, vars, LedgerOnly, mailVars, PassStep, ReadErrors, Deliver, PassEnds,
       PassThrows, InvocationKilled, Obsolete
  <2>3. CASE RecordOutcome(w)
    <3>1. pass[w].at = m
      BY <2>1, <2>3 DEF RecordOutcome, Outcome
    <3>2. QED
      BY <2>1, <2>3, <3>1 DEF RecordOutcome, PassAt, RetryInv, PassCurrent
  <2>4. ASSUME NEW n \in Mails, CloseObsolete(w, n) PROVE FALSE
    BY <2>1, <2>4 DEF CloseObsolete, RetryInv, PassCurrent
  <2>5. ASSUME NEW n \in Mails, ClaimMail(w, n) PROVE FALSE
    BY <2>1, <2>5 DEF ClaimMail
  <2>6. QED
    BY <2>2, <2>3, <2>4, <2>5
<1>2. QED
  BY <1>1, RetryInvHolds, PTL DEF Spec, SettledStands

=============================================================================
