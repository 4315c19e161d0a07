---------------------- MODULE PlaidItemLifecycleProofs ----------------------
(***************************************************************************)
(* What holds of a PlaidItem row under all its writers, for any set of     *)
(* runs and any bounds.                                                    *)
(*                                                                         *)
(* TypeOK says that the lock is held while some run is inside; a release   *)
(* by one of two runs would break that, so the invariant adds that there   *)
(* is one at most.  From that follows what a run may rely on between its   *)
(* read of the row and its write: nobody else counts a completed loop, and *)
(* what it has stored stays stored.  It also makes the lock an             *)
(* implementation of SyncMutex.                                            *)
(***************************************************************************)
EXTENDS PlaidItemLifecycle, TLAPS

\* At most one run is between its claim and its release.
OneInside == \A r, s \in Runs : Inside(r) /\ Inside(s) => r = s

\* The count a run has read is the count in the row until it writes it.
CountCurrent ==
    \A r \in Runs : run[r].pc \in {"pulling", "settling", "writing"} =>
        run[r].count = completed

\* A run that has pulled has stored all there was when it took the lock.
PulledAll ==
    \A r \in Runs :
        /\ run[r].since <= available
        /\ run[r].pc \in {"settling", "writing", "leaving"} => stored >= run[r].since

IInv == TypeOK /\ OneInside /\ CountCurrent /\ PulledAll

-----------------------------------------------------------------------------
\* TypeOK without the runs: what a step must establish of the row itself.
RowTyped ==
    /\ status \in {"ACTIVE", "ERROR", "REVOKED"}
    /\ marker \in Markers
    /\ completed \in 0..2
    /\ backoff \in BOOLEAN
    /\ lock \in {"free", "held", "orphaned"}
    /\ pending \subseteq {"webhook", "connect", "disconnect", "scrub", "relink"}
    /\ available \in 0..MaxData /\ stored \in 0..available
    /\ removed \in BOOLEAN
    /\ faults \in 0..MaxFaults /\ changes \in 0..MaxChanges

RunsTyped == run \in [Runs -> RunType]

LockFollows == lock = "held" <=> \E r \in Runs : Inside(r)

LEMMA TypeParts == TypeOK <=> RowTyped /\ RunsTyped /\ LockFollows
BY DEF TypeOK, RowTyped, RunsTyped, LockFollows

Places == InBody \cup {"idle", "claiming", "rearming", "stamping", "leaving",
                       "failed", "recording", "recorded", "reporting", "reported"}

\* Nobody but r moves, and its record stays a record of a run.
Moves(r) == RunsTyped' /\ \A s \in Runs \ {r} : run'[s] = run[s]

LEMMA IdleTyped == Idle \in RunType
BY BoundsAssumption DEF Idle, RunType, Kinds, InBody, BoundsAssumption

LEMMA GotoMoves ==
    ASSUME RunsTyped, NEW r \in Runs, NEW p \in Places, Goto(r, p)
    PROVE  /\ Moves(r)
           /\ run'[r].pc = p
           /\ run'[r].since = run[r].since
           /\ run'[r].count = run[r].count
BY DEF RunsTyped, RunType, Places, Goto, Moves

LEMMA LeaveMoves ==
    ASSUME RunsTyped, NEW r \in Runs, NEW p \in Places, Leave(r, p)
    PROVE  /\ Moves(r)
           /\ run'[r].pc = p
           /\ run'[r].since = run[r].since
<1> DEFINE moved == [run EXCEPT ![r].pc = p]
           read  == [moved EXCEPT ![r].seen = FALSE]
<1>1. moved \in [Runs -> RunType]
  BY DEF RunsTyped, RunType, Places
<1>2. read \in [Runs -> RunType]
  BY ZenonT(40), <1>1 DEF RunType
<1>3. run' = [read EXCEPT ![r].count = 0]
  BY DEF Leave
<1> HIDE DEF moved, read
<1>4. [read[r] EXCEPT !.count = 0] \in RunType
  BY <1>2 DEF RunType
<1>5. RunsTyped'
  BY <1>2, <1>3, <1>4 DEF RunsTyped
<1>6. QED
  BY <1>5 DEF RunsTyped, RunType, Leave, Moves

LEMMA FinishMoves ==
    ASSUME RunsTyped, NEW r \in Runs, Finish(r)
    PROVE  /\ Moves(r)
           /\ run'[r].pc = "idle"
           /\ run'[r].since = 0
BY IdleTyped DEF RunsTyped, Finish, Moves, Idle

LEMMA StartMoves ==
    ASSUME RunsTyped, NEW r \in Runs, NEW k \in Kinds, NEW p \in Places, Start(r, k, p)
    PROVE  /\ Moves(r)
           /\ run[r].pc = "idle"
           /\ run'[r].pc = p
           /\ run'[r].since = 0
<1>1. [Idle EXCEPT !.kind = k, !.pc = p] \in RunType
  BY IdleTyped DEF RunType, Places, Idle
<1>2. QED
  BY <1>1 DEF RunsTyped, Start, Moves, Idle

-----------------------------------------------------------------------------
LEMMA InitIInv == Init => IInv
<1> SUFFICES ASSUME Init PROVE IInv
  OBVIOUS
<1> USE BoundsAssumption DEF BoundsAssumption
<1>1. RunsTyped
  BY IdleTyped DEF Init, RunsTyped
<1>2. \A r \in Runs : run[r].pc = "idle" /\ run[r].since = 0
  BY DEF Init, Idle
<1>3. \A r \in Runs : ~Inside(r)
  BY <1>2 DEF Inside, InBody
<1>4. RowTyped
  <2>1. pending \subseteq {"webhook", "connect", "disconnect", "scrub", "relink"}
    BY DEF Init
  <2>2. marker \in Markers
    BY DEF Init, Markers
  <2>3. available \in 0..MaxData /\ stored \in 0..available /\ completed \in 0..2
    BY DEF Init
  <2>4. faults \in 0..MaxFaults /\ changes \in 0..MaxChanges
    BY DEF Init
  <2>5. QED
    BY <2>1, <2>2, <2>3, <2>4, Zenon DEF RowTyped, Init
<1>5. LockFollows
  BY <1>3 DEF LockFollows, Init
<1>6. OneInside /\ CountCurrent /\ PulledAll
  BY <1>2, <1>3 DEF OneInside, CountCurrent, PulledAll, Init
<1>7. QED
  BY <1>1, <1>4, <1>5, <1>6, TypeParts DEF IInv

\* What a step of one run owes the others: it enters only through a lock that
\* is not held, gives the lock up when it comes out, and counts from inside.
LEMMA OneRunSteps ==
    ASSUME IInv, RowTyped', NEW r \in Runs, Moves(r),
           Inside(r)' => lock' = "held" /\ (Inside(r) \/ lock # "held"),
           ~Inside(r)' => IF Inside(r) THEN lock' # "held" ELSE lock' = lock,
           available' >= available, stored' >= stored,
           run'[r].since <= available',
           run'[r].pc \in {"settling", "writing", "leaving"} => stored' >= run'[r].since,
           run'[r].pc \in {"pulling", "settling", "writing"} => run'[r].count = completed',
           completed' = completed \/ Inside(r)
    PROVE  IInv'
<1> USE DEF Moves
<1>1. RunsTyped /\ RowTyped /\ LockFollows /\ OneInside /\ CountCurrent /\ PulledAll
  BY TypeParts DEF IInv
<1>2. \A s \in Runs \ {r} : Inside(s)' <=> Inside(s)
  BY DEF Inside
<1>3. LockFollows'
  BY <1>1, <1>2 DEF LockFollows, OneInside
<1>4. OneInside'
  BY <1>1, <1>2 DEF LockFollows, OneInside
<1>5. CountCurrent'
  <2> SUFFICES ASSUME NEW s \in Runs \ {r}, run'[s].pc \in {"pulling", "settling", "writing"}
               PROVE  run'[s].count = completed'
    BY DEF CountCurrent
  <2>1. run[s] = run'[s] /\ Inside(s)
    BY DEF Inside, InBody
  <2>2. completed' = completed
    BY <1>1, <2>1 DEF OneInside
  <2>3. QED
    BY <1>1, <2>1, <2>2 DEF CountCurrent
<1>6. PulledAll'
  <2> SUFFICES ASSUME NEW s \in Runs \ {r}
               PROVE  /\ run'[s].since <= available'
                      /\ run'[s].pc \in {"settling", "writing", "leaving"}
                           => stored' >= run'[s].since
    BY DEF PulledAll
  <2>1. run'[s] = run[s] /\ run[s].since \in Nat
    BY <1>1 DEF RunsTyped, RunType
  <2>2. available \in Nat /\ available' \in Nat /\ stored \in Nat /\ stored' \in Nat
    BY <1>1 DEF RowTyped
  <2>3. QED
    BY <1>1, <2>1, <2>2 DEF PulledAll
<1>7. TypeOK'
  BY <1>3 DEF TypeOK, RowTyped, RunsTyped, LockFollows
<1>8. QED
  BY <1>4, <1>5, <1>6, <1>7 DEF IInv

-----------------------------------------------------------------------------
\* A run that starts is outside the lock, and has read nothing yet.
LEMMA StartedKeeps ==
    ASSUME IInv, RunsTyped, RowTyped, RowTyped', NEW r \in Runs, NEW k \in Kinds,
           NEW p \in {"claiming", "rearming", "reported"}, Start(r, k, p),
           lock' = lock, available' = available, stored' = stored, completed' = completed
    PROVE  IInv'
<1>1. Moves(r) /\ run[r].pc = "idle" /\ run'[r].pc = p /\ run'[r].since = 0
  BY StartMoves DEF Places
<1>2. ~Inside(r) /\ ~Inside(r)'
  BY <1>1 DEF Inside, InBody
<1>3. available \in Nat /\ stored \in Nat
  BY BoundsAssumption DEF BoundsAssumption, RowTyped
<1>4. QED
  BY <1>1, <1>2, <1>3, OneRunSteps

\* The steps that start a run.
LEMMA StartingSteps ==
    ASSUME IInv, NEW r \in Runs, Trigger(r) \/ Resume(r) \/ Sweep(r)
    PROVE  IInv'
<1> USE BoundsAssumption DEF BoundsAssumption
<1>0. RunsTyped /\ RowTyped
  BY TypeParts DEF IInv
<1>1. CASE Webhook(r)
  <2>1. RowTyped'
    BY <1>0, <1>1 DEF Webhook, RowTyped, item, world, Change
  <2>2. Start(r, "deferred", "claiming")
    BY <1>1 DEF Webhook
  <2>3. lock' = lock /\ available' = available /\ stored' = stored /\ completed' = completed
    BY <1>1 DEF Webhook, item, world
  <2>4. QED
    BY <1>0, <2>1, <2>2, <2>3, StartedKeeps DEF Kinds
<1>2. CASE Connect(r)
  <2>1. RowTyped'
    BY <1>0, <1>2 DEF Connect, RowTyped, item, world, Change
  <2>2. Start(r, "deferred", "claiming")
    BY <1>2 DEF Connect
  <2>3. lock' = lock /\ available' = available /\ stored' = stored /\ completed' = completed
    BY <1>2 DEF Connect, item, world
  <2>4. QED
    BY <1>0, <2>1, <2>2, <2>3, StartedKeeps DEF Kinds
<1>3. CASE ClientResume(r)
  <2>1. RowTyped'
    BY <1>0, <1>3 DEF ClientResume, RowTyped, item, world, Change
  <2>2. Start(r, "deferred", "rearming")
    BY <1>3 DEF ClientResume
  <2>3. lock' = lock /\ available' = available /\ stored' = stored /\ completed' = completed
    BY <1>3 DEF ClientResume, item, world
  <2>4. QED
    BY <1>0, <2>1, <2>2, <2>3, StartedKeeps DEF Kinds
<1>4. CASE ReportBroken(r)
  <2>1. RowTyped'
    BY <1>0, <1>4 DEF ReportBroken, RowTyped, item, world, Change
  <2>2. Start(r, "deferred", "reported")
    BY <1>4 DEF ReportBroken
  <2>3. lock' = lock /\ available' = available /\ stored' = stored /\ completed' = completed
    BY <1>4 DEF ReportBroken, item, world
  <2>4. QED
    BY <1>0, <2>1, <2>2, <2>3, StartedKeeps DEF Kinds
<1>5. CASE Resume(r)
  <2>1. RowTyped'
    BY <1>0, <1>5 DEF Resume, RowTyped, item, world, Change
  <2>2. Start(r, "resume", "claiming")
    BY <1>5 DEF Resume
  <2>3. lock' = lock /\ available' = available /\ stored' = stored /\ completed' = completed
    BY <1>5 DEF Resume, item, world
  <2>4. QED
    BY <1>0, <2>1, <2>2, <2>3, StartedKeeps DEF Kinds
<1>6. CASE Sweep(r)
  <2>1. RowTyped'
    BY <1>0, <1>6 DEF Sweep, RowTyped, item, world, Change
  <2>2. Start(r, "sweep", "claiming")
    BY <1>6 DEF Sweep
  <2>3. lock' = lock /\ available' = available /\ stored' = stored /\ completed' = completed
    BY <1>6 DEF Sweep, item, world
  <2>4. QED
    BY <1>0, <2>1, <2>2, <2>3, StartedKeeps DEF Kinds
<1>7. QED
  BY <1>1, <1>2, <1>3, <1>4, <1>5, <1>6 DEF Trigger

-----------------------------------------------------------------------------
\* A step taken outside the lock, or on the way out of it.
LEMMA OutsideKeeps ==
    ASSUME IInv, RunsTyped, RowTyped, RowTyped', NEW r \in Runs, Moves(r),
           ~Inside(r)', run'[r].since \in {0, run[r].since},
           IF Inside(r) THEN lock' # "held" ELSE lock' = lock,
           available' = available, stored' = stored, completed' = completed
    PROVE  IInv'
<1>1. run'[r].pc \notin {"pulling", "settling", "writing", "leaving"}
  BY DEF Inside, InBody
<1>2. available \in Nat /\ stored \in Nat
  BY BoundsAssumption DEF BoundsAssumption, RowTyped
<1>3. run[r].since <= available
  BY DEF IInv, PulledAll
<1>4. QED
  BY <1>1, <1>2, <1>3, OneRunSteps

\* Where a release or a lost lock leads is outside.
LEMMA AfterReleaseMoves ==
    ASSUME RunsTyped, NEW r \in Runs, AfterRelease(r)
    PROVE  Moves(r) /\ ~Inside(r)' /\ run'[r].since \in {0, run[r].since}
<1>1. CASE Finish(r)
  BY <1>1, FinishMoves DEF Inside, InBody
<1>2. CASE Goto(r, "recording")
  BY <1>2, GotoMoves DEF Inside, InBody, Places
<1>3. CASE Goto(r, "reporting")
  BY <1>3, GotoMoves DEF Inside, InBody, Places
<1>4. QED
  BY <1>1, <1>2, <1>3 DEF AfterRelease

LEMMA OutsideSteps ==
    ASSUME IInv, NEW r \in Runs,
           \/ Rearm(r) \/ ClaimLoses(r) \/ StampIncomplete(r) \/ AttemptReads(r)
           \/ AttemptWrites(r)
           \/ ReportReads(r) \/ ReportWrites(r)
           \/ Release(r) \/ ReleaseFails(r) \/ Kill(r)
    PROVE  IInv'
<1> USE BoundsAssumption DEF BoundsAssumption
<1>0. RunsTyped /\ RowTyped
  BY TypeParts DEF IInv
<1>1. CASE Rearm(r)
  <2>1. RowTyped'
    BY <1>0, <1>1 DEF Rearm, RowTyped, item, world, Fault, Markers
  <2>2. Moves(r) /\ ~Inside(r)' /\ run'[r].since \in {0, run[r].since}
    BY <1>0, <1>1, GotoMoves DEF Rearm, Inside, InBody, Places
  <2>3. IF Inside(r) THEN lock' # "held" ELSE lock' = lock
    BY <1>1 DEF Rearm, Inside, InBody
  <2>4. available' = available /\ stored' = stored /\ completed' = completed
    BY <1>1 DEF Rearm, item, world
  <2>5. QED
    BY <1>0, <2>1, <2>2, <2>3, <2>4, OutsideKeeps
<1>2. CASE ClaimLoses(r)
  <2>1. RowTyped'
    BY <1>0, <1>2 DEF ClaimLoses, RowTyped, item, world, Fault, Markers
  <2>2. Moves(r) /\ ~Inside(r)' /\ run'[r].since \in {0, run[r].since}
    BY <1>0, <1>2, GotoMoves DEF ClaimLoses, Inside, InBody, Places
  <2>3. IF Inside(r) THEN lock' # "held" ELSE lock' = lock
    BY <1>2 DEF ClaimLoses, Inside, InBody
  <2>4. available' = available /\ stored' = stored /\ completed' = completed
    BY <1>2 DEF ClaimLoses, item, world
  <2>5. QED
    BY <1>0, <2>1, <2>2, <2>3, <2>4, OutsideKeeps
<1>3. CASE StampIncomplete(r)
  <2>1. RowTyped'
    BY <1>0, <1>3 DEF StampIncomplete, RowTyped, item, world, Fault, Markers
  <2>2. Moves(r) /\ ~Inside(r)' /\ run'[r].since \in {0, run[r].since}
    BY <1>0, <1>3, FinishMoves DEF StampIncomplete, Inside, InBody, Places
  <2>3. IF Inside(r) THEN lock' # "held" ELSE lock' = lock
    BY <1>3 DEF StampIncomplete, Inside, InBody
  <2>4. available' = available /\ stored' = stored /\ completed' = completed
    BY <1>3 DEF StampIncomplete, item, world
  <2>5. QED
    BY <1>0, <2>1, <2>2, <2>3, <2>4, OutsideKeeps
<1>4. CASE AttemptReads(r)
  <2>1. RowTyped'
    BY <1>0, <1>4 DEF AttemptReads, RowTyped, item, world, Fault, Markers
  <2>2. Moves(r) /\ ~Inside(r)' /\ run'[r].since \in {0, run[r].since}
    BY <1>0, <1>4, GotoMoves, FinishMoves DEF AttemptReads, Inside, InBody, Places
  <2>3. IF Inside(r) THEN lock' # "held" ELSE lock' = lock
    BY <1>4 DEF AttemptReads, Inside, InBody
  <2>4. available' = available /\ stored' = stored /\ completed' = completed
    BY <1>4 DEF AttemptReads, item, world
  <2>5. QED
    BY <1>0, <2>1, <2>2, <2>3, <2>4, OutsideKeeps
<1>5. CASE ReportReads(r)
  <2>1. RowTyped'
    BY <1>0, <1>5 DEF ReportReads, RowTyped, item, world, Fault, Markers
  <2>2. Moves(r) /\ ~Inside(r)' /\ run'[r].since \in {0, run[r].since}
    BY <1>0, <1>5, GotoMoves, FinishMoves DEF ReportReads, Inside, InBody, Places
  <2>3. IF Inside(r) THEN lock' # "held" ELSE lock' = lock
    BY <1>5 DEF ReportReads, Inside, InBody
  <2>4. available' = available /\ stored' = stored /\ completed' = completed
    BY <1>5 DEF ReportReads, item, world
  <2>5. QED
    BY <1>0, <2>1, <2>2, <2>3, <2>4, OutsideKeeps
<1>6. CASE ReportWrites(r)
  <2>1. RowTyped'
    BY <1>0, <1>6 DEF ReportWrites, RowTyped, item, world, Fault, Markers
  <2>2. Moves(r) /\ ~Inside(r)' /\ run'[r].since \in {0, run[r].since}
    BY <1>0, <1>6, FinishMoves DEF ReportWrites, Inside, InBody, Places
  <2>3. IF Inside(r) THEN lock' # "held" ELSE lock' = lock
    BY <1>6 DEF ReportWrites, Inside, InBody
  <2>4. available' = available /\ stored' = stored /\ completed' = completed
    BY <1>6 DEF ReportWrites, item, world
  <2>5. QED
    BY <1>0, <2>1, <2>2, <2>3, <2>4, OutsideKeeps
<1>7. CASE Release(r)
  <2>1. RowTyped'
    BY <1>0, <1>7 DEF Release, RowTyped, item, world, Fault, Markers
  <2>2. Moves(r) /\ ~Inside(r)' /\ run'[r].since \in {0, run[r].since}
    BY <1>0, <1>7, AfterReleaseMoves DEF Release, Inside, InBody, Places
  <2>3. IF Inside(r) THEN lock' # "held" ELSE lock' = lock
    BY <1>7 DEF Release, Inside, InBody
  <2>4. available' = available /\ stored' = stored /\ completed' = completed
    BY <1>7 DEF Release, item, world
  <2>5. QED
    BY <1>0, <2>1, <2>2, <2>3, <2>4, OutsideKeeps
<1>8. CASE ReleaseFails(r)
  <2>1. RowTyped'
    BY <1>0, <1>8 DEF ReleaseFails, RowTyped, item, world, Fault, Markers
  <2>2. Moves(r) /\ ~Inside(r)' /\ run'[r].since \in {0, run[r].since}
    BY <1>0, <1>8, AfterReleaseMoves DEF ReleaseFails, Inside, InBody, Places
  <2>3. IF Inside(r) THEN lock' # "held" ELSE lock' = lock
    BY <1>8 DEF ReleaseFails, Inside, InBody
  <2>4. available' = available /\ stored' = stored /\ completed' = completed
    BY <1>8 DEF ReleaseFails, item, world
  <2>5. QED
    BY <1>0, <2>1, <2>2, <2>3, <2>4, OutsideKeeps
<1>9. CASE Kill(r)
  <2>1. RowTyped'
    BY <1>0, <1>9 DEF Kill, RowTyped, item, world, Fault, Markers
  <2>2. Moves(r) /\ ~Inside(r)' /\ run'[r].since \in {0, run[r].since}
    BY <1>0, <1>9, FinishMoves DEF Kill, Inside, InBody, Places
  <2>3. IF Inside(r) THEN lock' # "held" ELSE lock' = lock
    BY <1>9 DEF Kill, Inside, InBody
  <2>4. available' = available /\ stored' = stored /\ completed' = completed
    BY <1>9 DEF Kill, item, world
  <2>5. QED
    BY <1>0, <2>1, <2>2, <2>3, <2>4, OutsideKeeps
<1>10. CASE AttemptWrites(r)
  <2>1. RowTyped'
    BY <1>0, <1>10 DEF AttemptWrites, RowTyped, item, world, Fault, Markers
  <2>2. Moves(r) /\ ~Inside(r)' /\ run'[r].since \in {0, run[r].since}
    BY <1>0, <1>10, FinishMoves DEF AttemptWrites, Inside, InBody, Places
  <2>3. IF Inside(r) THEN lock' # "held" ELSE lock' = lock
    BY <1>10 DEF AttemptWrites, Inside, InBody
  <2>4. available' = available /\ stored' = stored /\ completed' = completed
    BY <1>10 DEF AttemptWrites, item, world
  <2>5. QED
    BY <1>0, <2>1, <2>2, <2>3, <2>4, OutsideKeeps
<1>11. QED
  BY <1>1, <1>2, <1>3, <1>4, <1>5, <1>6, <1>7, <1>8, <1>9, <1>10

LEMMA ReadMoves ==
    ASSUME RunsTyped, RowTyped, NEW r \in Runs, ReadItem(r)
    PROVE  /\ Moves(r)
           /\ run'[r].pc = "pulling"
           /\ run'[r].since = run[r].since
           /\ run'[r].count = completed
<1> DEFINE moved == [run EXCEPT ![r].pc = "pulling"]
           read  == [moved EXCEPT ![r].seen = (marker # NoMarker)]
<1>1. moved \in [Runs -> RunType]
  BY DEF RunsTyped, RunType, InBody
<1>2. (marker # NoMarker) \in BOOLEAN
  OBVIOUS
<1>3. read \in [Runs -> RunType]
  BY ZenonT(40), <1>1, <1>2 DEF RunType
<1>4. run' = [read EXCEPT ![r].count = completed]
  BY DEF ReadItem
<1>5. read[r].pc = "pulling" /\ read[r].since = run[r].since
      /\ \A s \in Runs \ {r} : read[s] = run[s]
  BY DEF RunsTyped, RunType
<1> HIDE DEF moved, read
<1>6. RunsTyped'
  BY <1>3, <1>4 DEF RunsTyped, RunType, RowTyped
<1>7. QED
  BY <1>3, <1>4, <1>5, <1>6 DEF RunType, Moves

\* A step taken inside the lock.
LEMMA InsideKeeps ==
    ASSUME IInv, RunsTyped, RowTyped, RowTyped', NEW r \in Runs, Moves(r),
           Inside(r), Inside(r)', lock' = lock, run'[r].since = run[r].since,
           available' = available, stored' >= stored,
           run'[r].pc \in {"settling", "writing", "leaving"} => stored' >= run[r].since,
           run'[r].pc \in {"pulling", "settling", "writing"} => run'[r].count = completed'
    PROVE  IInv'
<1>1. lock = "held"
  BY DEF IInv, TypeOK
<1>2. available \in Nat /\ run[r].since <= available
  BY BoundsAssumption DEF BoundsAssumption, RowTyped, IInv, PulledAll
<1>3. QED
  BY <1>1, <1>2, OneRunSteps

LEMMA InsideSteps ==
    ASSUME IInv, NEW r \in Runs,
           \/ ReadItem(r) \/ Pull(r) \/ PullFails(r) \/ BodyFails(r)
           \/ SettleReads(r) \/ SettleWrites(r)
           \/ MarkFailure(r) \/ FlagReads(r) \/ FlagWrites(r) \/ MarkingFails(r)
    PROVE  IInv'
<1> USE BoundsAssumption DEF BoundsAssumption
<1>0. RunsTyped /\ RowTyped /\ CountCurrent /\ PulledAll
  BY TypeParts DEF IInv
<1>1. CASE ReadItem(r)
  <2>1. RowTyped'
    BY <1>0, <1>1 DEF ReadItem, RowTyped, item, world
  <2>2. Moves(r) /\ run'[r].since = run[r].since
    BY <1>0, <1>1, ReadMoves
  <2>3. Inside(r) /\ Inside(r)' /\ lock' = lock /\ available' = available /\ stored' = stored
    BY <1>0, <1>1, ReadMoves DEF ReadItem, Inside, InBody, world
  <2>4. run'[r].pc = "pulling" /\ run'[r].count = completed'
    BY <1>0, <1>1, ReadMoves DEF ReadItem, item
  <2>5. stored' >= stored
    BY <1>0, <2>3 DEF RowTyped
  <2>6. QED
    BY <1>0, <2>1, <2>2, <2>3, <2>4, <2>5, InsideKeeps
<1>2. CASE Pull(r)
  <2>1. RowTyped'
    BY <1>0, <1>2 DEF Pull, RowTyped, item, world, Fault, Markers, NoMarker
  <2>2. Moves(r) /\ run'[r].since = run[r].since
    BY <1>0, <1>2, GotoMoves DEF Pull, InBody, Places
  <2>3. Inside(r) /\ Inside(r)' /\ lock' = lock /\ available' = available
    BY <1>0, <1>2, GotoMoves DEF Pull, Inside, InBody, Places, world
  <2>4. stored' >= stored
    BY <1>0, <1>2 DEF Pull, RowTyped
  <2>5. run'[r].pc \in {"settling", "writing", "leaving"} => stored' >= run[r].since
    BY <1>0, <1>2, GotoMoves DEF Pull, InBody, Places, PulledAll
  <2>6. run'[r].pc \in {"pulling", "settling", "writing"} => run'[r].count = completed'
    BY <1>0, <1>2, GotoMoves DEF Pull, InBody, Places, CountCurrent, item
  <2>7. QED
    BY <1>0, <2>1, <2>2, <2>3, <2>4, <2>5, <2>6, InsideKeeps
<1>3. CASE PullFails(r)
  <2>1. RowTyped'
    BY <1>0, <1>3 DEF PullFails, RowTyped, item, world, Fault, Markers, NoMarker
  <2>2. Moves(r) /\ run'[r].since = run[r].since
    BY <1>0, <1>3, LeaveMoves DEF PullFails, Failing, InBody, Places
  <2>3. Inside(r) /\ Inside(r)' /\ lock' = lock /\ available' = available
    BY <1>0, <1>3, LeaveMoves DEF PullFails, Failing, Inside, InBody, Places, world
  <2>4. stored' >= stored
    BY <1>0, <1>3 DEF PullFails, RowTyped
  <2>5. run'[r].pc \in {"settling", "writing", "leaving"} => stored' >= run[r].since
    BY <1>0, <1>3, LeaveMoves DEF PullFails, Failing, InBody, Places, PulledAll
  <2>6. run'[r].pc \in {"pulling", "settling", "writing"} => run'[r].count = completed'
    BY <1>0, <1>3, LeaveMoves DEF PullFails, Failing, InBody, Places, CountCurrent, item
  <2>7. QED
    BY <1>0, <2>1, <2>2, <2>3, <2>4, <2>5, <2>6, InsideKeeps
<1>4. CASE BodyFails(r)
  <2>1. RowTyped'
    BY <1>0, <1>4 DEF BodyFails, RowTyped, item, world, Fault, Markers, NoMarker
  <2>2. Moves(r) /\ run'[r].since = run[r].since
    BY <1>0, <1>4, LeaveMoves DEF BodyFails, Failing, InBody, Places
  <2>3. Inside(r) /\ Inside(r)' /\ lock' = lock /\ available' = available
    BY <1>0, <1>4, LeaveMoves DEF BodyFails, Failing, Inside, InBody, Places, world
  <2>4. stored' >= stored
    BY <1>0, <1>4 DEF BodyFails, RowTyped
  <2>5. run'[r].pc \in {"settling", "writing", "leaving"} => stored' >= run[r].since
    BY <1>0, <1>4, LeaveMoves DEF BodyFails, Failing, InBody, Places, PulledAll
  <2>6. run'[r].pc \in {"pulling", "settling", "writing"} => run'[r].count = completed'
    BY <1>0, <1>4, LeaveMoves DEF BodyFails, Failing, InBody, Places, CountCurrent, item
  <2>7. QED
    BY <1>0, <2>1, <2>2, <2>3, <2>4, <2>5, <2>6, InsideKeeps
<1>5. CASE SettleReads(r)
  <2>1. RowTyped'
    BY <1>0, <1>5 DEF SettleReads, RowTyped, item, world, Fault, Markers, NoMarker
  <2>2. Moves(r) /\ run'[r].since = run[r].since
    BY <1>0, <1>5, GotoMoves, LeaveMoves DEF SettleReads, InBody, Places
  <2>3. Inside(r) /\ Inside(r)' /\ lock' = lock /\ available' = available
    BY <1>0, <1>5, GotoMoves, LeaveMoves DEF SettleReads, Inside, InBody, Places, world
  <2>4. stored' >= stored
    BY <1>0, <1>5 DEF SettleReads, RowTyped
  <2>5. run'[r].pc \in {"settling", "writing", "leaving"} => stored' >= run[r].since
    BY <1>0, <1>5, GotoMoves, LeaveMoves DEF SettleReads, InBody, Places, PulledAll
  <2>6. run'[r].pc \in {"pulling", "settling", "writing"} => run'[r].count = completed'
    BY <1>0, <1>5, GotoMoves, LeaveMoves DEF SettleReads, InBody, Places, CountCurrent, item
  <2>7. QED
    BY <1>0, <2>1, <2>2, <2>3, <2>4, <2>5, <2>6, InsideKeeps
<1>6. CASE SettleWrites(r)
  <2>1. RowTyped'
    BY <1>0, <1>6 DEF SettleWrites, RowTyped, item, world, Fault, Markers, NoMarker
  <2>2. Moves(r) /\ run'[r].since = run[r].since
    BY <1>0, <1>6, LeaveMoves DEF SettleWrites, InBody, Places
  <2>3. Inside(r) /\ Inside(r)' /\ lock' = lock /\ available' = available
    BY <1>0, <1>6, LeaveMoves DEF SettleWrites, Inside, InBody, Places, world
  <2>4. stored' >= stored
    BY <1>0, <1>6 DEF SettleWrites, RowTyped
  <2>5. run'[r].pc \in {"settling", "writing", "leaving"} => stored' >= run[r].since
    BY <1>0, <1>6, LeaveMoves DEF SettleWrites, InBody, Places, PulledAll
  <2>6. run'[r].pc \in {"pulling", "settling", "writing"} => run'[r].count = completed'
    BY <1>0, <1>6, LeaveMoves DEF SettleWrites, InBody, Places, CountCurrent, item
  <2>7. QED
    BY <1>0, <2>1, <2>2, <2>3, <2>4, <2>5, <2>6, InsideKeeps
<1>7. CASE MarkFailure(r)
  <2>1. RowTyped'
    BY <1>0, <1>7 DEF MarkFailure, RowTyped, item, world, Fault, Markers, NoMarker
  <2>2. Moves(r) /\ run'[r].since = run[r].since
    BY <1>0, <1>7, GotoMoves DEF MarkFailure, InBody, Places
  <2>3. Inside(r) /\ Inside(r)' /\ lock' = lock /\ available' = available
    BY <1>0, <1>7, GotoMoves DEF MarkFailure, Inside, InBody, Places, world
  <2>4. stored' >= stored
    BY <1>0, <1>7 DEF MarkFailure, RowTyped
  <2>5. run'[r].pc \in {"settling", "writing", "leaving"} => stored' >= run[r].since
    BY <1>0, <1>7, GotoMoves DEF MarkFailure, InBody, Places, PulledAll
  <2>6. run'[r].pc \in {"pulling", "settling", "writing"} => run'[r].count = completed'
    BY <1>0, <1>7, GotoMoves DEF MarkFailure, InBody, Places, CountCurrent, item
  <2>7. QED
    BY <1>0, <2>1, <2>2, <2>3, <2>4, <2>5, <2>6, InsideKeeps
<1>8. CASE FlagReads(r)
  <2>1. RowTyped'
    BY <1>0, <1>8 DEF FlagReads, RowTyped, item, world, Fault, Markers, NoMarker
  <2>2. Moves(r) /\ run'[r].since = run[r].since
    BY <1>0, <1>8, GotoMoves DEF FlagReads, InBody, Places
  <2>3. Inside(r) /\ Inside(r)' /\ lock' = lock /\ available' = available
    BY <1>0, <1>8, GotoMoves DEF FlagReads, Inside, InBody, Places, world
  <2>4. stored' >= stored
    BY <1>0, <1>8 DEF FlagReads, RowTyped
  <2>5. run'[r].pc \in {"settling", "writing", "leaving"} => stored' >= run[r].since
    BY <1>0, <1>8, GotoMoves DEF FlagReads, InBody, Places, PulledAll
  <2>6. run'[r].pc \in {"pulling", "settling", "writing"} => run'[r].count = completed'
    BY <1>0, <1>8, GotoMoves DEF FlagReads, InBody, Places, CountCurrent, item
  <2>7. QED
    BY <1>0, <2>1, <2>2, <2>3, <2>4, <2>5, <2>6, InsideKeeps
<1>9. CASE FlagWrites(r)
  <2>1. RowTyped'
    BY <1>0, <1>9 DEF FlagWrites, RowTyped, item, world, Fault, Markers, NoMarker
  <2>2. Moves(r) /\ run'[r].since = run[r].since
    BY <1>0, <1>9, GotoMoves DEF FlagWrites, InBody, Places
  <2>3. Inside(r) /\ Inside(r)' /\ lock' = lock /\ available' = available
    BY <1>0, <1>9, GotoMoves DEF FlagWrites, Inside, InBody, Places, world
  <2>4. stored' >= stored
    BY <1>0, <1>9 DEF FlagWrites, RowTyped
  <2>5. run'[r].pc \in {"settling", "writing", "leaving"} => stored' >= run[r].since
    BY <1>0, <1>9, GotoMoves DEF FlagWrites, InBody, Places, PulledAll
  <2>6. run'[r].pc \in {"pulling", "settling", "writing"} => run'[r].count = completed'
    BY <1>0, <1>9, GotoMoves DEF FlagWrites, InBody, Places, CountCurrent, item
  <2>7. QED
    BY <1>0, <2>1, <2>2, <2>3, <2>4, <2>5, <2>6, InsideKeeps
<1>10. CASE MarkingFails(r)
  <2>1. RowTyped'
    BY <1>0, <1>10 DEF MarkingFails, RowTyped, item, world, Fault, Markers, NoMarker
  <2>2. Moves(r) /\ run'[r].since = run[r].since
    BY <1>0, <1>10, GotoMoves DEF MarkingFails, InBody, Places
  <2>3. Inside(r) /\ Inside(r)' /\ lock' = lock /\ available' = available
    BY <1>0, <1>10, GotoMoves DEF MarkingFails, Inside, InBody, Places, world
  <2>4. stored' >= stored
    BY <1>0, <1>10 DEF MarkingFails, RowTyped
  <2>5. run'[r].pc \in {"settling", "writing", "leaving"} => stored' >= run[r].since
    BY <1>0, <1>10, GotoMoves DEF MarkingFails, InBody, Places, PulledAll
  <2>6. run'[r].pc \in {"pulling", "settling", "writing"} => run'[r].count = completed'
    BY <1>0, <1>10, GotoMoves DEF MarkingFails, InBody, Places, CountCurrent, item
  <2>7. QED
    BY <1>0, <2>1, <2>2, <2>3, <2>4, <2>5, <2>6, InsideKeeps
<1>11. QED
  BY <1>1, <1>2, <1>3, <1>4, <1>5, <1>6, <1>7, <1>8, <1>9, <1>10

-----------------------------------------------------------------------------
\* The claim: nobody is inside, and nothing has been read or pulled yet.
LEMMA ClaimStep ==
    ASSUME IInv, NEW r \in Runs, ClaimWins(r)
    PROVE  IInv'
<1> USE BoundsAssumption DEF BoundsAssumption
<1>1. RunsTyped /\ RowTyped
  BY TypeParts DEF IInv
<1>2. RowTyped'
  BY <1>1 DEF ClaimWins, RowTyped, item, world
<1>3. Moves(r) /\ run'[r].pc = "reading" /\ run'[r].since = available
  <2> DEFINE moved == [run EXCEPT ![r].pc = "reading"]
  <2>1. moved \in [Runs -> RunType]
    BY <1>1 DEF RunsTyped, RunType, InBody
  <2>2. run' = [moved EXCEPT ![r].since = available]
    BY DEF ClaimWins
  <2>3. moved[r].pc = "reading" /\ \A s \in Runs \ {r} : moved[s] = run[s]
    BY <1>1 DEF RunsTyped, RunType
  <2> HIDE DEF moved
  <2>4. RunsTyped'
    BY <1>1, <2>1, <2>2 DEF RunsTyped, RunType, RowTyped
  <2>5. QED
    BY <2>1, <2>2, <2>3, <2>4 DEF RunType, Moves
<1>4. Inside(r)' /\ lock' = "held" /\ lock # "held"
  BY <1>3 DEF ClaimWins, Inside, InBody
<1>5. available' = available /\ stored' = stored /\ completed' = completed
      /\ available \in Nat /\ stored \in Nat
  BY <1>1 DEF ClaimWins, item, world, RowTyped
<1>6. QED
  BY <1>1, <1>2, <1>3, <1>4, <1>5, OneRunSteps

\* A step of the provider, of time or of a writer without the lock touches no
\* run: it takes nothing back, and neither takes nor ends a live lease.
LEMMA OtherSteps ==
    ASSUME IInv,
           \/ LeaseExpires \/ MarkerAges \/ BackoffEnds \/ NewData
           \/ \E d \in {"webhook", "connect"} : DropDelivery(d)
           \/ Unlocked \/ UNCHANGED vars
    PROVE  IInv'
<1> USE BoundsAssumption DEF BoundsAssumption
<1>1. RunsTyped /\ RowTyped /\ LockFollows /\ OneInside /\ CountCurrent /\ PulledAll
  BY TypeParts DEF IInv
<1>2. run' = run /\ stored' = stored /\ completed' = completed
  BY DEF LeaseExpires, MarkerAges, BackoffEnds, NewData, DropDelivery, Unlocked,
         DisconnectRemoves, DisconnectRevokes, DisconnectScrubs, RelinkUpserts,
         RelinkReactivates, item, vars
<1>3. available' >= available /\ (lock' = "held" <=> lock = "held")
  BY <1>1 DEF LeaseExpires, MarkerAges, BackoffEnds, NewData, DropDelivery, Unlocked,
         DisconnectRemoves, DisconnectRevokes, DisconnectScrubs, RelinkUpserts,
         RelinkReactivates, world, vars, RowTyped
<1>4. RowTyped'
  <2> USE <1>1 DEF RowTyped, item, world
  <2>1. CASE LeaseExpires
    BY <2>1 DEF LeaseExpires
  <2>2. CASE MarkerAges
    BY <2>2 DEF MarkerAges, Markers
  <2>3. CASE BackoffEnds
    BY <2>3 DEF BackoffEnds
  <2>4. CASE NewData
    BY <2>4 DEF NewData
  <2>5. CASE \E d \in {"webhook", "connect"} : DropDelivery(d)
    BY <2>5 DEF DropDelivery
  <2>6. CASE DisconnectRemoves
    <3>1. removed' \in BOOLEAN
      BY <2>6, Zenon DEF DisconnectRemoves
    <3>2. pending' \subseteq {"webhook", "connect", "disconnect", "scrub", "relink"}
      BY <2>6 DEF DisconnectRemoves
    <3>3. changes' \in 0..MaxChanges
      BY <2>6 DEF DisconnectRemoves, Change
    <3>4. QED
      BY <2>6, <3>1, <3>2, <3>3, Zenon DEF DisconnectRemoves
  <2>7. CASE DisconnectRevokes
    BY <2>7 DEF DisconnectRevokes
  <2>8. CASE DisconnectScrubs
    BY <2>8 DEF DisconnectScrubs
  <2>9. CASE RelinkUpserts
    <3>1. removed' \in BOOLEAN /\ marker' \in Markers
      BY <2>9, Zenon DEF RelinkUpserts, Markers
    <3>2. QED
      BY <2>9, <3>1 DEF RelinkUpserts, Change
  <2>10. CASE RelinkReactivates
    BY <2>10 DEF RelinkReactivates
  <2>11. CASE UNCHANGED vars
    BY <2>11 DEF vars
  <2>12. QED
    BY <2>1, <2>2, <2>3, <2>4, <2>5, <2>6, <2>7, <2>8, <2>9, <2>10, <2>11 DEF Unlocked
<1>5. RunsTyped' /\ LockFollows' /\ OneInside' /\ CountCurrent'
  BY <1>1, <1>2, <1>3 DEF RunsTyped, LockFollows, OneInside, CountCurrent, Inside
<1>6. PulledAll'
  <2>1. \A r \in Runs : run[r].since \in Nat
    BY <1>1 DEF RunsTyped, RunType
  <2>2. available \in Nat /\ available' \in Nat
    BY <1>1, <1>4 DEF RowTyped
  <2>3. QED
    BY <1>1, <1>2, <1>3, <2>1, <2>2 DEF PulledAll
<1>7. TypeOK'
  BY <1>4, <1>5 DEF TypeOK, RowTyped, RunsTyped, LockFollows
<1>8. QED
  BY <1>5, <1>6, <1>7 DEF IInv

LEMMA NextIInv == IInv /\ [Next]_vars => IInv'
<1> SUFFICES ASSUME IInv, [Next]_vars PROVE IInv'
  OBVIOUS
<1>1. ASSUME NEW r \in Runs, Trigger(r) \/ Resume(r) \/ Sweep(r) \/ Proceed(r)
      PROVE  IInv'
  BY <1>1, StartingSteps, OutsideSteps, InsideSteps, ClaimStep DEF Proceed
<1>2. QED
  BY <1>1, OtherSteps DEF Next

LEMMA IInvHolds == Spec => []IInv
BY InitIInv, NextIInv, PTL DEF Spec

-----------------------------------------------------------------------------
\* Type correctness: in particular the row's lock is taken exactly while a live
\* run is between its claim and its release.
THEOREM TypeCorrect == Spec => []TypeOK
<1>1. IInv => TypeOK
  BY DEF IInv
<1>2. QED
  BY <1>1, IInvHolds, PTL

\* A completed loop is never uncounted: the count is written from a value read
\* before the pages, and no other run can have counted in between.
THEOREM CountNeverGoesBack == Spec => CompletedNeverDecreases
<1>1. IInv /\ [Next]_vars => [completed' >= completed]_vars
  <2> SUFFICES ASSUME IInv, Next PROVE completed' >= completed
    BY DEF vars
  <2>1. completed \in 0..2
    BY DEF IInv, TypeOK
  <2>2. ASSUME NEW r \in Runs, SettleWrites(r) PROVE completed' >= completed
    <3>1. run[r].count = completed
      BY <2>2 DEF IInv, CountCurrent, SettleWrites
    <3>2. QED
      BY <2>1, <2>2, <3>1 DEF SettleWrites
  <2>3. (\A r \in Runs : ~SettleWrites(r)) => completed' = completed
    BY ZenonT(40) DEF Next, Trigger, Proceed, Unlocked, Webhook, Connect, ClientResume, ReportBroken,
           Resume, Sweep, Rearm, ClaimWins, ClaimLoses, StampIncomplete, ReadItem, Pull,
           PullFails, BodyFails, SettleReads, MarkFailure, FlagReads, FlagWrites,
           MarkingFails, Release, ReleaseFails, AttemptReads, AttemptWrites, ReportReads, ReportWrites,
           Kill, LeaseExpires, MarkerAges, BackoffEnds, NewData, DropDelivery,
           DisconnectRemoves, DisconnectRevokes, DisconnectScrubs, RelinkUpserts,
           RelinkReactivates, item
  <2>4. QED
    BY <2>1, <2>2, <2>3
<1>2. QED
  BY <1>1, IInvHolds, PTL DEF Spec, CompletedNeverDecreases

\* The marker comes off only by a run that holds the lock and has stored
\* everything the provider had when it took it.
THEOREM MarkerClearedByCompletedLoop == Spec => ClearedByCompletedLoop
<1> DEFINE Cleared == marker # NoMarker /\ marker' = NoMarker
           ByLoop  == \E r \in Runs : Inside(r) /\ stored >= run[r].since
                                      /\ run[r].pc \in {"writing", "leaving"}
<1>1. IInv /\ [Next]_vars => [Cleared => ByLoop]_vars
  <2> SUFFICES ASSUME IInv, Next, Cleared PROVE ByLoop
    BY DEF vars
  <2>1. \E r \in Runs : SettleWrites(r) \/ (Release(r) /\ run[r].pc = "leaving")
    BY ZenonT(40) DEF Next, Trigger, Proceed, Unlocked, Webhook, Connect, ClientResume, ReportBroken,
           Resume, Sweep, Rearm, ClaimWins, ClaimLoses, StampIncomplete, ReadItem, Pull,
           PullFails, BodyFails, SettleReads, MarkFailure, FlagReads, FlagWrites,
           MarkingFails, Release, ReleaseFails, AttemptReads, AttemptWrites, ReportReads, ReportWrites,
           Kill, LeaseExpires, MarkerAges, BackoffEnds, NewData, DropDelivery,
           DisconnectRemoves, DisconnectRevokes, DisconnectScrubs, RelinkUpserts,
           RelinkReactivates, item, NoMarker
  <2>2. PICK r \in Runs : SettleWrites(r) \/ (Release(r) /\ run[r].pc = "leaving")
    BY <2>1
  <2>3. run[r].pc \in {"writing", "leaving"}
    BY <2>2 DEF SettleWrites
  <2>4. Inside(r) /\ stored >= run[r].since
    BY <2>3 DEF IInv, PulledAll, Inside, InBody
  <2>5. QED
    BY <2>3, <2>4
<1>2. QED
  BY <1>1, IInvHolds, PTL DEF Spec, ClearedByCompletedLoop

-----------------------------------------------------------------------------
(* The item's lock as the abstract mutual exclusion *)

\* The runs between their claim and their release.
RunsInside == {r \in Runs : Inside(r)}

M == INSTANCE SyncMutex WITH Runs <- Runs, holder <- RunsInside

\* A run that moves otherwise than by a claim has been inside before, or is not
\* inside now.
LEMMA MovedNotIn ==
    ASSUME NEW r \in Runs, Moves(r), Inside(r) \/ ~Inside(r)'
    PROVE  RunsInside' \subseteq RunsInside
BY DEF Moves, RunsInside, Inside

LEMMA StartsOutside ==
    ASSUME RunsTyped, NEW r \in Runs, Trigger(r) \/ Resume(r) \/ Sweep(r)
    PROVE  Moves(r) /\ ~Inside(r)'
<1>1. PICK k \in Kinds, p \in {"claiming", "rearming", "reported"} : Start(r, k, p)
  BY DEF Trigger, Webhook, Connect, ClientResume, ReportBroken, Resume, Sweep, Kinds
<1>2. Moves(r) /\ run'[r].pc = p
  BY <1>1, StartMoves DEF Places
<1>3. QED
  BY <1>2 DEF Inside, InBody

LEMMA StaysOutside ==
    ASSUME RunsTyped, NEW r \in Runs,
           \/ Rearm(r) \/ ClaimLoses(r) \/ StampIncomplete(r) \/ AttemptReads(r)
           \/ AttemptWrites(r)
           \/ ReportReads(r) \/ ReportWrites(r)
           \/ Release(r) \/ ReleaseFails(r) \/ Kill(r)
    PROVE  Moves(r) /\ ~Inside(r)'
<1>1. \/ Finish(r) \/ AfterRelease(r)
      \/ \E p \in {"claiming", "stamping", "recorded", "reported"} : Goto(r, p)
  BY DEF Rearm, ClaimLoses, StampIncomplete, AttemptReads, AttemptWrites, ReportReads, ReportWrites,
         Release, ReleaseFails, Kill
<1>2. CASE Finish(r)
  BY <1>2, FinishMoves DEF Inside, InBody
<1>3. CASE AfterRelease(r)
  BY <1>3, AfterReleaseMoves
<1>4. ASSUME NEW p \in {"claiming", "stamping", "recorded", "reported"}, Goto(r, p)
      PROVE  Moves(r) /\ ~Inside(r)'
  BY <1>4, GotoMoves DEF Places, Inside, InBody
<1>5. QED
  BY <1>1, <1>2, <1>3, <1>4

LEMMA WasInside ==
    ASSUME RunsTyped, RowTyped, NEW r \in Runs,
           \/ ReadItem(r) \/ Pull(r) \/ PullFails(r) \/ BodyFails(r)
           \/ SettleReads(r) \/ SettleWrites(r)
           \/ MarkFailure(r) \/ FlagReads(r) \/ FlagWrites(r) \/ MarkingFails(r)
    PROVE  Moves(r) /\ Inside(r)
<1>1. Inside(r)
  BY DEF ReadItem, Pull, PullFails, BodyFails, SettleReads, SettleWrites, MarkFailure,
         FlagReads, FlagWrites, MarkingFails, Inside, InBody
<1>2. CASE ReadItem(r)
  BY <1>1, <1>2, ReadMoves
<1>3. CASE ~ReadItem(r)
  <2>1. \E p \in Places : Goto(r, p) \/ Leave(r, p)
    BY <1>3 DEF Pull, PullFails, BodyFails, SettleReads, SettleWrites, MarkFailure,
       FlagReads, FlagWrites, MarkingFails, Failing, Places, InBody
  <2>2. ASSUME NEW p \in Places, Goto(r, p) \/ Leave(r, p) PROVE Moves(r)
    BY <2>2, GotoMoves, LeaveMoves
  <2>3. QED
    BY <1>1, <2>1, <2>2
<1>4. QED
  BY <1>1, <1>2, <1>3

\* Nobody gets inside but by a claim, which finds nobody there.
LEMMA StepRefines == IInv /\ IInv' /\ [Next]_vars => [M!Next]_RunsInside
<1> SUFFICES ASSUME IInv, IInv', [Next]_vars, RunsInside' # RunsInside
             PROVE  M!Next
  OBVIOUS
<1>1. RunsTyped /\ RowTyped /\ LockFollows /\ OneInside /\ OneInside'
  BY TypeParts DEF IInv
<1>2. ASSUME NEW r \in Runs, ClaimWins(r) PROVE M!Next
  <2>1. RunsInside = {}
    BY <1>1, <1>2 DEF ClaimWins, LockFollows, RunsInside
  <2>2. PICK s \in RunsInside' : TRUE
    BY <2>1
  <2>3. RunsInside' = {s} /\ s \in Runs
    BY <1>1, <2>2 DEF RunsInside, OneInside
  <2>4. QED
    BY <2>1, <2>3 DEF M!Next, M!Enter
<1>3. CASE \A r \in Runs : ~ClaimWins(r)
  <2>1. RunsInside' \subseteq RunsInside
    <3>1. ASSUME NEW r \in Runs, Trigger(r) \/ Resume(r) \/ Sweep(r) \/ Proceed(r)
          PROVE  RunsInside' \subseteq RunsInside
      <4>1. Moves(r) /\ (Inside(r) \/ ~Inside(r)')
        BY <1>1, <1>3, <3>1, StartsOutside, StaysOutside, WasInside DEF Proceed
      <4>2. QED
        BY <4>1, MovedNotIn
    <3>2. CASE run' = run
      BY <3>2 DEF RunsInside, Inside
    <3>3. QED
      BY <3>1, <3>2 DEF Next, LeaseExpires, MarkerAges, BackoffEnds, NewData, DropDelivery,
         Unlocked, DisconnectRemoves, DisconnectRevokes, DisconnectScrubs, RelinkUpserts,
         RelinkReactivates, vars
  <2>2. PICK r \in RunsInside : TRUE
    BY <2>1
  <2>3. RunsInside = {r} /\ r \in Runs
    BY <1>1, <2>2 DEF RunsInside, OneInside
  <2>4. RunsInside' = {}
    BY <2>1, <2>3
  <2>5. QED
    BY <2>3, <2>4 DEF M!Next, M!Leave
<1>4. QED
  BY <1>2, <1>3

\* The item's lock implements the mutual exclusion, under the mapping that
\* BudgetImplementsMutex has for the lock with its clock: what the lock does is
\* what this module takes it for (sync-lock.ts:124, 152, 165).
THEOREM ImplementsSyncMutex == Spec => M!Spec
<1>1. Init => M!Init
  BY DEF Init, M!Init, RunsInside, Inside, InBody, Idle
<1>2. QED
  BY <1>1, StepRefines, IInvHolds, PTL DEF Spec, M!Spec

=============================================================================
