-------------------------- MODULE AccountPurgeProofs --------------------------
(***************************************************************************)
(* What the purge guarantees for any number of workers, items, outages,    *)
(* faults and changes of mind.                                             *)
(*                                                                         *)
(* Exclusion is the claim's: whoever is at work on the user holds a claim  *)
(* that is not stale.  The budget then rests on it: a worker whose clock   *)
(* is of yesterday finds no failure recorded today, because it would have  *)
(* had to be recorded by somebody else.  That nothing is lost without a    *)
(* record rests on what a worker knows at each step of the items that are  *)
(* still alive.                                                            *)
(***************************************************************************)
EXTENDS AccountPurge, PlaidRemovalProofs

-----------------------------------------------------------------------------
(* The invariant *)

Steady(r) == {"pc", "late", "todo", "readable", "failed", "skipped"} \subseteq DOMAIN r

WorkersShape ==
    /\ purge = [p \in Purgers |-> purge[p]]
    /\ \A p \in Purgers : Steady(purge[p])

\* Whoever is at work holds the claim, and the claim is not stale.
ClaimHeld == \A p \in Purgers : Working(p) => claim = p /\ ~stale

DaysTyped ==
    /\ older \in 0..MAX_DAYS
    /\ yesterday \in BOOLEAN /\ today \in BOOLEAN /\ straddled \in BOOLEAN

\* A worker that has not yet recorded a failure.
Unrecorded(p) ==
    purge[p].pc \in {"items", "loop", "confirmed", "hold", "terminal"}

\* A worker that saw midnight since its claim finds no failure of today.
NothingToday ==
    \A p \in Purgers : Unrecorded(p) /\ purge[p].late /\ ~straddled => today = FALSE

\* A worker that gives up does so on the last day of the budget, which counts
\* once its failures are recorded.
LastDay ==
    \A p \in Purgers :
        /\ PurgeAt(p, "terminal") => older + One(yesterday) + 1 >= Budget
        /\ PurgeAt(p, "report") => FailureDays >= Budget

\* Nothing is given up before.
GivenUpInTime == reported # {} => FailureDays >= Budget

DaysInv == DaysTyped /\ NothingToday /\ LastDay /\ GivenUpInTime

\* Where an item that is alive may be, by how far a worker has come.
Answers(r, i) ==
    /\ r.pc = "loop" => i \in r.todo \cup r.failed \cup r.skipped
    /\ r.pc = "confirmed" => i \in (r.todo \ {OneOf(r.todo)}) \cup r.failed \cup r.skipped
    /\ r.pc \in {"terminal", "report"} => i \in r.failed \cup r.skipped
    /\ r.pc \in {"giveup", "tail"} => i \in reported \cup r.skipped

Accounted == \A p \in Purgers, i \in Items : item[i].live => Answers(purge[p], i)

RecordInv == Accounted /\ DeletedOnRecord

PurgeInv == CredentialInv /\ WorkersShape /\ ClaimHeld /\ DaysInv /\ RecordInv

-----------------------------------------------------------------------------
(* Workers *)

\* The fields of a worker that moves on.
LEMMA Moved ==
    ASSUME NEW r, Steady(r), NEW x
    PROVE  /\ Steady([r EXCEPT !.pc = x])
           /\ [r EXCEPT !.pc = x].pc = x /\ [r EXCEPT !.pc = x].late = r.late
           /\ [r EXCEPT !.pc = x].todo = r.todo /\ [r EXCEPT !.pc = x].failed = r.failed
           /\ [r EXCEPT !.pc = x].skipped = r.skipped
BY DEF Steady

\* Of one that is done with an item.
LEMMA Nexted ==
    ASSUME NEW p, Steady(purge[p])
    PROVE  /\ Steady(PurgeNext(p)) /\ PurgeNext(p).pc = "loop"
           /\ PurgeNext(p).late = purge[p].late
           /\ PurgeNext(p).todo = purge[p].todo \ {Item(p)}
           /\ PurgeNext(p).failed = purge[p].failed /\ PurgeNext(p).skipped = purge[p].skipped
BY DEF Steady, PurgeNext

\* Of one that was refused one.
LEMMA Refused ==
    ASSUME NEW r, Steady(r), NEW i, NEW q, q = [r EXCEPT !.failed = @ \cup {i}]
    PROVE  /\ Steady(q) /\ q.pc = r.pc /\ q.late = r.late
           /\ q.todo = r.todo /\ q.failed = r.failed \cup {i} /\ q.skipped = r.skipped
BY DEF Steady

\* Of one that has nothing to do.
LEMMA IdleFields ==
    /\ Steady(NoPurge) /\ NoPurge.pc = "idle" /\ NoPurge.late = FALSE
BY DEF Steady, NoPurge

\* A worker may be overwritten.
LEMMA WorkerWritten ==
    ASSUME WorkersShape, NEW p \in Purgers, NEW r, Steady(r), purge' = [purge EXCEPT ![p] = r]
    PROVE  WorkersShape' /\ purge'[p] = r /\ \A q \in Purgers \ {p} : purge'[q] = purge[q]
BY DEF WorkersShape, Steady

\* A worker that goes on and leaves all but the items as they are.
LEMMA WorkerGoesOn ==
    ASSUME PurgeInv, Kept, NEW p \in Purgers, NEW r, Steady(r), purge' = [purge EXCEPT ![p] = r],
           UNCHANGED <<deletion, claim, stale, older, yesterday, today, reported, straddled, unasked>>,
           Working(p) \/ r.pc \in {"idle", "claim"},
           r.pc \in {"items", "loop", "confirmed", "hold", "terminal"} =>
               Unrecorded(p) /\ r.late = purge[p].late,
           r.pc = "terminal" => older + One(yesterday) + 1 >= Budget,
           r.pc # "report",
           \A i \in Items : item'[i].live => Answers(r, i)
    PROVE  PurgeInv'
<1>1. WorkersShape' /\ purge'[p] = r /\ \A q \in Purgers \ {p} : purge'[q] = purge[q]
  BY WorkerWritten DEF PurgeInv
<1>2. ClaimHeld'
  BY <1>1 DEF PurgeInv, ClaimHeld, Working
<1>3. DaysInv'
  <2>1. DaysTyped' /\ GivenUpInTime'
    BY DEF PurgeInv, DaysInv, DaysTyped, GivenUpInTime, FailureDays, Budget
  <2>2. NothingToday'
    BY <1>1 DEF PurgeInv, DaysInv, NothingToday, Unrecorded
  <2>3. LastDay'
    BY <1>1 DEF PurgeInv, DaysInv, LastDay, PurgeAt, FailureDays, Budget
  <2>4. QED
    BY <2>1, <2>2, <2>3 DEF DaysInv
<1>4. RecordInv'
  <2>1. Accounted'
    BY <1>1 DEF PurgeInv, RecordInv, Accounted, Answers, Kept, LiveFalls
  <2>2. DeletedOnRecord'
    BY DEF PurgeInv, RecordInv, DeletedOnRecord, Kept, LiveFalls
  <2>3. QED
    BY <2>1, <2>2 DEF RecordInv
<1>5. QED
  BY <1>1, <1>2, <1>3, <1>4 DEF PurgeInv, Kept

\* A purge touches an item only in ways the credential survives.
LEMMA ItemTouched ==
    ASSUME CredentialInv, call' = call, NEW i,
           item' = item \/ item' = [item EXCEPT ![i].live = FALSE] \/ item' = Revoked(i)
    PROVE  Kept
<1>1. "REVOKED" \in Statuses
  BY DEF Statuses
<1>2. ItemsKept
  <2>1. CASE item' = item
    BY <2>1, ItemsAlone
  <2>2. CASE item' = [item EXCEPT ![i].live = FALSE]
    BY <1>1, <2>2, ItemFields
  <2>3. CASE item' = Revoked(i)
    <3>1. \/ item' = item
          \/ item' = [item EXCEPT ![i].status = "REVOKED"] /\ item[i].status # "gone"
      BY <2>3 DEF Revoked
    <3>2. QED
      BY <1>1, <3>1, ItemsAlone, ItemFields
  <2>4. QED
    BY <2>1, <2>2, <2>3
<1>3. QED
  BY <1>2, CallsAlone

-----------------------------------------------------------------------------
(* The steps of a worker that change nothing but itself and an item *)

\* Starting, and finding the user claimed.
LEMMA BeginKeeps ==
    ASSUME PurgeInv, NEW p \in Purgers, Begin(p) \/ ClaimRefused(p) \/ Abandon(p) \/ PurgeDies(p)
    PROVE  PurgeInv'
<1>1. Steady(purge[p])
  BY DEF PurgeInv, WorkersShape
<1> DEFINE q == [purge[p] EXCEPT !.pc = "claim"]
<1>2. purge' = [purge EXCEPT ![p] = NoPurge] \/ purge' = [purge EXCEPT ![p] = q]
  BY DEF Begin, ClaimRefused, Abandon, PurgeDies, PurgeOver, PurgeGoto
<1>3. Steady(q) /\ q.pc = "claim"
  BY <1>1, Moved
<1>4. Steady(NoPurge) /\ NoPurge.pc = "idle"
  BY IdleFields
<1>5. Kept
  <2>1. item' = item /\ call' = call
    BY DEF Begin, ClaimRefused, Abandon, PurgeDies, removalVars
  <2>2. QED
    BY <2>1, ItemTouched DEF PurgeInv
<1>6. UNCHANGED <<deletion, claim, stale, older, yesterday, today, reported, straddled, unasked>>
  BY DEF Begin, ClaimRefused, Abandon, PurgeDies
<1> HIDE DEF q
<1>7. \A i : Answers(NoPurge, i) /\ Answers(q, i)
  BY <1>3, <1>4 DEF Answers
<1>8. QED
  BY <1>2, <1>3, <1>4, <1>5, <1>6, <1>7, WorkerGoesOn

\* Reading the ACTIVE items: what is not among them is skipped.
LEMMA ReadActiveKeeps == ASSUME PurgeInv, NEW p \in Purgers, ReadActive(p) PROVE PurgeInv'
<1> DEFINE active == {i \in Items : item[i].status = "ACTIVE"}
           readable == {i \in active : item[i].token}
           rest == Items \ active
           q == [purge[p] EXCEPT !.pc = "loop", !.todo = active, !.readable = readable,
                                 !.skipped = rest]
<1>1. Steady(purge[p])
  BY DEF PurgeInv, WorkersShape
<1>2. purge' = [purge EXCEPT ![p] = q] /\ Items \subseteq active \cup rest
  BY DEF ReadActive
<1> HIDE DEF active, readable, rest
<1>3. Steady(q) /\ q.pc = "loop" /\ q.late = purge[p].late /\ q.todo = active /\ q.skipped = rest
  BY <1>1 DEF Steady
<1>4. Kept
  <2>1. item' = item /\ call' = call
    BY DEF ReadActive, removalVars
  <2>2. QED
    BY <2>1, ItemTouched DEF PurgeInv
<1>5. UNCHANGED <<deletion, claim, stale, older, yesterday, today, reported, straddled, unasked>>
  BY DEF ReadActive
<1>6. Working(p) /\ Unrecorded(p)
  BY DEF ReadActive, PurgeAt, Working, Unrecorded
<1> HIDE DEF q
<1>7. \A i \in Items : Answers(q, i)
  BY <1>2, <1>3 DEF Answers
<1>8. QED
  BY <1>2, <1>3, <1>4, <1>5, <1>6, <1>7, WorkerGoesOn

\* Plaid confirms: the item is no longer alive, and may leave the list.
LEMMA PurgeRemovesKeeps == ASSUME PurgeInv, NEW p \in Purgers, PurgeRemoves(p) PROVE PurgeInv'
<1> DEFINE q == [purge[p] EXCEPT !.pc = "confirmed"]
<1>1. Steady(purge[p]) /\ PurgeAt(p, "loop")
  BY DEF PurgeInv, WorkersShape, PurgeRemoves
<1>2. purge' = [purge EXCEPT ![p] = q]
  BY DEF PurgeRemoves, PurgeGoto
<1>3. /\ Steady(q) /\ q.pc = "confirmed" /\ q.late = purge[p].late
      /\ q.todo = purge[p].todo /\ q.failed = purge[p].failed /\ q.skipped = purge[p].skipped
  BY <1>1, Moved
<1>4. Kept
  <2>1. item' = [item EXCEPT ![Item(p)].live = FALSE] /\ call' = call
    BY DEF PurgeRemoves
  <2>2. QED
    BY <2>1, ItemTouched DEF PurgeInv
<1>5. UNCHANGED <<deletion, claim, stale, older, yesterday, today, reported, straddled, unasked>>
  BY DEF PurgeRemoves
<1>6. Working(p) /\ Unrecorded(p)
  BY <1>1 DEF PurgeAt, Working, Unrecorded
<1>7. Item(p) \in Items => ~item'[Item(p)].live
  BY DEF PurgeRemoves, PurgeInv, CredentialInv, ItemTyped, Rows
<1> HIDE DEF q
<1>8. ASSUME NEW i \in Items, item'[i].live PROVE Answers(q, i)
  <2>1. i # Item(p) /\ Answers(purge[p], i)
    BY <1>4, <1>7, <1>8 DEF PurgeInv, RecordInv, Accounted, Kept, LiveFalls
  <2>2. QED
    BY <1>1, <1>3, <2>1 DEF Answers, Item, PurgeAt
<1>9. QED
  BY <1>2, <1>3, <1>4, <1>5, <1>6, <1>8, WorkerGoesOn

\* It does not: the item is among the failed.
LEMMA PurgeRefusedKeeps == ASSUME PurgeInv, NEW p \in Purgers, PurgeRefused(p) PROVE PurgeInv'
<1> DEFINE n == PurgeNext(p)
           q == [n EXCEPT !.failed = @ \cup {Item(p)}]
<1>1. Steady(purge[p]) /\ PurgeAt(p, "loop")
  BY DEF PurgeInv, WorkersShape, PurgeRefused
<1>2. purge' = [purge EXCEPT ![p] = q]
  BY DEF PurgeRefused
<1>3. /\ Steady(n) /\ n.pc = "loop" /\ n.late = purge[p].late
      /\ n.todo = purge[p].todo \ {Item(p)}
      /\ n.failed = purge[p].failed /\ n.skipped = purge[p].skipped
  BY <1>1, Nexted
<1> HIDE DEF n
<1>4. /\ Steady(q) /\ q.pc = "loop" /\ q.late = purge[p].late
      /\ q.todo = purge[p].todo \ {Item(p)}
      /\ q.failed = purge[p].failed \cup {Item(p)} /\ q.skipped = purge[p].skipped
  BY <1>3, Refused
<1>5. Kept
  <2>1. (item' = item \/ item' = [item EXCEPT ![Item(p)].live = FALSE]) /\ call' = call
    BY DEF PurgeRefused
  <2>2. QED
    BY <2>1, ItemTouched DEF PurgeInv
<1>6. UNCHANGED <<deletion, claim, stale, older, yesterday, today, reported, straddled, unasked>>
  BY DEF PurgeRefused
<1>7. Working(p) /\ Unrecorded(p)
  BY <1>1 DEF PurgeAt, Working, Unrecorded
<1> HIDE DEF q
<1>8. ASSUME NEW i \in Items, item'[i].live PROVE Answers(q, i)
  <2>1. Answers(purge[p], i)
    BY <1>5, <1>8 DEF PurgeInv, RecordInv, Accounted, Kept, LiveFalls
  <2>2. QED
    BY <1>1, <1>4, <2>1 DEF Answers, PurgeAt
<1>9. QED
  BY <1>2, <1>4, <1>5, <1>6, <1>7, <1>8, WorkerGoesOn

\* The row of a removed item is written, or not.
LEMMA PurgeRevokesKeeps == ASSUME PurgeInv, NEW p \in Purgers, PurgeRevokes(p) PROVE PurgeInv'
<1> DEFINE q == PurgeNext(p)
<1>1. Steady(purge[p]) /\ PurgeAt(p, "confirmed")
  BY DEF PurgeInv, WorkersShape, PurgeRevokes
<1>2. purge' = [purge EXCEPT ![p] = q]
  BY DEF PurgeRevokes
<1>3. /\ Steady(q) /\ q.pc = "loop" /\ q.late = purge[p].late
      /\ q.todo = purge[p].todo \ {Item(p)}
      /\ q.failed = purge[p].failed /\ q.skipped = purge[p].skipped
  BY <1>1, Nexted
<1>4. Kept
  <2>1. (item' = item \/ item' = Revoked(Item(p))) /\ call' = call
    BY DEF PurgeRevokes
  <2>2. QED
    BY <2>1, ItemTouched DEF PurgeInv
<1>5. UNCHANGED <<deletion, claim, stale, older, yesterday, today, reported, straddled, unasked>>
  BY DEF PurgeRevokes
<1>6. Working(p) /\ Unrecorded(p)
  BY <1>1 DEF PurgeAt, Working, Unrecorded
<1> HIDE DEF q
<1>7. ASSUME NEW i \in Items, item'[i].live PROVE Answers(q, i)
  <2>1. Answers(purge[p], i)
    BY <1>4, <1>7 DEF PurgeInv, RecordInv, Accounted, Kept, LiveFalls
  <2>2. QED
    BY <1>1, <1>3, <2>1 DEF Answers, PurgeAt, Item
<1>8. QED
  BY <1>2, <1>3, <1>4, <1>5, <1>6, <1>7, WorkerGoesOn

\* A worker that finds the budget used up is right, but for the day it gains
\* by a clock value from before midnight.
LEMMA LastDayReached ==
    ASSUME PurgeInv, NEW p \in Purgers, PurgeAt(p, "loop"), ~(PriorDays(p) + 1 < MAX_DAYS)
    PROVE  older + One(yesterday) + 1 >= Budget
<1>1. /\ older \in Nat /\ MAX_DAYS \in Nat
      /\ yesterday \in BOOLEAN /\ today \in BOOLEAN /\ straddled \in BOOLEAN
  BY PurgeAssumption DEF PurgeInv, DaysInv, DaysTyped, PurgeAssumption
<1>2. purge[p].late /\ ~straddled => today = FALSE
  BY DEF PurgeInv, DaysInv, NothingToday, Unrecorded, PurgeAt
<1>3. One(yesterday) \in {0, 1} /\ One(today) \in {0, 1}
  BY DEF One
<1>4. CASE purge[p].late
  <2>1. PriorDays(p) = older + One(today)
    BY <1>4 DEF PriorDays
  <2>2. CASE straddled
    BY <1>1, <1>3, <2>1, <2>2 DEF Budget
  <2>3. CASE ~straddled
    <3>1. One(today) = 0
      BY <1>2, <1>4, <2>3 DEF One
    <3>2. QED
      BY <1>1, <1>3, <2>1, <2>3, <3>1 DEF Budget
  <2>4. QED
    BY <2>2, <2>3
<1>5. CASE ~purge[p].late
  <2>1. PriorDays(p) = older + One(yesterday)
    BY <1>5 DEF PriorDays
  <2>2. QED
    BY <1>1, <1>3, <2>1 DEF Budget
<1>6. QED
  BY <1>4, <1>5

\* What follows from the refusals.
LEMMA DecideKeeps == ASSUME PurgeInv, NEW p \in Purgers, Decide(p) PROVE PurgeInv'
<1> DEFINE x == IF purge[p].failed = {} THEN "tail"
                ELSE IF PriorDays(p) + 1 < MAX_DAYS THEN "hold" ELSE "terminal"
           q == [purge[p] EXCEPT !.pc = x]
<1>1. Steady(purge[p]) /\ PurgeAt(p, "loop") /\ purge[p].todo = {}
  BY DEF PurgeInv, WorkersShape, Decide
<1>2. purge' = [purge EXCEPT ![p] = q]
  BY DEF Decide, PurgeGoto
<1>3. /\ x \in {"tail", "hold", "terminal"}
      /\ x = "tail" => purge[p].failed = {}
      /\ x = "terminal" => ~(PriorDays(p) + 1 < MAX_DAYS)
  OBVIOUS
<1> HIDE DEF x
<1>4. /\ Steady(q) /\ q.pc = x /\ q.late = purge[p].late
      /\ q.todo = purge[p].todo /\ q.failed = purge[p].failed /\ q.skipped = purge[p].skipped
  BY <1>1, Moved
<1>5. Kept
  <2>1. item' = item /\ call' = call
    BY DEF Decide, removalVars
  <2>2. QED
    BY <2>1, ItemTouched DEF PurgeInv
<1>6. UNCHANGED <<deletion, claim, stale, older, yesterday, today, reported, straddled, unasked>>
  BY DEF Decide
<1>7. Working(p) /\ Unrecorded(p)
  BY <1>1 DEF PurgeAt, Working, Unrecorded
<1> HIDE DEF q
<1>8. ASSUME NEW i \in Items, item'[i].live PROVE Answers(q, i)
  <2>1. Answers(purge[p], i)
    BY <1>5, <1>8 DEF PurgeInv, RecordInv, Accounted, Kept, LiveFalls
  <2>2. QED
    BY <1>1, <1>3, <1>4, <2>1 DEF Answers, PurgeAt
<1>9. q.pc = "terminal" => older + One(yesterday) + 1 >= Budget
  BY <1>1, <1>3, <1>4, LastDayReached
<1>10. q.pc # "report"
  BY <1>3, <1>4
<1>11. QED
  BY <1>2, <1>4, <1>5, <1>6, <1>7, <1>8, <1>9, <1>10, WorkerGoesOn

\* Giving up items that are on record.
LEMMA GiveUpKeeps == ASSUME PurgeInv, NEW p \in Purgers, GiveUp(p) PROVE PurgeInv'
<1>1. Steady(purge[p]) /\ PurgeAt(p, "giveup")
  BY DEF PurgeInv, WorkersShape, GiveUp
<1>2. PICK i \in purge[p].failed :
        /\ item' = item \/ item' = Revoked(i)
        /\ purge' = [purge EXCEPT ![p] =
                        [@ EXCEPT !.pc = Rest(p, i), !.failed = purge[p].failed \ {i}]]
  BY DEF GiveUp
<1> DEFINE f == purge[p].failed \ {i}
           x == Rest(p, i)
           q == [purge[p] EXCEPT !.pc = x, !.failed = f]
<1>3. purge' = [purge EXCEPT ![p] = q] /\ x \in {"tail", "giveup"}
  BY <1>2 DEF Rest
<1> HIDE DEF f, x
<1>4. Steady(q) /\ q.pc = x /\ q.skipped = purge[p].skipped
  BY <1>1 DEF Steady
<1>5. Kept
  <2>1. call' = call
    BY DEF GiveUp
  <2>2. QED
    BY <1>2, <2>1, ItemTouched DEF PurgeInv
<1>6. UNCHANGED <<deletion, claim, stale, older, yesterday, today, reported, straddled, unasked>>
  BY DEF GiveUp
<1>7. Working(p)
  BY <1>1 DEF PurgeAt, Working
<1> HIDE DEF q
<1>8. ASSUME NEW j \in Items, item'[j].live PROVE Answers(q, j)
  <2>1. Answers(purge[p], j)
    BY <1>5, <1>8 DEF PurgeInv, RecordInv, Accounted, Kept, LiveFalls
  <2>2. QED
    BY <1>1, <1>3, <1>4, <2>1 DEF Answers, PurgeAt
<1>9. QED
  BY <1>3, <1>4, <1>5, <1>6, <1>7, <1>8, WorkerGoesOn

-----------------------------------------------------------------------------
(* The steps that touch the claim, the days or the record *)

\* While one worker is at work, or may begin, the others are not.
LEMMA Alone ==
    ASSUME PurgeInv, NEW p \in Purgers, Working(p) \/ Claimable
    PROVE  \A q \in Purgers \ {p} : ~Working(q)
BY PurgeAssumption DEF PurgeInv, ClaimHeld, Claimable, PurgeAssumption

\* A worker that is not at work owes nothing.
LEMMA NotWorking ==
    ASSUME NEW q, ~Working(q)
    PROVE  /\ ~Unrecorded(q) /\ ~PurgeAt(q, "terminal") /\ ~PurgeAt(q, "report")
           /\ \A i : Answers(purge[q], i)
BY DEF Working, Unrecorded, PurgeAt, Answers

\* Steps that leave the items and the invocations of the removal path alone.
LEMMA RemovalAlone == ASSUME PurgeInv, UNCHANGED <<item, call>> PROVE Kept
BY ItemTouched DEF PurgeInv

\* The claim: nobody is at work when it is made.
LEMMA ClaimKeeps == ASSUME PurgeInv, NEW p \in Purgers, Claim(p) PROVE PurgeInv'
<1> DEFINE r == [purge[p] EXCEPT !.pc = "items"]
<1>1. Steady(purge[p]) /\ WorkersShape
  BY DEF PurgeInv, WorkersShape
<1>2. purge' = [purge EXCEPT ![p] = r]
  BY DEF Claim, PurgeGoto
<1>3. Steady(r) /\ r.pc = "items" /\ r.late = purge[p].late
  BY <1>1, Moved
<1> HIDE DEF r
<1>4. WorkersShape' /\ purge'[p] = r /\ \A q \in Purgers \ {p} : purge'[q] = purge[q]
  BY <1>1, <1>2, <1>3, WorkerWritten
<1>5. \A q \in Purgers \ {p} : ~Working(q)
  BY Alone DEF Claim
<1>6. \A q \in Purgers \ {p} : ~Working(q)'
  BY <1>4, <1>5 DEF Working
<1>7. Kept
  BY RemovalAlone DEF Claim, removalVars
<1>8. ClaimHeld'
  BY <1>6 DEF Claim, ClaimHeld
<1>9. DaysInv'
  <2>1. DaysTyped' /\ GivenUpInTime'
    <3>1. straddled' \in BOOLEAN /\ (straddled => straddled')
      BY <1>1, <1>3 DEF PurgeInv, DaysInv, DaysTyped, Claim
    <3>2. UNCHANGED <<older, yesterday, today, reported>>
      BY DEF Claim
    <3>3. older \in Int /\ One(yesterday) \in Int /\ One(today) \in Int /\ MAX_DAYS \in Int
      BY PurgeAssumption DEF PurgeInv, DaysInv, DaysTyped, One, PurgeAssumption
    <3>4. QED
      BY <3>1, <3>2, <3>3 DEF PurgeInv, DaysInv, DaysTyped, GivenUpInTime, FailureDays, Budget
  <2>2. NothingToday'
    BY <1>3, <1>4, <1>6 DEF Claim, NothingToday, Unrecorded, Working
  <2>3. LastDay'
    BY <1>3, <1>4, <1>6 DEF LastDay, PurgeAt, Working
  <2>4. QED
    BY <2>1, <2>2, <2>3 DEF DaysInv
<1>10. RecordInv'
  <2>1. Accounted'
    BY <1>3, <1>4, <1>6 DEF Accounted, Answers, Working
  <2>2. DeletedOnRecord'
    BY <1>7 DEF Claim, PurgeInv, RecordInv, DeletedOnRecord, Kept, LiveFalls
  <2>3. QED
    BY <2>1, <2>2 DEF RecordInv
<1>11. QED
  BY <1>4, <1>7, <1>8, <1>9, <1>10 DEF PurgeInv, Kept

\* The days that the sums of the budget range over.
LEMMA DayNumbers ==
    ASSUME DaysInv
    PROVE  /\ older \in Nat /\ One(yesterday) \in {0, 1} /\ One(today) \in {0, 1}
           /\ MAX_DAYS \in Nat /\ Budget \in Int /\ One(TRUE) = 1
BY PurgeAssumption DEF DaysInv, DaysTyped, One, PurgeAssumption, Budget

\* Recording the refusals of the day.
LEMMA RecordKeeps == ASSUME PurgeInv, NEW p \in Purgers, RecordFailures(p) PROVE PurgeInv'
<1> DEFINE x == IF PurgeAt(p, "hold") THEN "release" ELSE "report"
           r == [purge[p] EXCEPT !.pc = x]
<1>1. Steady(purge[p]) /\ WorkersShape
  BY DEF PurgeInv, WorkersShape
<1>2. purge' = [purge EXCEPT ![p] = r] /\ today' = TRUE
  BY DEF RecordFailures, PurgeGoto
<1>3. /\ Steady(r) /\ r.pc = x /\ r.failed = purge[p].failed /\ r.skipped = purge[p].skipped
  BY <1>1, Moved
<1>4. x \in {"release", "report"} /\ (x = "report" => PurgeAt(p, "terminal"))
  BY DEF RecordFailures, PurgeAt
<1> HIDE DEF r, x
<1>5. WorkersShape' /\ purge'[p] = r /\ \A q \in Purgers \ {p} : purge'[q] = purge[q]
  BY <1>1, <1>2, <1>3, WorkerWritten
<1>6. Working(p) /\ \A q \in Purgers \ {p} : ~Working(q) /\ ~Working(q)'
  BY <1>5, Alone DEF RecordFailures, Working
<1>7. Kept
  BY RemovalAlone DEF RecordFailures, removalVars
<1>8. UNCHANGED <<deletion, claim, stale, older, yesterday, reported, straddled, unasked>>
  BY DEF RecordFailures
<1>9. ClaimHeld'
  BY <1>6, <1>8 DEF PurgeInv, ClaimHeld
<1>10. DaysInv'
  <2>1. DaysInv
    BY DEF PurgeInv
  <2>2. /\ DaysTyped' /\ One(today') = 1 /\ Budget' = Budget
        /\ One(yesterday') = One(yesterday) /\ older' = older
    BY <1>2, <1>8, <2>1 DEF DaysInv, DaysTyped, One, Budget
  <2>3. GivenUpInTime'
    <3>1. reported # {} => FailureDays >= Budget
      BY <2>1 DEF DaysInv, GivenUpInTime, Budget
    <3>2. FailureDays' = older + One(yesterday) + 1
      BY <2>2 DEF FailureDays
    <3>3. reported' # {} => FailureDays' >= Budget
      BY <1>8, <2>1, <3>1, <3>2, DayNumbers DEF FailureDays
    <3>4. QED
      BY <2>2, <3>3 DEF GivenUpInTime, Budget
  <2>4. NothingToday'
    BY <1>3, <1>4, <1>5, <1>6 DEF NothingToday, Unrecorded, Working
  <2>5. LastDay'
    <3>1. PurgeAt(p, "terminal") => older + One(yesterday) + 1 >= Budget
      BY <2>1 DEF DaysInv, LastDay
    <3>2. x = "report" => FailureDays' >= Budget'
      BY <1>4, <2>1, <2>2, <3>1, DayNumbers DEF FailureDays
    <3>3. QED
      BY <1>3, <1>4, <1>5, <1>6, <3>2 DEF LastDay, PurgeAt, Working
  <2>6. QED
    BY <2>2, <2>3, <2>4, <2>5 DEF DaysInv
<1>11. RecordInv'
  <2>1. ASSUME NEW i \in Items, item'[i].live
        PROVE  x = "report" => i \in purge[p].failed \cup purge[p].skipped
    <3>1. Answers(purge[p], i)
      BY <1>7, <2>1 DEF PurgeInv, RecordInv, Accounted, Kept, LiveFalls
    <3>2. QED
      BY <1>4, <3>1 DEF Answers, PurgeAt
  <2>2. Accounted'
    BY <1>3, <1>4, <1>5, <1>6, <2>1 DEF Accounted, Answers, Working
  <2>3. DeletedOnRecord'
    BY <1>7, <1>8 DEF PurgeInv, RecordInv, DeletedOnRecord, Kept, LiveFalls
  <2>4. QED
    BY <2>2, <2>3 DEF RecordInv
<1>12. QED
  BY <1>5, <1>7, <1>9, <1>10, <1>11 DEF PurgeInv, Kept

\* A worker that leaves and gives the claim back, or not.
LEMMA ReleaseClaimKeeps == ASSUME PurgeInv, NEW p \in Purgers, ReleaseClaim(p) PROVE PurgeInv'
<1>1. Steady(NoPurge) /\ NoPurge.pc = "idle"
  BY IdleFields
<1>2. WorkersShape' /\ purge'[p] = NoPurge /\ \A q \in Purgers \ {p} : purge'[q] = purge[q]
  BY <1>1, WorkerWritten DEF ReleaseClaim, PurgeOver, PurgeInv
<1>3. \A q \in Purgers : ~Working(q)'
  <2>1. Working(p)
    BY DEF ReleaseClaim, PurgeAt, Working
  <2>2. QED
    BY <1>1, <1>2, <2>1, Alone DEF Working
<1>4. Kept
  BY RemovalAlone DEF ReleaseClaim
<1>5. UNCHANGED <<deletion, older, yesterday, today, reported, straddled, unasked>>
  BY DEF ReleaseClaim
<1>6. ClaimHeld'
  BY <1>3 DEF ClaimHeld
<1>7. DaysInv'
  BY <1>3, <1>5 DEF PurgeInv, DaysInv, DaysTyped, NothingToday, LastDay, GivenUpInTime,
                    Unrecorded, Working, PurgeAt, FailureDays, Budget
<1>8. RecordInv'
  BY <1>3, <1>4, <1>5 DEF PurgeInv, RecordInv, Accounted, Answers, Working, DeletedOnRecord,
                          Kept, LiveFalls
<1>9. QED
  BY <1>2, <1>4, <1>6, <1>7, <1>8 DEF PurgeInv, Kept

\* Going on record with what is given up, on the last day.
LEMMA ReportKeeps == ASSUME PurgeInv, NEW p \in Purgers, Report(p) PROVE PurgeInv'
<1> DEFINE r == [purge[p] EXCEPT !.pc = "giveup"]
<1>1. Steady(purge[p]) /\ WorkersShape /\ PurgeAt(p, "report")
  BY DEF PurgeInv, WorkersShape, Report
<1>2. purge' = [purge EXCEPT ![p] = r] /\ reported' = reported \cup purge[p].failed
  BY DEF Report, PurgeGoto
<1>3. /\ Steady(r) /\ r.pc = "giveup" /\ r.failed = purge[p].failed
      /\ r.skipped = purge[p].skipped
  BY <1>1, Moved
<1> HIDE DEF r
<1>4. WorkersShape' /\ purge'[p] = r /\ \A q \in Purgers \ {p} : purge'[q] = purge[q]
  BY <1>1, <1>2, <1>3, WorkerWritten
<1>5. Working(p) /\ \A q \in Purgers \ {p} : ~Working(q) /\ ~Working(q)'
  BY <1>1, <1>4, Alone DEF Working, PurgeAt
<1>6. Kept
  BY RemovalAlone DEF Report, removalVars
<1>7. UNCHANGED <<deletion, claim, stale, older, yesterday, today, straddled, unasked>>
  BY DEF Report
<1>8. ClaimHeld'
  BY <1>5, <1>7 DEF PurgeInv, ClaimHeld
<1>9. DaysInv'
  <2>1. DaysTyped' /\ FailureDays' = FailureDays /\ Budget' = Budget
    BY <1>7 DEF PurgeInv, DaysInv, DaysTyped, FailureDays, Budget
  <2>2. FailureDays >= Budget
    BY <1>1 DEF PurgeInv, DaysInv, LastDay
  <2>3. GivenUpInTime'
    BY <2>1, <2>2 DEF GivenUpInTime, Budget
  <2>4. NothingToday' /\ LastDay'
    BY <1>3, <1>4, <1>5 DEF NothingToday, LastDay, Unrecorded, Working, PurgeAt
  <2>5. QED
    BY <2>1, <2>3, <2>4 DEF DaysInv
<1>10. RecordInv'
  <2>1. ASSUME NEW i \in Items, item'[i].live PROVE i \in reported' \cup purge[p].skipped
    <3>1. Answers(purge[p], i)
      BY <1>6, <2>1 DEF PurgeInv, RecordInv, Accounted, Kept, LiveFalls
    <3>2. QED
      BY <1>1, <1>2, <3>1 DEF Answers, PurgeAt
  <2>2. Accounted'
    BY <1>3, <1>4, <1>5, <2>1 DEF Accounted, Answers, Working
  <2>3. DeletedOnRecord'
    BY <1>2, <1>6, <1>7 DEF PurgeInv, RecordInv, DeletedOnRecord, Kept, LiveFalls
  <2>4. QED
    BY <2>2, <2>3 DEF RecordInv
<1>11. QED
  BY <1>4, <1>6, <1>8, <1>9, <1>10 DEF PurgeInv, Kept

\* The transaction deletes the rows, and nothing at Plaid.
LEMMA CommitTouches ==
    ASSUME CredentialInv, NEW p \in Purgers, Commit(p)
    PROVE  Kept /\ \A i \in Items : item'[i].status = "gone"
<1>1. item \in [Items -> Rows] /\ "gone" \in Statuses
  BY DEF CredentialInv, ItemTyped, Statuses
<1>2. item' = [i \in Items |-> [item[i] EXCEPT !.status = "gone", !.linked = FALSE]]
  BY DEF Commit
<1>3. \A i \in Items : /\ item'[i] \in Rows /\ item'[i].live = item[i].live
                       /\ item'[i].status = "gone"
  BY <1>1, <1>2 DEF Rows
<1>4. item' \in [Items -> Rows]
  BY <1>2, <1>3
<1>5. ItemsKept
  BY <1>3, <1>4 DEF ItemsKept, ItemTyped, LiveFalls, CredentialKept
<1>6. QED
  BY <1>3, <1>5, CallsAlone DEF Commit

\* The transaction: what is alive is on record, or was not asked for.
LEMMA CommitKeeps == ASSUME PurgeInv, NEW p \in Purgers, Commit(p) PROVE PurgeInv'
<1>1. Steady(NoPurge) /\ NoPurge.pc = "idle" /\ PurgeAt(p, "tail")
  BY IdleFields DEF Commit
<1>2. WorkersShape' /\ purge'[p] = NoPurge /\ \A q \in Purgers \ {p} : purge'[q] = purge[q]
  BY <1>1, WorkerWritten DEF Commit, PurgeOver, PurgeInv
<1>3. \A q \in Purgers : ~Working(q)'
  <2>1. Working(p)
    BY <1>1 DEF PurgeAt, Working
  <2>2. QED
    BY <1>1, <1>2, <2>1, Alone DEF Working
<1>4. Kept
  BY CommitTouches DEF PurgeInv
<1>5. UNCHANGED <<older, yesterday, today, reported, straddled>> /\ unasked' = purge[p].skipped
  BY DEF Commit
<1>6. ClaimHeld'
  BY <1>3 DEF ClaimHeld
<1>7. DaysInv'
  BY <1>3, <1>5 DEF PurgeInv, DaysInv, DaysTyped, NothingToday, LastDay, GivenUpInTime,
                    Unrecorded, Working, PurgeAt, FailureDays, Budget
<1>8. RecordInv'
  <2>1. ASSUME NEW i \in Items, item'[i].live PROVE i \in reported' \cup unasked'
    <3>1. Answers(purge[p], i)
      BY <1>4, <2>1 DEF PurgeInv, RecordInv, Accounted, Kept, LiveFalls
    <3>2. QED
      BY <1>1, <1>5, <3>1 DEF Answers, PurgeAt
  <2>2. QED
    BY <1>3, <2>1 DEF RecordInv, Accounted, Answers, Working, DeletedOnRecord
<1>9. QED
  BY <1>2, <1>4, <1>6, <1>7, <1>8 DEF PurgeInv, Kept

\* Midnight moves the failures of today to yesterday, and loses none that the
\* budget counts.
LEMMA DaysMove ==
    ASSUME DaysInv, older' = Min({older + One(yesterday), MAX_DAYS}), yesterday' = today,
           today' = FALSE, UNCHANGED straddled
    PROVE  /\ DaysTyped' /\ Budget' = Budget
           /\ FailureDays >= Budget => FailureDays' >= Budget
           /\ older + One(yesterday) + 1 >= Budget => older' + One(yesterday') + 1 >= Budget
<1>1. /\ older \in 0..MAX_DAYS /\ One(yesterday) \in {0, 1} /\ One(today) \in {0, 1}
      /\ MAX_DAYS \in Nat /\ Budget \in {MAX_DAYS, MAX_DAYS - 1}
  BY DayNumbers DEF DaysInv, DaysTyped, Budget
<1> DEFINE a == older + One(yesterday)
<1>2. a \in Nat /\ a = older + One(yesterday)
  BY <1>1
<1> HIDE DEF a
<1>3. older' = Min({a, MAX_DAYS})
  BY <1>2
<1>4. older' = IF a <= MAX_DAYS THEN a ELSE MAX_DAYS
  <2> DEFINE least == IF a <= MAX_DAYS THEN a ELSE MAX_DAYS
  <2>1. least \in {a, MAX_DAYS} /\ \A y \in {a, MAX_DAYS} : least <= y
    BY <1>1, <1>2
  <2>2. \A x \in {a, MAX_DAYS} : (\A y \in {a, MAX_DAYS} : x <= y) => x = least
    BY <1>1, <1>2
  <2>3. QED
    BY <1>3, <2>1, <2>2 DEF Min
<1>5. One(yesterday') = One(today) /\ One(today') = 0
  BY DEF One
<1>6. Budget' = Budget
  BY DEF Budget
<1>7. DaysTyped'
  <2>1. older' \in 0..MAX_DAYS
    BY <1>1, <1>2, <1>4
  <2>2. yesterday' \in BOOLEAN /\ today' \in BOOLEAN /\ straddled' \in BOOLEAN
    BY DEF DaysInv, DaysTyped
  <2>3. QED
    BY <2>1, <2>2 DEF DaysTyped
<1>8. FailureDays = a + One(today) /\ FailureDays' = older' + One(today)
  BY <1>1, <1>2, <1>4, <1>5 DEF FailureDays
<1>9. QED
  BY <1>1, <1>2, <1>4, <1>5, <1>6, <1>7, <1>8

\* Midnight.
LEMMA MidnightKeeps == ASSUME PurgeInv, Midnight PROVE PurgeInv'
<1>1. WorkersShape
  BY DEF PurgeInv
<1>2. /\ purge' = [p \in Purgers |-> purge'[p]]
      /\ \A p \in Purgers : purge'[p] = IF PurgeAt(p, "idle") THEN purge[p]
                                        ELSE [purge[p] EXCEPT !.late = TRUE]
  BY DEF Midnight
<1>3. \A p \in Purgers : /\ Steady(purge'[p]) /\ purge'[p].pc = purge[p].pc
                         /\ purge'[p].todo = purge[p].todo /\ purge'[p].failed = purge[p].failed
                         /\ purge'[p].skipped = purge[p].skipped
  BY <1>1, <1>2 DEF WorkersShape, Steady
<1>4. WorkersShape'
  BY <1>2, <1>3 DEF WorkersShape
<1>5. UNCHANGED <<removalVars, deletion, claim, stale, reported, straddled, unasked>>
  BY DEF Midnight
<1>6. Kept
  BY <1>5, RemovalAlone DEF removalVars
<1>7. ClaimHeld'
  BY <1>3, <1>5 DEF PurgeInv, ClaimHeld, Working
<1>8. DaysInv'
  <2>1. /\ DaysTyped' /\ Budget' = Budget
        /\ FailureDays >= Budget => FailureDays' >= Budget
        /\ older + One(yesterday) + 1 >= Budget => older' + One(yesterday') + 1 >= Budget
    BY <1>5, DaysMove DEF Midnight, PurgeInv
  <2>2. NothingToday'
    BY DEF Midnight, NothingToday
  <2>3. LastDay'
    BY <1>3, <2>1 DEF PurgeInv, DaysInv, LastDay, PurgeAt
  <2>4. GivenUpInTime'
    BY <1>5, <2>1 DEF PurgeInv, DaysInv, GivenUpInTime, Budget
  <2>5. QED
    BY <2>1, <2>2, <2>3, <2>4 DEF DaysInv
<1>9. RecordInv'
  BY <1>3, <1>5, <1>6 DEF PurgeInv, RecordInv, Accounted, Answers, DeletedOnRecord, Kept, LiveFalls
<1>10. QED
  BY <1>4, <1>6, <1>7, <1>8, <1>9 DEF PurgeInv, Kept

-----------------------------------------------------------------------------
(* The steps of the user, of time and of the removal path *)

\* A step beside the workers.
LEMMA Beside ==
    ASSUME PurgeInv, Kept, ClaimHeld', DeletedOnRecord',
           UNCHANGED <<purge, older, yesterday, today, reported, straddled>>
    PROVE  PurgeInv'
<1>1. WorkersShape' /\ DaysInv'
  BY DEF PurgeInv, WorkersShape, DaysInv, DaysTyped, NothingToday, LastDay, GivenUpInTime,
         Unrecorded, PurgeAt, FailureDays, Budget
<1>2. Accounted'
  BY DEF PurgeInv, RecordInv, Accounted, Answers, Kept, LiveFalls
<1>3. QED
  BY <1>1, <1>2 DEF PurgeInv, RecordInv, Kept

\* The user asks for the deletion or cancels it, and time passes.
LEMMA TimeKeeps ==
    ASSUME PurgeInv, RequestDeletion \/ CancelDeletion \/ GraceEnds \/ ClaimGoesStale
    PROVE  PurgeInv'
<1>1. UNCHANGED <<purge, older, yesterday, today, reported, straddled>> /\ UNCHANGED removalVars
  BY DEF RequestDeletion, CancelDeletion, GraceEnds, ClaimGoesStale
<1>2. Kept
  BY <1>1, RemovalAlone DEF removalVars
<1>3. deletion' # "deleted" \/ UNCHANGED <<deletion, unasked>>
  BY DEF RequestDeletion, CancelDeletion, GraceEnds, ClaimGoesStale
<1>4. DeletedOnRecord'
  BY <1>1, <1>2, <1>3 DEF PurgeInv, RecordInv, DeletedOnRecord, Kept, LiveFalls
<1>5. ClaimHeld'
  BY <1>1 DEF RequestDeletion, CancelDeletion, GraceEnds, ClaimGoesStale, PurgeInv, ClaimHeld,
              Working, PurgeAt
<1>6. QED
  BY <1>1, <1>2, <1>4, <1>5, Beside

\* The removal path goes on beside the purge.
LEMMA ItemStepKeeps ==
    ASSUME PurgeInv, [RemovalNext]_removalVars, UNCHANGED purgeVars PROVE PurgeInv'
<1>1. Kept
  BY NextCredentialInv DEF PurgeInv
<1>2. UNCHANGED <<deletion, claim, stale, purge, older, yesterday, today, reported, straddled, unasked>>
  BY DEF purgeVars
<1>3. ClaimHeld'
  BY <1>2 DEF PurgeInv, ClaimHeld, Working
<1>4. DeletedOnRecord'
  BY <1>1, <1>2 DEF PurgeInv, RecordInv, DeletedOnRecord, Kept, LiveFalls
<1>5. QED
  BY <1>1, <1>2, <1>3, <1>4, Beside

\* The invariant holds at first.
LEMMA InitPurgeInv == Init => PurgeInv
<1> SUFFICES ASSUME Init PROVE PurgeInv
  OBVIOUS
<1>1. CredentialInv
  BY InitCredentialInv DEF Init
<1>2. \A p \in Purgers : purge[p] = NoPurge
  BY DEF Init
<1>3. WorkersShape
  BY <1>2, IdleFields DEF Init, WorkersShape
<1>4. \A p \in Purgers : ~Working(p)
  BY <1>2, IdleFields DEF Working
<1>5. ClaimHeld
  BY <1>4 DEF ClaimHeld
<1>6. DaysInv
  <2>1. DaysTyped
    <3>1. older = 0 /\ yesterday = FALSE /\ today = FALSE /\ straddled = FALSE
      BY DEF Init
    <3>2. 0 \in 0..MAX_DAYS
      BY PurgeAssumption DEF PurgeAssumption
    <3>3. QED
      BY <3>1, <3>2 DEF DaysTyped
  <2>2. NothingToday /\ LastDay
    BY <1>4, NotWorking DEF NothingToday, LastDay
  <2>3. GivenUpInTime
    BY DEF Init, GivenUpInTime
  <2>4. QED
    BY <2>1, <2>2, <2>3 DEF DaysInv
<1>7. RecordInv
  BY <1>4, NotWorking DEF Init, RecordInv, Accounted, DeletedOnRecord
<1>8. QED
  BY <1>1, <1>3, <1>5, <1>6, <1>7 DEF PurgeInv

\* Every step keeps it.
LEMMA StepPurgeInv == PurgeInv /\ [Next]_vars => PurgeInv'
<1> SUFFICES ASSUME PurgeInv, [Next]_vars PROVE PurgeInv'
  OBVIOUS
<1>1. CASE UNCHANGED vars
  BY <1>1, ItemStepKeeps DEF vars
<1>2. CASE RequestDeletion \/ CancelDeletion \/ GraceEnds \/ ClaimGoesStale
  BY <1>2, TimeKeeps
<1>3. CASE Midnight
  BY <1>3, MidnightKeeps
<1>4. ASSUME NEW p \in Purgers, Begin(p) \/ PurgeStep(p) \/ PurgeDies(p) PROVE PurgeInv'
  BY <1>4, BeginKeeps, ReadActiveKeeps, PurgeRemovesKeeps, PurgeRefusedKeeps, PurgeRevokesKeeps,
     DecideKeeps, GiveUpKeeps, ClaimKeeps, RecordKeeps, ReleaseClaimKeeps, ReportKeeps,
     CommitKeeps DEF PurgeStep
<1>5. CASE ItemStep(UserStep) \/ ItemStep(OtherStep)
  <2>1. RemovalNext /\ UNCHANGED purgeVars
    BY <1>5 DEF ItemStep, UserStep, OtherStep, RemovalNext, RelinkStep
  <2>2. QED
    BY <2>1, ItemStepKeeps
<1>6. QED
  BY <1>1, <1>2, <1>3, <1>4, <1>5 DEF Next

\* The invariant holds throughout.
LEMMA PurgeInvHolds == Spec => []PurgeInv
BY InitPurgeInv, StepPurgeInv, PTL DEF Spec

-----------------------------------------------------------------------------
\* No item is given up, and no user deleted over the refusal of an item the
\* purge asked for, before the budget of days is used up, but for the day of a
\* clock read before midnight.  An item that outlives its user was given up or
\* not asked for, and a worker gives up on the last day of the budget only.
THEOREM BudgetIsHonoured == Spec => []BudgetHonoured
<1>1. PurgeInv => BudgetHonoured
  <2> SUFFICES ASSUME PurgeInv PROVE BudgetHonoured
    OBVIOUS
  <2>1. CASE reported # {}
    BY <2>1 DEF PurgeInv, DaysInv, GivenUpInTime, BudgetHonoured
  <2>2. ASSUME NEW i \in Items \ unasked, deletion = "deleted", item[i].live
        PROVE  i \in reported
    BY <2>2 DEF PurgeInv, RecordInv, DeletedOnRecord
  <2>3. QED
    BY <2>1, <2>2 DEF BudgetHonoured
<1>2. QED
  BY <1>1, PurgeInvHolds, PTL

\* A deleted user leaves nothing at Plaid that is neither on record nor left
\* out of the purge, wherever a worker dies and another takes over.
THEOREM DeletionIsOnRecord == Spec => []DeletedOnRecord
<1>1. PurgeInv => DeletedOnRecord
  BY DEF PurgeInv, RecordInv
<1>2. QED
  BY <1>1, PurgeInvHolds, PTL

\* The credential survives in the composition too: a purge never scrubs.
THEOREM PurgeKeepsCredentials == Spec => []CredentialKept
<1>1. PurgeInv => CredentialKept
  BY DEF PurgeInv, CredentialInv
<1>2. QED
  BY <1>1, PurgeInvHolds, PTL

\* At first nobody is at work.
LEMMA InitMutex == Init => WorkingPurgers = {}
<1> SUFFICES ASSUME Init PROVE WorkingPurgers = {}
  OBVIOUS
<1>1. \A p \in Purgers : purge[p] = NoPurge
  BY DEF Init
<1>2. QED
  BY <1>1, IdleFields DEF WorkingPurgers, Working

\* A worker enters when nobody is at work, and leaves alone.
LEMMA StepMutex ==
    PurgeInv /\ PurgeInv' /\ [Next]_vars => [Mutex!Next]_WorkingPurgers
<1> SUFFICES ASSUME PurgeInv, PurgeInv', [Next]_vars PROVE [Mutex!Next]_WorkingPurgers
  OBVIOUS
<1>1. \A p, q \in Purgers : Working(p) /\ Working(q) => p = q
  BY DEF PurgeInv, ClaimHeld
<1>2. \A p, q \in Purgers : Working(p)' /\ Working(q)' => p = q
  BY DEF PurgeInv, ClaimHeld
<1>3. ASSUME NEW p \in Purgers, \A q \in Purgers \ {p} : purge'[q] = purge[q],
             ~Working(p) => \A q \in Purgers : ~Working(q)
      PROVE  [Mutex!Next]_WorkingPurgers
  <2>1. \A q \in Purgers \ {p} : Working(q)' = Working(q)
    BY <1>3 DEF Working
  <2>2. CASE Working(p) /\ Working(p)'
    BY <1>1, <1>2, <2>2 DEF WorkingPurgers
  <2>3. CASE Working(p) /\ ~Working(p)'
    <3>1. WorkingPurgers = {p} /\ WorkingPurgers' = {}
      BY <1>1, <2>1, <2>3 DEF WorkingPurgers
    <3>2. QED
      BY <3>1 DEF Mutex!Next, Mutex!Leave
  <2>4. CASE ~Working(p) /\ Working(p)'
    <3>1. WorkingPurgers = {} /\ WorkingPurgers' = {p}
      BY <1>2, <1>3, <2>4 DEF WorkingPurgers
    <3>2. QED
      BY <3>1 DEF Mutex!Next, Mutex!Enter
  <2>5. CASE ~Working(p) /\ ~Working(p)'
    BY <2>1, <2>5 DEF WorkingPurgers
  <2>6. QED
    BY <2>2, <2>3, <2>4, <2>5
<1>4. ASSUME UNCHANGED purge PROVE [Mutex!Next]_WorkingPurgers
  BY <1>4 DEF WorkingPurgers, Working
<1>5. CASE UNCHANGED vars
  BY <1>4, <1>5 DEF vars, purgeVars
<1>6. CASE RequestDeletion \/ CancelDeletion \/ GraceEnds \/ ClaimGoesStale
  BY <1>4, <1>6 DEF RequestDeletion, CancelDeletion, GraceEnds, ClaimGoesStale
<1>7. CASE Midnight
  <2>1. \A p \in Purgers : purge'[p].pc = purge[p].pc
    BY <1>7 DEF Midnight, PurgeInv, WorkersShape, Steady
  <2>2. QED
    BY <2>1 DEF WorkingPurgers, Working
<1>8. ASSUME NEW p \in Purgers, Begin(p) \/ PurgeStep(p) \/ PurgeDies(p)
      PROVE  [Mutex!Next]_WorkingPurgers
  <2>1. purge = [q \in Purgers |-> purge[q]]
    BY DEF PurgeInv, WorkersShape
  <2>2. \E r : purge' = [purge EXCEPT ![p] = r]
    BY <1>8 DEF Begin, PurgeStep, PurgeDies, Claim, ClaimRefused, ReadActive, PurgeRemoves,
       PurgeRefused, PurgeRevokes, Decide, RecordFailures, ReleaseClaim, Report, GiveUp, Commit,
       Abandon, PurgeOver, PurgeGoto
  <2>3. \A q \in Purgers \ {p} : purge'[q] = purge[q]
    BY <2>1, <2>2
  <2>4. CASE Working(p)
    BY <1>3, <2>3, <2>4
  <2>5. CASE ~Working(p) /\ ~Working(p)'
    <3>1. WorkingPurgers' = WorkingPurgers
      BY <2>3, <2>5 DEF WorkingPurgers, Working
    <3>2. QED
      BY <3>1
  <2>6. CASE ~Working(p) /\ Working(p)'
    <3>1. Claim(p)
      <4>1. Steady(purge[p]) /\ Steady(NoPurge) /\ NoPurge.pc = "idle"
        BY IdleFields DEF PurgeInv, WorkersShape
      <4>2. CASE Begin(p)
        <5>1. purge'[p].pc = "claim"
          BY <2>1, <4>1, <4>2 DEF Begin, PurgeGoto, Steady
        <5>2. QED
          BY <2>6, <5>1 DEF Working
      <4>3. CASE PurgeOver(p)
        <5>1. purge'[p].pc = "idle"
          BY <2>1, <4>1, <4>3 DEF PurgeOver
        <5>2. QED
          BY <2>6, <5>1 DEF Working
      <4>4. QED
        BY <1>8, <2>6, <4>2, <4>3 DEF PurgeStep, PurgeDies, ClaimRefused, ReadActive,
           PurgeRemoves, PurgeRefused, PurgeRevokes, Decide, RecordFailures, ReleaseClaim,
           Report, GiveUp, Commit, Abandon, PurgeAt, Working
    <3>2. \A q \in Purgers \ {p} : ~Working(q)
      BY <3>1, Alone DEF Claim
    <3>3. QED
      BY <1>3, <2>3, <2>6, <3>2
  <2>7. QED
    BY <2>4, <2>5, <2>6
<1>9. CASE ItemStep(UserStep) \/ ItemStep(OtherStep)
  BY <1>4, <1>9 DEF ItemStep, purgeVars
<1>10. QED
  BY <1>5, <1>6, <1>7, <1>8, <1>9 DEF Next

\* One worker at a time is at work on a user, through crashes, stale claims,
\* cancelled deletions and new requests (purge.ts:14-21).
THEOREM PurgeRefinesMutex == Spec => RefinesMutex
<1>1. Init => Mutex!Init
  BY InitMutex DEF Mutex!Init
<1>2. QED
  BY <1>1, StepMutex, PurgeInvHolds, PTL DEF Spec, RefinesMutex, Mutex!Spec

-----------------------------------------------------------------------------
(* Types, and what is owed *)

Workers == [pc : PurgePcs, late : BOOLEAN, todo : SUBSET Items, readable : SUBSET Items,
            failed : SUBSET Items, skipped : SUBSET Items]

\* A worker has failed nothing before it reads its items, and nothing that it
\* still has to do.
Sorted(r) ==
    /\ r.todo \cap r.failed = {}
    /\ r.pc \in {"idle", "claim", "items"} => r.failed = {}

WorkersTyped == purge \in [Purgers -> Workers] /\ \A p \in Purgers : Sorted(purge[p])

ScalarsTyped ==
    /\ deletion \in {"none", "grace", "due", "deleted"}
    /\ requests \in 0..MaxRequests
    /\ claim \in Purgers \cup {Nobody}
    /\ stale \in BOOLEAN
    /\ reported \in SUBSET Items
    /\ unasked \in SUBSET Items

PurgeTyped == WorkersTyped /\ ScalarsTyped

\* A worker that has nothing to do.
LEMMA IdleWorker == NoPurge \in Workers /\ Sorted(NoPurge)
BY DEF NoPurge, Workers, Sorted, PurgePcs

\* One worker moves.
LEMMA WorkerTyped ==
    ASSUME WorkersTyped, NEW p \in Purgers, NEW r \in Workers, Sorted(r),
           purge' = [purge EXCEPT ![p] = r]
    PROVE  WorkersTyped'
BY DEF WorkersTyped

\* To a later statement.
LEMMA WorkerMoves ==
    ASSUME WorkersTyped, NEW p \in Purgers, NEW x \in PurgePcs, PurgeGoto(p, x),
           x \in {"idle", "claim", "items"} => purge[p].failed = {}
    PROVE  WorkersTyped'
<1> DEFINE r == [purge[p] EXCEPT !.pc = x]
<1>1. purge[p] \in Workers /\ Sorted(purge[p])
  BY DEF WorkersTyped
<1>2. r \in Workers /\ Sorted(r)
  BY <1>1 DEF Workers, Sorted
<1>3. purge' = [purge EXCEPT ![p] = r]
  BY DEF PurgeGoto
<1>4. QED
  BY <1>2, <1>3, WorkerTyped

\* Out of its work.
LEMMA WorkerStops ==
    ASSUME WorkersTyped, NEW p \in Purgers, PurgeOver(p) PROVE WorkersTyped'
BY IdleWorker, WorkerTyped DEF PurgeOver

\* The steps of a worker that only move it.
LEMMA MovesTyped ==
    ASSUME PurgeTyped, NEW p \in Purgers,
           \/ Begin(p) \/ Claim(p) \/ PurgeRemoves(p) \/ Decide(p) \/ RecordFailures(p)
           \/ Report(p) \/ ClaimRefused(p) \/ ReleaseClaim(p) \/ Commit(p) \/ Abandon(p)
           \/ PurgeDies(p)
    PROVE  PurgeTyped'
<1>1. WorkersTyped /\ Sorted(purge[p]) /\ purge[p] \in Workers
  BY DEF PurgeTyped, WorkersTyped
<1>2. WorkersTyped'
  <2>1. CASE PurgeOver(p)
    BY <1>1, <2>1, WorkerStops
  <2>2. ASSUME NEW x \in PurgePcs, PurgeGoto(p, x),
               x \in {"idle", "claim", "items"} => purge[p].pc \in {"idle", "claim"}
        PROVE  WorkersTyped'
    BY <1>1, <2>2, WorkerMoves DEF Sorted
  <2>3. PurgePcs = {"idle", "claim", "items", "loop", "confirmed", "hold", "terminal",
                    "release", "report", "giveup", "tail"}
    BY DEF PurgePcs
  <2>4. CASE Begin(p) \/ Claim(p)
    BY <2>2, <2>3, <2>4 DEF Begin, Claim, PurgeAt
  <2>5. CASE PurgeRemoves(p) \/ Report(p)
    BY <2>2, <2>3, <2>5 DEF PurgeRemoves, Report
  <2>6. CASE Decide(p)
    BY <2>2, <2>3, <2>6 DEF Decide
  <2>7. CASE RecordFailures(p)
    BY <2>2, <2>3, <2>7 DEF RecordFailures
  <2>8. QED
    BY <2>1, <2>4, <2>5, <2>6, <2>7 DEF ClaimRefused, ReleaseClaim, Commit, Abandon, PurgeDies
<1>3. ScalarsTyped'
  <2>1. purge[p].failed \in SUBSET Items /\ purge[p].skipped \in SUBSET Items /\ ScalarsTyped
    BY <1>1 DEF Workers, PurgeTyped
  <2>2. /\ deletion' \in {deletion, "deleted"} /\ requests' = requests
        /\ claim' \in {claim, p, Nobody} /\ stale' \in {stale, FALSE}
        /\ reported' \in {reported, reported \cup purge[p].failed}
        /\ unasked' \in {unasked, purge[p].skipped}
    BY DEF Begin, Claim, PurgeRemoves, Decide, RecordFailures, Report, ClaimRefused, ReleaseClaim,
           Commit, Abandon, PurgeDies
  <2>3. QED
    BY <2>1, <2>2 DEF ScalarsTyped
<1>4. QED
  BY <1>2, <1>3 DEF PurgeTyped

\* The steps of a worker that sort its items.
LEMMA SortingTyped ==
    ASSUME PurgeTyped, NEW p \in Purgers,
           ReadActive(p) \/ PurgeRefused(p) \/ PurgeRevokes(p) \/ GiveUp(p)
    PROVE  PurgeTyped'
<1>1. WorkersTyped /\ Sorted(purge[p]) /\ purge[p] \in Workers
  BY DEF PurgeTyped, WorkersTyped
<1>2. {"loop", "tail", "giveup"} \subseteq PurgePcs
  BY DEF PurgePcs
<1>3. ScalarsTyped'
  BY DEF PurgeTyped, ScalarsTyped, ReadActive, PurgeRefused, PurgeRevokes, GiveUp
<1>4. CASE ReadActive(p)
  <2> DEFINE active == {i \in Items : item[i].status = "ACTIVE"}
             readable == {i \in active : item[i].token}
             rest == Items \ active
             r == [purge[p] EXCEPT !.pc = "loop", !.todo = active, !.readable = readable,
                                   !.skipped = rest]
  <2>1. purge[p].failed = {} /\ purge' = [purge EXCEPT ![p] = r]
    BY <1>1, <1>4 DEF ReadActive, PurgeAt, Sorted
  <2>2. active \in SUBSET Items /\ readable \in SUBSET Items /\ rest \in SUBSET Items
    OBVIOUS
  <2> HIDE DEF active, readable, rest
  <2>3. r \in Workers /\ Sorted(r)
    BY <1>1, <1>2, <2>1, <2>2 DEF Workers, Sorted
  <2> HIDE DEF r
  <2>4. QED
    BY <1>1, <1>3, <2>1, <2>3, WorkerTyped DEF PurgeTyped
<1>5. ASSUME NEW n, n = PurgeNext(p)
      PROVE  /\ n \in Workers /\ Sorted(n) /\ n.pc = "loop"
             /\ n.failed = purge[p].failed /\ n.todo = purge[p].todo \ {Item(p)}
  BY <1>1, <1>2, <1>5 DEF PurgeNext, Workers, Sorted
<1>6. CASE PurgeRevokes(p)
  <2>1. purge' = [purge EXCEPT ![p] = PurgeNext(p)]
    BY <1>6 DEF PurgeRevokes
  <2>2. QED
    BY <1>1, <1>3, <1>5, <2>1, WorkerTyped DEF PurgeTyped
<1>7. CASE PurgeRefused(p)
  <2> DEFINE n == PurgeNext(p)
             r == [n EXCEPT !.failed = @ \cup {Item(p)}]
  <2>1. purge' = [purge EXCEPT ![p] = r] /\ purge[p].todo # {}
    BY <1>7 DEF PurgeRefused
  <2>2. Item(p) \in Items
    BY <1>1, <2>1 DEF Item, OneOf, Workers
  <2>3. /\ n \in Workers /\ Sorted(n) /\ n.pc = "loop" /\ n.todo = purge[p].todo \ {Item(p)}
    BY <1>5
  <2> HIDE DEF n
  <2>4. r \in Workers /\ Sorted(r)
    BY <2>2, <2>3 DEF Workers, Sorted
  <2> HIDE DEF r
  <2>5. QED
    BY <1>1, <1>3, <2>1, <2>4, WorkerTyped DEF PurgeTyped
<1>8. CASE GiveUp(p)
  <2>1. PICK i \in purge[p].failed :
          purge' = [purge EXCEPT ![p] =
                       [@ EXCEPT !.pc = Rest(p, i), !.failed = purge[p].failed \ {i}]]
    BY <1>8 DEF GiveUp
  <2> DEFINE f == purge[p].failed \ {i}
             x == Rest(p, i)
             r == [purge[p] EXCEPT !.pc = x, !.failed = f]
  <2>2. purge' = [purge EXCEPT ![p] = r] /\ x \in {"tail", "giveup"}
    BY <2>1 DEF Rest
  <2>3. f \in SUBSET Items /\ f \subseteq purge[p].failed
    BY <1>1 DEF Workers
  <2> HIDE DEF f, x
  <2>4. r \in Workers /\ Sorted(r)
    BY <1>1, <1>2, <2>2, <2>3 DEF Workers, Sorted
  <2> HIDE DEF r
  <2>5. QED
    BY <1>1, <1>3, <2>2, <2>4, WorkerTyped DEF PurgeTyped
<1>9. QED
  BY <1>4, <1>6, <1>7, <1>8

\* The steps of the user and of time.
LEMMA TimeTyped ==
    ASSUME PurgeTyped,
           RequestDeletion \/ CancelDeletion \/ GraceEnds \/ ClaimGoesStale \/ Midnight
    PROVE  PurgeTyped'
<1>1. WorkersTyped /\ ScalarsTyped
  BY DEF PurgeTyped
<1>2. ScalarsTyped'
  <2>1. requests' \in 0..MaxRequests
    <3>1. \/ requests' = requests
          \/ requests < MaxRequests /\ requests' = requests + 1
      BY DEF RequestDeletion, CancelDeletion, GraceEnds, ClaimGoesStale, Midnight
    <3>2. QED
      BY <1>1, <3>1, PurgeAssumption DEF PurgeAssumption, ScalarsTyped
  <2>2. stale' \in BOOLEAN
    <3>1. \/ stale' = stale \/ stale' = TRUE \/ stale' = (claim # Nobody)
      BY DEF RequestDeletion, CancelDeletion, GraceEnds, ClaimGoesStale, Midnight
    <3>2. QED
      BY <1>1, <3>1 DEF ScalarsTyped
  <2>3. deletion' \in {deletion, "grace", "none", "due"} /\ UNCHANGED <<claim, reported, unasked>>
    BY DEF RequestDeletion, CancelDeletion, GraceEnds, ClaimGoesStale, Midnight
  <2>4. QED
    BY <1>1, <2>1, <2>2, <2>3 DEF ScalarsTyped
<1>3. CASE UNCHANGED purge
  BY <1>1, <1>2, <1>3 DEF PurgeTyped, WorkersTyped
<1>4. CASE Midnight
  <2>1. purge' = [p \in Purgers |-> IF PurgeAt(p, "idle") THEN purge[p]
                                     ELSE [purge[p] EXCEPT !.late = TRUE]]
    BY <1>4 DEF Midnight
  <2>2. ASSUME NEW p \in Purgers PROVE purge'[p] \in Workers /\ Sorted(purge'[p])
    <3>1. purge[p] \in Workers /\ Sorted(purge[p])
      BY <1>1 DEF WorkersTyped
    <3>2. purge'[p] = purge[p] \/ purge'[p] = [purge[p] EXCEPT !.late = TRUE]
      BY <2>1
    <3>3. QED
      BY <3>1, <3>2 DEF Workers, Sorted
  <2>3. WorkersTyped'
    BY <2>1, <2>2 DEF WorkersTyped
  <2>4. QED
    BY <1>2, <2>3 DEF PurgeTyped
<1>5. QED
  BY <1>3, <1>4 DEF RequestDeletion, CancelDeletion, GraceEnds, ClaimGoesStale

\* What a purge does to the items, it does to none that an account has left.
LEMMA PurgeLeavesOwed ==
    ASSUME RemovalInv,
           \/ RequestDeletion \/ CancelDeletion \/ GraceEnds \/ ClaimGoesStale \/ Midnight
           \/ \E p \in Purgers : Begin(p) \/ PurgeStep(p) \/ PurgeDies(p)
    PROVE  RemovalInv'
<1>1. UNCHANGED <<owed, call, relink, undone, unmarked>> /\ (Fault \/ UNCHANGED faults)
  BY DEF RequestDeletion, CancelDeletion, GraceEnds, ClaimGoesStale, Midnight, Begin, PurgeStep,
         PurgeDies, Claim, ClaimRefused, ReadActive, PurgeRemoves, PurgeRefused, PurgeRevokes,
         Decide, RecordFailures, ReleaseClaim, Report, GiveUp, Commit, Abandon, removalVars
<1>2. CountsTyped'
  <2>1. CountsTyped /\ unmarked' \subseteq Items
    BY <1>1 DEF RemovalInv, CountsTyped
  <2>2. QED
    BY <1>1, <2>1, FaultsCounted
<1>3. \/ \E p \in Purgers : Commit(p)
      \/ \E i : \/ item' = item \/ item' = [item EXCEPT ![i].live = FALSE]
                \/ item' = Revoked(i)
  BY DEF RequestDeletion, CancelDeletion, GraceEnds, ClaimGoesStale, Midnight, Begin, PurgeStep,
         PurgeDies, Claim, ClaimRefused, ReadActive, PurgeRemoves, PurgeRefused, PurgeRevokes,
         Decide, RecordFailures, ReleaseClaim, Report, GiveUp, Abandon, removalVars
<1>4. ASSUME NEW p \in Purgers, Commit(p) PROVE RemovalInv'
  <2>1. Kept /\ \A i \in Items : item'[i].status = "gone"
    BY <1>4, CommitTouches DEF RemovalInv
  <2>2. QED
    BY <1>1, <1>2, <2>1, NoCallMoves DEF Loose
<1>5. ASSUME NEW i, \/ item' = item \/ item' = [item EXCEPT ![i].live = FALSE]
                    \/ item' = Revoked(i)
      PROVE  RemovalInv'
  <2>1. Kept
    BY <1>1, <1>5, ItemTouched DEF RemovalInv
  <2>2. "REVOKED" \in Statuses /\ FALSE \in BOOLEAN
    BY DEF Statuses
  <2>3. item' = Revoked(i) => \/ item' = item
                              \/ /\ item' = [item EXCEPT ![i].status = "REVOKED"]
                                 /\ item[i].status # "gone"
    BY DEF Revoked
  <2>4. \A j \in Items : Loose(j)' => Loose(j)
    BY <1>5, <2>2, <2>3, StaysTight DEF RemovalInv
  <2>5. QED
    BY <1>1, <1>2, <2>1, <2>4, NoCallMoves
<1>6. QED
  BY <1>3, <1>4, <1>5

\* Both hold at first.
LEMMA InitTyped == Init => PurgeTyped /\ RemovalInv
<1> SUFFICES ASSUME Init PROVE PurgeTyped /\ RemovalInv
  OBVIOUS
<1>1. RemovalInv
  BY InitRemovalInv DEF Init
<1>2. WorkersTyped
  BY IdleWorker DEF Init, WorkersTyped
<1>3. requests \in 0..MaxRequests
  BY PurgeAssumption DEF Init, PurgeAssumption
<1>4. ScalarsTyped
  BY <1>3 DEF Init, ScalarsTyped
<1>5. QED
  BY <1>1, <1>2, <1>4 DEF PurgeTyped

\* And every step keeps them.
LEMMA StepTyped == PurgeTyped /\ RemovalInv /\ [Next]_vars => PurgeTyped' /\ RemovalInv'
<1> SUFFICES ASSUME PurgeTyped, RemovalInv, [Next]_vars PROVE PurgeTyped' /\ RemovalInv'
  OBVIOUS
<1>1. ASSUME [RemovalNext]_removalVars, UNCHANGED purgeVars PROVE PurgeTyped' /\ RemovalInv'
  <2>1. RemovalInv'
    BY <1>1, NextRemovalInv
  <2>2. PurgeTyped'
    BY <1>1 DEF purgeVars, PurgeTyped, WorkersTyped, ScalarsTyped
  <2>3. QED
    BY <2>1, <2>2
<1>2. CASE UNCHANGED vars
  BY <1>1, <1>2 DEF vars
<1>3. CASE RequestDeletion \/ CancelDeletion \/ GraceEnds \/ ClaimGoesStale \/ Midnight
  BY <1>3, TimeTyped, PurgeLeavesOwed
<1>4. ASSUME NEW p \in Purgers, Begin(p) \/ PurgeStep(p) \/ PurgeDies(p)
      PROVE  PurgeTyped' /\ RemovalInv'
  <2>1. PurgeTyped'
    BY <1>4, MovesTyped, SortingTyped DEF PurgeStep
  <2>2. QED
    BY <1>4, <2>1, PurgeLeavesOwed
<1>5. CASE ItemStep(UserStep) \/ ItemStep(OtherStep)
  <2>1. RemovalNext /\ UNCHANGED purgeVars
    BY <1>5 DEF ItemStep, UserStep, OtherStep, RemovalNext, RelinkStep
  <2>2. QED
    BY <1>1, <2>1
<1>6. QED
  BY <1>2, <1>3, <1>4, <1>5 DEF Next

\* Types of the purge and of the removal path beside it; a worker has failed
\* nothing that it still has to ask for.
THEOREM TypeCorrect == Spec => []TypeOK
<1>1. PurgeTyped /\ RemovalInv /\ PurgeInv => TypeOK
  BY RemovalInvMeans DEF PurgeTyped, WorkersTyped, Workers, Sorted, ScalarsTyped, PurgeInv,
     DaysInv, DaysTyped, TypeOK
<1>2. QED
  BY <1>1, InitTyped, StepTyped, PurgeInvHolds, PTL DEF Spec

\* A purge that runs beside the removal path, revokes items without a marker
\* and gives some of them up, leaves none that the path would have to remove
\* without anything to say so (disconnect.ts:144-154).
THEOREM PurgeForgetsNothing == Spec => []NothingForgotten
BY InitTyped, StepTyped, RemovalInvMeans, PTL DEF Spec

=============================================================================
