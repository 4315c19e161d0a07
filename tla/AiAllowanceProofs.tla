--------------------------- MODULE AiAllowanceProofs ---------------------------
(***************************************************************************)
(* What the reservation of AI turns guarantees for any number of turns and *)
(* processes, any allowance and any length of the day.                     *)
(*                                                                         *)
(* A bucket counts exactly the turns that hold a place in it, because a    *)
(* release goes back to the bucket it was taken from.  A judgement counts  *)
(* whoever is in flight because the advisory lock keeps admissions out     *)
(* between its reading of the buckets and its own, and because no turn     *)
(* lives long enough to fall out of the two buckets it reads.              *)
(***************************************************************************)
EXTENDS AiAllowance, FiniteSetTheorems, TLAPS

\* The turns are records with a clock value and a count.
Turn(r) ==
    /\ {"pc", "now", "spend", "flight"} \subseteq DOMAIN r
    /\ r.now \in Hours

Typed ==
    /\ hour \in Hours
    /\ count \in [Hours -> Nat]
    /\ turn = [t \in Turns |-> turn[t]]
    /\ \A t \in Turns : Turn(turn[t])

\* No turn under way has seen the hour change twice.
Recent == \A t \in Turns : Live(t) => turn[t].now \in {hour, hour - 1}

\* The advisory lock is its transaction's.
Judging(r) == r.pc \in {"spend", "flight", "judge"}
LockHeld == \A t \in Turns : Judging(turn[t]) => lock = t

\* What a judgement has counted still covers whoever is in flight.
Covered ==
    \A t \in Turns :
        At(t, "judge") => /\ turn[t].flight \in Nat
                          /\ turn[t].flight >= Cardinality(Older(turn[t].now))

Inv == Typed /\ Recent /\ LockHeld /\ ReservationsExact /\ Covered

-----------------------------------------------------------------------------
\* The sets of turns that are counted.
LEMMA Finite ==
    /\ IsFiniteSet(Turns)
    /\ \A S \in SUBSET Turns : IsFiniteSet(S) /\ Cardinality(S) \in Nat
BY AllowanceAssumption, FS_Subset, FS_CardinalityType DEF AllowanceAssumption

\* Fewer turns count for less.
LEMMA Fewer ==
    ASSUME NEW S \in SUBSET Turns, NEW T \in SUBSET S
    PROVE  Cardinality(T) <= Cardinality(S)
BY Finite, FS_Subset

\* Hours are numbers.
LEMMA HourNumbers == Hours \subseteq Nat
BY AllowanceAssumption DEF AllowanceAssumption, Hours

\* The buckets a judgement reads hold all that are in flight on clock values no
\* newer than its own, and nothing but those and turns lost two hours ago at
\* most.
LEMMA WindowCounts ==
    ASSUME Inv, NEW t \in Turns, At(t, "flight")
    PROVE  /\ InWindow(count, turn[t].now) \in Nat
           /\ InWindow(count, turn[t].now) >= Cardinality(Older(turn[t].now))
           /\ InWindow(count, turn[t].now) <=
                Cardinality(InFlight \cup {u \in Lost : turn[u].now >= hour - 2})
<1> DEFINE n == turn[t].now
           window == Held(n) \cup (IF n > 0 THEN Held(n - 1) ELSE {})
<1>1. /\ n \in Hours /\ n \in Nat /\ hour \in Nat /\ n \in {hour, hour - 1}
      /\ \A u \in Turns : turn[u].now \in Nat
      /\ n > 0 => n - 1 \in Hours
  <2>1. Live(t)
    BY DEF At, Live
  <2>2. QED
    BY SMTT(30), <2>1, HourNumbers, AllowanceAssumption
       DEF Inv, Typed, Turn, Recent, Hours, AllowanceAssumption
<1>2. \A h : Held(h) \in SUBSET Turns /\ IsFiniteSet(Held(h)) /\ Cardinality(Held(h)) \in Nat
  BY Finite DEF Held, InFlight, Lost
<1>3. InWindow(count, n) = Cardinality(window)
  <2>1. CASE n > 0
    <3>1. count[n] = Cardinality(Held(n)) /\ count[n - 1] = Cardinality(Held(n - 1))
      BY <1>1, <2>1 DEF Inv, ReservationsExact
    <3>2. Held(n) \cap Held(n - 1) = {}
      BY <1>1 DEF Held
    <3>3. Cardinality(Held(n) \cup Held(n - 1)) = Cardinality(Held(n)) + Cardinality(Held(n - 1))
      BY SMTT(30), <1>2, <3>2, FS_Union, FS_EmptySet
    <3>4. window = Held(n) \cup Held(n - 1)
      BY <2>1
    <3>5. InWindow(count, n) = count[n] + count[n - 1]
      BY <2>1 DEF InWindow
    <3>6. QED
      BY <3>1, <3>3, <3>4, <3>5, Zenon
  <2>2. CASE ~(n > 0)
    <3>1. count[n] = Cardinality(Held(n)) /\ window = Held(n)
      BY <1>1, <2>2 DEF Inv, ReservationsExact
    <3>2. InWindow(count, n) = count[n] + 0
      BY <2>2 DEF InWindow
    <3>3. count[n] \in Nat
      BY <1>2, <3>1
    <3>4. InWindow(count, n) = count[n]
      BY <3>2, <3>3
    <3>5. QED
      BY <3>1, <3>4
  <2>3. QED
    BY <2>1, <2>2
<1>4. window \in SUBSET Turns
  BY <1>2
<1>5. Older(n) \subseteq window
  <2>1. \A u \in InFlight : turn[u].now \in {hour, hour - 1}
    BY DEF InFlight, Live, Inv, Recent
  <2>2. \A u \in Older(n) : u \in InFlight /\ turn[u].now <= n
    BY DEF Older
  <2>3. ASSUME NEW u \in Older(n) PROVE u \in window
    <3>1. turn[u].now = n \/ (n > 0 /\ turn[u].now = n - 1)
      <4>1. u \in Turns
        BY <2>2 DEF InFlight
      <4>2. QED
        BY <1>1, <2>1, <2>2, <4>1
    <3>2. QED
      BY <2>2, <3>1 DEF Held
  <2>4. QED
    BY <2>3
<1>6. window \subseteq InFlight \cup {u \in Lost : turn[u].now >= hour - 2}
  BY <1>1 DEF Held
<1>7. InFlight \cup {u \in Lost : turn[u].now >= hour - 2} \in SUBSET Turns
  BY DEF InFlight, Lost
<1> HIDE DEF window
<1>8. QED
  BY <1>3, <1>4, <1>5, <1>6, <1>7, Finite, Fewer

-----------------------------------------------------------------------------
(* The steps *)

\* The fields of a turn that moves on.
LEMMA Moved ==
    ASSUME NEW r, Turn(r), NEW x
    PROVE  /\ Turn([r EXCEPT !.pc = x])
           /\ [r EXCEPT !.pc = x].pc = x /\ [r EXCEPT !.pc = x].now = r.now
           /\ [r EXCEPT !.pc = x].flight = r.flight
BY DEF Turn

\* A turn may be overwritten.
LEMMA TurnWritten ==
    ASSUME Inv, NEW t \in Turns, NEW r, Turn(r), turn' = [turn EXCEPT ![t] = r]
    PROVE  /\ turn' = [u \in Turns |-> turn'[u]] /\ \A u \in Turns : Turn(turn'[u])
           /\ turn'[t] = r /\ \A u \in Turns \ {t} : turn'[u] = turn[u]
BY DEF Inv, Typed, Turn

Flying(r) == r.pc \in {"running", "clearing", "settled"}
Holding(r) == r.pc \in {"running", "clearing", "settled", "lost"}

\* A turn that goes on, takes no place in a bucket and gives none back.
GoesOn(t, r) ==
    /\ Turn(r)
    /\ r.now = hour \/ (r.now = turn[t].now /\ (Live(t) \/ r.pc = "idle"))
    /\ Judging(r) => lock' = t
    /\ \A u \in Turns \ {t} : lock = u => lock' = u
    /\ Flying(r) => Flying(turn[t]) /\ r.now = turn[t].now
    /\ Holding(r) <=> Holding(turn[t])
    /\ Holding(r) => r.now = turn[t].now
    /\ r.pc = "judge" => r.flight \in Nat /\ r.flight >= Cardinality(Older(r.now))

\* Such a step keeps the invariant.
LEMMA TurnGoesOn ==
    ASSUME Inv, NEW t \in Turns, NEW r, turn' = [turn EXCEPT ![t] = r], UNCHANGED <<hour, count>>,
           GoesOn(t, r)
    PROVE  Inv'
<1>1. /\ turn' = [u \in Turns |-> turn'[u]] /\ \A u \in Turns : Turn(turn'[u])
      /\ turn'[t] = r /\ \A u \in Turns \ {t} : turn'[u] = turn[u]
  BY TurnWritten DEF GoesOn
<1>2. Typed'
  BY <1>1 DEF Inv, Typed
<1>3. Recent'
  BY <1>1 DEF Inv, Recent, Live, GoesOn
<1>4. LockHeld'
  BY <1>1 DEF Inv, LockHeld, GoesOn
<1>5. ReservationsExact'
  <2>1. \A h : Held(h)' = Held(h)
    BY <1>1 DEF Held, InFlight, Lost, At, Holding, GoesOn
  <2>2. QED
    BY <2>1 DEF Inv, ReservationsExact
<1>6. Covered'
  <2>1. InFlight' \subseteq InFlight /\ \A u \in InFlight' : turn'[u].now = turn[u].now
    BY <1>1 DEF InFlight, Flying, GoesOn
  <2>2. \A n : Older(n)' \subseteq Older(n) /\ Older(n) \in SUBSET Turns
    BY <2>1 DEF Older, InFlight
  <2>3. \A n : Cardinality(Older(n)') <= Cardinality(Older(n))
    BY <2>2, Fewer
  <2>4. \A n : Cardinality(Older(n)') \in Nat /\ Cardinality(Older(n)) \in Nat
    <3>1. \A n : Older(n)' \in SUBSET Turns
      BY <2>2
    <3>2. QED
      BY <2>2, <3>1, Finite
  <2>5. ASSUME NEW u \in Turns, At(u, "judge")'
        PROVE  (turn[u].flight \in Nat /\ turn[u].flight >= Cardinality(Older(turn[u].now)))'
    <3>1. PICK n : n = turn'[u].now
      OBVIOUS
    <3>2. turn'[u].flight \in Nat /\ turn'[u].flight >= Cardinality(Older(n))
      BY <1>1, <2>5, <3>1 DEF At, Inv, Covered, GoesOn
    <3>3. Older(turn[u].now)' = Older(n)'
      BY <3>1 DEF Older
    <3>4. turn'[u].flight >= Cardinality(Older(n)')
      BY <2>3, <2>4, <3>2
    <3>5. QED
      BY <3>2, <3>3, <3>4
  <2>6. QED
    BY <2>5 DEF Covered
<1>7. QED
  BY <1>2, <1>3, <1>4, <1>5, <1>6 DEF Inv

\* The steps before the verdict, and those that end a judgement without one.
LEMMA JudgingKeeps ==
    ASSUME Inv, NEW t \in Turns,
           Ask(t) \/ TakeLock(t) \/ ReadSpend(t) \/ Refuse(t) \/ JudgementFails(t)
    PROVE  Inv'
<1>1. Turn(turn[t]) /\ hour \in Hours /\ UNCHANGED <<hour, count>>
  BY DEF Inv, Typed, Ask, TakeLock, ReadSpend, Refuse, JudgementFails
<1>2. \A u \in Turns : u # NoTurn
  BY AllowanceAssumption DEF AllowanceAssumption
<1>3. CASE Ask(t)
  <2> DEFINE r == [turn[t] EXCEPT !.pc = "asking", !.now = hour]
  <2>1. turn' = [turn EXCEPT ![t] = r] /\ lock' = lock /\ At(t, "idle")
    BY <1>3 DEF Ask
  <2>2. Turn(r) /\ r.pc = "asking" /\ r.now = hour
    BY <1>1 DEF Turn
  <2> HIDE DEF r
  <2>3. GoesOn(t, r)
    BY <1>1, <2>1, <2>2 DEF GoesOn, At, Judging, Flying, Holding
  <2>4. QED
    BY <1>1, <2>1, <2>3, TurnGoesOn
<1>4. CASE TakeLock(t)
  <2> DEFINE r == [turn[t] EXCEPT !.pc = "spend"]
  <2>1. turn' = [turn EXCEPT ![t] = r] /\ lock = NoTurn /\ lock' = t /\ At(t, "asking")
    BY <1>4 DEF TakeLock, Goto
  <2>2. Turn(r) /\ r.pc = "spend" /\ r.now = turn[t].now
    BY <1>1, Moved
  <2> HIDE DEF r
  <2>3. GoesOn(t, r)
    BY <1>1, <1>2, <2>1, <2>2 DEF GoesOn, At, Live, Judging, Flying, Holding
  <2>4. QED
    BY <1>1, <2>1, <2>3, TurnGoesOn
<1>5. CASE ReadSpend(t)
  <2> DEFINE s == SpentSince(turn[t].now)
             r == [turn[t] EXCEPT !.pc = "flight", !.spend = s]
  <2>1. turn' = [turn EXCEPT ![t] = r] /\ lock' = lock /\ At(t, "spend")
    BY <1>5 DEF ReadSpend
  <2> HIDE DEF s
  <2>2. Turn(r) /\ r.pc = "flight" /\ r.now = turn[t].now
    BY <1>1 DEF Turn
  <2>3. lock = t
    BY <2>1 DEF Inv, LockHeld, Judging, At
  <2> HIDE DEF r
  <2>4. GoesOn(t, r)
    BY <1>1, <2>1, <2>2, <2>3 DEF GoesOn, At, Live, Judging, Flying, Holding
  <2>5. QED
    BY <1>1, <2>1, <2>4, TurnGoesOn
<1>6. CASE Refuse(t) \/ JudgementFails(t)
  <2> DEFINE r == [turn[t] EXCEPT !.pc = "refused"]
  <2>1. turn' = [turn EXCEPT ![t] = r] /\ turn[t].pc \in {"asking", "spend", "flight", "judge"}
    BY <1>6 DEF Refuse, JudgementFails, Goto, At
  <2>2. Turn(r) /\ r.pc = "refused" /\ r.now = turn[t].now
    BY <1>1, Moved
  <2>3. \A u \in Turns \ {t} : lock = u => lock' = u
    <3>1. Refuse(t) => lock = t
      BY DEF Refuse, Inv, LockHeld, Judging, At
    <3>2. QED
      BY <1>6, <3>1 DEF Refuse, JudgementFails
  <2> HIDE DEF r
  <2>4. GoesOn(t, r)
    BY <1>1, <2>1, <2>2, <2>3 DEF GoesOn, Live, Judging, Flying, Holding
  <2>5. QED
    BY <1>1, <2>1, <2>4, TurnGoesOn
<1>7. QED
  BY <1>3, <1>4, <1>5, <1>6

\* Counting who is in flight.
LEMMA ReadInFlightKeeps == ASSUME Inv, NEW t \in Turns, ReadInFlight(t) PROVE Inv'
<1> DEFINE f == InWindow(count, turn[t].now)
           r == [turn[t] EXCEPT !.pc = "judge", !.flight = f]
<1>1. Turn(turn[t]) /\ UNCHANGED <<hour, count, lock>> /\ At(t, "flight") /\ lock = t
  BY DEF Inv, Typed, ReadInFlight, LockHeld, Judging, At
<1>2. turn' = [turn EXCEPT ![t] = r]
  BY DEF ReadInFlight
<1>3. f \in Nat /\ f >= Cardinality(Older(turn[t].now))
  BY <1>1, WindowCounts
<1> HIDE DEF f
<1>4. Turn(r) /\ r.pc = "judge" /\ r.now = turn[t].now /\ r.flight = f
  BY <1>1 DEF Turn
<1> HIDE DEF r
<1>5. GoesOn(t, r)
  BY <1>1, <1>2, <1>3, <1>4 DEF GoesOn, At, Live, Judging, Flying, Holding
<1>6. QED
  BY <1>1, <1>2, <1>3, <1>5, TurnGoesOn

\* Running, and losing the release.
LEMMA RunningKeeps ==
    ASSUME Inv, NEW t \in Turns,
           Recorded(t) \/ ClearFailures(t) \/ NotRecorded(t) \/ CostsNothing(t) \/ LoseRelease(t)
    PROVE  Inv'
<1>1. Turn(turn[t]) /\ UNCHANGED <<hour, count, lock>> /\ Flying(turn[t])
  BY DEF Inv, Typed, Recorded, ClearFailures, NotRecorded, CostsNothing, LoseRelease, Flying, At
<1>2. PICK x \in {"clearing", "settled", "lost"} : Goto(t, x)
  BY DEF Recorded, ClearFailures, NotRecorded, CostsNothing, LoseRelease
<1> DEFINE r == [turn[t] EXCEPT !.pc = x]
<1>3. turn' = [turn EXCEPT ![t] = r]
  BY <1>2 DEF Goto
<1>4. Turn(r) /\ r.pc = x /\ r.now = turn[t].now
  BY <1>1, Moved
<1> HIDE DEF r
<1>5. GoesOn(t, r)
  BY <1>1, <1>3, <1>4 DEF GoesOn, Live, Judging, Flying, Holding
<1>6. QED
  BY <1>1, <1>2, <1>3, <1>5, TurnGoesOn

\* A step of a turn that leaves the buckets as exact as they were.
LEMMA PlaceMoves ==
    ASSUME Inv, NEW t \in Turns, NEW x, Goto(t, x), UNCHANGED hour,
           x \in {"running", "lost", "done"}, Live(t),
           Typed', LockHeld', ReservationsExact',
           x = "running" => lock = t
    PROVE  Inv'
<1> DEFINE r == [turn[t] EXCEPT !.pc = x]
<1>1. Turn(turn[t])
  BY DEF Inv, Typed
<1>2. turn' = [turn EXCEPT ![t] = r]
  BY DEF Goto
<1>3. Turn(r) /\ r.pc = x /\ r.now = turn[t].now
  BY <1>1, Moved
<1> HIDE DEF r
<1>4. turn'[t] = r /\ \A u \in Turns \ {t} : turn'[u] = turn[u]
  BY <1>2, <1>3, TurnWritten
<1>5. Recent'
  BY <1>3, <1>4 DEF Inv, Recent, Live
<1>6. Covered'
  <2>1. ASSUME NEW u \in Turns, At(u, "judge")'
        PROVE  (turn[u].flight \in Nat /\ turn[u].flight >= Cardinality(Older(turn[u].now)))'
    <3>1. u # t /\ turn'[u] = turn[u] /\ At(u, "judge")
      BY <1>3, <1>4, <2>1 DEF At
    <3>2. x # "running"
      BY <3>1 DEF Inv, LockHeld, Judging, At
    <3>3. PICK n : n = turn'[u].now
      OBVIOUS
    <3>4. turn'[u].flight \in Nat /\ turn'[u].flight >= Cardinality(Older(n))
      BY <3>1, <3>3 DEF Inv, Covered
    <3>5. Older(n)' \subseteq Older(n) /\ Older(n) \in SUBSET Turns
      BY <1>3, <1>4, <3>2 DEF Older, InFlight
    <3>6. Cardinality(Older(n)') <= Cardinality(Older(n))
      BY <3>5, Fewer
    <3>7. Cardinality(Older(n)') \in Nat /\ Cardinality(Older(n)) \in Nat
      <4>1. Older(n)' \in SUBSET Turns
        BY <3>5
      <4>2. QED
        BY <3>5, <4>1, Finite
    <3>8. turn'[u].flight >= Cardinality(Older(n)')
      BY <3>4, <3>6, <3>7
    <3>9. Older(turn[u].now)' = Older(n)'
      BY <3>3 DEF Older
    <3>10. QED
      BY <3>4, <3>8, <3>9
  <2>2. QED
    BY <2>1 DEF Covered
<1>7. QED
  BY <1>5, <1>6 DEF Inv

\* An admission takes a place in the bucket of its own clock value, heard of
\* or not.
LEMMA AdmitKeeps == ASSUME Inv, NEW t \in Turns, Admit(t) \/ AdmittedUnheard(t) PROVE Inv'
<1>0. PICK x \in {"running", "lost"} : Goto(t, x)
  BY DEF Admit, AdmittedUnheard
<1> DEFINE r == [turn[t] EXCEPT !.pc = x]
<1>1. PICK n : n = turn[t].now
  OBVIOUS
<1>2. /\ Turn(turn[t]) /\ n \in Hours /\ At(t, "judge") /\ lock = t
      /\ count \in [Hours -> Nat] /\ count' = [count EXCEPT ![n] = @ + 1]
      /\ UNCHANGED hour /\ lock' = NoTurn
  BY <1>1 DEF Inv, Typed, Turn, Admit, AdmittedUnheard, LockHeld, Judging, At
<1>3. turn' = [turn EXCEPT ![t] = r]
  BY <1>0 DEF Goto
<1>4. Turn(r) /\ r.pc = x /\ r.now = n
  BY <1>1, <1>2, Moved
<1> HIDE DEF r
<1>5. /\ turn' = [u \in Turns |-> turn'[u]] /\ \A u \in Turns : Turn(turn'[u])
      /\ turn'[t] = r /\ \A u \in Turns \ {t} : turn'[u] = turn[u]
  BY <1>3, <1>4, TurnWritten
<1>6. Typed'
  BY <1>1, <1>2, <1>5 DEF Inv, Typed
<1>7. LockHeld'
  BY <1>1, <1>2, <1>4, <1>5 DEF Inv, LockHeld, Judging
<1>8. ReservationsExact'
  <2>1. t \notin Held(n) /\ Held(n)' = Held(n) \cup {t} /\ \A h : h # n => Held(h)' = Held(h)
    BY <1>1, <1>2, <1>4, <1>5 DEF Held, InFlight, Lost, At
  <2>2. IsFiniteSet(Held(n))
    BY Finite DEF Held, InFlight, Lost
  <2>3. Cardinality(Held(n)') = Cardinality(Held(n)) + 1
    BY SMTT(30), <2>1, <2>2, FS_AddElement
  <2>4. ASSUME NEW h \in Hours PROVE count'[h] = Cardinality(Held(h)')
    <3>1. CASE h = n
      <4>1. count'[h] = count[n] + 1 /\ count[n] = Cardinality(Held(n))
        BY <1>1, <1>2, <3>1 DEF Inv, ReservationsExact
      <4>2. QED
        BY <2>3, <3>1, <4>1
    <3>2. CASE h # n
      BY <1>1, <1>2, <2>1, <3>2 DEF Inv, ReservationsExact
    <3>3. QED
      BY <3>1, <3>2
  <2>5. QED
    BY <1>1, <1>2, <2>4 DEF ReservationsExact, Hours
<1>9. QED
  BY <1>0, <1>1, <1>2, <1>6, <1>7, <1>8, PlaceMoves DEF At, Live

\* A release gives that place back, and no other.
LEMMA ReleaseKeeps == ASSUME Inv, NEW t \in Turns, Release(t) PROVE Inv'
<1> DEFINE r == [turn[t] EXCEPT !.pc = "done"]
<1>1. PICK n : n = turn[t].now
  OBVIOUS
<1>2. /\ Turn(turn[t]) /\ n \in Hours /\ At(t, "settled") /\ UNCHANGED <<hour, lock>>
      /\ count \in [Hours -> Nat] /\ count' = [count EXCEPT ![n] = IF @ > 0 THEN @ - 1 ELSE @]
  BY <1>1 DEF Inv, Typed, Turn, Release, Released
<1>3. turn' = [turn EXCEPT ![t] = r] /\ Goto(t, "done")
  BY DEF Release, Goto
<1>4. Turn(r) /\ r.pc = "done" /\ r.now = n
  BY <1>1, <1>2, Moved
<1> HIDE DEF r
<1>5. /\ turn' = [u \in Turns |-> turn'[u]] /\ \A u \in Turns : Turn(turn'[u])
      /\ turn'[t] = r /\ \A u \in Turns \ {t} : turn'[u] = turn[u]
  BY <1>3, <1>4, TurnWritten
<1>6. Typed'
  BY <1>1, <1>2, <1>5 DEF Inv, Typed
<1>7. LockHeld'
  BY <1>1, <1>2, <1>4, <1>5 DEF Inv, LockHeld, Judging
<1>8. ReservationsExact'
  <2>1. t \in Held(n) /\ Held(n)' = Held(n) \ {t} /\ \A h : h # n => Held(h)' = Held(h)
    BY <1>1, <1>2, <1>4, <1>5 DEF Held, InFlight, Lost, At
  <2>2. IsFiniteSet(Held(n)) /\ Cardinality(Held(n)) \in Nat
    BY Finite DEF Held, InFlight, Lost
  <2>3. Cardinality(Held(n)') = Cardinality(Held(n)) - 1 /\ Cardinality(Held(n)) # 0
    BY <2>1, <2>2, FS_RemoveElement, FS_EmptySet
  <2>4. ASSUME NEW h \in Hours PROVE count'[h] = Cardinality(Held(h)')
    <3>1. CASE h = n
      <4>1. count[n] = Cardinality(Held(n)) /\ count[n] > 0
        BY <1>1, <1>2, <2>2, <2>3 DEF Inv, ReservationsExact
      <4>2. count'[h] = count[n] - 1
        BY <1>1, <1>2, <3>1, <4>1
      <4>3. QED
        BY <2>3, <3>1, <4>1, <4>2
    <3>2. CASE h # n
      BY <1>1, <1>2, <2>1, <3>2 DEF Inv, ReservationsExact
    <3>3. QED
      BY <3>1, <3>2
  <2>5. QED
    BY <2>4 DEF ReservationsExact, Hours
<1>9. QED
  BY <1>1, <1>2, <1>3, <1>6, <1>7, <1>8, PlaceMoves DEF At, Live

\* The hour changes for turns that have not seen it change.
LEMMA NextHourKeeps == ASSUME Inv, NextHour PROVE Inv'
<1>1. UNCHANGED <<lock, count, turn>> /\ hour' = hour + 1 /\ hour < LastHour
  BY DEF NextHour
<1>2. hour \in Nat /\ hour' \in Hours
  BY <1>1, AllowanceAssumption DEF Inv, Typed, Hours, AllowanceAssumption
<1>3. Typed'
  BY <1>1, <1>2 DEF Inv, Typed
<1>4. Recent'
  BY <1>1, <1>2 DEF NextHour, Recent, Live
<1>5. LockHeld'
  BY <1>1 DEF Inv, LockHeld
<1>6. ReservationsExact'
  <2>1. \A h : Held(h)' = Held(h)
    BY <1>1 DEF Held, InFlight, Lost, At
  <2>2. QED
    BY <1>1, <2>1 DEF Inv, ReservationsExact
<1>7. Covered'
  <2>1. \A n : Older(n)' = Older(n)
    BY <1>1 DEF Older, InFlight
  <2>2. QED
    BY <1>1, <2>1 DEF Inv, Covered, At, Older, InFlight
<1>8. QED
  BY <1>3, <1>4, <1>5, <1>6, <1>7 DEF Inv

\* The invariant holds at first.
LEMMA InitInv == Init => Inv
<1> SUFFICES ASSUME Init PROVE Inv
  OBVIOUS
<1>1. 0 \in Hours
  BY AllowanceAssumption DEF AllowanceAssumption, Hours
<1>2. \A t \in Turns : Turn(turn[t]) /\ turn[t].pc = "idle"
  BY <1>1 DEF Init, Turn
<1>3. Typed
  BY <1>1, <1>2 DEF Init, Typed
<1>4. Recent /\ LockHeld /\ Covered
  BY <1>2 DEF Recent, LockHeld, Covered, Live, Judging, At
<1>5. ReservationsExact
  <2>1. \A h : Held(h) = {}
    BY <1>2 DEF Held, InFlight, Lost, At
  <2>2. QED
    BY <2>1, FS_EmptySet DEF Init, ReservationsExact
<1>6. QED
  BY <1>3, <1>4, <1>5 DEF Inv

\* Every step keeps it.
LEMMA StepInv == Inv /\ [Next]_vars => Inv'
<1> SUFFICES ASSUME Inv, [Next]_vars PROVE Inv'
  OBVIOUS
<1>1. CASE UNCHANGED vars
  <2>1. \A n : Older(n)' = Older(n) /\ Held(n)' = Held(n)
    BY <1>1 DEF vars, Older, Held, InFlight, Lost, At
  <2>2. QED
    BY <1>1, <2>1 DEF vars, Inv, Typed, Recent, LockHeld, ReservationsExact, Covered, Live, At,
                      Older, InFlight
<1>2. CASE NextHour
  BY <1>2, NextHourKeeps
<1>3. ASSUME NEW t \in Turns,
             \/ Ask(t) \/ TakeLock(t) \/ ReadSpend(t) \/ ReadInFlight(t)
             \/ Admit(t) \/ Refuse(t) \/ JudgementFails(t) \/ AdmittedUnheard(t)
             \/ Recorded(t) \/ ClearFailures(t) \/ NotRecorded(t) \/ CostsNothing(t)
             \/ Release(t) \/ LoseRelease(t)
      PROVE  Inv'
  BY <1>3, JudgingKeeps, ReadInFlightKeeps, RunningKeeps, AdmitKeeps, ReleaseKeeps
<1>4. QED
  BY <1>1, <1>2, <1>3 DEF Next

\* The invariant holds throughout.
LEMMA InvHolds == Spec => []Inv
BY InitInv, StepInv, PTL DEF Spec

-----------------------------------------------------------------------------
(* Types *)

\* A later hour falls on no earlier day, and an hour's day is a number.
LEMMA DaysInOrder ==
    ASSUME NEW h \in Nat, NEW m \in Nat, h <= m
    PROVE  DayOf(h) \in Nat /\ DayOf(h) <= DayOf(m)
BY AllowanceAssumption DEF AllowanceAssumption, DayOf

\* An hour of the model falls on a day of the model.
LEMMA DayOfHour == ASSUME NEW h \in Hours PROVE DayOf(h) \in Days
<1>1. h \in Nat /\ LastHour \in Nat /\ h <= LastHour
  BY AllowanceAssumption DEF AllowanceAssumption, Hours
<1>2. DayOf(h) \in Nat /\ DayOf(h) <= DayOf(LastHour) /\ DayOf(LastHour) \in Nat
  BY <1>1, DaysInOrder
<1>3. QED
  BY <1>2 DEF Days

\* What is spent, and what two buckets hold, are numbers.
LEMMA SpentSinceType ==
    ASSUME spent \in [Days -> Nat], NEW h \in Hours PROVE SpentSince(h) \in Nat
BY DayOfHour DEF SpentSince

\* What does not concern the turns.
LedgersTyped ==
    /\ lock \in Turns \cup {NoTurn}
    /\ spent \in [Days -> Nat]
    /\ failures \in [Hours -> Nat]
    /\ consecutive \in [Procs -> Nat]
    /\ faults \in 0..MaxFaults

\* The record of a turn.
TurnType == [pc : Pcs, now : Hours, spend : Nat, flight : Nat]
TurnsTyped == turn \in [Turns -> TurnType]

\* A step that moves a turn on keeps its record's type.
LEMMA GotoTyped ==
    ASSUME TurnsTyped, NEW t \in Turns, NEW x \in Pcs, Goto(t, x)
    PROVE  TurnsTyped'
BY DEF TurnsTyped, TurnType, Goto

\* A judgement reads numbers into its record; every other step moves it on.
LEMMA TurnTyped ==
    ASSUME Inv, TurnsTyped, LedgersTyped, [Next]_vars
    PROVE  TurnsTyped'
<1>1. CASE UNCHANGED turn
  BY <1>1 DEF TurnsTyped
<1>2. ASSUME NEW t \in Turns, Ask(t) PROVE TurnsTyped'
  <2>1. hour \in Hours
    BY DEF Inv, Typed
  <2>2. [turn[t] EXCEPT !.pc = "asking", !.now = hour] \in TurnType
    BY <2>1 DEF TurnsTyped, TurnType, Pcs
  <2>3. QED
    BY <1>2, <2>2 DEF Ask, TurnsTyped
<1>3. ASSUME NEW t \in Turns, ReadSpend(t) PROVE TurnsTyped'
  <2>1. PICK s : s = SpentSince(turn[t].now)
    OBVIOUS
  <2>2. s \in Nat
    BY <2>1, SpentSinceType DEF TurnsTyped, TurnType, LedgersTyped
  <2>3. [turn[t] EXCEPT !.pc = "flight", !.spend = s] \in TurnType
    BY <2>2 DEF TurnsTyped, TurnType, Pcs
  <2>4. turn' = [turn EXCEPT ![t] = [turn[t] EXCEPT !.pc = "flight", !.spend = s]]
    BY <1>3, <2>1 DEF ReadSpend
  <2>5. QED
    BY <2>3, <2>4 DEF TurnsTyped
<1>4. ASSUME NEW t \in Turns, ReadInFlight(t) PROVE TurnsTyped'
  <2>1. PICK f : f = InWindow(count, turn[t].now)
    OBVIOUS
  <2>2. f \in Nat
    BY <1>4, <2>1, WindowCounts DEF ReadInFlight
  <2>3. [turn[t] EXCEPT !.pc = "judge", !.flight = f] \in TurnType
    BY <2>2 DEF TurnsTyped, TurnType, Pcs
  <2>4. turn' = [turn EXCEPT ![t] = [turn[t] EXCEPT !.pc = "judge", !.flight = f]]
    BY <1>4, <2>1 DEF ReadInFlight
  <2>5. QED
    BY <2>3, <2>4 DEF TurnsTyped
<1>5. ASSUME NEW t \in Turns, TakeLock(t) \/ Admit(t) \/ Refuse(t) \/ JudgementFails(t)
                              \/ AdmittedUnheard(t)
                              \/ Recorded(t) \/ ClearFailures(t) \/ NotRecorded(t) \/ CostsNothing(t)
                              \/ Release(t) \/ LoseRelease(t)
      PROVE  TurnsTyped'
  <2>1. PICK x \in {"spend", "running", "refused", "clearing", "settled", "done", "lost"} : Goto(t, x)
    BY <1>5 DEF TakeLock, Admit, Refuse, JudgementFails, AdmittedUnheard, Recorded, ClearFailures, NotRecorded, CostsNothing,
                Release, LoseRelease
  <2>2. QED
    BY <2>1, GotoTyped DEF Pcs
<1>6. QED
  BY <1>1, <1>2, <1>3, <1>4, <1>5 DEF Next, NextHour, vars

\* What a step adds to a ledger or to a count is a number.
LEMMA LedgerTyped ==
    ASSUME Inv, TurnsTyped, LedgersTyped, [Next]_vars
    PROVE  LedgersTyped'
<1>1. hour \in Hours /\ \A t \in Turns : ProcessOf[t] \in Procs
  BY AllowanceAssumption DEF AllowanceAssumption, Inv, Typed
<1>2. \A n \in 0..MaxFaults : n < MaxFaults => n + 1 \in 0..MaxFaults
  BY AllowanceAssumption DEF AllowanceAssumption
<1>3. CASE UNCHANGED <<lock, spent, failures, consecutive, faults>>
  BY <1>3 DEF LedgersTyped
<1>4. ASSUME NEW t \in Turns, Recorded(t) PROVE LedgersTyped'
  <2>1. spent' \in [Days -> Nat]
    <3>1. PICK c \in Costs : spent' = [spent EXCEPT ![DayOf(hour)] = @ + c]
      BY <1>4 DEF Recorded
    <3>2. c \in Nat /\ DayOf(hour) \in Days
      BY <1>1, DayOfHour, AllowanceAssumption DEF AllowanceAssumption
    <3>3. QED
      BY <3>1, <3>2 DEF LedgersTyped
  <2>2. consecutive' \in [Procs -> Nat]
    BY <1>1, <1>4 DEF Recorded, LedgersTyped
  <2>3. failures' \in [Hours -> Nat]
    BY <1>4 DEF Recorded, LedgersTyped
  <2>4. QED
    BY <1>4, <2>1, <2>2, <2>3 DEF Recorded, LedgersTyped
<1>5. ASSUME NEW t \in Turns, NotRecorded(t) PROVE LedgersTyped'
  <2>1. consecutive' \in [Procs -> Nat]
    BY <1>1, <1>5 DEF NotRecorded, LedgersTyped
  <2>2. failures' \in [Hours -> Nat]
    BY <1>1, <1>5 DEF NotRecorded, LedgersTyped
  <2>3. faults' \in 0..MaxFaults
    BY <1>2, <1>5 DEF NotRecorded, Fault, LedgersTyped
  <2>4. QED
    BY <1>5, <2>1, <2>2, <2>3 DEF NotRecorded, LedgersTyped
<1>6. ASSUME NEW t \in Turns,
             JudgementFails(t) \/ AdmittedUnheard(t) \/ ClearFailures(t) \/ LoseRelease(t)
      PROVE  LedgersTyped'
  <2>1. faults' \in 0..MaxFaults
    BY <1>2, <1>6 DEF JudgementFails, AdmittedUnheard, ClearFailures, LoseRelease, Fault, LedgersTyped
  <2>2. QED
    BY <1>6, <2>1 DEF JudgementFails, AdmittedUnheard, ClearFailures, LoseRelease, LedgersTyped
<1>7. ASSUME NEW t \in Turns, TakeLock(t) \/ Admit(t) \/ Refuse(t) PROVE LedgersTyped'
  BY <1>7 DEF TakeLock, Admit, Refuse, LedgersTyped
<1>8. QED
  BY <1>3, <1>4, <1>5, <1>6, <1>7
     DEF Next, vars, NextHour, Ask, ReadSpend, ReadInFlight, CostsNothing, Release

\* Every count is a number and every turn a record of the judgement, whatever
\* fails: no release takes a bucket below zero.
THEOREM TypeCorrect == Spec => []TypeOK
<1> DEFINE All == Inv /\ TurnsTyped /\ LedgersTyped
<1>1. Init => All
  <2> SUFFICES ASSUME Init PROVE All
    OBVIOUS
  <2>1. 0 \in Hours /\ 0 \in 0..MaxFaults
    BY AllowanceAssumption DEF AllowanceAssumption, Hours
  <2>2. TurnsTyped
    BY <2>1 DEF Init, TurnsTyped, TurnType, Pcs
  <2>3. LedgersTyped
    BY <2>1 DEF Init, LedgersTyped
  <2>4. QED
    BY <2>2, <2>3, InitInv
<1>2. All /\ [Next]_vars => All'
  BY StepInv, TurnTyped, LedgerTyped
<1>3. All => TypeOK
  BY DEF TypeOK, Inv, Typed, TurnsTyped, TurnType, LedgersTyped
<1>4. QED
  BY <1>1, <1>2, <1>3, PTL DEF Spec

-----------------------------------------------------------------------------
\* No release takes away another turn's reservation, in whichever hour it
\* comes (allowance-reservation.ts:24-32).
THEOREM ReservationsAreExact == Spec => []ReservationsExact
<1>1. Inv => ReservationsExact
  BY DEF Inv
<1>2. QED
  BY <1>1, InvHolds, PTL

\* An admission has counted every turn in flight that was judged on a clock
\* value no newer than its own: the lock does what it is taken for.
THEOREM AdmissionsCount == Spec => CountedUnlessNewer
<1>1. Inv => [\A t \in Turns :
                At(t, "judge") /\ turn'[t].pc = "running" =>
                   turn[t].flight >= Cardinality(Older(turn[t].now))]_vars
  BY DEF Inv, Covered
<1>2. QED
  BY <1>1, InvHolds, PTL DEF CountedUnlessNewer

\* Nobody is judged on more than the turns in flight and those lost two hours
\* ago at most: a lost release does not lock the customer out.
THEOREM LostReservationsDoAge == Spec => LostReservationsAge
<1>1. Inv /\ [Next]_vars =>
        [\A t \in Turns :
           At(t, "flight") /\ turn'[t].pc = "judge" =>
              turn'[t].flight <=
                 Cardinality(InFlight \cup {u \in Lost : turn[u].now >= hour - 2})]_vars
  <2> SUFFICES ASSUME Inv, Next, NEW t \in Turns, At(t, "flight"), turn'[t].pc = "judge"
               PROVE  turn'[t].flight <=
                        Cardinality(InFlight \cup {u \in Lost : turn[u].now >= hour - 2})
    OBVIOUS
  <2>1. turn = [u \in Turns |-> turn[u]] /\ \A u \in Turns : Turn(turn[u])
    BY DEF Inv, Typed
  <2>2. ReadInFlight(t)
    <3>1. turn' # turn /\ turn'[t] # turn[t]
      BY DEF At
    <3>2. ~NextHour
      BY <3>1 DEF NextHour
    <3>3. PICK u \in Turns : \/ Ask(u) \/ TakeLock(u) \/ ReadSpend(u) \/ ReadInFlight(u)
                             \/ Admit(u) \/ Refuse(u) \/ JudgementFails(u) \/ AdmittedUnheard(u)
                             \/ Recorded(u) \/ ClearFailures(u) \/ NotRecorded(u) \/ CostsNothing(u)
                             \/ Release(u) \/ LoseRelease(u)
      BY <3>2 DEF Next
    <3>4. \E r : turn' = [turn EXCEPT ![u] = r]
      BY <3>3 DEF Ask, TakeLock, ReadSpend, ReadInFlight, Admit, Refuse, JudgementFails, Recorded,
                  AdmittedUnheard, ClearFailures, NotRecorded, CostsNothing, Release, LoseRelease, Goto
    <3>5. u = t
      BY <2>1, <3>1, <3>4
    <3>6. \A x : Goto(t, x) => turn'[t].pc = x
      BY <2>1 DEF Goto, Turn
    <3>7. ~JudgementFails(t)
      BY <3>6 DEF JudgementFails
    <3>8. QED
      BY <3>3, <3>5, <3>7 DEF Ask, TakeLock, ReadSpend, Admit, Refuse, Recorded,
                  AdmittedUnheard, ClearFailures, NotRecorded, CostsNothing, Release, LoseRelease, At
  <2>3. turn'[t].flight = InWindow(count, turn[t].now)
    BY <2>1, <2>2 DEF ReadInFlight, Turn
  <2>4. QED
    BY <2>3, WindowCounts
<1>2. QED
  BY <1>1, InvHolds, PTL DEF Spec, LostReservationsAge

=============================================================================
