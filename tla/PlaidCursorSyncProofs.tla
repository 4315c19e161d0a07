------------------------ MODULE PlaidCursorSyncProofs ------------------------
(***************************************************************************)
(* Why the cursor never passes an unstored transaction, for any number of  *)
(* ids, events, accounts, restarts and failures, as long as a fingerprint  *)
(* stands for one event.                                                   *)
(*                                                                         *)
(* CursorSafety speaks of every id behind the cursor, and is not           *)
(* inductive: a removal may leave the newest id of an event the only one   *)
(* that is stored.  What is kept is Safe(p): at p, every event that has an *)
(* id on offer has its newest id's version stored, or a newer one.  It     *)
(* holds at the cursor and at both places a restart may go back to.  The   *)
(* provider's guards make the newest id the one that stays (LogInv,        *)
(* NewestStays, NewerIsLater).  A page adds to it row by row: the id of an *)
(* event that comes last in the page is its newest (NewestComesLast), so   *)
(* what it writes is not taken away by the ids before it (PageStored), and *)
(* when the page is done Safe holds at its end (ConsumedIsSafe).           *)
(*                                                                         *)
(* Why a completed run mirrors the provider: NoGhost(p) is the converse of *)
(* Safe(p).  A live row's id is on offer at p, or is upserted beyond p in  *)
(* what has been served.  A cursor does not move past a page before the    *)
(* removals in it are done (RemovalsDone), and Seen, the length of the log *)
(* when its last page was served, bounds the removals that a tombstone may *)
(* still be waiting for.  At the end of the log both meet: what is live is *)
(* on offer, and what is on offer is live (MirrorHolds).                   *)
(***************************************************************************)
EXTENDS PlaidCursorSync, FiniteSetTheorems, WellFoundedInduction, TLAPS

-----------------------------------------------------------------------------
(* The largest of finitely many numbers *)

\* What the elements of S above x are: the fewer, the larger x.
LEMMA MaxIs ==
    ASSUME NEW S \in SUBSET Nat, IsFiniteSet(S), S # {}
    PROVE  Max(S) \in S /\ \A x \in S : x <= Max(S)
<1> DEFINE Above(x) == {y \in S : x < y}
           T == {Above(x) : x \in S}
<1>1. T \subseteq FiniteSubsetsOf(S) /\ T # {}
  <2>1. \A x \in S : Above(x) \in SUBSET S
    OBVIOUS
  <2>2. \A x \in S : IsFiniteSet(Above(x))
    BY <2>1, FS_Subset
  <2>3. QED
    BY <2>1, <2>2 DEF FiniteSubsetsOf
<1>2. PICK A \in T : \A B \in T : <<B, A>> \notin StrictSubsetOrdering(S)
  BY <1>1, FS_StrictSubsetOrderingWellFounded, WFMin
<1>3. PICK x \in S : A = Above(x)
  BY <1>2
<1>4. ASSUME NEW y \in S, x < y PROVE FALSE
  <2>1. Above(y) \subseteq A /\ Above(y) # A
    <3>1. \A z \in S : y < z => x < z
      BY <1>4
    <3>2. y \in A /\ y \notin Above(y)
      BY <1>3, <1>4
    <3>3. QED
      BY <1>3, <3>1, <3>2
  <2>2. Above(y) \in T /\ A \in SUBSET S /\ Above(y) \in SUBSET S
    BY <1>3
  <2>3. QED
    BY <1>2, <2>1, <2>2 DEF StrictSubsetOrdering
<1>5. \A y \in S : x >= y
  BY <1>4
<1>6. Max(S) \in S /\ \A y \in S : Max(S) >= y
  BY <1>5 DEF Max
<1>7. QED
  BY <1>6

-----------------------------------------------------------------------------
(* The log *)

Entries == [txn : Txns, op : {"up", "rm"}]
LogTyped == log \in Seq(Entries)

Up(t, i) == i \in 1..Len(log) /\ log[i].txn = t /\ log[i].op = "up"
Rm(t, i) == i \in 1..Len(log) /\ log[i].txn = t /\ log[i].op = "rm"

SameEvent(t, u) == Event[t] = Event[u]

\* What LastIn finds.
LEMMA LastInIs ==
    ASSUME NEW t \in Txns, NEW from \in Nat, NEW to \in Nat
    PROVE  LET i == LastIn(t, from, to)
           IN  /\ i \in Nat
               /\ i = 0 => \A j \in from+1..to : log[j].txn # t
               /\ i # 0 => /\ i \in from+1..to /\ log[i].txn = t
                          /\ \A j \in i+1..to : log[j].txn # t
<1> DEFINE S == {0} \cup {i \in from+1..to : log[i].txn = t}
<1>1. S \in SUBSET Nat /\ S # {} /\ \A i \in S : i <= to
  OBVIOUS
<1>2. IsFiniteSet(S)
  BY <1>1, FS_BoundedSetOfNaturals
<1>3. Max(S) \in S /\ \A i \in S : i <= Max(S)
  BY <1>1, <1>2, MaxIs
<1>4. LastIn(t, from, to) = Max(S)
  BY DEF LastIn
<1> HIDE DEF S
<1>5. LastIn(t, from, to) \in S /\ \A i \in S : i <= LastIn(t, from, to)
  BY <1>3, <1>4
<1>6. QED
  BY <1>5 DEF S

\* What LastUp finds.
LEMMA LastUpIs ==
    ASSUME LogTyped, NEW ids \in SUBSET Txns
    PROVE  LET k == LastUp(ids)
           IN  /\ k \in Nat
               /\ \A u \in ids : \A i \in Nat : Up(u, i) => i <= k
               /\ k # 0 => \E u \in ids : Up(u, k)
<1> DEFINE S == {0} \cup {i \in 1..Len(log) : log[i].op = "up" /\ log[i].txn \in ids}
<1>a. Len(log) \in Nat
  BY DEF LogTyped
<1>1. S \in SUBSET Nat /\ S # {} /\ \A i \in S : i <= Len(log)
  BY <1>a
<1>2. IsFiniteSet(S)
  <2> HIDE DEF S
  <2> QED  BY <1>a, <1>1, FS_BoundedSetOfNaturals
<1>3. Max(S) \in S /\ \A i \in S : i <= Max(S)
  BY <1>1, <1>2, MaxIs
<1>4. LastUp(ids) = Max(S)
  BY DEF LastUp
<1> HIDE DEF S
<1>5. LastUp(ids) \in S /\ \A i \in S : i <= LastUp(ids)
  BY <1>3, <1>4
<1>6. QED
  BY <1>5 DEF S, Up

\* An event that has been given a new id does not go back to an old one.
NoComeback ==
    \A t, u \in Txns : SameEvent(t, u) /\ t # u =>
        \A a, b, c \in Nat : Up(t, a) /\ Up(u, b) /\ Up(t, c) /\ a < b => c < b

\* An id is removed once a newer one is there, or when no other is left.
OldestFirst ==
    \A t \in Txns, m \in Nat : Rm(t, m) =>
        \/ \E u \in Txns \ {t}, b \in Nat :
              /\ SameEvent(t, u) /\ b < m /\ Up(u, b)
              /\ \A a \in Nat : Up(t, a) /\ a < m => a < b
        \/ \A u \in Txns \ {t}, b \in Nat : SameEvent(t, u) /\ b < m /\ Up(u, b) =>
              \E c \in Nat : b < c /\ c < m /\ Rm(u, c)

RemovedAfterUp ==
    \A t \in Txns, m \in Nat : Rm(t, m) => \E a \in Nat : a < m /\ Up(t, a)

LogInv == LogTyped /\ NoComeback /\ OldestFirst /\ RemovedAfterUp

\* One more entry.
Grown(t, op) == log' = Append(log, [txn |-> t, op |-> op])

LEMMA GrownLog ==
    ASSUME LogTyped, NEW t \in Txns, NEW op \in {"up", "rm"}, Grown(t, op)
    PROVE  /\ LogTyped' /\ Len(log) \in Nat /\ Len(log') = Len(log) + 1
           /\ \A i \in 1..Len(log) : log'[i] = log[i]
           /\ \A u, i : Up(u, i)' <=> Up(u, i) \/ (op = "up" /\ u = t /\ i = Len(log) + 1)
           /\ \A u, i : Rm(u, i)' <=> Rm(u, i) \/ (op = "rm" /\ u = t /\ i = Len(log) + 1)
           /\ \A u, i : Up(u, i) \/ Rm(u, i) => i \in Nat /\ i > 0 /\ i <= Len(log)
<1> DEFINE e == [txn |-> t, op |-> op]
<1>1. e \in Entries /\ e.txn = t /\ e.op = op
  BY DEF Entries
<1> HIDE DEF e
<1>2. log' = Append(log, e)
  BY DEF Grown, e
<1>3. LogTyped' /\ Len(log) \in Nat /\ Len(log') = Len(log) + 1
  BY <1>1, <1>2 DEF LogTyped
<1>4. /\ \A i \in 1..Len(log) : log'[i] = log[i]
      /\ log'[Len(log) + 1] = e
  BY <1>1, <1>2 DEF LogTyped
<1>5. \A i \in 1..Len(log') : i \in 1..Len(log) \/ i = Len(log) + 1
  BY <1>3
<1>6. QED
  BY <1>1, <1>3, <1>4, <1>5 DEF Up, Rm

LEMMA InitLog == log = <<>> => LogInv
BY DEF LogInv, LogTyped, Entries, NoComeback, OldestFirst, RemovedAfterUp, Up, Rm

\* The provider's guards keep the log as described.
LEMMA UpsertKeepsLog ==
    ASSUME LogInv, NEW t \in Txns, ProviderUpserts(t) PROVE LogInv' /\ Grown(t, "up")
<1>1. Grown(t, "up") /\ ~Superseded(t)
  BY DEF ProviderUpserts, Grown
<1>2. LogTyped
  BY DEF LogInv
<1> DEFINE n == Len(log) + 1
<1>3. /\ LogTyped' /\ n \in Nat
      /\ \A u, i : Up(u, i)' <=> Up(u, i) \/ (u = t /\ i = n)
      /\ \A u, i : Rm(u, i)' <=> Rm(u, i)
      /\ \A u, i : Up(u, i) \/ Rm(u, i) => i \in Nat /\ i > 0 /\ i < n
  BY <1>1, <1>2, GrownLog
<1> HIDE DEF n
<1>4. NoComeback'
  <2> SUFFICES ASSUME NEW r \in Txns, NEW u \in Txns, SameEvent(r, u), r # u,
                      NEW a \in Nat, NEW b \in Nat, NEW c \in Nat,
                      Up(r, a)', Up(u, b)', Up(r, c)', a < b, b <= c
               PROVE  FALSE
    BY DEF NoComeback, SameEvent
  <2>1. ~(Up(r, a) /\ Up(u, b) /\ Up(r, c))
    BY DEF LogInv, NoComeback
  <2>2. r = t /\ c = n /\ Up(r, a) /\ Up(u, b)
    BY <1>3, <2>1
  <2>3. {r} \in SUBSET Txns /\ IdsOf(r) \in SUBSET Txns /\ u \in IdsOf(r)
    BY DEF IdsOf, SameEvent
  <2>4. /\ LastUp({r}) \in Nat /\ LastUp(IdsOf(r)) \in Nat
        /\ a <= LastUp({r}) /\ b <= LastUp(IdsOf(r))
        /\ LastUp({r}) # 0 => Up(r, LastUp({r}))
    BY <1>2, <2>2, <2>3, LastUpIs
  <2>5. a > 0
    BY <1>3, <2>2
  <2>6. LastUp({r}) >= LastUp(IdsOf(r)) /\ Up(r, LastUp({r}))
    BY <1>1, <2>2, <2>4, <2>5 DEF Superseded
  <2>7. LastUp({r}) < b
    BY <2>2, <2>4, <2>6 DEF LogInv, NoComeback
  <2>8. QED
    BY <2>4, <2>6, <2>7
<1>5. OldestFirst' /\ RemovedAfterUp'
  <2> SUFFICES ASSUME NEW r \in Txns, NEW m \in Nat, Rm(r, m)'
               PROVE  /\ \/ \E u \in Txns \ {r}, b \in Nat :
                              /\ SameEvent(r, u) /\ b < m /\ Up(u, b)'
                              /\ \A a \in Nat : Up(r, a)' /\ a < m => a < b
                         \/ \A u \in Txns \ {r}, b \in Nat :
                              SameEvent(r, u) /\ b < m /\ Up(u, b)' =>
                                \E c \in Nat : b < c /\ c < m /\ Rm(u, c)'
                      /\ \E a \in Nat : a < m /\ Up(r, a)'
    BY DEF OldestFirst, RemovedAfterUp, SameEvent
  <2>1. Rm(r, m) /\ m < n
    BY <1>3
  <2>2. \A u, i : i < m => (Up(u, i)' <=> Up(u, i))
    BY <1>3, <2>1
  <2>3. \E a \in Nat : a < m /\ Up(r, a)'
    BY <1>3, <2>1 DEF LogInv, RemovedAfterUp
  <2>4. \/ \E u \in Txns \ {r}, b \in Nat :
              /\ SameEvent(r, u) /\ b < m /\ Up(u, b)
              /\ \A a \in Nat : Up(r, a) /\ a < m => a < b
        \/ \A u \in Txns \ {r}, b \in Nat : SameEvent(r, u) /\ b < m /\ Up(u, b) =>
              \E c \in Nat : b < c /\ c < m /\ Rm(u, c)
    BY <2>1 DEF LogInv, OldestFirst
  <2>5. QED
    BY <1>3, <2>2, <2>3, <2>4
<1>6. QED
  BY <1>1, <1>3, <1>4, <1>5 DEF LogInv

\* t is listed: its last entry is an upsert.
LEMMA ListedUp ==
    ASSUME LogTyped, NEW t \in Txns, LiveAt(t, Len(log))
    PROVE  \E i \in Nat : Up(t, i)
<1> DEFINE i == LastIn(t, 0, Len(log))
<1>1. 0 \in Nat /\ Len(log) \in Nat /\ 0 + 1 = 1
  BY DEF LogTyped
<1>2. i # 0 => i \in 0+1..Len(log) /\ log[i].txn = t
  BY ZenonT(60), <1>1, LastInIs
<1>3. i # 0 /\ log[i].op = "up"
  BY DEF LiveAt
<1> HIDE DEF i
<1>4. QED
  BY <1>1, <1>2, <1>3 DEF Up

\* u is not: each upsert of it is followed by a removal.
LEMMA UnlistedRemoved ==
    ASSUME LogTyped, NEW u \in Txns, ~LiveAt(u, Len(log)), NEW b \in Nat, Up(u, b)
    PROVE  \E c \in Nat : b < c /\ Rm(u, c)
<1> DEFINE i == LastIn(u, 0, Len(log))
<1>1. /\ Len(log) \in Nat /\ i \in Nat
      /\ i = 0 => \A j \in 1..Len(log) : log[j].txn # u
      /\ i # 0 => /\ i \in 1..Len(log) /\ log[i].txn = u
                 /\ \A j \in i+1..Len(log) : log[j].txn # u
  <2>1. 0 \in Nat /\ Len(log) \in Nat /\ 0 + 1 = 1
    BY DEF LogTyped
  <2>2. /\ i \in Nat
        /\ i = 0 => \A j \in 0+1..Len(log) : log[j].txn # u
        /\ i # 0 => /\ i \in 0+1..Len(log) /\ log[i].txn = u
                   /\ \A j \in i+1..Len(log) : log[j].txn # u
    BY ZenonT(60), <2>1, LastInIs
  <2> HIDE DEF i
  <2>3. QED
    BY <2>1, <2>2
<1>2. b \in 1..Len(log) /\ log[b].txn = u /\ log[b].op = "up"
  BY DEF Up
<1>3. i # 0 /\ log[i].op # "up"
  BY <1>1, <1>2 DEF LiveAt
<1>4. log[i].op = "rm"
  <2>1. log[i] \in Entries
    BY <1>1, <1>3 DEF LogTyped
  <2>2. QED
    BY <1>3, <2>1 DEF Entries
<1> HIDE DEF i
<1>5. Rm(u, i) /\ b # i
  BY <1>1, <1>2, <1>3, <1>4 DEF Rm
<1>6. b < i
  BY <1>1, <1>2, <1>3, <1>5
<1>7. QED
  BY <1>1, <1>5, <1>6

LEMMA RemovalKeepsLog ==
    ASSUME LogInv, NEW t \in Txns, ProviderRemoves(t) PROVE LogInv' /\ Grown(t, "rm")
<1>1. Grown(t, "rm") /\ t \in Listed(t) /\ (Superseded(t) \/ Listed(t) = {t})
  BY DEF ProviderRemoves, Grown
<1>2. LogTyped
  BY DEF LogInv
<1> DEFINE n == Len(log) + 1
<1>3. /\ LogTyped' /\ n \in Nat
      /\ \A u, i : Up(u, i)' <=> Up(u, i)
      /\ \A u, i : Rm(u, i)' <=> Rm(u, i) \/ (u = t /\ i = n)
      /\ \A u, i : Up(u, i) \/ Rm(u, i) => i \in Nat /\ i > 0 /\ i < n
  BY <1>1, <1>2, GrownLog
<1> HIDE DEF n
<1>4. NoComeback'
  BY <1>3 DEF LogInv, NoComeback, SameEvent
<1>5. RemovedAfterUp'
  <2> SUFFICES ASSUME NEW r \in Txns, NEW m \in Nat, Rm(r, m)'
               PROVE  \E a \in Nat : a < m /\ Up(r, a)'
    BY DEF RemovedAfterUp
  <2>1. CASE Rm(r, m)
    BY <1>3, <2>1 DEF LogInv, RemovedAfterUp
  <2>2. CASE r = t /\ m = n
    BY <1>1, <1>2, <1>3, <2>2, ListedUp DEF Listed
  <2>3. QED
    BY <1>3, <2>1, <2>2
<1>6. OldestFirst'
  <2> SUFFICES ASSUME NEW r \in Txns, NEW m \in Nat, Rm(r, m)'
               PROVE  \/ \E u \in Txns \ {r}, b \in Nat :
                           /\ SameEvent(r, u) /\ b < m /\ Up(u, b)'
                           /\ \A a \in Nat : Up(r, a)' /\ a < m => a < b
                      \/ \A u \in Txns \ {r}, b \in Nat :
                           SameEvent(r, u) /\ b < m /\ Up(u, b)' =>
                             \E c \in Nat : b < c /\ c < m /\ Rm(u, c)'
    BY DEF OldestFirst, SameEvent
  <2>1. CASE Rm(r, m)
    <3>1. \/ \E u \in Txns \ {r}, b \in Nat :
                /\ SameEvent(r, u) /\ b < m /\ Up(u, b)
                /\ \A a \in Nat : Up(r, a) /\ a < m => a < b
          \/ \A u \in Txns \ {r}, b \in Nat : SameEvent(r, u) /\ b < m /\ Up(u, b) =>
                \E c \in Nat : b < c /\ c < m /\ Rm(u, c)
      BY <2>1 DEF LogInv, OldestFirst
    <3>2. QED
      BY <1>3, <3>1
  <2>2. CASE r = t /\ m = n /\ Superseded(t)
    <3>1. {t} \in SUBSET Txns /\ IdsOf(t) \in SUBSET Txns
      BY DEF IdsOf
    <3>2. /\ LastUp({t}) \in Nat /\ LastUp(IdsOf(t)) \in Nat
          /\ \A a \in Nat : Up(t, a) => a <= LastUp({t})
          /\ LastUp(IdsOf(t)) # 0 => \E u \in IdsOf(t) : Up(u, LastUp(IdsOf(t)))
      BY <1>2, <3>1, LastUpIs
    <3>3. LastUp({t}) < LastUp(IdsOf(t)) /\ LastUp(IdsOf(t)) # 0
      BY <2>2, <3>2 DEF Superseded
    <3>4. PICK u \in IdsOf(t) : Up(u, LastUp(IdsOf(t)))
      BY <3>2, <3>3
    <3>5. u # t /\ SameEvent(t, u) /\ LastUp(IdsOf(t)) < n /\ u \in Txns
      BY <1>3, <3>2, <3>3, <3>4 DEF IdsOf, SameEvent
    <3>6. \A a \in Nat : Up(t, a)' => a < LastUp(IdsOf(t))
      BY <1>3, <3>2, <3>3
    <3>7. QED
      BY <1>3, <2>2, <3>2, <3>4, <3>5, <3>6
  <2>3. CASE r = t /\ m = n /\ Listed(t) = {t}
    <3> SUFFICES ASSUME NEW u \in Txns \ {t}, NEW b \in Nat, SameEvent(t, u), Up(u, b)
                 PROVE  \E c \in Nat : b < c /\ c < n /\ Rm(u, c)
      BY <1>3, <2>3
    <3>1. ~LiveAt(u, Len(log))
      BY <2>3 DEF Listed, SameEvent
    <3>2. QED
      BY <1>2, <1>3, <3>1, UnlistedRemoved
  <2>4. QED
    BY <1>1, <1>3, <2>1, <2>2, <2>3
<1>7. QED
  BY <1>1, <1>3, <1>4, <1>5, <1>6 DEF LogInv

-----------------------------------------------------------------------------
(* Behind a cursor *)

\* k is the last upsert of its event in log[1..p], and names w.
Newest(w, k, p) ==
    /\ Up(w, k) /\ k <= p
    /\ \A v \in Txns, b \in Nat : SameEvent(v, w) /\ Up(v, b) /\ b <= p => b <= k

\* t was upserted at i and not removed until p.
OnOffer(t, i, p) ==
    /\ Up(t, i) /\ i <= p
    /\ \A j \in Nat : i < j /\ j <= p => ~Rm(t, j)

InRun == phase \notin {"idle", "completed"}
InPage == phase \in {"apply", "gate"}

\* How far the log had come when the page in hand, or the last one, was served.
Seen == IF InPage THEN page.next.snap
        ELSE IF phase \in {"finish", "completed"} THEN cursor.snap ELSE Len(log)

SeenKept == \A j \in Nat : j <= Seen => j <= Seen'

SeenRm(u, j) == Rm(u, j) /\ j <= Seen

\* Some row of the event is no older than its newest id; an id that was
\* refused may have come to be newest later than its row.
Held(w, k, p) ==
    \E u \in Txns :
        /\ SameEvent(u, w) /\ HasRow(u)
        /\ IF w \in refused
           THEN \E a \in Nat : Up(w, a) /\ a <= rows[u].ver
           ELSE /\ k <= rows[u].ver
                /\ rows[u].live \/ \E j \in Nat : p < j /\ SeenRm(u, j)

\* Every event with an id on offer at p is stored as far as p.
Safe(p) ==
    \A w, t \in Txns, k, i \in Nat :
        SameEvent(t, w) /\ Newest(w, k, p) /\ OnOffer(t, i, p) => Held(w, k, p)

\* A row carries an upsert of its id, and a tombstone a removal as well.
RowInv ==
    \A u \in Txns : HasRow(u) =>
        /\ rows[u].ver \in Nat /\ Up(u, rows[u].ver)
        /\ rows[u].live \/ \E j \in Nat : SeenRm(u, j)

\* The newest id of an event that is on offer is not removed after it.
LEMMA NewestStays ==
    ASSUME LogInv, NEW w \in Txns, NEW t \in Txns, NEW k \in Nat, NEW i \in Nat, NEW p,
           SameEvent(t, w), Newest(w, k, p), OnOffer(t, i, p),
           p \in Nat, NEW j \in Nat, k < j, j <= p, Rm(w, j)
    PROVE  FALSE
<1>1. Up(w, k) /\ Up(t, i) /\ i <= k
  BY DEF Newest, OnOffer
<1>2. \A u \in Txns \ {w}, b \in Nat : ~(SameEvent(w, u) /\ b < j /\ Up(u, b) /\ k < b)
  BY DEF Newest, SameEvent
<1>3. \A u \in Txns \ {w}, b \in Nat : SameEvent(w, u) /\ b < j /\ Up(u, b) =>
        \E c \in Nat : b < c /\ c < j /\ Rm(u, c)
  BY <1>1, <1>2 DEF LogInv, OldestFirst
<1>4. CASE t = w
  BY <1>1, <1>4 DEF OnOffer
<1>5. CASE t # w
  <2>1. PICK c \in Nat : i < c /\ c < j /\ Rm(t, c)
    BY <1>1, <1>3, <1>5 DEF SameEvent
  <2>2. QED
    BY <2>1 DEF OnOffer
<1>6. QED
  BY <1>4, <1>5

\* Ids that come after the newest at p have no entry before p.
LEMMA NewerIsLater ==
    ASSUME LogInv, NEW w \in Txns, NEW u \in Txns, NEW k \in Nat, NEW p \in Nat,
           SameEvent(u, w), u # w, Newest(w, k, p),
           NEW a \in Nat, NEW b \in Nat, Up(u, a), Up(w, b), b <= a
    PROVE  p < a /\ \A j \in Nat : j <= p => ~Rm(u, j)
<1>1. \A i \in Nat : ~(Up(u, i) /\ Up(w, i))
  BY DEF Up
<1>2. b < a /\ Up(w, k) /\ SameEvent(w, u)
  BY <1>1 DEF Newest, SameEvent
<1>3. k < a
  BY <1>2 DEF LogInv, NoComeback
<1>4. p < a
  BY <1>3 DEF Newest
<1>5. ASSUME NEW c \in Nat, Up(u, c), c <= p PROVE FALSE
  <2>1. c <= k /\ c # k
    BY <1>1, <1>2, <1>5 DEF Newest
  <2>2. c < k
    BY <2>1
  <2>3. a < k
    BY <1>2, <1>5, <2>2 DEF LogInv, NoComeback
  <2>4. QED
    BY <1>3, <2>3
<1>6. \A j \in Nat : j <= p => ~Rm(u, j)
  <2> SUFFICES ASSUME NEW j \in Nat, j <= p, Rm(u, j) PROVE FALSE
    OBVIOUS
  <2>1. PICK c \in Nat : c < j /\ Up(u, c)
    BY DEF LogInv, RemovedAfterUp
  <2>2. QED
    BY <1>5, <2>1
<1>7. QED
  BY <1>4, <1>6

\* There is a newest.
LEMMA NewestExists ==
    ASSUME LogTyped, NEW t \in Txns, NEW i \in Nat, NEW p \in Nat, Up(t, i), i <= p
    PROVE  \E w \in Txns, k \in Nat : SameEvent(t, w) /\ Newest(w, k, p) /\ i <= k
<1> DEFINE S == {b \in 0..p : \E v \in Txns : SameEvent(t, v) /\ Up(v, b)}
<1>1. S \in SUBSET Nat /\ i \in S /\ \A b \in S : b <= p
  BY DEF SameEvent
<1>2. IsFiniteSet(S)
  <2> HIDE DEF S
  <2> QED  BY <1>1, FS_BoundedSetOfNaturals
<1>3. Max(S) \in S /\ \A b \in S : b <= Max(S)
  BY <1>1, <1>2, MaxIs
<1>4. PICK k \in S : \A b \in S : b <= k
  BY <1>3
<1>5. PICK w \in Txns : SameEvent(t, w) /\ Up(w, k)
  BY <1>4
<1>6. k \in Nat /\ k <= p /\ i <= k
  BY <1>1, <1>4
<1>7. \A v \in Txns, b \in Nat : SameEvent(v, w) /\ Up(v, b) /\ b <= p => b <= k
  BY <1>4, <1>5 DEF SameEvent
<1>8. QED
  BY <1>5, <1>6, <1>7 DEF Newest

\* A row of the newest id that is a tombstone, where another id is on offer:
\* its removal is still to come.
LEMMA TombstoneOfNewest ==
    ASSUME LogInv, NEW w \in Txns, NEW t \in Txns, NEW k \in Nat, NEW i \in Nat, NEW p \in Nat,
           SameEvent(t, w), t # w, Newest(w, k, p), OnOffer(t, i, p),
           NEW j \in Nat, Rm(w, j)
    PROVE  p < j
<1> SUFFICES ASSUME j <= p PROVE FALSE
  OBVIOUS
<1>1. Up(w, k) /\ Up(t, i) /\ i <= k /\ SameEvent(w, t)
  BY DEF Newest, OnOffer, SameEvent
<1>2. \A m \in Nat : ~(Up(w, m) /\ Up(t, m)) /\ ~(Up(w, m) /\ Rm(w, m)) /\ ~(Up(t, m) /\ Rm(w, m))
  BY DEF Up, Rm
<1>3. j < k /\ i < k
  <2>1. ~(k < j)
    BY NewestStays
  <2>2. j # k /\ i # k
    BY <1>1, <1>2
  <2>3. QED
    BY <1>1, <2>1, <2>2
<1>4. PICK a \in Nat : a < j /\ Up(w, a)
  BY DEF LogInv, RemovedAfterUp
<1>5. CASE j < i
  <2>1. a < i
    BY <1>4, <1>5
  <2>2. k < i
    BY <1>1, <1>4, <2>1 DEF LogInv, NoComeback
  <2>3. QED
    BY <1>3, <2>2
<1>6. CASE i < j
  <2>1. ASSUME NEW u \in Txns \ {w}, NEW b \in Nat, SameEvent(w, u), b < j, Up(u, b), a < b
        PROVE  FALSE
    <3>1. k < b
      BY <1>1, <1>4, <2>1 DEF LogInv, NoComeback
    <3>2. QED
      BY <1>3, <2>1, <3>1
  <2>2. \E c \in Nat : i < c /\ c < j /\ Rm(t, c)
    BY <1>1, <1>4, <1>6, <2>1 DEF LogInv, OldestFirst
  <2>3. QED
    BY <2>2 DEF OnOffer
<1>7. QED
  BY <1>1, <1>2, <1>5, <1>6

\* The invariant says what it should.
LEMMA SafeIsCursorSafety ==
    ASSUME LogInv, RowInv, cursor.pos \in Nat, cursor.pos <= Len(log), Safe(cursor.pos)
    PROVE  CursorSafety
<1> DEFINE p == cursor.pos
<1> SUFFICES ASSUME NEW t \in Txns, LastIn(t, 0, p) # 0,
                    log[LastIn(t, 0, p)].op = "up", t \notin refused
             PROVE  \E u \in Txns :
                      /\ Event[u] = Event[t]
                      /\ HasRow(u) /\ rows[u].ver >= LastIn(t, 0, p)
                      /\ \/ rows[u].live
                         \/ \E j \in p+1..Len(log) : log[j] = [txn |-> u, op |-> "rm"]
  BY DEF CursorSafety
<1>1. PICK i \in Nat : /\ i = LastIn(t, 0, p)
                       /\ i \in 1..p /\ log[i].txn = t /\ \A j \in i+1..p : log[j].txn # t
  <2>1. 0 \in Nat /\ p \in Nat /\ 0 + 1 = 1
    OBVIOUS
  <2>2. LET i == LastIn(t, 0, p)
        IN i \in Nat /\ (i # 0 => /\ i \in 0+1..p /\ log[i].txn = t
                                  /\ \A j \in i+1..p : log[j].txn # t)
    BY ZenonT(60), <2>1, LastInIs
  <2>3. QED
    BY <2>1, <2>2
<1>2. LogTyped /\ Len(log) \in Nat /\ p \in Nat
  BY DEF LogInv, LogTyped
<1>3. OnOffer(t, i, p)
  BY <1>1, <1>2 DEF OnOffer, Up, Rm
<1>4. PICK w \in Txns, k \in Nat : SameEvent(t, w) /\ Newest(w, k, p) /\ i <= k
  BY <1>2, <1>3, NewestExists DEF OnOffer
<1>5. Held(w, k, p)
  BY <1>3, <1>4 DEF Safe
<1>6. PICK u \in Txns : /\ SameEvent(u, w) /\ HasRow(u)
                        /\ IF w \in refused
                           THEN \E a \in Nat : Up(w, a) /\ a <= rows[u].ver
                           ELSE /\ k <= rows[u].ver
                                /\ rows[u].live \/ \E j \in Nat : p < j /\ Rm(u, j)
  BY <1>5 DEF Held, SeenRm
<1>7. rows[u].ver \in Nat /\ Up(u, rows[u].ver) /\ (rows[u].live \/ \E j \in Nat : Rm(u, j))
  BY <1>6 DEF RowInv, SeenRm
<1>8. /\ i <= rows[u].ver
      /\ rows[u].live \/ \E j \in Nat : p < j /\ Rm(u, j)
  <2>1. CASE w \notin refused
    BY <1>4, <1>6, <1>7, <2>1
  <2>2. CASE w \in refused
    <3>1. PICK a \in Nat : Up(w, a) /\ a <= rows[u].ver
      BY <1>6, <2>2
    <3>2. w # t /\ SameEvent(w, t) /\ SameEvent(u, w) /\ Up(w, k) /\ Up(t, i)
      BY <1>3, <1>4, <1>6, <2>2 DEF SameEvent, Newest, OnOffer
    <3>3. \A m \in Nat : ~(Up(w, m) /\ Up(t, m))
      BY <3>2 DEF Up
    <3>4. ~(a < i)
      <4>1. SUFFICES ASSUME a < i PROVE FALSE
        OBVIOUS
      <4>2. k < i
        BY <3>1, <3>2, <4>1 DEF LogInv, NoComeback
      <4>3. QED
        BY <1>4, <4>2
    <3>5. i <= rows[u].ver
      BY <1>7, <3>1, <3>4
    <3>6. \A j \in Nat : Rm(u, j) => p < j
      <4>1. CASE u = w
        BY <1>2, <1>3, <1>4, <3>2, <4>1, TombstoneOfNewest
      <4>2. CASE u # w
        <5>1. \A j \in Nat : j <= p => ~Rm(u, j)
          BY <1>2, <1>4, <1>7, <3>1, <3>2, <4>2, NewerIsLater
        <5>2. QED
          BY <1>2, <5>1
      <4>3. QED
        BY <4>1, <4>2
    <3>7. QED
      BY <1>7, <3>5, <3>6
  <2>3. QED
    BY <2>1, <2>2
<1>9. ASSUME NEW j \in Nat, p < j, Rm(u, j)
      PROVE  j \in p+1..Len(log) /\ log[j] = [txn |-> u, op |-> "rm"]
  <2>1. j \in 1..Len(log) /\ log[j].txn = u /\ log[j].op = "rm"
    BY <1>9 DEF Rm
  <2>2. log[j] \in Entries
    BY <1>2, <2>1 DEF LogTyped
  <2>3. QED
    BY <1>2, <1>9, <2>1, <2>2 DEF Entries
<1>10. QED
  BY <1>1, <1>4, <1>6, <1>8, <1>9 DEF SameEvent

-----------------------------------------------------------------------------
(* Types *)

ValidCursor(c) == c \in CursorType /\ c.pos <= c.snap /\ c.snap <= Len(log)

\* k is the last entry in log[..to] that names t, and an upsert.
LastUpsert(t, k, to) ==
    /\ Up(t, k) /\ k <= to
    /\ \A b \in Nat : k < b /\ b <= to => ~Up(t, b) /\ ~Rm(t, b)

RunInv ==
    /\ completed = 0 => syncOrigin = NoCursor
    /\ syncOrigin # NoCursor => ValidCursor(syncOrigin) /\ syncOrigin.pos <= cursor.pos
    /\ InRun => /\ local.cursor = cursor
                /\ ValidCursor(local.origin) /\ local.origin.pos <= cursor.pos
                /\ syncOrigin # NoCursor => syncOrigin.pos <= local.origin.pos
    /\ phase = "finish" => EndOfLoop(local.cursor)
    /\ InPage => /\ page.from = cursor.pos
                 /\ ValidCursor(page.next) /\ page.from <= page.next.pos
                 /\ \A t \in page.ups : \E k \in Nat :
                      page.from < k /\ LastUpsert(t, k, page.next.pos)
    /\ phase = "gate" => page.ups = {}

Lookups == UNION {[D -> FinancialAccounts \cup {NoAccount}] : D \in SUBSET Accounts}
Locals == [cursor : CursorType, origin : CursorType, restarts : 0..MAX_PAGINATION_RESTARTS,
           known : Lookups]
Pages == [ups : SUBSET Txns, rms : SUBSET Txns, from : 0..MaxLog,
          next : CursorType, failed : BOOLEAN]

LEMMA Constants0 ==
    /\ StartOfHistory \in CursorType /\ StartOfHistory.pos = 0 /\ StartOfHistory.snap = 0
    /\ NoRun \in Locals /\ NoPage \in Pages
<1>1. StartOfHistory \in CursorType /\ StartOfHistory.pos = 0 /\ StartOfHistory.snap = 0
  BY BoundsAssumption DEF StartOfHistory, CursorType
<1>2. << >> \in Lookups
  <2>1. << >> \in [{} -> FinancialAccounts \cup {NoAccount}]
    OBVIOUS
  <2>2. QED
    BY <2>1 DEF Lookups
<1>3. NoRun \in Locals
  BY <1>1, <1>2, BoundsAssumption DEF NoRun, Locals
<1>4. NoPage \in Pages
  BY <1>1, BoundsAssumption DEF NoPage, Pages
<1>5. QED
  BY <1>1, <1>3, <1>4

\* TypeOK, with the sets above.
Types ==
    /\ LogTyped /\ Len(log) <= MaxLog
    /\ resolve \in [Accounts -> FinancialAccounts \cup {NoAccount}]
    /\ remapped \subseteq Accounts
    /\ rows \in [Txns -> RowType \cup {NoRow}]
    /\ refused \subseteq Txns
    /\ ValidCursor(cursor)
    /\ syncOrigin \in CursorType \cup {NoCursor}
    /\ syncOrigin # NoCursor => EndOfLoop(syncOrigin)
    /\ completed \in 0..2
    /\ phase \in Phases
    /\ local \in Locals
    /\ page \in Pages
    /\ faults \in 0..MaxFaults

LEMMA TypesAreTypeOK == Types => TypeOK
BY DEF Types, TypeOK, LogTyped, Entries, ValidCursor, Locals, Lookups, Pages

TypeInv == Types /\ RunInv

LEMMA InitTypes == Init => TypeInv
<1> SUFFICES ASSUME Init PROVE TypeInv
  OBVIOUS
<1>1. LogTyped /\ Len(log) = 0
  BY DEF Init, LogTyped
<1>2. Types
  BY <1>1, Constants0, FunctionsAssumption, BoundsAssumption
     DEF Init, Types, ValidCursor, Phases, CursorType
<1>3. RunInv
  BY DEF Init, RunInv, InRun, InPage
<1>4. QED
  BY <1>2, <1>3 DEF TypeInv

\* The log grows and nothing else.
LEMMA GrowthKeepsTypes ==
    ASSUME TypeInv, NEW t \in Txns, ProviderUpserts(t) \/ ProviderRemoves(t)
    PROVE  TypeInv'
<1>1. PICK op \in {"up", "rm"} : Grown(t, op)
  BY DEF ProviderUpserts, ProviderRemoves, Grown
<1>2. LogTyped /\ Len(log) < MaxLog
  BY DEF TypeInv, Types, ProviderUpserts, ProviderRemoves
<1>3. UNCHANGED <<resolve, remapped, rows, refused, item, phase, local, page, faults>>
  BY DEF ProviderUpserts, ProviderRemoves
<1>4. /\ LogTyped' /\ Len(log) \in Nat /\ Len(log') = Len(log) + 1
      /\ \A u, i : Up(u, i)' <=> Up(u, i) \/ (op = "up" /\ u = t /\ i = Len(log) + 1)
      /\ \A u, i : Rm(u, i)' <=> Rm(u, i) \/ (op = "rm" /\ u = t /\ i = Len(log) + 1)
      /\ \A u, i : Up(u, i) \/ Rm(u, i) => i \in Nat /\ i > 0 /\ i <= Len(log)
  BY <1>1, <1>2, GrownLog
<1>5. \A c : ValidCursor(c) => ValidCursor(c)'
  BY <1>4 DEF ValidCursor, CursorType
<1>6. Types'
  <2>1. Len(log)' <= MaxLog
    BY <1>2, <1>4, BoundsAssumption
  <2>2. QED
    BY <1>3, <1>4, <1>5, <2>1 DEF TypeInv, Types, item, EndOfLoop
<1>7. \A u \in Txns, k, to \in Nat : to <= Len(log) /\ LastUpsert(u, k, to) => LastUpsert(u, k, to)'
  BY <1>4 DEF LastUpsert
<1>8. RunInv'
  <2>1. InPage => page.next.pos \in Nat /\ page.next.pos <= Len(log) /\ page.ups \in SUBSET Txns
    BY <1>4 DEF TypeInv, Types, RunInv, ValidCursor, CursorType, Pages
  <2>2. QED
    BY <1>3, <1>5, <1>7, <2>1 DEF TypeInv, RunInv, item, InRun, InPage, EndOfLoop
<1>9. QED
  BY <1>6, <1>8 DEF TypeInv

\* The account mapping moves and nothing else.
LEMMA MappingKeepsTypes ==
    ASSUME TypeInv, NEW a \in Accounts, NEW f \in FinancialAccounts,
           AccountImported(a) \/ AccountRemapped(a, f)
    PROVE  TypeInv'
<1>1. UNCHANGED <<log, rows, refused, item, phase, local, page, faults>>
  BY DEF AccountImported, AccountRemapped
<1>2. resolve' \in [Accounts -> FinancialAccounts \cup {NoAccount}] /\ remapped' \subseteq Accounts
  BY FunctionsAssumption DEF TypeInv, Types, AccountImported, AccountRemapped
<1>3. Types'
  BY <1>1, <1>2 DEF TypeInv, Types, LogTyped, item, EndOfLoop, ValidCursor
<1>4. RunInv'
  BY <1>1 DEF TypeInv, RunInv, item, InRun, InPage, EndOfLoop, ValidCursor, LastUpsert, Up, Rm
<1>5. QED
  BY <1>3, <1>4 DEF TypeInv

\* A step that leaves the log, the mapping and the rows alone.
Untouched == UNCHANGED <<log, resolve, remapped, rows, refused>>

LEMMA StartKeepsTypes == ASSUME TypeInv, StartRun PROVE TypeInv'
<1>1. Untouched /\ UNCHANGED <<cursor, syncOrigin, completed, page, faults>> /\ phase' = "fetch"
  BY DEF StartRun, Untouched, provider, item
<1> DEFINE o == IF completed = 0 THEN StartOfHistory
                ELSE IF syncOrigin # NoCursor THEN syncOrigin ELSE cursor
<1>2. /\ ValidCursor(cursor) /\ cursor.pos \in Nat
      /\ ValidCursor(o) /\ o.pos <= cursor.pos
      /\ syncOrigin # NoCursor => syncOrigin.pos <= o.pos
  <2>1. ValidCursor(cursor) /\ cursor.pos \in Nat /\ Len(log) \in Nat
    BY DEF TypeInv, Types, ValidCursor, CursorType, LogTyped
  <2>2. CASE completed = 0
    BY <2>1, <2>2, Constants0 DEF TypeInv, RunInv, ValidCursor
  <2>3. CASE completed # 0 /\ syncOrigin # NoCursor
    BY <2>1, <2>3 DEF TypeInv, RunInv, ValidCursor, CursorType
  <2>4. CASE completed # 0 /\ syncOrigin = NoCursor
    BY <2>1, <2>4
  <2>5. QED
    BY <2>2, <2>3, <2>4
<1>3. local' \in Locals /\ local'.cursor = cursor /\ local'.origin = o
  <2>1. local' = [NoRun EXCEPT !.cursor = cursor, !.origin = o]
    BY DEF StartRun
  <2>2. cursor \in CursorType /\ o \in CursorType
    BY <1>2 DEF ValidCursor
  <2> HIDE DEF o
  <2>3. QED
    BY <2>1, <2>2, Constants0 DEF Locals
<1> HIDE DEF o
<1>4. Types'
  BY <1>1, <1>3 DEF TypeInv, Types, Untouched, LogTyped, EndOfLoop, ValidCursor, Phases
<1>5. RunInv'
  BY <1>1, <1>2, <1>3 DEF TypeInv, RunInv, Untouched, InRun, InPage, ValidCursor
<1>6. QED
  BY <1>4, <1>5 DEF TypeInv

LEMMA MinOfTwo ==
    ASSUME NEW a \in Nat, NEW b \in Nat
    PROVE  Min({a, b}) \in Nat /\ Min({a, b}) <= a /\ Min({a, b}) <= b
<1>1. \E x \in {a, b} : \A y \in {a, b} : x <= y
  <2>1. CASE a <= b
    BY <2>1
  <2>2. CASE b <= a
    BY <2>2
  <2>3. QED
    BY <2>1, <2>2
<1>2. Min({a, b}) \in {a, b} /\ \A y \in {a, b} : Min({a, b}) <= y
  BY <1>1 DEF Min
<1>3. QED
  BY <1>2

\* An id that the page names as upserted: its place.
LEMMA NamedUp ==
    ASSUME LogTyped, NEW t \in Txns, NEW from \in Nat, NEW to \in Nat, to <= Len(log)
    PROVE  LET i == LastIn(t, from, to)
           IN  /\ i \in Nat
               /\ i # 0 /\ log[i].op = "up" => from < i /\ LastUpsert(t, i, to)
               /\ i # 0 /\ log[i].op = "rm" =>
                    /\ from < i /\ i <= to /\ Rm(t, i)
                    /\ \A b \in Nat : i < b /\ b <= to => ~Up(t, b) /\ ~Rm(t, b)
<1> DEFINE i == LastIn(t, from, to)
<1>1. Len(log) \in Nat
  BY DEF LogTyped
<1>2. /\ i \in Nat
      /\ i # 0 => /\ i \in from+1..to /\ log[i].txn = t
                 /\ \A j \in i+1..to : log[j].txn # t
  BY ZenonT(60), LastInIs
<1> HIDE DEF i
<1>3. i # 0 => /\ i \in Nat /\ from < i /\ i <= to /\ i \in 1..Len(log) /\ log[i].txn = t
               /\ \A b \in Nat : i < b /\ b <= to => log[b].txn # t
  BY <1>1, <1>2
<1>4. i # 0 => \A b \in Nat : i < b /\ b <= to => ~Up(t, b) /\ ~Rm(t, b)
  BY <1>3 DEF Up, Rm
<1>5. i # 0 /\ log[i].op = "up" => Up(t, i)
  BY <1>3 DEF Up
<1>6. i # 0 /\ log[i].op = "rm" => Rm(t, i)
  BY <1>3 DEF Rm
<1>7. QED
  BY <1>2, <1>3, <1>4, <1>5, <1>6 DEF LastUpsert, i

LEMMA FetchServes ==
    ASSUME TypeInv, FetchPage
    PROVE  /\ Untouched /\ UNCHANGED <<cursor, syncOrigin, completed, local, faults>>
           /\ phase = "fetch" /\ phase' = "apply" /\ cursor.pos \in Nat
           /\ \E to \in Nat :
                /\ cursor.pos <= to /\ to <= Len(log)
                /\ page' = [ups    |-> {t \in Txns : Names(t, "up", cursor.pos, to)},
                            rms    |-> {t \in Txns : Names(t, "rm", cursor.pos, to)},
                            from   |-> cursor.pos,
                            next   |-> [pos |-> to, snap |-> Len(log)],
                            failed |-> FALSE]
<1>1. /\ Untouched /\ UNCHANGED <<cursor, syncOrigin, completed, local, faults>>
      /\ phase = "fetch" /\ phase' = "apply"
  BY DEF FetchPage, Untouched, provider, item
<1>2. /\ Len(log) \in Nat /\ cursor.pos \in Nat /\ cursor.pos <= Len(log)
      /\ local.cursor = cursor
  BY <1>1 DEF TypeInv, Types, RunInv, InRun, ValidCursor, CursorType, LogTyped
<1>3. cursor.pos + PageSize \in Nat
  BY <1>2, BoundsAssumption
<1>4. PICK to \in cursor.pos .. Min({cursor.pos + PageSize, Len(log)}) :
        page' = [ups    |-> {t \in Txns : Names(t, "up", cursor.pos, to)},
                 rms    |-> {t \in Txns : Names(t, "rm", cursor.pos, to)},
                 from   |-> cursor.pos,
                 next   |-> [pos |-> to, snap |-> Len(log)],
                 failed |-> FALSE]
  BY <1>2 DEF FetchPage
<1>5. to \in Nat /\ cursor.pos <= to /\ to <= Len(log)
  <2>1. /\ Min({cursor.pos + PageSize, Len(log)}) \in Nat
        /\ Min({cursor.pos + PageSize, Len(log)}) <= Len(log)
    BY <1>2, <1>3, MinOfTwo
  <2> HIDE <1>4
  <2>2. QED
    BY <1>2, <2>1
<1>6. QED
  BY <1>1, <1>2, <1>4, <1>5

LEMMA FetchKeepsTypes == ASSUME TypeInv, FetchPage PROVE TypeInv'
<1>1. /\ Untouched /\ UNCHANGED <<cursor, syncOrigin, completed, local, faults>>
      /\ phase = "fetch" /\ phase' = "apply" /\ cursor.pos \in Nat
  BY FetchServes
<1>2. PICK to \in Nat :
        /\ cursor.pos <= to /\ to <= Len(log)
        /\ page' = [ups    |-> {t \in Txns : Names(t, "up", cursor.pos, to)},
                    rms    |-> {t \in Txns : Names(t, "rm", cursor.pos, to)},
                    from   |-> cursor.pos,
                    next   |-> [pos |-> to, snap |-> Len(log)],
                    failed |-> FALSE]
  BY FetchServes
<1>3. LogTyped /\ Len(log) \in Nat /\ Len(log) <= MaxLog /\ MaxLog \in Nat
  BY BoundsAssumption DEF TypeInv, Types, LogTyped
<1>4. ValidCursor([pos |-> to, snap |-> Len(log)]) /\ cursor.pos \in 0..MaxLog
  BY <1>1, <1>2, <1>3 DEF ValidCursor, CursorType
<1>5. /\ page' \in Pages /\ page'.from = cursor.pos
      /\ page'.next = [pos |-> to, snap |-> Len(log)]
      /\ page'.ups = {t \in Txns : Names(t, "up", cursor.pos, to)}
  BY <1>2, <1>4 DEF Pages, ValidCursor
<1>6. Types'
  BY <1>1, <1>5 DEF TypeInv, Types, Untouched, LogTyped, EndOfLoop, ValidCursor, Phases
<1>7. \A t \in page'.ups : \E k \in Nat : cursor.pos < k /\ LastUpsert(t, k, to)
  <2> SUFFICES ASSUME NEW t \in Txns, Names(t, "up", cursor.pos, to)
               PROVE  \E k \in Nat : cursor.pos < k /\ LastUpsert(t, k, to)
    BY <1>5
  <2>1. LastIn(t, cursor.pos, to) # 0 /\ log[LastIn(t, cursor.pos, to)].op = "up"
    BY DEF Names
  <2>2. QED
    BY <1>1, <1>2, <1>3, <2>1, NamedUp
<1>8. RunInv'
  <2>1. /\ phase' # "gate" /\ phase' # "finish"
        /\ (completed = 0 => syncOrigin = NoCursor)'
        /\ (syncOrigin # NoCursor => ValidCursor(syncOrigin) /\ syncOrigin.pos <= cursor.pos)'
    BY <1>1 DEF TypeInv, RunInv, Untouched, ValidCursor
  <2>2. (/\ local.cursor = cursor
         /\ ValidCursor(local.origin) /\ local.origin.pos <= cursor.pos
         /\ syncOrigin # NoCursor => syncOrigin.pos <= local.origin.pos)'
    BY <1>1 DEF TypeInv, RunInv, Untouched, ValidCursor, InRun
  <2>3. (/\ page.from = cursor.pos
         /\ ValidCursor(page.next) /\ page.from <= page.next.pos)'
    BY <1>1, <1>2, <1>4, <1>5 DEF Untouched, ValidCursor
  <2>4. (\A t \in page.ups : \E k \in Nat : page.from < k /\ LastUpsert(t, k, page.next.pos))'
    BY <1>1, <1>5, <1>7 DEF Untouched, LastUpsert, Up, Rm
  <2>5. QED
    BY <2>1, <2>2, <2>3, <2>4 DEF RunInv
<1>9. QED
  BY <1>6, <1>8 DEF TypeInv

LEMMA RestartKeepsTypes == ASSUME TypeInv, RestartPagination PROVE TypeInv'
<1>1. /\ Untouched /\ UNCHANGED <<syncOrigin, completed, phase, page, faults>>
      /\ phase = "fetch" /\ cursor' = local.origin /\ local.restarts < MAX_PAGINATION_RESTARTS
      /\ local' = [local EXCEPT !.cursor = local.origin, !.restarts = @ + 1]
  BY DEF RestartPagination, Untouched, provider
<1>2. /\ ValidCursor(local.origin) /\ local \in Locals
      /\ syncOrigin # NoCursor => ValidCursor(syncOrigin) /\ syncOrigin.pos <= local.origin.pos
  BY <1>1 DEF TypeInv, Types, RunInv, InRun
<1>3. /\ local' \in Locals /\ local'.cursor = local.origin /\ local'.origin = local.origin
  <2>1. local.restarts + 1 \in 0..MAX_PAGINATION_RESTARTS
    BY <1>1, <1>2, BoundsAssumption DEF Locals
  <2> DEFINE n == local.restarts + 1
  <2>2. local' = [local EXCEPT !.cursor = local.origin, !.restarts = n]
    BY <1>1
  <2> HIDE DEF n
  <2>3. QED
    BY <1>2, <2>1, <2>2 DEF Locals, ValidCursor, n
<1>4. Types'
  BY <1>1, <1>2, <1>3 DEF TypeInv, Types, Untouched, LogTyped, EndOfLoop, ValidCursor
<1>5. local.origin.pos \in Nat
  BY <1>2 DEF ValidCursor, CursorType
<1>6. RunInv'
  BY <1>1, <1>2, <1>3, <1>5 DEF TypeInv, RunInv, Untouched, InRun, InPage, ValidCursor
<1>7. QED
  BY <1>4, <1>6 DEF TypeInv

\* The run is over.
LEMMA EndKeepsTypes ==
    ASSUME TypeInv, GiveUp \/ PageIncomplete \/ RunDies
    PROVE  TypeInv'
<1>1. /\ Untouched /\ UNCHANGED <<cursor, syncOrigin, completed>> /\ faults' \in 0..MaxFaults
      /\ phase' = "idle" /\ local' = NoRun /\ page' = NoPage
  BY BoundsAssumption
     DEF GiveUp, PageIncomplete, RunDies, EndRun, Untouched, provider, item, TypeInv, Types
<1>2. Types'
  BY <1>1, Constants0 DEF TypeInv, Types, Untouched, LogTyped, EndOfLoop, ValidCursor, Phases
<1>3. RunInv'
  BY <1>1 DEF TypeInv, RunInv, Untouched, InRun, InPage, ValidCursor
<1>4. QED
  BY <1>2, <1>3 DEF TypeInv

\* The upsert in hand leaves the page, whatever becomes of it.
LEMMA PageTaken ==
    ASSUME TypeInv, NEW t \in Txns, NextInPage(t), Remember(t), Taken(t) \/ Dropped(t)
    PROVE  /\ page' \in Pages /\ page'.ups = page.ups \ {t} /\ page'.rms = page.rms
           /\ page'.from = page.from /\ page'.next = page.next
           /\ ~page'.failed => ~page.failed
           /\ Dropped(t) => page'.failed
           /\ local' \in Locals /\ local'.cursor = local.cursor /\ local'.origin = local.origin
<1>1. page \in Pages /\ local \in Locals
  BY DEF TypeInv, Types
<1>2. /\ page' \in Pages /\ page'.ups = page.ups \ {t} /\ page'.rms = page.rms
      /\ page'.from = page.from /\ page'.next = page.next
      /\ ~page'.failed => ~page.failed
  <2>1. CASE Taken(t)
    BY <1>1, <2>1 DEF Pages, Taken
  <2>2. CASE Dropped(t)
    <3>1. page' = [page EXCEPT !.ups = page.ups \ {t}, !.failed = TRUE]
      BY <2>2 DEF Dropped
    <3> DEFINE rest == page.ups \ {t}
    <3>2. rest \in SUBSET Txns /\ page' = [page EXCEPT !.ups = rest, !.failed = TRUE]
      BY <1>1, <3>1 DEF Pages
    <3> HIDE DEF rest
    <3>3. /\ page' \in Pages /\ page'.ups = rest /\ page'.rms = page.rms
          /\ page'.from = page.from /\ page'.next = page.next /\ page'.failed = TRUE
      BY <1>1, <3>2 DEF Pages
    <3>4. QED
      BY <3>3 DEF rest
  <2>3. QED
    BY <2>1, <2>2
<1>3. Dropped(t) => page'.failed
  BY <1>1 DEF Pages, Dropped
<1>4. PICK D \in SUBSET Accounts : local.known \in [D -> FinancialAccounts \cup {NoAccount}]
  BY <1>1 DEF Locals, Lookups
<1>5. AccountFor(t) \in FinancialAccounts \cup {NoAccount} /\ AccountOf[t] \in Accounts
  BY <1>4, FunctionsAssumption DEF AccountFor, TypeInv, Types
<1> DEFINE seen == [a \in DOMAIN local.known \cup {AccountOf[t]} |->
                      IF a = AccountOf[t] THEN AccountFor(t) ELSE local.known[a]]
<1>6. seen \in Lookups
  <2>1. D \cup {AccountOf[t]} \in SUBSET Accounts
    BY <1>5
  <2>2. seen \in [D \cup {AccountOf[t]} -> FinancialAccounts \cup {NoAccount}]
    BY <1>4, <1>5
  <2> HIDE DEF seen
  <2>3. QED
    BY <2>1, <2>2 DEF Lookups
<1>7. local' = [local EXCEPT !.known = seen]
  BY DEF Remember
<1> HIDE DEF seen
<1>8. local' \in Locals /\ local'.cursor = local.cursor /\ local'.origin = local.origin
  BY <1>1, <1>6, <1>7 DEF Locals
<1>9. QED
  BY <1>2, <1>3, <1>8

\* What is written for the upsert in hand.
LEMMA StoredIs ==
    ASSUME TypeInv, NEW t \in Txns, NextInPage(t)
    PROVE  /\ Stored(t).ver \in Nat /\ page.from < Stored(t).ver
           /\ LastUpsert(t, Stored(t).ver, page.next.pos)
           /\ Stored(t).live = TRUE /\ Stored(t).fa = AccountFor(t)
           /\ AccountFor(t) \in FinancialAccounts =>
                Stored(t) \in RowType /\ Stored(t) # NoRow
<1> DEFINE from == page.from
           to == page.next.pos
           i == LastIn(t, from, to)
<1>1. /\ from \in Nat /\ to \in Nat /\ to <= Len(log) /\ LogTyped
      /\ Len(log) \in Nat /\ Len(log) <= MaxLog /\ MaxLog \in Nat
  BY BoundsAssumption
     DEF NextInPage, TypeInv, Types, RunInv, InPage, ValidCursor, CursorType, Pages, LogTyped
<1>2. PICK k \in Nat : from < k /\ LastUpsert(t, k, to)
  BY DEF NextInPage, TypeInv, RunInv, InPage
<1> HIDE DEF from, to
<1>3. /\ i \in Nat
      /\ i = 0 => \A j \in from+1..to : log[j].txn # t
      /\ i # 0 => /\ i \in from+1..to /\ log[i].txn = t
                 /\ \A j \in i+1..to : log[j].txn # t
  BY ZenonT(60), <1>1, LastInIs
<1> HIDE DEF i
<1>4. k \in from+1..to /\ log[k].txn = t
  BY <1>1, <1>2 DEF LastUpsert, Up
<1>5. i \in from+1..to /\ log[i].txn = t /\ k <= i
  BY <1>1, <1>3, <1>4
<1>6. ~(k < i)
  <2>1. SUFFICES ASSUME k < i PROVE FALSE
    OBVIOUS
  <2>2. i \in 1..Len(log)
    BY <1>1, <1>5
  <2>3. log[i].op \in {"up", "rm"}
    <3>1. log[i] \in Entries
      BY <1>1, <2>2 DEF LogTyped
    <3>2. QED
      BY <3>1 DEF Entries
  <2>4. Up(t, i) \/ Rm(t, i)
    BY <1>5, <2>2, <2>3 DEF Up, Rm
  <2>5. QED
    BY <1>1, <1>2, <1>5, <2>1, <2>4 DEF LastUpsert
<1>7. i = k
  BY <1>3, <1>5, <1>6
<1>8. Stored(t) = [fa |-> AccountFor(t), ver |-> k, live |-> TRUE]
  BY <1>7 DEF Stored, i, from, to
<1>9. k \in 1..MaxLog
  BY <1>1, <1>4
<1>10. AccountFor(t) \in FinancialAccounts => Stored(t) \in RowType /\ Stored(t) # NoRow
  <2>1. SUFFICES ASSUME AccountFor(t) \in FinancialAccounts
                 PROVE  Stored(t) \in RowType /\ Stored(t) # NoRow
    OBVIOUS
  <2> DEFINE f == AccountFor(t)
  <2>2. f \in FinancialAccounts /\ Stored(t) = [fa |-> f, ver |-> k, live |-> TRUE]
    BY <1>8, <2>1
  <2> HIDE DEF f
  <2>3. Stored(t) \in RowType
    BY <1>9, <2>2 DEF RowType
  <2>4. Stored(t) \in [fa : FinancialAccounts, ver : Nat, live : BOOLEAN]
    BY <2>2
  <2>5. QED
    BY <2>3, <2>4, FunctionsAssumption
<1>11. QED
  BY <1>2, <1>8, <1>10 DEF from, to

RowAction(t) ==
    \/ MissingAccount(t)
    \/ RefuseReparenting(t)
    \/ UpdateRow(t)
    \/ \E u \in Txns : AdoptRow(t, u)
    \/ CreateRow(t)
    \/ UpsertError(t)

\* t takes over the row of u, its own (or none) or one alike.
Writes(t, u) ==
    /\ Stored(t) \in RowType /\ Stored(t) # NoRow
    /\ u # t => HasRow(u) /\ ~HasRow(t) /\ Fingerprint[u] = Fingerprint[t]
    /\ rows' = [rows EXCEPT ![u] = NoRow, ![t] = Stored(t)]

\* An upsert fails, is refused or is stored.
LEMMA RowEffect ==
    ASSUME TypeInv, NEW t \in Txns, RowAction(t)
    PROVE  /\ NextInPage(t) /\ Remember(t) /\ faults' \in 0..MaxFaults
           /\ UNCHANGED <<log, resolve, remapped, cursor, syncOrigin, completed, phase>>
           /\ \/ Dropped(t) /\ UNCHANGED <<rows, refused>>
              \/ Taken(t) /\ HasRow(t) /\ rows' = rows /\ refused' = refused \cup {t}
              \/ Taken(t) /\ refused' = refused /\ \E u \in Txns : Writes(t, u)
<1>0. faults \in 0..MaxFaults /\ MaxFaults \in Nat /\ rows \in [Txns -> RowType \cup {NoRow}]
  BY BoundsAssumption DEF TypeInv, Types
<1>a. AccountFor(t) \in FinancialAccounts \cup {NoAccount}
  <2>1. PICK D \in SUBSET Accounts : local.known \in [D -> FinancialAccounts \cup {NoAccount}]
    BY DEF TypeInv, Types, Locals, Lookups
  <2>2. QED
    BY <2>1, FunctionsAssumption DEF AccountFor, TypeInv, Types
<1>1. CASE MissingAccount(t)
  BY <1>0, <1>1 DEF MissingAccount, provider, item
<1>2. CASE RefuseReparenting(t)
  BY <1>0, <1>2 DEF RefuseReparenting, provider, item
<1>3. CASE UpdateRow(t)
  <2>1. NextInPage(t) /\ rows[t].fa = AccountFor(t) /\ rows[t] # NoRow
    BY <1>3 DEF UpdateRow, HasRow
  <2>2. AccountFor(t) \in FinancialAccounts
    BY <1>0, <2>1 DEF RowType
  <2>3. Stored(t) \in RowType /\ Stored(t) # NoRow
    BY <2>1, <2>2, StoredIs
  <2>4. rows' = [rows EXCEPT ![t] = NoRow, ![t] = Stored(t)]
    BY <1>0, <1>3 DEF UpdateRow
  <2>5. QED
    BY <1>0, <1>3, <2>3, <2>4 DEF UpdateRow, provider, item, Writes
<1>4. ASSUME NEW u \in Txns, AdoptRow(t, u) PROVE Writes(t, u)
  <2>1. NextInPage(t) /\ AccountFor(t) # NoAccount /\ ~HasRow(t) /\ u \in Matches(t)
    BY <1>4 DEF AdoptRow, Adoptable
  <2>2. Stored(t) \in RowType /\ Stored(t) # NoRow
    BY <1>a, <2>1, StoredIs
  <2>3. HasRow(u) /\ Fingerprint[u] = Fingerprint[t]
    BY <2>1 DEF Matches, LiveRow
  <2>4. QED
    BY <1>4, <2>1, <2>2, <2>3 DEF AdoptRow, Writes
<1>5. CASE \E u \in Txns : AdoptRow(t, u)
  BY <1>0, <1>4, <1>5 DEF AdoptRow, provider, item
<1>6. CASE CreateRow(t)
  <2>1. NextInPage(t) /\ AccountFor(t) # NoAccount
    BY <1>6 DEF CreateRow
  <2>2. Stored(t) \in RowType /\ Stored(t) # NoRow
    BY <1>a, <2>1, StoredIs
  <2>3. rows' = [rows EXCEPT ![t] = NoRow, ![t] = Stored(t)]
    BY <1>0, <1>6 DEF CreateRow
  <2>4. QED
    BY <1>0, <1>6, <2>2, <2>3 DEF CreateRow, provider, item, Writes
<1>7. CASE UpsertError(t)
  BY <1>0, <1>7 DEF UpsertError, provider, item
<1>8. QED
  BY <1>1, <1>2, <1>3, <1>5, <1>6, <1>7 DEF RowAction

LEMMA RowKeepsTypes == ASSUME TypeInv, NEW t \in Txns, RowAction(t) PROVE TypeInv'
<1>1. /\ NextInPage(t) /\ Remember(t) /\ faults' \in 0..MaxFaults
      /\ UNCHANGED <<log, resolve, remapped, cursor, syncOrigin, completed, phase>>
      /\ Dropped(t) \/ Taken(t)
  BY RowEffect
<1>2. /\ page' \in Pages /\ page'.ups = page.ups \ {t}
      /\ page'.from = page.from /\ page'.next = page.next
      /\ local' \in Locals /\ local'.cursor = local.cursor /\ local'.origin = local.origin
  BY <1>1, PageTaken
<1>3. rows' \in [Txns -> RowType \cup {NoRow}] /\ refused' \subseteq Txns
  <2>1. rows \in [Txns -> RowType \cup {NoRow}] /\ refused \subseteq Txns
    BY DEF TypeInv, Types
  <2>2. \/ rows' = rows /\ refused' \in {refused, refused \cup {t}}
        \/ refused' = refused /\ \E u \in Txns : Writes(t, u)
    BY RowEffect
  <2>3. QED
    BY <2>1, <2>2 DEF Writes
<1>4. Types'
  BY <1>1, <1>2, <1>3 DEF TypeInv, Types, LogTyped, EndOfLoop, ValidCursor
<1>5. phase = "apply"
  BY <1>1 DEF NextInPage
<1>6. RunInv'
  BY <1>1, <1>2, <1>5 DEF TypeInv, RunInv, InRun, InPage, ValidCursor, LastUpsert, Up, Rm
<1>7. QED
  BY <1>4, <1>6 DEF TypeInv

LEMMA TombstoneKeepsTypes == ASSUME TypeInv, Tombstone PROVE TypeInv'
<1>1. /\ UNCHANGED <<log, resolve, remapped, refused, cursor, syncOrigin, completed, local, page, faults>>
      /\ phase = "apply" /\ page.ups = {} /\ phase' = "gate"
  BY DEF Tombstone, provider, item
<1>2. rows' \in [Txns -> RowType \cup {NoRow}]
  <2>1. rows \in [Txns -> RowType \cup {NoRow}]
    BY DEF TypeInv, Types
  <2>2. \A t \in Txns : LiveRow(t) => [rows[t] EXCEPT !.live = FALSE] \in RowType
    BY <2>1 DEF LiveRow, HasRow, RowType
  <2>3. QED
    BY <2>1, <2>2 DEF Tombstone
<1>3. Types'
  BY <1>1, <1>2 DEF TypeInv, Types, LogTyped, EndOfLoop, ValidCursor, Phases
<1>4. RunInv'
  BY <1>1 DEF TypeInv, RunInv, InRun, InPage, ValidCursor
<1>5. QED
  BY <1>3, <1>4 DEF TypeInv

LEMMA ConsumedKeepsTypes == ASSUME TypeInv, PageConsumed PROVE TypeInv'
<1>1. /\ Untouched /\ UNCHANGED <<syncOrigin, completed, faults>>
      /\ phase = "gate" /\ cursor' = page.next /\ page' = NoPage
      /\ local' = [local EXCEPT !.cursor = page.next]
      /\ phase' = IF EndOfLoop(page.next) THEN "finish" ELSE "fetch"
  BY DEF PageConsumed, Untouched, provider
<1>2. /\ ValidCursor(page.next) /\ cursor.pos <= page.next.pos /\ local \in Locals
      /\ ValidCursor(cursor) /\ ValidCursor(local.origin) /\ local.origin.pos <= cursor.pos
      /\ syncOrigin # NoCursor => /\ ValidCursor(syncOrigin) /\ syncOrigin.pos <= cursor.pos
                                  /\ syncOrigin.pos <= local.origin.pos
      /\ completed = 0 => syncOrigin = NoCursor
  BY <1>1 DEF TypeInv, Types, RunInv, InRun, InPage
<1>3. local' \in Locals /\ local'.cursor = page.next /\ local'.origin = local.origin
  BY <1>1, <1>2 DEF Locals, ValidCursor
<1>4. Types'
  BY <1>1, <1>2, <1>3, Constants0
     DEF TypeInv, Types, Untouched, LogTyped, EndOfLoop, ValidCursor, Phases
<1>5. RunInv'
  <2>1. /\ local.origin.pos <= page.next.pos
        /\ syncOrigin # NoCursor => syncOrigin.pos <= page.next.pos
    BY <1>2 DEF ValidCursor, CursorType
  <2>2. phase' = "finish" => EndOfLoop(local.cursor)'
    BY <1>1, <1>3 DEF EndOfLoop
  <2>3. phase' \in {"finish", "fetch"}
    BY <1>1
  <2>4. QED
    BY <1>1, <1>2, <1>3, <2>1, <2>2, <2>3 DEF RunInv, Untouched, InRun, InPage, ValidCursor
<1>6. QED
  BY <1>4, <1>5 DEF TypeInv

LEMMA CompleteKeepsTypes == ASSUME TypeInv, CompleteLoop PROVE TypeInv'
<1>1. /\ Untouched /\ UNCHANGED <<cursor, page, faults>> /\ syncOrigin' = cursor
      /\ completed' = Min({completed + 1, 2}) /\ phase = "finish" /\ phase' = "completed"
      /\ local' = NoRun /\ EndOfLoop(cursor) /\ ValidCursor(cursor) /\ cursor.pos \in Nat
  BY DEF CompleteLoop, Untouched, provider, TypeInv, Types, RunInv, InRun, ValidCursor, CursorType
<1>2. completed' \in 0..2 /\ completed' # 0
  <2>1. completed \in 0..2
    BY DEF TypeInv, Types
  <2>2. completed + 1 \in Nat /\ 2 \in Nat /\ completed + 1 > 0
    BY <2>1
  <2>3. /\ Min({completed + 1, 2}) \in Nat /\ Min({completed + 1, 2}) <= 2
        /\ Min({completed + 1, 2}) \in {completed + 1, 2}
    <3>1. \E x \in {completed + 1, 2} : \A y \in {completed + 1, 2} : x <= y
      BY <2>1
    <3>2. QED
      BY <2>2, <3>1, MinOfTwo DEF Min
  <2>4. QED
    BY <1>1, <2>2, <2>3
<1>3. Types'
  BY <1>1, <1>2, Constants0
     DEF TypeInv, Types, Untouched, LogTyped, EndOfLoop, ValidCursor, Phases
<1>4. RunInv'
  BY <1>1, <1>2 DEF RunInv, Untouched, InRun, InPage, ValidCursor
<1>5. QED
  BY <1>3, <1>4 DEF TypeInv

LEMMA StutterKeepsTypes == ASSUME TypeInv, UNCHANGED vars PROVE TypeInv'
BY DEF vars, TypeInv, Types, RunInv, LogTyped, ValidCursor, EndOfLoop, InRun, InPage,
       LastUpsert, Up, Rm

\* What a step can be.
LEMMA StepCases ==
    ASSUME Next
    PROVE  \/ \E t \in Txns : ProviderUpserts(t) \/ ProviderRemoves(t)
           \/ \E a \in Accounts : AccountImported(a)
           \/ \E a \in Accounts, f \in FinancialAccounts : AccountRemapped(a, f)
           \/ StartRun \/ FetchPage \/ RestartPagination
           \/ GiveUp \/ PageIncomplete \/ RunDies
           \/ \E t \in Txns : RowAction(t)
           \/ Tombstone \/ PageConsumed \/ CompleteLoop
BY DEF Next, Environment, RecoverAccount, RunStep, ApplyUpsert, Fault, RowAction

LEMMA StepKeepsTypes == TypeInv /\ [Next]_vars => TypeInv'
<1> SUFFICES ASSUME TypeInv, [Next]_vars PROVE TypeInv'
  OBVIOUS
<1>1. CASE UNCHANGED vars
  BY <1>1, StutterKeepsTypes
<1>2. CASE Next
  <2>1. CASE \E t \in Txns : ProviderUpserts(t) \/ ProviderRemoves(t)
    BY <2>1, GrowthKeepsTypes
  <2>2. CASE \E a \in Accounts : AccountImported(a)
    <3>1. PICK a \in Accounts : AccountImported(a)
      BY <2>2
    <3>2. HomeOf[a] \in FinancialAccounts
      BY FunctionsAssumption
    <3>3. QED
      BY <3>1, <3>2, MappingKeepsTypes
  <2>3. CASE \E a \in Accounts, f \in FinancialAccounts : AccountRemapped(a, f)
    BY <2>3, MappingKeepsTypes
  <2>4. CASE StartRun
    BY <2>4, StartKeepsTypes
  <2>5. CASE FetchPage
    BY <2>5, FetchKeepsTypes
  <2>6. CASE RestartPagination
    BY <2>6, RestartKeepsTypes
  <2>7. CASE GiveUp \/ PageIncomplete \/ RunDies
    BY <2>7, EndKeepsTypes
  <2>8. CASE \E t \in Txns : RowAction(t)
    BY <2>8, RowKeepsTypes
  <2>9. CASE Tombstone
    BY <2>9, TombstoneKeepsTypes
  <2>10. CASE PageConsumed
    BY <2>10, ConsumedKeepsTypes
  <2>11. CASE CompleteLoop
    BY <2>11, CompleteKeepsTypes
  <2>12. QED
    BY <1>2, <2>1, <2>2, <2>3, <2>4, <2>5, <2>6, <2>7, <2>8, <2>9, <2>10, <2>11, StepCases
<1>3. QED
  BY <1>1, <1>2

LEMMA AlwaysTyped == Spec => []TypeInv
<1>1. QED
  BY InitTypes, StepKeepsTypes, PTL DEF Spec

\* No cursor ever lies beyond what the provider has served, the recorded origin
\* always ends a loop, and every variable has its type.
THEOREM TypeCorrect == Spec => []TypeOK
<1>1. TypeInv => TypeOK
  BY TypesAreTypeOK DEF TypeInv
<1>2. QED
  BY <1>1, AlwaysTyped, PTL

-----------------------------------------------------------------------------
(* The cursor never passes what is not stored *)

\* A fingerprint stands for one event.  (MCPlaidCursorSyncTwins.cfg: what two
\* purchases alike in every printed field do to each other.)
FingerprintsTellEvents ==
    \A t, u \in Txns : Fingerprint[t] = Fingerprint[u] => SameEvent(t, u)

\* A removal named by the page is its last word on that id; an upsert named by
\* the page, of an id that was on offer before it, is followed by no other id of
\* the event that stays.
PageFaithful ==
    InPage =>
        /\ \A t \in page.rms : \E j \in Nat :
              /\ page.from < j /\ j <= page.next.pos /\ Rm(t, j)
              /\ \A b \in Nat : j < b /\ b <= page.next.pos => ~Up(t, b)
        /\ \A v \in page.ups, u \in Txns, a, i, b \in Nat :
              /\ LastUpsert(v, a, page.next.pos) /\ OnOffer(v, i, page.from)
              /\ SameEvent(u, v) /\ Up(u, b) /\ a < b /\ b <= page.next.pos
              => \E c \in Nat : b < c /\ c <= page.next.pos /\ Rm(u, c)

\* The row that the page owes to w, upserted in it at k, is there.
Delivered(w, k) ==
    \E u \in Txns :
        /\ SameEvent(u, w) /\ HasRow(u)
        /\ IF w \in refused
           THEN \E a \in Nat : Up(w, a) /\ a <= rows[u].ver
           ELSE /\ k <= rows[u].ver
                /\ rows[u].live \/ (phase = "gate" /\ u \in page.rms)

\* What the page has brought so far and has not failed on is stored: each event's
\* newest id, if it is not removed again, once no id of the event is left to do.
PageStored ==
    InPage /\ ~page.failed =>
        \A w \in Txns \ page.ups, k \in Nat :
            /\ Newest(w, k, page.next.pos) /\ page.from < k
            /\ \A j \in Nat : k < j /\ j <= page.next.pos => ~Rm(w, j)
            => Delivered(w, k) /\ \A v \in page.ups : ~SameEvent(v, w)

\* Wherever the item may go on from.
SafeOrigins ==
    /\ Safe(cursor.pos)
    /\ syncOrigin # NoCursor => Safe(syncOrigin.pos)
    /\ InRun => Safe(local.origin.pos)

SafeInv == LogInv /\ RowInv /\ PageFaithful /\ PageStored /\ SafeOrigins

\* The places the page facts speak of.
LEMMA PagePlaces ==
    ASSUME TypeInv
    PROVE  /\ LogTyped /\ Len(log) \in Nat
           /\ cursor.pos \in Nat /\ cursor.pos <= Len(log)
           /\ syncOrigin # NoCursor => syncOrigin.pos \in Nat /\ syncOrigin.pos <= cursor.pos
           /\ InRun => local.origin.pos \in Nat /\ local.origin.pos <= cursor.pos
           /\ InPage => /\ page.from = cursor.pos /\ page.next.pos \in Nat
                        /\ page.from <= page.next.pos /\ page.next.pos <= Len(log)
                        /\ page.ups \in SUBSET Txns /\ page.rms \in SUBSET Txns
                        /\ page.next.pos <= Seen
           /\ Seen \in Nat /\ Seen <= Len(log)
<1>1. /\ LogTyped /\ ValidCursor(cursor) /\ page \in Pages
      /\ syncOrigin # NoCursor => ValidCursor(syncOrigin) /\ syncOrigin.pos <= cursor.pos
      /\ InRun => ValidCursor(local.origin) /\ local.origin.pos <= cursor.pos
      /\ InPage => page.from = cursor.pos /\ ValidCursor(page.next) /\ page.from <= page.next.pos
  BY DEF TypeInv, Types, RunInv
<1>2. Len(log) \in Nat
  BY <1>1 DEF LogTyped
<1>3. \A c : ValidCursor(c) => /\ c.pos \in Nat /\ c.pos <= Len(log)
                               /\ c.snap \in Nat /\ c.snap <= Len(log) /\ c.pos <= c.snap
  BY <1>2 DEF ValidCursor, CursorType
<1>4. Seen \in Nat /\ Seen <= Len(log) /\ (InPage => page.next.pos <= Seen)
  BY <1>1, <1>2, <1>3 DEF Seen
<1>5. QED
  BY <1>1, <1>2, <1>3, <1>4 DEF Pages

\* What has been served is not forgotten.
LEMMA SeenGrows == ASSUME TypeInv, [Next]_vars PROVE SeenKept
<1>1. /\ Len(log) \in Nat /\ Seen \in Nat /\ Seen <= Len(log)
  BY PagePlaces
<1>2. CASE Seen' = Seen
  BY <1>2 DEF SeenKept
<1>3. CASE Seen' \in Nat /\ Seen <= Seen'
  BY <1>1, <1>3 DEF SeenKept
<1>4. CASE UNCHANGED <<log, cursor, phase, page>>
  BY <1>2, <1>4 DEF Seen, InPage
<1>5. CASE log' = log /\ phase' \in {"idle", "fetch"}
  <2>1. Seen' = Len(log)
    BY <1>5 DEF Seen, InPage
  <2>2. QED
    BY <1>1, <1>3, <2>1
<1>6. ASSUME NEW t \in Txns, ProviderUpserts(t) \/ ProviderRemoves(t) PROVE SeenKept
  <2>1. PICK op \in {"up", "rm"} : Grown(t, op)
    BY <1>6 DEF ProviderUpserts, ProviderRemoves, Grown
  <2>2. Len(log') = Len(log) + 1
    BY <2>1, PagePlaces, GrownLog
  <2>3. UNCHANGED <<cursor, phase, page>>
    BY <1>6 DEF ProviderUpserts, ProviderRemoves, item
  <2>4. Seen' = Seen \/ (Seen = Len(log) /\ Seen' = Len(log) + 1)
    BY <2>2, <2>3 DEF Seen, InPage
  <2>5. QED
    BY <1>1, <1>2, <1>3, <2>4
<1>7. CASE FetchPage
  <2>1. phase = "fetch" /\ phase' = "apply" /\ page'.next.snap = Len(log)
    BY <1>7, FetchServes
  <2>2. Seen' = Seen
    BY <2>1 DEF Seen, InPage
  <2>3. QED
    BY <1>2, <2>2
<1>8. ASSUME NEW t \in Txns, RowAction(t) PROVE SeenKept
  <2>1. UNCHANGED phase /\ phase = "apply" /\ page'.next = page.next
    BY <1>8, RowEffect, PageTaken DEF NextInPage
  <2>2. Seen' = Seen
    BY <2>1 DEF Seen, InPage
  <2>3. QED
    BY <1>2, <2>2
<1>9. CASE Tombstone
  <2>1. phase = "apply" /\ phase' = "gate" /\ page' = page
    BY <1>9 DEF Tombstone
  <2>2. Seen' = Seen
    BY <2>1 DEF Seen, InPage
  <2>3. QED
    BY <1>2, <2>2
<1>10. CASE PageConsumed /\ phase' = "finish"
  <2>1. phase = "gate" /\ cursor' = page.next
    BY <1>10 DEF PageConsumed
  <2>2. Seen' = Seen
    BY <1>10, <2>1 DEF Seen, InPage
  <2>3. QED
    BY <1>2, <2>2
<1>11. CASE CompleteLoop
  <2>1. phase = "finish" /\ phase' = "completed" /\ cursor' = cursor
    BY <1>11 DEF CompleteLoop, TypeInv, RunInv, InRun
  <2>2. Seen' = Seen
    BY <2>1 DEF Seen, InPage
  <2>3. QED
    BY <1>2, <2>2
<1>12. CASE UNCHANGED vars
  BY <1>4, <1>12 DEF vars
<1>13. CASE Next
  <2>1. (\E a \in Accounts : AccountImported(a)) \/
        (\E a \in Accounts, f \in FinancialAccounts : AccountRemapped(a, f)) => SeenKept
    BY <1>4 DEF AccountImported, AccountRemapped, item
  <2>2. StartRun \/ RestartPagination \/ GiveUp \/ PageIncomplete \/ RunDies => SeenKept
    BY <1>5 DEF StartRun, RestartPagination, GiveUp, PageIncomplete, RunDies, EndRun, provider
  <2>3. PageConsumed => SeenKept
    BY <1>5, <1>10 DEF PageConsumed, provider
  <2>4. QED
    BY <1>6, <1>7, <1>8, <1>9, <1>11, <1>13, <2>1, <2>2, <2>3, StepCases
<1>14. QED
  BY <1>12, <1>13

LEMMA SafeStart == LogTyped => Safe(0)
BY DEF Safe, Newest, Up, LogTyped

\* Nothing that Safe speaks of changes.
LEMMA SafeStays ==
    ASSUME UNCHANGED <<log, rows, refused>>, SeenKept
    PROVE  /\ \A p \in Nat : Safe(p) => Safe(p)'
           /\ LogInv => LogInv'
           /\ RowInv => RowInv'
<1>1. /\ \A t, i : Up(t, i)' <=> Up(t, i)
      /\ \A t, i : Rm(t, i)' <=> Rm(t, i)
      /\ \A t : HasRow(t)' <=> HasRow(t)
      /\ \A t, i : i \in Nat /\ SeenRm(t, i) => SeenRm(t, i)'
  BY DEF Up, Rm, HasRow, SeenRm, SeenKept
<1>2. \A p \in Nat : Safe(p) => Safe(p)'
  BY <1>1 DEF Safe, Newest, OnOffer, Held
<1>3. LogInv => LogInv'
  BY <1>1 DEF LogInv, LogTyped, NoComeback, OldestFirst, RemovedAfterUp
<1>4. RowInv => RowInv'
  BY <1>1 DEF RowInv
<1>5. QED
  BY <1>2, <1>3, <1>4

LEMMA InitSafe == Init => SafeInv
<1> SUFFICES ASSUME Init PROVE SafeInv
  OBVIOUS
<1>1. LogInv /\ Safe(0)
  BY InitLog, SafeStart DEF Init, LogInv
<1>2. RowInv
  BY DEF Init, RowInv, HasRow
<1>3. PageFaithful /\ PageStored
  BY DEF Init, PageFaithful, PageStored, InPage
<1>4. SafeOrigins
  BY <1>1, Constants0 DEF Init, SafeOrigins, InRun
<1>5. QED
  BY <1>1, <1>2, <1>3, <1>4 DEF SafeInv

\* The provider moves on.
LEMMA GrowthKeepsSafe ==
    ASSUME TypeInv, SafeInv, SeenKept,
           NEW t \in Txns, ProviderUpserts(t) \/ ProviderRemoves(t)
    PROVE  SafeInv'
<1>1. LogInv' /\ \E op \in {"up", "rm"} : Grown(t, op)
  BY UpsertKeepsLog, RemovalKeepsLog DEF SafeInv
<1>2. PICK op \in {"up", "rm"} : Grown(t, op)
  BY <1>1
<1>3. UNCHANGED <<rows, refused, cursor, syncOrigin, phase, local, page>>
  BY DEF ProviderUpserts, ProviderRemoves, item
<1> DEFINE n == Len(log)
<1>4. /\ n \in Nat
      /\ \A u, i : Up(u, i) => Up(u, i)'
      /\ \A u, i : Rm(u, i) => Rm(u, i)'
      /\ \A u, i : i <= n => (Up(u, i)' <=> Up(u, i))
      /\ \A u, i : i <= n => (Rm(u, i)' <=> Rm(u, i))
  <2>1. /\ LogTyped' /\ Len(log) \in Nat /\ Len(log') = Len(log) + 1
        /\ \A u, i : Up(u, i)' <=> Up(u, i) \/ (op = "up" /\ u = t /\ i = Len(log) + 1)
        /\ \A u, i : Rm(u, i)' <=> Rm(u, i) \/ (op = "rm" /\ u = t /\ i = Len(log) + 1)
    BY <1>2, PagePlaces, GrownLog
  <2>2. QED
    BY <2>1
<1> HIDE DEF n
<1>5. \A p \in Nat : p <= n =>
        /\ \A w \in Txns, k \in Nat : Newest(w, k, p)' <=> Newest(w, k, p)
        /\ \A w \in Txns, i \in Nat : OnOffer(w, i, p)' <=> OnOffer(w, i, p)
        /\ \A w \in Txns, i \in Nat : LastUpsert(w, i, p)' <=> LastUpsert(w, i, p)
  <2> SUFFICES ASSUME NEW p \in Nat, p <= n
               PROVE  /\ \A w \in Txns, k \in Nat : Newest(w, k, p)' <=> Newest(w, k, p)
                      /\ \A w \in Txns, i \in Nat : OnOffer(w, i, p)' <=> OnOffer(w, i, p)
                      /\ \A w \in Txns, i \in Nat : LastUpsert(w, i, p)' <=> LastUpsert(w, i, p)
    OBVIOUS
  <2>1. /\ \A u, i : i \in Nat /\ i <= p => (Up(u, i)' <=> Up(u, i))
        /\ \A u, i : i \in Nat /\ i <= p => (Rm(u, i)' <=> Rm(u, i))
    BY <1>4
  <2>2. QED
    BY <2>1 DEF Newest, OnOffer, LastUpsert, SameEvent
<1>s. \A u, j : j \in Nat /\ SeenRm(u, j) => SeenRm(u, j)'
  BY <1>4 DEF SeenRm, SeenKept
<1>6. \A w \in Txns, k \in Nat, p \in Nat : Held(w, k, p) => Held(w, k, p)'
  BY <1>3, <1>4, <1>s DEF Held, HasRow, SameEvent
<1>7. \A p \in Nat : p <= n /\ Safe(p) => Safe(p)'
  BY <1>5, <1>6 DEF Safe, SameEvent
<1>8. RowInv'
  BY <1>3, <1>4, <1>s DEF SafeInv, RowInv, HasRow
<1>9. SafeOrigins'
  <2>1. /\ cursor.pos \in Nat /\ cursor.pos <= n
        /\ syncOrigin # NoCursor => syncOrigin.pos \in Nat /\ syncOrigin.pos <= n
        /\ InRun => local.origin.pos \in Nat /\ local.origin.pos <= n
    BY PagePlaces DEF n
  <2>2. QED
    BY <1>3, <1>7, <2>1 DEF SafeInv, SafeOrigins, InRun
<1>10. CASE ~InPage
  <2>1. PageFaithful' /\ PageStored'
    BY <1>3, <1>10 DEF PageFaithful, PageStored, InPage
  <2>2. QED
    BY <1>1, <1>8, <1>9, <2>1 DEF SafeInv
<1>11. CASE InPage
  <2> DEFINE from == page.from
             to == page.next.pos
  <2>1. /\ from \in Nat /\ to \in Nat /\ from <= n /\ to <= n
        /\ page.ups \in SUBSET Txns /\ page.rms \in SUBSET Txns
    BY <1>11, PagePlaces DEF n
  <2>2. PageFaithful'
    <3>1. (\A r \in page.rms : \E j \in Nat :
              /\ from < j /\ j <= to /\ Rm(r, j)
              /\ \A b \in Nat : j < b /\ b <= to => ~Up(r, b))'
      BY <1>3, <1>4, <1>11, <2>1 DEF SafeInv, PageFaithful
    <3>2. (\A v \in page.ups, u \in Txns, a, i, b \in Nat :
              /\ LastUpsert(v, a, to) /\ OnOffer(v, i, from)
              /\ SameEvent(u, v) /\ Up(u, b) /\ a < b /\ b <= to
              => \E c \in Nat : b < c /\ c <= to /\ Rm(u, c))'
      <4>1. SUFFICES ASSUME NEW v \in page.ups, NEW u \in Txns,
                            NEW a \in Nat, NEW i \in Nat, NEW b \in Nat,
                            LastUpsert(v, a, to)', OnOffer(v, i, from)', SameEvent(u, v),
                            Up(u, b)', a < b, b <= to
                     PROVE  \E c \in Nat : b < c /\ c <= to /\ Rm(u, c)'
        BY <1>3 DEF SameEvent
      <4>2. LastUpsert(v, a, to) /\ OnOffer(v, i, from) /\ Up(u, b)
        <5>1. v \in Txns /\ b <= n
          <6>1. v \in Txns
            BY <2>1
          <6> DEFINE x == to
          <6>2. b \in Nat /\ x \in Nat /\ n \in Nat /\ b <= x /\ x <= n
            BY <1>4, <2>1, <4>1
          <6> HIDE DEF x
          <6>3. b <= n
            BY <6>2
          <6>4. QED
            BY <6>1, <6>3
        <5>2. QED
          BY <1>3, <1>4, <1>5, <2>1, <4>1, <5>1
      <4>3. \E c \in Nat : b < c /\ c <= to /\ Rm(u, c)
        BY <1>11, <4>1, <4>2 DEF SafeInv, PageFaithful
      <4>4. QED
        BY <1>4, <4>3
    <3>3. QED
      BY <3>1, <3>2 DEF PageFaithful
  <2>3. PageStored'
    <3>1. SUFFICES ASSUME ~page.failed, NEW w \in Txns \ page.ups, NEW k \in Nat,
                          Newest(w, k, to)', from < k,
                          \A j \in Nat : k < j /\ j <= to => ~Rm(w, j)'
                   PROVE  Delivered(w, k)' /\ \A v \in page.ups : ~SameEvent(v, w)
      BY <1>3 DEF PageStored, SameEvent
    <3>2. Newest(w, k, to) /\ \A j \in Nat : k < j /\ j <= to => ~Rm(w, j)
      <4>1. Newest(w, k, to)
        BY <1>3, <1>5, <2>1, <3>1
      <4>2. QED
        BY <1>4, <2>1, <3>1, <4>1
    <3>3. Delivered(w, k) /\ \A v \in page.ups : ~SameEvent(v, w)
      BY <1>11, <3>1, <3>2 DEF SafeInv, PageStored
    <3>4. Delivered(w, k) => Delivered(w, k)'
      BY <1>3, <1>4 DEF Delivered, HasRow, SameEvent
    <3>5. QED
      BY <3>3, <3>4
  <2>4. QED
    BY <1>1, <1>8, <1>9, <2>2, <2>3 DEF SafeInv
<1>12. QED
  BY <1>10, <1>11

\* Nothing of this changes.
LEMMA StutterKeepsSafe ==
    ASSUME SafeInv, UNCHANGED <<log, rows, refused, cursor, syncOrigin, phase, local, page>>
    PROVE  SafeInv'
<1>1. LogInv' /\ RowInv'
  <2>1. SeenKept
    BY DEF SeenKept, Seen, InPage
  <2>2. QED
    BY <2>1, SafeStays DEF SafeInv
<1>2. PageFaithful'
  BY SMTT(60) DEF SafeInv, PageFaithful, InPage, LastUpsert, OnOffer, Up, Rm
<1>3. PageStored'
  BY DEF SafeInv, PageStored, InPage, Delivered, Newest, HasRow, Up, Rm
<1>4. SafeOrigins'
  BY DEF SafeInv, SafeOrigins, InRun, Safe, Newest, OnOffer, Held, HasRow, Up, Rm, SeenRm, Seen,
         InPage
<1>5. QED
  BY <1>1, <1>2, <1>3, <1>4 DEF SafeInv

\* No page in hand afterwards, and every place to go on from is an old one.
LEMMA BetweenPages ==
    ASSUME TypeInv, SafeInv, SeenKept,
           UNCHANGED <<log, rows, refused>>, phase' \notin {"apply", "gate"},
           Safe(cursor.pos)', (syncOrigin # NoCursor => Safe(syncOrigin.pos))',
           (InRun => Safe(local.origin.pos))'
    PROVE  SafeInv'
<1>1. LogInv' /\ RowInv'
  BY SafeStays DEF SafeInv
<1>2. PageFaithful' /\ PageStored'
  BY DEF PageFaithful, PageStored, InPage
<1>3. QED
  BY <1>1, <1>2 DEF SafeInv, SafeOrigins

LEMMA StartKeepsSafe == ASSUME TypeInv, SafeInv, SeenKept, StartRun PROVE SafeInv'
<1>1. /\ UNCHANGED <<log, rows, refused, cursor, syncOrigin>> /\ phase' = "fetch"
      /\ local'.origin = IF completed = 0 THEN StartOfHistory
                         ELSE IF syncOrigin # NoCursor THEN syncOrigin ELSE cursor
  BY DEF StartRun, provider, item, NoRun
<1>2. /\ cursor.pos \in Nat /\ Safe(cursor.pos)
      /\ syncOrigin # NoCursor => syncOrigin.pos \in Nat /\ Safe(syncOrigin.pos)
  BY PagePlaces DEF SafeInv, SafeOrigins
<1>3. \A p \in Nat : Safe(p) => Safe(p)'
  BY <1>1, SafeStays
<1>4. Safe(local.origin.pos)'
  <2>1. CASE completed = 0
    <3>1. local'.origin.pos = 0 /\ Safe(0)
      BY <1>1, <2>1, Constants0, PagePlaces, SafeStart
    <3>2. QED
      BY <1>3, <3>1
  <2>2. CASE completed # 0
    BY <1>1, <1>2, <1>3, <2>2
  <2>3. QED
    BY <2>1, <2>2
<1>5. QED
  BY <1>1, <1>2, <1>3, <1>4, BetweenPages

LEMMA RestartKeepsSafe == ASSUME TypeInv, SafeInv, SeenKept, RestartPagination PROVE SafeInv'
<1>1. /\ UNCHANGED <<log, rows, refused, syncOrigin>> /\ phase = "fetch" /\ phase' = "fetch"
      /\ cursor' = local.origin /\ local'.origin = local.origin
  BY DEF RestartPagination, provider, TypeInv, Types, Locals
<1>2. /\ local.origin.pos \in Nat /\ Safe(local.origin.pos)
      /\ syncOrigin # NoCursor => syncOrigin.pos \in Nat /\ Safe(syncOrigin.pos)
  BY <1>1, PagePlaces DEF SafeInv, SafeOrigins, InRun
<1>3. \A p \in Nat : Safe(p) => Safe(p)'
  BY <1>1, SafeStays
<1>4. QED
  BY <1>1, <1>2, <1>3, BetweenPages

LEMMA EndKeepsSafe ==
    ASSUME TypeInv, SafeInv, SeenKept, GiveUp \/ PageIncomplete \/ RunDies PROVE SafeInv'
<1>1. UNCHANGED <<log, rows, refused, cursor, syncOrigin>> /\ phase' = "idle"
  BY DEF GiveUp, PageIncomplete, RunDies, EndRun, provider, item
<1>2. /\ cursor.pos \in Nat /\ Safe(cursor.pos)
      /\ syncOrigin # NoCursor => syncOrigin.pos \in Nat /\ Safe(syncOrigin.pos)
  BY PagePlaces DEF SafeInv, SafeOrigins
<1>3. \A p \in Nat : Safe(p) => Safe(p)'
  BY <1>1, SafeStays
<1>4. ~InRun'
  BY <1>1 DEF InRun
<1>5. QED
  BY <1>1, <1>2, <1>3, <1>4, BetweenPages

LEMMA CompleteKeepsSafe == ASSUME TypeInv, SafeInv, SeenKept, CompleteLoop PROVE SafeInv'
<1>1. /\ UNCHANGED <<log, rows, refused, cursor>> /\ syncOrigin' = cursor
      /\ phase' = "completed"
  BY DEF CompleteLoop, provider, TypeInv, RunInv, InRun
<1>2. cursor.pos \in Nat /\ Safe(cursor.pos)
  BY PagePlaces DEF SafeInv, SafeOrigins
<1>3. \A p \in Nat : Safe(p) => Safe(p)'
  BY <1>1, SafeStays
<1>4. ~InRun'
  BY <1>1 DEF InRun
<1>5. QED
  BY <1>1, <1>2, <1>3, <1>4, BetweenPages

\* An id on offer is live in the log.
LEMMA OnOfferIsLive ==
    ASSUME LogTyped, NEW t \in Txns, NEW i \in Nat, NEW p \in Nat, p <= Len(log)
    PROVE  /\ OnOffer(t, i, p) => LiveAt(t, p)
           /\ LiveAt(t, p) => \E j \in Nat : OnOffer(t, j, p)
<1> DEFINE l == LastIn(t, 0, p)
<1>1. /\ l \in Nat /\ Len(log) \in Nat
      /\ l = 0 => \A j \in 1..p : log[j].txn # t
      /\ l # 0 => l \in 1..p /\ log[l].txn = t /\ \A j \in l+1..p : log[j].txn # t
  <2>1. 0 \in Nat /\ 0 + 1 = 1 /\ Len(log) \in Nat
    BY DEF LogTyped
  <2>2. /\ l \in Nat
        /\ l = 0 => \A j \in 0+1..p : log[j].txn # t
        /\ l # 0 => l \in 0+1..p /\ log[l].txn = t /\ \A j \in l+1..p : log[j].txn # t
    BY ZenonT(60), <2>1, LastInIs
  <2> HIDE DEF l
  <2>3. QED
    BY <2>1, <2>2
<1>2. LiveAt(t, p) <=> l # 0 /\ log[l].op = "up"
  BY DEF LiveAt
<1> HIDE DEF l
<1>3. ASSUME OnOffer(t, i, p) PROVE l # 0 /\ log[l].op = "up"
  <2>1. i \in 1..p /\ log[i].txn = t /\ \A j \in Nat : i < j /\ j <= p => ~Rm(t, j)
    BY <1>3 DEF OnOffer, Up
  <2>2. l # 0 /\ l \in 1..Len(log) /\ i <= l /\ log[l].txn = t /\ l <= p
    BY <1>1, <2>1
  <2>3. log[l] \in Entries
    BY <2>2 DEF LogTyped
  <2>4. log[l].op = "up" \/ Rm(t, l)
    BY <2>2, <2>3 DEF Entries, Rm
  <2>5. CASE l = i
    BY <1>3, <2>2, <2>5 DEF OnOffer, Up
  <2>6. CASE l # i
    BY <1>1, <2>1, <2>2, <2>4, <2>6
  <2>7. QED
    BY <2>5, <2>6
<1>4. ASSUME l # 0, log[l].op = "up" PROVE OnOffer(t, l, p)
  <2>1. l \in 1..Len(log) /\ l <= p /\ log[l].txn = t /\ \A j \in l+1..p : log[j].txn # t
    BY <1>1, <1>4
  <2>2. QED
    BY <1>1, <1>4, <2>1 DEF OnOffer, Up, Rm
<1>5. QED
  BY <1>1, <1>2, <1>3, <1>4

LEMMA FetchKeepsSafe == ASSUME TypeInv, SafeInv, SeenKept, FetchPage PROVE SafeInv'
<1>1. PICK from \in Nat :
        /\ UNCHANGED <<log, rows, refused, cursor, syncOrigin, local>> /\ phase' = "apply"
        /\ phase = "fetch" /\ from = cursor.pos
  BY FetchServes DEF Untouched
<1>2. PICK to \in Nat :
        /\ from <= to /\ to <= Len(log)
        /\ page' = [ups    |-> {t \in Txns : Names(t, "up", from, to)},
                    rms    |-> {t \in Txns : Names(t, "rm", from, to)},
                    from   |-> from,
                    next   |-> [pos |-> to, snap |-> Len(log)],
                    failed |-> FALSE]
  BY <1>1, FetchServes
<1>3. /\ page'.from = from /\ page'.next.pos = to
      /\ page'.ups = {t \in Txns : Names(t, "up", from, to)}
      /\ page'.rms = {t \in Txns : Names(t, "rm", from, to)}
  BY <1>2
<1>4. LogTyped /\ Len(log) \in Nat /\ from <= Len(log)
  BY <1>1, PagePlaces
<1>5. /\ \A t, i : Up(t, i)' <=> Up(t, i)
      /\ \A t, i : Rm(t, i)' <=> Rm(t, i)
      /\ LogInv' /\ RowInv' /\ \A p \in Nat : Safe(p) => Safe(p)'
  BY <1>1, SafeStays DEF SafeInv, Up, Rm
<1>6. \A t \in Txns : Names(t, "rm", from, to) => \E j \in Nat :
         /\ from < j /\ j <= to /\ Rm(t, j)
         /\ \A b \in Nat : j < b /\ b <= to => ~Up(t, b)
  <2> SUFFICES ASSUME NEW t \in Txns, Names(t, "rm", from, to)
               PROVE  \E j \in Nat : /\ from < j /\ j <= to /\ Rm(t, j)
                                     /\ \A b \in Nat : j < b /\ b <= to => ~Up(t, b)
    OBVIOUS
  <2>1. LastIn(t, from, to) # 0 /\ log[LastIn(t, from, to)].op = "rm"
    BY DEF Names
  <2>2. QED
    BY <1>1, <1>2, <1>4, <2>1, NamedUp
<1>7. ASSUME NEW v \in Txns, Names(v, "up", from, to), NEW u \in Txns,
             NEW a \in Nat, NEW i \in Nat, NEW b \in Nat,
             LastUpsert(v, a, to), OnOffer(v, i, from),
             SameEvent(u, v), Up(u, b), a < b, b <= to
      PROVE  \E c \in Nat : b < c /\ c <= to /\ Rm(u, c)
  <2>1. LiveAt(v, from)
    BY <1>1, <1>4, <1>7, OnOfferIsLive
  <2> DEFINE l == LastIn(v, from, to)
             j == LastIn(u, from, to)
  <2>2. /\ l # 0 /\ log[l].op = "up"
        /\ j > l => log[j].op = "rm"
    BY <1>7, <2>1 DEF Names, IdsOf, SameEvent
  <2>3. /\ l \in Nat /\ from < l /\ LastUpsert(v, l, to)
    BY <1>1, <1>2, <1>4, <2>2, NamedUp
  <2>4. /\ j \in Nat
        /\ j = 0 => \A x \in from+1..to : log[x].txn # u
        /\ j # 0 => /\ j \in from+1..to /\ log[j].txn = u
                   /\ \A x \in j+1..to : log[x].txn # u
    BY ZenonT(60), <1>1, LastInIs
  <2> HIDE DEF l, j
  <2>5. l = a
    BY <1>7, <2>3 DEF LastUpsert
  <2>6. b \in from+1..to /\ log[b].txn = u
    BY <1>1, <1>7, <2>3, <2>5 DEF Up
  <2>7. j \in from+1..to /\ log[j].txn = u /\ b <= j
    BY <1>1, <1>7, <2>4, <2>6
  <2>8. Rm(u, j) /\ j # b
    <3>1. j \in 1..Len(log)
      BY <1>1, <1>2, <1>4, <2>7
    <3>2. log[j].op = "rm"
      BY <1>7, <2>2, <2>4, <2>5, <2>7
    <3>3. QED
      BY <1>7, <2>7, <3>1, <3>2 DEF Rm, Up
  <2>9. QED
    BY <1>1, <1>2, <1>7, <2>4, <2>7, <2>8
<1>8. PageFaithful'
  <2>1. (\A t \in page.rms : \E j \in Nat :
            /\ page.from < j /\ j <= page.next.pos /\ Rm(t, j)
            /\ \A b \in Nat : j < b /\ b <= page.next.pos => ~Up(t, b))'
    BY <1>3, <1>5, <1>6
  <2>2. (\A v \in page.ups, u \in Txns, a, i, b \in Nat :
            /\ LastUpsert(v, a, page.next.pos) /\ OnOffer(v, i, page.from)
            /\ SameEvent(u, v) /\ Up(u, b) /\ a < b /\ b <= page.next.pos
            => \E c \in Nat : b < c /\ c <= page.next.pos /\ Rm(u, c))'
    <3>1. SUFFICES ASSUME NEW v \in Txns, Names(v, "up", from, to), NEW u \in Txns,
                          NEW a \in Nat, NEW i \in Nat, NEW b \in Nat,
                          LastUpsert(v, a, to)', OnOffer(v, i, from)',
                          SameEvent(u, v), Up(u, b)', a < b, b <= to
                   PROVE  \E c \in Nat : b < c /\ c <= to /\ Rm(u, c)'
      BY <1>3 DEF SameEvent, LastUpsert, OnOffer
    <3>2. LastUpsert(v, a, to) /\ OnOffer(v, i, from) /\ Up(u, b)
      BY <1>5, <3>1 DEF LastUpsert, OnOffer
    <3>3. \E c \in Nat : b < c /\ c <= to /\ Rm(u, c)
      BY <1>7, <3>1, <3>2
    <3>4. QED
      BY <1>5, <3>3
  <2>3. QED
    BY <2>1, <2>2 DEF PageFaithful
<1>9. ASSUME NEW w \in Txns, NEW k \in Nat, Newest(w, k, to), from < k,
             \A j \in Nat : k < j /\ j <= to => ~Rm(w, j)
      PROVE  Names(w, "up", from, to)
  <2> DEFINE i == LastIn(w, from, to)
  <2>1. /\ i \in Nat
        /\ i = 0 => \A j \in from+1..to : log[j].txn # w
        /\ i # 0 => /\ i \in from+1..to /\ log[i].txn = w
                   /\ \A j \in i+1..to : log[j].txn # w
    BY ZenonT(60), <1>1, LastInIs
  <2> HIDE DEF i
  <2>2. Up(w, k) /\ k <= to /\ k \in from+1..to /\ log[k].txn = w
    BY <1>1, <1>9 DEF Newest, Up
  <2>3. i \in from+1..to /\ log[i].txn = w /\ k <= i
    BY <1>1, <2>1, <2>2
  <2>4. \A x \in Txns, j \in from+1..to : log[j].txn = x => Up(x, j) \/ Rm(x, j)
    <3> SUFFICES ASSUME NEW j \in from+1..to PROVE Up(log[j].txn, j) \/ Rm(log[j].txn, j)
      OBVIOUS
    <3>1. j \in 1..Len(log)
      BY <1>1, <1>2, <1>4
    <3>2. log[j] \in Entries
      BY <1>4, <3>1 DEF LogTyped
    <3>3. QED
      BY <3>1, <3>2 DEF Entries, Up, Rm
  <2>5. i = k
    <3>1. ~(k < i)
      <4>1. SUFFICES ASSUME k < i PROVE FALSE
        OBVIOUS
      <4>2. i \in Nat /\ i <= to /\ ~Rm(w, i) /\ (Up(w, i) \/ Rm(w, i))
        BY <1>1, <1>9, <2>3, <2>4, <4>1
      <4>3. QED
        BY <1>9, <4>1, <4>2 DEF Newest, SameEvent
    <3>2. QED
      BY <2>1, <2>2, <2>3, <3>1
  <2>6. i # 0 /\ log[i].op = "up"
    BY <2>2, <2>3, <2>5 DEF Up
  <2>7. ASSUME NEW u \in IdsOf(w), LastIn(u, from, to) > i
        PROVE  log[LastIn(u, from, to)].op = "rm"
    <3> DEFINE j == LastIn(u, from, to)
    <3>1. u \in Txns /\ SameEvent(u, w)
      BY <2>7 DEF IdsOf, SameEvent
    <3>2. j \in Nat /\ (j # 0 => j \in from+1..to /\ log[j].txn = u)
      BY ZenonT(60), <1>1, <3>1, LastInIs
    <3> HIDE DEF j
    <3>3. j > i
      BY <2>7 DEF j
    <3>4. j \in from+1..to /\ log[j].txn = u /\ j <= to
      BY <1>1, <2>1, <3>2, <3>3
    <3>5. ~Up(u, j)
      BY <1>9, <2>5, <3>1, <3>2, <3>3, <3>4 DEF Newest
    <3>6. Rm(u, j)
      BY <2>4, <3>1, <3>4, <3>5
    <3>7. QED
      BY <3>6 DEF Rm, j
  <2>8. QED
    BY <2>6, <2>7 DEF Names, i
<1>10. PageStored'
  <2>1. SUFFICES ASSUME NEW w \in Txns, ~Names(w, "up", from, to), NEW k \in Nat,
                        Newest(w, k, to)', from < k,
                        \A j \in Nat : k < j /\ j <= to => ~Rm(w, j)'
                 PROVE  FALSE
    BY <1>3 DEF PageStored, Newest, SameEvent
  <2>2. Newest(w, k, to) /\ \A j \in Nat : k < j /\ j <= to => ~Rm(w, j)
    BY <1>5, <2>1 DEF Newest, SameEvent
  <2>3. QED
    BY <1>9, <2>1, <2>2
<1>11. SafeOrigins'
  BY <1>1, <1>5, PagePlaces DEF SafeInv, SafeOrigins, InRun
<1>12. QED
  BY <1>5, <1>8, <1>10, <1>11 DEF SafeInv

\* The cursor moves: what is stored now reaches to the end of the page.
LEMMA ConsumedIsSafe ==
    ASSUME TypeInv, SafeInv, phase = "gate", ~page.failed
    PROVE  Safe(page.next.pos)
<1>1. PICK from \in Nat, to \in Nat : from = page.from /\ to = page.next.pos
  BY PagePlaces DEF InPage
<1>2. LogInv /\ RowInv /\ Safe(from) /\ from <= to /\ to <= Len(log) /\ page.ups = {}
  BY <1>1, PagePlaces DEF SafeInv, SafeOrigins, InPage, TypeInv, RunInv
<1>3. /\ \A t \in page.rms : \E j \in Nat :
            /\ from < j /\ j <= to /\ Rm(t, j) /\ \A b \in Nat : j < b /\ b <= to => ~Up(t, b)
      /\ \A w \in Txns, k \in Nat :
            /\ Newest(w, k, to) /\ from < k /\ \A j \in Nat : k < j /\ j <= to => ~Rm(w, j)
            => Delivered(w, k)
  BY <1>1, <1>2 DEF SafeInv, PageFaithful, PageStored, InPage
<1> SUFFICES ASSUME NEW w \in Txns, NEW t \in Txns, NEW k \in Nat, NEW i \in Nat,
                    SameEvent(t, w), Newest(w, k, to), OnOffer(t, i, to)
             PROVE  Held(w, k, to)
  BY <1>1 DEF Safe
<1>4. \A j \in Nat : k < j /\ j <= to => ~Rm(w, j)
  BY <1>2, NewestStays
<1>5. Up(w, k) /\ k <= to /\ Up(t, i) /\ i <= k
  BY DEF Newest, OnOffer
\* A row of another id that is no older than k is newer than the page.
<1>6. ASSUME NEW u \in Txns, SameEvent(u, w), u # w, HasRow(u), k <= rows[u].ver,
             NEW j \in Nat, Rm(u, j)
      PROVE  to < j
  <2>1. rows[u].ver \in Nat /\ Up(u, rows[u].ver)
    BY <1>2, <1>6 DEF RowInv
  <2>2. \A x \in Nat : x <= to => ~Rm(u, x)
    BY <1>2, <1>5, <1>6, <2>1, NewerIsLater
  <2>3. QED
    BY <1>6, <2>2
<1>7. CASE k <= from
  <2>1. Newest(w, k, from)
    BY <1>2, <1>7 DEF Newest
  <2>2. OnOffer(t, i, from)
    BY <1>2, <1>5, <1>7 DEF OnOffer
  <2>3. PICK u \in Txns :
          /\ SameEvent(u, w) /\ HasRow(u)
          /\ IF w \in refused
             THEN \E a \in Nat : Up(w, a) /\ a <= rows[u].ver
             ELSE /\ k <= rows[u].ver
                  /\ rows[u].live \/ \E j \in Nat : from < j /\ SeenRm(u, j)
    BY <1>2, <2>1, <2>2 DEF Safe, Held
  <2>4. CASE w \in refused
    BY <2>3, <2>4 DEF Held
  <2>5. CASE w \notin refused /\ rows[u].live
    BY <2>3, <2>5 DEF Held
  <2>6. CASE w \notin refused /\ ~rows[u].live
    <3>1. PICK j \in Nat : from < j /\ SeenRm(u, j)
      BY <2>3, <2>6
    <3>2. to < j
      <4>1. CASE u = w
        BY <1>4, <1>7, <3>1, <4>1 DEF SeenRm
      <4>2. CASE u # w
        BY <1>6, <2>3, <2>6, <3>1, <4>2 DEF SeenRm
      <4>3. QED
        BY <4>1, <4>2
    <3>3. QED
      BY <2>3, <2>6, <3>1, <3>2 DEF Held
  <2>7. QED
    BY <2>4, <2>5, <2>6
<1>8. CASE from < k
  <2>1. PICK u \in Txns :
          /\ SameEvent(u, w) /\ HasRow(u)
          /\ IF w \in refused
             THEN \E a \in Nat : Up(w, a) /\ a <= rows[u].ver
             ELSE /\ k <= rows[u].ver
                  /\ rows[u].live \/ u \in page.rms
    BY <1>3, <1>4, <1>8 DEF Delivered
  <2>2. CASE w \in refused
    BY <2>1, <2>2 DEF Held
  <2>3. CASE w \notin refused /\ rows[u].live
    BY <2>1, <2>3 DEF Held
  <2>4. CASE w \notin refused /\ ~rows[u].live
    <3>1. u # w
      <4>1. SUFFICES ASSUME u = w PROVE FALSE
        OBVIOUS
      <4>2. PICK j \in Nat : /\ from < j /\ j <= to /\ Rm(w, j)
                             /\ \A b \in Nat : j < b /\ b <= to => ~Up(w, b)
        BY <1>3, <2>1, <2>4, <4>1
      <4>3. ~(j < k) /\ ~(k < j) /\ j # k
        BY <1>4, <1>5, <4>2 DEF Up, Rm
      <4>4. QED
        BY <4>2, <4>3
    <3>2. PICK j \in Nat : SeenRm(u, j)
      BY <1>2, <2>1, <2>4 DEF RowInv
    <3>3. to < j
      BY <1>6, <2>1, <2>4, <3>1, <3>2 DEF SeenRm
    <3>4. QED
      BY <2>1, <2>4, <3>2, <3>3 DEF Held
  <2>5. QED
    BY <2>2, <2>3, <2>4
<1>9. QED
  BY <1>2, <1>7, <1>8

LEMMA ConsumedKeepsSafe == ASSUME TypeInv, SafeInv, SeenKept, PageConsumed PROVE SafeInv'
<1>1. /\ UNCHANGED <<log, rows, refused, syncOrigin>> /\ phase = "gate" /\ ~page.failed
      /\ cursor' = page.next /\ local'.origin = local.origin /\ phase' \in {"finish", "fetch"}
  BY DEF PageConsumed, provider, TypeInv, Types, Locals
<1>2. /\ page.next.pos \in Nat /\ local.origin.pos \in Nat /\ Safe(local.origin.pos)
      /\ syncOrigin # NoCursor => syncOrigin.pos \in Nat /\ Safe(syncOrigin.pos)
  BY <1>1, PagePlaces DEF SafeInv, SafeOrigins, InRun, InPage
<1>3. Safe(page.next.pos) /\ \A p \in Nat : Safe(p) => Safe(p)'
  BY <1>1, ConsumedIsSafe, SafeStays
<1>4. QED
  BY <1>1, <1>2, <1>3, BetweenPages

LEMMA TombstoneKeepsSafe == ASSUME TypeInv, SafeInv, SeenKept, Tombstone PROVE SafeInv'
<1>1. /\ UNCHANGED <<log, refused, cursor, syncOrigin, local, page>>
      /\ phase = "apply" /\ phase' = "gate"
      /\ rows' = [t \in Txns |-> IF t \in page.rms /\ LiveRow(t)
                                   THEN [rows[t] EXCEPT !.live = FALSE] ELSE rows[t]]
  BY DEF Tombstone, provider, item
<1>2. PICK from \in Nat, to \in Nat :
        /\ from = page.from /\ to = page.next.pos /\ from = cursor.pos
        /\ page.ups \in SUBSET Txns /\ Seen \in Nat /\ to <= Seen
  BY <1>1, PagePlaces DEF InPage
<1>3. /\ \A t, i : Up(t, i)' <=> Up(t, i)
      /\ \A t, i : Rm(t, i)' <=> Rm(t, i)
      /\ \A t, i : SeenRm(t, i)' <=> SeenRm(t, i)
      /\ LogInv'
  BY <1>1 DEF SafeInv, LogInv, LogTyped, NoComeback, OldestFirst, RemovedAfterUp, Up, Rm,
                  SeenRm, Seen, InPage
<1>4. \A t \in Txns : HasRow(t) =>
        /\ HasRow(t)' /\ rows'[t].ver = rows[t].ver
        /\ rows[t].live => rows'[t].live \/ t \in page.rms
        /\ ~rows[t].live => ~rows'[t].live
  <2> SUFFICES ASSUME NEW t \in Txns, HasRow(t)
               PROVE  /\ HasRow(t)' /\ rows'[t].ver = rows[t].ver
                      /\ rows[t].live => rows'[t].live \/ t \in page.rms
                      /\ ~rows[t].live => ~rows'[t].live
    OBVIOUS
  <2>1. rows[t] \in RowType /\ rows[t] # NoRow
    BY DEF TypeInv, Types, HasRow
  <2>2. CASE t \in page.rms /\ rows[t].live
    <3>1. rows'[t] = [rows[t] EXCEPT !.live = FALSE]
      BY <1>1, <2>2 DEF LiveRow
    <3>2. rows'[t] \in [fa : FinancialAccounts, ver : Nat, live : BOOLEAN]
      <4>1. rows[t] \in [fa : FinancialAccounts, ver : Nat, live : BOOLEAN]
        BY <2>1, BoundsAssumption DEF RowType
      <4>2. QED
        BY <3>1, <4>1
    <3>3. rows'[t] # NoRow
      BY <3>2, FunctionsAssumption
    <3>4. QED
      BY <2>1, <2>2, <3>1, <3>3 DEF RowType, HasRow
  <2>3. CASE ~(t \in page.rms /\ rows[t].live)
    BY <1>1, <2>1, <2>3 DEF LiveRow, HasRow
  <2>4. QED
    BY <2>2, <2>3
<1>5. \A t \in Txns : HasRow(t)' => HasRow(t)
  BY <1>1 DEF HasRow, LiveRow
<1>6. \A t \in page.rms : \E j \in Nat : from < j /\ SeenRm(t, j)
  <2>1. \A t \in page.rms : \E j \in Nat : from < j /\ j <= to /\ Rm(t, j)
    BY <1>1, <1>2 DEF SafeInv, PageFaithful, InPage
  <2>2. QED
    BY <1>2, <2>1 DEF SeenRm
<1>7. RowInv'
  <2> SUFFICES ASSUME NEW u \in Txns, HasRow(u)'
               PROVE  (/\ rows[u].ver \in Nat /\ Up(u, rows[u].ver)
                       /\ rows[u].live \/ \E j \in Nat : SeenRm(u, j))'
    BY DEF RowInv
  <2>1. /\ HasRow(u) /\ rows[u].ver \in Nat /\ Up(u, rows[u].ver)
        /\ rows[u].live \/ \E j \in Nat : SeenRm(u, j)
    BY <1>5 DEF SafeInv, RowInv
  <2>2. QED
    BY <1>3, <1>4, <1>6, <2>1
<1>8. ASSUME NEW p \in Nat, p <= from, Safe(p) PROVE Safe(p)'
  <2> SUFFICES ASSUME NEW w \in Txns, NEW t \in Txns, NEW k \in Nat, NEW i \in Nat,
                      SameEvent(t, w), Newest(w, k, p)', OnOffer(t, i, p)'
               PROVE  Held(w, k, p)'
    BY DEF Safe, SameEvent
  <2>1. Newest(w, k, p) /\ OnOffer(t, i, p)
    BY <1>3 DEF Newest, OnOffer, SameEvent
  <2>2. PICK u \in Txns :
          /\ SameEvent(u, w) /\ HasRow(u)
          /\ IF w \in refused
             THEN \E a \in Nat : Up(w, a) /\ a <= rows[u].ver
             ELSE /\ k <= rows[u].ver
                  /\ rows[u].live \/ \E j \in Nat : p < j /\ SeenRm(u, j)
    BY <1>8, <2>1 DEF Safe, Held
  <2>3. HasRow(u)' /\ rows'[u].ver = rows[u].ver
    BY <1>4, <2>2
  <2>4. w \notin refused => rows'[u].live \/ \E j \in Nat : p < j /\ SeenRm(u, j)
    <3>1. CASE rows[u].live /\ ~rows'[u].live
      <4>1. PICK j \in Nat : from < j /\ SeenRm(u, j)
        BY <1>4, <1>6, <2>2, <3>1
      <4>2. QED
        BY <1>8, <4>1
    <3>2. CASE ~(rows[u].live /\ ~rows'[u].live)
      BY <2>2, <3>2
    <3>3. QED
      BY <3>1, <3>2
  <2>5. QED
    BY <1>1, <1>3, <2>2, <2>3, <2>4 DEF Held, SameEvent
<1>9. SafeOrigins'
  <2>1. /\ cursor.pos \in Nat /\ cursor.pos <= from /\ Safe(cursor.pos)
        /\ syncOrigin # NoCursor =>
             syncOrigin.pos \in Nat /\ syncOrigin.pos <= from /\ Safe(syncOrigin.pos)
        /\ local.origin.pos \in Nat /\ local.origin.pos <= from /\ Safe(local.origin.pos)
    BY <1>1, <1>2, PagePlaces DEF SafeInv, SafeOrigins, InRun
  <2>2. QED
    BY <1>1, <1>8, <2>1 DEF SafeOrigins
<1>10. PageFaithful'
  BY <1>1, <1>3 DEF SafeInv, PageFaithful, InPage, LastUpsert, OnOffer, SameEvent
<1>11. PageStored'
  <2> SUFFICES ASSUME ~page.failed, NEW w \in Txns \ page.ups, NEW k \in Nat,
                      Newest(w, k, to)', from < k,
                      \A j \in Nat : k < j /\ j <= to => ~Rm(w, j)'
               PROVE  Delivered(w, k)' /\ \A v \in page.ups : ~SameEvent(v, w)
    BY <1>1, <1>2 DEF PageStored, SameEvent
  <2>1. Newest(w, k, to) /\ \A j \in Nat : k < j /\ j <= to => ~Rm(w, j)
    BY <1>3 DEF Newest, SameEvent
  <2>2. Delivered(w, k) /\ \A v \in page.ups : ~SameEvent(v, w)
    BY <1>1, <1>2, <2>1 DEF SafeInv, PageStored, InPage
  <2>3. PICK u \in Txns :
          /\ SameEvent(u, w) /\ HasRow(u)
          /\ IF w \in refused
             THEN \E a \in Nat : Up(w, a) /\ a <= rows[u].ver
             ELSE k <= rows[u].ver /\ rows[u].live
    BY <1>1, <2>2 DEF Delivered
  <2>4. Delivered(w, k)'
    BY <1>1, <1>3, <1>4, <2>3 DEF Delivered, SameEvent
  <2>5. QED
    BY <2>2, <2>4
<1>12. QED
  BY <1>3, <1>7, <1>9, <1>10, <1>11 DEF SafeInv

\* What storing t from this page does to the rows of its event.
LEMMA WrittenRows ==
    ASSUME TypeInv, FingerprintsTellEvents, NEW t \in Txns, NEW u \in Txns,
           NextInPage(t), Writes(t, u)
    PROVE  /\ HasRow(t)' /\ rows'[t].ver = Stored(t).ver /\ rows'[t].live = TRUE
           /\ SameEvent(u, t)
           /\ \A v \in Txns \ {t, u} : rows'[v] = rows[v]
           /\ u # t => ~HasRow(u)'
<1>1. rows \in [Txns -> RowType \cup {NoRow}]
  BY DEF TypeInv, Types
<1>2. rows'[t] = Stored(t) /\ Stored(t) # NoRow /\ Stored(t).live = TRUE
  BY <1>1, StoredIs DEF Writes
<1>3. SameEvent(u, t)
  BY DEF FingerprintsTellEvents, Writes, SameEvent
<1>4. \A v \in Txns \ {t, u} : rows'[v] = rows[v]
  BY <1>1 DEF Writes
<1>5. u # t => rows'[u] = NoRow
  BY <1>1 DEF Writes
<1>6. QED
  BY <1>2, <1>3, <1>4, <1>5 DEF HasRow

\* A row of an event is kept, or follows to a row from this page.
LEMMA RowsFollow ==
    ASSUME TypeInv, SafeInv, FingerprintsTellEvents, NEW t \in Txns, RowAction(t),
           NEW u \in Txns, HasRow(u)
    PROVE  \/ HasRow(u)' /\ rows'[u] = rows[u]
           \/ /\ SameEvent(t, u) /\ HasRow(t)' /\ rows'[t].live = TRUE
              /\ rows'[t].ver \in Nat /\ page.from < rows'[t].ver
<1>1. NextInPage(t) /\ (rows' = rows \/ \E v \in Txns : Writes(t, v))
  BY RowEffect
<1>2. CASE rows' = rows
  BY <1>2 DEF HasRow
<1>3. CASE \E v \in Txns : Writes(t, v)
  <2>1. PICK v \in Txns : Writes(t, v)
    BY <1>3
  <2>2. /\ HasRow(t)' /\ rows'[t].ver = Stored(t).ver /\ rows'[t].live = TRUE
        /\ SameEvent(v, t)
        /\ \A x \in Txns \ {t, v} : rows'[x] = rows[x]
    BY <1>1, <2>1, WrittenRows
  <2>3. Stored(t).ver \in Nat /\ page.from < Stored(t).ver
    BY <1>1, StoredIs
  <2>4. CASE u \in {t, v}
    BY <2>2, <2>3, <2>4 DEF SameEvent
  <2>5. CASE u \notin {t, v}
    BY <2>2, <2>5 DEF HasRow
  <2>6. QED
    BY <2>4, <2>5
<1>4. QED
  BY <1>1, <1>2, <1>3

\* The upsert in hand, when its id is the newest of its event and stays, is the
\* last of its event in the page.
LEMMA NewestComesLast ==
    ASSUME TypeInv, SafeInv, NEW t \in Txns, NextInPage(t), NEW k \in Nat,
           Newest(t, k, page.next.pos),
           \A j \in Nat : k < j /\ j <= page.next.pos => ~Rm(t, j)
    PROVE  k = Stored(t).ver /\ \A v \in page.ups \ {t} : ~SameEvent(v, t)
<1>1. PICK from \in Nat, to \in Nat :
        /\ from = page.from /\ to = page.next.pos /\ from <= to /\ to <= Len(log)
        /\ LogTyped /\ page.ups \in SUBSET Txns
  BY PagePlaces DEF NextInPage, InPage
<1>2. /\ Stored(t).ver \in Nat /\ LastUpsert(t, Stored(t).ver, to)
      /\ Stored(t).ver = LastIn(t, from, to)
  BY <1>1, StoredIs DEF Stored
<1>3. k = Stored(t).ver
  <2>1. Up(t, k) /\ k <= to /\ Stored(t).ver <= k
    BY <1>1, <1>2 DEF Newest, LastUpsert, SameEvent
  <2>2. ~(Stored(t).ver < k)
    BY <1>2, <2>1 DEF LastUpsert
  <2>3. QED
    BY <1>2, <2>1, <2>2
<1>4. SUFFICES ASSUME NEW v \in page.ups \ {t}, SameEvent(v, t) PROVE FALSE
  BY <1>3
<1>5. v \in Txns /\ v \in page.ups
  BY <1>1
<1>6. PICK a \in Nat : from < a /\ LastUpsert(v, a, to)
  BY <1>1, <1>5 DEF TypeInv, RunInv, NextInPage, InPage
<1>7. a < k
  <2>1. a <= k
    BY <1>1, <1>4, <1>5, <1>6 DEF Newest, LastUpsert
  <2>2. a # k
    BY <1>4, <1>6 DEF Newest, LastUpsert, Up
  <2>3. QED
    BY <2>1, <2>2
<1>8. LastIn(v, from, to) = a
  <2> DEFINE l == LastIn(v, from, to)
  <2>1. /\ l \in Nat
        /\ l = 0 => \A j \in from+1..to : log[j].txn # v
        /\ l # 0 => /\ l \in from+1..to /\ log[l].txn = v
                   /\ \A j \in l+1..to : log[j].txn # v
    BY ZenonT(60), <1>5, LastInIs
  <2> HIDE DEF l
  <2>2. a \in from+1..to /\ log[a].txn = v
    BY <1>6 DEF LastUpsert, Up
  <2>3. l \in from+1..to /\ log[l].txn = v /\ a <= l
    BY <2>1, <2>2
  <2>4. ~(a < l)
    <3>1. SUFFICES ASSUME a < l PROVE FALSE
      OBVIOUS
    <3>2. Len(log) \in Nat
      BY <1>1 DEF LogTyped
    <3>3. l \in 1..Len(log)
      BY <1>1, <2>3, <3>2
    <3>4. log[l] \in Entries
      BY <1>1, <3>3 DEF LogTyped
    <3>5. Up(v, l) \/ Rm(v, l)
      BY <2>3, <3>3, <3>4 DEF Entries, Up, Rm
    <3>6. l <= to
      BY <2>3
    <3>7. QED
      BY <1>6, <2>1, <3>1, <3>5, <3>6 DEF LastUpsert
  <2>5. l = a
    BY <2>1, <2>3, <2>4
  <2>6. QED
    BY <2>5 DEF l
<1>9. LiveAt(v, from)
  <2>1. Precedes(t, v)
    BY <1>5 DEF NextInPage
  <2>2. ~(LastIn(t, from, to) <= LastIn(v, from, to))
    BY <1>2, <1>3, <1>7, <1>8
  <2>3. QED
    BY <1>1, <2>1, <2>2 DEF Precedes
<1>10. PICK i \in Nat : OnOffer(v, i, from)
  BY <1>1, <1>5, <1>9, OnOfferIsLive
<1>11. SameEvent(t, v) /\ Up(t, k) /\ k <= to
  BY <1>1, <1>4 DEF SameEvent, Newest
<1>12. \E c \in Nat : k < c /\ c <= to /\ Rm(t, c)
  BY <1>1, <1>5, <1>6, <1>7, <1>10, <1>11 DEF SafeInv, PageFaithful, NextInPage, InPage
<1>13. QED
  BY <1>1, <1>12

LEMMA RowKeepsSafe ==
    ASSUME TypeInv, SafeInv, SeenKept, FingerprintsTellEvents, NEW t \in Txns, RowAction(t)
    PROVE  SafeInv'
<1>1. /\ NextInPage(t) /\ Remember(t)
      /\ UNCHANGED <<log, cursor, syncOrigin, phase>> /\ phase = "apply"
      /\ \/ Dropped(t) /\ UNCHANGED <<rows, refused>>
         \/ Taken(t) /\ HasRow(t) /\ rows' = rows /\ refused' = refused \cup {t}
         \/ Taken(t) /\ refused' = refused /\ \E u \in Txns : Writes(t, u)
  BY RowEffect DEF NextInPage
<1>2. /\ page'.ups = page.ups \ {t} /\ page'.rms = page.rms
      /\ page'.from = page.from /\ page'.next = page.next
      /\ ~page'.failed => ~page.failed
      /\ Dropped(t) => page'.failed
      /\ local'.origin = local.origin
  BY <1>1, PageTaken
<1>3. PICK from \in Nat, to \in Nat :
        /\ from = page.from /\ to = page.next.pos /\ from = cursor.pos
        /\ page.ups \in SUBSET Txns /\ t \in page.ups
  BY <1>1, PagePlaces DEF InPage, NextInPage
<1>4. /\ \A u, i : Up(u, i)' <=> Up(u, i)
      /\ \A u, i : Rm(u, i)' <=> Rm(u, i)
      /\ \A u, i : SeenRm(u, i)' <=> SeenRm(u, i)
      /\ LogInv'
  <2>1. Seen' = Seen
    BY <1>1, <1>2 DEF Seen, InPage
  <2>2. log' = log /\ LogInv
    BY <1>1 DEF SafeInv
  <2>3. LogInv'
    BY <2>2 DEF LogInv, LogTyped, NoComeback, OldestFirst, RemovedAfterUp, Up, Rm
  <2>4. QED
    BY <2>1, <2>2, <2>3 DEF SeenRm, Up, Rm
<1>5. /\ Stored(t).ver \in Nat /\ from < Stored(t).ver
      /\ LastUpsert(t, Stored(t).ver, to) /\ Up(t, Stored(t).ver)
  BY <1>1, <1>3, StoredIs DEF LastUpsert
<1>6. RowInv'
  <2> SUFFICES ASSUME NEW u \in Txns, HasRow(u)'
               PROVE  (/\ rows[u].ver \in Nat /\ Up(u, rows[u].ver)
                       /\ rows[u].live \/ \E j \in Nat : SeenRm(u, j))'
    BY DEF RowInv
  <2>1. CASE rows'[u] = rows[u]
    <3>1. HasRow(u)
      BY <2>1 DEF HasRow
    <3>2. QED
      BY <1>4, <2>1, <3>1 DEF SafeInv, RowInv
  <2>2. CASE rows'[u] # rows[u]
    <3>1. PICK v \in Txns : Writes(t, v)
      BY <1>1, <2>2
    <3>2. /\ rows'[t].ver = Stored(t).ver /\ rows'[t].live = TRUE
          /\ \A x \in Txns \ {t, v} : rows'[x] = rows[x]
          /\ v # t => ~HasRow(v)'
      BY <1>1, <3>1, WrittenRows
    <3>3. u = t
      BY <2>2, <3>2
    <3>4. QED
      BY <1>4, <1>5, <3>2, <3>3
  <2>3. QED
    BY <2>1, <2>2
<1>7. ASSUME NEW p \in Nat, p <= from, Safe(p) PROVE Safe(p)'
  <2> SUFFICES ASSUME NEW w \in Txns, NEW s \in Txns, NEW k \in Nat, NEW i \in Nat,
                      SameEvent(s, w), Newest(w, k, p)', OnOffer(s, i, p)'
               PROVE  Held(w, k, p)'
    BY DEF Safe, SameEvent
  <2>1. Newest(w, k, p) /\ OnOffer(s, i, p) /\ Up(w, k) /\ k <= p
    BY <1>4 DEF Newest, OnOffer, SameEvent
  <2>2. PICK u \in Txns :
          /\ SameEvent(u, w) /\ HasRow(u)
          /\ IF w \in refused
             THEN \E a \in Nat : Up(w, a) /\ a <= rows[u].ver
             ELSE /\ k <= rows[u].ver
                  /\ rows[u].live \/ \E j \in Nat : p < j /\ SeenRm(u, j)
    BY <1>7, <2>1 DEF Safe, Held
  <2>3. w \in refused => w \in refused'
    BY <1>1
  <2>4. CASE HasRow(u)' /\ rows'[u] = rows[u]
    <3>1. CASE w \in refused'
      <4>1. \E a \in Nat : Up(w, a) /\ a <= rows[u].ver
        BY <2>1, <2>2
      <4>2. QED
        BY <1>4, <2>2, <2>4, <3>1, <4>1 DEF Held, SameEvent
    <3>2. CASE w \notin refused'
      BY <1>4, <2>2, <2>3, <2>4, <3>2 DEF Held, SameEvent
    <3>3. QED
      BY <3>1, <3>2
  <2>5. CASE /\ SameEvent(t, u) /\ HasRow(t)' /\ rows'[t].live = TRUE
             /\ rows'[t].ver \in Nat /\ from < rows'[t].ver
    <3>1. SameEvent(t, w) /\ k <= rows'[t].ver
      BY <1>7, <2>1, <2>2, <2>5 DEF SameEvent
    <3>2. QED
      BY <1>4, <2>1, <2>5, <3>1 DEF Held, SameEvent
  <2>6. QED
    BY <1>3, <2>2, <2>4, <2>5, RowsFollow
<1>8. SafeOrigins'
  <2>1. /\ cursor.pos \in Nat /\ cursor.pos <= from /\ Safe(cursor.pos)
        /\ syncOrigin # NoCursor =>
             syncOrigin.pos \in Nat /\ syncOrigin.pos <= from /\ Safe(syncOrigin.pos)
        /\ local.origin.pos \in Nat /\ local.origin.pos <= from /\ Safe(local.origin.pos)
    BY <1>1, <1>3, PagePlaces DEF SafeInv, SafeOrigins, InRun
  <2>2. QED
    BY <1>1, <1>2, <1>7, <2>1 DEF SafeOrigins
<1>9. PageFaithful'
  <2>1. PageFaithful /\ InPage
    BY <1>1 DEF SafeInv, InPage
  <2>2. QED
    BY <1>1, <1>2, <1>4, <2>1 DEF PageFaithful, InPage, LastUpsert, OnOffer, SameEvent
<1>10. PageStored'
  <2> SUFFICES ASSUME ~page'.failed, NEW w \in Txns, w \notin page.ups \ {t}, NEW k \in Nat,
                      Newest(w, k, to)', from < k,
                      \A j \in Nat : k < j /\ j <= to => ~Rm(w, j)'
               PROVE  Delivered(w, k)' /\ \A v \in page.ups \ {t} : ~SameEvent(v, w)
    BY <1>2, <1>3 DEF PageStored, SameEvent
  <2>1. Newest(w, k, to) /\ \A j \in Nat : k < j /\ j <= to => ~Rm(w, j)
    BY <1>4 DEF Newest, SameEvent
  <2>2. ~page.failed /\ ~Dropped(t)
    BY <1>2
  <2>3. CASE w # t
    <3>1. Delivered(w, k) /\ \A v \in page.ups : ~SameEvent(v, w)
      BY <1>1, <1>3, <2>1, <2>2, <2>3 DEF SafeInv, PageStored, InPage
    <3>2. PICK u \in Txns :
            /\ SameEvent(u, w) /\ HasRow(u)
            /\ IF w \in refused
               THEN \E a \in Nat : Up(w, a) /\ a <= rows[u].ver
               ELSE k <= rows[u].ver /\ rows[u].live
      BY <1>1, <3>1 DEF Delivered
    <3>3. ~SameEvent(t, u)
      BY <1>3, <3>1, <3>2 DEF SameEvent
    <3>4. HasRow(u)' /\ rows'[u] = rows[u]
      BY <3>2, <3>3, RowsFollow
    <3>5. w \in refused' <=> w \in refused
      BY <1>1, <2>3
    <3>6. Delivered(w, k)'
      BY <1>4, <3>2, <3>4, <3>5 DEF Delivered, SameEvent
    <3>7. QED
      BY <3>1, <3>6
  <2>4. CASE w = t
    <3>1. k = Stored(t).ver /\ \A v \in page.ups \ {t} : ~SameEvent(v, t)
      BY <1>1, <1>3, <2>1, <2>4, NewestComesLast
    <3>2. CASE HasRow(t) /\ rows' = rows /\ refused' = refused \cup {t}
      <4>1. rows[t].ver \in Nat /\ Up(t, rows[t].ver) /\ rows[t].ver <= rows[t].ver
        BY <3>2 DEF SafeInv, RowInv
      <4>2. HasRow(t)' /\ SameEvent(t, t)' /\ t \in refused'
        BY <3>2 DEF HasRow, SameEvent
      <4>3. Delivered(t, k)'
        BY <1>4, <3>2, <4>1, <4>2 DEF Delivered
      <4>4. QED
        BY <2>4, <3>1, <4>3
    <3>3. CASE refused' = refused /\ \E u \in Txns : Writes(t, u)
      <4>1. HasRow(t)' /\ rows'[t].ver = Stored(t).ver /\ rows'[t].live = TRUE
        BY <1>1, <3>3, WrittenRows
      <4>2. k <= rows'[t].ver /\ Up(t, k)' /\ SameEvent(t, t)'
        BY <1>4, <1>5, <3>1, <4>1 DEF SameEvent
      <4>3. Delivered(t, k)'
        BY <4>1, <4>2 DEF Delivered
      <4>4. QED
        BY <2>4, <3>1, <4>3
    <3>4. QED
      BY <1>1, <2>2, <3>2, <3>3
  <2>5. QED
    BY <2>3, <2>4
<1>11. QED
  BY <1>4, <1>6, <1>8, <1>9, <1>10 DEF SafeInv

LEMMA StepKeepsSafe ==
    ASSUME FingerprintsTellEvents
    PROVE  TypeInv /\ SafeInv /\ [Next]_vars => SafeInv'
<1> SUFFICES ASSUME TypeInv, SafeInv, [Next]_vars PROVE SafeInv'
  OBVIOUS
<1>s. SeenKept
  BY SeenGrows
<1>1. CASE UNCHANGED vars
  BY <1>1, StutterKeepsSafe DEF vars
<1>2. CASE Next
  <2>1. CASE \E t \in Txns : ProviderUpserts(t) \/ ProviderRemoves(t)
    BY <1>s, <2>1, GrowthKeepsSafe
  <2>2. CASE \E a \in Accounts : AccountImported(a)
    BY <2>2, StutterKeepsSafe DEF AccountImported, item
  <2>3. CASE \E a \in Accounts, f \in FinancialAccounts : AccountRemapped(a, f)
    BY <2>3, StutterKeepsSafe DEF AccountRemapped, item
  <2>4. CASE StartRun
    BY <1>s, <2>4, StartKeepsSafe
  <2>5. CASE FetchPage
    BY <1>s, <2>5, FetchKeepsSafe
  <2>6. CASE RestartPagination
    BY <1>s, <2>6, RestartKeepsSafe
  <2>7. CASE GiveUp \/ PageIncomplete \/ RunDies
    BY <1>s, <2>7, EndKeepsSafe
  <2>8. CASE \E t \in Txns : RowAction(t)
    BY <1>s, <2>8, RowKeepsSafe
  <2>9. CASE Tombstone
    BY <1>s, <2>9, TombstoneKeepsSafe
  <2>10. CASE PageConsumed
    BY <1>s, <2>10, ConsumedKeepsSafe
  <2>11. CASE CompleteLoop
    BY <1>s, <2>11, CompleteKeepsSafe
  <2>12. QED
    BY <1>2, <2>1, <2>2, <2>3, <2>4, <2>5, <2>6, <2>7, <2>8, <2>9, <2>10, <2>11, StepCases
<1>3. QED
  BY <1>1, <1>2

\* While a fingerprint stands for one event, the cursor never passes a
\* transaction that is not stored, under its own id or a newer one of its event:
\* whatever fails, dies, restarts or is delivered again
\* (syncTransactions.ts:61-82).
THEOREM CursorIsSafe ==
    ASSUME FingerprintsTellEvents
    PROVE  Spec => []CursorSafety
<1>1. TypeInv /\ SafeInv => CursorSafety
  BY PagePlaces, SafeIsCursorSafety DEF SafeInv, SafeOrigins
<1>2. Init => SafeInv
  BY InitSafe
<1>3. TypeInv /\ SafeInv /\ [Next]_vars => SafeInv'
  BY StepKeepsSafe
<1>4. QED
  BY <1>1, <1>2, <1>3, AlwaysTyped, PTL DEF Spec

-----------------------------------------------------------------------------
(* A completed run mirrors the provider *)

\* A live row's id is on offer at p, or upserted beyond it.
NoGhost(p) ==
    \A u \in Txns : LiveRow(u) =>
        \/ \E i \in Nat : OnOffer(u, i, p)
        \/ \E j \in Nat : p < j /\ j <= Seen /\ Up(u, j)

\* Wherever the item may go on from.
NoGhosts ==
    /\ NoGhost(cursor.pos)
    /\ syncOrigin # NoCursor => NoGhost(syncOrigin.pos)
    /\ InRun => NoGhost(local.origin.pos)

\* A removal is the page's last word on u.
RemovedIn(u, j, from, to) ==
    /\ from < j /\ j <= to /\ Rm(u, j)
    /\ \A b \in Nat : j < b /\ b <= to => ~Up(u, b)

\* The page names what it removes, and what it names is gone once it is stored.
RemovalsNamed ==
    InPage => \A u \in Txns, j \in Nat :
                 RemovedIn(u, j, page.from, page.next.pos) => u \in page.rms
RemovalsDone == phase = "gate" => \A u \in page.rms : ~LiveRow(u)

LoopEnded == phase = "completed" => EndOfLoop(cursor)

GhostInv == NoGhosts /\ RemovalsNamed /\ RemovalsDone /\ LoopEnded

LEMMA InitGhosts == Init => GhostInv
BY DEF Init, GhostInv, NoGhosts, NoGhost, RemovalsNamed, RemovalsDone, LoopEnded, LiveRow, HasRow,
       InPage, InRun

\* Nothing that NoGhost speaks of changes.
LEMMA GhostStays ==
    ASSUME UNCHANGED <<log, rows>>, SeenKept
    PROVE  \A p : NoGhost(p) => NoGhost(p)'
<1>1. /\ \A t, i : Up(t, i)' <=> Up(t, i)
      /\ \A t, i : Rm(t, i)' <=> Rm(t, i)
      /\ \A t : LiveRow(t)' <=> LiveRow(t)
  BY DEF Up, Rm, HasRow, LiveRow
<1>2. QED
  BY <1>1 DEF NoGhost, OnOffer, SeenKept

\* The provider moves on.
LEMMA GrowthKeepsGhosts ==
    ASSUME TypeInv, GhostInv, SeenKept,
           NEW t \in Txns, ProviderUpserts(t) \/ ProviderRemoves(t)
    PROVE  GhostInv'
<1>1. PICK op \in {"up", "rm"} : Grown(t, op)
  BY DEF ProviderUpserts, ProviderRemoves, Grown
<1>2. UNCHANGED <<rows, cursor, syncOrigin, phase, local, page>>
  BY DEF ProviderUpserts, ProviderRemoves, item
<1> DEFINE n == Len(log)
<1>3. /\ n \in Nat
      /\ \A u, i : Up(u, i) => Up(u, i)'
      /\ \A u, i : i <= n => (Up(u, i)' <=> Up(u, i))
      /\ \A u, i : i <= n => (Rm(u, i)' <=> Rm(u, i))
  <2>1. /\ Len(log) \in Nat
        /\ \A u, i : Up(u, i)' <=> Up(u, i) \/ (op = "up" /\ u = t /\ i = Len(log) + 1)
        /\ \A u, i : Rm(u, i)' <=> Rm(u, i) \/ (op = "rm" /\ u = t /\ i = Len(log) + 1)
    BY <1>1, PagePlaces, GrownLog
  <2>2. QED
    BY <2>1
<1> HIDE DEF n
<1>4. ASSUME NEW p \in Nat, p <= n, NoGhost(p) PROVE NoGhost(p)'
  <2>1. \A u, i : OnOffer(u, i, p) => OnOffer(u, i, p)'
    BY <1>3, <1>4 DEF OnOffer
  <2>2. \A u, j : j \in Nat /\ j <= Seen /\ Up(u, j) => j <= Seen' /\ Up(u, j)'
    BY <1>3 DEF SeenKept
  <2>3. \A u : LiveRow(u)' <=> LiveRow(u)
    BY <1>2 DEF LiveRow, HasRow
  <2>4. QED
    BY <1>4, <2>1, <2>2, <2>3 DEF NoGhost
<1>5. NoGhosts'
  <2>1. /\ cursor.pos \in Nat /\ cursor.pos <= n
        /\ syncOrigin # NoCursor => syncOrigin.pos \in Nat /\ syncOrigin.pos <= n
        /\ InRun => local.origin.pos \in Nat /\ local.origin.pos <= n
    BY PagePlaces DEF n
  <2>2. QED
    BY <1>2, <1>4, <2>1 DEF GhostInv, NoGhosts, InRun
<1>6. RemovalsNamed'
  <2> SUFFICES ASSUME InPage, NEW u \in Txns, NEW j \in Nat,
                      RemovedIn(u, j, page.from, page.next.pos)'
               PROVE  u \in page.rms
    BY <1>2 DEF RemovalsNamed, InPage
  <2>1. page.next.pos \in Nat /\ page.next.pos <= n
    BY PagePlaces DEF n
  <2>2. RemovedIn(u, j, page.from, page.next.pos)
    BY <1>2, <1>3, <2>1 DEF RemovedIn
  <2>3. QED
    BY <2>2 DEF GhostInv, RemovalsNamed
<1>7. RemovalsDone' /\ LoopEnded'
  BY <1>2 DEF GhostInv, RemovalsDone, LoopEnded, EndOfLoop, LiveRow, HasRow
<1>8. QED
  BY <1>5, <1>6, <1>7 DEF GhostInv

LEMMA StutterKeepsGhosts ==
    ASSUME GhostInv, UNCHANGED <<log, rows, cursor, syncOrigin, phase, local, page>>
    PROVE  GhostInv'
<1>1. NoGhosts'
  BY DEF GhostInv, NoGhosts, NoGhost, InRun, OnOffer, Up, Rm, LiveRow, HasRow, Seen, InPage
<1>2. RemovalsNamed' /\ RemovalsDone' /\ LoopEnded'
  BY DEF GhostInv, RemovalsNamed, RemovalsDone, LoopEnded, RemovedIn, EndOfLoop, Up, Rm, LiveRow,
         HasRow, InPage
<1>3. QED
  BY <1>1, <1>2 DEF GhostInv

\* No page in hand afterwards.
LEMMA GhostsBetweenPages ==
    ASSUME phase' \notin {"apply", "gate"}, NoGhosts', LoopEnded'
    PROVE  GhostInv'
BY DEF GhostInv, RemovalsNamed, RemovalsDone, InPage

\* A run starts, starts over, is over or is complete.
LEMMA LoopKeepsGhosts ==
    ASSUME TypeInv, SafeInv, GhostInv, SeenKept,
           \/ StartRun \/ RestartPagination \/ GiveUp \/ PageIncomplete \/ RunDies
           \/ CompleteLoop
    PROVE  GhostInv'
<1>1. UNCHANGED <<log, rows>> /\ \A p : NoGhost(p) => NoGhost(p)'
  <2>1. UNCHANGED <<log, rows>>
    BY DEF StartRun, RestartPagination, GiveUp, PageIncomplete, RunDies, CompleteLoop, EndRun,
           provider
  <2>2. QED
    BY <2>1, GhostStays
<1>2. /\ NoGhost(cursor.pos)
      /\ syncOrigin # NoCursor => NoGhost(syncOrigin.pos)
      /\ InRun => NoGhost(local.origin.pos)
  BY DEF GhostInv, NoGhosts
<1>3. CASE StartRun
  <2>1. /\ UNCHANGED <<cursor, syncOrigin>> /\ phase' = "fetch"
        /\ local'.origin = IF completed = 0 THEN StartOfHistory
                           ELSE IF syncOrigin # NoCursor THEN syncOrigin ELSE cursor
    BY <1>3 DEF StartRun, item, NoRun
  <2>2. NoGhost(local.origin.pos)'
    <3>1. CASE completed = 0
      <4>1. local'.origin.pos = 0
        BY <2>1, <3>1, Constants0
      <4>2. NoGhost(0)'
        <5>1. TypeInv' /\ RowInv'
          BY <1>1, <1>3, StartKeepsTypes, SafeStays DEF SafeInv, StartRun
        <5>2. Seen' = Len(log)'
          BY <2>1 DEF Seen, InPage
        <5>3. ASSUME NEW u \in Txns, LiveRow(u)'
              PROVE  \E j \in Nat : 0 < j /\ j <= Seen' /\ Up(u, j)'
          <6>1. rows'[u].ver \in Nat /\ Up(u, rows[u].ver)'
            BY <5>1, <5>3 DEF RowInv, LiveRow
          <6>2. 0 < rows'[u].ver /\ rows'[u].ver <= Len(log)'
            BY <6>1 DEF Up
          <6>3. QED
            BY <5>2, <6>1, <6>2
        <5>4. QED
          BY <5>3 DEF NoGhost
      <4>3. QED
        BY <4>1, <4>2 DEF NoGhost, OnOffer
    <3>2. CASE completed # 0
      BY <1>1, <1>2, <2>1, <3>2 DEF NoGhost, OnOffer
    <3>3. QED
      BY <3>1, <3>2
  <2>3. NoGhosts' /\ LoopEnded'
    BY <1>1, <1>2, <2>1, <2>2 DEF NoGhosts, LoopEnded
  <2>4. QED
    BY <2>1, <2>3, GhostsBetweenPages
<1>4. CASE RestartPagination
  <2>1. /\ UNCHANGED syncOrigin /\ phase = "fetch" /\ phase' = "fetch"
        /\ cursor' = local.origin /\ local'.origin = local.origin
    BY <1>4 DEF RestartPagination, provider, TypeInv, Types, Locals
  <2>2. NoGhosts' /\ LoopEnded'
    BY <1>1, <1>2, <2>1 DEF NoGhosts, LoopEnded, InRun
  <2>3. QED
    BY <2>1, <2>2, GhostsBetweenPages
<1>5. CASE GiveUp \/ PageIncomplete \/ RunDies
  <2>1. UNCHANGED <<cursor, syncOrigin>> /\ phase' = "idle"
    BY <1>5 DEF GiveUp, PageIncomplete, RunDies, EndRun, item
  <2>2. NoGhosts' /\ LoopEnded'
    BY <1>1, <1>2, <2>1 DEF NoGhosts, LoopEnded, InRun
  <2>3. QED
    BY <2>1, <2>2, GhostsBetweenPages
<1>6. CASE CompleteLoop
  <2>1. /\ cursor' = cursor /\ syncOrigin' = cursor /\ phase' = "completed"
        /\ EndOfLoop(cursor)
    BY <1>6 DEF CompleteLoop, TypeInv, RunInv, InRun
  <2>2. NoGhosts' /\ LoopEnded'
    BY <1>1, <1>2, <2>1 DEF NoGhosts, LoopEnded, InRun, EndOfLoop
  <2>3. QED
    BY <2>1, <2>2, GhostsBetweenPages
<1>7. QED
  BY <1>3, <1>4, <1>5, <1>6

\* A page names what it ends by removing.
LEMMA RemovedIsNamed ==
    ASSUME LogTyped, NEW u \in Txns, NEW from \in Nat, NEW to \in Nat, to <= Len(log),
           NEW j \in Nat, RemovedIn(u, j, from, to)
    PROVE  Names(u, "rm", from, to)
<1> DEFINE i == LastIn(u, from, to)
<1>1. /\ from < j /\ j <= to /\ Rm(u, j)
      /\ \A b \in Nat : j < b /\ b <= to => ~Up(u, b)
  BY DEF RemovedIn
<1>2. /\ i \in Nat
      /\ i = 0 => \A x \in from+1..to : log[x].txn # u
      /\ i # 0 => i \in from+1..to /\ log[i].txn = u
  BY ZenonT(60), LastInIs
<1>3. i # 0 /\ log[i].op = "up" => from < i /\ LastUpsert(u, i, to)
  BY NamedUp
<1> HIDE DEF i
<1>4. j \in from+1..to /\ log[j].txn = u
  BY <1>1 DEF Rm
<1>5. i # 0
  BY <1>2, <1>4
<1>6. log[i].op # "up"
  <2>1. SUFFICES ASSUME log[i].op = "up" PROVE FALSE
    OBVIOUS
  <2>2. Up(u, i) /\ i <= to /\ ~(i < j)
    BY <1>1, <1>3, <1>5, <2>1 DEF LastUpsert
  <2>3. i # j
    BY <1>1, <2>2 DEF Up, Rm
  <2>4. QED
    BY <1>1, <1>2, <2>2, <2>3
<1>7. log[i].op = "rm"
  <2>1. i \in 1..Len(log)
    <3>1. Len(log) \in Nat
      BY DEF LogTyped
    <3>2. QED
      BY <1>2, <1>5, <3>1
  <2>2. log[i] \in Entries
    BY <2>1 DEF LogTyped
  <2>3. QED
    BY <1>6, <2>2 DEF Entries
<1>8. QED
  BY <1>5, <1>7 DEF Names, i

LEMMA FetchKeepsGhosts ==
    ASSUME TypeInv, SafeInv, GhostInv, SeenKept, FetchPage PROVE GhostInv'
<1>1. PICK from \in Nat :
        /\ UNCHANGED <<log, rows, cursor, syncOrigin, local>> /\ phase' = "apply"
        /\ phase = "fetch" /\ from = cursor.pos
  BY FetchServes DEF Untouched
<1>2. PICK to \in Nat :
        /\ from <= to /\ to <= Len(log)
        /\ page' = [ups    |-> {t \in Txns : Names(t, "up", from, to)},
                    rms    |-> {t \in Txns : Names(t, "rm", from, to)},
                    from   |-> from,
                    next   |-> [pos |-> to, snap |-> Len(log)],
                    failed |-> FALSE]
  BY <1>1, FetchServes
<1>3. /\ page'.from = from /\ page'.next.pos = to
      /\ page'.rms = {t \in Txns : Names(t, "rm", from, to)}
  BY <1>2
<1>4. NoGhosts'
  <2>1. \A p : NoGhost(p) => NoGhost(p)'
    BY <1>1, GhostStays
  <2>2. QED
    BY <1>1, <2>1 DEF GhostInv, NoGhosts, InRun
<1>5. RemovalsNamed'
  <2>1. SUFFICES ASSUME NEW u \in Txns, NEW j \in Nat, RemovedIn(u, j, from, to)'
                 PROVE  u \in page'.rms
    BY <1>3 DEF RemovalsNamed, RemovedIn
  <2>2. RemovedIn(u, j, from, to)
    BY <1>1, <2>1 DEF RemovedIn, Up, Rm
  <2>3. LogTyped
    BY PagePlaces
  <2>4. Names(u, "rm", from, to)
    BY <1>2, <2>2, <2>3, RemovedIsNamed
  <2>5. QED
    BY <1>3, <2>4
<1>6. RemovalsDone' /\ LoopEnded'
  BY <1>1 DEF RemovalsDone, LoopEnded
<1>7. QED
  BY <1>4, <1>5, <1>6 DEF GhostInv

\* What the page removed is gone: no ghost at its end.
LEMMA ConsumedHasNoGhost ==
    ASSUME TypeInv, GhostInv, phase = "gate" PROVE NoGhost(page.next.pos)
<1>1. PICK from \in Nat, to \in Nat :
        /\ from = page.from /\ to = page.next.pos /\ from = cursor.pos
        /\ from <= to /\ to <= Len(log) /\ LogTyped
  BY PagePlaces DEF InPage
<1>2. /\ NoGhost(from) /\ \A u \in page.rms : ~LiveRow(u)
      /\ \A u \in Txns, j \in Nat : RemovedIn(u, j, from, to) => u \in page.rms
  BY <1>1 DEF GhostInv, NoGhosts, RemovalsNamed, RemovalsDone, InPage
<1> SUFFICES ASSUME NEW u \in Txns, LiveRow(u)
             PROVE  \/ \E i \in Nat : OnOffer(u, i, to)
                    \/ \E j \in Nat : to < j /\ j <= Seen /\ Up(u, j)
  BY <1>1 DEF NoGhost
<1> DEFINE l == LastIn(u, from, to)
<1>3. /\ l \in Nat
      /\ l = 0 => \A x \in from+1..to : log[x].txn # u
      /\ l # 0 => /\ l \in from+1..to /\ log[l].txn = u
                 /\ \A x \in l+1..to : log[x].txn # u
  BY ZenonT(60), LastInIs
<1>4. /\ l # 0 /\ log[l].op = "up" => from < l /\ LastUpsert(u, l, to)
      /\ l # 0 /\ log[l].op = "rm" =>
           /\ from < l /\ l <= to /\ Rm(u, l)
           /\ \A b \in Nat : l < b /\ b <= to => ~Up(u, b) /\ ~Rm(u, b)
  BY <1>1, NamedUp
<1> HIDE DEF l
<1>5. CASE l = 0
  <2>1. \A x \in Nat : from < x /\ x <= to => ~Up(u, x) /\ ~Rm(u, x)
    BY <1>1, <1>3, <1>5 DEF Up, Rm
  <2>2. CASE \E i \in Nat : OnOffer(u, i, from)
    <3>1. PICK i \in Nat : OnOffer(u, i, from)
      BY <2>2
    <3>2. OnOffer(u, i, to)
      BY <1>1, <2>1, <3>1 DEF OnOffer
    <3>3. QED
      BY <3>2
  <2>3. CASE \E j \in Nat : from < j /\ j <= Seen /\ Up(u, j)
    BY <1>1, <2>1, <2>3
  <2>4. QED
    BY <1>2, <2>2, <2>3 DEF NoGhost
<1>6. CASE l # 0 /\ log[l].op = "up"
  BY <1>3, <1>4, <1>6 DEF OnOffer, LastUpsert
<1>7. CASE l # 0 /\ log[l].op = "rm"
  <2>1. RemovedIn(u, l, from, to)
    BY <1>3, <1>4, <1>7 DEF RemovedIn
  <2>2. QED
    BY <1>2, <1>3, <2>1
<1>8. l # 0 => log[l].op \in {"up", "rm"}
  <2>1. SUFFICES ASSUME l # 0 PROVE log[l].op \in {"up", "rm"}
    OBVIOUS
  <2>2. l \in 1..Len(log)
    <3>1. Len(log) \in Nat
      BY <1>1 DEF LogTyped
    <3>2. QED
      BY <1>1, <1>3, <2>1, <3>1
  <2>3. log[l] \in Entries
    BY <1>1, <2>2 DEF LogTyped
  <2>4. QED
    BY <2>3 DEF Entries
<1>9. QED
  BY <1>5, <1>6, <1>7, <1>8

LEMMA ConsumedKeepsGhosts ==
    ASSUME TypeInv, SafeInv, GhostInv, SeenKept, PageConsumed PROVE GhostInv'
<1>1. /\ UNCHANGED <<log, rows, syncOrigin>> /\ phase = "gate"
      /\ cursor' = page.next /\ local'.origin = local.origin /\ phase' \in {"finish", "fetch"}
  BY DEF PageConsumed, provider, TypeInv, Types, Locals
<1>2. /\ NoGhost(page.next.pos) /\ NoGhost(local.origin.pos)
      /\ syncOrigin # NoCursor => NoGhost(syncOrigin.pos)
  BY <1>1, ConsumedHasNoGhost DEF GhostInv, NoGhosts, InRun
<1>3. \A p : NoGhost(p) => NoGhost(p)'
  BY <1>1, GhostStays
<1>4. NoGhosts' /\ LoopEnded'
  BY <1>1, <1>2, <1>3 DEF NoGhosts, LoopEnded
<1>5. QED
  BY <1>1, <1>4, GhostsBetweenPages

LEMMA TombstoneKeepsGhosts ==
    ASSUME TypeInv, GhostInv, Tombstone PROVE GhostInv'
<1>1. /\ UNCHANGED <<log, cursor, syncOrigin, local, page>>
      /\ phase = "apply" /\ phase' = "gate"
      /\ rows' = [t \in Txns |-> IF t \in page.rms /\ LiveRow(t)
                                   THEN [rows[t] EXCEPT !.live = FALSE] ELSE rows[t]]
  BY DEF Tombstone, provider, item
<1>2. /\ \A t, i : Up(t, i)' <=> Up(t, i)
      /\ \A t, i : Rm(t, i)' <=> Rm(t, i)
      /\ Seen' = Seen
  BY <1>1 DEF Up, Rm, Seen, InPage
<1>3. \A t \in Txns : LiveRow(t)' => LiveRow(t) /\ t \notin page.rms
  <2> SUFFICES ASSUME NEW t \in Txns, LiveRow(t)' PROVE LiveRow(t) /\ t \notin page.rms
    OBVIOUS
  <2>1. CASE t \in page.rms /\ LiveRow(t)
    <3>1. rows[t] \in [fa : FinancialAccounts, ver : 1..MaxLog, live : BOOLEAN]
      BY <2>1 DEF TypeInv, Types, LiveRow, HasRow, RowType
    <3>2. rows'[t] = [rows[t] EXCEPT !.live = FALSE]
      BY <1>1, <2>1
    <3>3. rows'[t].live = FALSE
      BY <3>1, <3>2
    <3>4. QED
      BY <3>3 DEF LiveRow
  <2>2. CASE ~(t \in page.rms /\ LiveRow(t))
    BY <1>1, <2>2 DEF LiveRow, HasRow
  <2>3. QED
    BY <2>1, <2>2
<1>4. \A p : NoGhost(p) => NoGhost(p)'
  BY <1>2, <1>3 DEF NoGhost, OnOffer
<1>5. NoGhosts'
  BY <1>1, <1>4 DEF GhostInv, NoGhosts, InRun
<1>6. RemovalsNamed'
  BY <1>1, <1>2 DEF GhostInv, RemovalsNamed, RemovedIn, InPage
<1>7. RemovalsDone' /\ LoopEnded'
  <2>1. page.rms \in SUBSET Txns
    BY <1>1, PagePlaces DEF InPage
  <2>2. QED
    BY <1>1, <1>3, <2>1 DEF RemovalsDone, LoopEnded
<1>8. QED
  BY <1>5, <1>6, <1>7 DEF GhostInv

LEMMA RowKeepsGhosts ==
    ASSUME TypeInv, GhostInv, FingerprintsTellEvents, NEW t \in Txns, RowAction(t)
    PROVE  GhostInv'
<1>1. /\ NextInPage(t) /\ Remember(t) /\ (Taken(t) \/ Dropped(t))
      /\ UNCHANGED <<log, cursor, syncOrigin, phase>> /\ phase = "apply"
      /\ rows' = rows \/ \E u \in Txns : Writes(t, u)
  BY RowEffect DEF NextInPage
<1>2. /\ page'.rms = page.rms /\ page'.from = page.from /\ page'.next = page.next
      /\ local'.origin = local.origin
  BY <1>1, PageTaken
<1>3. /\ \A u, i : Up(u, i)' <=> Up(u, i)
      /\ \A u, i : Rm(u, i)' <=> Rm(u, i)
      /\ Seen' = Seen
  BY <1>1, <1>2 DEF Up, Rm, Seen, InPage
<1>4. /\ page.from \in Nat /\ page.from = cursor.pos
      /\ page.next.pos \in Nat /\ page.next.pos <= Seen /\ Seen \in Nat
  BY <1>1, PagePlaces DEF InPage
<1>5. \A u \in Txns : LiveRow(u)' =>
        LiveRow(u) \/ \E j \in Nat : page.from < j /\ j <= Seen /\ Up(u, j)
  <2> SUFFICES ASSUME NEW u \in Txns, LiveRow(u)', ~LiveRow(u)
               PROVE  \E j \in Nat : page.from < j /\ j <= Seen /\ Up(u, j)
    OBVIOUS
  <2>1. rows'[u] # rows[u]
    BY DEF LiveRow, HasRow
  <2>2. PICK v \in Txns : Writes(t, v)
    BY <1>1, <2>1
  <2>3. /\ \A x \in Txns \ {t, v} : rows'[x] = rows[x]
        /\ v # t => ~HasRow(v)'
    BY <1>1, <2>2, WrittenRows
  <2>4. u = t
    BY <2>1, <2>3 DEF LiveRow
  <2>5. /\ Stored(t).ver \in Nat /\ page.from < Stored(t).ver
        /\ Up(t, Stored(t).ver) /\ Stored(t).ver <= page.next.pos
    BY <1>1, StoredIs DEF LastUpsert
  <2>6. QED
    BY <1>4, <2>4, <2>5
<1>6. ASSUME NEW p \in Nat, p <= page.from, NoGhost(p) PROVE NoGhost(p)'
  <2>1. \A u \in Txns : LiveRow(u)' =>
           LiveRow(u) \/ \E j \in Nat : p < j /\ j <= Seen /\ Up(u, j)
    BY <1>4, <1>5, <1>6
  <2>2. QED
    BY <1>3, <1>6, <2>1 DEF NoGhost, OnOffer
<1>7. NoGhosts'
  <2>1. /\ cursor.pos \in Nat /\ cursor.pos <= page.from
        /\ syncOrigin # NoCursor => syncOrigin.pos \in Nat /\ syncOrigin.pos <= page.from
        /\ local.origin.pos \in Nat /\ local.origin.pos <= page.from
    BY <1>1, <1>4, PagePlaces DEF InRun
  <2>2. QED
    BY <1>1, <1>2, <1>6, <2>1 DEF GhostInv, NoGhosts, InRun
<1>8. RemovalsNamed'
  BY <1>1, <1>2, <1>3 DEF GhostInv, RemovalsNamed, RemovedIn, InPage
<1>9. RemovalsDone' /\ LoopEnded'
  BY <1>1 DEF RemovalsDone, LoopEnded
<1>10. QED
  BY <1>7, <1>8, <1>9 DEF GhostInv

LEMMA StepKeepsGhosts ==
    ASSUME FingerprintsTellEvents
    PROVE  TypeInv /\ SafeInv /\ GhostInv /\ [Next]_vars => GhostInv'
<1> SUFFICES ASSUME TypeInv, SafeInv, GhostInv, [Next]_vars PROVE GhostInv'
  OBVIOUS
<1>s. SeenKept
  BY SeenGrows
<1>1. CASE UNCHANGED vars
  BY <1>1, StutterKeepsGhosts DEF vars
<1>2. CASE Next
  <2>1. CASE \E t \in Txns : ProviderUpserts(t) \/ ProviderRemoves(t)
    BY <1>s, <2>1, GrowthKeepsGhosts
  <2>2. CASE \E a \in Accounts : AccountImported(a)
    BY <2>2, StutterKeepsGhosts DEF AccountImported, item
  <2>3. CASE \E a \in Accounts, f \in FinancialAccounts : AccountRemapped(a, f)
    BY <2>3, StutterKeepsGhosts DEF AccountRemapped, item
  <2>4. CASE StartRun \/ RestartPagination \/ GiveUp \/ PageIncomplete \/ RunDies \/ CompleteLoop
    BY <1>s, <2>4, LoopKeepsGhosts
  <2>5. CASE FetchPage
    BY <1>s, <2>5, FetchKeepsGhosts
  <2>6. CASE \E t \in Txns : RowAction(t)
    BY <2>6, RowKeepsGhosts
  <2>7. CASE Tombstone
    BY <2>7, TombstoneKeepsGhosts
  <2>8. CASE PageConsumed
    BY <1>s, <2>8, ConsumedKeepsGhosts
  <2>9. QED
    BY <1>2, <2>1, <2>2, <2>3, <2>4, <2>5, <2>6, <2>7, <2>8, StepCases
<1>3. QED
  BY <1>1, <1>2

\* An account whose mapping has not moved is known as its home, or not at all:
\* its rows are there, and none of its ids was refused.
AtHome ==
    /\ \A a \in Accounts \ remapped : resolve[a] \in {NoAccount, HomeOf[a]}
    /\ \A a \in DOMAIN local.known \ remapped : local.known[a] \in {NoAccount, HomeOf[a]}
    /\ \A t \in Txns : AccountOf[t] \notin remapped =>
          /\ HasRow(t) => rows[t].fa = HomeOf[AccountOf[t]]
          /\ t \notin refused

LEMMA InitAtHome == Init => AtHome
BY DEF Init, AtHome, NoRun, HasRow

LEMMA FoundAtHome ==
    ASSUME AtHome, NEW t \in Txns, AccountOf[t] \notin remapped, AccountFor(t) # NoAccount
    PROVE  AccountFor(t) = HomeOf[AccountOf[t]]
<1>1. AccountOf[t] \in Accounts
  BY FunctionsAssumption
<1>2. QED
  BY <1>1 DEF AtHome, AccountFor

\* Nothing of this changes, but what the run remembers may be dropped.
LEMMA AtHomeStays ==
    ASSUME AtHome, UNCHANGED <<resolve, remapped, rows, refused>>,
           local'.known = local.known \/ local'.known = << >>
    PROVE  AtHome'
BY DEF AtHome, HasRow

LEMMA MappingKeepsHome ==
    ASSUME TypeInv, AtHome, NEW a \in Accounts, NEW f \in FinancialAccounts,
           AccountImported(a) \/ AccountRemapped(a, f)
    PROVE  AtHome'
<1>1. UNCHANGED <<rows, refused, local>> /\ remapped \subseteq remapped'
  BY DEF AccountImported, AccountRemapped
<1>2. \A b \in Accounts \ remapped' : resolve'[b] \in {NoAccount, HomeOf[b]}
  <2>1. resolve \in [Accounts -> FinancialAccounts \cup {NoAccount}]
    BY DEF TypeInv, Types
  <2>2. QED
    BY <2>1 DEF AtHome, AccountImported, AccountRemapped
<1>3. QED
  BY <1>1, <1>2 DEF AtHome, HasRow

LEMMA RowKeepsHome ==
    ASSUME TypeInv, AtHome, NEW t \in Txns, RowAction(t) PROVE AtHome'
<1>1. /\ NextInPage(t) /\ Remember(t) /\ UNCHANGED <<resolve, remapped>>
      /\ rows \in [Txns -> RowType \cup {NoRow}] /\ local \in Locals
  BY RowEffect DEF TypeInv, Types
<1>2. \A a \in DOMAIN local'.known \ remapped : local'.known[a] \in {NoAccount, HomeOf[a]}
  <2> DEFINE seen == [a \in DOMAIN local.known \cup {AccountOf[t]} |->
                        IF a = AccountOf[t] THEN AccountFor(t) ELSE local.known[a]]
  <2>1. \A a \in DOMAIN seen \ remapped : seen[a] \in {NoAccount, HomeOf[a]}
    BY FoundAtHome DEF AtHome
  <2>2. local' = [local EXCEPT !.known = seen]
    BY <1>1 DEF Remember
  <2> HIDE DEF seen
  <2>3. local'.known = seen
    BY <1>1, <2>2 DEF Locals
  <2>4. QED
    BY <2>1, <2>3
<1>3. SUFFICES ASSUME NEW u \in Txns, AccountOf[u] \notin remapped
               PROVE  /\ HasRow(u)' => rows'[u].fa = HomeOf[AccountOf[u]]
                      /\ u \notin refused'
  BY <1>1, <1>2 DEF AtHome
<1>4. (HasRow(u) => rows[u].fa = HomeOf[AccountOf[u]]) /\ u \notin refused
  BY <1>3 DEF AtHome
<1>5. CASE UNCHANGED <<rows, refused>>
  BY <1>4, <1>5 DEF HasRow
<1>6. CASE RefuseReparenting(t)
  <2>1. /\ AccountFor(t) # NoAccount /\ HasRow(t) /\ rows[t].fa # AccountFor(t)
        /\ refused' = refused \cup {t} /\ rows' = rows
    BY <1>6 DEF RefuseReparenting
  <2>2. u # t
    BY <1>3, <1>4, <2>1, FoundAtHome
  <2>3. QED
    BY <1>4, <2>1, <2>2 DEF HasRow
<1>7. ASSUME refused' = refused, AccountFor(t) # NoAccount,
             rows'[t] = Stored(t), \A v \in Txns \ {t} : rows'[v] \in {rows[v], NoRow}
      PROVE  /\ HasRow(u)' => rows'[u].fa = HomeOf[AccountOf[u]]
             /\ u \notin refused'
  <2>1. CASE u = t
    <3>1. Stored(t).fa = HomeOf[AccountOf[t]]
      BY <1>1, <1>3, <1>7, <2>1, StoredIs, FoundAtHome
    <3>2. QED
      BY <1>4, <1>7, <2>1, <3>1
  <2>2. CASE u # t
    BY <1>4, <1>7, <2>2 DEF HasRow
  <2>3. QED
    BY <2>1, <2>2
<1>8. CASE UpdateRow(t)
  <2>1. CASE AccountFor(t) # NoAccount
    BY <1>1, <1>7, <1>8, <2>1 DEF UpdateRow
  <2>2. CASE AccountFor(t) = NoAccount
    <3>1. HasRow(t) /\ rows[t].fa = AccountFor(t) /\ rows' = [rows EXCEPT ![t] = Stored(t)]
      BY <1>8 DEF UpdateRow
    <3>2. Stored(t).fa = rows[t].fa
      BY <1>1, <3>1, StoredIs
    <3>3. QED
      BY <1>1, <1>4, <1>8, <3>1, <3>2 DEF UpdateRow, HasRow
  <2>3. QED
    BY <2>1, <2>2
<1>9. CASE CreateRow(t)
  BY <1>1, <1>7, <1>9 DEF CreateRow
<1>10. CASE \E v \in Txns : AdoptRow(t, v)
  <2>1. PICK v \in Txns : AdoptRow(t, v)
    BY <1>10
  <2>2. /\ refused' = refused /\ AccountFor(t) # NoAccount
        /\ rows' = [rows EXCEPT ![v] = NoRow, ![t] = Stored(t)]
    BY <2>1 DEF AdoptRow
  <2>3. rows'[t] = Stored(t) /\ \A x \in Txns \ {t} : rows'[x] \in {rows[x], NoRow}
    BY <1>1, <2>2
  <2>4. QED
    BY <1>7, <2>2, <2>3
<1>11. QED
  BY <1>5, <1>6, <1>8, <1>9, <1>10 DEF RowAction, MissingAccount, UpsertError

LEMMA TombstoneKeepsHome == ASSUME TypeInv, AtHome, Tombstone PROVE AtHome'
<1>1. UNCHANGED <<resolve, remapped, refused, local>>
  BY DEF Tombstone, provider
<1>2. \A t \in Txns : HasRow(t)' => HasRow(t) /\ rows'[t].fa = rows[t].fa
  <2> SUFFICES ASSUME NEW t \in Txns, HasRow(t)' PROVE HasRow(t) /\ rows'[t].fa = rows[t].fa
    OBVIOUS
  <2>1. rows'[t] = IF t \in page.rms /\ LiveRow(t)
                     THEN [rows[t] EXCEPT !.live = FALSE] ELSE rows[t]
    BY DEF Tombstone
  <2>2. HasRow(t)
    BY <2>1 DEF HasRow, LiveRow
  <2>3. rows[t] \in [fa : FinancialAccounts, ver : 1..MaxLog, live : BOOLEAN]
    BY <2>2 DEF TypeInv, Types, HasRow, RowType
  <2>4. [rows[t] EXCEPT !.live = FALSE].fa = rows[t].fa
    BY <2>3
  <2>5. QED
    BY <2>1, <2>2, <2>4
<1>3. QED
  BY <1>1, <1>2 DEF AtHome

LEMMA StepKeepsHome == TypeInv /\ AtHome /\ [Next]_vars => AtHome'
<1> SUFFICES ASSUME TypeInv, AtHome, [Next]_vars PROVE AtHome'
  OBVIOUS
<1>a. local \in Locals
  BY DEF TypeInv, Types
<1>1. CASE UNCHANGED vars
  BY <1>1, AtHomeStays DEF vars
<1>2. CASE Next
  <2>1. CASE \E a \in Accounts : AccountImported(a)
    <3>1. PICK a \in Accounts : AccountImported(a)
      BY <2>1
    <3>2. HomeOf[a] \in FinancialAccounts
      BY FunctionsAssumption
    <3>3. QED
      BY <3>1, <3>2, MappingKeepsHome
  <2>2. CASE \E a \in Accounts, f \in FinancialAccounts : AccountRemapped(a, f)
    BY <2>2, MappingKeepsHome
  <2>3. CASE \E t \in Txns : RowAction(t)
    BY <2>3, RowKeepsHome
  <2>4. CASE Tombstone
    BY <2>4, TombstoneKeepsHome
  <2>5. CASE \E t \in Txns : ProviderUpserts(t) \/ ProviderRemoves(t)
    BY <2>5, AtHomeStays DEF ProviderUpserts, ProviderRemoves
  <2>6. CASE FetchPage
    BY <2>6, AtHomeStays DEF FetchPage, provider
  <2>7. CASE StartRun \/ GiveUp \/ PageIncomplete \/ RunDies \/ CompleteLoop
    <3>1. UNCHANGED <<resolve, remapped, rows, refused>>
      BY <2>7 DEF StartRun, GiveUp, PageIncomplete, RunDies, CompleteLoop, EndRun, provider
    <3>2. NoRun.known = << >>
      BY DEF NoRun
    <3>3. CASE StartRun
      <4> DEFINE o == IF completed = 0 THEN StartOfHistory
                      ELSE IF syncOrigin # NoCursor THEN syncOrigin ELSE cursor
      <4>1. local' = [NoRun EXCEPT !.cursor = cursor, !.origin = o]
        BY <3>3 DEF StartRun
      <4> HIDE DEF o
      <4>2. local'.known = << >>
        BY <4>1 DEF NoRun
      <4>3. QED
        BY <3>1, <4>2, AtHomeStays
    <3>4. CASE GiveUp \/ PageIncomplete \/ RunDies \/ CompleteLoop
      <4>1. local' = NoRun
        BY <3>4 DEF GiveUp, PageIncomplete, RunDies, CompleteLoop, EndRun
      <4>2. QED
        BY <3>1, <3>2, <4>1, AtHomeStays
    <3>5. QED
      BY <2>7, <3>3, <3>4
  <2>8. CASE RestartPagination \/ PageConsumed
    <3>1. UNCHANGED <<resolve, remapped, rows, refused>> /\ local'.known = local.known
      BY <1>a, <2>8 DEF RestartPagination, PageConsumed, provider, Locals
    <3>2. QED
      BY <3>1, AtHomeStays
  <2>9. QED
    BY <1>2, <2>1, <2>2, <2>3, <2>4, <2>5, <2>6, <2>7, <2>8, StepCases
<1>3. QED
  BY <1>1, <1>2

\* What the log's first entries list is finite.
LEMMA ListedFinite ==
    ASSUME LogTyped, NEW p \in Nat, p <= Len(log), NEW ids \in SUBSET Txns
    PROVE  IsFiniteSet({u \in ids : LiveAt(u, p)})
<1> DEFINE S == 1..Len(log)
           T == {log[i].txn : i \in S}
           f == [i \in S |-> log[i].txn]
<1>1. IsFiniteSet(S)
  <2>1. 1 \in Int /\ Len(log) \in Int
    BY DEF LogTyped
  <2>2. QED
    BY <2>1, FS_Interval
<1>2. f \in Surjection(S, T)
  BY DEF Surjection
<1> HIDE DEF f
<1>3. IsFiniteSet(T)
  <2> HIDE DEF S, T
  <2> QED  BY <1>1, <1>2, FS_Surjection
<1>4. ASSUME NEW u \in ids, LiveAt(u, p) PROVE u \in T
  <2>1. \E j \in Nat : OnOffer(u, j, p)
    BY <1>4, OnOfferIsLive
  <2>2. QED
    BY <2>1 DEF OnOffer, Up
<1>5. {u \in ids : LiveAt(u, p)} \in SUBSET T
  BY <1>4
<1> HIDE DEF T
<1>6. QED
  BY <1>3, <1>5, FS_Subset

LEMMA MirrorHolds ==
    ASSUME TypeInv, SafeInv, GhostInv, AtHome PROVE MirrorWhenCompleted
<1> SUFFICES ASSUME phase = "completed", NEW t \in Txns,
                    \A u \in IdsOf(t) : AccountOf[u] \notin remapped
             PROVE  LET listed == {u \in IdsOf(t) : LiveAt(u, cursor.pos)}
                        live   == {u \in IdsOf(t) : LiveRow(u)}
                    IN  /\ Cardinality(live) <= Cardinality(listed)
                        /\ listed # {} => live # {}
  BY DEF MirrorWhenCompleted
<1> DEFINE listed == {u \in IdsOf(t) : LiveAt(u, cursor.pos)}
           live   == {u \in IdsOf(t) : LiveRow(u)}
<1>1. PICK p \in Nat : p = cursor.pos /\ p <= Len(log) /\ Seen = p /\ LogTyped
  <2>1. cursor.pos = cursor.snap
    BY DEF GhostInv, LoopEnded, EndOfLoop
  <2>2. Seen = cursor.snap
    BY DEF Seen, InPage
  <2>3. QED
    BY <2>1, <2>2, PagePlaces
<1>2. IdsOf(t) \in SUBSET Txns
  BY DEF IdsOf
\* All that has been served is behind the cursor: a live row is on offer there.
<1>3. live \subseteq listed
  <2> SUFFICES ASSUME NEW u \in Txns, LiveRow(u) PROVE LiveAt(u, p)
    BY <1>1, <1>2
  <2>1. NoGhost(p)
    BY <1>1 DEF GhostInv, NoGhosts
  <2>2. PICK i \in Nat : OnOffer(u, i, p)
    BY <1>1, <2>1 DEF NoGhost
  <2>3. QED
    BY <1>1, <2>2, OnOfferIsLive
<1>4. Cardinality(live) <= Cardinality(listed)
  <2>1. IsFiniteSet(listed)
    BY <1>1, <1>2, ListedFinite
  <2> HIDE DEF live, listed
  <2>2. QED
    BY <1>3, <2>1, FS_Subset
<1>5. ASSUME NEW s \in listed PROVE live # {}
  <2>1. s \in Txns /\ SameEvent(s, t) /\ LiveAt(s, p)
    BY <1>1 DEF IdsOf, SameEvent
  <2>2. PICK i \in Nat : OnOffer(s, i, p)
    BY <1>1, <2>1, OnOfferIsLive
  <2>3. PICK w \in Txns, k \in Nat : SameEvent(s, w) /\ Newest(w, k, p)
    BY <1>1, <2>1, <2>2, NewestExists DEF OnOffer
  <2>4. Held(w, k, p)
    BY <1>1, <2>1, <2>2, <2>3 DEF SafeInv, SafeOrigins, Safe
  <2>5. w \notin refused
    <3>1. w \in IdsOf(t)
      BY <2>1, <2>3 DEF IdsOf, SameEvent
    <3>2. QED
      BY <3>1 DEF AtHome
  <2>6. PICK u \in Txns : /\ SameEvent(u, w) /\ HasRow(u)
                          /\ rows[u].live \/ \E j \in Nat : p < j /\ SeenRm(u, j)
    BY <2>4, <2>5 DEF Held
  <2>7. \A j \in Nat : ~(p < j /\ SeenRm(u, j))
    BY <1>1 DEF SeenRm
  <2>8. LiveRow(u)
    BY <2>6, <2>7 DEF LiveRow
  <2>9. u \in IdsOf(t)
    BY <2>1, <2>3, <2>6 DEF IdsOf, SameEvent
  <2>10. QED
    BY <2>8, <2>9
<1>6. QED
  BY <1>4, <1>5

\* While a fingerprint stands for one event, a run that reports success leaves,
\* for each event whose accounts kept their mapping, a live row if the provider
\* lists the event, never more of them than it lists ids, and none if it lists
\* none: nothing lost, no duplicate from a churned id or a replayed page, no ghost
\* of a removed one (syncTransactions.ts:1290).
THEOREM CompletedRunMirrors ==
    ASSUME FingerprintsTellEvents
    PROVE  Spec => []MirrorWhenCompleted
<1>1. TypeInv /\ SafeInv /\ GhostInv /\ AtHome => MirrorWhenCompleted
  BY MirrorHolds
<1>2. Init => SafeInv /\ GhostInv /\ AtHome
  BY InitSafe, InitGhosts, InitAtHome
<1>3. TypeInv /\ SafeInv /\ [Next]_vars => SafeInv'
  BY StepKeepsSafe
<1>4. TypeInv /\ SafeInv /\ GhostInv /\ [Next]_vars => GhostInv'
  BY StepKeepsGhosts
<1>5. TypeInv /\ AtHome /\ [Next]_vars => AtHome'
  BY StepKeepsHome
<1>6. QED
  BY <1>1, <1>2, <1>3, <1>4, <1>5, AlwaysTyped, PTL DEF Spec

-----------------------------------------------------------------------------
(* Rows and accounts *)

\* How a row's account may change in a step: not at all.
AccountKept(t) ==
    /\ HasRow(t) /\ HasRow(t)' => rows'[t].fa = rows[t].fa
    /\ HasRow(t) /\ ~HasRow(t)' => \E u \in Txns : HasRow(u)' /\ rows'[u].fa = rows[t].fa

\* A row changes its id at most, and never its account: neither a re-delivered id
\* nor an adopted fingerprint crosses accounts (syncTransactions.ts:889-959).
THEOREM RowsKeepAccount == Spec => RowsNeverChangeAccount
<1>1. TypeInv /\ [Next]_vars =>
        [\A t \in Txns : /\ HasRow(t) /\ HasRow(t)' => rows'[t].fa = rows[t].fa
                         /\ HasRow(t) /\ ~HasRow(t)' =>
                              \E u \in Txns : HasRow(u)' /\ rows'[u].fa = rows[t].fa]_vars
  <2> SUFFICES ASSUME TypeInv, Next, NEW t \in Txns PROVE AccountKept(t)
    BY DEF AccountKept
  <2>a. rows \in [Txns -> RowType \cup {NoRow}]
    BY DEF TypeInv, Types
  <2>1. CASE rows' = rows
    BY <2>1 DEF AccountKept, HasRow
  <2>2. ASSUME NEW s \in Txns, UpdateRow(s) PROVE AccountKept(t)
    <3>1. /\ NextInPage(s) /\ HasRow(s) /\ rows[s].fa = AccountFor(s)
          /\ rows' = [rows EXCEPT ![s] = Stored(s)]
      BY <2>2 DEF UpdateRow
    <3>2. Stored(s).fa = rows[s].fa /\ Stored(s) # NoRow
      <4>1. AccountFor(s) \in FinancialAccounts
        BY <2>a, <3>1 DEF HasRow, RowType
      <4>2. QED
        BY <3>1, <4>1, StoredIs
    <3>3. QED
      BY <2>a, <3>1, <3>2 DEF AccountKept, HasRow
  <2>3. ASSUME NEW s \in Txns, NEW u \in Txns, AdoptRow(s, u) PROVE AccountKept(t)
    <3>1. /\ NextInPage(s) /\ AccountFor(s) # NoAccount /\ ~HasRow(s) /\ u \in Matches(s)
          /\ rows' = [rows EXCEPT ![u] = NoRow, ![s] = Stored(s)]
      BY <2>3 DEF AdoptRow, Adoptable
    <3>2. HasRow(u) /\ rows[u].fa = AccountFor(s)
      BY <3>1 DEF Matches, LiveRow
    <3>3. AccountFor(s) \in FinancialAccounts
      BY <2>a, <3>2 DEF HasRow, RowType
    <3>4. Stored(s).fa = rows[u].fa /\ Stored(s) # NoRow
      BY <3>1, <3>2, <3>3, StoredIs
    <3>5. /\ rows'[s] = Stored(s) /\ u # s
          /\ \A v \in Txns \ {u, s} : rows'[v] = rows[v]
      BY <2>a, <3>1, <3>2 DEF HasRow
    <3>6. rows'[u] = NoRow
      BY <2>a, <3>1, <3>5
    <3>7. QED
      BY <3>1, <3>4, <3>5, <3>6 DEF AccountKept, HasRow
  <2>4. ASSUME NEW s \in Txns, CreateRow(s) PROVE AccountKept(t)
    <3>1. ~HasRow(s) /\ \A v \in Txns \ {s} : rows'[v] = rows[v]
      BY <2>a, <2>4 DEF CreateRow
    <3>2. QED
      BY <3>1 DEF AccountKept, HasRow
  <2>5. ASSUME Tombstone PROVE AccountKept(t)
    <3>1. rows'[t] = IF t \in page.rms /\ LiveRow(t)
                       THEN [rows[t] EXCEPT !.live = FALSE] ELSE rows[t]
      BY <2>5 DEF Tombstone
    <3>2. CASE HasRow(t)
      <4>1. rows[t] \in [fa : FinancialAccounts, ver : Nat, live : BOOLEAN]
        BY <2>a, <3>2, BoundsAssumption DEF HasRow, RowType
      <4>2. /\ [rows[t] EXCEPT !.live = FALSE] \in [fa : FinancialAccounts, ver : Nat, live : BOOLEAN]
            /\ [rows[t] EXCEPT !.live = FALSE].fa = rows[t].fa
        BY <4>1
      <4>3. HasRow(t)' /\ rows'[t].fa = rows[t].fa
        BY <3>1, <3>2, <4>2, FunctionsAssumption DEF HasRow
      <4>4. QED
        BY <4>3 DEF AccountKept
    <3>3. CASE ~HasRow(t)
      BY <3>3 DEF AccountKept
    <3>4. QED
      BY <3>2, <3>3
  <2>6. \/ rows' = rows
        \/ \E s \in Txns : \/ UpdateRow(s) \/ CreateRow(s)
                           \/ \E u \in Txns : AdoptRow(s, u)
        \/ Tombstone
    BY StepCases DEF ProviderUpserts, ProviderRemoves, AccountImported, AccountRemapped, StartRun,
       FetchPage, RestartPagination, GiveUp, PageIncomplete, RunDies, RowAction, MissingAccount,
       RefuseReparenting, UpsertError, PageConsumed, CompleteLoop
  <2>7. QED
    BY <2>1, <2>2, <2>3, <2>4, <2>5, <2>6
<1>2. QED
  BY <1>1, AlwaysTyped, PTL DEF Spec, RowsNeverChangeAccount

=============================================================================
