-------------------------- MODULE PlaidCursorSync --------------------------
(***************************************************************************)
(* One PlaidItem's transaction sync, src/lib/plaid/syncTransactions.ts:    *)
(* a consumer of the provider's update log that keeps its offset (the      *)
(* cursor) in the PlaidItem row, applies each page row by row, and may     *)
(* persist the offset only when the whole page is stored.                  *)
(*                                                                         *)
(* One run at a time: the sync lock (PlaidSyncLock, theorem                *)
(* BudgetGivesMutex) keeps two runs of an item apart.  A run may die       *)
(* between any two statements; what it stored stays.                       *)
(*                                                                         *)
(* The provider is a log of upserts and removals.  A page covers the log   *)
(* from a cursor on and names each transaction once, with its last         *)
(* operation in the page, and it never modifies an id that it replaces by  *)
(* another.  While a run is paging, the log may grow: the mid-loop cursor  *)
(* is then dead and every use of it fails.                                 *)
(***************************************************************************)
EXTENDS Naturals, Sequences, FiniteSets, FiniteSetsExt

CONSTANTS
    Txns,              \* provider transaction ids
    Event,             \* [Txns -> real-world event]; ids of one event are churn
    Fingerprint,       \* [Txns -> fingerprint of date, amount, descriptor, pending]
    PendingRef,        \* [Txns -> pending_transaction_id, or NoTxn]
    AccountOf,         \* [Txns -> provider account]
    Accounts,          \* provider accounts
    FinancialAccounts, \* local accounts
    HomeOf,            \* [Accounts -> the local account an import creates]
    NoTxn, NoAccount, NoRow, NoCursor,
    MAX_PAGINATION_RESTARTS,
    PageSize,          \* bound on a page
    Upgraded,          \* the item completed loops before syncOriginCursor existed
    MaxLog,            \* bound on the provider's log
    MaxFaults          \* bound on failures: errors and deaths of runs

ASSUME FunctionsAssumption ==
    /\ AccountOf \in [Txns -> Accounts]
    /\ HomeOf \in [Accounts -> FinancialAccounts]
    /\ PendingRef \in [Txns -> Txns \cup {NoTxn}]
    /\ DOMAIN Event = Txns
    /\ DOMAIN Fingerprint = Txns
    /\ NoRow \notin [fa : FinancialAccounts, ver : Nat, live : BOOLEAN]
ASSUME BoundsAssumption ==
    /\ MAX_PAGINATION_RESTARTS \in Nat
    /\ PageSize \in Nat \ {0}
    /\ MaxLog \in Nat
    /\ MaxFaults \in Nat
    /\ Upgraded \in BOOLEAN

VARIABLES
    log,         \* the provider's update log
    resolve,     \* provider account -> local account (ProviderAccountIdentity)
    remapped,    \* accounts whose mapping has moved, once at most
    rows,        \* Transaction rows by plaidTransactionId, tombstones included
    refused,     \* ids with a recorded reparenting refusal (SyncIssue)
    cursor,      \* PlaidItem.cursor
    syncOrigin,  \* PlaidItem.syncOriginCursor
    completed,   \* PlaidItem.completedSyncCount, counted to 2
    phase,       \* where the run is
    local,       \* the run's cursor, origin, restart count and resolved accounts
    page,        \* the page in hand
    faults       \* failures so far

vars == <<log, resolve, remapped, rows, refused, cursor, syncOrigin, completed,
          phase, local, page, faults>>
provider == <<log, resolve, remapped>>
item     == <<cursor, syncOrigin, completed>>

(***************************************************************************)
(* Cursors.  A cursor is an offset and the length the log had when the     *)
(* page that produced it was served.                                       *)
(***************************************************************************)

StartOfHistory == [pos |-> 0, snap |-> 0]

\* The cursor a completed loop ends with: nothing was left to serve.
EndOfLoop(c) == c.pos = c.snap

\* TRANSACTIONS_SYNC_MUTATION_DURING_PAGINATION
Dead(c) == ~EndOfLoop(c) /\ c.snap # Len(log)

(***************************************************************************)
(* The provider (external)                                                 *)
(***************************************************************************)

\* The last place in log[from+1..to] that names t; 0 if none does.
LastIn(t, from, to) == Max({0} \cup {i \in from+1..to : log[i].txn = t})

LiveAt(t, p) == LET i == LastIn(t, 0, p) IN i # 0 /\ log[i].op = "up"

\* The ids of t's event that the provider lists.
Listed(t) == {u \in Txns : Event[u] = Event[t] /\ LiveAt(u, Len(log))}

\* The last upsert of an event, and of one id; 0 if there is none.
LastUp(ids) == Max({0} \cup {i \in 1..Len(log) : log[i].op = "up" /\ log[i].txn \in ids})
IdsOf(t)    == {u \in Txns : Event[u] = Event[t]}

\* An event that is given a new id keeps it: the old one is only removed, and
\* before the new one is.
Superseded(t) == LastUp({t}) # 0 /\ LastUp({t}) < LastUp(IdsOf(t))

ProviderUpserts(t) ==
    /\ Len(log) < MaxLog
    /\ ~Superseded(t)
    /\ log' = Append(log, [txn |-> t, op |-> "up"])
    /\ UNCHANGED <<resolve, remapped, rows, refused, item, phase, local, page, faults>>

ProviderRemoves(t) ==
    /\ Len(log) < MaxLog
    /\ t \in Listed(t)
    /\ Superseded(t) \/ Listed(t) = {t}
    /\ log' = Append(log, [txn |-> t, op |-> "rm"])
    /\ UNCHANGED <<resolve, remapped, rows, refused, item, phase, local, page, faults>>

\* The account is imported (connect, or the missing-account recovery).
AccountImported(a) ==
    /\ resolve[a] = NoAccount
    /\ resolve' = [resolve EXCEPT ![a] = HomeOf[a]]
    /\ UNCHANGED <<log, remapped, rows, refused, item, phase, local, page, faults>>

\* The identity mapping comes to point at another local account.
AccountRemapped(a, f) ==
    /\ resolve[a] \notin {NoAccount, f}
    /\ a \notin remapped
    /\ resolve' = [resolve EXCEPT ![a] = f]
    /\ remapped' = remapped \cup {a}
    /\ UNCHANGED <<log, rows, refused, item, phase, local, page, faults>>

(***************************************************************************)
(* A run                                                                   *)
(***************************************************************************)

NoRun  == [cursor |-> StartOfHistory, origin |-> StartOfHistory, restarts |-> 0, known |-> <<>>]
NoPage == [ups |-> {}, rms |-> {}, from |-> 0, next |-> StartOfHistory, failed |-> FALSE]

\* The invocation returns, throws or dies: what it held in memory is gone.
EndRun ==
    /\ phase' = "idle"
    /\ local' = NoRun
    /\ page' = NoPage

\* Mutant: a restart goes back to where this run started.
StartRunFromCursor ==
    /\ phase \in {"idle", "completed"}
    /\ phase' = "fetch"
    /\ local' = [NoRun EXCEPT !.cursor = cursor, !.origin = cursor]
    /\ UNCHANGED <<provider, rows, refused, item, page, faults>>

\* Read the item once.  A restart goes back to where the last completed loop
\* ended; an item with no record of that falls back to its current cursor.
StartRun ==
    /\ phase \in {"idle", "completed"}
    /\ phase' = "fetch"
    /\ local' = [NoRun EXCEPT !.cursor = cursor,
                              !.origin = IF completed = 0 THEN StartOfHistory
                                         ELSE IF syncOrigin # NoCursor THEN syncOrigin
                                         ELSE cursor]
    /\ UNCHANGED <<provider, rows, refused, item, page, faults>>

\* A page names t by its last operation; it does not modify an id it replaces.
Names(t, op, from, to) ==
    LET i == LastIn(t, from, to)
    IN  /\ i # 0 /\ log[i].op = op
        /\ op = "up" /\ LiveAt(t, from) =>
             \A u \in IdsOf(t) :
                 LET j == LastIn(u, from, to) IN j > i => log[j].op = "rm"

\* One page: everything the log says from the cursor to some later place.
FetchPage ==
    /\ phase = "fetch"
    /\ ~Dead(local.cursor)
    /\ LET from == local.cursor.pos IN
       \E to \in from .. Min({from + PageSize, Len(log)}) :
          /\ to = from => from = Len(log)
          /\ page' = [ups    |-> {t \in Txns : Names(t, "up", from, to)},
                      rms    |-> {t \in Txns : Names(t, "rm", from, to)},
                      from   |-> from,
                      next   |-> [pos |-> to, snap |-> Len(log)],
                      failed |-> FALSE]
    /\ phase' = "apply"
    /\ UNCHANGED <<provider, rows, refused, item, local, faults>>

\* The data changed mid-loop: persist the restart point, then start over there.
RestartPagination ==
    /\ phase = "fetch"
    /\ Dead(local.cursor)
    /\ local.restarts < MAX_PAGINATION_RESTARTS
    /\ local' = [local EXCEPT !.cursor = local.origin, !.restarts = @ + 1]
    /\ cursor' = local.origin
    /\ UNCHANGED <<provider, rows, refused, syncOrigin, completed, phase, page, faults>>

GiveUp ==
    /\ phase = "fetch"
    /\ Dead(local.cursor)
    /\ local.restarts >= MAX_PAGINATION_RESTARTS
    /\ EndRun
    /\ UNCHANGED <<provider, rows, refused, item, faults>>

\* resolveFinancialAccountId: looked up once in a run, then kept, a miss too.
AccountFor(t) ==
    LET a == AccountOf[t]
    IN  IF a \in DOMAIN local.known THEN local.known[a] ELSE resolve[a]

Remember(t) ==
    local' = [local EXCEPT !.known = [a \in DOMAIN @ \cup {AccountOf[t]} |->
                                        IF a = AccountOf[t] THEN AccountFor(t) ELSE @[a]]]

\* The row fields this run writes for t.
Stored(t) == [fa   |-> AccountFor(t),
              ver  |-> LastIn(t, page.from, page.next.pos),
              live |-> TRUE]

HasRow(t)  == rows[t] # NoRow
LiveRow(t) == HasRow(t) /\ rows[t].live

\* resolveFingerprint: live rows of the same account with the same print.
Matches(t) == {u \in Txns : /\ LiveRow(u)
                            /\ rows[u].fa = AccountFor(t)
                            /\ Fingerprint[u] = Fingerprint[t]}

\* Both rows continue a pending row the corpus holds, and not the same one: the
\* comparison of provider references.  The comparison of event ids that comes
\* before it where both rows carry one (1064-1076) is left out.
RefusedByPendingRef(t, u) ==
    LET p == PendingRef[t]
        q == PendingRef[u]
    IN  /\ p # NoTxn /\ q # NoTxn /\ p # q
        /\ HasRow(p) /\ HasRow(q)

Adoptable(t, u) == Matches(t) = {u} /\ ~RefusedByPendingRef(t, u)

\* added[] before modified[]; each list in the order of the last change (external).
Precedes(t, u) ==
    LET IsNew(v) == ~LiveAt(v, page.from)
        Place(v) == LastIn(v, page.from, page.next.pos)
    IN  IF IsNew(t) = IsNew(u) THEN Place(t) <= Place(u) ELSE IsNew(t)

NextInPage(t) ==
    /\ phase = "apply" /\ t \in page.ups
    /\ \A u \in page.ups : Precedes(t, u)

Taken(t) == page' = [page EXCEPT !.ups = @ \ {t}]
Dropped(t) == page' = [page EXCEPT !.ups = @ \ {t}, !.failed = TRUE]

\* Mutant: a row without an account is skipped, and the page still counts.
MissingAccountSkips(t) ==
    /\ NextInPage(t)
    /\ AccountFor(t) = NoAccount
    /\ Taken(t) /\ Remember(t)
    /\ UNCHANGED <<provider, rows, refused, item, phase, faults>>

MissingAccount(t) ==
    /\ NextInPage(t)
    /\ AccountFor(t) = NoAccount
    /\ Dropped(t) /\ Remember(t)
    /\ UNCHANGED <<provider, rows, refused, item, phase, faults>>

\* The id names a row of another account: record it, leave the row, go on.
RefuseReparenting(t) ==
    /\ NextInPage(t)
    /\ AccountFor(t) # NoAccount
    /\ HasRow(t) /\ rows[t].fa # AccountFor(t)
    /\ refused' = refused \cup {t}
    /\ Taken(t) /\ Remember(t)
    /\ UNCHANGED <<provider, rows, item, phase, faults>>

\* Mutant: the update does not look at the account.
UpdateRowOfAnyAccount(t) ==
    /\ NextInPage(t)
    /\ AccountFor(t) # NoAccount
    /\ HasRow(t)
    /\ rows' = [rows EXCEPT ![t] = Stored(t)]
    /\ Taken(t) /\ Remember(t)
    /\ UNCHANGED <<provider, refused, item, phase, faults>>

\* Mutant: the update leaves a tombstone a tombstone.
UpdateRowKeepsTombstone(t) ==
    /\ NextInPage(t)
    /\ HasRow(t) /\ rows[t].fa = AccountFor(t)
    /\ rows' = [rows EXCEPT ![t] = [Stored(t) EXCEPT !.live = rows[t].live]]
    /\ Taken(t) /\ Remember(t)
    /\ UNCHANGED <<provider, refused, item, phase, faults>>

\* Exact id: update, and bring a tombstone back.
UpdateRow(t) ==
    /\ NextInPage(t)
    /\ HasRow(t) /\ rows[t].fa = AccountFor(t)
    /\ rows' = [rows EXCEPT ![t] = Stored(t)]
    /\ Taken(t) /\ Remember(t)
    /\ UNCHANGED <<provider, refused, item, phase, faults>>

\* One live row with this fingerprint: it takes the new id.
AdoptRow(t, u) ==
    /\ NextInPage(t)
    /\ AccountFor(t) # NoAccount
    /\ ~HasRow(t)
    /\ Adoptable(t, u)
    /\ rows' = [rows EXCEPT ![u] = NoRow, ![t] = Stored(t)]
    /\ Taken(t) /\ Remember(t)
    /\ UNCHANGED <<provider, refused, item, phase, faults>>

CreateRow(t) ==
    /\ NextInPage(t)
    /\ AccountFor(t) # NoAccount
    /\ ~HasRow(t)
    /\ \A u \in Txns : ~Adoptable(t, u)
    /\ rows' = [rows EXCEPT ![t] = Stored(t)]
    /\ Taken(t) /\ Remember(t)
    /\ UNCHANGED <<provider, refused, item, phase, faults>>

\* The upsert throws.
UpsertError(t) ==
    /\ NextInPage(t)
    /\ AccountFor(t) # NoAccount
    /\ faults < MaxFaults
    /\ faults' = faults + 1
    /\ Dropped(t) /\ Remember(t)
    /\ UNCHANGED <<provider, rows, refused, item, phase>>

\* removed[]: one guarded UPDATE, after the upserts of the page.
Tombstone ==
    /\ phase = "apply" /\ page.ups = {}
    /\ rows' = [t \in Txns |-> IF t \in page.rms /\ LiveRow(t)
                                 THEN [rows[t] EXCEPT !.live = FALSE] ELSE rows[t]]
    /\ phase' = "gate"
    /\ UNCHANGED <<provider, refused, item, local, page, faults>>

\* The cursor safety gate: an incomplete page keeps its cursor and fails the run.
PageIncomplete ==
    /\ phase = "gate"
    /\ page.failed
    /\ EndRun
    /\ UNCHANGED <<provider, rows, refused, item, faults>>

\* Mutant: the origin follows the cursor, page by page.
PageConsumedMovesOrigin ==
    /\ phase = "gate"
    /\ ~page.failed
    /\ local' = [local EXCEPT !.cursor = page.next]
    /\ cursor' = page.next
    /\ syncOrigin' = page.next
    /\ phase' = IF EndOfLoop(page.next) THEN "finish" ELSE "fetch"
    /\ page' = NoPage
    /\ UNCHANGED <<provider, rows, refused, completed, faults>>

PageConsumed ==
    /\ phase = "gate"
    /\ ~page.failed
    /\ local' = [local EXCEPT !.cursor = page.next]
    /\ cursor' = page.next
    /\ phase' = IF EndOfLoop(page.next) THEN "finish" ELSE "fetch"
    /\ page' = NoPage
    /\ UNCHANGED <<provider, rows, refused, syncOrigin, completed, faults>>

\* The loop is over: one write of the cursor, the origin and the count.
CompleteLoop ==
    /\ phase = "finish"
    /\ cursor' = local.cursor
    /\ syncOrigin' = local.cursor
    /\ completed' = Min({completed + 1, 2})
    /\ phase' = "completed"
    /\ local' = NoRun
    /\ UNCHANGED <<provider, rows, refused, page, faults>>

\* A provider or database call throws, or the platform kills the run.
RunDies ==
    /\ phase \notin {"idle", "completed"}
    /\ faults < MaxFaults
    /\ faults' = faults + 1
    /\ EndRun
    /\ UNCHANGED <<provider, rows, refused, item>>

(***************************************************************************)
(* The specification                                                       *)
(***************************************************************************)

\* An item just connected, or one that had settled when the origin column came.
Init ==
    /\ log = <<>>
    /\ resolve \in [Accounts -> {NoAccount} \cup FinancialAccounts]
    /\ \A a \in Accounts : resolve[a] \in {NoAccount, HomeOf[a]}
    /\ remapped = {}
    /\ rows = [t \in Txns |-> NoRow]
    /\ refused = {}
    /\ cursor = StartOfHistory
    /\ syncOrigin = NoCursor
    /\ completed = IF Upgraded THEN 2 ELSE 0
    /\ phase = "idle"
    /\ local = NoRun
    /\ page = NoPage
    /\ faults = 0

Environment ==
    \/ \E t \in Txns : ProviderUpserts(t) \/ ProviderRemoves(t)
    \/ \E a \in Accounts, f \in FinancialAccounts : AccountRemapped(a, f)

RecoverAccount == \E a \in Accounts : AccountImported(a)

ApplyUpsert ==
    \E t \in Txns :
        \/ MissingAccount(t)
        \/ RefuseReparenting(t)
        \/ UpdateRow(t)
        \/ \E u \in Txns : AdoptRow(t, u)
        \/ CreateRow(t)

RunStep ==
    \/ StartRun
    \/ FetchPage
    \/ RestartPagination
    \/ GiveUp
    \/ ApplyUpsert
    \/ Tombstone
    \/ PageIncomplete
    \/ PageConsumed
    \/ CompleteLoop

Fault == RunDies \/ \E t \in Txns : UpsertError(t)

Next == Environment \/ RecoverAccount \/ RunStep \/ Fault

\* Runs keep being triggered and make progress (webhooks, the daily sweep, the
\* resume job), and a missing account is imported at last.
Fairness == WF_vars(RunStep) /\ WF_vars(RecoverAccount)

Spec == Init /\ [][Next]_vars
FairSpec == Spec /\ Fairness

(***************************************************************************)
(* Properties                                                              *)
(***************************************************************************)

CursorType == [pos : 0..MaxLog, snap : 0..MaxLog]
RowType    == [fa : FinancialAccounts, ver : 1..MaxLog, live : BOOLEAN]
Phases     == {"idle", "fetch", "apply", "gate", "finish", "completed"}

\* Type invariant, with the two facts about cursors the restart logic counts
\* on: no cursor lies beyond what the provider has served, and the recorded
\* origin always ends a loop (syncTransactions.ts:345-357).
TypeOK ==
    /\ log \in Seq([txn : Txns, op : {"up", "rm"}]) /\ Len(log) <= MaxLog
    /\ resolve \in [Accounts -> FinancialAccounts \cup {NoAccount}]
    /\ remapped \subseteq Accounts
    /\ rows \in [Txns -> RowType \cup {NoRow}]
    /\ refused \subseteq Txns
    /\ cursor \in CursorType /\ cursor.pos <= cursor.snap /\ cursor.snap <= Len(log)
    /\ syncOrigin \in CursorType \cup {NoCursor}
    /\ syncOrigin # NoCursor => EndOfLoop(syncOrigin)
    /\ completed \in 0..2
    /\ phase \in Phases
    /\ local \in [cursor : CursorType, origin : CursorType, restarts : 0..MAX_PAGINATION_RESTARTS,
                  known : UNION {[D -> FinancialAccounts \cup {NoAccount}] : D \in SUBSET Accounts}]
    /\ page \in [ups : SUBSET Txns, rms : SUBSET Txns, from : 0..MaxLog,
                 next : CursorType, failed : BOOLEAN]
    /\ faults \in 0..MaxFaults

\* THE CURSOR SAFETY INVARIANT (syncTransactions.ts:61-82): whatever failed,
\* died, restarted or was re-delivered, every transaction the provider has
\* upserted behind the stored cursor is stored in its latest version, under its
\* own id or a newer one of the same event.  Two exceptions: a removal
\* from a page not yet consumed may already have tombstoned it, and a recorded
\* reparenting refusal is passed over.
CursorSafety ==
    \A t \in Txns :
        LET i == LastIn(t, 0, cursor.pos) IN
        i # 0 /\ log[i].op = "up" /\ t \notin refused =>
            \E u \in Txns :
                /\ Event[u] = Event[t]
                /\ HasRow(u) /\ rows[u].ver >= i
                /\ \/ rows[u].live
                   \/ \E j \in cursor.pos+1..Len(log) : log[j] = [txn |-> u, op |-> "rm"]

\* A run that reports success leaves at least one live row for each event the
\* provider still lists, never more rows than the provider lists ids for it,
\* and none for an event it lists no more: no duplicate from a churned id or a
\* replayed page, no ghost of a removed one, nothing lost.  Accounts whose mapping
\* moved are left out: their old rows stay where they were.
MirrorWhenCompleted ==
    phase = "completed" =>
        \A t \in Txns :
            LET listed == {u \in IdsOf(t) : LiveAt(u, cursor.pos)}
                live   == {u \in IdsOf(t) : LiveRow(u)}
            IN  (\A u \in IdsOf(t) : AccountOf[u] \notin remapped) =>
                    /\ Cardinality(live) <= Cardinality(listed)
                    /\ listed # {} => live # {}

\* A re-delivered provider id never moves a row to another account, and a
\* fingerprint never adopts across accounts (syncTransactions.ts:889-959).
RowsNeverChangeAccount ==
    [][\A t \in Txns : /\ HasRow(t) /\ HasRow(t)' => rows'[t].fa = rows[t].fa
                       /\ HasRow(t) /\ ~HasRow(t)' =>
                            \E u \in Txns : HasRow(u)' /\ rows'[u].fa = rows[t].fa]_vars

\* Once the provider stops changing, the cursor reaches the end of its log and
\* stays: a dead mid-loop cursor, a failed page or a killed run never wedges the
\* item (syncTransactions.ts:345-354).
CaughtUp == <>[](cursor.pos = Len(log))

\* A completed run leaves as many live rows as there are events the provider
\* lists: "genuinely repeated same-day/same-amount/same-merchant transactions are
\* valid data and are never blocked from being created" (syncTransactions.ts:49-51).
RepeatedTransactionsKept ==
    phase = "completed" =>
        LET listed == {t \in Txns : LiveAt(t, cursor.pos) /\ AccountOf[t] \notin remapped}
        IN  Cardinality({Event[t] : t \in listed}) <= Cardinality({t \in Txns : LiveRow(t)})

=============================================================================
