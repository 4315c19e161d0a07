# Fourth Meridian: formal models

TLA+ models of the parts of Fourth Meridian whose correctness depends on
interleavings, failures and time, checked with TLC and, where a theorem is
stated, proved with TLAPS. Paths below are relative to the repository.

## 1. The system

Fourth Meridian is a Next.js application over PostgreSQL (Prisma). Every piece
of it runs in short-lived serverless invocations (requests, webhooks, and cron
"wakes" that dispatch jobs), which share nothing but the database, and which
the platform ends after `maxDuration`. There is no queue and no in-process
state that outlives an invocation, so every protocol is written in rows:
conditional updates, unique indexes, age-based takeovers, markers.

| component | state | operations | what makes it correct |
|---|---|---|---|
| Per-item sync lock (`lib/plaid/sync-lock.ts`) | `PlaidItem.syncLockedAt`, `syncIncompleteAt` | claim, loser's stamp, fenced release | at most one live holder; nobody frees another's lease |
| Transaction sync (`lib/plaid/syncTransactions.ts`) | `cursor`, `syncOriginCursor`, `completedSyncCount`, `Transaction` rows | page loop, restart, row resolution, tombstones, gate, completion | the cursor never passes an unstored row; replay is idempotent; it always catches up |
| Deferred pipeline and item lifecycle (`webhook-sync.ts`, `backgroundHistorySync.ts`, `health-transitions.ts`, `exchangeToken.ts`, `resume-sync/route.ts`) | `status`, marker, count, lock | webhook, connect, client resume, failure marking, health writes | the marker means "not fully imported"; a revoked item stays revoked |
| Webhook receiver (`webhook-receiver.ts`, `webhook-dedupe.ts`) | event log | verify, decide, dedupe, schedule, health | every data change ends up stored though deliveries are dropped |
| Resume job, daily sweep (`jobs/resume-stale-imports.ts`, `jobs/sync-banks.ts`) | `syncResumeAttempts`, `syncResumeNextAt` | select, drive, back off, report | no import is stuck for good |
| Disconnect, relink, removal retry (`disconnect.ts`, `jobs/plaid-removal-retry.ts`) | `status`, token, removal markers | remove, revoke, scrub, retry | an owed removal is retried; a relinked item is left alone |
| Manual refresh (`lib/plaid/refresh.ts`, `refresh-ledger.ts`) | cooldown, execution ledger | refresh, reap | one execution per attempt, closed once |
| Job ledger, dispatcher (`lib/jobs/run.ts`, `dispatch.ts`) | `JobRun` | claim, finalise stale, complete | one running row per job; a verdict is written once |
| AI allowance (`lib/platform/ai/allowance-reservation.ts`) | hour-bucket counters, invocation ledger | reserve, release | admitted spend stays within the allowance and the reserve's error |
| Account deletion (`lib/account-deletion/purge.ts`) | `deletionScheduledAt`, `purgeStartedAt` | claim, revoke, fenced purge, cancel | no deletion over Plaid's refusal before its days, none left off the record, none held up for ever |
| Notification retry (`jobs/retry-notifications.ts`) | `NotificationDelivery` | claim, send, record | attempts bounded, no lost or endless sends |
| File imports (`api/accounts/[id]/import`, `lib/imports`, `lib/investments`) | `ImportBatch`, `Transaction`, `InvestmentEvent` | claim, chunks and their fallback, completion, rollback | a file's rows are in the account once; what is rolled back stays so; no file is blocked for good |

The components meet in the `PlaidItem` row: the lock keeps the runs of one item
apart, the cursor loop is what a run does inside, and the writers that take no
lock (losers, disconnect, relink, health reports) write the same row between any
two of its statements. The removal path is shared by requests, a daily job and
an operator's page; the purge of a deleted user runs beside it on the same items.
Every job, the notification retry among them, runs under a claim in the job
ledger. The rest of the application (spaces, snapshots, prices,
FX, AI chat, UI) reads what these write.

Hard behaviours: invocations killed between two statements; leases taken over by
age; best-effort writes that fail silently; a second, separate statement after a
conditional update; rows read before minutes of provider calls and written
after; provider pages that are replayed, restarted and re-issued under new ids;
webhooks that are dropped and not redelivered.

## 2. Modules

| module | models | checked or proved in |
|---|---|---|
| `SyncMutex` | what a lock promises: Enter, Leave, one holder | refined by `PlaidSyncLock`, `PlaidItemLifecycle`, `JobLedger` (and through it `NotificationRetry`), `AccountPurge` |
| `PlaidSyncLock` | `lib/plaid/sync-lock.ts` | run `lock`, `PlaidSyncLockProofs` |
| `PlaidCursorSync` | `lib/plaid/syncTransactions.ts`, `lib/transactions/fingerprint.ts` | run `cursor`, `PlaidCursorSyncProofs` |
| `PlaidItemLifecycle` | all writers of one `PlaidItem` row | runs `lifecycle`, `lifecycle_fair`, `revoked`, `PlaidItemLifecycleProofs` |
| `JobLedger` | `lib/jobs/run.ts`, `lib/jobs/dispatch.ts`, one job | through `NotificationRetry`; `NotificationRetryProofs` |
| `NotificationRetry` (EXTENDS `JobLedger`) | `jobs/retry-notifications.ts` as the body of that job | run `jobs`, `NotificationRetryProofs` |
| `AiAllowance` | `lib/platform/ai/allowance-reservation.ts`, `ledger-health.ts` | run `ai_allowance`, `AiAllowanceProofs` |
| `PlaidRemoval` | `lib/plaid/disconnect.ts`, `jobs/plaid-removal-retry.ts`, `provider-cleanup.ts`, relink and restore | runs `removal`, `removal_owed`, `PlaidRemovalProofs` |
| `AccountPurge` (EXTENDS `PlaidRemoval`) | `lib/account-deletion/purge.ts`, `revocation.ts`, beside the removal path | run `purge`, `AccountPurgeProofs` |
| `FileImport` | `api/accounts/[id]/import`, `lib/imports/claim.ts`, `lib/investments/investment-import-commit.ts`, `api/imports/[id]/rollback` | runs `imports`, `reimport`, `FileImportProofs` |
| `MC*` | instances for TLC; `MCPlaidLostWakeup` adds a history variable | |

The Plaid modules form a chain of abstractions. `PlaidSyncLock` has the clock,
the tokens and the UPDATE statements. Its theorem `BudgetGivesMutex` says that a
platform budget shorter than the lease (`maxDuration` = 300 s,
`LOCK_TTL_MS` = 360 s) keeps runs apart. `PlaidCursorSync` uses that by having
one run at a time, and `PlaidItemLifecycle` by a lock that is free, held by a
live run, or left behind until it expires. Both locks are proved to implement
`SyncMutex` with the runs inside as its holder (`BudgetImplementsMutex`,
`ImplementsSyncMutex`), so the lock that the lifecycle assumes promises no more
than the one with clock, tokens and budget keeps. The whole page loop of
`PlaidCursorSync` is one step, `Pull`, of `PlaidItemLifecycle`.

Two modules compose components: `NotificationRetry` runs the retry pass between
the claim and the completion of `JobLedger`, and `AccountPurge` runs its workers
on the items that the callers of `PlaidRemoval` remove at the same time.

### PlaidSyncLock

A run is an invocation; each of its steps is one statement. `ReadClock` is the
`new Date()` at the head of the claim: the reading may be old by the time the
UPDATE runs. `ClaimWins`/`ClaimLoses` are the conditional UPDATE,
`StampIncomplete` the loser's write (which may fail), `BodySucceeds`/`BodyFails`
the callback, `Release` the fenced update, `ReleaseFails` its swallowed failure,
`Kill` the end of the invocation. `Tick` cannot take a run past `MaxDuration`.
All runs read one clock: clock skew between servers is not modelled, and must be
smaller than the 60 s between budget and lease.

### PlaidCursorSync

The provider is a log of upserts and removals. A cursor is an offset and the
length the log had when its page was served; a mid-loop cursor is dead once the
log has grown. A page names each transaction once, by its last operation.
`StartRun`, `FetchPage`, `RestartPagination`, `GiveUp`, the row actions,
`Tombstone`, `PageIncomplete`/`PageConsumed` and `CompleteLoop` follow the
function from top to bottom; `RunDies` ends it anywhere. Row contents are a
version (the place in the log) and an account. Account lookups are cached for
the run, misses included (`AccountFor`, `Remember`). Several ids of one real
event model the provider's churn of ids. The restart delay, the retry wrapper,
incidents, the import counter, classification and event identity are left out.
With the last goes the first rung of the adoption guard, which compares the event
ids of two rows (lines 1064-1076); `RefusedByPendingRef` is the second rung, the
comparison of provider references. The instances give no transaction a pending
reference, so only the proofs, which hold for any references, reach it.

Assumptions about the provider, which is outside the repository: `added` and
`modified` list ids by their last change; an id that is replaced is removed
after its replacement appears and is not upserted again; and a page does not
modify an id that it replaces (`Names`). The last one matters: the code applies
`added` before `modified` (line 459), so such a page would let the old id take
the row back by its fingerprint, and its removal would then take the event with
it; without that conjunct TLC violates `CursorSafety`.

### PlaidItemLifecycle

`run` says where each invocation is and what it has read of the row: `seen` (was
the marker set) and `count` are read before the pages and used after them.
`Webhook`, `Connect`, `Resume`, `ClientResume` and `Sweep` start runs; the claim
and the release are those of the lock. `SettleReads`/`SettleWrites` and
`FlagReads`/`FlagWrites` are the two statements of `setPlaidItemHealth`. The
marker is `"none"`, `"fresh"` or `"stale"` (older than `STALE_AFTER_MS`). The
unlocked writers are two or three steps each. A manual refresh and an
investments enable behave like `Sweep`: lock, sync, report after the release.
`since` is a history component: the data there was when the lock was taken.
`AttemptReads`/`AttemptWrites` are the backoff's read and write after the release;
`ReportReads`/`ReportWrites` those of a health report, in which a webhook may also
say that consent is gone (REVOKED).
NEEDS_REAUTH and ERROR are one status, since no writer tells them apart.
Admission, billing gates, per-run caps and time budgets are left out: they
refuse before anything is written.

### JobLedger and NotificationRetry

A `JobRun` row is a slot; a slot is used again once nobody can read or write its
row. A worker is an invocation: a dispatcher wake (`ScanStale`,
`FinaliseForWake`, `SelectDue`, `SkipNotDue`) or a route that runs the job
directly (`DirectRun`). Both then read `startedAt`, finalise what looks crashed
(`FinaliseOwn`), and create the row, which the partial unique index allows once
per job (`CreateRow`, `ClaimRefused`). The body ends, errs or throws; the
completion is keyed on the id alone. Time is kept as ages, and an invocation
works with a clock reading of some `lag`, because `now` is read once and used
for minutes. A wake that has found the job stale treats it as crashed if its
update flipped any job's row (`elsewhere` in `FinaliseForWake`).

`NotificationRetry` puts the pass into the body. `Deliver` is the e-mail
adapter, outside this module: it answers sent, skipped or error, and an error may hide a mail
that was accepted. `accepted` and `unknown` are history variables. The claim of
a row by its attempts (`ClaimMail`) has a branch for a claim that somebody else
made first; under the ledger no pass overlaps another (`RetryRefinesMutex`), so
that branch is there for safety and never taken: what the code's header says of
overlapping passes holds twice over.

### AiAllowance

Each statement of the judgement is an action, between `TakeLock` and the end of
the transaction, because under READ COMMITTED each sees what is committed by
then. `turn[t].now` is the hour of the clock reading taken before the
transaction is asked for. A judgement that fails is rolled back
(`JudgementFails`), or was committed and only the answer is lost
(`AdmittedUnheard`): then a refused turn leaves a reservation behind. `Recorded`,
`NotRecorded` and `CostsNothing` are how a turn settles before its release,
`LoseRelease` a crash or a failed decrement. Ledger health is a count of failures
in a row per process and a durable count per hour, with their two trips;
`ClearFailures` clears the durable one in a statement of its own. Amounts are
multiples of the reserve; only comparisons with the allowance matter.

### PlaidRemoval and AccountPurge

`call` is an invocation of the removal path with the list of items it still has
to see; a request has one item, the daily job up to `LIMIT`. Its steps are the
statements of `disconnectPlaidItemIfOrphaned`: recount, read, `itemRemove`,
health write, scrub, marker. The markers themselves are kept as what
`provider-cleanup.ts` folds them to: the sequence of owed items by their oldest
obligation. The retry picks its candidates by their places in that sequence
(`Eligible`, `Candidates`) and not with a filter, because the prover cannot expand
a library operator that takes an operator. Plaid's side of an item is the bit `live`. A relink is four
statements with its own place (`relink`), a restore is one. The job's two reads, of
the markers and of the items, are one step, `StartRetry`: each candidate is looked at
again at its turn. `HealthReported` is a report that reads and writes with nothing
in between; `LateReport` one that read the row before it was REVOKED and writes
after, which is the race the run `revoked` finds. An item it brings out of REVOKED is
no longer a candidate of the job, and only the operator's retry still reaches it.

The purge's `Midnight` shifts the day buckets of the REVOCATION_FAILED audit
rows; `late` marks a worker that has seen midnight since it read the clock.
`Claim`, `ReadActive`, `PurgeRemoves`/`PurgeRefused`, `PurgeRevokes`, `Decide`,
`RecordFailures`, `ReleaseClaim`, `Report`, `GiveUp`, `Commit`, `Abandon` follow
`purgeUser` from top to bottom. `stale` is the age of the claim: more than
`PURGE_CLAIM_STALE_MS` (30 min), which no worker (300 s) lives to see.

### FileImport

Every upload is a request and the batch it creates; both live on after the other
is over. A bank import claims its file, parses it, and takes it a chunk at a
time; a chunk that throws is taken again row by row (`ChunkThrows`,
`ResolveAlone`, `CreateAlone`, `RowThrows`), also if it had been stored and only
the answer was lost. A history import has no claim and no chunks; its rows are
keyed, and the unique key covers deleted rows (`KeyTaken`). Its owner may exclude a
row or insist on it (`Decisions`); the loose match with rows of other sources, which
only passes over more rows, is `exclude` in effect. The completion is
keyed on the id alone. `Rollback` is the conditional UPDATE and the deletion of
the batch's rows in one transaction. Rows are values: two rows with one
fingerprint are one row, within a file too, as in the code. `idle` is the age of
`updatedAt`, which is a clock reading taken by the request (`Written`).

## 3. Runs

| run | bounds | shows |
|---|---|---|
| `lock` | 3 runs, lease 2, budget 4, clock to 6 | `TypeOK`, `LeaseExclusive`, `LeaseUndisturbed`, `RefinesMutex`. The budget is longer than the lease on purpose: runs outlive their lease, two are inside together, and the fence has work to do. Three runs: one late, its successor, and a third that would get in. |
| `cursor` | 2 ids of one event, 1 account with 2 possible local accounts, log of 4, pages of 2, 1 restart, 2 failures | `TypeOK`, `CursorSafety`, `MirrorWhenCompleted`, `RowsNeverChangeAccount`, `CaughtUp`. Four log entries hold an id, its change, its replacement and its removal; pages of at most 2 put every boundary between them. |
| `lifecycle` | 2 runs, 1 data version, at most two disturbances of which one failure | `TypeOK`, `ClearedByCompletedLoop`, `CompletedNeverDecreases` |
| `lifecycle_fair` | 2 runs, 1 data version, 2 failures, no disconnects | `EverythingStored`, `ImportSettles` |
| `revoked` | 2 runs | violates `RevokedIsTerminal` |
| `jobs` | 2 workers, 2 rows, budget 1, window 1, cadence 2, 2 kills or failures, 1 delivery of at most 3 attempts | `TypeOK`, `RefinesMutex`, `VerdictStands`, `JobRunsAgain` of the ledger; `MailedOnce`, `SettledStands`, `MailSettles` of the pass in it. Budget equal to window is the tightest case the code's constants allow; two faults let a run crash and its successor crash too. |
| `ai_allowance` | 3 turns in 2 processes, 4 hours, days of 2 hours, allowance 2, reserve 1, costs 1 or 2, 2 failures among lost releases, lost commits and failed writes | `TypeOK`, `ReservationsExact`, `CountedUnlessNewer`, `LostReservationsAge`. Four hours hold a midnight, a bucket in the window and one beyond it; three turns let two run while a third is judged. |
| `removal` | 2 items, 2 invocations, a job of 1 item a day, 1 relink, restore or late report, 2 kills, refusals, lost answers or failed writes | `RemovalTypeOK`, `CredentialKept`, `NothingForgotten`, `BillingStops`. One failure makes an item owed while Plaid still bills it, the second strikes its retry; a limit of 1 makes the other item wait behind it. Job and operator, or job and request, meet on one item. |
| `removal_owed` | 1 item, 1 invocation, 2 failures | violates `OwedSettles` |
| `purge` | 1 item, 2 workers, 1 removal beside them, budget of 3 days, 1 request, 1 failure | `TypeOK`, `BudgetHonoured`, `DeletedOnRecord`, `RefinesMutex`, `DeletionCarriedOut`. Refusals of Plaid and midnights are unbounded; three days are the code's own number. One request: what a second request would find of the first is left to the theorems, which have no such bound. |
| `imports` | 3 uploads of {e1}, {e1, e2} and a history {t1}, chunks of 2, budget 1, slack 0, 1 failure | `TypeOK`, `OneCopyPerFile`, `RolledBackStaysEmpty`, `VerdictsStand`, `DeadImportsEnd`. Three uploads: a dead import, the one after its rollback, and one that overlaps. Slack 0 is the tightest case. |
| `reimport` | 2 uploads | violates `ReimportGoesThrough` |

`RunSymmetry` and `TurnSymmetry` are used for safety only, in runs whose initial
state and actions treat the members alike. Deadlock is checked wherever the
system may not stop (`lock`, `cursor`, `jobs`); the other systems come to rest
by design: an item is removed, a user deleted, all turns and imports are over.
Every bound is a constant named in the module that uses it. Model time is
relative: what counts is that budget, window, lease, cadence keep the order
they have in the code (300 s route budget; 360 s lease, in-flight window and
stale-running age; 30 min purge claim; 300 s + 60 s import silence).

Checked by hand with configurations that are kept but not part of the runs:
`MCPlaidItemLifecycleFirstRun.cfg`, `MCPlaidLostWakeup.cfg`,
`MCPlaidCursorSyncTwins.cfg`, `MCPlaidCursorSyncUpgraded.cfg`,
`MCAiAllowanceHour.cfg`, `MCPlaidRemovalStarved.cfg`,
`MCAccountPurgeRefused.cfg`. Each ends in a violation that is described next.

### What the violations show

* `revoked`: the terminal status is guarded by a read in a separate statement.
* `removal_owed`: the comment at `disconnect.ts:151` says that a lost CONFIRMED
  marker is harmless, because the next retry confirms again. The token has been
  scrubbed by then; the retry cannot decrypt it, and the item stays owed for
  ever, asked for each day, with nothing left at Plaid.
* `reimport`: an investment history that is rolled back cannot be imported
  again: its deleted rows keep their key, the unique index refuses the first
  row, and the exception ends the import part-way with a batch that looks busy.
* First run (by hand): a first import is meant to hold its marker until a second
  loop has completed; the completion write does, and the release of the same run
  then clears it. So "ready" is shown after one loop.
* Lost wakeup (by hand): a webhook that loses the lock leaves a marker so that
  its data is fetched later. The holder's successful release takes that marker
  off even if the holder had finished fetching before the data came.
  `EverythingStored` holds all the same: the daily sweep picks the data up.
* Twins (by hand): two purchases alike in account, date, amount, descriptor and
  pending flag, with no distinguishing pending reference, become one row.
* Upgraded items (by hand): the fallback origin of an item without a recorded
  origin is its current cursor, which is the dead one if it is caught mid-loop.
* Hour boundary (by hand, `SimultaneousTurnsBounded`): a judgement with an older
  clock sums its own hour and the one before, and misses turns already admitted
  in the newer bucket. `CountedUnlessNewer` is what does hold.
* Starved queue (by hand, `BillingAlwaysStops`): the retry job takes the oldest
  obligations first and never drops one. Items that no retry can confirm, because
  their token is scrubbed or an account of theirs was restored, keep their places
  at the head; as many of them as the limit (50; 1 in the instance) keep every later
  item from being retried, which Plaid then goes on billing. `BillingStops` says
  what does hold: an item not blocked in that way is taken back, however its
  retries fail in between.
* Refusal dropped (by hand, `RetryNotDiscarded`): Plaid refuses on the first day
  and the deletion is held; a webhook then takes the item off ACTIVE; the purge of
  the next day reads only ACTIVE items (`purge.ts:262`), asks for nothing, and
  deletes the user after one day of refusals, with the item alive and no record of
  it, against `revocation.ts:20-28`.

### What the models record beside the properties

Reading the code for the models brought out limits that no property states,
because nothing in the repository promises otherwise or the effect is accepted:

* Purge: only ACTIVE items are removed; an item in NEEDS_REAUTH or ERROR, or
  one that a webhook revoked, is neither removed nor recorded (`unasked`),
  whether or not Plaid has refused it before. A clock read
  before midnight can spend the budget a day early (`straddled`). Failure days
  of an earlier, cancelled request count. A record of an unrevoked item may be
  left for a user who cancelled after it was written. The log line at
  `purge.ts:557` says nothing irreversible happened, though items may be gone.
* Removal: a crash between the commit of `disconnectAccounts` and the removal
  leaves an ACTIVE item without accounts and without a marker (`unmarked`). A
  restore leaves a revoked, owed item linked, and the retry then passes it over.
* AI allowance: the formula leaves out the admitted turn's own reserve, and
  spend is read before the reservations, so a turn that settles in between is
  counted by neither read.
* Job ledger: two wakes that share the scan and the finalisation of a stale row can
  delay the crashed job to a later wake (`JobRunsAgain` holds).
* Imports: two different files that overlap, imported at once, duplicate the
  shared rows, because the fingerprint match is a read that no index backs.
  Rolling a batch back also takes rows that a later import matched instead of
  creating. The comment at `rollback/route.ts:76` about a live import predates
  the stalled-batch rule.

### Fairness

`PlaidCursorSync`: a run that can act does, and a missing account is imported at
last (webhooks, resume job and sweep keep starting runs; each deferred run
begins with the account recovery). Failures are bounded.
`PlaidItemLifecycle`: each run under way proceeds or is killed (the platform
ends it), leases and markers age, backoffs end, and the dispatcher keeps
starting the resume job and the sweep, which run from a fixed schedule. Nothing
is assumed of webhooks, requests or the user. A failed run may be killed instead
of continued, so the failures must be bounded for progress. `ImportSettles` and
`EverythingStored` are stated for items that from some point on stay ACTIVE and are
not removed at the provider: an item in ERROR waits for its owner.
`NotificationRetry`: time passes, the cron wakes the dispatcher, an invocation
under way goes on; kills and failures are bounded.
`PlaidRemoval`: invocations go on, and so do exchanges under way; the daily job
comes round (strong fairness, since in the model an operator may use up the
`Callers` while in the code the job does not wait for operators).
`AccountPurge`: the grace period ends, claims age, days pass, the cron starts
workers and workers go on. Of Plaid nothing is assumed: it may refuse for ever.
`FileImport`: time passes, requests go on, and the owner of a batch that looks
busy asks again for its rollback, which is what `claim.ts:20` tells them to do.

## 4. Proofs

Each `*Proofs` module proves an inductive invariant step by step, one lemma per
action or family of actions, and draws the theorems from it. TLC checks the
invariant before it is proved; the theorems hold for every value of the
constants that meets the named assumptions.

`PlaidSyncLockProofs` (`TTLAssumption`, `DurationAssumption`,
`MaxTimeAssumption`: a positive lease, any budget, any clock bound):

* `TypeCorrect`: `TypeOK` is inductive, including that every instant in the row
  or in a run's hands lies in the past.
* `LeaseIsExclusive`: `LeaseExclusive` is not inductive, because it says nothing
  of the row. `IInv` adds `RowNamesHolder`: the row carries the token of a run
  that is inside with a fresh lease. A claim is then refused while any lease is
  fresh (`FreshBlocksClaim`, also for an old clock reading), and a release frees
  only the releaser's own lease (`ReleaseFreesOwnLease`).
* `LeaseIsUndisturbed`: from the same invariant; the fence makes
  `StillOwns(r)` false for all but the holder.
* `BudgetGivesMutex`: with `MaxDuration < LOCK_TTL` each run inside has a fresh
  lease, so exclusion of leases is exclusion of runs. `BudgetImplementsMutex` says
  it of the steps: a run enters only after the one before has left or was killed.
* `RefinesSyncMutex`: under the mapping `holder <- {r : Fresh(r)}`, each step is
  an `Enter`, a `Leave` (also the tick at which a lease becomes old) or a stutter.

`PlaidCursorSyncProofs` (`FunctionsAssumption`, `BoundsAssumption`: total functions,
natural bounds, and a `NoRow` that is no row):

* `TypeCorrect`: `TypeOK`, with `RunInv`: a run works from the cursor in the row, the
  place a restart goes back to lies between the recorded origin and the cursor, and a
  page begins at the cursor.
* `CursorIsSafe`: `CursorSafety`, under the hypothesis `FingerprintsTellEvents` (one
  fingerprint, one event); `MCPlaidCursorSyncTwins.cfg` is an item
  that does not meet it.
  `CursorSafety` itself is not inductive: it excuses an id that was refused, and the
  row that stands in for it may belong to another id of the event. What is kept is
  `Safe(p)`, at the cursor and at both places a restart goes back to: for each event
  with an id on offer at `p`, its newest id's last version is stored, or a newer one,
  live or with its removal still ahead. `LogInv` says what the provider's guards make
  of the log: an old id does not come back, and is removed only behind a newer one
  or as the last. So the newest id of an event on offer stays (`NewestStays`), and
  rows of newer ids have no removal behind the cursor (`NewerIsLater`).
  `PageStored` follows a page row by row: what it has brought and not failed on is
  there once no id of the event is left to do, because the newest id comes last
  (`NewestComesLast`). At the end of a complete page this is `Safe` at its end
  (`ConsumedIsSafe`). The step the argument hangs on is `NewestComesLast`, where
  `added` before `modified` is harmless only by the assumption about pages named in
  section 2.
* `CompletedRunMirrors`: `MirrorWhenCompleted`, under the same hypothesis. That
  nothing is missing is `Safe` at the end of the log, together with `AtHome`: a
  row of an event whose accounts kept their mapping has never been refused. That
  there is nothing too much needs the converse, `NoGhost(p)`: a live row's id is on
  offer at `p`, or is upserted beyond `p` within `Seen`, which is how far the log had
  come when the page in hand was served. It is kept at the cursor and at both
  places a restart may go back to. A page names all that it removes
  (`RemovalsNamed`), and the cursor does not pass it before those rows are
  tombstones (`RemovalsDone`). A loop ends only where nothing was left beyond the
  cursor when it was served (`LoopEnded`): there `Seen` is the cursor, so each live
  row's id is listed, and an event has no more live rows than listed ids.
* `RowsKeepAccount`: `RowsNeverChangeAccount`.

`PlaidItemLifecycleProofs` (`BoundsAssumption`: bounds are natural numbers):

* `TypeCorrect`: `TypeOK`, whose last part says that the row's lock is held
  exactly while some run is inside. A release by one of two runs inside would
  break it, so the invariant `IInv` adds `OneInside`. One step per action; the
  actions fall into those outside the lock, those inside, the claim, and those
  that touch no run (`OutsideSteps`, `InsideSteps`, `ClaimStep`, `OtherSteps`).
* `CountNeverGoesBack` (`CompletedNeverDecreases`): needs `CountCurrent`, that
  the count a run has read is still the row's when it writes.
* `MarkerClearedByCompletedLoop` (`ClearedByCompletedLoop`): needs `PulledAll`,
  that what a run has pulled covers what the provider had at its claim.
* `ImplementsSyncMutex`: nobody gets inside but by `ClaimWins`, which finds nobody
  there (`LockFollows`); a release, a failed release and a kill leave. That a lock
  left behind frees itself only after its run is gone is how `LeaseExpires` is
  written; `BudgetImplementsMutex` is what justifies that.

The ledger, in `NotificationRetryProofs` (`LedgerAssumption`:
`BUDGET <= WINDOW < CADENCE`):

* `LedgerTypeCorrect`, `VerdictsStand`, `RefinesSyncMutex`. The invariant says that an
  invocation inside owns the one running row (`Owned`, `AtMostOneInside`) and
  that the lag of its clock value never exceeds its age (`LagWithinAge`). So a
  row whose owner may still write is no older than the budget, and is never
  judged stale, whatever clock value it is judged by: that is where
  `BUDGET <= WINDOW` is used.

The retry pass, in the same module (with `RetryAssumption`):

* `RetryImplementsLedger`: every step is a step of `JobLedger`, so the ledger's
  theorems carry over: `RetryRefinesMutex`, `RetryVerdictsStand`.
* `RetryTypeCorrect`, `MailsOnce`, `SettledStays`: since one pass at a time is
  in a body, what it has read of a row is still so when it claims or closes it.

`PlaidRemovalProofs` (`RemovalAssumption`):

* `CredentialIsKept`. An invocation that is about to scrub has had a
  confirmation, so the item is gone at Plaid (and Plaid never brings one back); a
  relink needs a live item.
* `RemovalTypeCorrect`, `NothingIsForgotten`. `NothingForgotten` speaks of REVOKED
  items only and is not inductive: a health report may revoke an item that its
  last account has left long ago. `RemovalInv` says the same of every item that is alive
  and unlinked, whatever its status (`Unforgotten`). A daily job that is
  killed loses its whole list, but only the item at the head can be lost with it:
  the others came from the queue and are still in it, or gone at Plaid
  (`QueuedOwed`). Lemmas on sequences (`Appended`, `WithoutOne`, `JustOne`,
  `Picked`) say what adding a marker, settling one and picking candidates leave in
  the queue. That no item is in it twice is part of the type.

`AccountPurgeProofs` (`PurgeAssumption`): the invariant `PurgeInv` is that of
the removal path (`CredentialInv`), the shape of the workers, `ClaimHeld` (a
working purger's token is in the row and its claim is fresh), `DaysInv` (what
a worker has counted is covered by the audit rows) and `RecordInv` (an item
asked for and not confirmed is in a worker's hands or on record). From it
`BudgetIsHonoured`, `DeletionIsOnRecord`, `PurgeKeepsCredentials` and
`PurgeRefinesMutex`. `TypeCorrect` and `PurgeForgetsNothing` are proved beside
it: the purge leaves the queue alone, and no item becomes alive and unlinked
by it, so `RemovalInv` carries over (`PurgeLeavesOwed`). `BudgetIsHonoured` rests on
`DaysInv` for the records, which are written only once the days are spent
(`GivenUpInTime`), and for the deletion itself on `RecordInv`: an item that was
asked for and lives on is on record when the transaction commits.

`AiAllowanceProofs` (`AllowanceAssumption`): `ReservationsAreExact` needs that
no turn holds a clock value from more than an hour ago (`Recent`) and that the
lock excludes judgements (`LockHeld`); `AdmissionsCount` adds that what the judge
has read covers all turns in flight with a clock value no later than its own (`Covered`);
`LostReservationsDoAge` follows. `TypeCorrect` needs `ReservationsExact` as well: a
release finds its own reservation in the bucket, so none goes below zero.

`FileImportProofs` (`ImportAssumption`): three legs carry the invariant. A
request's batch is never silent for longer than the request has lived (`Shape`),
so a rollback never finds a live request, and rows are never added to a batch
that is rolled back (`RolledBackIsEmpty`, `ImportVerdictsStand`). At most one
batch of a bank file is live (`OneClaim`), and at most one row of a history
carries a key (`OneOwner`). And what a request still has to store is not in its
batch (`Unsaved`), also after a chunk was stored and its answer lost, because
the fallback looks again before it creates. `RowsAreOnce` follows.

Every safety and action property that a passing run checks is a theorem.
Model-checked only: liveness (`CaughtUp`, `EverythingStored`, `ImportSettles`,
`JobRunsAgain`, `MailSettles`, `BillingStops`, `DeletionCarriedOut`,
`DeadImportsEnd`), which is out of the prover's reach as ENABLED is. The expected
violations (`RevokedIsTerminal`, `OwedSettles`, `ReimportGoesThrough`) are TLC's
counterexamples. No module declares a RECURSIVE operator.

## 5. Plan

Done: the lock, the item lifecycle, the cursor loop, the job ledger with the
notification retry in it, the AI allowance, the removal path, the purge, file
imports. Next, in this order:

1. The manual refresh: cooldown, execution ledger, reaper
   (`lib/plaid/refresh.ts`, `refresh-ledger.ts`), over `PlaidSyncLock`.
2. Account merges against imports in flight: a merge re-points rows and leaves
   the batch, and an import under way goes on writing to the archived account.
3. Invitations: capacity and issue transactions.

## 6. Not modelled

* User interface, documentation, scripts, prices, FX, snapshots, spaces: numeric
  projections and rendering, with no protocol among them. They are by far most
  of the repository's lines.
* Classification, transaction events and transfers, parsers, the automation
  engine: transformations of data by one process; the repository's tests reach
  them.
* Sessions and authorisation: decided per request before anything is written.
* Crypto and history backfill: chunked walks with a lease of their own, of the
  same form as the jobs modelled here.
* In the modelled components: clock skew between servers (must be smaller than
  the slack named above); statements still in flight at the database when their
  request is killed (covered by the 60 s between budget and window); the
  continuation of a job in a later invocation and the order of the jobs of one
  wake; enforcement switched off and unpriced models (AI); share links and
  snapshots on removal; invalid rows, update on match, positions, supersession
  and instrument resolution (imports; the investments route declares no
  `maxDuration`, so it is taken to have the same budget as the others); remapped
  types and the loose match (histories); the comparison of event ids in the
  adoption guard (cursor).
