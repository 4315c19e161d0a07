-------------------------- MODULE PlaidItemLifecycle --------------------------
(***************************************************************************)
(* The life of one PlaidItem row under all of its writers: the runs that   *)
(* sync it under the lock (webhook and connect, the resume job and the     *)
(* client's resume request, the daily sweep), and the writers that take no *)
(* lock: the losers of the lock, disconnect, relink, and provider health   *)
(* reports.  They meet in three columns: status, syncIncompleteAt (the     *)
(* "importing" marker) and completedSyncCount.                             *)
(*                                                                         *)
(* The lock is the abstraction of PlaidSyncLock that theorem               *)
(* BudgetGivesMutex allows: a lease of a live run is never taken over, and *)
(* a lease left behind is claimable once it has expired.  The page loop of *)
(* PlaidCursorSync is one step here, which stores what the provider has.   *)
(*                                                                         *)
(* A health write (setPlaidItemHealth) is two statements, a read of the    *)
(* prior status and a write, and so two steps.                             *)
(***************************************************************************)
EXTENDS Naturals

CONSTANTS
    Runs,        \* the invocations
    MaxData,     \* bound on the provider's data versions
    MaxFaults,   \* bound on failures and kills
    MaxChanges   \* bound on disconnects, relinks and health reports

ASSUME BoundsAssumption ==
    /\ MaxData \in Nat
    /\ MaxFaults \in Nat
    /\ MaxChanges \in Nat

NoMarker == "none"
Markers  == {NoMarker, "fresh", "stale"}   \* stale: older than STALE_AFTER_MS

VARIABLES
    status,      \* PlaidItem.status; NEEDS_REAUTH and ERROR are both "ERROR"
    marker,      \* PlaidItem.syncIncompleteAt
    completed,   \* PlaidItem.completedSyncCount, counted to 2
    backoff,     \* PlaidItem.syncResumeNextAt lies ahead
    lock,        \* PlaidItem.syncLockedAt: free, held by a live run, or left behind
    run,         \* what each run is doing, and what it has read
    pending,     \* requests and deliveries under way that take no lock
    available,   \* the provider's data
    stored,      \* what the item has of it
    removed,     \* the provider has removed the item, or its token is scrubbed
    faults, changes

item  == <<status, marker, completed, backoff>>
world == <<available, removed>>
vars  == <<item, lock, run, pending, available, stored, removed, faults, changes>>

Fault  == faults < MaxFaults /\ faults' = faults + 1
Change == changes < MaxChanges /\ changes' = changes + 1

(***************************************************************************)
(* Runs                                                                    *)
(***************************************************************************)

Kinds == {"deferred", "resume", "sweep"}

Idle == [pc |-> "idle", kind |-> "deferred", seen |-> FALSE, count |-> 0, since |-> 0]

InBody  == {"reading", "pulling", "settling", "writing", "classifying", "flagging"}
Inside(r) == run[r].pc \in InBody \cup {"leaving", "failed"}

Goto(r, pc)  == run' = [run EXCEPT ![r].pc = pc]
Finish(r)    == run' = [run EXCEPT ![r] = Idle]

\* The body is over: what it read of the row is of no more use.
Leave(r, pc) == run' = [run EXCEPT ![r].pc = pc, ![r].seen = FALSE, ![r].count = 0]

Start(r, kind, pc) ==
    /\ run[r].pc = "idle"
    /\ run' = [run EXCEPT ![r] = [Idle EXCEPT !.kind = kind, !.pc = pc]]

\* A verified webhook of an ACTIVE item schedules the deferred pipeline.
Webhook(r) ==
    /\ "webhook" \in pending
    /\ status = "ACTIVE"
    /\ Start(r, "deferred", "claiming")
    /\ pending' = pending \ {"webhook"}
    /\ UNCHANGED <<item, lock, world, stored, faults, changes>>

\* The token exchange schedules the deferred pipeline, whatever the status.
Connect(r) ==
    /\ "connect" \in pending
    /\ Start(r, "deferred", "claiming")
    /\ pending' = pending \ {"connect"}
    /\ UNCHANGED <<item, lock, world, stored, faults, changes>>

\* The resume job's candidates: marked long enough ago, and their backoff over.
Resume(r) ==
    /\ status = "ACTIVE" /\ marker = "stale" /\ ~backoff
    /\ Start(r, "resume", "claiming")
    /\ UNCHANGED <<item, lock, pending, world, stored, faults, changes>>

\* The client's resume request looks at the marker, and then re-arms it.
ClientResume(r) ==
    /\ status = "ACTIVE" /\ marker = "stale"
    /\ Start(r, "deferred", "rearming")
    /\ UNCHANGED <<item, lock, pending, world, stored, faults, changes>>

Rearm(r) ==
    /\ run[r].pc = "rearming"
    /\ marker' = "fresh"
    /\ Goto(r, "claiming")
    /\ UNCHANGED <<status, completed, backoff, lock, pending, world, stored, faults, changes>>

\* Mutant: the sweep takes marked items only.
SweepMarked(r) ==
    /\ status = "ACTIVE" /\ marker # NoMarker
    /\ Start(r, "sweep", "claiming")
    /\ UNCHANGED <<item, lock, pending, world, stored, faults, changes>>

Sweep(r) ==
    /\ status = "ACTIVE"
    /\ Start(r, "sweep", "claiming")
    /\ UNCHANGED <<item, lock, pending, world, stored, faults, changes>>

\* Mutant: the claim does not ask whether the lock is free.
ClaimWinsAlways(r) ==
    /\ run[r].pc = "claiming"
    /\ lock' = "held"
    /\ run' = [run EXCEPT ![r].pc = "reading", ![r].since = available]
    /\ UNCHANGED <<item, pending, world, stored, faults, changes>>

ClaimWins(r) ==
    /\ run[r].pc = "claiming"
    /\ lock = "free"
    /\ lock' = "held"
    /\ run' = [run EXCEPT ![r].pc = "reading", ![r].since = available]
    /\ UNCHANGED <<item, pending, world, stored, faults, changes>>

ClaimLoses(r) ==
    /\ run[r].pc = "claiming"
    /\ lock # "free"
    /\ Goto(r, "stamping")
    /\ UNCHANGED <<item, lock, pending, world, stored, faults, changes>>

\* Mutant: the loser releases the lock as it leaves.
StampAndUnlock(r) ==
    /\ run[r].pc = "stamping"
    /\ marker' \in {"fresh", marker}
    /\ lock' = "free"
    /\ Finish(r)
    /\ UNCHANGED <<status, completed, backoff, pending, world, stored, faults, changes>>

\* The loser's marker: a write of its own, whenever it lands; best effort.
StampIncomplete(r) ==
    /\ run[r].pc = "stamping"
    /\ marker' \in {"fresh", marker}
    /\ Finish(r)
    /\ UNCHANGED <<status, completed, backoff, lock, pending, world, stored, faults, changes>>

\* syncTransactionsForItem reads the row once, before it pages.
ReadItem(r) ==
    /\ run[r].pc = "reading"
    /\ run' = [run EXCEPT ![r].pc = "pulling", ![r].seen = (marker # NoMarker), ![r].count = completed]
    /\ UNCHANGED <<item, lock, pending, world, stored, faults, changes>>

Pull(r) ==
    /\ run[r].pc = "pulling"
    /\ ~removed
    /\ stored' = available
    /\ Goto(r, "settling")
    /\ UNCHANGED <<item, lock, pending, world, faults, changes>>

\* The deferred pipeline catches a failure under the lock, the sweep after it.
Failing(r) == IF run[r].kind = "sweep" THEN "failed" ELSE "classifying"

\* The pages before the failure stay stored.
PullFails(r) ==
    /\ run[r].pc = "pulling"
    /\ Fault \/ (removed /\ UNCHANGED faults)
    /\ stored' \in stored..available
    /\ Leave(r, Failing(r))
    /\ UNCHANGED <<item, lock, pending, world, changes>>

BodyFails(r) ==
    /\ run[r].pc \in {"reading", "settling", "writing"}
    /\ Fault
    /\ Leave(r, Failing(r))
    /\ UNCHANGED <<item, lock, pending, world, stored, changes>>

\* The loop is over.  A revoked item ignores its health write, and with it the
\* marker and the count.
SettleReads(r) ==
    /\ run[r].pc = "settling"
    /\ IF status = "REVOKED" THEN Leave(r, "leaving") ELSE Goto(r, "writing")
    /\ UNCHANGED <<item, lock, pending, world, stored, faults, changes>>

\* A first run keeps the marker it read, until its second loop.
StillFirstRun(r) == run[r].seen /\ run[r].count + 1 < 2

SettleWrites(r) ==
    /\ run[r].pc = "writing"
    /\ status' = "ACTIVE"
    /\ marker' \in IF StillFirstRun(r) THEN {"fresh", "stale"} ELSE {NoMarker}
    /\ completed' = IF run[r].count = 0 THEN 1 ELSE 2
    /\ Leave(r, "leaving")
    /\ UNCHANGED <<backoff, lock, pending, world, stored, faults, changes>>

\* The deferred pipeline's catch.  A transient error only marks.
MarkFailure(r) ==
    /\ run[r].pc = "classifying"
    /\ marker' = "fresh"
    /\ Goto(r, "failed")
    /\ UNCHANGED <<status, completed, backoff, lock, pending, world, stored, faults, changes>>

\* Any other error flags the health too, in one write with the marker.
FlagReads(r) ==
    /\ run[r].pc = "classifying"
    /\ Goto(r, IF status = "REVOKED" THEN "failed" ELSE "flagging")
    /\ UNCHANGED <<item, lock, pending, world, stored, faults, changes>>

FlagWrites(r) ==
    /\ run[r].pc = "flagging"
    /\ status' = "ERROR"
    /\ marker' = "fresh"
    /\ Goto(r, "failed")
    /\ UNCHANGED <<completed, backoff, lock, pending, world, stored, faults, changes>>

\* Marking is best effort too.
MarkingFails(r) ==
    /\ run[r].pc \in {"classifying", "flagging"}
    /\ Fault
    /\ Goto(r, "failed")
    /\ UNCHANGED <<item, lock, pending, world, stored, changes>>

\* What is left after the release: the resume job records its attempt, the
\* sweep classifies its failure.
AfterRelease(r) ==
    IF run[r].kind = "resume" THEN Goto(r, "recording")
    ELSE IF run[r].kind = "sweep" /\ run[r].pc = "failed" THEN Goto(r, "reporting")
    ELSE Finish(r)

\* Mutant: every release clears the marker.
ReleaseClears(r) ==
    /\ run[r].pc \in {"leaving", "failed"}
    /\ lock' = "free"
    /\ marker' = NoMarker
    /\ AfterRelease(r)
    /\ UNCHANGED <<status, completed, backoff, pending, world, stored, faults, changes>>

\* Only a run that succeeded clears the marker, whoever set it.
Release(r) ==
    /\ run[r].pc \in {"leaving", "failed"}
    /\ lock' = "free"
    /\ marker' = IF run[r].pc = "leaving" THEN NoMarker ELSE marker
    /\ AfterRelease(r)
    /\ UNCHANGED <<status, completed, backoff, pending, world, stored, faults, changes>>

ReleaseFails(r) ==
    /\ run[r].pc \in {"leaving", "failed"}
    /\ Fault
    /\ lock' = "orphaned"
    /\ AfterRelease(r)
    /\ UNCHANGED <<item, pending, world, stored, changes>>

\* recordResumeAttempt: an attempt that left the item incomplete backs off,
\* complete though the item may be by the time of the write.
AttemptReads(r) ==
    /\ run[r].pc = "recording"
    /\ IF marker = NoMarker THEN Finish(r) ELSE Goto(r, "recorded")
    /\ UNCHANGED <<item, lock, pending, world, stored, faults, changes>>

AttemptWrites(r) ==
    /\ run[r].pc = "recorded"
    /\ backoff' = TRUE
    /\ Finish(r)
    /\ UNCHANGED <<status, marker, completed, lock, pending, world, stored, faults, changes>>

\* The sweep's catch, after the lock is gone.  The marker is not touched.
ReportReads(r) ==
    /\ run[r].pc = "reporting"
    /\ \/ Finish(r)
       \/ status # "REVOKED" /\ Goto(r, "reported")
    /\ UNCHANGED <<item, lock, pending, world, stored, faults, changes>>

\* A webhook may also report that consent was withdrawn at the bank.
ReportWrites(r) ==
    /\ run[r].pc = "reported"
    /\ status' \in IF run[r].kind = "sweep" THEN {"ERROR"} ELSE {"ERROR", "REVOKED"}
    /\ Finish(r)
    /\ UNCHANGED <<marker, completed, backoff, lock, pending, world, stored, faults, changes>>

\* A webhook or an operator finds the item broken: no lock, the same two steps.
ReportBroken(r) ==
    /\ status # "REVOKED"
    /\ Change
    /\ Start(r, "deferred", "reported")
    /\ UNCHANGED <<item, lock, pending, world, stored, faults>>

\* The platform ends the invocation; the lease it may hold stays in the row.
Kill(r) ==
    /\ run[r].pc # "idle"
    /\ Fault
    /\ lock' = IF Inside(r) THEN "orphaned" ELSE lock
    /\ Finish(r)
    /\ UNCHANGED <<item, pending, world, stored, changes>>

(***************************************************************************)
(* Time                                                                    *)
(***************************************************************************)

\* Mutant: a lease that was left behind stays.
LeaseStays == lock = "orphaned" /\ UNCHANGED vars

\* The claim's WHERE clause takes a lease of LOCK_TTL_MS for no lease.
LeaseExpires ==
    /\ lock = "orphaned"
    /\ lock' = "free"
    /\ UNCHANGED <<item, run, pending, world, stored, faults, changes>>

MarkerAges ==
    /\ marker = "fresh"
    /\ marker' = "stale"
    /\ UNCHANGED <<status, completed, backoff, lock, run, pending, world, stored, faults, changes>>

\* The backoff runs out, or the resume job finds the item complete and resets it.
BackoffEnds ==
    /\ backoff
    /\ backoff' = FALSE
    /\ UNCHANGED <<status, marker, completed, lock, run, pending, world, stored, faults, changes>>

(***************************************************************************)
(* The provider (external)                                                 *)
(***************************************************************************)

NewData ==
    /\ available < MaxData
    /\ available' = available + 1
    /\ pending' = pending \cup {"webhook"}
    /\ UNCHANGED <<item, lock, run, stored, removed, faults, changes>>

\* A delivery is lost, suppressed as a duplicate, or refused.
DropDelivery(d) ==
    /\ d \in pending
    /\ pending' = pending \ {d}
    /\ UNCHANGED <<item, lock, run, world, stored, faults, changes>>

(***************************************************************************)
(* Writers without the lock                                                *)
(***************************************************************************)

\* Disconnect: remove the item at the provider, which may fail; revoke it here;
\* and after a confirmed removal scrub the token.
DisconnectRemoves ==
    /\ pending \cap {"disconnect", "scrub"} = {}
    /\ Change
    /\ \/ removed' = TRUE /\ pending' = pending \cup {"disconnect", "scrub"}
       \/ removed' = removed /\ pending' = pending \cup {"disconnect"}
    /\ UNCHANGED <<item, lock, run, available, stored, faults>>

DisconnectRevokes ==
    /\ "disconnect" \in pending
    /\ pending' = pending \ {"disconnect"}
    /\ status' = "REVOKED"
    /\ UNCHANGED <<marker, completed, backoff, lock, run, world, stored, faults, changes>>

DisconnectScrubs ==
    /\ "scrub" \in pending /\ "disconnect" \notin pending
    /\ pending' = pending \ {"scrub"}
    /\ removed' = TRUE
    /\ UNCHANGED <<item, lock, run, available, stored, faults, changes>>

\* Relink: upsert the row with a new token and a new marker, reactivate it, and
\* leave the import to the deferred pipeline.
RelinkUpserts ==
    /\ "relink" \notin pending
    /\ Change
    /\ pending' = pending \cup {"relink"}
    /\ marker' = "fresh"
    /\ removed' = FALSE
    /\ UNCHANGED <<status, completed, backoff, lock, run, available, stored, faults>>

RelinkReactivates ==
    /\ "relink" \in pending
    /\ pending' = (pending \ {"relink"}) \cup {"connect"}
    /\ status' = "ACTIVE"
    /\ UNCHANGED <<marker, completed, backoff, lock, run, world, stored, faults, changes>>

(***************************************************************************)
(* The specification                                                       *)
(***************************************************************************)

\* The row as the token exchange leaves it: importing from birth.
Init ==
    /\ status = "ACTIVE"
    /\ marker = "fresh"
    /\ completed = 0
    /\ backoff = FALSE
    /\ lock = "free"
    /\ run = [r \in Runs |-> Idle]
    /\ pending = {"connect"}
    /\ available = 0
    /\ stored = 0
    /\ removed = FALSE
    /\ faults = 0
    /\ changes = 0

Trigger(r) == Webhook(r) \/ Connect(r) \/ ClientResume(r) \/ ReportBroken(r)

\* Every further step of a run that is under way.
Proceed(r) ==
    \/ Rearm(r)
    \/ ClaimWins(r)
    \/ ClaimLoses(r)
    \/ StampIncomplete(r)
    \/ ReadItem(r)
    \/ Pull(r)
    \/ PullFails(r)
    \/ BodyFails(r)
    \/ SettleReads(r)
    \/ SettleWrites(r)
    \/ MarkFailure(r)
    \/ FlagReads(r)
    \/ FlagWrites(r)
    \/ MarkingFails(r)
    \/ Release(r)
    \/ ReleaseFails(r)
    \/ AttemptReads(r)
    \/ AttemptWrites(r)
    \/ ReportReads(r)
    \/ ReportWrites(r)
    \/ Kill(r)

Unlocked ==
    \/ DisconnectRemoves
    \/ DisconnectRevokes
    \/ DisconnectScrubs
    \/ RelinkUpserts
    \/ RelinkReactivates

Next ==
    \/ \E r \in Runs : Trigger(r) \/ Resume(r) \/ Sweep(r) \/ Proceed(r)
    \/ LeaseExpires
    \/ MarkerAges
    \/ BackoffEnds
    \/ NewData
    \/ \E d \in {"webhook", "connect"} : DropDelivery(d)
    \/ Unlocked

\* Time passes, an invocation moves on until it ends or is killed, and the
\* dispatcher runs the two jobs again and again.
Fairness ==
    /\ \A r \in Runs : WF_vars(Proceed(r))
    /\ WF_vars(LeaseExpires)
    /\ WF_vars(MarkerAges)
    /\ WF_vars(BackoffEnds)
    /\ WF_vars(\E r \in Runs : Resume(r))
    /\ WF_vars(\E r \in Runs : Sweep(r))

Spec     == Init /\ [][Next]_vars
FairSpec == Spec /\ Fairness

(***************************************************************************)
(* Properties                                                              *)
(***************************************************************************)

RunType == [pc : InBody \cup {"idle", "claiming", "rearming", "stamping", "leaving",
                              "failed", "recording", "recorded", "reporting", "reported"},
            kind : Kinds, seen : BOOLEAN, count : 0..2, since : 0..MaxData]

\* Type invariant; the lock is held exactly while one run is inside.
TypeOK ==
    /\ status \in {"ACTIVE", "ERROR", "REVOKED"}
    /\ marker \in Markers
    /\ completed \in 0..2
    /\ backoff \in BOOLEAN
    /\ lock \in {"free", "held", "orphaned"}
    /\ run \in [Runs -> RunType]
    /\ pending \subseteq {"webhook", "connect", "disconnect", "scrub", "relink"}
    /\ available \in 0..MaxData /\ stored \in 0..available
    /\ removed \in BOOLEAN
    /\ faults \in 0..MaxFaults /\ changes \in 0..MaxChanges
    /\ lock = "held" <=> \E r \in Runs : Inside(r)

\* The marker is taken off only by a run that holds the lock and has stored
\* everything the provider had when it took it: no failed run, no run that
\* lost the lock and no other writer makes an item look fully imported
\* (sync-lock.ts:147-152).
ClearedByCompletedLoop ==
    [][marker # NoMarker /\ marker' = NoMarker =>
         \E r \in Runs : Inside(r) /\ stored >= run[r].since
                         /\ run[r].pc \in {"writing", "leaving"}]_vars

\* No completed loop is ever uncounted, though the count is read before the
\* pages and written after them (syncTransactions.ts:308, 1279, 1294).
CompletedNeverDecreases == [][completed' >= completed]_vars

\* The item is ACTIVE here and still exists at the provider: not one whose
\* disconnect has got as far as the provider and was then cut short.
Connected == status = "ACTIVE" /\ ~removed

\* An item that stays connected gets everything the provider has, whatever
\* deliveries are lost, losers dropped, leases left behind and runs killed:
\* the daily sweep repairs it (jobs/sync-banks.ts).
EverythingStored == <>[]Connected => <>[](stored = available)

\* An item that stays connected does not stay "importing": the marker is taken
\* off again and again, whoever sets it (resume-stale-imports.ts:24-26).
ImportSettles == <>[]Connected => []<>(marker = NoMarker)

\* "a first-run import holds `syncIncompleteAt` until a SECOND loop has
\* completed" (syncTransactions.ts:1269-1271).
FirstRunHoldsMarker ==
    completed = 1 /\ status = "ACTIVE" =>
        marker # NoMarker

\* "REVOKED is TERMINAL" (health-transitions.ts:84): only a relink ends it.
RevokedIsTerminal ==
    [][status = "REVOKED" /\ status' # "REVOKED" => RelinkReactivates]_vars

=============================================================================
