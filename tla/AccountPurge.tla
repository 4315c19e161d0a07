----------------------------- MODULE AccountPurge -----------------------------
(***************************************************************************)
(* Deleting an account (lib/account-deletion/purge.ts): a worker that      *)
(* finds the user due claims the row, removes the user's items at Plaid,   *)
(* and deletes everything in one transaction that is fenced on its claim   *)
(* and on the deletion still being due.  If Plaid refuses, the deletion is *)
(* held and tried again for MAX_DAYS days, then carried out with a record  *)
(* of what was never confirmed.  The user may cancel at login all along.   *)
(*                                                                         *)
(* The items, and who else removes them, are those of PlaidRemoval.  The   *)
(* purge does not use its path: it removes ACTIVE items itself, keeps      *)
(* their token and leaves no marker.                                       *)
(*                                                                         *)
(* Workers live for minutes, a claim is stale after half an hour, and the  *)
(* budget is counted in days: a worker may see midnight pass, and never    *)
(* sees its own claim go stale.                                            *)
(***************************************************************************)
EXTENDS PlaidRemoval, FiniteSetsExt

CONSTANTS
    Purgers, Nobody,
    MAX_DAYS,     \* MAX_REVOCATION_ATTEMPT_DAYS
    MaxRequests   \* bound on deletion requests

ASSUME PurgeAssumption ==
    Nobody \notin Purgers /\ MAX_DAYS \in Nat \ {0} /\ MaxRequests \in Nat

VARIABLES
    deletion,  \* of the user: "none", "grace", "due", or "deleted"
    requests,
    claim,     \* purgeStartedAt: whose it is, and
    stale,     \*   whether it is older than PURGE_CLAIM_STALE_MS
    purge,     \* the workers; `skipped` is history: items not found ACTIVE
    older,     \* REVOCATION_FAILED audit rows: days before yesterday with any
    yesterday, today,
    reported,  \* items named in ACCOUNT_DELETED_UNREVOKED audit rows
    straddled, \* history: a claim was made with a clock value from yesterday
    unasked    \* history: items the purge that committed had not found ACTIVE

purgeVars == <<deletion, requests, claim, stale, purge, older, yesterday, today,
               reported, straddled, unasked>>
vars == <<removalVars, purgeVars>>

PurgePcs == {"idle", "claim", "items", "loop", "confirmed", "hold", "terminal",
              "release", "report", "giveup", "tail"}
NoPurge == [pc |-> "idle", late |-> FALSE, todo |-> {}, readable |-> {},
            failed |-> {}, skipped |-> {}]

TypeOK ==
    /\ RemovalTypeOK
    /\ deletion \in {"none", "grace", "due", "deleted"}
    /\ requests \in 0..MaxRequests
    /\ claim \in Purgers \cup {Nobody}
    /\ stale \in BOOLEAN
    /\ purge \in [Purgers -> [pc : PurgePcs, late : BOOLEAN, todo : SUBSET Items,
                             readable : SUBSET Items, failed : SUBSET Items,
                             skipped : SUBSET Items]]
    /\ \A p \in Purgers : purge[p].todo \cap purge[p].failed = {}
    /\ older \in 0..MAX_DAYS
    /\ yesterday \in BOOLEAN /\ today \in BOOLEAN
    /\ reported \in SUBSET Items
    /\ straddled \in BOOLEAN
    /\ unasked \subseteq Items

Init ==
    /\ RemovalInit
    /\ deletion = "none" /\ requests = 0
    /\ claim = Nobody /\ stale = FALSE
    /\ purge = [p \in Purgers |-> NoPurge]
    /\ older = 0 /\ yesterday = FALSE /\ today = FALSE
    /\ reported = {}
    /\ straddled = FALSE
    /\ unasked = {}

PurgeAt(p, pc) == purge[p].pc = pc
PurgeGoto(p, pc) == purge' = [purge EXCEPT ![p].pc = pc]
PurgeOver(p) == purge' = [purge EXCEPT ![p] = NoPurge]

-----------------------------------------------------------------------------
(* The user and the time *)

\* Only with no deletion pending does the user come past the login.
LoggedIn == deletion = "none"

RequestDeletion ==
    /\ deletion = "none"
    /\ requests < MaxRequests
    /\ deletion' = "grace"
    /\ requests' = requests + 1
    /\ UNCHANGED <<removalVars, claim, stale, purge, older, yesterday, today,
                   reported, straddled, unasked>>

\* Cancelling at login clears the deletion and leaves a claim where it is.
CancelDeletion ==
    /\ deletion \in {"grace", "due"}
    /\ deletion' = "none"
    /\ UNCHANGED <<removalVars, requests, claim, stale, purge, older, yesterday, today,
                   reported, straddled, unasked>>

\* Thirty days on; no worker lives that long, and a claim from before is
\* stale.
GraceEnds ==
    /\ deletion = "grace"
    /\ \A p \in Purgers : PurgeAt(p, "idle")
    /\ deletion' = "due"
    /\ stale' = (claim # Nobody)
    /\ UNCHANGED <<removalVars, requests, claim, purge, older, yesterday, today,
                   reported, straddled, unasked>>

\* A worker past its claim, which it still holds.
Working(p) == purge[p].pc \notin {"idle", "claim"}
WorkingPurgers == {p \in Purgers : Working(p)}

\* The half hour after a claim is over, and with it the worker that made it.
ClaimGoesStale ==
    /\ claim # Nobody /\ ~stale
    /\ ~Working(claim)
    /\ stale' = TRUE
    /\ UNCHANGED <<removalVars, deletion, requests, claim, purge, older, yesterday, today,
                   reported, straddled, unasked>>

One(b) == IF b THEN 1 ELSE 0

\* Midnight; a worker sees one at most.
Midnight ==
    /\ deletion = "due"
    /\ \A p \in Purgers : ~purge[p].late
    /\ older' = Min({older + One(yesterday), MAX_DAYS})
    /\ yesterday' = today
    /\ today' = FALSE
    /\ purge' = [p \in Purgers |->
                   IF PurgeAt(p, "idle") THEN purge[p] ELSE [purge[p] EXCEPT !.late = TRUE]]
    /\ UNCHANGED <<removalVars, deletion, requests, claim, stale, reported, straddled, unasked>>

-----------------------------------------------------------------------------
(* The purge *)

\* processDeletions selects the user; purgeUser reads the row and the clock.
Begin(p) ==
    /\ PurgeAt(p, "idle")
    /\ deletion = "due"
    /\ claim = Nobody \/ stale
    /\ PurgeGoto(p, "claim")
    /\ UNCHANGED <<removalVars, deletion, requests, claim, stale, older, yesterday, today,
                   reported, straddled, unasked>>

\* Mutant: a claim is not looked at.
ClaimableWhenDue == deletion = "due"

\* Mutant: a claim that is there is respected for good.
ClaimableWhenFree == deletion = "due" /\ claim = Nobody

\* purgeClaimWhere: due, and no claim that is not stale.
Claimable == deletion = "due" /\ (claim = Nobody \/ stale)

Claim(p) ==
    /\ PurgeAt(p, "claim")
    /\ Claimable
    /\ claim' = p
    /\ stale' = FALSE
    /\ straddled' = (straddled \/ purge[p].late)
    /\ PurgeGoto(p, "items")
    /\ UNCHANGED <<removalVars, deletion, requests, older, yesterday, today, reported, unasked>>

ClaimRefused(p) ==
    /\ PurgeAt(p, "claim")
    /\ ~Claimable
    /\ PurgeOver(p)
    /\ UNCHANGED <<removalVars, deletion, requests, claim, stale, older, yesterday, today,
                   reported, straddled, unasked>>

\* After the sessions are revoked: the ACTIVE items, with their tokens.
ReadActive(p) ==
    LET active == {i \in Items : item[i].status = "ACTIVE"} IN
    /\ PurgeAt(p, "items")
    /\ purge' = [purge EXCEPT ![p] =
                    [@ EXCEPT !.pc = "loop", !.todo = active,
                              !.readable = {i \in active : item[i].token},
                              !.skipped = Items \ active]]
    /\ UNCHANGED <<removalVars, deletion, requests, claim, stale, older, yesterday, today,
                   reported, straddled, unasked>>

\* The rows come in no particular order.
OneOf(rows) == CHOOSE i \in rows : TRUE
Item(p) == OneOf(purge[p].todo)

\* Mutant: the loop comes back to the item.
PurgeNextAgain(p) == [purge[p] EXCEPT !.pc = "loop"]

\* The rest of the loop.
PurgeNext(p) == [purge[p] EXCEPT !.pc = "loop", !.todo = @ \ {Item(p)}, !.readable = @ \ {Item(p)}]

\* itemRemove confirms: removed, or ITEM_NOT_FOUND.
PurgeRemoves(p) ==
    /\ PurgeAt(p, "loop") /\ purge[p].todo # {}
    /\ Item(p) \in purge[p].readable
    /\ item' = [item EXCEPT ![Item(p)].live = FALSE]
    /\ PurgeGoto(p, "confirmed")
    /\ UNCHANGED <<owed, call, relink, undone, unmarked, faults, deletion, requests, claim,
                   stale, older, yesterday, today, reported, straddled, unasked>>

\* It does not: Plaid is out, for however long, its answer is lost, or the
\* token is of no use.
PurgeRefused(p) ==
    /\ PurgeAt(p, "loop") /\ purge[p].todo # {}
    /\ \/ UNCHANGED item
       \/ Item(p) \in purge[p].readable /\ item' = [item EXCEPT ![Item(p)].live = FALSE]
    /\ purge' = [purge EXCEPT ![p] = [PurgeNext(p) EXCEPT !.failed = @ \cup {Item(p)}]]
    /\ UNCHANGED <<owed, call, relink, undone, unmarked, faults, deletion, requests, claim,
                   stale, older, yesterday, today, reported, straddled, unasked>>

\* REVOKED without a marker; no row, or a failed write, is swallowed.
Revoked(i) == IF item[i].status = "gone" THEN item ELSE [item EXCEPT ![i].status = "REVOKED"]

PurgeRevokes(p) ==
    /\ PurgeAt(p, "confirmed")
    /\ \/ item' = Revoked(Item(p)) /\ UNCHANGED faults
       \/ Fault /\ UNCHANGED item
    /\ purge' = [purge EXCEPT ![p] = PurgeNext(p)]
    /\ UNCHANGED <<owed, call, relink, undone, unmarked, deletion, requests, claim, stale,
                   older, yesterday, today, reported, straddled, unasked>>

\* Mutant: today counts as a prior day.
PriorDaysWithToday(p) == older + One(yesterday) + One(today)

\* countPriorFailureDays: the days with a failure, less the day of the
\* worker's clock.
PriorDays(p) == older + One(IF purge[p].late THEN today ELSE yesterday)

Decide(p) ==
    /\ PurgeAt(p, "loop") /\ purge[p].todo = {}
    /\ PurgeGoto(p, IF purge[p].failed = {} THEN "tail"
                    ELSE IF PriorDays(p) + 1 < MAX_DAYS THEN "hold" ELSE "terminal")
    /\ UNCHANGED <<removalVars, deletion, requests, claim, stale, older, yesterday, today,
                   reported, straddled, unasked>>

\* Mutant: what is given up is not reported.
RecordFailuresOnly(p) ==
    /\ purge[p].pc \in {"hold", "terminal"}
    /\ today' = TRUE
    /\ PurgeGoto(p, IF PurgeAt(p, "hold") THEN "release" ELSE "giveup")
    /\ UNCHANGED <<removalVars, deletion, requests, claim, stale, older, yesterday,
                   reported, straddled, unasked>>

\* One REVOCATION_FAILED row per item, dated by the clock of the write.
RecordFailures(p) ==
    /\ purge[p].pc \in {"hold", "terminal"}
    /\ today' = TRUE
    /\ PurgeGoto(p, IF PurgeAt(p, "hold") THEN "release" ELSE "report")
    /\ UNCHANGED <<removalVars, deletion, requests, claim, stale, older, yesterday,
                   reported, straddled, unasked>>

\* The deletion is held and the claim given back, unless that fails.
ReleaseClaim(p) ==
    /\ PurgeAt(p, "release")
    /\ \/ claim' = (IF claim = p THEN Nobody ELSE claim) /\ UNCHANGED faults
       \/ Fault /\ UNCHANGED claim
    /\ PurgeOver(p)
    /\ UNCHANGED <<item, owed, call, relink, undone, unmarked, deletion, requests, stale,
                   older, yesterday, today, reported, straddled, unasked>>

\* ACCOUNT_DELETED_UNREVOKED, before the deletion it speaks of.
Report(p) ==
    /\ PurgeAt(p, "report")
    /\ reported' = reported \cup purge[p].failed
    /\ PurgeGoto(p, "giveup")
    /\ UNCHANGED <<removalVars, deletion, requests, claim, stale, older, yesterday, today,
                   straddled, unasked>>

\* Where the loop over the failed items goes after i.
Rest(p, i) == IF purge[p].failed = {i} THEN "tail" ELSE "giveup"

\* The items that were reported are marked REVOKED one by one.
GiveUp(p) ==
    /\ PurgeAt(p, "giveup")
    /\ \E i \in purge[p].failed :
        /\ \/ item' = Revoked(i) /\ UNCHANGED faults
           \/ Fault /\ UNCHANGED item
        /\ purge' = [purge EXCEPT ![p] =
                        [@ EXCEPT !.pc = Rest(p, i), !.failed = purge[p].failed \ {i}]]
    /\ UNCHANGED <<owed, call, relink, undone, unmarked, deletion, requests, claim, stale,
                   older, yesterday, today, reported, straddled, unasked>>

\* The transaction: still due, still this worker's claim, or nothing.
FenceHolds(p) == deletion = "due" /\ claim = p

Commit(p) ==
    /\ PurgeAt(p, "tail")
    /\ FenceHolds(p)
    /\ deletion' = "deleted"
    /\ claim' = Nobody
    /\ unasked' = purge[p].skipped
    /\ item' = [i \in Items |-> [item[i] EXCEPT !.status = "gone", !.linked = FALSE]]
    /\ PurgeOver(p)
    /\ UNCHANGED <<owed, call, relink, undone, unmarked, faults, requests, stale, older,
                   yesterday, today, reported, straddled>>

Abandon(p) ==
    /\ PurgeAt(p, "tail")
    /\ ~FenceHolds(p)
    /\ PurgeOver(p)
    /\ UNCHANGED <<removalVars, deletion, requests, claim, stale, older, yesterday, today,
                   reported, straddled, unasked>>

\* A statement throws, or the platform kills the worker: the claim stays.
PurgeDies(p) ==
    /\ ~PurgeAt(p, "idle")
    /\ Fault
    /\ PurgeOver(p)
    /\ UNCHANGED <<item, owed, call, relink, undone, unmarked, deletion, requests, claim,
                   stale, older, yesterday, today, reported, straddled, unasked>>

PurgeStep(p) ==
    \/ Claim(p) \/ ClaimRefused(p) \/ ReadActive(p) \/ PurgeRemoves(p) \/ PurgeRefused(p)
    \/ PurgeRevokes(p) \/ Decide(p) \/ RecordFailures(p) \/ ReleaseClaim(p) \/ Report(p)
    \/ GiveUp(p) \/ Commit(p) \/ Abandon(p)

\* What happens to the items meanwhile: the user's own steps need a login.
ItemStep(A) == A /\ UNCHANGED purgeVars

UserStep ==
    /\ LoggedIn
    /\ \E i \in Items :
        \/ Restore(i) \/ RelinkExchanges(i)
        \/ \E c \in Callers : RemoveAccounts(c, i)

OtherStep ==
    \/ \E c \in Callers :
        \/ StartRetry(c) \/ RemovalStep(c) \/ KillCaller(c)
        \/ \E i \in Items : OperatorRetry(c, i)
    \/ \E i \in Items : RelinkStep(i) \/ HealthReported(i) \/ LateReport(i)

Next ==
    \/ RequestDeletion \/ CancelDeletion \/ GraceEnds \/ ClaimGoesStale \/ Midnight
    \/ \E p \in Purgers : Begin(p) \/ PurgeStep(p) \/ PurgeDies(p)
    \/ ItemStep(UserStep) \/ ItemStep(OtherStep)

Spec == Init /\ [][Next]_vars

\* Time passes, the job comes round every day, and workers go on.  Nothing is
\* assumed of Plaid; kills and failed statements are bounded.
Fairness ==
    /\ WF_vars(GraceEnds) /\ WF_vars(ClaimGoesStale) /\ WF_vars(Midnight)
    /\ \A p \in Purgers : WF_vars(Begin(p)) /\ WF_vars(PurgeStep(p))

FairSpec == Spec /\ Fairness

-----------------------------------------------------------------------------
(* Properties *)

\* The claim keeps the workers of a user apart, through crashes, stale claims
\* that are taken over, cancelled deletions and new requests (purge.ts:14-21).
Mutex == INSTANCE SyncMutex WITH Runs <- Purgers, holder <- WorkingPurgers
RefinesMutex == Mutex!Spec

\* The days on which Plaid refused anything to a purge of this user, those of
\* a deletion cancelled since included, and how many of them a purge needs;
\* one fewer when a worker claimed the user with a clock value read before
\* midnight.
FailureDays == older + One(yesterday) + One(today)
Budget == IF straddled THEN MAX_DAYS - 1 ELSE MAX_DAYS

\* Plaid's refusal is overridden only after refusals on MAX_DAYS days
\* (revocation.ts:26-39): neither is an item reported as given up before, nor
\* is a user deleted whose item lives on at Plaid, unless the purge that did it
\* had not found the item ACTIVE and so had not asked (purge.ts:262).
BudgetHonoured ==
    \/ reported # {}
    \/ deletion = "deleted" /\ \E i \in Items \ unasked : item[i].live
    => FailureDays >= Budget

\* "Fourth Meridian must not silently discard its ability to retry upstream
\* revocation after a transient failure" but "hold deletion [...] then complete
\* it and record honestly that upstream revocation was never confirmed"
\* (revocation.ts:20-28): once Plaid has refused, an item that outlives its
\* user is on record.  Without the excuse of BudgetHonoured.
RetryNotDiscarded ==
    deletion = "deleted" /\ FailureDays > 0 => \A i \in Items : item[i].live => i \in reported

\* An outage of any length at Plaid, workers that die and claims they leave
\* behind do not keep a user whose deletion is due (revocation.ts:26-31).
DeletionCarriedOut == deletion = "due" ~> deletion \in {"deleted", "none"}

\* A deletion is carried out once Plaid has let every item go that the purge
\* found ACTIVE, or "honestly records" which it never confirmed
\* (revocation.ts:26-31), through crashes between the refusals, the record
\* and the transaction.
DeletedOnRecord ==
    deletion = "deleted" => \A i \in Items : item[i].live => i \in reported \cup unasked

=============================================================================
