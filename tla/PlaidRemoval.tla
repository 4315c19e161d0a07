----------------------------- MODULE PlaidRemoval -----------------------------
(***************************************************************************)
(* Taking a connection back at Plaid: lib/plaid/disconnect.ts, run when    *)
(* the last account of an item is removed, by the daily                    *)
(* jobs/plaid-removal-retry.ts and by the operator's retry.  An item is    *)
(* REVOKED here whatever Plaid answers; whether Plaid confirmed the        *)
(* removal is a marker of its own, and the newest marker of an item says   *)
(* whether the removal is still owed.  Until it is confirmed the item      *)
(* lives on at Plaid, and is billed.                                       *)
(*                                                                         *)
(* Each statement is an action.  Invocations may be killed between any     *)
(* two, a write may fail, Plaid may refuse, and its answer may be lost.    *)
(*                                                                         *)
(* The markers are kept as what lib/platform/plaid/provider-cleanup.ts     *)
(* folds them to: the items owed, oldest obligation first.                 *)
(***************************************************************************)
EXTENDS Integers, SequencesExt

CONSTANTS
    Items,      \* PlaidItem rows
    Callers,    \* invocations of the removal path under way at once
    LIMIT,      \* PLAID_REMOVAL_RETRY_LIMIT
    MaxUndone,  \* bound: relinks, restores and late reports
    MaxFaults   \* bound: kills, failed writes, refusals and lost answers

ASSUME RemovalAssumption ==
    LIMIT \in Nat \ {0} /\ MaxUndone \in Nat /\ MaxFaults \in Nat

VARIABLES
    item,      \* [status, token: not scrubbed, linked: has live connections,
               \*  live: exists at Plaid]; status "gone": the row is deleted
    owed,      \* items whose newest marker is UNCONFIRMED
    call,      \* the invocations of the removal path
    relink,    \* per item, how far a token exchange has come
    undone,    \* relinks, restores and late reports so far
    unmarked,  \* history: items whose removal ended without its marker
    faults

removalVars == <<item, owed, call, relink, undone, unmarked, faults>>

Statuses == {"ACTIVE", "NEEDS_REAUTH", "REVOKED", "gone"}
Pcs == {"idle", "count", "read", "remove", "revoke", "scrub", "mark"}

NoCall == [pc |-> "idle", job |-> FALSE, todo |-> <<>>, token |-> FALSE, confirmed |-> FALSE]

RemovalTypeOK ==
    /\ item \in [Items -> [status : Statuses, token : BOOLEAN, linked : BOOLEAN, live : BOOLEAN]]
    /\ owed \in Seq(Items) /\ IsInjective(owed)
    /\ call \in [Callers -> [pc : Pcs, job : BOOLEAN, todo : Seq(Items), token : BOOLEAN,
                             confirmed : BOOLEAN]]
    /\ \A c \in Callers :
        /\ IsInjective(call[c].todo)
        /\ (call[c].todo = <<>>) = (call[c].pc = "idle")
    /\ relink \in [Items -> {"off", "exchanged", "stored", "active"}]
    /\ undone \in 0..MaxUndone
    /\ unmarked \subseteq Items
    /\ faults \in 0..MaxFaults

RemovalInit ==
    /\ item = [i \in Items |->
                 [status |-> "ACTIVE", token |-> TRUE, linked |-> TRUE, live |-> TRUE]]
    /\ owed = <<>>
    /\ call = [c \in Callers |-> NoCall]
    /\ relink = [i \in Items |-> "off"]
    /\ undone = 0
    /\ unmarked = {}
    /\ faults = 0

Fault == faults < MaxFaults /\ faults' = faults + 1
Undo == undone < MaxUndone /\ undone' = undone + 1

At(c, pc) == call[c].pc = pc
Current(c) == Head(call[c].todo)

\* A caller about to take up the first of these items.
CallFor(items, job) ==
    [pc |-> "count", job |-> job, todo |-> items, token |-> FALSE, confirmed |-> FALSE]

\* The next item of the caller's list, if there is one.
NextItem(c) ==
    LET rest == Tail(call[c].todo)
    IN  IF rest = <<>> THEN NoCall ELSE CallFor(rest, call[c].job)

Goto(c, pc) == call' = [call EXCEPT ![c].pc = pc]
Done(c) == call' = [call EXCEPT ![c] = NextItem(c)]
Takes(c, items, job) == call' = [call EXCEPT ![c] = CallFor(items, job)]

-----------------------------------------------------------------------------
(* Who asks for a removal *)

\* disconnectAccounts: the last connections of the item go, and the removal
\* is dispatched after the commit.
RemoveAccounts(c, i) ==
    /\ At(c, "idle")
    /\ item[i].linked
    /\ item' = [item EXCEPT ![i].linked = FALSE]
    /\ Takes(c, <<i>>, FALSE)
    /\ UNCHANGED <<owed, relink, undone, unmarked, faults>>

\* Owed, REVOKED and still there: their places in the list.
Eligible == {n \in DOMAIN owed : item[owed[n]].status = "REVOKED"}

\* Mutant: the newest first.
CandidatesNewest == {n \in Eligible : Cardinality({m \in Eligible : m > n}) < LIMIT}

\* The oldest of them, at most LIMIT.
Candidates == {n \in Eligible : Cardinality({m \in Eligible : m < n}) < LIMIT}

\* The daily job, which its ledger runs one at a time, takes them oldest first.
\* Its two reads, of the markers and of the items, are one here: an item that
\* another invocation confirms in between is one it confirms before its turn.
StartRetry(c) ==
    /\ At(c, "idle")
    /\ \A d \in Callers : ~call[d].job
    /\ Candidates # {}
    /\ \E places \in SetToSeqs(Candidates) :
        /\ \A m, n \in DOMAIN places : m < n => places[m] < places[n]
        /\ Takes(c, [n \in DOMAIN places |-> owed[places[n]]], TRUE)
    /\ UNCHANGED <<item, owed, relink, undone, unmarked, faults>>

\* The operator's retry of one item, whatever its status.
OperatorRetry(c, i) ==
    /\ At(c, "idle")
    /\ Contains(owed, i)
    /\ item[i].status # "gone"
    /\ Takes(c, <<i>>, FALSE)
    /\ UNCHANGED <<item, owed, relink, undone, unmarked, faults>>

-----------------------------------------------------------------------------
(* disconnectPlaidItemIfOrphaned *)

CountConnections(c) ==
    /\ At(c, "count")
    /\ IF item[Current(c)].linked THEN Done(c) ELSE Goto(c, "read")
    /\ UNCHANGED <<item, owed, relink, undone, unmarked, faults>>

ReadItem(c) ==
    /\ At(c, "read")
    /\ IF item[Current(c)].status = "gone"
       THEN Done(c)
       ELSE call' = [call EXCEPT ![c].pc = "remove", ![c].token = item[Current(c)].token]
    /\ UNCHANGED <<item, owed, relink, undone, unmarked, faults>>

\* Mutant: every failure is taken for ITEM_NOT_FOUND.
AnsweredGone(c, confirmed) ==
    call' = [call EXCEPT ![c].pc = "revoke", ![c].token = FALSE, ![c].confirmed = TRUE]

\* itemRemove, and what its answer is taken for: removed and ITEM_NOT_FOUND
\* confirm, any other failure does not, be it Plaid's or that of decrypting a
\* token that has been scrubbed.
Answered(c, confirmed) ==
    call' = [call EXCEPT ![c].pc = "revoke", ![c].token = FALSE, ![c].confirmed = confirmed]

RemoveAtPlaid(c) ==
    LET i == Current(c) IN
    /\ At(c, "remove")
    /\ \/ /\ call[c].token
          /\ item' = [item EXCEPT ![i].live = FALSE]
          /\ Answered(c, TRUE)
          /\ UNCHANGED faults
       \/ /\ call[c].token
          /\ Fault
          /\ \/ UNCHANGED item
             \/ item' = [item EXCEPT ![i].live = FALSE]
          /\ Answered(c, FALSE)
       \/ /\ ~call[c].token
          /\ Answered(c, FALSE)
          /\ UNCHANGED <<item, faults>>
    /\ UNCHANGED <<owed, relink, undone, unmarked>>

\* Mutant: the token is scrubbed of every item that is revoked.
AfterRevokeScrub(c) == "scrub"

\* Only a confirmed removal makes the token worthless.
AfterRevoke(c) == IF call[c].confirmed THEN "scrub" ELSE "mark"

\* setPlaidItemHealth: no row, nothing to write.  If the write throws, so
\* does the removal.
Revoke(c) ==
    LET i == Current(c) IN
    /\ At(c, "revoke")
    /\ \/ /\ item' = IF item[i].status = "gone" THEN item
                     ELSE [item EXCEPT ![i].status = "REVOKED"]
          /\ Goto(c, AfterRevoke(c))
          /\ UNCHANGED <<unmarked, faults>>
       \/ Fault /\ Done(c) /\ unmarked' = unmarked \cup {i} /\ UNCHANGED item
    /\ UNCHANGED <<owed, relink, undone>>

\* The scrub is keyed on the id; its failure is swallowed.
Scrub(c) ==
    LET i == Current(c) IN
    /\ At(c, "scrub")
    /\ \/ /\ item' = IF item[i].status = "gone" THEN item
                     ELSE [item EXCEPT ![i].token = FALSE]
          /\ UNCHANGED faults
       \/ Fault /\ UNCHANGED item
    /\ Goto(c, "mark")
    /\ UNCHANGED <<owed, relink, undone, unmarked>>

Place(i) == CHOOSE n \in DOMAIN owed : owed[n] = i

\* Mutant: every failed attempt is an obligation of its own.
OwedAfterAgain(i, confirmed) ==
    CASE ~confirmed -> Append(owed, i)
      [] confirmed /\ Contains(owed, i) -> RemoveAt(owed, Place(i))
      [] OTHER -> owed

\* The fold of the markers after one more for i.
OwedAfter(i, confirmed) ==
    CASE ~confirmed /\ ~Contains(owed, i) -> Append(owed, i)
      [] confirmed /\ Contains(owed, i) -> RemoveAt(owed, Place(i))
      [] OTHER -> owed

\* The marker names the owner of the item and cannot be written once the
\* owner is deleted; its failure is swallowed.
Mark(c) ==
    LET i == Current(c) IN
    /\ At(c, "mark")
    /\ \/ /\ item[i].status # "gone"
          /\ owed' = OwedAfter(i, call[c].confirmed)
          /\ UNCHANGED <<unmarked, faults>>
       \/ /\ \/ item[i].status = "gone" /\ UNCHANGED faults
             \/ Fault
          /\ unmarked' = unmarked \cup {i}
          /\ UNCHANGED owed
    /\ Done(c)
    /\ UNCHANGED <<item, relink, undone>>

\* The platform ends the invocation.
KillCaller(c) ==
    /\ ~At(c, "idle")
    /\ Fault
    /\ call' = [call EXCEPT ![c] = NoCall]
    /\ unmarked' = unmarked \cup {Current(c)}
    /\ UNCHANGED <<item, owed, relink, undone>>

-----------------------------------------------------------------------------
(* Who undoes one *)

\* Link in update mode gives the same item a new token; Plaid must still
\* know the item.
RelinkExchanges(i) ==
    /\ relink[i] = "off"
    /\ item[i].live /\ item[i].status # "gone"
    /\ Undo
    /\ relink' = [relink EXCEPT ![i] = "exchanged"]
    /\ UNCHANGED <<item, owed, call, unmarked, faults>>

RelinkStores(i) ==
    /\ relink[i] = "exchanged"
    /\ item[i].status # "gone"
    /\ item' = [item EXCEPT ![i].token = TRUE]
    /\ relink' = [relink EXCEPT ![i] = "stored"]
    /\ UNCHANGED <<owed, call, undone, unmarked, faults>>

RelinkActivates(i) ==
    /\ relink[i] = "stored"
    /\ item[i].status # "gone"
    /\ item' = [item EXCEPT ![i].status = "ACTIVE"]
    /\ relink' = [relink EXCEPT ![i] = "active"]
    /\ UNCHANGED <<owed, call, undone, unmarked, faults>>

\* accountsGet, which fails for an item Plaid no longer knows, and the
\* connections.
RelinkConnects(i) ==
    /\ relink[i] = "active"
    /\ item' = IF item[i].live /\ item[i].status # "gone"
               THEN [item EXCEPT ![i].linked = TRUE] ELSE item
    /\ relink' = [relink EXCEPT ![i] = "off"]
    /\ UNCHANGED <<owed, call, undone, unmarked, faults>>

\* The exchange dies, or has no row left to write to.
RelinkFails(i) ==
    /\ relink[i] # "off"
    /\ \/ item[i].status = "gone" /\ UNCHANGED faults
       \/ Fault
    /\ relink' = [relink EXCEPT ![i] = "off"]
    /\ UNCHANGED <<item, owed, call, undone, unmarked>>

\* Restoring an account brings its connection back and leaves the item as it
\* is.
Restore(i) ==
    /\ ~item[i].linked /\ item[i].status # "gone"
    /\ Undo
    /\ item' = [item EXCEPT ![i].linked = TRUE]
    /\ UNCHANGED <<owed, call, relink, unmarked, faults>>

\* A sync or a webhook reports that the item works again, needs the user, or
\* that the user withdrew consent at the bank; a report that reads REVOKED is
\* dropped.
HealthReported(i) ==
    /\ item[i].status \in {"ACTIVE", "NEEDS_REAUTH"}
    /\ \E reported \in {"ACTIVE", "NEEDS_REAUTH", "REVOKED"} :
        item' = [item EXCEPT ![i].status = reported]
    /\ UNCHANGED <<owed, call, relink, undone, unmarked, faults>>

\* One that has read the item before it was REVOKED writes after: the read
\* does not lock, and the write is keyed on the id.
LateReport(i) ==
    /\ item[i].status = "REVOKED"
    /\ Undo
    /\ \E reported \in {"ACTIVE", "NEEDS_REAUTH"} :
        item' = [item EXCEPT ![i].status = reported]
    /\ UNCHANGED <<owed, call, relink, unmarked, faults>>

RemovalStep(c) ==
    \/ CountConnections(c) \/ ReadItem(c) \/ RemoveAtPlaid(c) \/ Revoke(c) \/ Scrub(c) \/ Mark(c)

RelinkStep(i) == RelinkStores(i) \/ RelinkActivates(i) \/ RelinkConnects(i) \/ RelinkFails(i)

RemovalNext ==
    \/ \E c \in Callers :
        \/ StartRetry(c) \/ RemovalStep(c) \/ KillCaller(c)
        \/ \E i \in Items : RemoveAccounts(c, i) \/ OperatorRetry(c, i)
    \/ \E i \in Items :
        \/ RelinkExchanges(i) \/ RelinkStep(i) \/ Restore(i) \/ HealthReported(i) \/ LateReport(i)

RemovalSpec == RemovalInit /\ [][RemovalNext]_removalVars

\* Invocations under way go on; the daily job comes round, and does not wait
\* for operators to be done (Callers bounds the model, not the code).  Plaid
\* and the database fail at most MaxFaults times.
RemovalFairness ==
    /\ \A c \in Callers : /\ WF_removalVars(RemovalStep(c))
                           /\ SF_removalVars(StartRetry(c))
    /\ \A i \in Items : WF_removalVars(RelinkStep(i))

FairRemovalSpec == RemovalSpec /\ RemovalFairness

-----------------------------------------------------------------------------
(* Properties *)

\* The credential of an item is scrubbed only once Plaid has let the item go,
\* whatever answers are lost and whoever else removes or relinks it
\* (disconnect.ts:129-136).
CredentialKept ==
    \A i \in Items : item[i].live /\ item[i].status # "gone" => item[i].token

\* An item without accounts that is REVOKED here and alive at Plaid is on the
\* list of what is owed, unless an invocation is still at it or was cut short
\* before it could say so (disconnect.ts:144-154).
AtWork(i) == \E c \in Callers : Contains(call[c].todo, i)
NothingForgotten ==
    \A i \in Items :
        item[i].live /\ ~item[i].linked /\ item[i].status = "REVOKED" =>
            Contains(owed, i) \/ AtWork(i) \/ i \in unmarked

\* The user keeps the item removed, and keeps the account.
StaysRemoved(i) == item[i].status = "REVOKED" /\ ~item[i].linked

\* No retry confirms these for as long as they are so: the restored are left
\* alone, and of the scrubbed nothing is left to ask with.
Unconfirmable(i) == item[i].linked \/ ~item[i].token

\* The job's places are all taken by such items, older than i.
Blocked(i) ==
    LIMIT <= Cardinality({n \in Eligible : n < Place(i) /\ Unconfirmable(owed[n])})

\* Billing stops (plaid-removal-retry.ts:4-11): what is owed and stays removed
\* is taken back at Plaid in the end, though a retry is refused, dies, loses a
\* write or overlaps another, and though more is owed than a day's job takes
\* (98), unless older items that no retry can confirm fill the job every day.
BillingStops ==
    \A i \in Items :
        <>[](StaysRemoved(i) /\ Contains(owed, i) /\ ~Blocked(i)) => <>~item[i].live

\* Without that excuse.
BillingAlwaysStops ==
    \A i \in Items : <>[](StaysRemoved(i) /\ Contains(owed, i)) => <>~item[i].live

\* "Losing a CONFIRMED row leaves an item eligible for a cleanup that will
\* harmlessly re-confirm" (disconnect.ts:151-153): what stays removed does not
\* stay owed.
OwedSettles ==
    \A i \in Items : <>[]StaysRemoved(i) => []<>~Contains(owed, i)

=============================================================================
