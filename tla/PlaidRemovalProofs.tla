-------------------------- MODULE PlaidRemovalProofs --------------------------
(***************************************************************************)
(* Why the removal of a connection never loses a credential that Plaid     *)
(* still honours, for any number of items, overlapping invocations, faults *)
(* and relinks.                                                            *)
(*                                                                         *)
(* The scrub is keyed on the id and trusts a local variable; what makes it *)
(* right is that a confirmation is about an item Plaid never knows again,  *)
(* and that an invocation forgets it with the item.                        *)
(*                                                                         *)
(* And why no item is forgotten: an item that no account needs is marked   *)
(* by whoever is at work on it, and what a job has taken from the queue    *)
(* stays in the queue until Plaid has confirmed it, so that only the item  *)
(* in hand can be lost with an invocation.                                 *)
(***************************************************************************)
EXTENDS PlaidRemoval, TLAPS, FiniteSetTheorems

Rows == [status : Statuses, token : BOOLEAN, linked : BOOLEAN, live : BOOLEAN]

ItemTyped == item \in [Items -> Rows]

\* The invocations are records, whatever their lists hold.
CallShape ==
    /\ call = [c \in Callers |-> call[c]]
    /\ \A c \in Callers :
        /\ call[c] = [pc |-> call[c].pc, job |-> call[c].job, todo |-> call[c].todo,
                      token |-> call[c].token, confirmed |-> call[c].confirmed]
        /\ call[c].confirmed \in BOOLEAN

\* A removal that an invocation takes for confirmed is one, and only such a
\* removal is followed by a scrub.
ConfirmedGone ==
    \A c \in Callers :
        /\ \A i \in Items : call[c].confirmed /\ Current(c) = i => ~item[i].live
        /\ At(c, "scrub") => call[c].confirmed

CredentialInv == ItemTyped /\ CallShape /\ ConfirmedGone /\ CredentialKept

-----------------------------------------------------------------------------
\* No step brings an item back that Plaid has let go.
LiveFalls == \A i \in Items : item'[i].live => item[i].live

Shape(r) == r = [pc |-> r.pc, job |-> r.job, todo |-> r.todo, token |-> r.token,
                 confirmed |-> r.confirmed]

\* An invocation that claims nothing about its item.
Quiet(r) == Shape(r) /\ r.confirmed = FALSE /\ r.pc # "scrub"

\* An invocation starts, or goes on to its next item, without a claim.
LEMMA NextItemQuiet == ASSUME NEW c PROVE Quiet(NextItem(c)) /\ Quiet(NoCall)
BY DEF NextItem, CallFor, NoCall, Quiet, Shape

\* So does one that takes up a list.
LEMMA TakesQuiet == ASSUME NEW items, NEW job PROVE Quiet(CallFor(items, job))
BY DEF CallFor, Quiet, Shape

\* The fields of an invocation that moves on.
LEMMA MovedFields ==
    ASSUME NEW r, Shape(r), NEW p
    PROVE  /\ Shape([r EXCEPT !.pc = p])
           /\ [r EXCEPT !.pc = p].pc = p /\ [r EXCEPT !.pc = p].todo = r.todo
           /\ [r EXCEPT !.pc = p].token = r.token
           /\ [r EXCEPT !.pc = p].confirmed = r.confirmed
<1> DEFINE q == [pc |-> r.pc, job |-> r.job, todo |-> r.todo, token |-> r.token,
                 confirmed |-> r.confirmed]
<1>1. r = q
  BY DEF Shape
<1>2. [q EXCEPT !.pc = p] =
        [pc |-> p, job |-> r.job, todo |-> r.todo, token |-> r.token, confirmed |-> r.confirmed]
  OBVIOUS
<1> HIDE DEF q
<1>3. QED
  BY <1>1, <1>2 DEF Shape

\* Of one that holds another token.
LEMMA TokenFields ==
    ASSUME NEW r, Shape(r), NEW t
    PROVE  /\ Shape([r EXCEPT !.token = t])
           /\ [r EXCEPT !.token = t].pc = r.pc /\ [r EXCEPT !.token = t].todo = r.todo
           /\ [r EXCEPT !.token = t].confirmed = r.confirmed
<1> DEFINE q == [pc |-> r.pc, job |-> r.job, todo |-> r.todo, token |-> r.token,
                 confirmed |-> r.confirmed]
<1>1. r = q
  BY DEF Shape
<1>2. [q EXCEPT !.token = t] =
        [pc |-> r.pc, job |-> r.job, todo |-> r.todo, token |-> t, confirmed |-> r.confirmed]
  OBVIOUS
<1> HIDE DEF q
<1>3. QED
  BY <1>1, <1>2 DEF Shape

\* Of one that has been answered.
LEMMA ClaimFields ==
    ASSUME NEW r, Shape(r), NEW b
    PROVE  /\ Shape([r EXCEPT !.confirmed = b])
           /\ [r EXCEPT !.confirmed = b].pc = r.pc /\ [r EXCEPT !.confirmed = b].todo = r.todo
           /\ [r EXCEPT !.confirmed = b].confirmed = b
<1> DEFINE q == [pc |-> r.pc, job |-> r.job, todo |-> r.todo, token |-> r.token,
                 confirmed |-> r.confirmed]
<1>1. r = q
  BY DEF Shape
<1>2. [q EXCEPT !.confirmed = b] =
        [pc |-> r.pc, job |-> r.job, todo |-> r.todo, token |-> r.token, confirmed |-> b]
  OBVIOUS
<1> HIDE DEF q
<1>3. QED
  BY <1>1, <1>2 DEF Shape

\* An invocation may be overwritten with one that claims what is true, while
\* no item comes back.
LEMMA CallWritten ==
    ASSUME CallShape, ConfirmedGone, LiveFalls, NEW c \in Callers, NEW r, Shape(r),
           r.confirmed \in BOOLEAN, call' = [call EXCEPT ![c] = r],
           \A i \in Items : r.confirmed /\ Head(r.todo) = i => ~item'[i].live,
           r.pc = "scrub" => r.confirmed
    PROVE  CallShape' /\ ConfirmedGone'
<1>1. /\ call' = [d \in Callers |-> call'[d]] /\ call'[c] = r
      /\ \A d \in Callers \ {c} : call'[d] = call[d]
  BY DEF CallShape
<1>2. CallShape'
  BY <1>1 DEF CallShape, Shape
<1>3. ConfirmedGone'
  BY <1>1 DEF ConfirmedGone, LiveFalls, Current, At
<1>4. QED
  BY <1>2, <1>3

\* So may one be left alone, or without a claim.
LEMMA CallsKept ==
    ASSUME CallShape, ConfirmedGone, LiveFalls, NEW c \in Callers,
           call' = call \/ \E r : Quiet(r) /\ call' = [call EXCEPT ![c] = r]
    PROVE  CallShape' /\ ConfirmedGone'
<1>1. CASE call' = call
  BY <1>1 DEF CallShape, ConfirmedGone, LiveFalls, Current, At
<1>2. ASSUME NEW r, Quiet(r), call' = [call EXCEPT ![c] = r] PROVE CallShape' /\ ConfirmedGone'
  BY <1>2, CallWritten DEF Quiet
<1>3. QED
  BY <1>1, <1>2

\* And one that moves on with its claim.
LEMMA CallMoved ==
    ASSUME CallShape, ConfirmedGone, LiveFalls, NEW c \in Callers, NEW p,
           call' = [call EXCEPT ![c].pc = p], p = "scrub" => call[c].confirmed
    PROVE  CallShape' /\ ConfirmedGone'
<1>1. Shape(call[c]) /\ call[c].confirmed \in BOOLEAN
  BY DEF CallShape, Shape
<1> DEFINE r == [call[c] EXCEPT !.pc = p]
<1>2. Shape(r) /\ r.pc = p /\ r.todo = call[c].todo /\ r.confirmed = call[c].confirmed
  BY <1>1, MovedFields
<1>3. call' = [call EXCEPT ![c] = r]
  OBVIOUS
<1> HIDE DEF r
<1>4. \A i \in Items : r.confirmed /\ Head(r.todo) = i => ~item'[i].live
  BY <1>2 DEF ConfirmedGone, LiveFalls, Current
<1>5. QED
  BY <1>1, <1>2, <1>3, <1>4, CallWritten

\* An invocation reads its item, keeping its claim.
LEMMA CallReads ==
    ASSUME CallShape, ConfirmedGone, LiveFalls, NEW c \in Callers, NEW t,
           call' = [call EXCEPT ![c].pc = "remove", ![c].token = t]
    PROVE  CallShape' /\ ConfirmedGone'
<1>1. Shape(call[c]) /\ call[c].confirmed \in BOOLEAN
  BY DEF CallShape, Shape
<1> DEFINE q == [call[c] EXCEPT !.pc = "remove"]
           r == [q EXCEPT !.token = t]
<1>2. call' = [call EXCEPT ![c] = r]
  OBVIOUS
<1>3. Shape(q) /\ q.pc = "remove" /\ q.todo = call[c].todo /\ q.confirmed = call[c].confirmed
  BY <1>1, MovedFields
<1> HIDE DEF q
<1>4. Shape(r) /\ r.pc = "remove" /\ r.todo = call[c].todo /\ r.confirmed = call[c].confirmed
  BY <1>3, TokenFields
<1> HIDE DEF r
<1>5. \A i \in Items : r.confirmed /\ Head(r.todo) = i => ~item'[i].live
  BY <1>4 DEF ConfirmedGone, LiveFalls, Current
<1>6. QED
  BY <1>1, <1>2, <1>4, <1>5, CallWritten

\* An invocation takes the answer of Plaid; what it takes for confirmed is.
LEMMA CallAnswered ==
    ASSUME CallShape, ConfirmedGone, LiveFalls, NEW c \in Callers, NEW b \in BOOLEAN,
           Answered(c, b), \A i \in Items : b /\ Current(c) = i => ~item'[i].live
    PROVE  CallShape' /\ ConfirmedGone'
<1>1. Shape(call[c])
  BY DEF CallShape, Shape
<1> DEFINE p == [call[c] EXCEPT !.pc = "revoke"]
           q == [p EXCEPT !.token = FALSE]
           r == [q EXCEPT !.confirmed = b]
<1>2. call' = [call EXCEPT ![c] = r]
  BY DEF Answered
<1>3. Shape(p) /\ p.pc = "revoke" /\ p.todo = call[c].todo
  BY <1>1, MovedFields
<1> HIDE DEF p
<1>4. Shape(q) /\ q.pc = "revoke" /\ q.todo = call[c].todo
  BY <1>3, TokenFields
<1> HIDE DEF q
<1>5. Shape(r) /\ r.pc = "revoke" /\ r.todo = call[c].todo /\ r.confirmed = b
  BY <1>4, ClaimFields
<1> HIDE DEF r
<1>6. \A i \in Items : r.confirmed /\ Head(r.todo) = i => ~item'[i].live
  BY <1>5 DEF Current
<1>7. QED
  BY <1>2, <1>5, <1>6, CallWritten

-----------------------------------------------------------------------------
(* Every step of the items *)

\* What a step shows of the items it leaves.
ItemsKept == ItemTyped' /\ LiveFalls /\ CredentialKept'

\* Steps that leave the items alone.
LEMMA ItemsAlone == ASSUME CredentialInv, item' = item PROVE ItemsKept
BY DEF CredentialInv, ItemsKept, ItemTyped, LiveFalls, CredentialKept, Rows

\* Steps that change one item, for the better or leaving its token.
LEMMA ItemChanged ==
    ASSUME CredentialInv, NEW i, NEW new, item' = [item EXCEPT ![i] = new],
           i \in Items => /\ new \in Rows
                          /\ new.live => item[i].live
                          /\ new.live /\ new.status # "gone" => new.token
    PROVE  ItemsKept
<1>1. item \in [Items -> Rows]
  BY DEF CredentialInv, ItemTyped
<1>2. /\ item' \in [Items -> Rows]
      /\ \A j \in Items : j # i => item'[j] = item[j]
      /\ i \in Items => item'[i] = new
  BY <1>1
<1>3. QED
  BY <1>1, <1>2 DEF CredentialInv, ItemsKept, ItemTyped, LiveFalls, CredentialKept, Rows

\* The single fields a step may write.
LEMMA ItemFields ==
    ASSUME CredentialInv, NEW i, NEW s \in Statuses
    PROVE  /\ item' = [item EXCEPT ![i].live = FALSE] => ItemsKept
           /\ item' = [item EXCEPT ![i].linked = FALSE] => ItemsKept
           /\ item' = [item EXCEPT ![i].linked = TRUE] => ItemsKept
           /\ item' = [item EXCEPT ![i].token = TRUE] => ItemsKept
           /\ item' = [item EXCEPT ![i].status = s] /\ (i \in Items => item[i].status # "gone")
                => ItemsKept
           /\ item' = [item EXCEPT ![i].token = FALSE] /\ (i \in Items => ~item[i].live)
                => ItemsKept
<1>1. /\ item \in [Items -> Rows]
      /\ \A j \in Items : item[j].live /\ item[j].status # "gone" => item[j].token
  BY DEF CredentialInv, ItemTyped, CredentialKept
<1>2. i \in Items => item[i] \in Rows
  BY <1>1
<1>3. ASSUME item' = [item EXCEPT ![i].live = FALSE] PROVE ItemsKept
  BY <1>1, <1>2, <1>3, ItemChanged DEF Rows
<1>4. ASSUME item' = [item EXCEPT ![i].linked = FALSE] PROVE ItemsKept
  BY <1>1, <1>2, <1>4, ItemChanged DEF Rows
<1>5. ASSUME item' = [item EXCEPT ![i].linked = TRUE] PROVE ItemsKept
  BY <1>1, <1>2, <1>5, ItemChanged DEF Rows
<1>6. ASSUME item' = [item EXCEPT ![i].token = TRUE] PROVE ItemsKept
  BY <1>1, <1>2, <1>6, ItemChanged DEF Rows
<1>7. ASSUME item' = [item EXCEPT ![i].status = s], i \in Items => item[i].status # "gone"
      PROVE  ItemsKept
  BY <1>1, <1>2, <1>7, ItemChanged DEF Rows
<1>8. ASSUME item' = [item EXCEPT ![i].token = FALSE], i \in Items => ~item[i].live PROVE ItemsKept
  BY <1>1, <1>2, <1>8, ItemChanged DEF Rows
<1>9. QED
  BY <1>3, <1>4, <1>5, <1>6, <1>7, <1>8

-----------------------------------------------------------------------------
(* The steps *)

\* What every step shows.
Kept == CredentialInv' /\ LiveFalls

\* The items and the invocations make the invariant.
LEMMA Halves ==
    ASSUME ItemsKept, CallShape', ConfirmedGone' PROVE Kept
BY DEF ItemsKept, CredentialInv, Kept

\* A step that leaves the invocations alone.
LEMMA CallsAlone ==
    ASSUME CredentialInv, ItemsKept, call' = call PROVE Kept
<1>1. CallShape' /\ ConfirmedGone'
  BY DEF CredentialInv, ItemsKept, CallShape, ConfirmedGone, LiveFalls, Current, At
<1>2. QED
  BY <1>1, Halves

\* An invocation starts, ends, or goes on to its next item.
LEMMA CallTakesUp ==
    ASSUME CredentialInv, ItemsKept, NEW c \in Callers,
           \/ Done(c)
           \/ call' = [call EXCEPT ![c] = NoCall]
           \/ \E items, job : Takes(c, items, job)
    PROVE  Kept
<1>1. \E r : Quiet(r) /\ call' = [call EXCEPT ![c] = r]
  <2>1. CASE Done(c)
    BY <2>1, NextItemQuiet DEF Done
  <2>2. CASE call' = [call EXCEPT ![c] = NoCall]
    BY <2>2, NextItemQuiet
  <2>3. ASSUME NEW items, NEW job, Takes(c, items, job)
        PROVE  \E r : Quiet(r) /\ call' = [call EXCEPT ![c] = r]
    BY <2>3, TakesQuiet DEF Takes
  <2>4. QED
    BY <2>1, <2>2, <2>3
<1>2. CallShape /\ ConfirmedGone /\ LiveFalls
  BY DEF CredentialInv, ItemsKept
<1>3. CallShape' /\ ConfirmedGone'
  BY <1>1, <1>2, CallsKept
<1>4. QED
  BY <1>3, Halves

\* An invocation moves on with its claim, to a scrub only if it has one.
LEMMA CallGoesOn ==
    ASSUME CredentialInv, ItemsKept, NEW c \in Callers, NEW p, Goto(c, p),
           p = "scrub" => call[c].confirmed
    PROVE  Kept
<1>1. CallShape /\ ConfirmedGone /\ LiveFalls
  BY DEF CredentialInv, ItemsKept
<1>2. call' = [call EXCEPT ![c].pc = p]
  BY DEF Goto
<1>3. CallShape' /\ ConfirmedGone'
  BY <1>1, <1>2, CallMoved
<1>4. QED
  BY <1>3, Halves

\* Asking Plaid: only a call that Plaid answered is taken for confirmed.
LEMMA RemoveAtPlaidKeeps ==
    ASSUME CredentialInv, NEW c \in Callers, RemoveAtPlaid(c) PROVE Kept
<1> DEFINE i == Current(c)
<1>1. CallShape /\ ConfirmedGone /\ ItemTyped /\ "REVOKED" \in Statuses
  BY DEF CredentialInv, Statuses
<1>2. ItemsKept
  <2>1. item' = [item EXCEPT ![i].live = FALSE] \/ item' = item
    BY DEF RemoveAtPlaid
  <2>2. QED
    BY <1>1, <2>1, ItemsAlone, ItemFields
<1>3. LiveFalls
  BY <1>2 DEF ItemsKept
<1>4. PICK b \in BOOLEAN : Answered(c, b) /\ (b => item' = [item EXCEPT ![i].live = FALSE])
  BY DEF RemoveAtPlaid
<1>5. \A j \in Items : b /\ Current(c) = j => ~item'[j].live
  BY <1>1, <1>4 DEF ItemTyped, Rows
<1>6. CallShape' /\ ConfirmedGone'
  BY <1>1, <1>3, <1>4, <1>5, CallAnswered
<1>7. QED
  BY <1>2, <1>6, Halves

\* The steps of disconnectPlaidItemIfOrphaned.
LEMMA RemovalStepKeeps ==
    ASSUME CredentialInv, NEW c \in Callers, RemovalStep(c) PROVE Kept
<1> DEFINE i == Current(c)
<1>1. CallShape /\ ConfirmedGone /\ "REVOKED" \in Statuses
  BY DEF CredentialInv, Statuses
<1>2. CASE CountConnections(c)
  <2>1. ItemsKept
    BY <1>2, ItemsAlone DEF CountConnections
  <2>2. Done(c) \/ Goto(c, "read")
    BY <1>2 DEF CountConnections
  <2>3. QED
    BY <2>1, <2>2, CallTakesUp, CallGoesOn
<1>3. CASE ReadItem(c)
  <2>1. ItemsKept
    BY <1>3, ItemsAlone DEF ReadItem
  <2>2. CASE Done(c)
    BY <2>1, <2>2, CallTakesUp
  <2>3. CASE call' = [call EXCEPT ![c].pc = "remove", ![c].token = item[i].token]
    <3>1. LiveFalls
      BY <2>1 DEF ItemsKept
    <3>2. CallShape' /\ ConfirmedGone'
      BY <1>1, <2>3, <3>1, CallReads
    <3>3. QED
      BY <2>1, <3>2, Halves
  <2>4. QED
    BY <1>3, <2>2, <2>3 DEF ReadItem
<1>4. CASE RemoveAtPlaid(c)
  BY <1>4, RemoveAtPlaidKeeps
<1>5. CASE Revoke(c)
  <2>1. \/ item' = item
        \/ item' = [item EXCEPT ![i].status = "REVOKED"] /\ item[i].status # "gone"
    BY <1>5 DEF Revoke
  <2>2. ItemsKept
    BY <1>1, <2>1, ItemsAlone, ItemFields
  <2>3. Done(c) \/ Goto(c, AfterRevoke(c))
    BY <1>5 DEF Revoke
  <2>4. AfterRevoke(c) = "scrub" => call[c].confirmed
    BY DEF AfterRevoke
  <2>5. QED
    BY <2>2, <2>3, <2>4, CallTakesUp, CallGoesOn
<1>6. CASE Scrub(c)
  <2>1. item' = item \/ item' = [item EXCEPT ![i].token = FALSE]
    BY <1>6 DEF Scrub
  <2>2. i \in Items => ~item[i].live
    BY <1>1, <1>6 DEF Scrub, ConfirmedGone
  <2>3. ItemsKept
    BY <1>1, <2>1, <2>2, ItemsAlone, ItemFields
  <2>4. Goto(c, "mark")
    BY <1>6 DEF Scrub
  <2>5. QED
    BY <2>3, <2>4, CallGoesOn
<1>7. CASE Mark(c)
  <2>1. ItemsKept
    BY <1>7, ItemsAlone DEF Mark
  <2>2. QED
    BY <1>7, <2>1, CallTakesUp DEF Mark
<1>8. QED
  BY <1>2, <1>3, <1>4, <1>5, <1>6, <1>7 DEF RemovalStep

\* The steps that start or end an invocation.
LEMMA RequestKeeps ==
    ASSUME CredentialInv, NEW c \in Callers,
           \/ StartRetry(c) \/ KillCaller(c)
           \/ \E i \in Items : RemoveAccounts(c, i) \/ OperatorRetry(c, i)
    PROVE  Kept
<1>1. "REVOKED" \in Statuses
  BY DEF Statuses
<1>2. CASE StartRetry(c)
  <2>1. item' = item /\ \E items, job : Takes(c, items, job)
    BY <1>2 DEF StartRetry
  <2>2. QED
    BY <2>1, ItemsAlone, CallTakesUp
<1>3. CASE KillCaller(c)
  <2>1. item' = item /\ call' = [call EXCEPT ![c] = NoCall]
    BY <1>3 DEF KillCaller
  <2>2. QED
    BY <2>1, ItemsAlone, CallTakesUp
<1>4. ASSUME NEW i \in Items, RemoveAccounts(c, i) PROVE Kept
  <2>1. item' = [item EXCEPT ![i].linked = FALSE] /\ \E items, job : Takes(c, items, job)
    BY <1>4 DEF RemoveAccounts
  <2>2. ItemsKept
    BY <1>1, <2>1, ItemFields
  <2>3. QED
    BY <2>1, <2>2, CallTakesUp
<1>5. ASSUME NEW i \in Items, OperatorRetry(c, i) PROVE Kept
  <2>1. item' = item /\ \E items, job : Takes(c, items, job)
    BY <1>5 DEF OperatorRetry
  <2>2. QED
    BY <2>1, ItemsAlone, CallTakesUp
<1>6. QED
  BY <1>2, <1>3, <1>4, <1>5

\* The steps of those who undo a removal, and of health reports.
LEMMA UndoKeeps ==
    ASSUME CredentialInv, NEW i \in Items,
           RelinkExchanges(i) \/ RelinkStep(i) \/ Restore(i) \/ HealthReported(i) \/ LateReport(i)
    PROVE  Kept
<1>1. "REVOKED" \in Statuses /\ "ACTIVE" \in Statuses
  BY DEF Statuses
<1>2. CASE RelinkExchanges(i)
  BY <1>2, ItemsAlone, CallsAlone DEF RelinkExchanges
<1>3. CASE RelinkStores(i)
  <2>1. item' = [item EXCEPT ![i].token = TRUE] /\ call' = call
    BY <1>3 DEF RelinkStores
  <2>2. QED
    BY <1>1, <2>1, ItemFields, CallsAlone
<1>4. CASE RelinkActivates(i)
  <2>1. item' = [item EXCEPT ![i].status = "ACTIVE"] /\ item[i].status # "gone" /\ call' = call
    BY <1>4 DEF RelinkActivates
  <2>2. QED
    BY <1>1, <2>1, ItemFields, CallsAlone
<1>5. CASE RelinkConnects(i)
  <2>1. (item' = [item EXCEPT ![i].linked = TRUE] \/ item' = item) /\ call' = call
    BY <1>5 DEF RelinkConnects
  <2>2. QED
    BY <1>1, <2>1, ItemFields, ItemsAlone, CallsAlone
<1>6. CASE RelinkFails(i)
  BY <1>6, ItemsAlone, CallsAlone DEF RelinkFails
<1>7. CASE Restore(i)
  <2>1. item' = [item EXCEPT ![i].linked = TRUE] /\ call' = call
    BY <1>7 DEF Restore
  <2>2. QED
    BY <1>1, <2>1, ItemFields, CallsAlone
<1>8. CASE HealthReported(i)
  <2>1. PICK s \in {"ACTIVE", "NEEDS_REAUTH", "REVOKED"} : item' = [item EXCEPT ![i].status = s]
    BY <1>8 DEF HealthReported
  <2>2. s \in Statuses /\ item[i].status # "gone" /\ call' = call
    BY <1>8 DEF HealthReported, Statuses
  <2>3. QED
    BY <2>1, <2>2, ItemFields, CallsAlone
<1>9. CASE LateReport(i)
  <2>1. PICK s \in {"ACTIVE", "NEEDS_REAUTH"} : item' = [item EXCEPT ![i].status = s]
    BY <1>9 DEF LateReport
  <2>2. s \in Statuses /\ item[i].status # "gone" /\ call' = call
    BY <1>9 DEF LateReport, Statuses
  <2>3. QED
    BY <2>1, <2>2, ItemFields, CallsAlone
<1>10. QED
  BY <1>2, <1>3, <1>4, <1>5, <1>6, <1>7, <1>8, <1>9 DEF RelinkStep

\* The invariant holds at first.
LEMMA InitCredentialInv == RemovalInit => CredentialInv
<1> SUFFICES ASSUME RemovalInit PROVE CredentialInv
  OBVIOUS
<1>1. ItemTyped /\ CredentialKept
  BY DEF RemovalInit, ItemTyped, CredentialKept, Statuses, Rows
<1>2. CallShape
  BY DEF RemovalInit, CallShape, NoCall
<1>3. ConfirmedGone
  BY DEF RemovalInit, ConfirmedGone, At, NoCall
<1>4. QED
  BY <1>1, <1>2, <1>3 DEF CredentialInv

\* Every step keeps it, and brings no item back.
LEMMA NextCredentialInv == CredentialInv /\ [RemovalNext]_removalVars => Kept
<1> SUFFICES ASSUME CredentialInv, [RemovalNext]_removalVars PROVE Kept
  OBVIOUS
<1>1. CASE UNCHANGED removalVars
  BY <1>1, ItemsAlone, CallsAlone DEF removalVars
<1>2. ASSUME NEW c \in Callers,
             \/ StartRetry(c) \/ RemovalStep(c) \/ KillCaller(c)
             \/ \E i \in Items : RemoveAccounts(c, i) \/ OperatorRetry(c, i)
      PROVE  Kept
  BY <1>2, RemovalStepKeeps, RequestKeeps
<1>3. ASSUME NEW i \in Items,
             RelinkExchanges(i) \/ RelinkStep(i) \/ Restore(i) \/ HealthReported(i) \/ LateReport(i)
      PROVE  Kept
  BY <1>3, UndoKeeps
<1>4. QED
  BY <1>1, <1>2, <1>3 DEF RemovalNext

\* The credential of an item outlives everything but its confirmed removal at
\* Plaid (disconnect.ts:129-142), whatever overlaps, dies or is relinked.
THEOREM CredentialIsKept == RemovalSpec => []CredentialKept
<1>1. CredentialInv => CredentialKept
  BY DEF CredentialInv
<1>2. QED
  BY <1>1, InitCredentialInv, NextCredentialInv, PTL DEF RemovalSpec, Kept

-----------------------------------------------------------------------------
(* Lists of items *)

\* What a list holds with one more entry.
LEMMA Appended ==
    ASSUME NEW S, NEW s \in Seq(S), NEW e \in S
    PROVE  /\ Append(s, e) \in Seq(S)
           /\ Contains(Append(s, e), e)
           /\ \A x : Contains(s, x) => Contains(Append(s, e), x)
           /\ IsInjective(s) /\ ~Contains(s, e) => IsInjective(Append(s, e))
<1>1. /\ Append(s, e) \in Seq(S) /\ Len(Append(s, e)) = Len(s) + 1 /\ Len(s) \in Nat
      /\ Append(s, e)[Len(s) + 1] = e
      /\ \A n \in 1..Len(s) : Append(s, e)[n] = s[n]
      /\ DOMAIN Append(s, e) = 1..(Len(s) + 1) /\ DOMAIN s = 1..Len(s)
  OBVIOUS
<1>2. Contains(Append(s, e), e)
  BY <1>1 DEF Contains
<1>3. \A x : Contains(s, x) => Contains(Append(s, e), x)
  BY <1>1 DEF Contains
<1>4. ASSUME IsInjective(s), ~Contains(s, e) PROVE IsInjective(Append(s, e))
  <2>1. SUFFICES ASSUME NEW a \in 1..(Len(s) + 1), NEW b \in 1..(Len(s) + 1),
                        Append(s, e)[a] = Append(s, e)[b]
                 PROVE  a = b
    BY <1>1 DEF IsInjective
  <2>2. \A n \in 1..Len(s) : s[n] # e
    BY <1>4 DEF Contains
  <2>3. \A m, n \in 1..Len(s) : s[m] = s[n] => m = n
    BY <1>1, <1>4 DEF IsInjective
  <2>4. QED
    BY <1>1, <2>1, <2>2, <2>3
<1>5. QED
  BY <1>1, <1>2, <1>3, <1>4

\* What it holds without the entry at one place.
LEMMA WithoutOne ==
    ASSUME NEW S, NEW s \in Seq(S), NEW n \in DOMAIN s
    PROVE  /\ RemoveAt(s, n) \in Seq(S)
           /\ \A x : Contains(s, x) /\ x # s[n] => Contains(RemoveAt(s, n), x)
           /\ IsInjective(s) => IsInjective(RemoveAt(s, n))
<1> DEFINE r == RemoveAt(s, n)
<1>1. Len(s) \in Nat /\ DOMAIN s = 1..Len(s) /\ n \in 1..Len(s)
  OBVIOUS
<1>2. /\ SubSeq(s, 1, n - 1) \in Seq(S) /\ Len(SubSeq(s, 1, n - 1)) = n - 1
      /\ \A k \in 1..(n - 1) : SubSeq(s, 1, n - 1)[k] = s[k]
  BY <1>1
<1>3. /\ SubSeq(s, n + 1, Len(s)) \in Seq(S) /\ Len(SubSeq(s, n + 1, Len(s))) = Len(s) - n
      /\ \A k \in 1..(Len(s) - n) : SubSeq(s, n + 1, Len(s))[k] = s[n + k]
  BY <1>1
<1> DEFINE front == SubSeq(s, 1, n - 1)
           back == SubSeq(s, n + 1, Len(s))
<1>4. r = front \o back
  BY DEF RemoveAt
<1> HIDE DEF r, front, back
<1>5. /\ r \in Seq(S) /\ Len(r) = Len(s) - 1 /\ DOMAIN r = 1..(Len(s) - 1)
      /\ \A k \in 1..(n - 1) : r[k] = s[k]
      /\ \A k \in n..(Len(s) - 1) : r[k] = s[k + 1]
  <2>1. front \in Seq(S) /\ back \in Seq(S) /\ Len(front) = n - 1 /\ Len(back) = Len(s) - n
    BY <1>2, <1>3 DEF front, back
  <2>2. r \in Seq(S) /\ Len(r) = Len(s) - 1 /\ DOMAIN r = 1..(Len(s) - 1)
    <3>1. r \in Seq(S) /\ Len(r) = Len(front) + Len(back)
      BY <1>4, <2>1
    <3>2. (n - 1) + (Len(s) - n) = Len(s) - 1
      BY <1>1
    <3>3. Len(r) = Len(s) - 1
      BY <2>1, <3>1, <3>2
    <3>4. DOMAIN r = 1..Len(r)
      BY <3>1
    <3>5. QED
      BY <3>1, <3>3, <3>4
  <2>3. ASSUME NEW k \in 1..(n - 1) PROVE r[k] = s[k]
    BY <1>1, <1>2, <1>4, <2>1 DEF front
  <2>4. ASSUME NEW k \in n..(Len(s) - 1) PROVE r[k] = s[k + 1]
    <3>1. r[k] = back[k - (n - 1)]
      BY <1>1, <1>4, <2>1
    <3>2. k - (n - 1) \in 1..(Len(s) - n) /\ n + (k - (n - 1)) = k + 1
      BY <1>1
    <3>3. QED
      BY <1>3, <3>1, <3>2 DEF back
  <2>5. QED
    BY <2>2, <2>3, <2>4
<1>6. ASSUME NEW x, Contains(s, x), x # s[n] PROVE Contains(r, x)
  <2>1. PICK k \in 1..Len(s) : s[k] = x
    BY <1>6 DEF Contains
  <2>2. CASE k < n
    <3>1. k \in 1..(n - 1) /\ k \in 1..Len(r)
      BY <1>1, <1>5, <2>2
    <3>2. QED
      BY <1>5, <2>1, <3>1 DEF Contains
  <2>3. CASE k > n
    <3>1. k - 1 \in n..(Len(s) - 1) /\ k - 1 \in 1..Len(r) /\ (k - 1) + 1 = k
      BY <1>1, <1>5, <2>3
    <3>2. QED
      BY <1>5, <2>1, <3>1 DEF Contains
  <2>4. QED
    BY <1>1, <1>6, <2>1, <2>2, <2>3
<1>7. ASSUME IsInjective(s) PROVE IsInjective(r)
  <2>1. \A j, k \in 1..Len(s) : s[j] = s[k] => j = k
    BY <1>1, <1>7 DEF IsInjective
  <2>2. ASSUME NEW j \in 1..(Len(s) - 1), NEW k \in 1..(Len(s) - 1), r[j] = r[k] PROVE j = k
    <3>1. \A m \in 1..(Len(s) - 1) :
            \E p \in 1..Len(s) : r[m] = s[p] /\ ((m < n /\ p = m) \/ (m >= n /\ p = m + 1))
      <4> TAKE m \in 1..(Len(s) - 1)
      <4>1. CASE m < n
        <5>1. m \in 1..(n - 1) /\ m \in 1..Len(s)
          BY <1>1, <4>1
        <5>2. QED
          BY <1>5, <4>1, <5>1
      <4>2. CASE m >= n
        <5>1. m \in n..(Len(s) - 1) /\ m + 1 \in 1..Len(s)
          BY <1>1, <4>2
        <5>2. QED
          BY <1>5, <4>2, <5>1
      <4>3. QED
        BY <1>1, <4>1, <4>2
    <3>2. PICK p \in 1..Len(s) : r[j] = s[p] /\ ((j < n /\ p = j) \/ (j >= n /\ p = j + 1))
      BY <3>1
    <3>3. PICK q \in 1..Len(s) : r[k] = s[q] /\ ((k < n /\ q = k) \/ (k >= n /\ q = k + 1))
      BY <3>1
    <3>4. p = q
      BY <2>1, <2>2, <3>2, <3>3
    <3>5. QED
      BY <1>1, <3>2, <3>3, <3>4
  <2>3. QED
    BY <1>5, <2>2 DEF IsInjective
<1>8. QED
  BY <1>5, <1>6, <1>7 DEF r

\* What it holds without its first entry.
LEMMA WithoutFirst ==
    ASSUME NEW S, NEW s \in Seq(S), s # <<>>
    PROVE  /\ Head(s) \in S /\ Tail(s) \in Seq(S)
           /\ \A x : Contains(s, x) /\ x # Head(s) => Contains(Tail(s), x)
           /\ IsInjective(s) =>
                /\ IsInjective(Tail(s))
                /\ \A x : Contains(Tail(s), x) => Contains(s, x) /\ x # Head(s)
<1>1. /\ Head(s) = s[1] /\ Head(s) \in S /\ Tail(s) \in Seq(S) /\ Len(s) \in Nat
      /\ Len(Tail(s)) = Len(s) - 1 /\ DOMAIN s = 1..Len(s) /\ DOMAIN Tail(s) = 1..(Len(s) - 1)
      /\ \A n \in 1..(Len(s) - 1) : Tail(s)[n] = s[n + 1]
  OBVIOUS
<1>2. ASSUME NEW x, Contains(s, x), x # Head(s) PROVE Contains(Tail(s), x)
  <2>1. PICK n \in 1..Len(s) : s[n] = x
    BY <1>2 DEF Contains
  <2>2. n - 1 \in 1..(Len(s) - 1) /\ (n - 1) + 1 = n
    BY <1>1, <1>2, <2>1
  <2>3. QED
    BY <1>1, <2>1, <2>2 DEF Contains
<1>3. ASSUME IsInjective(s) PROVE IsInjective(Tail(s))
  <2>1. \A j, k \in 1..Len(s) : s[j] = s[k] => j = k
    BY <1>1, <1>3 DEF IsInjective
  <2>2. ASSUME NEW j \in 1..(Len(s) - 1), NEW k \in 1..(Len(s) - 1), Tail(s)[j] = Tail(s)[k]
        PROVE  j = k
    <3>1. s[j + 1] = s[k + 1] /\ j + 1 \in 1..Len(s) /\ k + 1 \in 1..Len(s)
      BY <1>1, <2>2
    <3>2. j + 1 = k + 1
      BY <2>1, <3>1
    <3>3. QED
      BY <3>2
  <2>3. QED
    BY <1>1, <2>2 DEF IsInjective
<1>4. ASSUME IsInjective(s), NEW x, Contains(Tail(s), x) PROVE Contains(s, x) /\ x # Head(s)
  <2>1. PICK n \in 1..(Len(s) - 1) : Tail(s)[n] = x
    BY <1>1, <1>4 DEF Contains
  <2>2. s[n + 1] = x /\ n + 1 \in 1..Len(s) /\ n + 1 # 1 /\ 1 \in 1..Len(s)
    BY <1>1, <2>1
  <2>3. s[n + 1] # s[1]
    BY <1>1, <1>4, <2>2 DEF IsInjective
  <2>4. QED
    BY <1>1, <2>2, <2>3 DEF Contains
<1>5. QED
  BY <1>1, <1>2, <1>3, <1>4

\* A list of one.
LEMMA JustOne ==
    ASSUME NEW S, NEW e \in S
    PROVE  /\ <<e>> \in Seq(S) /\ <<e>> # <<>> /\ IsInjective(<<e>>)
           /\ Contains(<<e>>, e) /\ \A x : Contains(<<e>>, x) => x = Head(<<e>>)
BY DEF Contains, IsInjective

\* What is picked from a list at places in order is a list without duplicates.
LEMMA Picked ==
    ASSUME NEW S, NEW s \in Seq(S), IsInjective(s), NEW P \in SUBSET DOMAIN s, P # {},
           NEW places \in SetToSeqs(P), NEW t, t = [n \in DOMAIN places |-> s[places[n]]]
    PROVE  /\ t \in Seq(S) /\ t # <<>> /\ IsInjective(t)
           /\ \A x : Contains(t, x) => Contains(s, x)
<1>1. DOMAIN s = 1..Len(s) /\ Len(s) \in Nat /\ \A n \in DOMAIN s : s[n] \in S
  OBVIOUS
<1>2. IsFiniteSet(P)
  <2>1. IsFiniteSet(DOMAIN s)
    BY <1>1, FS_Interval
  <2>2. QED
    BY <2>1, FS_Subset
<1>3. Cardinality(P) \in Nat /\ Cardinality(P) # 0
  BY <1>2, FS_CardinalityType, FS_EmptySet
<1>4. /\ places \in [1..Cardinality(P) -> P]
      /\ \A j, k \in 1..Cardinality(P) : j # k => places[j] # places[k]
  BY DEF SetToSeqs
<1> DEFINE N == Cardinality(P)
<1> HIDE DEF N
<1>5. t \in [1..N -> S] /\ N \in Nat /\ N # 0 /\ places \in [1..N -> DOMAIN s]
  BY <1>1, <1>3, <1>4 DEF N
<1>6. t \in Seq(S) /\ t # <<>>
  BY <1>5
<1>7. IsInjective(t)
  <2>1. \A j, k \in DOMAIN s : s[j] = s[k] => j = k
    BY DEF IsInjective
  <2>2. \A j, k \in 1..N : places[j] = places[k] => j = k
    BY <1>4 DEF N
  <2>3. DOMAIN t = 1..N /\ \A j \in 1..N : t[j] = s[places[j]] /\ places[j] \in DOMAIN s
    BY <1>5
  <2>4. QED
    BY <2>1, <2>2, <2>3 DEF IsInjective
<1>8. ASSUME NEW x, Contains(t, x) PROVE Contains(s, x)
  <2>1. PICK n \in 1..N : t[n] = x
    BY <1>5, <1>8 DEF Contains
  <2>2. places[n] \in 1..Len(s) /\ s[places[n]] = x
    BY <1>1, <1>5, <2>1
  <2>3. QED
    BY <2>2 DEF Contains
<1>9. QED
  BY <1>6, <1>7, <1>8

-----------------------------------------------------------------------------
(* What is owed *)

Calls == [pc : Pcs, job : BOOLEAN, todo : Seq(Items), token : BOOLEAN, confirmed : BOOLEAN]
Orderly(r) == IsInjective(r.todo) /\ (r.todo = <<>>) = (r.pc = "idle")

ListsTyped ==
    /\ owed \in Seq(Items) /\ IsInjective(owed)
    /\ call \in [Callers -> Calls]
    /\ \A c \in Callers : Orderly(call[c])

CountsTyped ==
    /\ relink \in [Items -> {"off", "exchanged", "stored", "active"}]
    /\ undone \in 0..MaxUndone
    /\ unmarked \subseteq Items
    /\ faults \in 0..MaxFaults

\* An item that is alive at Plaid and that no account needs.
Loose(i) == item[i].live /\ ~item[i].linked /\ item[i].status # "gone"

\* What answers for it.
AnsweredFor(i) == Contains(owed, i) \/ AtWork(i) \/ i \in unmarked

\* Whatever its status: a health report may revoke an item that its last
\* account has left.
Unforgotten == \A i \in Items : Loose(i) => AnsweredFor(i)

\* What a list holds beyond the current item is owed, or gone at Plaid: nothing
\* is lost with the list.
QueuedOwed ==
    \A c \in Callers, i \in Items :
        Contains(call[c].todo, i) /\ i # Current(c) /\ item[i].live => Contains(owed, i)

RemovalInv == CredentialInv /\ ListsTyped /\ CountsTyped /\ Unforgotten /\ QueuedOwed

-----------------------------------------------------------------------------
\* An invocation that goes on with its list.
LEMMA GoesOn ==
    ASSUME NEW r \in Calls, Orderly(r), r.pc # "idle", NEW q,
           \E p \in Pcs \ {"idle"}, t \in BOOLEAN, b \in BOOLEAN :
               \/ q = [r EXCEPT !.pc = p]
               \/ q = [r EXCEPT !.pc = p, !.token = t]
               \/ q = [r EXCEPT !.pc = p, !.token = t, !.confirmed = b]
    PROVE  q \in Calls /\ Orderly(q) /\ q.todo = r.todo
BY DEF Calls, Orderly

\* An invocation that takes up a list.
LEMMA TakesList ==
    ASSUME NEW items \in Seq(Items), items # <<>>, IsInjective(items), NEW job \in BOOLEAN
    PROVE  /\ CallFor(items, job) \in Calls /\ Orderly(CallFor(items, job))
           /\ CallFor(items, job).todo = items
BY DEF CallFor, Calls, Orderly, Pcs

\* One that has nothing to do.
LEMMA NothingToDo ==
    NoCall \in Calls /\ Orderly(NoCall) /\ NoCall.todo = <<>> /\ \A i : ~Contains(<<>>, i)
BY DEF NoCall, Calls, Orderly, Pcs, IsInjective, Contains

\* One that goes on to its next item leaves only the current one behind.
LEMMA NextInList ==
    ASSUME ListsTyped, NEW c \in Callers, ~At(c, "idle")
    PROVE  /\ Current(c) \in Items
           /\ NextItem(c) \in Calls /\ Orderly(NextItem(c))
           /\ \A i : Contains(call[c].todo, i) /\ i # Current(c) <=> Contains(NextItem(c).todo, i)
<1> DEFINE todo == call[c].todo
           rest == Tail(todo)
<1>1. todo \in Seq(Items) /\ todo # <<>> /\ IsInjective(todo) /\ call[c].job \in BOOLEAN
  BY DEF ListsTyped, Calls, Orderly, At
<1> HIDE DEF todo
<1>2. /\ Head(todo) \in Items /\ rest \in Seq(Items) /\ IsInjective(rest)
      /\ \A i : Contains(todo, i) /\ i # Head(todo) <=> Contains(rest, i)
  BY <1>1, WithoutFirst
<1> HIDE DEF rest
<1>3. Current(c) = Head(todo)
  BY DEF Current, todo
<1>4. CASE rest = <<>>
  <2>1. NextItem(c) = NoCall
    BY <1>4 DEF NextItem, rest, todo
  <2>2. QED
    BY <1>2, <1>3, <1>4, <2>1, NothingToDo DEF todo
<1>5. CASE rest # <<>>
  <2>1. NextItem(c) = CallFor(rest, call[c].job)
    BY <1>5 DEF NextItem, rest, todo
  <2>2. QED
    BY <1>1, <1>2, <1>3, <1>5, <2>1, TakesList DEF todo
<1>6. QED
  BY <1>4, <1>5

\* A step of one invocation.
LEMMA OneCallMoves ==
    ASSUME RemovalInv, Kept, CountsTyped', NEW c \in Callers, NEW r \in Calls, Orderly(r),
           call' = [call EXCEPT ![c] = r],
           owed' \in Seq(Items), IsInjective(owed'), unmarked \subseteq unmarked',
           \A i \in Items : Loose(i)' => Loose(i) \/ Contains(r.todo, i),
           \A i \in Items : item'[i].live /\ Contains(owed, i) => Contains(owed', i),
           \A i \in Items : Loose(i)' /\ Contains(call[c].todo, i) =>
               Contains(r.todo, i) \/ Contains(owed', i) \/ i \in unmarked',
           \A i \in Items : Contains(r.todo, i) /\ i # Head(r.todo) =>
               Contains(owed', i) \/ (Contains(call[c].todo, i) /\ i # Current(c))
    PROVE  RemovalInv'
<1>1. /\ call' \in [Callers -> Calls] /\ call'[c] = r
      /\ \A d \in Callers \ {c} : call'[d] = call[d]
  BY DEF RemovalInv, ListsTyped
<1>2. ListsTyped'
  BY <1>1 DEF RemovalInv, ListsTyped
<1>3. Unforgotten'
  <2>1. SUFFICES ASSUME NEW i \in Items, Loose(i)' PROVE AnsweredFor(i)'
    BY DEF Unforgotten
  <2>2. Loose(i) => Contains(owed, i) \/ AtWork(i) \/ i \in unmarked
    BY DEF RemovalInv, Unforgotten, AnsweredFor
  <2>3. CASE Contains(r.todo, i)
    BY <1>1, <2>3 DEF AnsweredFor, AtWork
  <2>4. CASE Contains(owed, i)
    BY <2>1, <2>4 DEF AnsweredFor, Loose
  <2>5. ASSUME NEW d \in Callers, Contains(call[d].todo, i) PROVE AnsweredFor(i)'
    BY <1>1, <2>1, <2>5 DEF AnsweredFor, AtWork
  <2>6. CASE i \in unmarked
    BY <2>6 DEF AnsweredFor
  <2>7. QED
    BY <2>1, <2>2, <2>3, <2>4, <2>5, <2>6 DEF AtWork
<1>4. QueuedOwed'
  <2>1. SUFFICES ASSUME NEW d \in Callers, NEW i \in Items, Contains(call'[d].todo, i),
                        i # Head(call'[d].todo), item'[i].live
                 PROVE  Contains(owed', i)
    BY DEF QueuedOwed, Current
  <2>2. item[i].live
    BY <2>1 DEF Kept, LiveFalls
  <2>3. \A e \in Callers : Contains(call[e].todo, i) /\ i # Current(e) => Contains(owed, i)
    BY <2>2 DEF RemovalInv, QueuedOwed
  <2>4. QED
    BY <1>1, <2>1, <2>3 DEF Current
<1>5. QED
  BY <1>2, <1>3, <1>4 DEF RemovalInv, Kept

\* A step that leaves the invocations and their lists alone.
LEMMA NoCallMoves ==
    ASSUME RemovalInv, Kept, CountsTyped', UNCHANGED <<owed, call, unmarked>>,
           \A i \in Items : Loose(i)' => Loose(i)
    PROVE  RemovalInv'
<1>1. ListsTyped'
  BY DEF RemovalInv, ListsTyped
<1>2. Unforgotten'
  BY DEF RemovalInv, Unforgotten, AnsweredFor, AtWork
<1>3. QueuedOwed'
  BY DEF RemovalInv, QueuedOwed, Current, Kept, LiveFalls
<1>4. QED
  BY <1>1, <1>2, <1>3 DEF RemovalInv, Kept

\* No step but a removal of accounts makes an item loose.
LEMMA StaysTight ==
    ASSUME CredentialInv, NEW j, NEW s \in Statuses, NEW b \in BOOLEAN,
           \/ item' = item
           \/ item' = [item EXCEPT ![j].live = FALSE]
           \/ item' = [item EXCEPT ![j].linked = TRUE]
           \/ item' = [item EXCEPT ![j].token = b]
           \/ item' = [item EXCEPT ![j].status = s] /\ (j \in Items => item[j].status # "gone")
    PROVE  \A i \in Items : Loose(i)' => Loose(i)
<1>1. item \in [Items -> Rows]
  BY DEF CredentialInv, ItemTyped
<1>2. QED
  BY <1>1 DEF Loose, Rows

\* The fold of one more marker.
LEMMA MarkerFolded ==
    ASSUME ListsTyped, NEW i \in Items, NEW b \in BOOLEAN
    PROVE  /\ OwedAfter(i, b) \in Seq(Items) /\ IsInjective(OwedAfter(i, b))
           /\ \A x : Contains(owed, x) /\ (b => x # i) => Contains(OwedAfter(i, b), x)
           /\ ~b => Contains(OwedAfter(i, b), i)
<1>1. owed \in Seq(Items) /\ IsInjective(owed)
  BY DEF ListsTyped
<1>2. CASE ~b /\ ~Contains(owed, i)
  <2>1. OwedAfter(i, b) = Append(owed, i)
    BY <1>2 DEF OwedAfter
  <2>2. QED
    BY <1>1, <1>2, <2>1, Appended
<1>3. CASE b /\ Contains(owed, i)
  <2>1. OwedAfter(i, b) = RemoveAt(owed, Place(i))
    BY <1>3 DEF OwedAfter
  <2>2. Place(i) \in DOMAIN owed /\ owed[Place(i)] = i
    BY <1>1, <1>3 DEF Place, Contains
  <2>3. QED
    BY <1>1, <1>3, <2>1, <2>2, WithoutOne
<1>4. CASE b = ~Contains(owed, i)
  <2>1. OwedAfter(i, b) = owed
    BY <1>4 DEF OwedAfter
  <2>2. QED
    BY <1>1, <1>4, <2>1
<1>5. QED
  BY <1>2, <1>3, <1>4

-----------------------------------------------------------------------------
(* The steps *)

\* The counters of a step that may be a fault.
LEMMA FaultsCounted ==
    ASSUME CountsTyped, relink' = relink, undone' = undone, unmarked' \subseteq Items,
           Fault \/ UNCHANGED faults
    PROVE  CountsTyped'
BY RemovalAssumption DEF CountsTyped, Fault, RemovalAssumption

\* An invocation between two statements.
LEMMA StaysWithItem ==
    ASSUME RemovalInv, Kept, CountsTyped', NEW c \in Callers, ~At(c, "idle"), NEW q,
           call' = [call EXCEPT ![c] = q], UNCHANGED <<owed, unmarked>>,
           \E p \in Pcs \ {"idle"}, t \in BOOLEAN, b \in BOOLEAN :
               \/ q = [call[c] EXCEPT !.pc = p]
               \/ q = [call[c] EXCEPT !.pc = p, !.token = t]
               \/ q = [call[c] EXCEPT !.pc = p, !.token = t, !.confirmed = b],
           \A i \in Items : Loose(i)' => Loose(i)
    PROVE  RemovalInv'
<1>1. call[c] \in Calls /\ Orderly(call[c]) /\ call[c].pc # "idle"
  BY DEF RemovalInv, ListsTyped, At
<1>2. q \in Calls /\ Orderly(q) /\ q.todo = call[c].todo
  BY <1>1, GoesOn
<1>3. owed' \in Seq(Items) /\ IsInjective(owed')
  BY DEF RemovalInv, ListsTyped
<1>4. QED
  BY <1>2, <1>3, OneCallMoves DEF Current

\* An invocation that is done with its item, for which something else answers
\* if it is still loose.
LEMMA LeavesItem ==
    ASSUME RemovalInv, Kept, CountsTyped', NEW c \in Callers, ~At(c, "idle"), Done(c),
           owed' \in Seq(Items), IsInjective(owed'), unmarked \subseteq unmarked',
           \A i \in Items : Loose(i)' => Loose(i),
           \A i \in Items : item'[i].live /\ Contains(owed, i) => Contains(owed', i),
           \A i \in Items : Loose(i)' /\ i = Current(c) => Contains(owed', i) \/ i \in unmarked'
    PROVE  RemovalInv'
<1>1. /\ NextItem(c) \in Calls /\ Orderly(NextItem(c))
      /\ \A i : Contains(call[c].todo, i) /\ i # Current(c) <=> Contains(NextItem(c).todo, i)
  BY NextInList DEF RemovalInv
<1>2. call' = [call EXCEPT ![c] = NextItem(c)]
  BY DEF Done
<1>3. QED
  BY <1>1, <1>2, OneCallMoves

\* The first two statements: an item that is linked again, or gone, is left.
LEMMA LooksKeep ==
    ASSUME RemovalInv, Kept, NEW c \in Callers, CountConnections(c) \/ ReadItem(c)
    PROVE  RemovalInv'
<1> DEFINE i == Current(c)
<1>1. ~At(c, "idle") /\ i \in Items /\ item[i].token \in BOOLEAN
  <2>1. ~At(c, "idle")
    BY DEF CountConnections, ReadItem, At
  <2>2. QED
    BY <2>1, NextInList DEF RemovalInv, CredentialInv, ItemTyped, Rows
<1>2. UNCHANGED <<item, owed, relink, undone, unmarked, faults>>
  BY DEF CountConnections, ReadItem
<1>3. CountsTyped' /\ owed' \in Seq(Items) /\ IsInjective(owed') /\ unmarked \subseteq unmarked'
  BY <1>2 DEF RemovalInv, CountsTyped, ListsTyped
<1>4. \A j \in Items : Loose(j)' = Loose(j)
  BY <1>2 DEF Loose
<1>5. ASSUME Done(c), item[i].linked \/ item[i].status = "gone" PROVE RemovalInv'
  <2>1. ~Loose(i)
    BY <1>5 DEF Loose
  <2>2. QED
    BY <1>1, <1>2, <1>3, <1>4, <1>5, <2>1, LeavesItem
<1>6. ASSUME Goto(c, "read") PROVE RemovalInv'
  <2>1. "read" \in Pcs \ {"idle"}
    BY DEF Pcs
  <2>2. call' = [call EXCEPT ![c] = [call[c] EXCEPT !.pc = "read"]]
    BY <1>6 DEF Goto
  <2>3. QED
    BY <1>1, <1>2, <1>3, <1>4, <2>1, <2>2, StaysWithItem
<1>7. ASSUME call' = [call EXCEPT ![c].pc = "remove", ![c].token = item[i].token]
      PROVE  RemovalInv'
  <2>1. "remove" \in Pcs \ {"idle"}
    BY DEF Pcs
  <2>2. call' = [call EXCEPT ![c] = [call[c] EXCEPT !.pc = "remove", !.token = item[i].token]]
    BY <1>7
  <2>3. QED
    BY <1>1, <1>2, <1>3, <1>4, <2>1, <2>2, StaysWithItem
<1>8. QED
  BY <1>5, <1>6, <1>7 DEF CountConnections, ReadItem

\* Plaid is asked; whatever it answers, the item stays in hand.
LEMMA AsksKeep ==
    ASSUME RemovalInv, Kept, NEW c \in Callers, RemoveAtPlaid(c) PROVE RemovalInv'
<1> DEFINE i == Current(c)
<1>1. ~At(c, "idle") /\ "revoke" \in Pcs \ {"idle"} /\ "REVOKED" \in Statuses
  BY DEF RemoveAtPlaid, At, Pcs, Statuses
<1>2. UNCHANGED <<owed, relink, undone, unmarked>> /\ (Fault \/ UNCHANGED faults)
  BY DEF RemoveAtPlaid
<1>3. CountsTyped'
  <2>1. CountsTyped /\ unmarked' \subseteq Items
    BY <1>2 DEF RemovalInv, CountsTyped
  <2>2. QED
    BY <1>2, <2>1, FaultsCounted
<1>4. \A j \in Items : Loose(j)' => Loose(j)
  <2>1. item' = item \/ item' = [item EXCEPT ![i].live = FALSE]
    BY DEF RemoveAtPlaid
  <2>2. QED
    BY <1>1, <2>1, StaysTight DEF RemovalInv
<1>5. PICK b \in BOOLEAN : Answered(c, b)
  BY DEF RemoveAtPlaid
<1>6. call' = [call EXCEPT ![c] = [call[c] EXCEPT !.pc = "revoke", !.token = FALSE, !.confirmed = b]]
  BY <1>5 DEF Answered
<1>7. QED
  BY <1>1, <1>2, <1>3, <1>4, <1>6, StaysWithItem

\* The row is revoked, or that fails and the item is left unmarked.
LEMMA RevokesKeep ==
    ASSUME RemovalInv, Kept, NEW c \in Callers, Revoke(c) PROVE RemovalInv'
<1> DEFINE i == Current(c)
<1>1. ~At(c, "idle") /\ {"scrub", "mark"} \subseteq Pcs \ {"idle"} /\ "REVOKED" \in Statuses
  BY DEF Revoke, At, Pcs, Statuses
<1>2. i \in Items
  BY <1>1, NextInList DEF RemovalInv
<1>3. UNCHANGED <<owed, relink, undone>> /\ (Fault \/ UNCHANGED faults)
      /\ unmarked' \in {unmarked, unmarked \cup {i}}
  BY DEF Revoke
<1>4. CountsTyped' /\ owed' \in Seq(Items) /\ IsInjective(owed')
  <2>1. CountsTyped /\ unmarked' \subseteq Items
    BY <1>2, <1>3 DEF RemovalInv, CountsTyped
  <2>2. QED
    BY <1>3, <2>1, FaultsCounted DEF RemovalInv, ListsTyped
<1>5. \A j \in Items : Loose(j)' => Loose(j)
  <2>1. \/ item' = item
        \/ item' = [item EXCEPT ![i].status = "REVOKED"] /\ item[i].status # "gone"
    BY DEF Revoke
  <2>2. QED
    BY <1>1, <2>1, StaysTight DEF RemovalInv
<1>6. ASSUME Goto(c, AfterRevoke(c)), UNCHANGED unmarked PROVE RemovalInv'
  <2>1. call' = [call EXCEPT ![c] = [call[c] EXCEPT !.pc = AfterRevoke(c)]]
    BY <1>6 DEF Goto
  <2>2. AfterRevoke(c) \in Pcs \ {"idle"}
    BY <1>1 DEF AfterRevoke
  <2>3. QED
    BY <1>1, <1>3, <1>4, <1>5, <1>6, <2>1, <2>2, StaysWithItem
<1>7. ASSUME Done(c), unmarked' = unmarked \cup {i} PROVE RemovalInv'
  <2>1. \A j \in Items : j = Current(c) => j \in unmarked'
    BY <1>7
  <2>2. QED
    BY <1>1, <1>3, <1>4, <1>5, <1>7, <2>1, LeavesItem
<1>8. QED
  BY <1>6, <1>7 DEF Revoke

\* The token is scrubbed, or not.
LEMMA ScrubsKeep ==
    ASSUME RemovalInv, Kept, NEW c \in Callers, Scrub(c) PROVE RemovalInv'
<1> DEFINE i == Current(c)
<1>1. ~At(c, "idle") /\ "mark" \in Pcs \ {"idle"} /\ "REVOKED" \in Statuses
  BY DEF Scrub, At, Pcs, Statuses
<1>2. UNCHANGED <<owed, relink, undone, unmarked>> /\ (Fault \/ UNCHANGED faults)
  BY DEF Scrub
<1>3. CountsTyped'
  <2>1. CountsTyped /\ unmarked' \subseteq Items
    BY <1>2 DEF RemovalInv, CountsTyped
  <2>2. QED
    BY <1>2, <2>1, FaultsCounted
<1>4. \A j \in Items : Loose(j)' => Loose(j)
  <2>1. item' = item \/ item' = [item EXCEPT ![i].token = FALSE]
    BY DEF Scrub
  <2>2. QED
    BY <1>1, <2>1, StaysTight DEF RemovalInv
<1>5. call' = [call EXCEPT ![c] = [call[c] EXCEPT !.pc = "mark"]]
  BY DEF Scrub, Goto
<1>6. QED
  BY <1>1, <1>2, <1>3, <1>4, <1>5, StaysWithItem

\* The marker: a confirmed one takes the item off the list, and what is
\* confirmed is no longer alive.
LEMMA MarksKeep ==
    ASSUME RemovalInv, Kept, NEW c \in Callers, Mark(c) PROVE RemovalInv'
<1> DEFINE i == Current(c)
           b == call[c].confirmed
<1>1. ~At(c, "idle") /\ Done(c)
  BY DEF Mark, At
<1>2. i \in Items /\ b \in BOOLEAN
  BY <1>1, NextInList DEF RemovalInv, ListsTyped, Calls
<1>3. UNCHANGED <<item, relink, undone>> /\ (Fault \/ UNCHANGED faults)
      /\ \/ owed' = OwedAfter(i, b) /\ unmarked' = unmarked
         \/ owed' = owed /\ unmarked' = unmarked \cup {i}
  BY DEF Mark
<1>4. b => ~item[i].live
  BY <1>2 DEF RemovalInv, CredentialInv, ConfirmedGone
<1>5. \A j \in Items : Loose(j)' = Loose(j)
  BY <1>3 DEF Loose
<1>6. CountsTyped' /\ unmarked \subseteq unmarked'
  <2>1. CountsTyped /\ unmarked' \subseteq Items
    BY <1>2, <1>3 DEF RemovalInv, CountsTyped
  <2>2. QED
    BY <1>3, <2>1, FaultsCounted
<1> HIDE DEF b
<1>7. /\ OwedAfter(i, b) \in Seq(Items) /\ IsInjective(OwedAfter(i, b))
      /\ \A x : Contains(owed, x) /\ (b => x # i) => Contains(OwedAfter(i, b), x)
      /\ ~b => Contains(OwedAfter(i, b), i)
  BY <1>2, MarkerFolded DEF RemovalInv
<1>8. owed' \in Seq(Items) /\ IsInjective(owed')
  BY <1>3, <1>7 DEF RemovalInv, ListsTyped
<1>9. ASSUME NEW j \in Items, item'[j].live
      PROVE  /\ Contains(owed, j) => Contains(owed', j)
             /\ j = i => Contains(owed', j) \/ j \in unmarked'
  <2>1. b => j # i
    BY <1>3, <1>4, <1>9
  <2>2. QED
    BY <1>3, <1>7, <2>1
<1>10. QED
  BY <1>1, <1>5, <1>6, <1>8, <1>9, LeavesItem DEF Loose

\* An idle invocation takes up a list.
LEMMA TakesUp ==
    ASSUME RemovalInv, Kept, CountsTyped', NEW c \in Callers, At(c, "idle"),
           NEW items \in Seq(Items), items # <<>>, IsInjective(items), NEW job \in BOOLEAN,
           Takes(c, items, job), UNCHANGED <<owed, unmarked>>,
           \A i \in Items : Loose(i)' => Loose(i) \/ Contains(items, i),
           \A i \in Items : Contains(items, i) => i = Head(items) \/ Contains(owed, i)
    PROVE  RemovalInv'
<1> DEFINE r == CallFor(items, job)
<1>1. r \in Calls /\ Orderly(r) /\ r.todo = items
  BY TakesList
<1>2. call' = [call EXCEPT ![c] = r]
  BY DEF Takes
<1> HIDE DEF r
<1>3. \A i : ~Contains(call[c].todo, i)
  <2>1. call[c].todo = <<>>
    BY DEF RemovalInv, ListsTyped, Orderly, At
  <2>2. QED
    BY <2>1, NothingToDo
<1>4. owed' \in Seq(Items) /\ IsInjective(owed')
  BY DEF RemovalInv, ListsTyped
<1>5. QED
  BY <1>1, <1>2, <1>3, <1>4, OneCallMoves

\* The daily job takes up what it picks.
LEMMA RetryKeeps ==
    ASSUME RemovalInv, Kept, NEW c \in Callers, StartRetry(c) PROVE RemovalInv'
<1>1. UNCHANGED <<item, owed, relink, undone, unmarked, faults>> /\ At(c, "idle")
  BY DEF StartRetry
<1>2. CountsTyped' /\ \A i \in Items : Loose(i)' => Loose(i)
  BY <1>1 DEF RemovalInv, CountsTyped, Loose
<1>3. PICK places \in SetToSeqs(Candidates) :
        Takes(c, [n \in DOMAIN places |-> owed[places[n]]], TRUE)
  BY DEF StartRetry
<1> DEFINE items == [n \in DOMAIN places |-> owed[places[n]]]
<1>4. Candidates \in SUBSET DOMAIN owed /\ Candidates # {}
  BY DEF StartRetry, Candidates, Eligible
<1>5. /\ items \in Seq(Items) /\ items # <<>> /\ IsInjective(items)
      /\ \A i : Contains(items, i) => Contains(owed, i)
  BY <1>4, Picked DEF RemovalInv, ListsTyped
<1> HIDE DEF items
<1>6. Takes(c, items, TRUE)
  BY <1>3 DEF items
<1>7. QED
  BY <1>1, <1>2, <1>5, <1>6, TakesUp

\* A user or an operator asks for one removal, or the platform ends one.
LEMMA RequestsKeep ==
    ASSUME RemovalInv, Kept, NEW c \in Callers,
           KillCaller(c) \/ \E i \in Items : RemoveAccounts(c, i) \/ OperatorRetry(c, i)
    PROVE  RemovalInv'
<1>1. ASSUME NEW i \in Items, RemoveAccounts(c, i) PROVE RemovalInv'
  <2>1. /\ UNCHANGED <<owed, relink, undone, unmarked, faults>> /\ At(c, "idle")
        /\ Takes(c, <<i>>, FALSE) /\ item' = [item EXCEPT ![i].linked = FALSE]
    BY <1>1 DEF RemoveAccounts
  <2>2. CountsTyped'
    BY <2>1 DEF RemovalInv, CountsTyped
  <2>3. \A j \in Items : Loose(j)' => Loose(j) \/ j = i
    BY <2>1 DEF RemovalInv, CredentialInv, ItemTyped, Rows, Loose
  <2>4. /\ <<i>> \in Seq(Items) /\ <<i>> # <<>> /\ IsInjective(<<i>>)
        /\ Contains(<<i>>, i) /\ \A j : Contains(<<i>>, j) => j = Head(<<i>>)
    BY JustOne
  <2>5. QED
    BY <2>1, <2>2, <2>3, <2>4, TakesUp
<1>2. ASSUME NEW i \in Items, OperatorRetry(c, i) PROVE RemovalInv'
  <2>1. /\ UNCHANGED <<item, owed, relink, undone, unmarked, faults>> /\ At(c, "idle")
        /\ Takes(c, <<i>>, FALSE)
    BY <1>2 DEF OperatorRetry
  <2>2. CountsTyped' /\ \A j \in Items : Loose(j)' => Loose(j)
    BY <2>1 DEF RemovalInv, CountsTyped, Loose
  <2>3. /\ <<i>> \in Seq(Items) /\ <<i>> # <<>> /\ IsInjective(<<i>>)
        /\ \A j : Contains(<<i>>, j) => j = Head(<<i>>)
    BY JustOne
  <2>4. QED
    BY <2>1, <2>2, <2>3, TakesUp
<1>3. CASE KillCaller(c)
  <2>1. /\ UNCHANGED <<item, owed, relink, undone>> /\ ~At(c, "idle") /\ Fault
        /\ call' = [call EXCEPT ![c] = NoCall] /\ unmarked' = unmarked \cup {Current(c)}
    BY <1>3 DEF KillCaller
  <2>2. /\ Current(c) \in Items /\ owed' \in Seq(Items) /\ IsInjective(owed')
        /\ CountsTyped /\ unmarked \subseteq Items
    BY <2>1, NextInList DEF RemovalInv, ListsTyped, CountsTyped
  <2>3. unmarked' \subseteq Items
    BY <2>1, <2>2
  <2>4. CountsTyped'
    BY <2>1, <2>2, <2>3, FaultsCounted
  <2>5. ASSUME NEW i \in Items, Loose(i)', Contains(call[c].todo, i)
        PROVE  Contains(owed', i) \/ i \in unmarked'
    BY <2>1, <2>5 DEF RemovalInv, QueuedOwed, Loose
  <2>6. /\ \A i \in Items : Loose(i)' => Loose(i)
        /\ owed' = owed /\ unmarked \subseteq unmarked'
    BY <2>1 DEF Loose
  <2>7. QED
    BY <2>1, <2>2, <2>4, <2>5, <2>6, NothingToDo, OneCallMoves
<1>4. QED
  BY <1>1, <1>2, <1>3

\* Who undoes a removal makes no item loose.
LEMMA UndosKeep ==
    ASSUME RemovalInv, Kept, NEW i \in Items,
           RelinkExchanges(i) \/ RelinkStep(i) \/ Restore(i) \/ HealthReported(i) \/ LateReport(i)
    PROVE  RemovalInv'
<1>1. Statuses = {"ACTIVE", "NEEDS_REAUTH", "REVOKED", "gone"}
  BY DEF Statuses
<1>2. UNCHANGED <<owed, call, unmarked>>
  BY DEF RelinkExchanges, RelinkStep, RelinkStores, RelinkActivates, RelinkConnects, RelinkFails,
         Restore, HealthReported, LateReport
<1>3. CountsTyped'
  <2>1. /\ relink' = relink \/ \E x \in {"off", "exchanged", "stored", "active"} :
                                   relink' = [relink EXCEPT ![i] = x]
        /\ undone' = undone \/ Undo
        /\ faults' = faults \/ Fault
    BY DEF RelinkExchanges, RelinkStep, RelinkStores, RelinkActivates, RelinkConnects, RelinkFails,
           Restore, HealthReported, LateReport
  <2>2. QED
    BY <1>2, <2>1, RemovalAssumption DEF RemovalInv, CountsTyped, Undo, Fault, RemovalAssumption
<1>4. \A j \in Items : Loose(j)' => Loose(j)
  <2>1. \/ item' = item
        \/ item' = [item EXCEPT ![i].linked = TRUE]
        \/ item' = [item EXCEPT ![i].token = TRUE]
        \/ \E s \in Statuses :
             item' = [item EXCEPT ![i].status = s] /\ item[i].status # "gone"
    BY <1>1 DEF RelinkExchanges, RelinkStep, RelinkStores, RelinkActivates, RelinkConnects,
                RelinkFails, Restore, HealthReported, LateReport
  <2>2. QED
    BY <1>1, <2>1, StaysTight DEF RemovalInv
<1>5. QED
  BY <1>2, <1>3, <1>4, NoCallMoves

\* The invariant holds at first.
LEMMA InitRemovalInv == RemovalInit => RemovalInv
<1> SUFFICES ASSUME RemovalInit PROVE RemovalInv
  OBVIOUS
<1>1. CredentialInv
  BY InitCredentialInv
<1>2. ListsTyped
  BY NothingToDo DEF RemovalInit, ListsTyped, IsInjective
<1>3. CountsTyped
  BY RemovalAssumption DEF RemovalInit, CountsTyped, RemovalAssumption
<1>4. Unforgotten
  BY DEF RemovalInit, Unforgotten, Loose
<1>5. QueuedOwed
  BY NothingToDo DEF RemovalInit, QueuedOwed
<1>6. QED
  BY <1>1, <1>2, <1>3, <1>4, <1>5 DEF RemovalInv

\* Every step keeps it.
LEMMA NextRemovalInv == RemovalInv /\ [RemovalNext]_removalVars => RemovalInv'
<1> SUFFICES ASSUME RemovalInv, [RemovalNext]_removalVars PROVE RemovalInv'
  OBVIOUS
<1>1. Kept
  BY NextCredentialInv DEF RemovalInv
<1>2. CASE UNCHANGED removalVars
  <2>1. CountsTyped' /\ \A i \in Items : Loose(i)' => Loose(i)
    BY <1>2 DEF removalVars, RemovalInv, CountsTyped, Loose
  <2>2. QED
    BY <1>1, <1>2, <2>1, NoCallMoves DEF removalVars
<1>3. ASSUME NEW c \in Callers, RemovalStep(c) PROVE RemovalInv'
  BY <1>1, <1>3, LooksKeep, AsksKeep, RevokesKeep, ScrubsKeep, MarksKeep DEF RemovalStep
<1>4. ASSUME NEW c \in Callers,
             \/ StartRetry(c) \/ KillCaller(c)
             \/ \E i \in Items : RemoveAccounts(c, i) \/ OperatorRetry(c, i)
      PROVE  RemovalInv'
  BY <1>1, <1>4, RetryKeeps, RequestsKeep
<1>5. ASSUME NEW i \in Items,
             RelinkExchanges(i) \/ RelinkStep(i) \/ Restore(i) \/ HealthReported(i) \/ LateReport(i)
      PROVE  RemovalInv'
  BY <1>1, <1>5, UndosKeep
<1>6. QED
  BY <1>2, <1>3, <1>4, <1>5 DEF RemovalNext

\* Its parts are the type invariant, and what the list of the owed is for.
LEMMA RemovalInvMeans == RemovalInv => RemovalTypeOK /\ NothingForgotten
<1> SUFFICES ASSUME RemovalInv PROVE RemovalTypeOK /\ NothingForgotten
  OBVIOUS
<1>1. RemovalTypeOK
  BY DEF RemovalInv, CredentialInv, ItemTyped, Rows, ListsTyped, CountsTyped, Calls, Orderly,
         RemovalTypeOK
<1>2. NothingForgotten
  BY DEF RemovalInv, Unforgotten, Loose, AnsweredFor, NothingForgotten
<1>3. QED
  BY <1>1, <1>2

\* The lists of the removal path hold each item once; an invocation has
\* nothing in hand exactly when it is idle.
THEOREM RemovalTypeCorrect == RemovalSpec => []RemovalTypeOK
BY InitRemovalInv, NextRemovalInv, RemovalInvMeans, PTL DEF RemovalSpec

\* An item without accounts that Plaid still bills for is on the list of what
\* is owed, unless an invocation has it in hand or failed to leave its marker
\* (disconnect.ts:144-154), whatever overlaps, dies, is relinked or restored.
THEOREM NothingIsForgotten == RemovalSpec => []NothingForgotten
BY InitRemovalInv, NextRemovalInv, RemovalInvMeans, PTL DEF RemovalSpec

=============================================================================
