------------------------------ MODULE FileImport ------------------------------
(***************************************************************************)
(* Importing files into one account: app/api/accounts/[id]/import (bank    *)
(* statements), lib/investments/investment-import-commit.ts (investment    *)
(* histories) and app/api/imports/[id]/rollback, over lib/imports/claim.ts.*)
(*                                                                         *)
(* An import is a request and the ImportBatch it creates.  A bank import   *)
(* claims its file first: a partial unique index allows one batch of a     *)
(* file that is neither failed nor rolled back.  Its rows are written a    *)
(* chunk per transaction, and one by one where a chunk fails; a row that   *)
(* the account has already is matched by a read, no index backs it.  A     *)
(* history has no claim; its rows are keyed, and a unique index covers the *)
(* key, of deleted rows too.                                               *)
(*                                                                         *)
(* Any request may be killed between two statements, and is after BUDGET.  *)
(* What it leaves behind is a batch that looks busy.  The rollback takes   *)
(* such a batch once it has been silent for BUDGET + SLACK.                *)
(*                                                                         *)
(* COMPLETED stands for COMPLETED_WITH_ERRORS as well.  Ages stop where    *)
(* the comparisons no longer change.                                       *)
(***************************************************************************)
EXTENDS Integers, FiniteSets

CONSTANTS
    LastImport,  \* bound: the requests are numbered as they come in
    Files,       \* the files a user may upload, by their hash
    Histories,   \* those that are investment histories
    RowsOf,      \* the rows of each file
    NoFile,
    CHUNK,       \* IMPORT_CHUNK_ROWS
    BUDGET,      \* IMPORT_BUDGET_MS: maxDuration of the route
    SLACK,       \* IMPORT_STALL_SLACK_MS
    MaxFaults    \* bound: kills, failed chunks and other statements, in all

ASSUME ImportAssumption ==
    /\ Histories \subseteq Files
    /\ NoFile \notin Files
    \* Transaction and InvestmentEvent are different tables.
    /\ \A f \in Files \ Histories : \A h \in Histories : RowsOf[f] \cap RowsOf[h] = {}
    /\ LastImport \in Nat
    /\ BUDGET \in Nat /\ SLACK \in Nat /\ CHUNK \in Nat \ {0} /\ MaxFaults \in Nat

Imports == 1..LastImport
Rows == UNION {RowsOf[f] : f \in Files}

VARIABLES
    batch,   \* the ImportBatch of each import: [status, file, idle]
    req,     \* the request: where it is, and what it holds in memory
    live,    \* how many live rows each batch has of each row
    deleted, \* the rows each batch has left soft-deleted
    faults

vars == <<batch, req, live, deleted, faults>>

Cap == BUDGET + SLACK + 1

Busy     == {"PENDING", "PROCESSING"}
Terminal == {"COMPLETED", "FAILED", "ROLLED_BACK"}
Statuses == {"none"} \cup Busy \cup Terminal
Pcs == {"off", "claim", "parse", "rows", "chunk", "slow", "create", "over"}

TypeOK ==
    /\ batch \in [Imports -> [status : Statuses, file : Files \cup {NoFile}, idle : 0..Cap]]
    /\ req \in [Imports -> [pc : Pcs, age : 0..BUDGET, todo : SUBSET Rows,
                            chunk : SUBSET Rows, left : SUBSET Rows,
                            held : SUBSET Rows, known : SUBSET Rows]]
    /\ live \in [Imports -> [Rows -> Nat]]
    /\ deleted \in [Imports -> SUBSET Rows]
    /\ faults \in 0..MaxFaults

\* todo: rows not begun; chunk: those of the chunk under way, of which left
\* are not resolved and held are to be created; known: candidates read before
\* the rows of a history.
NoRequest == [pc |-> "off", age |-> 0, todo |-> {}, chunk |-> {}, left |-> {},
              held |-> {}, known |-> {}]

Init ==
    /\ batch = [i \in Imports |-> [status |-> "none", file |-> NoFile, idle |-> 0]]
    /\ req = [i \in Imports |-> NoRequest]
    /\ live = [i \in Imports |-> [e \in Rows |-> 0]]
    /\ deleted = [i \in Imports |-> {}]
    /\ faults = 0

-----------------------------------------------------------------------------
(* Reading the tables *)

At(i, pc) == req[i].pc = pc
Alive(i)  == req[i].pc \notin {"off", "over"}
Fault     == faults < MaxFaults /\ faults' = faults + 1
Goto(i, pc) == req' = [req EXCEPT ![i].pc = pc]

\* The response is sent, or the request is dead.
Over(i) == req' = [req EXCEPT ![i] = [NoRequest EXCEPT !.pc = "over"]]

File(i) == batch[i].file
IsHistory(i) == File(i) \in Histories

\* The predicate of ImportBatch_account_file_live_key.
SlotHeld(f) ==
    \E j \in Imports : File(j) = f /\ batch[j].status \in Busy \cup {"COMPLETED"}

\* Mutant: the batch counts as dead after the slack alone.
SilentForSlack(i) == batch[i].idle > SLACK

\* Mutant: a busy batch is never given up.
NeverStalled(i) == FALSE

Stalled(i) == batch[i].idle > BUDGET + SLACK

\* rollbackClaimWhere
RollbackEligible(i) ==
    \/ batch[i].status \in {"COMPLETED", "FAILED"}
    \/ batch[i].status \in Busy /\ Stalled(i)

\* resolveFingerprintOutcome finds a live row: MATCH, or SKIP if it finds several.
InAccount(e) == \E j \in Imports : live[j][e] > 0

\* The index on [source, externalEventId]: deleted rows count.
KeyTaken(e) == \E j \in Imports : live[j][e] > 0 \/ e \in deleted[j]

-----------------------------------------------------------------------------
(* A bank import *)

\* The upload comes in.
Begin(i) ==
    /\ At(i, "off") /\ \A j \in Imports : j < i => ~At(j, "off")
    /\ Goto(i, "claim")
    /\ \E f \in Files : batch' = [batch EXCEPT ![i].file = f]
    /\ UNCHANGED <<live, deleted, faults>>

\* updatedAt is a clock reading taken since the request came in.
Written(i, status) ==
    \E lag \in 0..req[i].age :
        batch' = [batch EXCEPT ![i].status = status, ![i].idle = lag]

Claim(i) ==
    /\ At(i, "claim") /\ ~IsHistory(i)
    /\ ~SlotHeld(File(i))
    /\ Written(i, "PENDING")
    /\ Goto(i, "parse")
    /\ UNCHANGED <<live, deleted, faults>>

\* 409: the batch was not created.
ClaimRefused(i) ==
    /\ At(i, "claim") /\ ~IsHistory(i)
    /\ SlotHeld(File(i))
    /\ Over(i)
    /\ UNCHANGED <<batch, live, deleted, faults>>

\* The file cannot be parsed or has too many rows; the write of failBatch is
\* best-effort.
ParseFails(i) ==
    /\ At(i, "parse")
    /\ \/ /\ batch' = [batch EXCEPT ![i].status = "FAILED", ![i].idle = 0]
          /\ UNCHANGED faults
       \/ Fault /\ UNCHANGED batch
    /\ Over(i)
    /\ UNCHANGED <<live, deleted>>

StartRows(i) ==
    /\ At(i, "parse")
    /\ Written(i, "PROCESSING")
    /\ req' = [req EXCEPT ![i].pc = "rows", ![i].todo = RowsOf[File(i)]]
    /\ UNCHANGED <<live, deleted, faults>>

\* A chunk of the file's rows, in one transaction.
OpenChunk(i) ==
    /\ At(i, "rows") /\ ~IsHistory(i)
    /\ \E chunk \in SUBSET req[i].todo :
        /\ chunk # {}
        /\ \/ Cardinality(chunk) = CHUNK
           \/ Cardinality(chunk) < CHUNK /\ chunk = req[i].todo
        /\ req' = [req EXCEPT ![i].pc = "chunk", ![i].chunk = chunk, ![i].left = chunk,
                              ![i].todo = @ \ chunk]
    /\ UNCHANGED <<batch, live, deleted, faults>>

\* One row of the chunk: created in the open transaction, where nobody else
\* sees it, unless the account has it.
ResolveInChunk(i, e) ==
    /\ At(i, "chunk") /\ e \in req[i].left
    /\ req' = [req EXCEPT ![i].left = @ \ {e},
                          ![i].held = IF InAccount(e) THEN @ ELSE @ \cup {e}]
    /\ UNCHANGED <<batch, live, deleted, faults>>

Stored(i, S) == [live EXCEPT ![i] = [e \in Rows |-> IF e \in S THEN @[e] + 1 ELSE @[e]]]

CommitChunk(i) ==
    /\ At(i, "chunk") /\ req[i].left = {}
    /\ live' = Stored(i, req[i].held)
    /\ req' = [req EXCEPT ![i].pc = "rows", ![i].chunk = {}, ![i].held = {}]
    /\ UNCHANGED <<batch, deleted, faults>>

\* Something in the chunk throws and nothing of it is stored; or all of it is
\* stored and the answer is lost.  Its rows are taken again, one by one.
ChunkThrows(i) ==
    /\ At(i, "chunk")
    /\ Fault
    /\ \/ UNCHANGED live
       \/ req[i].left = {} /\ live' = Stored(i, req[i].held)
    /\ req' = [req EXCEPT ![i].pc = "slow", ![i].left = req[i].chunk,
                          ![i].chunk = {}, ![i].held = {}]
    /\ UNCHANGED <<batch, deleted>>

\* Mutant: the fallback creates the chunk's rows without looking again.
ResolveAloneBlindly(i, e) ==
    /\ At(i, "slow") /\ e \in req[i].left
    /\ req' = [req EXCEPT ![i].pc = "create", ![i].left = @ \ {e}, ![i].held = {e}]
    /\ UNCHANGED <<batch, live, deleted, faults>>

\* One row by itself: the look and the creation are transactions of their own.
ResolveAlone(i, e) ==
    /\ At(i, "slow") /\ e \in req[i].left
    /\ req' = IF InAccount(e) THEN [req EXCEPT ![i].left = @ \ {e}]
              ELSE [req EXCEPT ![i].pc = "create", ![i].left = @ \ {e}, ![i].held = {e}]
    /\ UNCHANGED <<batch, live, deleted, faults>>

CreateAlone(i) ==
    /\ At(i, "create")
    /\ live' = Stored(i, req[i].held)
    /\ req' = [req EXCEPT ![i].pc = "slow", ![i].held = {}]
    /\ UNCHANGED <<batch, deleted, faults>>

\* A row that throws is counted as failed and left behind, stored or not.  Its
\* chunk has thrown, so this is no new fault to count.
RowThrows(i) ==
    /\ \/ /\ At(i, "create")
          /\ live' \in {live, Stored(i, req[i].held)}
          /\ req' = [req EXCEPT ![i].pc = "slow", ![i].held = {}]
       \/ /\ At(i, "slow")
          /\ \E e \in req[i].left : req' = [req EXCEPT ![i].left = @ \ {e}]
          /\ UNCHANGED live
    /\ UNCHANGED <<batch, deleted, faults>>

NextChunk(i) ==
    /\ At(i, "slow") /\ req[i].left = {}
    /\ Goto(i, "rows")
    /\ UNCHANGED <<batch, live, deleted, faults>>

\* The completion, keyed on the id alone.
Complete(i) ==
    /\ At(i, "rows") /\ req[i].todo = {}
    /\ batch' = [batch EXCEPT ![i].status = "COMPLETED", ![i].idle = 0]
    /\ Over(i)
    /\ UNCHANGED <<live, deleted, faults>>

-----------------------------------------------------------------------------
(* An investment history *)

\* The batch, and in its transaction the candidates to match with.
OpenHistory(i) ==
    /\ At(i, "claim") /\ IsHistory(i)
    /\ Written(i, "PROCESSING")
    /\ req' = [req EXCEPT ![i].pc = "rows", ![i].todo = RowsOf[File(i)],
                          ![i].known = {e \in RowsOf[File(i)] : InAccount(e)}]
    /\ UNCHANGED <<live, deleted, faults>>

\* What the owner has decided for a row; "none" leaves it to the candidates,
\* matched here by the row's identity alone (a loose match passes over more).
Decisions == {"none", "exclude", "force-create"}

Creates(i, e, decision) ==
    \/ decision = "force-create"
    \/ decision = "none" /\ e \notin req[i].known

HistoryRow(i, e) ==
    /\ At(i, "rows") /\ IsHistory(i) /\ e \in req[i].todo
    /\ \E decision \in Decisions :
          IF Creates(i, e, decision) THEN ~KeyTaken(e) /\ live' = Stored(i, {e})
                                     ELSE UNCHANGED live
    /\ req' = [req EXCEPT ![i].todo = @ \ {e}]
    /\ UNCHANGED <<batch, deleted, faults>>

\* The row is to be created, of itself or because the owner insists, and the
\* index refuses it; nothing catches the exception.
HistoryRowRefused(i, e) ==
    /\ At(i, "rows") /\ IsHistory(i) /\ e \in req[i].todo
    /\ KeyTaken(e)
    /\ Over(i)
    /\ UNCHANGED <<batch, live, deleted, faults>>

-----------------------------------------------------------------------------
(* The rest *)

\* A statement outside the chunks throws, or the platform ends the request.
Dies(i) ==
    /\ Alive(i)
    /\ Fault
    /\ Over(i)
    /\ UNCHANGED <<batch, live, deleted>>

\* Phase 2 of the rollback route: one transaction.
Rollback(i) ==
    /\ RollbackEligible(i)
    /\ batch' = [batch EXCEPT ![i].status = "ROLLED_BACK", ![i].idle = 0]
    /\ live' = [live EXCEPT ![i] = [e \in Rows |-> 0]]
    /\ deleted' = [deleted EXCEPT ![i] = @ \cup {e \in Rows : live[i][e] > 0}]
    /\ UNCHANGED <<req, faults>>

\* Mutant: the platform does not end a request at its budget.
TickUnlimited ==
    /\ req' = [i \in Imports |-> IF Alive(i) THEN [req[i] EXCEPT !.age = @ + 1] ELSE req[i]]
    /\ UNCHANGED <<batch, live, deleted, faults>>

\* Time passes; a request that has used up its budget does not see it.
Tick ==
    /\ \A i \in Imports : Alive(i) => req[i].age < BUDGET
    /\ req' = [i \in Imports |-> IF Alive(i) THEN [req[i] EXCEPT !.age = @ + 1] ELSE req[i]]
    /\ batch' = [i \in Imports |->
                   IF batch[i].status \in Busy /\ batch[i].idle < Cap
                   THEN [batch[i] EXCEPT !.idle = @ + 1] ELSE batch[i]]
    /\ UNCHANGED <<live, deleted, faults>>

Proceeds(i) ==
    \/ Claim(i) \/ ClaimRefused(i) \/ ParseFails(i) \/ StartRows(i)
    \/ OpenChunk(i) \/ CommitChunk(i) \/ CreateAlone(i) \/ NextChunk(i)
    \/ Complete(i) \/ OpenHistory(i)
    \/ \E e \in Rows : \/ ResolveInChunk(i, e) \/ ResolveAlone(i, e)
                       \/ HistoryRow(i, e) \/ HistoryRowRefused(i, e)

Next ==
    \/ Tick
    \/ \E i \in Imports : \/ Begin(i) \/ Proceeds(i) \/ ChunkThrows(i)
                          \/ RowThrows(i) \/ Dies(i) \/ Rollback(i)

Spec == Init /\ [][Next]_vars

\* Time passes, requests go on, and the owner of a batch that looks busy asks
\* again for its rollback.
Fairness ==
    /\ WF_vars(Tick)
    /\ \A i \in Imports : /\ WF_vars(Proceeds(i))
                          /\ WF_vars(batch[i].status \in Busy /\ Rollback(i))

FairSpec == Spec /\ Fairness

-----------------------------------------------------------------------------
(* Properties *)

\* However often and however close together a file is uploaded, however its
\* imports die, are rolled back and made again, and whether a chunk was
\* stored before it was taken again row by row: the account never holds two
\* live copies of one of its rows (lib/imports/claim.ts:4-18).
OneCopyPerFile ==
    \A f \in Files : \A e \in RowsOf[f] : \A i, j \in Imports :
        /\ File(i) = f => live[i][e] <= 1
        /\ i # j /\ File(i) = f /\ File(j) = f => live[i][e] = 0 \/ live[j][e] = 0

\* What was rolled back stays so: the batch has no live rows, and no request
\* that was taken for dead adds any later, though its row writes and its
\* completion do not look at the status (rollback/route.ts:3-10).
RolledBackStaysEmpty ==
    \A i \in Imports : batch[i].status = "ROLLED_BACK" => \A e \in Rows : live[i][e] = 0

\* A verdict is given once: what is over may be rolled back and nothing else,
\* though completion and failure are keyed on the id alone.
VerdictsStand ==
    [][\A i \in Imports : batch[i].status \in Terminal =>
         batch'[i].status \in {batch[i].status, "ROLLED_BACK"}]_batch

\* An import that died does not hold its file for good (claim.ts:20-22): asking
\* again gets it rolled back, until no batch looks busy.
DeadImportsEnd == []<>(\A i \in Imports : batch[i].status \notin Busy)

\* "re-importing the same file is a full-MATCH no-op; an overlapping longer
\* export MATCHes the overlap and CREATEs the extension" (row-identity.ts:14-15):
\* no history is cut short by a row that the account does not have.
ReimportGoesThrough ==
    [][~\E i \in Imports : \E e \in Rows : HistoryRowRefused(i, e) /\ ~InAccount(e)]_vars

=============================================================================
