--------------------------- MODULE FileImportProofs ---------------------------
(***************************************************************************)
(* What the import promises for any number of uploads, any files and rows, *)
(* any chunk size, any budget, and any number of kills and failures.       *)
(*                                                                         *)
(* The argument has three legs.  A request works on a batch in the status  *)
(* its place tells, and the batch has not been silent for longer than the  *)
(* request has lived; so what is rolled back has no request any more.  The *)
(* claim allows one import of a bank file at a time, and the key one       *)
(* history to own a row.  And what a request has still to create, its own  *)
(* batch does not have: a chunk that failed and may have been stored is    *)
(* looked up again, row by row, before anything of it is created.          *)
(***************************************************************************)
EXTENDS FileImport, TLAPS

Working(i) == req[i].pc \in {"rows", "chunk", "slow", "create"}

\* A request works on a batch in the status its place tells, and the batch has
\* not been silent for longer than the request has lived.
Shape(i) ==
    /\ At(i, "off") => batch[i].status = "none"
    /\ At(i, "claim") => batch[i].status = "none" /\ File(i) \in Files
    /\ At(i, "parse") => batch[i].status = "PENDING" /\ File(i) \in Files \ Histories
    /\ Working(i) => batch[i].status = "PROCESSING" /\ File(i) \in Files
    /\ req[i].pc \in {"chunk", "slow", "create"} => ~IsHistory(i)
    /\ Alive(i) /\ batch[i].status \in Busy => batch[i].idle <= req[i].age

\* What is to be created is not there yet.
Unsaved(i) ==
    /\ req[i].chunk # {} => At(i, "chunk")
    /\ req[i].held # {} => req[i].pc \in {"chunk", "create"}
    /\ req[i].left # {} => req[i].pc \in {"chunk", "slow", "create"}
    /\ At(i, "chunk") => req[i].left \cup req[i].held \subseteq req[i].chunk
    /\ req[i].todo \cap (req[i].chunk \cup req[i].left \cup req[i].held) = {}
    /\ \A e \in req[i].todo \cup req[i].chunk \cup req[i].held : live[i][e] = 0

\* A batch with live rows is at work or complete, and has one of each.
RowsInUse(i) ==
    \A e \in Rows : /\ live[i][e] > 0 => batch[i].status \in {"PROCESSING", "COMPLETED"}
                    /\ live[i][e] <= 1

Good(i) == Shape(i) /\ Unsaved(i) /\ RowsInUse(i)

\* An import of a bank file that the index sees.
Claims(i) == ~IsHistory(i) /\ batch[i].status \in Busy \cup {"COMPLETED"}

OneClaim == \A i, j \in Imports : Claims(i) /\ Claims(j) /\ File(i) = File(j) => i = j

Owns(i, e) == IsHistory(i) /\ live[i][e] > 0

OneOwner == \A i, j \in Imports : \A e \in Rows : Owns(i, e) /\ Owns(j, e) => i = j

IInv == TypeOK /\ (\A i \in Imports : Good(i)) /\ OneClaim /\ OneOwner

Batches  == [status : Statuses, file : Files \cup {NoFile}, idle : 0..Cap]
Requests == [pc : Pcs, age : 0..BUDGET, todo : SUBSET Rows, chunk : SUBSET Rows,
             left : SUBSET Rows, held : SUBSET Rows, known : SUBSET Rows]

-----------------------------------------------------------------------------
\* The rows of a file are rows.
LEMMA RowsOfFile == ASSUME NEW f \in Files PROVE RowsOf[f] \subseteq Rows
BY DEF Rows

\* A request that is over holds nothing.
LEMMA NoRequestTyped ==
    /\ NoRequest \in Requests
    /\ [NoRequest EXCEPT !.pc = "over"] \in Requests
    /\ [NoRequest EXCEPT !.pc = "over"].pc = "over"
    /\ [NoRequest EXCEPT !.pc = "over"].todo = {}
    /\ [NoRequest EXCEPT !.pc = "over"].chunk = {}
    /\ [NoRequest EXCEPT !.pc = "over"].left = {}
    /\ [NoRequest EXCEPT !.pc = "over"].held = {}
BY ImportAssumption DEF ImportAssumption, NoRequest, Requests, Pcs

\* What storing some rows does to the table.
LEMMA StoredRows ==
    ASSUME TypeOK, NEW i \in Imports, NEW S
    PROVE  /\ Stored(i, S) \in [Imports -> [Rows -> Nat]]
           /\ \A j \in Imports \ {i} : Stored(i, S)[j] = live[j]
           /\ \A e \in Rows : Stored(i, S)[i][e] = IF e \in S THEN live[i][e] + 1 ELSE live[i][e]
BY DEF TypeOK, Stored

\* The write of a batch by its own request.
LEMMA WrittenBatch ==
    ASSUME TypeOK, NEW i \in Imports, NEW s \in Statuses, Written(i, s)
    PROVE  /\ batch' \in [Imports -> Batches]
           /\ \A j \in Imports \ {i} : batch'[j] = batch[j]
           /\ batch'[i].status = s /\ batch'[i].file = batch[i].file
           /\ batch'[i].idle <= req[i].age
<1>1. PICK lag \in 0..req[i].age :
        batch' = [batch EXCEPT ![i].status = s, ![i].idle = lag]
  BY DEF Written
<1>2. batch[i] \in Batches /\ req[i].age \in 0..BUDGET
  BY DEF TypeOK, Batches
<1>3. lag \in 0..Cap /\ lag <= req[i].age
  BY <1>1, <1>2, ImportAssumption DEF ImportAssumption, Cap
<1>4. batch \in [Imports -> Batches]
  BY DEF TypeOK, Batches
<1>5. batch'[i] = [batch[i] EXCEPT !.status = s, !.idle = lag]
  BY <1>1, <1>4
<1>6. batch'[i] \in Batches
  BY <1>2, <1>3, <1>5 DEF Batches
<1>7. \A j \in Imports \ {i} : batch'[j] = batch[j]
  BY <1>1, <1>4
<1>8. batch' \in [Imports -> Batches]
  BY <1>1, <1>4, <1>6, <1>7
<1>9. QED
  BY <1>2, <1>3, <1>5, <1>7, <1>8 DEF Batches

Untouched(j) == req'[j] = req[j] /\ batch'[j] = batch[j] /\ live'[j] = live[j]

\* A step of one import that makes no claim and creates no row of a history
\* has that import alone to look after.
LEMMA Frame ==
    ASSUME IInv, NEW i \in Imports, TypeOK', Good(i)',
           \A j \in Imports \ {i} : Untouched(j),
           Claims(i)' => Claims(i) /\ File(i)' = File(i),
           \A e \in Rows : Owns(i, e)' => Owns(i, e)
    PROVE  IInv'
<1>1. ASSUME NEW j \in Imports \ {i} PROVE Good(j)'
  BY <1>1 DEF IInv, Untouched, Good, Shape, Unsaved, RowsInUse, At, File, IsHistory, Working, Alive
<1>2. \A j \in Imports \ {i} : Claims(j)' = Claims(j) /\ File(j)' = File(j)
  BY DEF Untouched, Claims, IsHistory, File
<1>3. OneClaim'
  BY <1>2 DEF IInv, OneClaim
<1>4. \A j \in Imports \ {i} : \A e \in Rows : Owns(j, e)' = Owns(j, e)
  BY DEF Untouched, Owns, IsHistory, File
<1>5. OneOwner'
  BY <1>4 DEF IInv, OneOwner
<1>6. QED
  BY <1>1, <1>3, <1>5 DEF IInv

-----------------------------------------------------------------------------
(* The steps of a request *)

\* A request ends, whatever has become of its batch: what it held is gone, and
\* the batch has no request to look after it.
LEMMA EndedGood ==
    ASSUME TypeOK, NEW i \in Imports, Over(i), UNCHANGED live,
           RowsInUse(i), batch' \in [Imports -> Batches],
           batch[i].status \in {"PROCESSING", "COMPLETED"} =>
               batch'[i].status \in {"PROCESSING", "COMPLETED"}
    PROVE  Good(i)' /\ req' \in [Imports -> Requests] /\ \A j \in Imports \ {i} : req'[j] = req[j]
<1>1. req \in [Imports -> Requests]
  BY DEF TypeOK, Requests
<1>2. /\ req'[i] = [NoRequest EXCEPT !.pc = "over"]
      /\ \A j \in Imports \ {i} : req'[j] = req[j]
      /\ req' \in [Imports -> Requests]
  BY <1>1, NoRequestTyped DEF Over
<1>3. Shape(i)' /\ Unsaved(i)'
  BY <1>2, NoRequestTyped DEF Shape, Unsaved, At, Working, Alive
<1>4. RowsInUse(i)'
  BY DEF RowsInUse
<1>5. QED
  BY <1>2, <1>3, <1>4 DEF Good

\* The upload names its file.
LEMMA StepBegin == ASSUME IInv, NEW i \in Imports, Begin(i) PROVE IInv'
<1>1. PICK f \in Files : batch' = [batch EXCEPT ![i].file = f]
  BY DEF Begin
<1>2. req \in [Imports -> Requests] /\ batch \in [Imports -> Batches]
  BY DEF IInv, TypeOK, Requests, Batches
<1>3. /\ req'[i] = [req[i] EXCEPT !.pc = "claim"] /\ batch'[i] = [batch[i] EXCEPT !.file = f]
      /\ \A j \in Imports \ {i} : Untouched(j)
  BY <1>1, <1>2 DEF Begin, Goto, Untouched
<1>4. TypeOK'
  <2>1. req' \in [Imports -> Requests]
    BY <1>2 DEF Begin, Goto, Requests, Pcs
  <2>2. batch' \in [Imports -> Batches]
    BY <1>1, <1>2 DEF Batches
  <2>3. QED
    BY <2>1, <2>2 DEF Begin, IInv, TypeOK, Requests, Batches
<1>5. batch[i].status = "none" /\ batch'[i].status = "none" /\ File(i)' \in Files
  BY <1>1, <1>2, <1>3 DEF Begin, IInv, Good, Shape, File, Batches
<1>6. \A e \in Rows : live'[i][e] = 0
  <2>1. RowsInUse(i) /\ live[i] \in [Rows -> Nat]
    BY DEF IInv, Good, TypeOK
  <2>2. live' = live
    BY DEF Begin
  <2>3. QED
    BY <1>5, <2>1, <2>2 DEF RowsInUse
<1>7. Good(i)'
  <2>1. req'[i].pc = "claim" /\ \A x \in {"todo", "chunk", "left", "held"} : req'[i][x] = req[i][x]
    BY <1>2, <1>3 DEF Requests
  <2>2. Shape(i)'
    BY <1>5, <2>1 DEF Shape, At, Working, Alive, Busy
  <2>3. Unsaved(i)'
    BY <2>1 DEF Begin, IInv, Good, Unsaved, At
  <2>4. RowsInUse(i)'
    BY <1>6 DEF RowsInUse
  <2>5. QED
    BY <2>2, <2>3, <2>4 DEF Good
<1>8. ~Claims(i)'
  BY <1>5 DEF Claims, Busy
<1>9. \A e \in Rows : ~Owns(i, e)'
  BY <1>6 DEF Owns
<1>10. QED
  BY <1>3, <1>4, <1>7, <1>8, <1>9, Frame

\* The claim finds no other import of the file that the index sees.
LEMMA StepClaim == ASSUME IInv, NEW i \in Imports, Claim(i) PROVE IInv'
<1>1. req \in [Imports -> Requests] /\ batch \in [Imports -> Batches]
  BY DEF IInv, TypeOK, Requests, Batches
<1>2. /\ batch' \in [Imports -> Batches]
      /\ \A j \in Imports \ {i} : batch'[j] = batch[j]
      /\ batch'[i].status = "PENDING" /\ batch'[i].file = batch[i].file
      /\ batch'[i].idle <= req[i].age
  <2>1. "PENDING" \in Statuses
    BY DEF Statuses, Busy
  <2>2. QED
    BY <2>1, WrittenBatch DEF Claim, IInv
<1>3. /\ req'[i] = [req[i] EXCEPT !.pc = "parse"]
      /\ \A j \in Imports \ {i} : Untouched(j)
  BY <1>1, <1>2 DEF Claim, Goto, Untouched
<1>4. TypeOK'
  <2>1. req' \in [Imports -> Requests]
    BY <1>1 DEF Claim, Goto, Requests, Pcs
  <2>2. QED
    BY <1>2, <2>1 DEF Claim, IInv, TypeOK, Requests, Batches
<1>5. /\ req'[i].pc = "parse" /\ req'[i].age = req[i].age
      /\ \A x \in {"todo", "chunk", "left", "held"} : req'[i][x] = req[i][x]
  BY <1>1, <1>3 DEF Requests
<1>6. \A e \in Rows : live'[i][e] = 0
  BY SMTT(30) DEF Claim, At, IInv, TypeOK, Good, Shape, RowsInUse
<1>7. Good(i)'
  <2>1. Shape(i)'
    BY <1>2, <1>5 DEF Claim, IInv, Good, Shape, At, Working, Alive, Busy, File, IsHistory
  <2>2. Unsaved(i)'
    BY <1>5 DEF Claim, IInv, Good, Unsaved, At
  <2>3. RowsInUse(i)'
    BY <1>6 DEF RowsInUse
  <2>4. QED
    BY <2>1, <2>2, <2>3 DEF Good
<1>8. \A j \in Imports \ {i} : Good(j)'
  BY <1>3 DEF IInv, Untouched, Good, Shape, Unsaved, RowsInUse, At, File, IsHistory, Working, Alive
<1>9. OneClaim'
  <2>1. \A j \in Imports \ {i} : Claims(j)' = Claims(j) /\ File(j)' = File(j)
    BY <1>3 DEF Untouched, Claims, IsHistory, File
  <2>2. File(i)' = File(i) /\ \A j \in Imports \ {i} : Claims(j) => File(j) # File(i)
    BY <1>2 DEF Claim, SlotHeld, Claims, File
  <2>3. QED
    BY <2>1, <2>2 DEF IInv, OneClaim
<1>10. OneOwner'
  <2>1. \A j \in Imports : \A e \in Rows : Owns(j, e)' = Owns(j, e)
    BY <1>2 DEF Claim, Owns, IsHistory, File
  <2>2. QED
    BY <2>1 DEF IInv, OneOwner
<1>11. QED
  BY <1>4, <1>7, <1>8, <1>9, <1>10 DEF IInv

\* A request ends.  Its batch may have been marked as failed before its rows,
\* or as complete after them; the index sees no claim it did not see.
LEMMA StepEnds ==
    ASSUME IInv, NEW i \in Imports, Over(i), UNCHANGED <<live, deleted>>, faults' \in 0..MaxFaults,
           \/ UNCHANGED batch
           \/ At(i, "parse") /\ batch' = [batch EXCEPT ![i].status = "FAILED", ![i].idle = 0]
           \/ At(i, "rows") /\ batch' = [batch EXCEPT ![i].status = "COMPLETED", ![i].idle = 0]
    PROVE  IInv'
<1>1. batch \in [Imports -> Batches] /\ 0 \in 0..Cap /\ Good(i)
  BY ImportAssumption DEF IInv, TypeOK, Batches, Cap, ImportAssumption
<1>2. /\ batch' \in [Imports -> Batches]
      /\ \A j \in Imports \ {i} : batch'[j] = batch[j]
      /\ batch'[i].file = batch[i].file
      /\ batch[i].status \in {"PROCESSING", "COMPLETED"} =>
            batch'[i].status \in {"PROCESSING", "COMPLETED"}
      /\ batch'[i].status \in Busy \cup {"COMPLETED"} =>
            batch[i].status \in Busy \cup {"COMPLETED"}
  <2>1. CASE UNCHANGED batch
    BY <1>1, <2>1
  <2>2. CASE At(i, "parse") /\ batch' = [batch EXCEPT ![i].status = "FAILED", ![i].idle = 0]
    BY <1>1, <2>2 DEF Batches, Statuses, Terminal, Busy, Good, Shape
  <2>3. CASE At(i, "rows") /\ batch' = [batch EXCEPT ![i].status = "COMPLETED", ![i].idle = 0]
    <3>1. batch[i].status = "PROCESSING"
      BY <1>1, <2>3 DEF Good, Shape, Working, At
    <3>2. QED
      BY <1>1, <2>3, <3>1 DEF Batches, Statuses, Terminal, Busy
  <2>4. QED
    BY <2>1, <2>2, <2>3
<1>3. Good(i)' /\ req' \in [Imports -> Requests] /\ \A j \in Imports \ {i} : req'[j] = req[j]
  BY <1>1, <1>2, EndedGood DEF IInv, Good
<1>4. TypeOK'
  BY <1>2, <1>3 DEF IInv, TypeOK, Batches, Requests
<1>5. \A j \in Imports \ {i} : Untouched(j)
  BY <1>2, <1>3 DEF Untouched
<1>6. Claims(i)' => Claims(i) /\ File(i)' = File(i)
  BY <1>2 DEF Claims, IsHistory, File
<1>7. \A e \in Rows : Owns(i, e)' => Owns(i, e)
  BY <1>2 DEF Owns, IsHistory, File
<1>8. QED
  BY <1>3, <1>4, <1>5, <1>6, <1>7, Frame

\* A request that only moves on: it writes neither rows nor batch, and what it
\* has yet to create is not there.
LEMMA StepMoves ==
    ASSUME IInv, NEW i \in Imports, UNCHANGED <<batch, live, deleted>>, faults' \in 0..MaxFaults,
           req' \in [Imports -> Requests], \A j \in Imports \ {i} : req'[j] = req[j],
           ~IsHistory(i), Working(i), Working(i)', req'[i].age = req[i].age, Unsaved(i)'
    PROVE  IInv'
<1>1. TypeOK'
  BY DEF IInv, TypeOK, Requests
<1>2. \A j \in Imports \ {i} : Untouched(j)
  BY DEF Untouched
<1>3. Good(i) /\ At(i, "off") = FALSE
  BY DEF IInv, Working, At
<1>4. Shape(i)'
  BY <1>3 DEF Good, Shape, Working, Alive, At, IsHistory, File
<1>5. Good(i)'
  BY <1>3, <1>4 DEF Good, RowsInUse
<1>6. Claims(i)' => Claims(i) /\ File(i)' = File(i)
  BY DEF Claims, IsHistory, File
<1>7. \A e \in Rows : Owns(i, e)' => Owns(i, e)
  BY DEF Owns, IsHistory, File
<1>8. QED
  BY <1>1, <1>2, <1>5, <1>6, <1>7, Frame

\* A bank import stores rows that its batch did not have.
LEMMA StepStores ==
    ASSUME IInv, NEW i \in Imports, UNCHANGED <<batch, deleted>>, faults' \in 0..MaxFaults,
           live' = Stored(i, req[i].held), req[i].pc \in {"chunk", "create"},
           req' \in [Imports -> Requests], \A j \in Imports \ {i} : req'[j] = req[j],
           req'[i].pc \in {"rows", "slow"}, req'[i].age = req[i].age,
           req'[i].todo = req[i].todo, req'[i].chunk = {}, req'[i].held = {},
           req'[i].left \cap req[i].todo = {}, req'[i].left # {} => req'[i].pc = "slow"
    PROVE  IInv'
<1>1. /\ live' \in [Imports -> [Rows -> Nat]]
      /\ \A j \in Imports \ {i} : live'[j] = live[j]
      /\ \A e \in Rows : live'[i][e] = IF e \in req[i].held THEN live[i][e] + 1 ELSE live[i][e]
  BY StoredRows DEF IInv
<1>2. TypeOK'
  BY <1>1 DEF IInv, TypeOK, Requests
<1>3. \A j \in Imports \ {i} : Untouched(j)
  BY <1>1 DEF Untouched
<1>4. Good(i)
  BY DEF IInv
<1>5. batch[i].status = "PROCESSING" /\ ~IsHistory(i)
  BY <1>4 DEF Good, Shape, Working
<1>6. Shape(i)'
  BY <1>4, <1>5 DEF Good, Shape, Working, Alive, At, IsHistory, File
<1>7. req[i] \in Requests
  BY DEF IInv, TypeOK, Requests
<1>8. Unsaved(i)'
  <2>1. \A e \in req[i].todo : e \in Rows /\ e \notin req[i].held /\ live[i][e] = 0
    BY <1>4, <1>7 DEF Good, Unsaved, Requests
  <2>2. \A e \in req'[i].todo : live'[i][e] = 0
    BY <1>1, <2>1
  <2>3. QED
    BY <2>2 DEF Unsaved, At
<1>9. RowsInUse(i)'
  <2>1. \A e \in req[i].held : live[i][e] = 0
    BY <1>4 DEF Good, Unsaved
  <2>2. QED
    BY <1>1, <1>4, <1>5, <2>1 DEF Good, RowsInUse
<1>10. Good(i)'
  BY <1>6, <1>8, <1>9 DEF Good
<1>11. Claims(i)' => Claims(i) /\ File(i)' = File(i)
  BY DEF Claims, IsHistory, File
<1>12. \A e \in Rows : ~Owns(i, e)'
  BY <1>5 DEF Owns, IsHistory, File
<1>13. QED
  BY <1>2, <1>3, <1>10, <1>11, <1>12, Frame

\* The rows of a file that was claimed; none of them is in the batch yet.
LEMMA StepStartRows == ASSUME IInv, NEW i \in Imports, StartRows(i) PROVE IInv'
<1>1. req \in [Imports -> Requests] /\ Good(i)
  BY DEF IInv, TypeOK, Requests
<1>2. File(i) \in Files /\ ~IsHistory(i) /\ batch[i].status = "PENDING" /\ At(i, "parse")
  BY <1>1 DEF StartRows, Good, Shape, IsHistory
<1>3. /\ batch' \in [Imports -> Batches]
      /\ \A j \in Imports \ {i} : batch'[j] = batch[j]
      /\ batch'[i].status = "PROCESSING" /\ batch'[i].file = batch[i].file
      /\ batch'[i].idle <= req[i].age
  <2>1. "PROCESSING" \in Statuses
    BY DEF Statuses, Busy
  <2>2. QED
    BY <2>1, WrittenBatch DEF StartRows, IInv
<1>4. RowsOf[File(i)] \subseteq Rows
  BY <1>2, RowsOfFile
<1>5. /\ req' \in [Imports -> Requests]
      /\ \A j \in Imports \ {i} : req'[j] = req[j]
      /\ req'[i].pc = "rows" /\ req'[i].age = req[i].age /\ req'[i].chunk = req[i].chunk
      /\ req'[i].held = req[i].held /\ req'[i].left = req[i].left
      /\ req'[i].todo = RowsOf[File(i)]
  BY ZenonT(40), <1>1, <1>4 DEF StartRows, Requests, Pcs
<1>6. TypeOK'
  BY <1>3, <1>5 DEF StartRows, IInv, TypeOK, Requests, Batches
<1>7. \A j \in Imports \ {i} : Untouched(j)
  BY <1>3, <1>5 DEF StartRows, Untouched
<1>8. \A e \in Rows : live'[i][e] = 0
  BY <1>1, <1>2 DEF StartRows, IInv, TypeOK, Good, RowsInUse
<1>9. req[i].left = {}
  BY <1>1, <1>2 DEF Good, Unsaved, At
<1>10. Good(i)'
  <2>1. Shape(i)'
    BY <1>2, <1>3, <1>5 DEF Shape, At, Working, Alive, Busy, File, IsHistory
  <2>2. Unsaved(i)'
    BY <1>1, <1>2, <1>4, <1>5, <1>8, <1>9 DEF Good, Unsaved, At
  <2>3. RowsInUse(i)'
    BY <1>8 DEF RowsInUse
  <2>4. QED
    BY <2>1, <2>2, <2>3 DEF Good
<1>11. Claims(i)' => Claims(i) /\ File(i)' = File(i)
  BY <1>2, <1>3 DEF Claims, IsHistory, File, Busy
<1>12. \A e \in Rows : Owns(i, e)' => Owns(i, e)
  BY <1>8 DEF Owns
<1>13. QED
  BY <1>6, <1>7, <1>10, <1>11, <1>12, Frame

\* A history has no claim to make and no row yet.
LEMMA StepOpenHistory == ASSUME IInv, NEW i \in Imports, OpenHistory(i) PROVE IInv'
<1>1. req \in [Imports -> Requests] /\ Good(i)
  BY DEF IInv, TypeOK, Requests
<1>2. File(i) \in Files /\ IsHistory(i) /\ batch[i].status = "none" /\ At(i, "claim")
  BY <1>1 DEF OpenHistory, Good, Shape
<1>3. /\ batch' \in [Imports -> Batches]
      /\ \A j \in Imports \ {i} : batch'[j] = batch[j]
      /\ batch'[i].status = "PROCESSING" /\ batch'[i].file = batch[i].file
      /\ batch'[i].idle <= req[i].age
  <2>1. "PROCESSING" \in Statuses
    BY DEF Statuses, Busy
  <2>2. QED
    BY <2>1, WrittenBatch DEF OpenHistory, IInv
<1>4. RowsOf[File(i)] \subseteq Rows
  BY <1>2, RowsOfFile
<1>5. /\ req' \in [Imports -> Requests]
      /\ \A j \in Imports \ {i} : req'[j] = req[j]
      /\ req'[i].pc = "rows" /\ req'[i].age = req[i].age /\ req'[i].chunk = req[i].chunk
      /\ req'[i].held = req[i].held /\ req'[i].left = req[i].left
      /\ req'[i].todo = RowsOf[File(i)]
  BY ZenonT(40), <1>1, <1>4 DEF OpenHistory, Requests, Pcs
<1>6. TypeOK'
  BY <1>3, <1>5 DEF OpenHistory, IInv, TypeOK, Requests, Batches
<1>7. \A j \in Imports \ {i} : Untouched(j)
  BY <1>3, <1>5 DEF OpenHistory, Untouched
<1>8. \A e \in Rows : live'[i][e] = 0
  BY <1>1, <1>2 DEF OpenHistory, IInv, TypeOK, Good, RowsInUse
<1>9. req[i].left = {}
  BY <1>1, <1>2 DEF Good, Unsaved, At
<1>10. Good(i)'
  <2>1. Shape(i)'
    BY <1>2, <1>3, <1>5 DEF Shape, At, Working, Alive, Busy, File, IsHistory
  <2>2. Unsaved(i)'
    BY <1>1, <1>2, <1>4, <1>5, <1>8, <1>9 DEF Good, Unsaved, At
  <2>3. RowsInUse(i)'
    BY <1>8 DEF RowsInUse
  <2>4. QED
    BY <2>1, <2>2, <2>3 DEF Good
<1>11. ~Claims(i)'
  BY <1>2, <1>3 DEF Claims, IsHistory, File
<1>12. \A e \in Rows : Owns(i, e)' => Owns(i, e)
  BY <1>8 DEF Owns
<1>13. QED
  BY <1>6, <1>7, <1>10, <1>11, <1>12, Frame

\* A row of a history is passed over, or created where no row has its key.
LEMMA StepHistoryRow ==
    ASSUME IInv, NEW i \in Imports, NEW e \in Rows, HistoryRow(i, e)
    PROVE  IInv'
<1>1. req \in [Imports -> Requests] /\ Good(i)
  BY DEF IInv, TypeOK, Requests
<1>2. /\ req' \in [Imports -> Requests]
      /\ \A j \in Imports \ {i} : req'[j] = req[j]
      /\ req'[i].pc = "rows" /\ req'[i].age = req[i].age /\ req'[i].chunk = req[i].chunk
      /\ req'[i].held = req[i].held /\ req'[i].left = req[i].left
      /\ req'[i].todo = req[i].todo \ {e}
  BY <1>1 DEF HistoryRow, At, Requests
<1>3. At(i, "rows") /\ IsHistory(i) /\ batch[i].status = "PROCESSING" /\ batch' = batch
  BY <1>1 DEF HistoryRow, At, Good, Shape, Working
<1>4. /\ live' \in [Imports -> [Rows -> Nat]]
      /\ \A j \in Imports \ {i} : live'[j] = live[j]
      /\ \A x \in Rows \ {e} : live'[i][x] = live[i][x]
  BY StoredRows DEF HistoryRow, IInv, TypeOK
<1>5. \/ live'[i][e] = live[i][e]
      \/ live'[i][e] = 1 /\ \A j \in Imports : live[j][e] = 0
  <2>1. CASE ~KeyTaken(e) /\ live' = Stored(i, {e})
    <3>1. \A j \in Imports : live[j][e] = 0
      BY <2>1 DEF KeyTaken, IInv, TypeOK
    <3>2. QED
      BY <2>1, <3>1, StoredRows DEF IInv
  <2>2. CASE UNCHANGED live
    BY <2>2
  <2>3. QED
    BY <2>1, <2>2 DEF HistoryRow
<1>6. TypeOK'
  BY <1>2, <1>4 DEF HistoryRow, IInv, TypeOK, Requests
<1>7. \A j \in Imports \ {i} : Untouched(j)
  BY <1>2, <1>3, <1>4 DEF Untouched
<1>8. Good(i)'
  <2>1. Shape(i)'
    BY <1>1, <1>2, <1>3 DEF Good, Shape, At, Working, Alive, File, IsHistory
  <2>2. req'[i].todo \subseteq Rows \ {e} /\ req[i].held = {} /\ req[i].chunk = {} /\ req[i].left = {}
    BY <1>1, <1>2, <1>3 DEF Good, Unsaved, At, Requests
  <2>3. Unsaved(i)'
    BY <1>1, <1>2, <1>4, <2>2 DEF Good, Unsaved, At
  <2>4. RowsInUse(i)'
    BY <1>1, <1>3, <1>4, <1>5 DEF Good, RowsInUse
  <2>5. QED
    BY <2>1, <2>3, <2>4 DEF Good
<1>9. OneClaim'
  BY <1>3 DEF IInv, OneClaim, Claims, IsHistory, File
<1>10. \A j \in Imports \ {i} : Good(j)'
  BY <1>7 DEF IInv, Untouched, Good, Shape, Unsaved, RowsInUse, At, File, IsHistory, Working, Alive
<1>11. OneOwner'
  <2>1. SUFFICES ASSUME NEW j \in Imports, NEW k \in Imports, NEW x \in Rows,
                        Owns(j, x)', Owns(k, x)'
                 PROVE  j = k
    BY DEF OneOwner
  <2>2. \A n \in Imports : Owns(n, x)' => Owns(n, x) \/ (n = i /\ x = e)
    BY <1>3, <1>4 DEF Owns, IsHistory, File
  <2>3. x = e /\ live'[i][e] = 1 /\ (\A n \in Imports : live[n][e] = 0) => j = k
    BY <1>4, <2>1, <2>2 DEF Owns
  <2>4. x # e \/ live'[i][e] = live[i][e] => \A n \in Imports : Owns(n, x)' => Owns(n, x)
    BY <1>3, <1>4 DEF Owns, IsHistory, File
  <2>5. QED
    BY <1>5, <2>1, <2>3, <2>4 DEF IInv, OneOwner
<1>12. QED
  BY <1>6, <1>8, <1>9, <1>10, <1>11 DEF IInv

-----------------------------------------------------------------------------
\* A chunk of rows that have not been begun.
LEMMA StepOpenChunk == ASSUME IInv, NEW i \in Imports, OpenChunk(i) PROVE IInv'
<1>1. req \in [Imports -> Requests] /\ Good(i) /\ At(i, "rows") /\ ~IsHistory(i)
  BY DEF IInv, TypeOK, Requests, OpenChunk
<1>2. PICK chunk \in SUBSET req[i].todo :
        req' = [req EXCEPT ![i].pc = "chunk", ![i].chunk = chunk, ![i].left = chunk,
                           ![i].todo = @ \ chunk]
  BY DEF OpenChunk
<1>3. /\ req' \in [Imports -> Requests]
      /\ \A j \in Imports \ {i} : req'[j] = req[j]
      /\ req'[i].pc = "chunk" /\ req'[i].age = req[i].age /\ req'[i].chunk = chunk
      /\ req'[i].held = req[i].held /\ req'[i].left = chunk
      /\ req'[i].todo = req[i].todo \ chunk
  <2>1. req[i] \in Requests /\ chunk \in SUBSET Rows
    BY <1>1 DEF Requests
  <2>2. req'[i] = [req[i] EXCEPT !.pc = "chunk", !.chunk = chunk, !.left = chunk,
                                 !.todo = @ \ chunk]
    BY <1>1, <1>2
  <2>3. req'[i] \in Requests
    BY <2>1, <2>2 DEF Requests, Pcs
  <2>4. req' \in [Imports -> Requests] /\ \A j \in Imports \ {i} : req'[j] = req[j]
    BY <1>1, <1>2, <2>3
  <2>5. QED
    BY <2>1, <2>2, <2>4 DEF Requests
<1>4. req[i].held = {}
  BY <1>1 DEF Good, Unsaved, At
<1>5. Unsaved(i)'
  BY <1>1, <1>3, <1>4 DEF OpenChunk, Good, Unsaved, At
<1>6. Working(i) /\ Working(i)'
  BY <1>1, <1>3 DEF Working, At
<1>7. QED
  BY <1>1, <1>3, <1>5, <1>6, StepMoves DEF OpenChunk, IInv, TypeOK

\* A row of the chunk is looked up.
LEMMA StepResolveInChunk ==
    ASSUME IInv, NEW i \in Imports, NEW e \in Rows, ResolveInChunk(i, e)
    PROVE  IInv'
<1>1. req \in [Imports -> Requests] /\ Good(i) /\ At(i, "chunk") /\ ~IsHistory(i) /\ e \in req[i].left
  BY DEF IInv, TypeOK, Requests, ResolveInChunk, Good, Shape, At
<1>2. /\ req' \in [Imports -> Requests]
      /\ \A j \in Imports \ {i} : req'[j] = req[j]
      /\ req'[i].pc = "chunk" /\ req'[i].age = req[i].age /\ req'[i].chunk = req[i].chunk
      /\ req'[i].held \subseteq req[i].held \cup {e} /\ req'[i].left = req[i].left \ {e}
      /\ req'[i].todo = req[i].todo
  BY ZenonT(40), <1>1 DEF ResolveInChunk, At, Requests
<1>3. Unsaved(i)'
  BY SMTT(30), <1>1, <1>2 DEF ResolveInChunk, Good, Unsaved, At
<1>4. Working(i) /\ Working(i)'
  BY <1>1, <1>2 DEF Working, At
<1>5. QED
  BY <1>1, <1>2, <1>3, <1>4, StepMoves DEF ResolveInChunk, IInv, TypeOK

\* The chunk is stored.
LEMMA StepCommitChunk == ASSUME IInv, NEW i \in Imports, CommitChunk(i) PROVE IInv'
<1>1. req \in [Imports -> Requests] /\ Good(i) /\ At(i, "chunk") /\ req[i].left = {}
  BY DEF IInv, TypeOK, Requests, CommitChunk
<1>2. /\ req' \in [Imports -> Requests]
      /\ \A j \in Imports \ {i} : req'[j] = req[j]
      /\ req'[i].pc = "rows" /\ req'[i].age = req[i].age /\ req'[i].chunk = {}
      /\ req'[i].held = {} /\ req'[i].left = {} /\ req'[i].todo = req[i].todo
  BY ZenonT(40), <1>1 DEF CommitChunk, Requests, Pcs
<1>3. faults' \in 0..MaxFaults
  BY DEF CommitChunk, IInv, TypeOK
<1>4. /\ UNCHANGED <<batch, deleted>> /\ live' = Stored(i, req[i].held)
      /\ req[i].pc \in {"chunk", "create"} /\ req'[i].pc \in {"rows", "slow"}
  BY <1>1, <1>2 DEF CommitChunk, At
<1>5. QED
  BY <1>2, <1>3, <1>4, StepStores

\* The chunk fails, stored or not: its rows are to be looked up again.
LEMMA StepChunkThrows == ASSUME IInv, NEW i \in Imports, ChunkThrows(i) PROVE IInv'
<1>1. req \in [Imports -> Requests] /\ Good(i) /\ At(i, "chunk") /\ ~IsHistory(i)
  BY DEF IInv, TypeOK, Requests, ChunkThrows, Good, Shape, At
<1>2. /\ req' \in [Imports -> Requests]
      /\ \A j \in Imports \ {i} : req'[j] = req[j]
      /\ req'[i].pc = "slow" /\ req'[i].age = req[i].age /\ req'[i].chunk = {}
      /\ req'[i].held = {} /\ req'[i].left = req[i].chunk /\ req'[i].todo = req[i].todo
  <2>1. req[i] \in Requests /\ req[i].chunk \in SUBSET Rows
    BY <1>1 DEF Requests
  <2>2. req'[i] = [req[i] EXCEPT !.pc = "slow", !.left = req[i].chunk, !.chunk = {}, !.held = {}]
    BY <1>1 DEF ChunkThrows
  <2>3. req'[i] \in Requests
    BY <2>1, <2>2 DEF Requests, Pcs
  <2>4. req' \in [Imports -> Requests] /\ \A j \in Imports \ {i} : req'[j] = req[j]
    BY <1>1, <2>3 DEF ChunkThrows
  <2>5. QED
    BY <2>1, <2>2, <2>4 DEF Requests
<1>3. faults' \in 0..MaxFaults
  BY ImportAssumption DEF ImportAssumption, ChunkThrows, Fault, IInv, TypeOK
<1>4. req[i].chunk \cap req[i].todo = {}
  BY <1>1 DEF Good, Unsaved
<1>5. CASE live' = Stored(i, req[i].held)
  BY SMTT(90), <1>1, <1>2, <1>3, <1>4, <1>5, StepStores DEF ChunkThrows, At
<1>6. CASE UNCHANGED live
  <2>1. Unsaved(i)'
    BY <1>1, <1>2, <1>4, <1>6 DEF Good, Unsaved, At
  <2>2. Working(i) /\ Working(i)'
    BY <1>1, <1>2 DEF Working, At
  <2>3. QED
    BY <1>1, <1>2, <1>3, <1>6, <2>1, <2>2, StepMoves DEF ChunkThrows
<1>7. QED
  BY <1>5, <1>6 DEF ChunkThrows

\* A row is looked up by itself.
LEMMA StepResolveAlone ==
    ASSUME IInv, NEW i \in Imports, NEW e \in Rows, ResolveAlone(i, e)
    PROVE  IInv'
<1>1. req \in [Imports -> Requests] /\ Good(i) /\ At(i, "slow") /\ ~IsHistory(i) /\ e \in req[i].left
  BY DEF IInv, TypeOK, Requests, ResolveAlone, Good, Shape, At
<1>2. /\ req' \in [Imports -> Requests]
      /\ \A j \in Imports \ {i} : req'[j] = req[j]
      /\ req'[i].age = req[i].age /\ req'[i].chunk = req[i].chunk
      /\ req'[i].left = req[i].left \ {e} /\ req'[i].todo = req[i].todo
      /\ \/ InAccount(e) /\ req'[i].pc = "slow" /\ req'[i].held = req[i].held
         \/ ~InAccount(e) /\ req'[i].pc = "create" /\ req'[i].held = {e}
  BY SMTT(30), <1>1 DEF ResolveAlone, At, Requests, Pcs
<1>3. ~InAccount(e) => live[i][e] = 0
  BY DEF InAccount, IInv, TypeOK
<1>4. req[i].held = {} /\ req[i].chunk = {} /\ e \notin req[i].todo
  BY <1>1 DEF Good, Unsaved, At
<1>5. Unsaved(i)'
  BY SMTT(90), <1>1, <1>2, <1>3, <1>4 DEF ResolveAlone, Good, Unsaved, At
<1>6. Working(i) /\ Working(i)'
  BY <1>1, <1>2 DEF Working, At
<1>7. QED
  BY <1>1, <1>2, <1>5, <1>6, StepMoves DEF ResolveAlone, IInv, TypeOK

\* A row is created by itself.
LEMMA StepCreateAlone == ASSUME IInv, NEW i \in Imports, CreateAlone(i) PROVE IInv'
<1>1. req \in [Imports -> Requests] /\ Good(i) /\ At(i, "create")
  BY DEF IInv, TypeOK, Requests, CreateAlone
<1>2. /\ req' \in [Imports -> Requests]
      /\ \A j \in Imports \ {i} : req'[j] = req[j]
      /\ req'[i].pc = "slow" /\ req'[i].age = req[i].age /\ req'[i].chunk = {}
      /\ req'[i].held = {} /\ req'[i].left = req[i].left /\ req'[i].todo = req[i].todo
  BY ZenonT(40), <1>1 DEF CreateAlone, At, Good, Unsaved, Requests, Pcs
<1>3. req[i].left \cap req[i].todo = {}
  BY <1>1 DEF Good, Unsaved
<1>4. QED
  BY ZenonT(40), <1>1, <1>2, <1>3, StepStores DEF CreateAlone, At, IInv, TypeOK

\* A row fails, stored or not, and is left behind.
LEMMA StepRowThrows == ASSUME IInv, NEW i \in Imports, RowThrows(i) PROVE IInv'
<1>1. req \in [Imports -> Requests] /\ Good(i)
  BY DEF IInv, TypeOK, Requests
<1>2. faults' \in 0..MaxFaults
  BY DEF RowThrows, IInv, TypeOK
<1>3. CASE At(i, "create") /\ live' \in {live, Stored(i, req[i].held)}
                           /\ req' = [req EXCEPT ![i].pc = "slow", ![i].held = {}]
  <2>1. /\ req' \in [Imports -> Requests]
        /\ \A j \in Imports \ {i} : req'[j] = req[j]
        /\ req'[i].pc = "slow" /\ req'[i].age = req[i].age /\ req'[i].chunk = {}
        /\ req'[i].held = {} /\ req'[i].left = req[i].left /\ req'[i].todo = req[i].todo
    BY ZenonT(40), <1>1, <1>3 DEF At, Good, Unsaved, Requests, Pcs
  <2>2. req[i].left \cap req[i].todo = {} /\ ~IsHistory(i)
    BY <1>1, <1>3 DEF Good, Unsaved, Shape, At
  <2>3. CASE live' = Stored(i, req[i].held)
    BY <1>2, <1>3, <2>1, <2>2, <2>3, StepStores DEF RowThrows, At
  <2>4. CASE live' = live
    <3>1. Unsaved(i)'
      BY <1>1, <1>3, <2>1, <2>4 DEF Good, Unsaved, At
    <3>2. Working(i) /\ Working(i)'
      BY <1>3, <2>1 DEF Working, At
    <3>3. QED
      BY <1>2, <2>1, <2>2, <2>4, <3>1, <3>2, StepMoves DEF RowThrows
  <2>5. QED
    BY <1>3, <2>3, <2>4
<1>4. CASE At(i, "slow") /\ (\E e \in req[i].left : req' = [req EXCEPT ![i].left = @ \ {e}])
                         /\ UNCHANGED live
  <2>1. PICK e \in req[i].left : req' = [req EXCEPT ![i].left = @ \ {e}]
    BY <1>4
  <2>2. /\ req' \in [Imports -> Requests]
        /\ \A j \in Imports \ {i} : req'[j] = req[j]
        /\ req'[i].pc = "slow" /\ req'[i].age = req[i].age /\ req'[i].chunk = req[i].chunk
        /\ req'[i].held = req[i].held /\ req'[i].left = req[i].left \ {e}
        /\ req'[i].todo = req[i].todo
    BY <1>1, <1>4, <2>1 DEF At, Requests
  <2>3. Unsaved(i)' /\ ~IsHistory(i)
    BY <1>1, <1>4, <2>2 DEF Good, Unsaved, Shape, At
  <2>4. Working(i) /\ Working(i)'
    BY <1>4, <2>2 DEF Working, At
  <2>5. QED
    BY <1>2, <1>4, <2>2, <2>3, <2>4, StepMoves DEF RowThrows
<1>5. QED
  BY <1>3, <1>4 DEF RowThrows

\* The chunk's rows are done with.
LEMMA StepNextChunk == ASSUME IInv, NEW i \in Imports, NextChunk(i) PROVE IInv'
<1>1. req \in [Imports -> Requests] /\ Good(i) /\ At(i, "slow") /\ ~IsHistory(i) /\ req[i].left = {}
  BY DEF IInv, TypeOK, Requests, NextChunk, Good, Shape, At
<1>2. /\ req' \in [Imports -> Requests]
      /\ \A j \in Imports \ {i} : req'[j] = req[j]
      /\ req'[i].pc = "rows" /\ req'[i].age = req[i].age /\ req'[i].chunk = req[i].chunk
      /\ req'[i].held = req[i].held /\ req'[i].left = {} /\ req'[i].todo = req[i].todo
  BY <1>1 DEF NextChunk, Goto, Requests, Pcs
<1>3. Unsaved(i)'
  BY <1>1, <1>2 DEF NextChunk, Good, Unsaved, At
<1>4. Working(i) /\ Working(i)'
  BY <1>1, <1>2 DEF Working, At
<1>5. QED
  BY <1>1, <1>2, <1>3, <1>4, StepMoves DEF NextChunk, IInv, TypeOK

-----------------------------------------------------------------------------
(* The other steps *)

\* A batch that is rolled back has no request: one at work keeps it from being
\* silent for too long.
LEMMA RolledBackIsDead ==
    ASSUME IInv, NEW i \in Imports, RollbackEligible(i)
    PROVE  ~Alive(i)
<1> SUFFICES ASSUME Alive(i) PROVE FALSE
  OBVIOUS
<1>1. req[i].pc \in Pcs /\ req[i].age \in 0..BUDGET /\ batch[i].idle \in 0..Cap
  BY DEF IInv, TypeOK
<1>2. batch[i].status \in {"none", "PENDING", "PROCESSING"}
  BY <1>1 DEF IInv, Good, Shape, At, Working, Alive, Pcs
<1>3. batch[i].status \in Busy /\ Stalled(i)
  BY <1>2 DEF RollbackEligible, Busy
<1>4. batch[i].idle <= req[i].age
  BY <1>3 DEF IInv, Good, Shape
<1>5. QED
  BY <1>1, <1>3, <1>4, ImportAssumption DEF Stalled, ImportAssumption

\* A rollback leaves no row and no claim.
LEMMA StepRollback == ASSUME IInv, NEW i \in Imports, Rollback(i) PROVE IInv'
<1>1. ~Alive(i) /\ Good(i) /\ batch \in [Imports -> Batches] /\ 0 \in 0..Cap
  BY RolledBackIsDead, ImportAssumption DEF Rollback, IInv, TypeOK, Batches, Cap, ImportAssumption
<1>2. /\ batch' \in [Imports -> Batches]
      /\ \A j \in Imports \ {i} : batch'[j] = batch[j]
      /\ batch'[i].status = "ROLLED_BACK" /\ batch'[i].file = batch[i].file
  BY <1>1 DEF Rollback, Batches, Statuses, Terminal
<1>3. /\ live' \in [Imports -> [Rows -> Nat]]
      /\ \A j \in Imports \ {i} : live'[j] = live[j]
      /\ \A e \in Rows : live'[i][e] = 0
  BY DEF Rollback, IInv, TypeOK
<1>4. TypeOK'
  <2>1. deleted' \in [Imports -> SUBSET Rows]
    BY DEF Rollback, IInv, TypeOK
  <2>2. QED
    BY <1>2, <1>3, <2>1 DEF Rollback, IInv, TypeOK, Batches
<1>5. \A j \in Imports \ {i} : Untouched(j)
  BY <1>2, <1>3 DEF Rollback, Untouched
<1>6. req' = req /\ ~At(i, "off")
  BY <1>1 DEF Rollback, RollbackEligible, Busy, Good, Shape
<1>7. Good(i)'
  <2>1. Shape(i)'
    BY <1>1, <1>6 DEF Shape, At, Working, Alive
  <2>2. req[i].todo \cup req[i].chunk \cup req[i].held \subseteq Rows
    BY DEF IInv, TypeOK
  <2>3. Unsaved(i)'
    BY <1>1, <1>3, <1>6, <2>2 DEF Good, Unsaved, At
  <2>4. RowsInUse(i)'
    BY <1>3 DEF RowsInUse
  <2>5. QED
    BY <2>1, <2>3, <2>4 DEF Good
<1>8. ~Claims(i)'
  BY <1>2 DEF Claims, Busy
<1>9. \A e \in Rows : ~Owns(i, e)'
  BY <1>3 DEF Owns
<1>10. QED
  BY <1>4, <1>5, <1>7, <1>8, <1>9, Frame

\* Time takes a request and its batch forward together.
LEMMA StepTick == ASSUME IInv, Tick PROVE IInv'
<1>1. req \in [Imports -> Requests] /\ batch \in [Imports -> Batches]
  BY DEF IInv, TypeOK, Requests, Batches
<1>2. \A i \in Imports :
        /\ req'[i] \in Requests /\ batch'[i] \in Batches
        /\ batch'[i].status = batch[i].status /\ batch'[i].file = batch[i].file
        /\ req'[i].pc = req[i].pc /\ req'[i].todo = req[i].todo
        /\ req'[i].chunk = req[i].chunk /\ req'[i].left = req[i].left
        /\ req'[i].held = req[i].held
        /\ Alive(i) /\ batch[i].idle <= req[i].age => batch'[i].idle <= req'[i].age
  <2> SUFFICES ASSUME NEW i \in Imports
               PROVE  /\ req'[i] \in Requests /\ batch'[i] \in Batches
                      /\ batch'[i].status = batch[i].status /\ batch'[i].file = batch[i].file
                      /\ req'[i].pc = req[i].pc /\ req'[i].todo = req[i].todo
                      /\ req'[i].chunk = req[i].chunk /\ req'[i].left = req[i].left
                      /\ req'[i].held = req[i].held
                      /\ Alive(i) /\ batch[i].idle <= req[i].age => batch'[i].idle <= req'[i].age
    OBVIOUS
  <2>1. /\ req[i] \in Requests /\ batch[i] \in Batches
        /\ req[i].age \in 0..BUDGET /\ batch[i].idle \in 0..Cap /\ BUDGET \in Nat /\ Cap \in Nat
    BY <1>1, ImportAssumption DEF Requests, Batches, Cap, ImportAssumption
  <2>2. req'[i] = IF Alive(i) THEN [req[i] EXCEPT !.age = @ + 1] ELSE req[i]
    BY DEF Tick
  <2>3. Alive(i) => req[i].age + 1 \in 0..BUDGET
    BY <2>1 DEF Tick
  <2>4. batch'[i] = IF batch[i].status \in Busy /\ batch[i].idle < Cap
                    THEN [batch[i] EXCEPT !.idle = @ + 1] ELSE batch[i]
    BY DEF Tick
  <2>5. /\ req'[i] \in Requests
        /\ req'[i].pc = req[i].pc /\ req'[i].todo = req[i].todo
        /\ req'[i].chunk = req[i].chunk /\ req'[i].left = req[i].left
        /\ req'[i].held = req[i].held
        /\ req'[i].age = IF Alive(i) THEN req[i].age + 1 ELSE req[i].age
    BY <2>1, <2>2, <2>3 DEF Requests
  <2>6. /\ batch'[i] \in Batches
        /\ batch'[i].status = batch[i].status /\ batch'[i].file = batch[i].file
        /\ batch'[i].idle <= batch[i].idle + 1
    BY <2>1, <2>4 DEF Batches
  <2>7. batch'[i].idle \in 0..Cap
    BY <2>6 DEF Batches
  <2>8. QED
    BY <2>1, <2>5, <2>6, <2>7
<1>3. TypeOK'
  <2>1. req' \in [Imports -> Requests] /\ batch' \in [Imports -> Batches]
    BY <1>2 DEF Tick
  <2>2. QED
    BY <2>1 DEF Tick, IInv, TypeOK, Requests, Batches
<1>4. ASSUME NEW i \in Imports PROVE Good(i)'
  <2>1. Good(i) /\ live' = live
    BY DEF IInv, Tick
  <2>2. Shape(i)'
    BY <1>2, <2>1 DEF Good, Shape, At, Working, Alive, File, IsHistory
  <2>3. Unsaved(i)' /\ RowsInUse(i)'
    BY <1>2, <2>1 DEF Good, Unsaved, RowsInUse, At
  <2>4. QED
    BY <2>2, <2>3 DEF Good
<1>5. OneClaim'
  BY <1>2 DEF IInv, OneClaim, Claims, IsHistory, File
<1>6. OneOwner'
  BY <1>2 DEF Tick, IInv, OneOwner, Owns, IsHistory, File
<1>7. QED
  BY <1>3, <1>4, <1>5, <1>6 DEF IInv

-----------------------------------------------------------------------------
(* The invariant *)

\* Nothing has been uploaded at first.
LEMMA InitIInv == Init => IInv
<1> SUFFICES ASSUME Init PROVE IInv
  OBVIOUS
<1>1. \A i \in Imports : /\ req[i] = NoRequest /\ batch[i].status = "none"
                         /\ \A e \in Rows : live[i][e] = 0
  BY DEF Init
<1>2. TypeOK
  <2>1. 0 \in 0..Cap /\ 0 \in 0..MaxFaults
    BY ImportAssumption DEF ImportAssumption, Cap
  <2>2. batch \in [Imports -> Batches] /\ req \in [Imports -> Requests]
    BY <2>1, NoRequestTyped DEF Init, Batches, Statuses
  <2>3. QED
    BY <2>1, <2>2 DEF Init, TypeOK, Batches, Requests
<1>3. ASSUME NEW i \in Imports PROVE Good(i)
  <2>1. Shape(i)
    BY <1>1 DEF Shape, NoRequest, At, Working, Alive
  <2>2. Unsaved(i) /\ RowsInUse(i)
    BY <1>1 DEF Unsaved, RowsInUse, NoRequest
  <2>3. QED
    BY <2>1, <2>2 DEF Good
<1>4. OneClaim /\ OneOwner
  BY <1>1 DEF OneClaim, Claims, Busy, OneOwner, Owns
<1>5. QED
  BY <1>2, <1>3, <1>4 DEF IInv

\* A fault more is still within the bound.
LEMMA FaultTyped == ASSUME TypeOK, Fault PROVE faults' \in 0..MaxFaults
BY ImportAssumption DEF ImportAssumption, Fault, TypeOK

\* Every step of one request keeps the invariant.
LEMMA StepProceeds == ASSUME IInv, NEW i \in Imports, Proceeds(i) PROVE IInv'
<1>1. CASE Claim(i)
  BY <1>1, StepClaim
<1>2. CASE ClaimRefused(i)
  BY <1>2, StepEnds DEF ClaimRefused, IInv, TypeOK
<1>3. CASE ParseFails(i)
  <2>1. faults' \in 0..MaxFaults
    BY <1>3, FaultTyped DEF ParseFails, IInv, TypeOK
  <2>2. QED
    BY <1>3, <2>1, StepEnds DEF ParseFails
<1>4. CASE StartRows(i)
  BY <1>4, StepStartRows
<1>5. CASE OpenChunk(i)
  BY <1>5, StepOpenChunk
<1>6. CASE CommitChunk(i)
  BY <1>6, StepCommitChunk
<1>7. CASE CreateAlone(i)
  BY <1>7, StepCreateAlone
<1>8. CASE NextChunk(i)
  BY <1>8, StepNextChunk
<1>9. CASE Complete(i)
  BY <1>9, StepEnds DEF Complete, IInv, TypeOK
<1>10. CASE OpenHistory(i)
  BY <1>10, StepOpenHistory
<1>11. ASSUME NEW e \in Rows, ResolveInChunk(i, e) PROVE IInv'
  BY <1>11, StepResolveInChunk
<1>12. ASSUME NEW e \in Rows, ResolveAlone(i, e) PROVE IInv'
  BY <1>12, StepResolveAlone
<1>13. ASSUME NEW e \in Rows, HistoryRow(i, e) PROVE IInv'
  BY <1>13, StepHistoryRow
<1>14. ASSUME NEW e \in Rows, HistoryRowRefused(i, e) PROVE IInv'
  BY <1>14, StepEnds DEF HistoryRowRefused, IInv, TypeOK
<1>15. QED
  BY <1>1, <1>2, <1>3, <1>4, <1>5, <1>6, <1>7, <1>8, <1>9, <1>10, <1>11, <1>12, <1>13, <1>14
  DEF Proceeds

\* Every step keeps the invariant.
LEMMA StepIInv == IInv /\ [Next]_vars => IInv'
<1> SUFFICES ASSUME IInv, [Next]_vars PROVE IInv'
  OBVIOUS
<1>1. CASE Tick
  BY <1>1, StepTick
<1>2. ASSUME NEW i \in Imports, Begin(i) PROVE IInv'
  BY <1>2, StepBegin
<1>3. ASSUME NEW i \in Imports, Proceeds(i) PROVE IInv'
  BY <1>3, StepProceeds
<1>4. ASSUME NEW i \in Imports, ChunkThrows(i) PROVE IInv'
  BY <1>4, StepChunkThrows
<1>5. ASSUME NEW i \in Imports, RowThrows(i) PROVE IInv'
  BY <1>5, StepRowThrows
<1>6. ASSUME NEW i \in Imports, Dies(i) PROVE IInv'
  <2>1. faults' \in 0..MaxFaults
    BY <1>6, FaultTyped DEF Dies, IInv
  <2>2. QED
    BY <1>6, <2>1, StepEnds DEF Dies
<1>7. ASSUME NEW i \in Imports, Rollback(i) PROVE IInv'
  BY <1>7, StepRollback
<1>8. CASE UNCHANGED vars
  BY <1>8 DEF vars, IInv, TypeOK, Good, Shape, Unsaved, RowsInUse, OneClaim, Claims, OneOwner,
     Owns, At, File, IsHistory, Working, Alive
<1>9. QED
  BY <1>1, <1>2, <1>3, <1>4, <1>5, <1>6, <1>7, <1>8 DEF Next

\* The invariant holds throughout.
LEMMA IInvHolds == Spec => []IInv
BY InitIInv, StepIInv, PTL DEF Spec

-----------------------------------------------------------------------------
(* The theorems *)

\* Type correctness, for any uploads, files, chunk size and budget.
THEOREM TypeCorrect == Spec => []TypeOK
<1>1. IInv => TypeOK
  BY DEF IInv
<1>2. QED
  BY <1>1, IInvHolds, PTL

\* The account never holds a row of a file twice through imports of that file.
THEOREM RowsAreOnce == Spec => []OneCopyPerFile
<1>1. IInv => OneCopyPerFile
  <2> SUFFICES ASSUME IInv, NEW f \in Files, NEW e \in RowsOf[f],
                      NEW i \in Imports, NEW j \in Imports
               PROVE  /\ File(i) = f => live[i][e] <= 1
                      /\ i # j /\ File(i) = f /\ File(j) = f => live[i][e] = 0 \/ live[j][e] = 0
    BY DEF OneCopyPerFile
  <2>1. e \in Rows
    BY RowsOfFile
  <2>2. /\ live[i][e] \in Nat /\ live[j][e] \in Nat
        /\ RowsInUse(i) /\ RowsInUse(j)
    BY <2>1 DEF IInv, TypeOK, Good
  <2>3. ASSUME i # j, File(i) = f, File(j) = f, live[i][e] > 0, live[j][e] > 0
        PROVE  FALSE
    <3>1. CASE f \in Histories
      BY <2>1, <2>3, <3>1 DEF IInv, OneOwner, Owns, IsHistory
    <3>2. CASE f \notin Histories
      <4>1. Claims(i) /\ Claims(j)
        BY <2>1, <2>2, <2>3, <3>2 DEF RowsInUse, Claims, IsHistory, Busy
      <4>2. QED
        BY <2>3, <4>1 DEF IInv, OneClaim
    <3>3. QED
      BY <3>1, <3>2
  <2>4. QED
    BY <2>1, <2>2, <2>3 DEF RowsInUse
<1>2. QED
  BY <1>1, IInvHolds, PTL

\* What is rolled back stays without rows: its request is dead.
THEOREM RolledBackIsEmpty == Spec => []RolledBackStaysEmpty
<1>1. IInv => RolledBackStaysEmpty
  BY SMTT(30) DEF IInv, TypeOK, Good, RowsInUse, RolledBackStaysEmpty
<1>2. QED
  BY <1>1, IInvHolds, PTL

\* A verdict is given once, though the writes are keyed on the id alone.
THEOREM ImportVerdictsStand == Spec => VerdictsStand
<1>1. IInv /\ [Next]_vars =>
        [\A i \in Imports : batch[i].status \in Terminal =>
           batch'[i].status \in {batch[i].status, "ROLLED_BACK"}]_batch
  <2> SUFFICES ASSUME IInv, [Next]_vars, NEW i \in Imports, batch[i].status \in Terminal,
                      batch'[i].status # batch[i].status
               PROVE  batch'[i].status = "ROLLED_BACK"
    OBVIOUS
  <2>1. batch \in [Imports -> Batches] /\ Good(i)
    BY DEF IInv, TypeOK, Batches
  <2>2. ~At(i, "claim") /\ ~At(i, "parse") /\ ~At(i, "rows")
    BY <2>1 DEF Good, Shape, Working, At, Terminal
  <2>3. ~UNCHANGED batch
    OBVIOUS
  <2>4. ~Tick
    BY <2>1 DEF Tick, Batches
  <2>5. PICK k \in Imports : Begin(k) \/ Proceeds(k) \/ Rollback(k)
    BY <2>3, <2>4 DEF Next, vars, ChunkThrows, RowThrows, Dies
  <2>6. ~Begin(k)
    BY <2>1 DEF Begin, Batches
  <2>7. CASE Proceeds(k)
    <3>1. Claim(k) \/ ParseFails(k) \/ StartRows(k) \/ Complete(k) \/ OpenHistory(k)
      BY <2>3, <2>7 DEF Proceeds, ClaimRefused, OpenChunk, CommitChunk, CreateAlone, NextChunk,
         ResolveInChunk, ResolveAlone, HistoryRow, HistoryRowRefused
    <3>2. k = i
      BY <2>1, <3>1 DEF Claim, ParseFails, StartRows, Complete, OpenHistory, Written
    <3>3. QED
      BY <2>2, <3>1, <3>2 DEF Claim, ParseFails, StartRows, Complete, OpenHistory
  <2>8. CASE Rollback(k)
    BY <2>1, <2>8 DEF Rollback, Batches
  <2>9. QED
    BY <2>5, <2>6, <2>7, <2>8
<1>2. QED
  BY <1>1, IInvHolds, PTL DEF Spec, VerdictsStand
=============================================================================
