------------------------------ MODULE ImportJob ------------------------------
(***************************************************************************)
(* Import jobs: the bulk import of products and stock                      *)
(* (import-export/import-export.service.ts) and of historical sales        *)
(* (historical-sales/historical-sales.service.ts).  A job is previewed, its*)
(* rows are checkpoints, and it is committed by handlers that may run at   *)
(* the same time, fail, or die with their process.  Each statement outside *)
(* a transaction, and each transaction, is a step.                         *)
(***************************************************************************)
EXTENDS Integers, FiniteSets

CONSTANTS Job, Handler,
          Products,     \* the jobs of a product import, the others are of sales
          RowOf,        \* [Job -> the row numbers of its file]
          HashOf,       \* [Job -> [its rows -> sourceRowHash]], of sales
          Overlapping,  \* [Job -> the rows, of sales, not before the first native sale]
          Skipped,      \* [Job -> the rows of a CREATE_ONLY import whose SKU exists]
          ChunkSize     \* rows of one transaction (100 in the code)

VARIABLES status,    \* of each job; "ABSENT" before its preview
          row,       \* [Job -> [its rows -> status of the checkpoint]]
          expired,   \* the jobs whose expiresAt has passed
          applied,   \* [Job -> [its rows -> times its effect was committed]]
          sales,     \* the source row hashes of historical_sales
          died,      \* the jobs a handler was committing when it died
          handler    \* what each handler does next, and with what

vars == <<status, row, expired, applied, sales, died, handler>>

Free == [pc |-> "free"]
Loaded == {"PENDING", "FAILED"}

Init ==
    /\ status = [j \in Job |-> "ABSENT"]
    /\ row = [j \in Job |-> [r \in RowOf[j] |-> "PENDING"]]
    /\ expired = {}
    /\ applied = [j \in Job |-> [r \in RowOf[j] |-> 0]]
    /\ sales = {}
    /\ died = {}
    /\ handler = [h \in Handler |-> Free]

At(h, pc) == handler[h].pc = pc
Of(h) == handler[h].job
Goto(h, pc) == handler' = [handler EXCEPT ![h].pc = pc]
GoOn(h, pc, todo) == handler' = [handler EXCEPT ![h] = [pc |-> pc, job |-> Of(h), todo |-> todo]]
Leave(h) == handler' = [handler EXCEPT ![h] = Free]
Enter(h, j, pc, todo) ==
    /\ handler[h] = Free
    /\ handler' = [handler EXCEPT ![h] = [pc |-> pc, job |-> j, todo |-> todo]]

RowsIn(j, states) == {r \in RowOf[j] : row[j][r] \in states}
Chunk(h) == LET todo == handler[h].todo     \* the first rows of the file left to do
            IN  {r \in todo : Cardinality({s \in todo : s < r}) < ChunkSize}
SetRows(j, rows, to) == row' = [row EXCEPT ![j] = [r \in RowOf[j] |-> IF r \in rows THEN to ELSE @[r]]]

(* The preview of a sales file marks the rows already in the history or    *)
(* higher up in the file, and those of the time since the store sells with *)
(* this program, whose sales are known from its orders.  (A product import *)
(* with an invalid row is never committed: the jobs of Products have none.)*)
Duplicate(j, r) ==
    \/ HashOf[j][r] \in sales
    \/ \E s \in RowOf[j] : s < r /\ HashOf[j][s] = HashOf[j][r]

CreateJob(j) ==
    /\ status[j] = "ABSENT"
    /\ status' = [status EXCEPT ![j] = "PREVIEWED"]
    /\ UNCHANGED <<expired, applied, sales, died, handler>>

PreviewProducts(j) ==
    /\ j \in Products
    /\ CreateJob(j)
    /\ UNCHANGED row

PreviewSales(j) ==
    /\ j \notin Products
    /\ CreateJob(j)
    /\ SetRows(j, {r \in RowOf[j] : r \in Overlapping[j] \/ Duplicate(j, r)}, "SKIPPED")

Expire(j) ==
    /\ status[j] # "ABSENT"
    /\ j \notin expired
    /\ expired' = expired \cup {j}
    /\ UNCHANGED <<status, row, applied, sales, died, handler>>

(* Decided from the first read of the job: whether it has expired, or may  *)
(* be committed.                                                           *)
ReadProducts(h, j) ==
    /\ j \in Products
    /\ \/ /\ status[j] = "EXPIRED" \/ (status[j] \in {"PREVIEWED", "FAILED"} /\ j \in expired)
          /\ Enter(h, j, "expire", {})
       \/ /\ status[j] \in {"PREVIEWED", "FAILED"}
          /\ j \notin expired
          /\ Enter(h, j, "take", {})
    /\ UNCHANGED <<status, row, expired, applied, sales, died>>

ReadSales(h, j) ==
    /\ j \notin Products
    /\ status[j] = "PREVIEWED"
    /\ \/ /\ j \in expired
          /\ Enter(h, j, "expire", {})
       \/ /\ j \notin expired
          /\ RowsIn(j, {"PENDING"}) # {}
          /\ Enter(h, j, "insert", RowsIn(j, {"PENDING"}))
    /\ UNCHANGED <<status, row, expired, applied, sales, died>>

MarkExpired(h) ==
    /\ At(h, "expire")
    /\ status' = [status EXCEPT ![Of(h)] = "EXPIRED"]
    /\ Leave(h)
    /\ UNCHANGED <<row, expired, applied, sales, died>>

(* Mutant of Take: the status read first is relied on. *)
TakeUnguarded(h) ==
    /\ At(h, "take")
    /\ status' = [status EXCEPT ![Of(h)] = "COMMITTING"]
    /\ Goto(h, "load")
    /\ UNCHANGED <<row, expired, applied, sales, died>>

(* PREVIEWED or FAILED becomes COMMITTING, or the handler gives up. *)
Take(h) ==
    /\ At(h, "take")
    /\ IF status[Of(h)] \in {"PREVIEWED", "FAILED"}
       THEN /\ status' = [status EXCEPT ![Of(h)] = "COMMITTING"]
            /\ Goto(h, "load")
       ELSE UNCHANGED status /\ Leave(h)
    /\ UNCHANGED <<row, expired, applied, sales, died>>

(* No row may be left: the job was interrupted before it was completed. *)
Load(h) ==
    /\ At(h, "load")
    /\ LET todo == RowsIn(Of(h), Loaded)
       IN  GoOn(h, IF todo = {} THEN "finish" ELSE "mark", todo)
    /\ UNCHANGED <<status, row, expired, applied, sales, died>>

MarkChunk(h) ==
    /\ At(h, "mark")
    /\ SetRows(Of(h), Chunk(h), "PROCESSING")
    /\ Goto(h, "apply")
    /\ UNCHANGED <<status, expired, applied, sales, died>>

(* The rows of a chunk take effect with their checkpoints, or none does.   *)
Effect(j, rows) ==
    /\ row' = [row EXCEPT ![j] = [r \in RowOf[j] |->
                 IF r \notin rows THEN @[r] ELSE IF r \in Skipped[j] THEN "SKIPPED" ELSE "COMPLETED"]]
    /\ applied' = [applied EXCEPT ![j] = [r \in RowOf[j] |->
                     IF r \in rows \ Skipped[j] THEN @[r] + 1 ELSE @[r]]]

(* Committed; that is what the handler may not get to know ("fail").        *)
ApplyChunk(h) ==
    /\ At(h, "apply")
    /\ Effect(Of(h), Chunk(h))
    /\ LET rest == handler[h].todo \ Chunk(h)
       IN  \E pc \in {IF rest = {} THEN "finish" ELSE "mark", "fail"} : GoOn(h, pc, rest)
    /\ UNCHANGED <<status, expired, sales, died>>

(* A row of the chunk is refused, or a transaction fails: the catch block. *)
StepFails(h) ==
    /\ handler[h].pc \in {"load", "mark", "apply", "finish"}
    /\ Goto(h, "fail")
    /\ UNCHANGED <<status, row, expired, applied, sales, died>>

(* Mutant of FailRows: the job is marked before its rows. *)
FailJobFirst(h) ==
    /\ At(h, "fail")
    /\ status' = [status EXCEPT ![Of(h)] = "FAILED"]
    /\ Goto(h, "failJob")
    /\ UNCHANGED <<row, expired, applied, sales, died>>

FailRows(h) ==
    /\ At(h, "fail")
    /\ SetRows(Of(h), RowsIn(Of(h), {"PROCESSING"}), "FAILED")
    /\ Goto(h, "failJob")
    /\ UNCHANGED <<status, expired, applied, sales, died>>

(* Mutant of FailJob: the error is passed on, the job stays as it is. *)
FailJobSilently(h) ==
    /\ At(h, "failJob")
    /\ Leave(h)
    /\ UNCHANGED <<status, row, expired, applied, sales, died>>

FailJob(h) ==
    /\ At(h, "failJob")
    /\ status' = [status EXCEPT ![Of(h)] = "FAILED"]
    /\ Leave(h)
    /\ UNCHANGED <<row, expired, applied, sales, died>>

Finish(h) ==
    /\ At(h, "finish")
    /\ status' = [status EXCEPT ![Of(h)] = "COMPLETED"]
    /\ Leave(h)
    /\ UNCHANGED <<row, expired, applied, sales, died>>

(* Mutant of InsertSales: without the unique index on the hash. *)
InsertSalesAgain(h) ==
    /\ At(h, "insert")
    /\ LET j == Of(h)
           todo == handler[h].todo
       IN  /\ sales' = sales \cup {HashOf[j][r] : r \in todo}
           /\ applied' = [applied EXCEPT ![j] = [r \in RowOf[j] |-> IF r \in todo THEN @[r] + 1 ELSE @[r]]]
           /\ SetRows(j, RowsIn(j, {"PENDING"}), "COMPLETED")
           /\ status' = [status EXCEPT ![j] = "COMPLETED"]
    /\ Leave(h)
    /\ UNCHANGED <<expired, died>>

(* One transaction for all the rows read: those whose hash is new become   *)
(* sales, the others are skipped by the unique index.                      *)
InsertSales(h) ==
    /\ At(h, "insert")
    /\ LET j == Of(h)
           todo == handler[h].todo
           fresh == {r \in todo : HashOf[j][r] \notin sales}
       IN  /\ sales' = sales \cup {HashOf[j][r] : r \in todo}
           /\ applied' = [applied EXCEPT ![j] = [r \in RowOf[j] |-> IF r \in fresh THEN @[r] + 1 ELSE @[r]]]
           /\ SetRows(j, RowsIn(j, {"PENDING"}), "COMPLETED")
           /\ status' = [status EXCEPT ![j] = "COMPLETED"]
    /\ Leave(h)
    /\ UNCHANGED <<expired, died>>

(* The process of the handler dies, or it cannot reach the database.       *)
Die(h) ==
    /\ handler[h] # Free
    /\ died' = IF handler[h].pc \in {"expire", "take", "insert"} THEN died ELSE died \cup {Of(h)}
    /\ Leave(h)
    /\ UNCHANGED <<status, row, expired, applied, sales>>

Step(h) ==
    \/ MarkExpired(h) \/ Take(h) \/ Load(h) \/ MarkChunk(h) \/ ApplyChunk(h)
    \/ FailRows(h) \/ FailJob(h) \/ Finish(h) \/ InsertSales(h)

Next ==
    \/ \E j \in Job : PreviewProducts(j) \/ PreviewSales(j) \/ Expire(j)
    \/ \E h \in Handler, j \in Job : ReadProducts(h, j) \/ ReadSales(h, j)
    \/ \E h \in Handler : Step(h) \/ StepFails(h) \/ Die(h)

Spec == Init /\ [][Next]_vars

(* A handler keeps running unless it dies. *)
FairSpec == Spec /\ \A h \in Handler : WF_vars(Step(h))
-----------------------------------------------------------------------------
JobStatus == {"ABSENT", "PREVIEWED", "COMMITTING", "COMPLETED", "FAILED", "EXPIRED"}
RowStatus == {"PENDING", "PROCESSING", "COMPLETED", "SKIPPED", "FAILED"}
Pc == {"free", "expire", "take", "load", "mark", "apply", "fail", "failJob", "finish", "insert"}

(* Types; a handler that processes a chunk has rows to process.            *)
TypeOK ==
    /\ status \in [Job -> JobStatus]
    /\ \A j \in Job : row[j] \in [RowOf[j] -> RowStatus] /\ applied[j] \in [RowOf[j] -> Nat]
    /\ expired \subseteq Job /\ died \subseteq Job
    /\ \A h \in Handler : handler[h].pc \in Pc
    /\ \A h \in Handler : handler[h] # Free =>
          /\ Of(h) \in Job
          /\ handler[h].todo \subseteq RowOf[Of(h)]
          /\ handler[h].pc \in {"mark", "apply", "insert"} => handler[h].todo # {}

(* However often an import is committed, interrupted and resumed, and      *)
(* whoever else commits it, a row takes effect at most once, and its       *)
(* checkpoint says whether it did.                                         *)
RowAppliedOnce ==
    \A j \in Products : \A r \in RowOf[j] :
        applied[j][r] = IF row[j][r] = "COMPLETED" THEN 1 ELSE 0

(* Files that overlap, committed together or twice, record a sale once, and*)
(* never one that an order of this program has recorded already.           *)
SaleRows == UNION {{j} \X RowOf[j] : j \in Job \ Products}
RecordedBy(hash, jr) == HashOf[jr[1]][jr[2]] = hash /\ applied[jr[1]][jr[2]] > 0
SaleRecordedOnce ==
    /\ \A hash \in sales : \E jr \in SaleRows :
          /\ RecordedBy(hash, jr)
          /\ applied[jr[1]][jr[2]] = 1
          /\ \A other \in SaleRows : RecordedBy(hash, other) => other = jr
    /\ \A j \in Job \ Products : \A r \in Overlapping[j] : applied[j][r] = 0

(* A job reported as completed has applied or skipped all its rows, and one*)
(* that can be committed again will load every row that it has not.        *)
NoRowLost ==
    \A j \in Products :
        /\ status[j] = "COMPLETED" => RowsIn(j, Loaded \cup {"PROCESSING"}) = {}
        /\ status[j] \in {"PREVIEWED", "FAILED"} => RowsIn(j, {"PROCESSING"}) = {}

(* An import under way comes to an end, unless its handler dies with it.   *)
ImportEnds == \A j \in Job : status[j] = "COMMITTING" ~> status[j] # "COMMITTING" \/ j \in died
=============================================================================
