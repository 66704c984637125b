----------------------------- MODULE DataStore ------------------------------
(***************************************************************************)
(* src/data_store.cpp: the logger's insert and a web handler's recent run  *)
(* on ONE SQLite connection; nothing but the mutex inside SQLite keeps     *)
(* them apart, so they interleave between any two sqlite3_ calls.  Another *)
(* process (the sqlite3 shell of README.md, a backup) can hold a lock on   *)
(* the file, the disk can fail, and the program can be killed and started  *)
(* again.  No busy timeout is set: a call that meets a lock returns at     *)
(* once.  The journal mode is SQLite's default, a rollback journal.        *)
(*                                                                         *)
(* The id of a row is its place in the table: rows are never deleted, and  *)
(* a rollback takes the ids back too.  One reader is enough: readers do    *)
(* not change the table.                                                   *)
(***************************************************************************)
EXTENDS Naturals, Sequences

CONSTANTS
  Size,      \* the logger's b-th batch has Size[b] records (and no more batches)
  Limit,     \* argument of recent
  Faults     \* which failures happen in an instance

Failures == {"extReader", "extWriter", "diskInsert", "diskCommit", "diskRead"}

(* The decoder does not queue an empty batch (main.cpp:111).               *)
ASSUME SizeAssumption == Size \in Seq(Nat \ {0})

ASSUME LimitAssumption == Limit \in Nat \ {0}

ASSUME FaultsAssumption == Faults \subseteq Failures

VARIABLES
  db,         \* the connection: closed, open, or ready when init succeeded
  table,      \* the table exists
  committed,  \* rows of the table on disk, in order of id
  pending,    \* rows of the open transaction
  inTx,       \* the connection is inside BEGIN ... COMMIT
  undone,     \* history: a rollback took rows back while recent ran
  ext,        \* lock held by the other process
  logger,     \* where insert is
  batch,      \* its argument, 0 before the first call
  ok,         \* its local variable
  acked,      \* history: batches whose insert returned true
  refused,    \* history: batches whose insert returned false
  lost,       \* history: a COMMIT has failed
  reader,     \* where recent is
  cursor,     \* id of the row its statement is at
  answer,     \* its local variable out
  floor       \* history: rows that were committed when it started

Batches == 1 .. Len(Size)

handle == <<db, table>>
file == <<committed, pending, inTx, undone>>
told == <<acked, refused, lost>>
insert == <<logger, batch, ok, told>>
recent == <<reader, cursor, answer, floor>>
vars == <<handle, file, ext, insert, recent>>

RowsOf(b) == [k \in 1 .. Size[b] |-> [batch |-> b, part |-> k]]

Rows == [batch : Batches, part : Nat \ {0}]

LoggerLocs == {"idle", "begin", "step", "finish", "return"}
ReaderLocs == {"idle", "rows", "answered"}

TypeOK ==
  /\ db \in {"closed", "open", "ready"} /\ table \in BOOLEAN
  /\ committed \in Seq(Rows) /\ pending \in Seq(Rows)
  /\ inTx \in BOOLEAN /\ undone \in BOOLEAN /\ lost \in BOOLEAN
  /\ ext \in {"none", "reading", "writing"}
  /\ logger \in LoggerLocs /\ batch \in Batches \union {0} /\ ok \in BOOLEAN
  /\ acked \in SUBSET Batches /\ refused \in SUBSET Batches
  /\ reader \in ReaderLocs /\ cursor \in Nat /\ floor \in Nat
  /\ answer \in Seq(Rows) /\ Len(answer) <= Limit

Init ==
  /\ db = "closed" /\ table = FALSE
  /\ committed = << >> /\ pending = << >> /\ inTx = FALSE /\ undone = FALSE
  /\ ext = "none"
  /\ logger = "idle" /\ batch = 0 /\ ok = TRUE
  /\ acked = {} /\ refused = {} /\ lost = FALSE
  /\ reader = "idle" /\ cursor = 0 /\ answer = << >> /\ floor = 0

-----------------------------------------------------------------------------
(* open, init and close                                                    *)

DbGoto(from, to) ==
  /\ db = from /\ db' = to
  /\ UNCHANGED <<ext, insert>>

(* sqlite3_open reads nothing of the file yet.                             *)
Open == DbGoto("closed", "open") /\ UNCHANGED <<table, file, recent>>

(* A table that exists is looked up, for which a lock of a reader is no    *)
(* obstacle.                                                               *)
CreateTable ==
  /\ DbGoto("open", "ready")
  /\ ext = "none" \/ (ext = "reading" /\ table)
  /\ table' = TRUE
  /\ UNCHANGED <<file, recent>>

(* main returns 1, and its DataStore is closed.                            *)
CreateTableFails ==
  /\ DbGoto("open", "closed")
  /\ \/ ext = "writing"
     \/ ext = "reading" /\ ~table
     \/ Faults \intersect {"diskInsert", "diskCommit", "diskRead"} # {}
  /\ UNCHANGED <<table, file, recent>>

(* main closes when the logger and the web server have ended; a            *)
(* transaction that is open is rolled back.                                *)
Close ==
  /\ logger = "idle" /\ reader # "rows"
  /\ DbGoto("ready", "closed")
  /\ pending' = << >> /\ inTx' = FALSE
  /\ reader' = "idle" /\ answer' = << >>
  /\ UNCHANGED <<table, committed, undone, cursor, floor>>

LifeStep == Open \/ CreateTable \/ CreateTableFails \/ Close

-----------------------------------------------------------------------------
(* insert                                                                  *)

LoggerGoto(from, to) ==
  /\ logger = from /\ logger' = to
  /\ UNCHANGED <<handle, ext, recent>>

(* SQLite rolls the transaction back.                                      *)
Undo ==
  /\ pending' = << >> /\ inTx' = FALSE
  /\ undone' = (undone \/ (pending # << >> /\ reader = "rows"))
  /\ UNCHANGED committed

(* The call, up to sqlite3_prepare_v2.                                     *)
Prepare ==
  /\ db = "ready" /\ batch + 1 \in Batches
  /\ LoggerGoto("idle", "begin")
  /\ batch' = batch + 1
  /\ ok' = TRUE
  /\ UNCHANGED <<file, told>>

(* The statement cannot be prepared: SQLite fails to read the schema.      *)
PrepareFails ==
  /\ db = "ready" /\ batch + 1 \in Batches
  /\ ext = "writing" \/ "diskRead" \in Faults
  /\ LoggerGoto("idle", "return")
  /\ batch' = batch + 1
  /\ ok' = FALSE
  /\ UNCHANGED <<file, told>>

(* BEGIN is deferred: it takes no lock and fails only inside a transaction.*)
Begin ==
  /\ ~inTx
  /\ LoggerGoto("begin", "step")
  /\ inTx' = TRUE
  /\ UNCHANGED <<committed, pending, undone, batch, ok, told>>

(* Fault: no transaction, every record commits by itself.                  *)
StepAutocommit ==
  /\ LoggerGoto("step", "step")
  /\ Len(pending) < Size[batch]
  /\ committed' = Append(committed, RowsOf(batch)[Len(pending) + 1])
  /\ pending' = Append(pending, RowsOf(batch)[Len(pending) + 1])
  /\ UNCHANGED <<inTx, undone, batch, ok, told>>

BeginFails ==
  /\ inTx
  /\ LoggerGoto("begin", "return")
  /\ ok' = FALSE
  /\ UNCHANGED <<file, batch, told>>

(* One sqlite3_step of the INSERT.  The first one takes the write lock.    *)
Step ==
  /\ LoggerGoto("step", "step")
  /\ Len(pending) < Size[batch]
  /\ ext # "writing"
  /\ pending' = Append(pending, RowsOf(batch)[Len(pending) + 1])
  /\ UNCHANGED <<committed, inTx, undone, batch, ok, told>>

StepBusy ==
  /\ ext = "writing"
  /\ LoggerGoto("step", "finish")
  /\ ok' = FALSE
  /\ UNCHANGED <<file, batch, told>>

(* The disk is full or fails; SQLite may already roll back by itself.      *)
StepFails ==
  /\ LoggerGoto("step", "finish")
  /\ "diskInsert" \in Faults
  /\ Len(pending) < Size[batch]
  /\ ok' = FALSE
  /\ UNCHANGED file \/ Undo
  /\ UNCHANGED <<batch, told>>

StepsDone ==
  /\ LoggerGoto("step", "finish")
  /\ Len(pending) = Size[batch]
  /\ UNCHANGED <<file, batch, ok, told>>

(* Fault: COMMIT even when a record failed.                                *)
CommitAnyway ==
  /\ ext # "reading"
  /\ LoggerGoto("finish", "return")
  /\ committed' = committed \o pending /\ pending' = << >> /\ inTx' = FALSE
  /\ UNCHANGED <<undone, batch, ok, told>>

Commit ==
  /\ ok
  /\ ext # "reading"
  /\ LoggerGoto("finish", "return")
  /\ committed' = committed \o pending /\ pending' = << >> /\ inTx' = FALSE
  /\ UNCHANGED <<undone, batch, ok, told>>

(* SQLITE_BUSY: the transaction stays open.  insert ignores the result.    *)
CommitBusy ==
  /\ ok
  /\ ext = "reading"
  /\ LoggerGoto("finish", "return")
  /\ lost' = TRUE
  /\ UNCHANGED <<file, batch, ok, acked, refused>>

(* The disk fails: SQLite rolls back.  insert ignores the result.          *)
CommitFails ==
  /\ ok
  /\ "diskCommit" \in Faults
  /\ LoggerGoto("finish", "return")
  /\ lost' = TRUE
  /\ Undo /\ UNCHANGED <<batch, ok, acked, refused>>

(* Without effect when SQLite has rolled back already.                     *)
Rollback ==
  /\ ~ok
  /\ LoggerGoto("finish", "return")
  /\ Undo /\ UNCHANGED <<batch, ok, told>>

Return ==
  /\ LoggerGoto("return", "idle")
  /\ acked' = IF ok THEN acked \union {batch} ELSE acked
  /\ refused' = IF ok THEN refused ELSE refused \union {batch}
  /\ UNCHANGED <<file, batch, ok, lost>>

InsertStep ==
  \/ Prepare \/ PrepareFails \/ Begin \/ BeginFails
  \/ Step \/ StepBusy \/ StepFails \/ StepsDone
  \/ Commit \/ CommitBusy \/ CommitFails \/ Rollback \/ Return

-----------------------------------------------------------------------------
(* recent                                                                  *)

(* A statement sees its own connection's open transaction.                 *)
Visible == committed \o pending

ReaderGoto(from, to) ==
  /\ reader \in from /\ reader' = to
  /\ UNCHANGED <<handle, file, ext, insert>>

ReadStart ==
  /\ db = "ready"
  /\ ReaderGoto({"idle", "answered"}, "rows")
  /\ cursor' = 0 /\ answer' = << >> /\ floor' = Len(committed)

(* Fault: ORDER BY id ASC.                                                 *)
NextRowAscending ==
  {i \in 1 .. Len(Visible) : i = IF answer = << >> THEN 1 ELSE cursor + 1}

(* Where the next sqlite3_step finds its row, if there is one left: ORDER  *)
(* BY id DESC walks down the table.                                        *)
NextRow ==
  LET ahead == {i \in 1 .. Len(Visible) : answer # << >> => i < cursor}
  IN  {i \in ahead : \A j \in ahead : j <= i}

(* Fault: no LIMIT.                                                        *)
ReadRowUnlimited ==
  /\ ReaderGoto({"rows"}, "rows")
  /\ \E i \in NextRow : cursor' = i /\ answer' = Append(answer, Visible[i])
  /\ UNCHANGED floor

ReadRow ==
  /\ Len(answer) < Limit
  /\ ReaderGoto({"rows"}, "rows")
  /\ \E i \in NextRow : cursor' = i /\ answer' = Append(answer, Visible[i])
  /\ UNCHANGED floor

ReadDone ==
  /\ NextRow = {} \/ Len(answer) = Limit
  /\ ReaderGoto({"rows"}, "answered")
  /\ UNCHANGED <<cursor, answer, floor>>

(* The rows read so far are dropped when a step fails.                     *)
ReadFails ==
  /\ \/ ext = "writing" /\ answer = << >>
     \/ "diskRead" \in Faults
  /\ ReaderGoto({"rows"}, "idle")
  /\ answer' = << >>
  /\ UNCHANGED <<cursor, floor>>

RecentStep == ReadStart \/ ReadRow \/ ReadDone \/ ReadFails

-----------------------------------------------------------------------------
(* The other process, and the end of this one.                             *)

ExtLock ==
  /\ ext = "none"
  /\ \/ "extReader" \in Faults /\ ext' = "reading"
     \/ "extWriter" \in Faults /\ pending = << >> /\ ext' = "writing"
  /\ UNCHANGED <<handle, file, insert, recent>>

ExtUnlock ==
  /\ ext # "none" /\ ext' = "none"
  /\ UNCHANGED <<handle, file, insert, recent>>

(* The program is killed, at any point: SQLite's recovery rolls an open    *)
(* transaction back.                                                       *)
Killed ==
  /\ db' = "closed"
  /\ pending' = << >> /\ inTx' = FALSE
  /\ logger' = "idle" /\ ok' = TRUE
  /\ reader' = "idle" /\ answer' = << >>
  /\ UNCHANGED <<table, committed, undone, ext, batch, told, cursor, floor>>

Next == LifeStep \/ InsertStep \/ RecentStep \/ ExtLock \/ ExtUnlock \/ Killed

Spec == Init /\ [][Next]_vars

-----------------------------------------------------------------------------
(* Properties                                                              *)

(* A batch is in the table whole or not at all, and its rows lie together: *)
(* the transaction of insert, whatever fails and wherever the program is   *)
(* killed.                                                                 *)
WholeFrom(b, i) ==
  /\ i + Size[b] <= Len(committed)
  /\ \A k \in 1 .. Size[b] : committed[i + k] = [batch |-> b, part |-> k]

BatchAtomic ==
  \A i \in 1 .. Len(committed) :
    /\ committed[i].part \in 1 .. Size[committed[i].batch] /\ committed[i].part <= i
    /\ WholeFrom(committed[i].batch, i - committed[i].part)

(* insert returns true only for records that a restart still finds.        *)
Durable(b) == \E i \in 1 .. Len(committed) : committed[i].batch = b
AckDurable == \A b \in acked : Durable(b)

(* ... and false only for records that never enter the table, whatever     *)
(* fails, before or after: the same records could be handed in again.      *)
RefusedIsAbsent == \A b \in refused : ~Durable(b)

(* Until a COMMIT fails unnoticed, DataStore is the store that the logger  *)
(* takes it for (main.cpp:58 looks at nothing else), through every other   *)
(* failure, closing, killing and opening again.                            *)
Promise == INSTANCE AtomicStore WITH latest <- batch
PromiseUntilLost == Promise!Init /\ [][Promise!Next \/ lost']_(Promise!storeVars)

(* recent returns newest rows first, without a repetition, although the    *)
(* logger inserts and commits between its steps, unless a rollback between *)
(* them has freed the ids of rows that it has returned.                    *)
Older(r, s) == r.batch < s.batch \/ (r.batch = s.batch /\ r.part < s.part)
NewestFirst ==
  undone \/ \A i, j \in 1 .. Len(answer) : i < j => Older(answer[j], answer[i])

(* ... and skips no row that was committed when it started: when it stops, *)
(* it has returned the row, or its limit of newer ones.                    *)
Returned(r) == \E j \in 1 .. Len(answer) : answer[j] = r
OlderThanAll(r) == \A j \in 1 .. Len(answer) : Older(r, answer[j])

NothingSkipped ==
  reader = "answered" =>
    \A i \in 1 .. floor :
      Returned(committed[i]) \/ (Len(answer) = Limit /\ OlderThanAll(committed[i]))

(* The inductive strengthening used in DataStoreProofs.                    *)

(* The open transaction holds the records the loop has stepped through.    *)
Transaction ==
  /\ ~inTx => pending = << >>
  /\ logger # "idle" => batch \in Batches
  /\ logger \in {"begin", "step"} => ok
  /\ logger = "step" =>
       /\ inTx /\ Len(pending) <= Size[batch]
       /\ \A k \in 1 .. Len(pending) : pending[k] = RowsOf(batch)[k]
  /\ logger = "finish" /\ ok => inTx /\ pending = RowsOf(batch)

(* Only calls that were made are in the table or have an outcome.          *)
PastOnly ==
  /\ \A i \in 1 .. Len(committed) : committed[i].batch <= batch
  /\ \A b \in refused : b <= batch
  /\ logger \in {"begin", "step", "finish"} => ~Durable(batch)
  /\ logger # "idle" => batch \notin refused
  /\ logger = "return" /\ ~ok => ~Durable(batch)

(* Until a COMMIT fails no transaction outlives its insert.                *)
NoneLeftOpen ==
  ~lost =>
    /\ inTx => logger \in {"step", "finish"}
    /\ logger = "return" /\ ok => Durable(batch)

IndInv == TypeOK /\ Transaction /\ PastOnly /\ NoneLeftOpen /\ BatchAtomic

(* The same for recent: its statement has returned every committed row     *)
(* from the one it is at upwards, and the others are older.                *)
Passed ==
  /\ floor <= Len(committed)
  /\ answer # << >> =>
       \A i \in 1 .. floor :
         IF i >= cursor THEN Returned(committed[i]) ELSE OlderThanAll(committed[i])

ScanInv == Passed /\ NothingSkipped

(* Rows are visible oldest first, and the one that recent is at stays.     *)
Sorted == \A i, j \in 1 .. Len(Visible) : i < j => Older(Visible[i], Visible[j])

OrderInv ==
  /\ Sorted
  /\ reader = "rows" /\ answer # << >> /\ ~undone =>
       cursor \in 1 .. Len(Visible) /\ answer[Len(answer)] = Visible[cursor]
  /\ NewestFirst

(* The table changes only by a whole batch at its end, one that has no row *)
(* in it and that insert has not refused, also after a COMMIT has failed:  *)
(* rows keep their places and values, and nothing is stored twice.         *)
GrowsByBatches ==
  [][committed' # committed =>
       /\ batch \in Batches \ refused /\ ~Durable(batch)
       /\ committed' = committed \o RowsOf(batch)]_vars
=============================================================================
