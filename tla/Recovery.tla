------------------------------ MODULE Recovery ------------------------------
(***************************************************************************)
(* The write-ahead log, crashes and restarts: LogManager, the logging of   *)
(* the executors and of TransactionManager, and RecoveryManager, over the  *)
(* record file of one table.                                               *)
(*                                                                         *)
(* A writing transaction holds the table's exclusive lock to its end, so   *)
(* transactions follow each other; the pool writes pages back, the server  *)
(* crashes and SIGINT arrives between any two steps.  A record added to    *)
(* the log is flushed by the next call in all callers but begin, hence     *)
(* adding and flushing it are one step here.  A crash keeps the log and    *)
(* the pages and headers that were written, nothing else.                  *)
(***************************************************************************)
EXTENDS RmFileHandle, SequencesExt

CONSTANTS
    MaxTxns,       \* bound: transactions begun between two restarts
    MaxLog,        \* bound: records in the log
    MaxRestarts,   \* bound: crashes and shutdowns
    Aborts,        \* whether transactions abort
    WriteBackAt,   \* the control points at which pages reach the disk
    NoTxn          \* no transaction is open

Point == {"idle", "running", "logging", "applying", "undoing"}

ASSUME RecoveryAssumption ==
    /\ MaxTxns \in Nat /\ MaxLog \in Nat /\ MaxRestarts \in Nat
    /\ Aborts \in BOOLEAN
    /\ WriteBackAt \subseteq Point
    /\ NoTxn \notin Nat

VARIABLES
    file,          \* the file as the running server sees it
    disk,          \* the file on disk: its header and its pages
    log,           \* the log file
    log_buffer,    \* LogManager::log_buffer_
    next_txn_id,   \* TransactionManager::next_txn_id_
    txn,           \* the open transaction
    write_set,     \* its write set, as the log records of its changes
    pc,            \* where the server is; "down" after a crash
    pending,       \* the change that is half done at "logging" and "applying"
    restarts,      \* crashes and shutdowns so far
    committed      \* ghost: the rows the committed transactions leave

storeVars == << file, disk, log, log_buffer >>
txnVars   == << next_txn_id, txn, write_set >>
vars      == << storeVars, txnVars, pc, pending, restarts, committed >>

BEGIN(t)  == [type |-> "begin", tid |-> t]
COMMIT(t) == [type |-> "commit", tid |-> t]
ABORT(t)  == [type |-> "ABORT", tid |-> t]
INSERT(t, rid, v)      == [type |-> "INSERT", tid |-> t, rid |-> rid, new |-> v]
DELETE(t, rid, old)    == [type |-> "DELETE", tid |-> t, rid |-> rid, old |-> old]
UPDATE(t, rid, old, v) == [type |-> "UPDATE", tid |-> t, rid |-> rid, old |-> old, new |-> v]

IsChange(r) == r.type \in {"INSERT", "DELETE", "UPDATE"}

----------------------------------------------------------------------------
(* LogManager: add_log_to_buffer, then flush_log_to_disk.                  *)

LogRoom == Len(log) + Len(log_buffer) < MaxLog

AddAndFlush(r) ==
    /\ LogRoom
    /\ log' = log \o log_buffer \o <<r>>
    /\ log_buffer' = << >>

----------------------------------------------------------------------------
(* Statements and transactions.                                            *)

(* TransactionManager::begin; its record stays in the buffer.              *)
Begin ==
    /\ pc = "idle" /\ next_txn_id < MaxTxns /\ LogRoom
    /\ txn' = next_txn_id
    /\ next_txn_id' = next_txn_id + 1
    /\ log_buffer' = Append(log_buffer, BEGIN(next_txn_id))
    /\ pc' = "running"
    /\ UNCHANGED << file, disk, log, write_set, pending, restarts, committed >>

(* InsertExecutor: the page is changed first, then the change is logged.   *)
Insert(v) ==
    /\ pc = "running" /\ LogRoom /\ HasRoom(file) /\ CanInsert(file)
    /\ file' = insert_record(file, v)
    /\ pending' = INSERT(txn, InsertRid(file), v)
    /\ write_set' = Append(write_set, pending')
    /\ pc' = "logging"
    /\ UNCHANGED << disk, log, log_buffer, next_txn_id, txn, restarts, committed >>

LogInsert ==
    /\ pc = "logging"
    /\ AddAndFlush(pending)
    /\ pc' = "running"
    /\ UNCHANGED << file, disk, txnVars, pending, restarts, committed >>

(* DeleteExecutor and UpdateExecutor: logged first, then applied.          *)
LogChange(r) ==
    /\ pc = "running"
    /\ is_record(file, r.rid)
    /\ r.old = get_record(file, r.rid)
    /\ AddAndFlush(r)
    /\ write_set' = Append(write_set, r)
    /\ pending' = r
    /\ pc' = "applying"
    /\ UNCHANGED << file, disk, next_txn_id, txn, restarts, committed >>

ApplyChange ==
    /\ pc = "applying"
    /\ file' = IF pending.type = "DELETE" THEN delete_record(file, pending.rid)
                                          ELSE update_record(file, pending.rid, pending.new)
    /\ pc' = "running"
    /\ UNCHANGED << disk, log, log_buffer, txnVars, pending, restarts, committed >>

(* TransactionManager::commit: durable once the record is flushed.         *)
Commit ==
    /\ pc = "running"
    /\ AddAndFlush(COMMIT(txn))
    /\ committed' = Content(file)
    /\ txn' = NoTxn
    /\ write_set' = << >>
    /\ pc' = "idle"
    /\ UNCHANGED << file, disk, next_txn_id, pending, restarts >>

(* TransactionManager::abort: undo from the back of the write set, without *)
(* compensation records, then an ABORT record.                             *)
Abort ==
    /\ Aborts /\ pc = "running"
    /\ pc' = "undoing"
    /\ UNCHANGED << storeVars, txnVars, pending, restarts, committed >>

UndoWrite(f, r) ==
    CASE r.type = "INSERT" -> IF is_record(f, r.rid) THEN delete_record(f, r.rid) ELSE f
      [] r.type = "DELETE" -> insert_record_at(f, r.rid, r.old)
      [] r.type = "UPDATE" -> update_record(f, r.rid, r.old)

UndoLast ==
    /\ pc = "undoing" /\ write_set # << >>
    /\ file' = UndoWrite(file, Last(write_set))
    /\ write_set' = Front(write_set)
    /\ UNCHANGED << disk, log, log_buffer, next_txn_id, txn, pc, pending, restarts, committed >>

AbortDone ==
    /\ pc = "undoing" /\ write_set = << >>
    /\ AddAndFlush(ABORT(txn))
    /\ txn' = NoTxn
    /\ pc' = "idle"
    /\ UNCHANGED << file, disk, next_txn_id, write_set, pending, restarts, committed >>

----------------------------------------------------------------------------
(* The pool writes a dirty page back when it needs the frame.  The file    *)
(* header stays in RmFileHandle until the file is flushed or closed.       *)
WriteBack(p) ==
    /\ pc \in WriteBackAt
    /\ p < file.num_pages
    /\ disk.page[p] # file.page[p]
    /\ disk' = [disk EXCEPT !.page[p] = file.page[p]]
    /\ UNCHANGED << file, log, log_buffer, txnVars, pc, pending, restarts, committed >>

(* The process is gone, with it all but the files; next_txn_id_ starts     *)
(* again from 0.                                                           *)
GoDown ==
    /\ restarts < MaxRestarts
    /\ restarts' = restarts + 1
    /\ pc' = "down"
    /\ log_buffer' = << >>
    /\ next_txn_id' = 0
    /\ txn' = NoTxn
    /\ write_set' = << >>
    /\ pending' = BEGIN(0)
    /\ file' = disk'
    /\ UNCHANGED committed

Crash ==
    /\ pc # "down"
    /\ UNCHANGED << disk, log >>
    /\ GoDown

(* SIGINT: the log is flushed, close_db writes header and pages.           *)
Shutdown ==
    /\ pc \in WriteBackAt
    /\ log' = log \o log_buffer
    /\ disk' = file
    /\ GoDown

----------------------------------------------------------------------------
(* RecoveryManager.                                                        *)

(* analyze: an ABORT record makes its transaction active like any other;   *)
(* only a commit takes a transaction out of the active ones, and a later   *)
(* record of the same id puts it back.                                     *)
Analyze(state, r) ==
    IF r.type = "commit"
    THEN [committed |-> state.committed \cup {r.tid}, active |-> state.active \ {r.tid}]
    ELSE [state EXCEPT !.active = @ \cup {r.tid}]

Analysis == FoldLeft(Analyze, [committed |-> {}, active |-> {}], log)

record_exists(f, rid) == is_record(f, rid)

(* insert, or overwrite what is there.                                     *)
Put(f, rid, v) ==
    IF record_exists(f, rid) THEN update_record(f, rid, v) ELSE insert_record_at(f, rid, v)

(* delete, unless it is gone.                                              *)
Take(f, rid) == IF record_exists(f, rid) THEN delete_record(f, rid) ELSE f

RedoRecord(f, r) ==
    CASE r.type \in {"INSERT", "UPDATE"} -> Put(f, r.rid, r.new)
      [] r.type = "DELETE"               -> Take(f, r.rid)
      [] OTHER                           -> f

UndoRecord(f, r) ==
    CASE r.type = "INSERT"               -> Take(f, r.rid)
      [] r.type \in {"DELETE", "UPDATE"} -> Put(f, r.rid, r.old)
      [] OTHER                           -> f

(* redo: from the first record on, the committed ones.                     *)
Redo(f) ==
    LET step(g, r) == IF r.tid \in Analysis.committed THEN RedoRecord(g, r) ELSE g
    IN FoldLeft(step, f, log)

(* Mutant of Undo: the log is undone in forward order.                     *)
Undo_Forward(f) ==
    LET step(g, r) == IF r.tid \in Analysis.active THEN UndoRecord(g, r) ELSE g
    IN FoldLeft(step, f, log)

(* undo: from the last record back, the active ones.                       *)
Undo(f) ==
    LET step(r, g) == IF r.tid \in Analysis.active THEN UndoRecord(g, r) ELSE g
    IN FoldRight(step, log, f)

(* main on an existing database: open_db, analyze, redo, undo, and undo's  *)
(* flush_all_tables.  The log file is kept.                                *)
Recover ==
    /\ pc = "down"
    /\ file' = Undo(Redo(disk))
    /\ disk' = file'
    /\ pc' = "idle"
    /\ UNCHANGED << log, log_buffer, txnVars, pending, restarts, committed >>

----------------------------------------------------------------------------
Init ==
    /\ file = EmptyFile
    /\ disk = EmptyFile
    /\ log = << >>
    /\ log_buffer = << >>
    /\ next_txn_id = 0
    /\ txn = NoTxn
    /\ write_set = << >>
    /\ pc = "idle"
    /\ pending = BEGIN(0)
    /\ restarts = 0
    /\ committed = Content(EmptyFile)

Next ==
    \/ Begin
    \/ \E v \in Val : Insert(v)
    \/ LogInsert
    \/ \E rid \in Rid, old \in Val : LogChange(DELETE(txn, rid, old))
    \/ \E rid \in Rid, old, v \in Val : LogChange(UPDATE(txn, rid, old, v))
    \/ ApplyChange
    \/ Commit
    \/ Abort
    \/ UndoLast
    \/ AbortDone
    \/ \E p \in PageNo : WriteBack(p)
    \/ Crash
    \/ Shutdown
    \/ Recover

Spec == Init /\ [][Next]_vars

----------------------------------------------------------------------------
(* Properties.                                                             *)

LogRecord ==
    LET T == 0 .. MaxTxns
    IN { BEGIN(t) : t \in T } \cup { COMMIT(t) : t \in T } \cup { ABORT(t) : t \in T }
        \cup { INSERT(t, rid, v) : t \in T, rid \in Rid, v \in Val }
        \cup { DELETE(t, rid, o) : t \in T, rid \in Rid, o \in Val }
        \cup { UPDATE(t, rid, o, v) : t \in T, rid \in Rid, o \in Val, v \in Val }

TypeOK ==
    /\ file \in FileValue /\ disk \in FileValue
    /\ log \in Seq(LogRecord) /\ log_buffer \in Seq(LogRecord)
    /\ next_txn_id \in 0 .. MaxTxns
    /\ txn \in 0 .. MaxTxns \cup {NoTxn}
    /\ write_set \in Seq(LogRecord)
    /\ pc \in Point \cup {"down"}
    /\ pending \in LogRecord
    /\ restarts \in 0 .. MaxRestarts
    /\ committed \in [Rid -> Val \cup {Free}]

(* The number of records of a kind a transaction id has in the log.        *)
Count(type, t) == Cardinality({ i \in DOMAIN log : log[i].type = type /\ log[i].tid = t })

(* Every transaction id stands for winners only or for losers only, over   *)
(* all the runs of the server that are in the log.                         *)
TidsAgree ==
    \A t \in 0 .. MaxTxns : Count("commit", t) \in {0, Count("begin", t)}

(* No row touched by a transaction that did not commit is touched again by *)
(* another one.                                                            *)
LosersLast ==
    \A i, j \in DOMAIN log :
        (/\ i < j
         /\ IsChange(log[i]) /\ IsChange(log[j])
         /\ log[i].rid = log[j].rid
         /\ log[i].tid # log[j].tid) => Count("commit", log[i].tid) > 0

(* Recovery is right where redo-all, undo-losers can be: if ids are not    *)
(* reused by a transaction of another fate, and no row of a loser is       *)
(* written again, then whenever no transaction is open, and so after every *)
(* restart, the table holds what the committed transactions left.          *)
RecoveryExact == (pc = "idle" /\ TidsAgree /\ LosersLast) => Content(file) = committed

(* A committed transaction survives a crash.                               *)
CommittedSurvives ==
    pc = "idle" => \A rid \in Rid : committed[rid] # Free => Content(file)[rid] = committed[rid]

(* An uncommitted transaction is undone after a crash: no row is there     *)
(* that the committed transactions did not leave.                          *)
UncommittedUndone ==
    pc = "idle" => \A rid \in Rid : committed[rid] = Free => Content(file)[rid] = Free

(* File header, page headers and the free-page list agree after recovery.  *)
FreeListRecovered == pc = "idle" => FreeListExact(file) /\ CountsExact(file)

(* What keeps the server usable after recovery: the bitmaps and counts are *)
(* right even where the free-page list is not.                             *)
CountsRecovered == pc = "idle" => CountsExact(file)
=============================================================================
