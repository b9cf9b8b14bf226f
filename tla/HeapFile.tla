------------------------------ MODULE HeapFile ------------------------------
(***************************************************************************)
(* A table's record file under the transactions that write it.             *)
(*                                                                         *)
(* Writers hold the table's exclusive lock until they commit or abort, so  *)
(* the table sees one writing transaction at a time: a sequence of         *)
(* insert, delete and update statements, then TransactionManager::commit,  *)
(* or abort, which undoes the write set from its back.  An undo is one     *)
(* step per write record, as in the loop of abort.                         *)
(***************************************************************************)
EXTENDS RmFileHandle, SequencesExt

CONSTANT MaxWrites   \* bound: write records of a transaction

VARIABLES
    file,        \* the table's file
    write_set,   \* Transaction::write_set_: what was done, in order
    state,       \* "GROWING" while statements run, "undoing" inside abort
    committed    \* ghost: the rows as of the last commit

vars == << file, write_set, state, committed >>

INSERT_TUPLE(rid)      == [wtype |-> "INSERT", rid |-> rid, old |-> Free]
DELETE_TUPLE(rid, old) == [wtype |-> "DELETE", rid |-> rid, old |-> old]
UPDATE_TUPLE(rid, old) == [wtype |-> "UPDATE", rid |-> rid, old |-> old]

MayWrite == state = "GROWING" /\ Len(write_set) < MaxWrites

Log(w) == write_set' = Append(write_set, w) /\ UNCHANGED << state, committed >>

----------------------------------------------------------------------------
(* The executors' Next(), per record.                                      *)

InsertExecutor(v) ==
    /\ MayWrite /\ HasRoom(file) /\ CanInsert(file)
    /\ file' = insert_record(file, v)
    /\ Log(INSERT_TUPLE(InsertRid(file)))

DeleteExecutor(rid) ==
    /\ MayWrite /\ is_record(file, rid)
    /\ file' = delete_record(file, rid)
    /\ Log(DELETE_TUPLE(rid, get_record(file, rid)))

UpdateExecutor(rid, v) ==
    /\ MayWrite /\ is_record(file, rid)
    /\ file' = update_record(file, rid, v)
    /\ Log(UPDATE_TUPLE(rid, get_record(file, rid)))

(* A statement throws before it writes a row; client_handler catches and   *)
(* calls abort.                                                            *)
StatementThrows ==
    /\ state = "GROWING"
    /\ state' = "undoing"
    /\ UNCHANGED << file, write_set, committed >>

(* update_index_entries throws: the write record is there already.         *)
UpdateThrows(rid) ==
    /\ MayWrite /\ is_record(file, rid)
    /\ write_set' = Append(write_set, UPDATE_TUPLE(rid, get_record(file, rid)))
    /\ state' = "undoing"
    /\ UNCHANGED << file, committed >>

(* TransactionManager::commit: the write set is cleared.                   *)
Commit ==
    /\ state = "GROWING" /\ write_set # << >>
    /\ write_set' = << >>
    /\ committed' = Content(file)
    /\ UNCHANGED << file, state >>

(* TransactionManager::abort: its loop begins.                             *)
Abort ==
    /\ state = "GROWING" /\ write_set # << >>
    /\ state' = "undoing"
    /\ UNCHANGED << file, write_set, committed >>

(* Mutant of Undo: an update is not undone.                                *)
Undo_SkipsUpdate(f, w) ==
    CASE w.wtype = "INSERT" -> delete_record(f, w.rid)
      [] w.wtype = "DELETE" -> insert_record_at(f, w.rid, w.old)
      [] w.wtype = "UPDATE" -> f

(* One round of the loop: the last write record is popped and undone.      *)
Undo(f, w) ==
    CASE w.wtype = "INSERT" -> IF is_record(f, w.rid) THEN delete_record(f, w.rid) ELSE f
      [] w.wtype = "DELETE" -> insert_record_at(f, w.rid, w.old)
      [] w.wtype = "UPDATE" -> update_record(f, w.rid, w.old)

(* Mutant of UndoLast: the write set is undone from its front.             *)
UndoLast_FromFront ==
    /\ state = "undoing" /\ write_set # << >>
    /\ file' = Undo(file, Head(write_set))
    /\ write_set' = Tail(write_set)
    /\ UNCHANGED << state, committed >>

UndoLast ==
    /\ state = "undoing" /\ write_set # << >>
    /\ file' = Undo(file, Last(write_set))
    /\ write_set' = Front(write_set)
    /\ UNCHANGED << state, committed >>

(* The loop ends with the write set empty; the locks are released.         *)
AbortDone ==
    /\ state = "undoing" /\ write_set = << >>
    /\ state' = "GROWING"
    /\ UNCHANGED << file, write_set, committed >>

Init ==
    /\ file = EmptyFile
    /\ write_set = << >>
    /\ state = "GROWING"
    /\ committed = Content(EmptyFile)

Next ==
    \/ \E v \in Val : InsertExecutor(v)
    \/ \E rid \in Rid : DeleteExecutor(rid)
    \/ \E rid \in Rid, v \in Val : UpdateExecutor(rid, v)
    \/ StatementThrows
    \/ \E rid \in Rid : UpdateThrows(rid)
    \/ Commit
    \/ Abort
    \/ UndoLast
    \/ AbortDone

Spec == Init /\ [][Next]_vars

----------------------------------------------------------------------------
(* Properties.                                                             *)

TypeOK ==
    /\ file \in FileValue
    /\ write_set \in Seq([wtype : {"INSERT", "DELETE", "UPDATE"}, rid : Rid, old : Val \cup {Free}])
    /\ state \in {"GROWING", "undoing"}
    /\ committed \in [Rid -> Val \cup {Free}]

(* File header, page headers, bitmaps and the free-page list agree after   *)
(* every insert, delete, update and undo, however transactions abort.      *)
HeadersConsistent == FreeListExact(file) /\ CountsExact(file)

(* insert_record(buf) never reaches its "no free slot" error nor a page    *)
(* past the end, and it never overwrites a record.                         *)
InsertNeverFails ==
    HasRoom(file) => /\ CanInsert(file)
                     /\ ~is_record(file, InsertRid(file))

(* The rows are the last committed ones changed by exactly the write set,  *)
(* so that abort makes a transaction's changes invisible: undoing what is  *)
(* left of the write set always leads back to the committed rows.          *)
AbortRestores == write_set = << >> => Content(file) = committed

(* delete and update undo find their record in place; insert_record(rid)   *)
(* finds the slot free and never throws "duplicate rid".                   *)
UndoApplies ==
    write_set # << >> =>
        (Last(write_set).wtype = "DELETE" <=> ~is_record(file, Last(write_set).rid))

(* A scan returns every record once, in the order of pages and slots, and  *)
(* nothing else, whichever pages are full, empty or have holes.            *)
ScanExact ==
    LET rids == RmScan(file)
    IN /\ Range(rids) = Records(file)
       /\ \A i, j \in DOMAIN rids : i < j => Before(rids[i], rids[j])
=============================================================================
