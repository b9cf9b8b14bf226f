------------------------- MODULE TransactionManager -------------------------
(***************************************************************************)
(* Concurrent transactions on tables: TransactionManager (src/transaction) *)
(* and the locking of the executors, over LockManager.                     *)
(*                                                                         *)
(* A scan takes the table's shared lock and then reads it tuple by tuple;  *)
(* an insert, delete or update takes the exclusive lock, after the shared  *)
(* one of the scan that finds its rows, and then changes the table in      *)
(* place.  Locking and accessing are separate steps: other transactions    *)
(* run in between.  The rows of a table are one value here.                *)
(***************************************************************************)
EXTENDS LockManager, Naturals, Sequences

CONSTANTS
    Rows,        \* contents of a table
    InitRows,    \* what the tables hold at first
    MaxWrites    \* bound: write records of a transaction

(* The executors ask for shared and exclusive table locks only.            *)
ASSUME TxnAssumption ==
    /\ Request \subseteq {S, X}
    /\ InitRows \in Rows
    /\ MaxWrites \in Nat
    /\ NONE \notin Rows
    /\ NONE \notin DataId

VARIABLES
    table,       \* the tables, as every transaction finds them
    stmt,        \* the table whose lock a statement got and has yet to use
    write_set,   \* Transaction::write_set_: <<table, rows before>>
    undoing,     \* inside the undo loop of abort
    first,       \* ghost: the rows t found at its first access to a table
    seen,        \* ghost: the rows t last read from or wrote to a table
    committed    \* ghost: the tables after the committed transactions, in commit order

dataVars == << table, stmt, write_set, undoing, first, seen, committed >>
txnVars  == << lockVars, dataVars >>

Untouched == [id \in DataId |-> NONE]

Active(t) == state[t] = "GROWING" /\ ~undoing[t]

Forget(t) ==
    /\ first' = [first EXCEPT ![t] = Untouched]
    /\ seen' = [seen EXCEPT ![t] = Untouched]

(* The transaction is between statements.                                  *)
Ready(t) == Active(t) /\ stmt[t] = NONE

(* begin.                                                                  *)
BeginTxn(t) == Begin(t) /\ UNCHANGED dataVars

(* A statement asks for its lock ...                                       *)
LockTable(t, id, m) ==
    /\ Ready(t)
    /\ Lock(t, id, m)
    /\ stmt' = [stmt EXCEPT ![t] = id]
    /\ UNCHANGED << table, write_set, undoing, first, seen, committed >>

(* ... and is refused: client_handler calls abort.                         *)
LockFails(t, id, m) ==
    /\ Ready(t)
    /\ LockThrows(t, id, m)
    /\ undoing' = [undoing EXCEPT ![t] = TRUE]
    /\ Forget(t)
    /\ UNCHANGED << lockVars, table, stmt, write_set, committed >>

(* The rows t found when it first came to the table.                       *)
NoteFirst(t, id) ==
    first' = IF first[t][id] = NONE THEN [first EXCEPT ![t][id] = table[id]] ELSE first

ReadTable(t) ==
    /\ Active(t) /\ stmt[t] # NONE
    /\ NoteFirst(t, stmt[t])
    /\ seen' = [seen EXCEPT ![t][stmt[t]] = table[stmt[t]]]
    /\ stmt' = [stmt EXCEPT ![t] = NONE]
    /\ UNCHANGED << lockVars, table, write_set, undoing, committed >>

(* Only with the exclusive lock; the old rows go to the write set.         *)
WriteTable(t, rows) ==
    /\ Active(t) /\ stmt[t] # NONE
    /\ held[stmt[t]][t] = X
    /\ Len(write_set[t]) < MaxWrites
    /\ write_set' = [write_set EXCEPT ![t] = Append(@, <<stmt[t], table[stmt[t]]>>)]
    /\ table' = [table EXCEPT ![stmt[t]] = rows]
    /\ NoteFirst(t, stmt[t])
    /\ seen' = [seen EXCEPT ![t][stmt[t]] = rows]
    /\ stmt' = [stmt EXCEPT ![t] = NONE]
    /\ UNCHANGED << lockVars, undoing, committed >>

(* The tables t has write records for.                                     *)
Written(t) == { write_set[t][i][1] : i \in DOMAIN write_set[t] }

(* commit: the COMMIT record is on disk, the state is COMMITTED; its loop  *)
(* over the lock set follows.  (The write set is freed after that loop; it *)
(* is not read any more.)                                                  *)
Commit(t) ==
    /\ Ready(t)
    /\ state' = [state EXCEPT ![t] = "COMMITTED"]
    /\ write_set' = [write_set EXCEPT ![t] = << >>]
    /\ committed' = [id \in DataId |-> IF id \in Written(t) THEN table[id] ELSE committed[id]]
    /\ Forget(t)
    /\ UNCHANGED << held, lock_set, granted, table, stmt, undoing >>

(* abort: asked for by the client, or after an error in a statement.       *)
Abort(t) ==
    /\ Active(t)
    /\ undoing' = [undoing EXCEPT ![t] = TRUE]
    /\ stmt' = [stmt EXCEPT ![t] = NONE]
    /\ Forget(t)
    /\ UNCHANGED << lockVars, table, write_set, committed >>

(* Mutant of UndoLast: the write set is undone from its front.             *)
UndoLast_FromFront(t) ==
    /\ undoing[t] /\ write_set[t] # << >>
    /\ table' = [table EXCEPT ![write_set[t][1][1]] = write_set[t][1][2]]
    /\ write_set' = [write_set EXCEPT ![t] = Tail(@)]
    /\ UNCHANGED << lockVars, stmt, undoing, first, seen, committed >>

(* Mutant of UndoLast: the write record is not popped.                     *)
UndoLast_NoPop(t) ==
    /\ undoing[t] /\ write_set[t] # << >>
    /\ LET w == write_set[t][Len(write_set[t])]
       IN table' = [table EXCEPT ![w[1]] = w[2]]
    /\ UNCHANGED << lockVars, stmt, write_set, undoing, first, seen, committed >>

(* The loop of abort: the last write record is popped and undone.          *)
UndoLast(t) ==
    /\ undoing[t] /\ write_set[t] # << >>
    /\ LET w == write_set[t][Len(write_set[t])]
       IN table' = [table EXCEPT ![w[1]] = w[2]]
    /\ write_set' = [write_set EXCEPT ![t] = SubSeq(@, 1, Len(@) - 1)]
    /\ UNCHANGED << lockVars, stmt, undoing, first, seen, committed >>

(* Mutant of AbortDone: the locks can go while there is work to undo.      *)
AbortDone_BeforeUndo(t) ==
    /\ undoing[t]
    /\ undoing' = [undoing EXCEPT ![t] = FALSE]
    /\ state' = [state EXCEPT ![t] = "ABORTED"]
    /\ UNCHANGED << held, lock_set, granted, table, stmt, write_set, first, seen, committed >>

(* The state is ABORTED only once all is undone.                           *)
AbortDone(t) ==
    /\ undoing[t] /\ write_set[t] = << >>
    /\ undoing' = [undoing EXCEPT ![t] = FALSE]
    /\ state' = [state EXCEPT ![t] = "ABORTED"]
    /\ UNCHANGED << held, lock_set, granted, table, stmt, write_set, first, seen, committed >>

(* The last loop of commit and abort.                                      *)
ReleaseLock(t, id) == Release(t, id) /\ UNCHANGED dataVars

TxnInit ==
    /\ Init
    /\ table = [id \in DataId |-> InitRows]
    /\ stmt = [t \in Txn |-> NONE]
    /\ write_set = [t \in Txn |-> << >>]
    /\ undoing = [t \in Txn |-> FALSE]
    /\ first = [t \in Txn |-> Untouched]
    /\ seen = [t \in Txn |-> Untouched]
    /\ committed = table

TxnNext ==
    \E t \in Txn :
        \/ BeginTxn(t)
        \/ \E id \in DataId, m \in Request : LockTable(t, id, m) \/ LockFails(t, id, m)
        \/ ReadTable(t)
        \/ \E rows \in Rows : WriteTable(t, rows)
        \/ Commit(t)
        \/ Abort(t)
        \/ UndoLast(t)
        \/ AbortDone(t)
        \/ \E id \in DataId : ReleaseLock(t, id)

TxnSpec == TxnInit /\ [][TxnNext]_txnVars

(* The undo loop and the release loop wait for nothing and nobody.         *)
TxnFairSpec ==
    /\ TxnSpec
    /\ \A t \in Txn :
        WF_txnVars(UndoLast(t) \/ AbortDone(t) \/ \E id \in DataId : ReleaseLock(t, id))

----------------------------------------------------------------------------
(* Properties.                                                             *)

TxnTypeOK ==
    /\ TypeOK
    /\ table \in [DataId -> Rows]
    /\ stmt \in [Txn -> DataId \cup {NONE}]
    /\ write_set \in [Txn -> Seq(DataId \X Rows)]
    /\ undoing \in [Txn -> BOOLEAN]
    /\ first \in [Txn -> [DataId -> Rows \cup {NONE}]]
    /\ seen \in [Txn -> [DataId -> Rows \cup {NONE}]]
    /\ committed \in [DataId -> Rows]

(* Serializable in commit order: what an open transaction found at its     *)
(* first access to a table is what the transactions committed so far left  *)
(* there, so that it would find the same if it ran alone at its commit.    *)
Serializable ==
    \A t \in Txn, id \in DataId :
        (Active(t) /\ first[t][id] # NONE) => first[t][id] = committed[id]

(* No lost update, no unrepeatable read, no phantom: until the transaction *)
(* ends, a table it read or wrote stays as it last saw it.                 *)
Repeatable ==
    \A t \in Txn, id \in DataId :
        (Active(t) /\ seen[t][id] # NONE) => table[id] = seen[t][id]

(* A table differs from the committed one only by the write records of one *)
(* open transaction: abort leaves no trace, in whatever order transactions *)
(* interleave with its undo loop.                                          *)
CleanUnlessWritten ==
    \A id \in DataId : (\A t \in Txn : id \notin Written(t)) => table[id] = committed[id]

(* No deadlock: a transaction that commits or aborts gets through its undo *)
(* loop and gives up all its locks, whatever locks the others hold.        *)
EndsAndReleases ==
    \A t \in Txn : (undoing[t] \/ state[t] = "COMMITTED") ~> (Ended(t) /\ lock_set[t] = {})
=============================================================================
