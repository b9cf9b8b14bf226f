---------------------------- MODULE RuntimeIndex ----------------------------
(***************************************************************************)
(* The unique indexes of a table: SmManager's runtime indexes              *)
(* (src/system/sm_manager), kept in step with the record file by the       *)
(* executors, by abort and by create_index.                                *)
(*                                                                         *)
(* An index is named by its columns.  Its entries are a vector of keys and *)
(* rids sorted by key, searched with lower_bound and upper_bound.  A row   *)
(* is the tuple of its columns; keys compare column by column.             *)
(*                                                                         *)
(* The executors and abort change entries and file under the table's       *)
(* exclusive lock, row by row.  create_index takes no lock.                *)
(***************************************************************************)
EXTENDS HeapFile

CONSTANTS
    Index,       \* the indexes that may be created: sequences of columns
    Cond,        \* conditions on a column: [col, op, val]
    DdlInTxn     \* create_index may come between the writes of a transaction

VARIABLES
    indexes,     \* TabMeta::indexes
    entries,     \* runtime_indexes_: entries[i] is a sequence of [key, rid]
    in_catch     \* abort runs in a catch clause of client_handler

indexVars == << indexes, entries, in_catch >>

----------------------------------------------------------------------------
make_index_key(i, row) == [n \in DOMAIN i |-> row[i[n]]]

(* compare_index_key(lhs, rhs) < 0 on the first n columns.                 *)
KeyLess(lhs, rhs, n) ==
    \E c \in 1 .. n : lhs[c] < rhs[c] /\ \A d \in 1 .. c - 1 : lhs[d] = rhs[d]

(* How many entries std::lower_bound and std::upper_bound leave in front.  *)
lower_bound(es, key, n) == Cardinality({ k \in DOMAIN es : KeyLess(es[k].key, key, n) })
upper_bound(es, key, n) == Cardinality({ k \in DOMAIN es : ~KeyLess(key, es[k].key, n) })

Entry(i, row, rid) == [key |-> make_index_key(i, row), rid |-> rid]

is_index(i) == i \in indexes

(* The entries of a new index: a scan of the file, sorted by key and rid.  *)
rebuild_runtime_index(f, i) ==
    SetToSortSeq({ Entry(i, get_record(f, rid), rid) : rid \in Records(f) },
                 LAMBDA e, g : \/ KeyLess(e.key, g.key, Len(i))
                               \/ e.key = g.key /\ Before(e.rid, g.rid))

(* check_index_insert throws: the first entry that is not below the key    *)
(* has the key, and is not that of the row itself (self is {} or {rid}).   *)
DuplicateKey(row, self) ==
    \E i \in indexes :
        LET key == make_index_key(i, row)
            it  == lower_bound(entries[i], key, Len(i)) + 1
        IN /\ it <= Len(entries[i])
           /\ entries[i][it].key = key
           /\ entries[i][it].rid \notin self

insert_index_entries(all, row, rid) ==
    [i \in Index |->
        IF ~is_index(i) THEN all[i]
        ELSE InsertAt(all[i], lower_bound(all[i], make_index_key(i, row), Len(i)) + 1,
                      Entry(i, row, rid))]

delete_index_entries(all, row, rid) ==
    [i \in Index |-> IF ~is_index(i) THEN all[i] ELSE Remove(all[i], Entry(i, row, rid))]

(* Mutant of update_index_entries: the old entry stays.                    *)
update_index_entries_KeepsOld(all, old, new, rid) == insert_index_entries(all, new, rid)

(* update_index_entries, after its check_index_insert.                     *)
update_index_entries(all, old, new, rid) ==
    insert_index_entries(delete_index_entries(all, old, rid), new, rid)

----------------------------------------------------------------------------
(* scan_index: the range of entries that the conditions select.            *)

EqVal(conds, c) == { k \in DOMAIN conds : conds[k].col = c /\ conds[k].op = "=" }

(* The leading columns that have an equality: the first one is taken.      *)
EqCols(i, conds) == Max({ n \in 0 .. Len(i) : \A c \in 1 .. n : EqVal(conds, i[c]) # {} })

EqPrefix(i, conds) == [c \in 1 .. EqCols(i, conds) |-> conds[Min(EqVal(conds, i[c]))].val]

(* The bounds on the column after the prefix.                              *)
Bounds(i, conds, ops) ==
    LET n == EqCols(i, conds) + 1
    IN IF n > Len(i) THEN {}
       ELSE { c \in Range(conds) : c.col = i[n] /\ c.op \in ops }

(* better_lower, better_upper: the tightest bound, exclusive before        *)
(* inclusive.                                                              *)
BestLower(bs) ==
    CHOOSE b \in bs : \A c \in bs : c.val < b.val \/ (c.val = b.val /\ (b.op = ">" \/ c.op = ">="))
BestUpper(bs) ==
    CHOOSE b \in bs : \A c \in bs : c.val > b.val \/ (c.val = b.val /\ (b.op = "<" \/ c.op = "<="))

(* The position after which the result begins ...                          *)
ScanBegin(i, conds) ==
    LET es     == entries[i]
        prefix == EqPrefix(i, conds)
        bs     == Bounds(i, conds, {">", ">="})
        key    == Append(prefix, BestLower(bs).val)
    IN IF bs = {} THEN lower_bound(es, prefix, Len(prefix))
       ELSE IF BestLower(bs).op = ">=" THEN lower_bound(es, key, Len(key))
       ELSE upper_bound(es, key, Len(key))

(* Mutant of ScanLast: an inclusive bound is taken for an exclusive one.   *)
ScanLast_Exclusive(i, conds) ==
    LET prefix == EqPrefix(i, conds)
        bs     == Bounds(i, conds, {"<", "<="})
        key    == Append(prefix, BestUpper(bs).val)
    IN IF bs = {} THEN upper_bound(entries[i], prefix, Len(prefix))
       ELSE lower_bound(entries[i], key, Len(key))

(* ... and the one with which it ends.                                     *)
ScanLast(i, conds) ==
    LET es     == entries[i]
        prefix == EqPrefix(i, conds)
        bs     == Bounds(i, conds, {"<", "<="})
        key    == Append(prefix, BestUpper(bs).val)
    IN IF bs = {} THEN upper_bound(es, prefix, Len(prefix))
       ELSE IF BestUpper(bs).op = "<=" THEN upper_bound(es, key, Len(key))
       ELSE lower_bound(es, key, Len(key))

scan_index(i, conds) ==
    LET es == SubSeq(entries[i], ScanBegin(i, conds) + 1, ScanLast(i, conds))
    IN [k \in DOMAIN es |-> es[k].rid]

eval_condition(row, c) ==
    CASE c.op = "="  -> row[c.col] = c.val
      [] c.op = "#"  -> row[c.col] # c.val
      [] c.op = "<"  -> row[c.col] < c.val
      [] c.op = "<=" -> row[c.col] <= c.val
      [] c.op = ">"  -> row[c.col] > c.val
      [] c.op = ">=" -> row[c.col] >= c.val

eval_conditions(row, conds) == \A c \in Range(conds) : eval_condition(row, c)

----------------------------------------------------------------------------
(* The executors' Next(), per row.                                         *)

InsertRow(row) ==
    /\ ~DuplicateKey(row, {})
    /\ InsertExecutor(row)
    /\ entries' = insert_index_entries(entries, row, InsertRid(file))
    /\ UNCHANGED << indexes, in_catch >>

InsertRefused(row) ==
    /\ MayWrite /\ DuplicateKey(row, {})
    /\ StatementThrows
    /\ in_catch' = TRUE
    /\ UNCHANGED << indexes, entries >>

DeleteRow(rid) ==
    /\ DeleteExecutor(rid)
    /\ entries' = delete_index_entries(entries, get_record(file, rid), rid)
    /\ UNCHANGED << indexes, in_catch >>

UpdateRow(rid, row) ==
    /\ ~DuplicateKey(row, {rid})
    /\ UpdateExecutor(rid, row)
    /\ entries' = update_index_entries(entries, get_record(file, rid), row, rid)
    /\ UNCHANGED << indexes, in_catch >>

UpdateRefused(rid, row) ==
    /\ DuplicateKey(row, {rid})
    /\ UpdateThrows(rid)
    /\ in_catch' = TRUE
    /\ UNCHANGED << indexes, entries >>

CommitRows == Commit /\ UNCHANGED indexVars

(* ROLLBACK.                                                               *)
AbortRows == Abort /\ in_catch' = FALSE /\ UNCHANGED << indexes, entries >>

(* Undoing an update checks the old row against the indexes like an update *)
(* does, and throws.                                                       *)
UndoThrows(w) == w.wtype = "UPDATE" /\ DuplicateKey(w.old, {w.rid})

UndoEntries(w) ==
    CASE w.wtype = "INSERT" -> delete_index_entries(entries, get_record(file, w.rid), w.rid)
      [] w.wtype = "DELETE" -> insert_index_entries(entries, w.old, w.rid)
      [] w.wtype = "UPDATE" -> update_index_entries(entries, get_record(file, w.rid), w.old, w.rid)

(* A round of abort's loop.  If it throws, its record is popped and not    *)
(* undone: client_handler catches and calls abort again for the others,    *)
(* unless it is in a catch clause, where the process ends.                 *)
UndoRow ==
    LET w == Last(write_set)
    IN /\ state = "undoing" /\ write_set # << >>
       /\ IF UndoThrows(w)
          THEN /\ ~in_catch /\ in_catch' = TRUE
               /\ write_set' = Front(write_set)
               /\ UNCHANGED << file, state, committed, indexes, entries >>
          ELSE /\ UndoLast
               /\ entries' = UndoEntries(w)
               /\ UNCHANGED << indexes, in_catch >>

AbortRowsDone == AbortDone /\ in_catch' = FALSE /\ UNCHANGED << indexes, entries >>

----------------------------------------------------------------------------
(* DDL and restart.                                                        *)

MayDdl == state = "GROWING" /\ (DdlInTxn \/ write_set = << >>)

(* create_index scans the file, and throws if two entries have one key.    *)
create_index(i) ==
    /\ MayDdl /\ ~is_index(i)
    /\ LET es == rebuild_runtime_index(file, i)
       IN IF \E k \in 2 .. Len(es) : es[k].key = es[k - 1].key
          THEN StatementThrows /\ in_catch' = TRUE /\ UNCHANGED << indexes, entries >>
          ELSE /\ indexes' = indexes \cup {i}
               /\ entries' = [entries EXCEPT ![i] = es]
               /\ UNCHANGED << vars, in_catch >>

drop_index(i) ==
    /\ MayDdl /\ is_index(i)
    /\ indexes' = indexes \ {i}
    /\ entries' = [entries EXCEPT ![i] = << >>]
    /\ UNCHANGED << file, write_set, state, committed, in_catch >>

(* rebuild_runtime_indexes, at the end of recovery.                        *)
Restart ==
    /\ state = "GROWING" /\ write_set = << >>
    /\ entries' = [i \in Index |-> IF is_index(i) THEN rebuild_runtime_index(file, i) ELSE << >>]
    /\ UNCHANGED << vars, indexes, in_catch >>

IndexInit ==
    /\ Init
    /\ indexes = {}
    /\ entries = [i \in Index |-> << >>]
    /\ in_catch = FALSE

IndexNext ==
    \/ \E row \in Val : InsertRow(row) \/ InsertRefused(row)
    \/ \E rid \in Rid : DeleteRow(rid)
    \/ \E rid \in Rid, row \in Val : UpdateRow(rid, row) \/ UpdateRefused(rid, row)
    \/ CommitRows
    \/ AbortRows
    \/ UndoRow
    \/ AbortRowsDone
    \/ \E i \in Index : create_index(i) \/ drop_index(i)
    \/ Restart

IndexSpec == IndexInit /\ [][IndexNext]_<< vars, indexVars >>

----------------------------------------------------------------------------
(* Properties.                                                             *)

(* Index and table agree after every statement, refused statement, undone  *)
(* write and restart: the entries of an index are those of the rows in the *)
(* file, in strictly ascending order, hence no two rows share a key.       *)
IndexExact ==
    \A i \in indexes :
        /\ Range(entries[i]) = { Entry(i, get_record(file, rid), rid) : rid \in Records(file) }
        /\ \A k \in 2 .. Len(entries[i]) : KeyLess(entries[i][k - 1].key, entries[i][k].key, Len(i))

(* An index scan whose result is filtered by the conditions finds exactly  *)
(* the rows a sequential scan finds, each once, for every pair of          *)
(* conditions, on prefixes of the index's columns or not.                  *)
IndexScanExact ==
    write_set = << >> =>
        \A i \in indexes, c1, c2 \in Cond :
            LET conds == <<c1, c2>>
                rids  == scan_index(i, conds)
            IN /\ \A k, l \in DOMAIN rids : rids[k] = rids[l] => k = l
               /\ \A rid \in Records(file) :
                    eval_conditions(get_record(file, rid), conds) => rid \in Range(rids)
=============================================================================
