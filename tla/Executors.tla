----------------------------- MODULE Executors ------------------------------
(***************************************************************************)
(* The operator tree (src/execution): scans, block nested-loop join, sort  *)
(* and projection, with the interface of executor_abstract.h.              *)
(*                                                                         *)
(* An executor is a record that is its whole state; beginTuple and         *)
(* nextTuple return the state after the call.  An exception that leaves a  *)
(* condition (ColumnNotFoundError) sets threw in the executor it comes     *)
(* from: that executor is at its end from then on, so every loop above it  *)
(* stops, and Threw(x) tells the caller.                                   *)
(*                                                                         *)
(* data[tab] is the record file of a table: its records by rid.  A rid is  *)
(* a number, and a scan visits the rids in ascending order.                *)
(***************************************************************************)
EXTENDS Planner

CONSTANT JOIN_BUFFER_BYTES    \* in cells

FindCol(cols, target) == { i \in DOMAIN cols : cols[i].tab = target.tab /\ cols[i].name = target.col }

ColMetaOf(cols, target) == cols[Min(FindCol(cols, target))]

(* "yes", "no", or "throw" when find_col_meta does not find a column.      *)
eval_condition(cols, cond, rec) ==
    IF FindCol(cols, cond.lhs) = {} \/ (~cond.is_rhs_val /\ FindCol(cols, cond.rhs) = {}) THEN "throw"
    ELSE LET col == ColMetaOf(cols, cond.lhs)
             rhs == IF cond.is_rhs_val THEN cond.raw ELSE CellsAt(rec, ColMetaOf(cols, cond.rhs))
         IN IF eval_compare(compare_raw_value(CellsAt(rec, col), rhs, col.type, col.len), cond.op)
            THEN "yes" ELSE "no"

(* The first condition that is not true decides.                           *)
eval_conditions(cols, conds, rec) ==
    LET stops == { i \in DOMAIN conds : eval_condition(cols, conds[i], rec) # "yes" }
    IN IF stops = {} THEN "yes" ELSE eval_condition(cols, conds[Min(stops)], rec)

----------------------------------------------------------------------------
RECURSIVE Threw(_)
Threw(x) ==
    CASE x.tag = "Scan" -> x.threw
      [] x.tag = "Join" -> x.threw \/ Threw(x.left) \/ Threw(x.right)
      [] OTHER          -> Threw(x.prev)

RECURSIVE is_end(_)
is_end(x) ==
    CASE x.tag = "Scan" -> x.threw \/ x.cursor > Len(x.rids)
      [] x.tag = "Join" -> x.threw \/ x.isend
      [] x.tag = "Sort" -> x.cursor > Len(x.tuples)
      [] x.tag = "Projection" -> is_end(x.prev)

(* The current tuple.                                                      *)
RECURSIVE Next_(_, _)
Next_(data, x) ==
    CASE x.tag = "Scan" -> data[x.tab][x.rids[x.cursor]]
      [] x.tag = "Join" -> x.current
      [] x.tag = "Sort" -> x.tuples[x.cursor]
      [] x.tag = "Projection" ->
           LET rec == Next_(data, x.prev)
           IN FlattenSeq([i \in DOMAIN x.sel |->
                 SubSeq(rec, x.sel[i].offset + 1, x.sel[i].offset + x.sel[i].len)])

----------------------------------------------------------------------------
(* SeqScanExecutor and IndexScanExecutor: rids in the order of the file or *)
(* of the index, and a filter.                                             *)

(* compare_index_key(a, b) < 0.                                            *)
KeyBefore(tab, index, a, b) ==
    \E n \in DOMAIN index :
        LET Cmp(i) == LET col == get_col(tab, index[i])
                      IN compare_raw_value(CellsAt(a, col), CellsAt(b, col), col.type, col.len)
        IN Cmp(n) < 0 /\ \A i \in 1 .. n - 1 : Cmp(i) = 0

key_equal(tab, index, a, b) == ~KeyBefore(tab, index, a, b) /\ ~KeyBefore(tab, index, b, a)

CondsOn(tab, col, conds, ops) ==
    { i \in DOMAIN conds : conds[i].is_rhs_val /\ conds[i].lhs = TabCol(tab, col) /\ conds[i].op \in ops }

(* The conditions that bound the range of scan_index: the first equality   *)
(* on each leading column of the index, and all bounds on the next column. *)
RangeConds(tab, index, conds) ==
    LET Eqs(n) == CondsOn(tab, index[n], conds, {"="})
        eq_cols == Max({ n \in 0 .. Len(index) : \A i \in 1 .. n : Eqs(i) # {} })
    IN { Min(Eqs(n)) : n \in 1 .. eq_cols }
         \cup (IF eq_cols = Len(index) THEN {} ELSE CondsOn(tab, index[eq_cols + 1], conds, RangeOps))

scan_index(data, tab, index, conds) ==
    LET rids == { r \in DOMAIN data[tab] :
                    \A i \in RangeConds(tab, index, conds) :
                        eval_condition(Tables[tab].cols, conds[i], data[tab][r]) = "yes" }
    IN SetToSortSeq(rids, LAMBDA r, s : KeyBefore(tab, index, data[tab][r], data[tab][s]))

(* Forward from a position to the first tuple that passes the conditions.  *)
Seek(data, x, from) ==
    LET Eval(k) == eval_conditions(x.cols, x.conds, data[x.tab][x.rids[k]])
        stops   == { k \in from .. Len(x.rids) : Eval(k) # "no" }
    IN IF stops = {} THEN [x EXCEPT !.cursor = Len(x.rids) + 1]
       ELSE [x EXCEPT !.cursor = Min(stops), !.threw = Eval(Min(stops)) = "throw"]

ScanBegin(data, x) ==
    Seek(data, [x EXCEPT !.rids = IF x.index_cols = << >> THEN SetToSortSeq(DOMAIN data[x.tab], <)
                                  ELSE scan_index(data, x.tab, x.index_cols, x.conds)], 1)

ScanNext(data, x) == IF is_end(x) THEN x ELSE Seek(data, x, x.cursor + 1)

----------------------------------------------------------------------------
(* NestedLoopJoinExecutor, SortExecutor, ProjectionExecutor.               *)

RECURSIVE beginTuple(_, _), nextTuple(_, _), load_left_block(_, _, _),
          RestartRight(_, _), advance_to_match(_, _), Drain(_, _)

load_left_block(data, x, used) ==
    IF is_end(x.left) \/ used >= JOIN_BUFFER_BYTES THEN [x EXCEPT !.block_cursor = 0]
    ELSE LET rec == Next_(data, x.left)
         IN load_left_block(data, [x EXCEPT !.left_block = Append(@, rec), !.left = nextTuple(data, @)],
                            used + Len(rec))

(* The right side starts again for each block.                             *)
RestartRight(data, x) ==
    IF x.left_block = << >> THEN [x EXCEPT !.isend = TRUE]
    ELSE advance_to_match(data, [x EXCEPT !.right = beginTuple(data, @)])

advance_to_match(data, x) ==
    IF x.left_block = << >>
    THEN RestartRight(data, load_left_block(data, x, 0))
    ELSE IF is_end(x.right) THEN advance_to_match(data, [x EXCEPT !.left_block = << >>])
    ELSE IF x.block_cursor < Len(x.left_block)
    THEN LET rec == x.left_block[x.block_cursor + 1] \o Next_(data, x.right)
             res == eval_conditions(x.cols, x.conds, rec)
             y   == [x EXCEPT !.block_cursor = @ + 1]
         IN CASE res = "yes"   -> [y EXCEPT !.current = rec, !.isend = FALSE]
              [] res = "no"    -> advance_to_match(data, y)
              [] res = "throw" -> [y EXCEPT !.threw = TRUE]
    ELSE advance_to_match(data, [x EXCEPT !.right = nextTuple(data, @), !.block_cursor = 0])

(* All tuples of an executor, and its state after the last one.            *)
Drain(data, x) ==
    IF is_end(x) THEN [tuples |-> << >>, exec |-> x]
    ELSE LET rest == Drain(data, nextTuple(data, x))
         IN [rest EXCEPT !.tuples = << Next_(data, x) >> \o @]

TupleBefore(keys, a, b) ==
    \E n \in DOMAIN keys :
        LET Cmp(i) == LET col == keys[i].col
                      IN compare_raw_value(CellsAt(a, col), CellsAt(b, col), col.type, col.len)
        IN /\ IF keys[n].desc THEN Cmp(n) > 0 ELSE Cmp(n) < 0
           /\ \A i \in 1 .. n - 1 : Cmp(i) = 0

stable_sort(s, keys) ==
    LET order == SetToSortSeq(DOMAIN s, LAMBDA i, j :
                     \/ TupleBefore(keys, s[i], s[j])
                     \/ ~TupleBefore(keys, s[j], s[i]) /\ i < j)
    IN [i \in DOMAIN s |-> s[order[i]]]

Limited(s, limit) == IF limit >= 0 /\ Len(s) > limit THEN SubSeq(s, 1, limit) ELSE s

Sorted(x, all) ==
    [x EXCEPT !.prev = all.exec, !.cursor = 1,
              !.tuples = Limited(stable_sort(all.tuples, x.keys), x.limit)]

SortBegin(data, x) == Sorted(x, Drain(data, beginTuple(data, x.prev)))

(* Mutant of SortNext: the cursor stays.                                   *)
SortNext_Stays(x) == x

SortNext(x) == IF is_end(x) THEN x ELSE [x EXCEPT !.cursor = @ + 1]

beginTuple(data, x) ==
    IF Threw(x) THEN x ELSE
    CASE x.tag = "Scan" -> ScanBegin(data, x)
      [] x.tag = "Join" -> advance_to_match(data,
            [x EXCEPT !.left_block = << >>, !.block_cursor = 0, !.left = beginTuple(data, @)])
      [] x.tag = "Sort" -> SortBegin(data, x)
      [] x.tag = "Projection" -> [x EXCEPT !.prev = beginTuple(data, @)]

nextTuple(data, x) ==
    IF Threw(x) THEN x ELSE
    CASE x.tag = "Scan" -> ScanNext(data, x)
      [] x.tag = "Join" -> IF x.isend THEN x ELSE advance_to_match(data, x)
      [] x.tag = "Sort" -> SortNext(x)
      [] x.tag = "Projection" -> [x EXCEPT !.prev = nextTuple(data, @)]

----------------------------------------------------------------------------
(* Portal::convert_plan_executor: the constructors.                        *)

tupleLen(cols) == IF cols = << >> THEN 0 ELSE Last(cols).offset + Last(cols).len

ShiftCols(cols, n) == [i \in DOMAIN cols |-> [cols[i] EXCEPT !.offset = @ + n]]

(* IndexScanExecutor turns a condition whose left column is another        *)
(* table's, and asserts that its right column is this table's.             *)
ScanConds(plan) ==
    IF plan.tag = "SeqScan" THEN plan.conds
    ELSE [i \in DOMAIN plan.conds |->
            IF plan.conds[i].lhs.tab = plan.tab THEN plan.conds[i] ELSE SwapSides(plan.conds[i])]

AssertFails(plan) ==
    plan.tag = "IndexScan" /\ \E i \in DOMAIN plan.conds : ScanConds(plan)[i].lhs.tab # plan.tab

SortExecutor(prev, sort_keys, limit) ==
    [tag |-> "Sort", prev |-> prev, cols |-> prev.cols,
     keys |-> [i \in DOMAIN sort_keys |-> [col  |-> ColMetaOf(prev.cols, sort_keys[i].col),
                                           desc |-> sort_keys[i].desc]],
     limit |-> limit, tuples |-> << >>, cursor |-> 1]

ProjectionExecutor(prev, sel_cols) ==
    LET sel == [i \in DOMAIN sel_cols |-> ColMetaOf(prev.cols, sel_cols[i])]
        Offset(i) == FoldLeft(LAMBDA n, c : n + c.len, 0, SubSeq(sel, 1, i - 1))
    IN [tag |-> "Projection", prev |-> prev, sel |-> sel,
        cols |-> [i \in DOMAIN sel |-> [sel[i] EXCEPT !.offset = Offset(i)]]]

RECURSIVE convert_plan_executor(_)
convert_plan_executor(plan) ==
    CASE plan.tag \in {"SeqScan", "IndexScan"} ->
           [tag |-> "Scan", tab |-> plan.tab, cols |-> Tables[plan.tab].cols,
            conds |-> ScanConds(plan), index_cols |-> plan.index_cols,
            rids |-> << >>, cursor |-> 1, threw |-> AssertFails(plan)]
      [] plan.tag = "NestLoop" ->
           LET left  == convert_plan_executor(plan.left)
               right == convert_plan_executor(plan.right)
           IN [tag |-> "Join", left |-> left, right |-> right, conds |-> plan.conds,
               cols |-> left.cols \o ShiftCols(right.cols, tupleLen(left.cols)),
               left_block |-> << >>, block_cursor |-> 0, current |-> << >>,
               isend |-> FALSE, threw |-> FALSE]
      [] plan.tag = "Sort" -> SortExecutor(convert_plan_executor(plan.sub), plan.sort_keys, plan.limit)
      [] plan.tag = "Projection" -> ProjectionExecutor(convert_plan_executor(plan.sub), plan.sel_cols)

----------------------------------------------------------------------------
(* select_from's aggregates.                                               *)

AggregateState(call, cols) ==
    [type |-> call.type, initialized |-> FALSE, count |-> 0, sum |-> 0, best |-> << >>,
     col  |-> IF call.count_star THEN [type |-> "INT", len |-> 1, offset |-> 0]
              ELSE ColMetaOf(cols, call.col)]

Accumulate(state, rec) ==
    LET raw == CellsAt(rec, state.col)
        cmp == compare_raw_value(raw, state.best, state.col.type, state.col.len)
    IN CASE state.type = "COUNT" -> [state EXCEPT !.count = @ + 1]
         [] state.type = "SUM"   -> [state EXCEPT !.sum = int64(@ + raw[1])]
         [] state.type \in {"MAX", "MIN"} ->
              IF \/ ~state.initialized
                 \/ state.type = "MAX" /\ cmp > 0
                 \/ state.type = "MIN" /\ cmp < 0
              THEN [state EXCEPT !.initialized = TRUE, !.best = SubSeq(raw, 1, state.col.len)]
              ELSE state

NULL_TEXT == << "empty" >>    \* the text "" that is printed for no value

finalize_aggregate(state) ==
    CASE state.type = "COUNT" -> state.count
      [] state.type = "SUM"   -> state.sum
      [] state.type \in {"MAX", "MIN"} ->
           IF ~state.initialized THEN NULL_TEXT
           ELSE format_column_value(state.best, [state.col EXCEPT !.offset = 0])

----------------------------------------------------------------------------
(* The executors that write.  Each round of their loops can throw: on a    *)
(* value that does not fit, or on a key that is taken.  s is [data, threw].*)

(* Portal::start's loop: the rids of a scan, collected before any write.   *)
RECURSIVE CollectRids(_, _)
CollectRids(data, scan) ==
    IF is_end(scan) THEN << >>
    ELSE << scan.rids[scan.cursor] >> \o CollectRids(data, nextTuple(data, scan))

SetCells(rec, col, cells) ==
    [i \in DOMAIN rec |-> IF i > col.offset /\ i <= col.offset + col.len
                          THEN cells[i - col.offset] ELSE rec[i]]

(* Mutant of DuplicateKey: a row meets its own key.                        *)
DuplicateKey_Self(data, tab, rec, self) ==
    \E i \in DOMAIN Tables[tab].indexes, r \in DOMAIN data[tab] :
        key_equal(tab, Tables[tab].indexes[i], data[tab][r], rec)

(* check_index_insert throws; self is {} or the rid of the row.            *)
DuplicateKey(data, tab, rec, self) ==
    \E i \in DOMAIN Tables[tab].indexes, r \in DOMAIN data[tab] \ self :
        key_equal(tab, Tables[tab].indexes[i], data[tab][r], rec)

FreeRid(file) == Min((1 .. Cardinality(DOMAIN file) + 1) \ DOMAIN file)

InsertExecutor(data, plan) ==
    LET cols  == Tables[plan.tab].cols
        count == Len(plan.values) = Len(cols)
        fits  == \A i \in DOMAIN cols :
                    /\ CanCoerce(plan.values[i], cols[i].type)
                    /\ FitsRaw(coerce_to(plan.values[i], cols[i].type), cols[i].len)
        rec   == FlattenSeq([i \in DOMAIN cols |->
                    init_raw(coerce_to(plan.values[i], cols[i].type), cols[i].len)])
    IN IF count /\ fits /\ ~DuplicateKey(data, plan.tab, rec, {})
       THEN [data  |-> [data EXCEPT ![plan.tab] = (FreeRid(@) :> rec) @@ @], threw |-> FALSE]
       ELSE [data |-> data, threw |-> TRUE]

UpdateRow(tab, set_clauses, s, rid) ==
    LET Set(rec, c) == LET col == get_col(tab, c.col) IN SetCells(rec, col, init_raw(c.val, col.len))
        fits == \A i \in DOMAIN set_clauses :
                   FitsRaw(set_clauses[i].val, get_col(tab, set_clauses[i].col).len)
        rec  == FoldLeft(Set, s.data[tab][rid], set_clauses)
    IN IF s.threw THEN s
       ELSE IF fits /\ ~DuplicateKey(s.data, tab, rec, {rid})
       THEN [s EXCEPT !.data[tab][rid] = rec]
       ELSE [s EXCEPT !.threw = TRUE]

UpdateExecutor(data, plan, rids) ==
    FoldLeft(LAMBDA s, rid : UpdateRow(plan.tab, plan.set_clauses, s, rid),
             [data |-> data, threw |-> FALSE], rids)

DeleteExecutor(data, plan, rids) ==
    [data |-> [data EXCEPT ![plan.tab] =
                 [r \in DOMAIN @ \ Range(rids) |-> @[r]]], threw |-> FALSE]
=============================================================================
