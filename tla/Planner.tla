------------------------------ MODULE Planner -------------------------------
(***************************************************************************)
(* Plans (src/optimizer/plan.h) and how a query gets one: Optimizer (src/  *)
(* optimizer/optimizer.h) and Planner (src/optimizer/planner.cpp).         *)
(***************************************************************************)
EXTENDS Analyze

ScanPlan(tab, conds, index_cols) ==
    [tag |-> IF index_cols = << >> THEN "SeqScan" ELSE "IndexScan",
     tab |-> tab, conds |-> conds, index_cols |-> index_cols]

JoinPlan(left, right, conds) ==
    [tag |-> "NestLoop", left |-> left, right |-> right, conds |-> conds]

----------------------------------------------------------------------------
(* The choice of an index.                                                 *)

RangeOps == {"<", "<=", ">", ">="}

HasCond(tab, conds, col, ops) ==
    \E i \in DOMAIN conds : conds[i].is_rhs_val /\ conds[i].lhs = TabCol(tab, col) /\ conds[i].op \in ops

(* Equalities on a prefix of the index's columns, and a range after it.    *)
IndexScore(tab, conds, index) ==
    LET eqs == Max({ n \in 0 .. Len(index) :
                       \A i \in 1 .. n : HasCond(tab, conds, index[i], {"="}) })
    IN IF eqs < Len(index) /\ HasCond(tab, conds, index[eqs + 1], RangeOps) THEN eqs + 1 ELSE eqs

(* The first index with the best score, << >> when no score is positive.   *)
get_index_cols(tab, conds) ==
    LET indexes == Tables[tab].indexes
        Score(i) == IndexScore(tab, conds, indexes[i])
        best == { i \in DOMAIN indexes : /\ Score(i) > 0
                                         /\ \A j \in DOMAIN indexes : Score(j) <= Score(i) }
    IN IF best = {} THEN << >> ELSE indexes[Min(best)]

TableScan(tab, conds) == ScanPlan(tab, conds, get_index_cols(tab, conds))

----------------------------------------------------------------------------

(* Conditions that go into the scan of a table: those against a value, and *)
(* all that compare two columns of one table, whichever table it is.       *)
Pops(cond, tab) ==
    \/ cond.lhs.tab = tab /\ cond.is_rhs_val
    \/ cond.lhs.tab = cond.rhs.tab

pop_conds(conds, tab) == SelectSeq(conds, LAMBDA c : Pops(c, tab))

KeepConds(conds, tab) == SelectSeq(conds, LAMBDA c : ~Pops(c, tab))

(* What is left of the conditions before the i-th table.                   *)
RECURSIVE CondsBefore(_, _, _)
CondsBefore(tabs, conds, i) ==
    IF i = 1 THEN conds ELSE KeepConds(CondsBefore(tabs, conds, i - 1), tabs[i - 1])

SwapSides(cond) == [cond EXCEPT !.lhs = cond.rhs, !.rhs = cond.lhs, !.op = swap_op[cond.op]]

(* push_conds: where the two tables of a condition meet in a join tree.    *)
(* res is 1 or 2 for its left or right table, 0 for neither, 3 when the    *)
(* condition has found its join.                                           *)
RECURSIVE push_conds(_, _)
push_conds(cond, plan) ==
    IF plan.tag # "NestLoop"
    THEN [plan |-> plan,
          res  |-> IF plan.tab = cond.lhs.tab THEN 1 ELSE IF plan.tab = cond.rhs.tab THEN 2 ELSE 0]
    ELSE LET l == push_conds(cond, plan.left)
             r == push_conds(cond, plan.right)
         IN CASE l.res = 3 -> [plan |-> [plan EXCEPT !.left = l.plan], res |-> 3]
              [] l.res # 3 /\ r.res = 3 -> [plan |-> [plan EXCEPT !.right = r.plan], res |-> 3]
              [] {l.res, r.res} \subseteq {1, 2} ->
                   [plan |-> [plan EXCEPT !.conds =
                                Append(@, IF l.res = 2 THEN SwapSides(cond) ELSE cond)],
                    res  |-> 3]
              [] OTHER -> [plan |-> plan, res |-> l.res + r.res]

(* The scan of a table, by position.                                       *)
pop_scan(tabs, tab) == Min({ i \in DOMAIN tabs : tabs[i] = tab })

(* One more condition: j.used are the tables (by position) in j.plan.      *)
AddJoin(tabs, scans, j, cond) ==
    LET Joined(tab) == \E i \in j.used : tabs[i] = tab
        l == pop_scan(tabs, cond.lhs.tab)
        r == pop_scan(tabs, cond.rhs.tab)
        newL == ~Joined(cond.lhs.tab)
        newR == ~Joined(cond.rhs.tab)
    IN CASE newL /\ newR ->
              [plan |-> JoinPlan(JoinPlan(scans[l], scans[r], << cond >>), j.plan, << >>),
               used |-> j.used \cup {l, r}]
         [] newL /\ ~newR ->
              [plan |-> JoinPlan(scans[l], j.plan, << cond >>), used |-> j.used \cup {l}]
         [] ~newL /\ newR ->
              [plan |-> JoinPlan(scans[r], j.plan, << SwapSides(cond) >>), used |-> j.used \cup {r}]
         [] OTHER -> [j EXCEPT !.plan = push_conds(cond, j.plan).plan]

(* The first join comes from the first condition.                          *)
FirstJoin(tabs, scans, cond) ==
    LET l == pop_scan(tabs, cond.lhs.tab)
        r == pop_scan(tabs, cond.rhs.tab)
    IN [plan |-> JoinPlan(scans[l], scans[r], << cond >>), used |-> {l, r}]

CondJoins(tabs, scans, conds) ==
    IF conds = << >> THEN [plan |-> scans[1], used |-> {1}]
    ELSE FoldLeft(LAMBDA j, c : AddJoin(tabs, scans, j, c),
                  FirstJoin(tabs, scans, conds[1]), Tail(conds))

(* The tables that no condition joins.                                     *)
CrossJoins(tabs, scans, j) ==
    FoldLeft(LAMBDA p, i : JoinPlan(scans[i], p, << >>), j.plan,
             SelectSeq([i \in DOMAIN tabs |-> i], LAMBDA i : i \notin j.used))

JoinScans(tabs, scans, conds) ==
    IF Len(tabs) = 1 THEN scans[1]
    ELSE CrossJoins(tabs, scans, CondJoins(tabs, scans, conds))

make_one_rel(query) ==
    LET tabs == query.tables
    IN JoinScans(tabs,
                 [i \in DOMAIN tabs |->
                    TableScan(tabs[i], pop_conds(CondsBefore(tabs, query.conds, i), tabs[i]))],
                 CondsBefore(tabs, query.conds, Len(tabs) + 1))

(* Mutant of generate_sort_plan: a limit without a sort key is lost.       *)
generate_sort_plan_KeysOnly(query, plan) ==
    IF query.sort_keys = << >> THEN plan
    ELSE [tag |-> "Sort", sub |-> plan, sort_keys |-> query.sort_keys, limit |-> query.limit]

generate_sort_plan(query, plan) ==
    IF query.sort_keys = << >> /\ query.limit < 0 THEN plan
    ELSE [tag |-> "Sort", sub |-> plan, sort_keys |-> query.sort_keys, limit |-> query.limit]

physical_optimization(query) == generate_sort_plan(query, make_one_rel(query))

generate_select_plan(query) ==
    [tag      |-> "Projection",
     sub      |-> physical_optimization(query),
     sel_cols |-> query.cols]

----------------------------------------------------------------------------
(* do_planner and plan_query: the plan of each class of statement.         *)

DMLPlan(tag, sub, tab, values, set_clauses, aggregates) ==
    [tag |-> tag, class |-> "DML", sub |-> sub, tab |-> tab, values |-> values,
     set_clauses |-> set_clauses, aggregates |-> aggregates]

NoPlan == [tag |-> "Invalid"]

do_planner(query) ==
    LET x == query.parse
    IN CASE x.node \in {"CreateTable", "DropTable", "CreateIndex", "DropIndex"} ->
              [tag |-> x.node, class |-> "DDL"]
         [] x.node = "InsertStmt" ->
              DMLPlan("Insert", NoPlan, x.tab, query.values, << >>, << >>)
         [] x.node = "DeleteStmt" ->
              DMLPlan("Delete", TableScan(x.tab, query.conds), x.tab, << >>, << >>, << >>)
         [] x.node = "UpdateStmt" ->
              DMLPlan("Update", TableScan(x.tab, query.conds), x.tab, << >>,
                      query.set_clauses, << >>)
         [] x.node = "SelectStmt" ->
              DMLPlan("select", generate_select_plan(query), "", << >>, << >>, query.aggregates)

plan_query(query) ==
    LET x == query.parse
    IN IF x.node \in {"Help", "ShowTables", "ShowIndex", "DescTable",
                      "TxnBegin", "TxnCommit", "TxnAbort", "TxnRollback"}
       THEN [tag |-> x.node, class |-> "Other"]
       ELSE do_planner(query)
=============================================================================
