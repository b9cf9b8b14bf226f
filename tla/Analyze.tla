------------------------------ MODULE Analyze -------------------------------
(***************************************************************************)
(* Semantic analysis (src/analyze/analyze.cpp): statement trees become     *)
(* queries whose columns name their tables and whose values have the type  *)
(* of their column.                                                        *)
(*                                                                         *)
(* Every function that can throw has a predicate, true when it does not;   *)
(* which RMDBError it is does not matter to the caller.  Names are strings *)
(* and "" is the empty name.  Tree nodes are records whose field "node" is *)
(* the class.                                                              *)
(***************************************************************************)
EXTENDS Values

CONSTANT Tables    \* SmManager::db_: TabMeta by name, [cols, indexes]

IsTable(tab) == tab \in DOMAIN Tables

TabCol(tab, col) == [tab |-> tab, col |-> col]

(* TabMeta::get_col.                                                       *)
get_col(tab, col) ==
    Tables[tab].cols[CHOOSE i \in DOMAIN Tables[tab].cols : Tables[tab].cols[i].name = col]

get_all_cols(tabs) == FlattenSeq([i \in DOMAIN tabs |-> Tables[tabs[i]].cols])

----------------------------------------------------------------------------
Matches(all_cols, target) ==
    { i \in DOMAIN all_cols : /\ all_cols[i].name = target.col
                              /\ target.tab \in {"", all_cols[i].tab} }

(* No ColumnNotFoundError, and no AmbiguousColumnError for a bare name.    *)
CheckColumnOK(all_cols, target) ==
    /\ Matches(all_cols, target) # {}
    /\ target.tab = "" => Cardinality(Matches(all_cols, target)) = 1

check_column(all_cols, target) ==
    TabCol(all_cols[Min(Matches(all_cols, target))].tab, target.col)

----------------------------------------------------------------------------
(* parse_int64_literal does not throw.                                     *)
LiteralOK(lit) == lit.node = "IntLit" => IsBigint(lit.val)

convert_sv_value(lit) ==
    CASE lit.node = "IntLit"    -> Val(IF IsInt(lit.val) THEN "INT" ELSE "BIGINT", lit.val)
      [] lit.node = "FloatLit"  -> Val("FLOAT", lit.val)
      [] lit.node = "StringLit" -> Val("STRING", lit.val)

IsRhsVal(expr) == expr.rhs.node # "Col"

NoCol == TabCol("", "")

(* get_clause and check_clause, for one condition.                         *)
ConditionOK(all_cols, expr) ==
    LET lhs == check_column(all_cols, expr.lhs)
        col == get_col(lhs.tab, lhs.col)
    IN /\ CheckColumnOK(all_cols, expr.lhs)
       /\ IF IsRhsVal(expr)
          THEN /\ LiteralOK(expr.rhs)
               /\ CanCoerce(convert_sv_value(expr.rhs), col.type)
               /\ FitsRaw(coerce_to(convert_sv_value(expr.rhs), col.type), col.len)
          ELSE /\ CheckColumnOK(all_cols, expr.rhs)
               /\ LET rhs == check_column(all_cols, expr.rhs)
                  IN get_col(rhs.tab, rhs.col).type = col.type

Condition(all_cols, expr) ==
    LET lhs == check_column(all_cols, expr.lhs)
        col == get_col(lhs.tab, lhs.col)
    IN [lhs |-> lhs, op |-> expr.op, is_rhs_val |-> IsRhsVal(expr),
        rhs |-> IF IsRhsVal(expr) THEN NoCol ELSE check_column(all_cols, expr.rhs),
        raw |-> IF IsRhsVal(expr)
                THEN init_raw(coerce_to(convert_sv_value(expr.rhs), col.type), col.len)
                ELSE << >>]

ClauseOK(tabs, exprs) == \A i \in DOMAIN exprs : ConditionOK(get_all_cols(tabs), exprs[i])

check_clause(tabs, exprs) == [i \in DOMAIN exprs |-> Condition(get_all_cols(tabs), exprs[i])]

----------------------------------------------------------------------------
(* do_analyze, per class of statement.                                     *)

AggregateOK(all_cols, c) ==
    c.count_star \/ /\ CheckColumnOK(all_cols, c)
                    /\ LET col == check_column(all_cols, c)
                       IN c.agg = "SUM" => get_col(col.tab, col.col).type
                                             \in {"INT", "FLOAT", "BIGINT"}

SelectOK(x) ==
    /\ \A i \in DOMAIN x.tabs : IsTable(x.tabs[i])
    /\ LET all_cols == get_all_cols(x.tabs)
           has_aggregate == \E i \in DOMAIN x.cols : x.cols[i].agg # ""
       IN /\ \A i \in DOMAIN x.cols :
                IF has_aggregate THEN x.cols[i].agg # "" /\ AggregateOK(all_cols, x.cols[i])
                ELSE CheckColumnOK(all_cols, x.cols[i])
          /\ ClauseOK(x.tabs, x.conds)
          /\ \A i \in DOMAIN x.order : CheckColumnOK(all_cols, x.order[i].col)

AnalyzeSelect(x) ==
    LET all_cols == get_all_cols(x.tabs)
        Named(c) == check_column(all_cols, c)
        plain    == SelectSeq(x.cols, LAMBDA c : ~c.count_star)
    IN [parse      |-> x,
        tables     |-> x.tabs,
        conds      |-> check_clause(x.tabs, x.conds),
        cols       |-> IF x.cols = << >>
                       THEN [i \in DOMAIN all_cols |-> TabCol(all_cols[i].tab, all_cols[i].name)]
                       ELSE [i \in DOMAIN plain |-> Named(plain[i])],
        aggregates |-> LET aggs == SelectSeq(x.cols, LAMBDA c : c.agg # "")
                       IN [i \in DOMAIN aggs |->
                             [type |-> aggs[i].agg, alias |-> aggs[i].alias, count_star |-> aggs[i].count_star,
                              col  |-> IF aggs[i].count_star THEN NoCol ELSE Named(aggs[i])]],
        sort_keys  |-> [i \in DOMAIN x.order |->
                          [col |-> Named(x.order[i].col), desc |-> x.order[i].dir = "DESC"]],
        limit      |-> x.limit]

SetClauseOK(tab, s) ==
    /\ CheckColumnOK(get_all_cols(<< tab >>), TabCol(tab, s.col))
    /\ LiteralOK(s.val)
    /\ CanCoerce(convert_sv_value(s.val), get_col(tab, s.col).type)

UpdateOK(x) ==
    /\ IsTable(x.tab)
    /\ \A i \in DOMAIN x.set_clauses : SetClauseOK(x.tab, x.set_clauses[i])
    /\ ClauseOK(<< x.tab >>, x.conds)

AnalyzeUpdate(x) ==
    [parse       |-> x,
     set_clauses |-> [i \in DOMAIN x.set_clauses |->
                        [col |-> x.set_clauses[i].col,
                         val |-> coerce_to(convert_sv_value(x.set_clauses[i].val),
                                           get_col(x.tab, x.set_clauses[i].col).type)]],
     conds       |-> check_clause(<< x.tab >>, x.conds)]

DeleteOK(x) == IsTable(x.tab) /\ ClauseOK(<< x.tab >>, x.conds)

AnalyzeDelete(x) == [parse |-> x, conds |-> check_clause(<< x.tab >>, x.conds)]

InsertOK(x) == IsTable(x.tab) /\ \A i \in DOMAIN x.vals : LiteralOK(x.vals[i])

AnalyzeInsert(x) ==
    [parse |-> x, values |-> [i \in DOMAIN x.vals |-> convert_sv_value(x.vals[i])]]

(* do_analyze does not throw.                                              *)
AnalyzeOK(x) ==
    CASE x.node = "SelectStmt" -> SelectOK(x)
      [] x.node = "UpdateStmt" -> UpdateOK(x)
      [] x.node = "DeleteStmt" -> DeleteOK(x)
      [] x.node = "InsertStmt" -> InsertOK(x)
      [] OTHER -> TRUE

do_analyze(x) ==
    CASE x.node = "SelectStmt" -> AnalyzeSelect(x)
      [] x.node = "UpdateStmt" -> AnalyzeUpdate(x)
      [] x.node = "DeleteStmt" -> AnalyzeDelete(x)
      [] x.node = "InsertStmt" -> AnalyzeInsert(x)
      [] OTHER -> [parse |-> x]
=============================================================================
