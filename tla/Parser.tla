------------------------------- MODULE Parser -------------------------------
(***************************************************************************)
(* The scanner (src/parser/lex.yy.cpp, from lex.l) and the LALR(1) parser  *)
(* (src/parser/yacc.tab.cpp, from yacc.y) of one statement text.           *)
(*                                                                         *)
(* A text is a sequence of lexemes << lex, text >>: what one rule of the   *)
(* scanner matches.  lex is the matched word or operator, or "id", "int",  *)
(* "float", "string", "/*", "*/", or "junk" for any other character.       *)
(* White space and line comments are left out.                             *)
(*                                                                         *)
(* The parser is the one bison generates: its tables are those of          *)
(* yacc.tab.cpp, an action is one pass from yybackup to yynewstate.  Its   *)
(* stack of semantic values keeps what was popped: an empty rule starts    *)
(* from the stale slot above the top (yyval = yyvsp[1 - yylen]), and a     *)
(* token that sets no field of yylval carries the fields of earlier        *)
(* tokens.                                                                 *)
(***************************************************************************)
EXTENDS Integers, SequencesExt

CONSTANTS
    YYINITDEPTH,    \* the size of the stacks: SemValue is not trivial, so they cannot grow
    STOI_MAX        \* the largest number std::stoi takes

ASSUME DepthAssumption == YYINITDEPTH \in Nat \ {0} /\ STOI_MAX \in Nat

VARIABLES
    input,          \* the text
    yy_c_buf_p,     \* how many of its lexemes are scanned
    yy_start,       \* the start state of the scanner, kept from text to text
    yylval,         \* the semantic value of the last token
    yychar,         \* the lookahead token, "" for YYEMPTY
    yyss,           \* states, the top last
    yyvs,           \* semantic values: yyvs[i] belongs to yyss[i], later ones are stale
    parse_tree,     \* ast::parse_tree
    yyresult        \* "running", "accept", "abort", "nomem", or "threw"

parserVars == << input, yy_c_buf_p, yy_start, yylval, yychar, yyss, yyvs, parse_tree, yyresult >>

----------------------------------------------------------------------------
(* Symbol kinds (0 is the first) and the tables.                           *)

yytname == <<
    "end of file", "error", "invalid token", "SHOW", "TABLES", "CREATE",
    "TABLE", "DROP", "DESC", "INSERT", "INTO", "VALUES", "DELETE", "FROM",
    "ASC", "ORDER", "BY", "WHERE", "UPDATE", "SET", "SELECT", "INT", "BIGINT",
    "DATETIME", "CHAR", "FLOAT", "INDEX", "AND", "JOIN", "EXIT", "HELP",
    "TXN_BEGIN", "TXN_COMMIT", "TXN_ABORT", "TXN_ROLLBACK", "ORDER_BY",
    "COUNT", "SUM", "MAX", "MIN", "AS", "LIMIT", "LEQ", "NEQ", "GEQ", "T_EOF",
    "IDENTIFIER", "VALUE_STRING", "VALUE_INT", "VALUE_FLOAT", ";", "(", ")",
    ",", ".", "=", "<", ">", "*" >>

yypact == <<
    58, 4, 0, 3, -21, 34, 42, -21, 59, -93, -93, -93, -93, -93, -93, -93, 56,
    14, -93, -93, -93, -93, -93, 44, -21, -21, -21, -21, -93, -93, -21, -21,
    55, 26, 43, 48, 51, 21, -93, -93, 40, 91, 62, -93, 64, -93, -93, -93, -21,
    65, 68, -93, 69, 111, 106, 78, -27, 79, 79, 79, 79, -21, 75, 78, -93, 78,
    78, 78, 76, 79, -93, -93, -14, -93, 71, 77, 80, 81, 82, 83, -93, -10, -93,
    -93, -93, -12, -93, 85, -6, -93, 7, -32, -93, 101, 29, 78, -93, -32, 90,
    96, 97, 98, 99, -21, -21, 116, -93, 78, -93, -93, -93, 89, -93, -93, -93,
    78, -93, -93, -93, -93, 16, -93, 79, -93, -93, -93, -93, -93, -93, -13,
    -93, -93, 78, 78, 78, 78, 78, -93, -93, 125, 102, -93, 94, -93, -93, -32,
    -93, -93, -93, -93, -93, -93, -93, -93, -93, 79, 100, -93, 92, -93, 24,
    -93, 93, -93, -93, -93, -93, -93, 79, -93 >>

yydefact == <<
    0, 0, 0, 0, 0, 0, 0, 0, 0, 4, 3, 10, 11, 12, 13, 5, 0, 0, 9, 6, 7, 8, 14,
    0, 0, 0, 0, 0, 83, 18, 0, 0, 0, 0, 0, 0, 0, 84, 60, 47, 61, 0, 62, 63, 0,
    46, 1, 2, 0, 0, 0, 17, 0, 0, 41, 0, 0, 0, 0, 0, 0, 0, 0, 0, 15, 0, 0, 0,
    0, 0, 22, 84, 41, 57, 0, 0, 0, 0, 0, 0, 48, 41, 70, 64, 45, 0, 25, 0, 0,
    27, 0, 0, 43, 42, 0, 0, 23, 0, 0, 0, 0, 0, 0, 0, 0, 74, 16, 0, 30, 33, 34,
    0, 32, 29, 19, 0, 20, 39, 37, 38, 0, 35, 0, 53, 52, 54, 49, 50, 51, 0, 58,
    59, 0, 0, 0, 0, 0, 72, 71, 0, 82, 26, 0, 28, 21, 0, 44, 55, 56, 40, 65,
    66, 67, 68, 69, 0, 0, 24, 0, 36, 80, 76, 73, 81, 31, 79, 78, 75, 0, 77 >>

yypgoto == <<
    -93, -93, -93, -93, -93, -93, -93, -93, 84, 38, -93, -93, -92, 27, -61,
    -93, -8, -93, -93, -93, -93, 57, -93, -93, 88, -93, -93, -15, -93, -93,
    -93, -3, -53 >>

yydefgoto == <<
    0, 16, 17, 18, 19, 20, 21, 85, 88, 86, 113, 120, 121, 92, 70, 93, 94, 40,
    129, 149, 72, 73, 41, 42, 43, 81, 140, 161, 162, 167, 157, 44, 45 >>

yytable == <<
    39, 29, 74, 69, 32, 131, 24, 69, 22, 26, 84, 96, 87, 89, 89, 117, 118,
    119, 103, 37, 105, 49, 50, 51, 52, 28, 25, 53, 54, 27, 23, 75, 165, 37,
    117, 118, 119, 147, 166, 95, 106, 107, 74, 104, 30, 64, 114, 115, 76, 77,
    78, 79, 80, 159, 87, 31, 46, 48, 82, 116, 115, 1, 143, 2, 47, 3, 4, 5,
    144, 145, 6, 123, 124, 125, 55, -83, 7, 56, 8, 150, 151, 152, 153, 154,
    126, 127, 128, 9, 10, 11, 12, 13, 14, 60, 57, 33, 34, 35, 36, 58, 137,
    138, 59, 15, 61, 37, 108, 109, 110, 111, 112, 33, 34, 35, 36, 62, 65, 38,
    63, 66, 67, 148, 68, 69, 71, 37, 97, 91, 122, 98, 132, 139, 99, 100, 101,
    102, 133, 134, 135, 136, 142, 155, 158, 156, 164, 141, 168, 160, 163, 146,
    83, 90, 130, 169, 0, 0, 0, 0, 0, 0, 160 >>

yycheck == <<
    8, 4, 55, 17, 7, 97, 6, 17, 4, 6, 63, 72, 65, 66, 67, 47, 48, 49, 28, 46,
    81, 24, 25, 26, 27, 46, 26, 30, 31, 26, 26, 58, 8, 46, 47, 48, 49, 129,
    14, 53, 52, 53, 95, 53, 10, 48, 52, 53, 56, 57, 58, 59, 60, 145, 107, 13,
    0, 13, 61, 52, 53, 3, 115, 5, 50, 7, 8, 9, 52, 53, 12, 42, 43, 44, 19, 54,
    18, 51, 20, 132, 133, 134, 135, 136, 55, 56, 57, 29, 30, 31, 32, 33, 34,
    53, 51, 36, 37, 38, 39, 51, 103, 104, 51, 45, 13, 46, 21, 22, 23, 24, 25,
    36, 37, 38, 39, 53, 51, 58, 54, 51, 51, 129, 11, 17, 46, 46, 55, 51, 27,
    52, 40, 15, 52, 52, 52, 52, 40, 40, 40, 40, 51, 16, 48, 41, 52, 107, 53,
    155, 48, 122, 62, 67, 95, 168, -1, -1, -1, -1, -1, -1, 168 >>

yyr1 == <<
    0, 59, 60, 60, 60, 60, 61, 61, 61, 61, 62, 62, 62, 62, 63, 63, 64, 64, 64,
    64, 64, 65, 65, 65, 65, 66, 66, 67, 67, 68, 69, 69, 69, 69, 69, 70, 70,
    71, 71, 71, 72, 73, 73, 74, 74, 75, 75, 76, 76, 77, 77, 77, 77, 77, 77,
    78, 78, 79, 79, 80, 81, 81, 81, 82, 82, 83, 83, 83, 83, 83, 84, 84, 84,
    85, 85, 86, 87, 87, 88, 88, 88, 89, 89, 90, 91 >>

yyr2 == <<
    0, 2, 2, 1, 1, 1, 1, 1, 1, 1, 1, 1, 1, 1, 2, 4, 6, 3, 2, 6, 6, 7, 4, 5, 7,
    1, 3, 1, 3, 2, 1, 4, 1, 1, 1, 1, 3, 1, 1, 1, 3, 0, 2, 1, 3, 3, 1, 1, 3, 1,
    1, 1, 1, 1, 1, 1, 1, 1, 3, 3, 1, 1, 1, 1, 3, 6, 6, 6, 6, 6, 1, 3, 3, 3, 0,
    2, 1, 3, 1, 1, 0, 2, 0, 1, 1 >>

SymbolKind == [name \in Range(yytname) |-> (CHOOSE i \in DOMAIN yytname : yytname[i] = name) - 1]

YYFINAL     == 46
YYLAST      == 160
YYNTOKENS   == 59
YYPACT_NINF == -93

----------------------------------------------------------------------------
(* The scanner.                                                            *)

(* The token of a keyword.                                                 *)
KeywordToken(lex) ==
    CASE lex = "BEGIN"    -> "TXN_BEGIN"
      [] lex = "COMMIT"   -> "TXN_COMMIT"
      [] lex = "ABORT"    -> "TXN_ABORT"
      [] lex = "ROLLBACK" -> "TXN_ROLLBACK"
      [] OTHER            -> lex

(* A '*' and '/' outside a comment are a '*' and a stray character.        *)
OperatorToken(lex) ==
    CASE lex = ">=" -> "GEQ"
      [] lex = "<=" -> "LEQ"
      [] lex = "<>" -> "NEQ"
      [] lex = "*/" -> "*"
      [] OTHER      -> lex

IsOperator(lex) == lex \in {">=", "<=", "<>", "*/", ";", "(", ")", ",", "*", "=", ">", "<", "."}

(* The rules with text: which field of yylval they set.                    *)
LiteralToken(l, lval) ==
    CASE l[1] = "id"     -> [token |-> "IDENTIFIER",   lval |-> [lval EXCEPT !.sv_str = l[2]]]
      [] l[1] = "int"    -> [token |-> "VALUE_INT",    lval |-> [lval EXCEPT !.sv_str = l[2]]]
      [] l[1] = "float"  -> [token |-> "VALUE_FLOAT",  lval |-> [lval EXCEPT !.sv_float = l[2]]]
      [] l[1] = "string" -> [token |-> "VALUE_STRING", lval |-> [lval EXCEPT !.sv_str = l[2]]]

(* yylex: from position p of the text, in start state start.               *)
RECURSIVE yylex(_, _, _, _)
yylex(text, p, start, lval) ==
    LET l == text[p + 1]
        Token(t, v) == [token |-> t, lval |-> v, p |-> p + 1, start |-> start]
    IN IF p = Len(text) THEN [token |-> "T_EOF", lval |-> lval, p |-> p, start |-> start]
       ELSE IF start = "STATE_COMMENT"
       THEN yylex(text, p + 1, IF l[1] = "*/" THEN "INITIAL" ELSE start, lval)
       ELSE CASE l[1] = "/*"   -> yylex(text, p + 1, "STATE_COMMENT", lval)
              [] l[1] = "junk" -> yylex(text, p + 1, start, lval)
              [] IsOperator(l[1]) -> Token(OperatorToken(l[1]), lval)
              [] l[1] \in {"id", "int", "float", "string"} ->
                   Token(LiteralToken(l, lval).token, LiteralToken(l, lval).lval)
              [] OTHER          -> Token(KeywordToken(l[1]), lval)

----------------------------------------------------------------------------
(* SemValue: one field for every type of symbol.  A plain int or enum that *)
(* no one has set holds anything.                                          *)

UnsetInt == -99
nullptr == [node |-> "nullptr"]

SemValue ==
    [sv_int |-> UnsetInt, sv_float |-> UnsetInt, sv_str |-> "", sv_orderby_dir |-> "unset",
     sv_strs |-> << >>, sv_node |-> nullptr, sv_comp_op |-> "unset", sv_type_len |-> nullptr,
     sv_field |-> nullptr, sv_fields |-> << >>, sv_expr |-> nullptr, sv_val |-> nullptr,
     sv_vals |-> << >>, sv_col |-> nullptr, sv_cols |-> << >>, sv_set_clause |-> nullptr,
     sv_set_clauses |-> << >>, sv_cond |-> nullptr, sv_conds |-> << >>,
     sv_orderby |-> nullptr, sv_orderby_list |-> << >>]

(* Tree nodes (ast.h).  The list of an absent ORDER BY is a null pointer,  *)
(* and << >> here.                                                         *)
Node(class) == [node |-> class]

Col(tab, col) == [node |-> "Col", tab |-> tab, col |-> col, agg |-> "", alias |-> "", count_star |-> FALSE]

AggCol(agg, tab, col, alias, star) ==
    [node |-> "Col", tab |-> tab, col |-> col, agg |-> agg, alias |-> alias, count_star |-> star]

Lit(class, val) == [node |-> class, val |-> val]

TypeLen(type, len) == [type |-> type, len |-> len]

----------------------------------------------------------------------------
(* The semantic actions.  y is yyval, v[k] the value of the k-th symbol of *)
(* the right-hand side, both before the action.  The result is yyval after *)
(* it.                                                                     *)

(* Rules 10 to 24: statements.                                             *)
StatementAction(rule, y, v) ==
    [y EXCEPT !.sv_node =
        CASE rule = 10 -> Node("TxnBegin")
          [] rule = 11 -> Node("TxnCommit")
          [] rule = 12 -> Node("TxnAbort")
          [] rule = 13 -> Node("TxnRollback")
          [] rule = 14 -> Node("ShowTables")
          [] rule = 15 -> [node |-> "ShowIndex", tab |-> v[4].sv_str]
          [] rule = 16 -> [node |-> "CreateTable", tab |-> v[3].sv_str, fields |-> v[5].sv_fields]
          [] rule = 17 -> [node |-> "DropTable", tab |-> v[3].sv_str]
          [] rule = 18 -> [node |-> "DescTable", tab |-> v[2].sv_str]
          [] rule = 19 -> [node |-> "CreateIndex", tab |-> v[3].sv_str, cols |-> v[5].sv_strs]
          [] rule = 20 -> [node |-> "DropIndex", tab |-> v[3].sv_str, cols |-> v[5].sv_strs]
          [] rule = 21 -> [node |-> "InsertStmt", tab |-> v[3].sv_str, vals |-> v[6].sv_vals]
          [] rule = 22 -> [node |-> "DeleteStmt", tab |-> v[3].sv_str, conds |-> v[4].sv_conds]
          [] rule = 23 -> [node |-> "UpdateStmt", tab |-> v[2].sv_str,
                           set_clauses |-> v[4].sv_set_clauses, conds |-> v[5].sv_conds]
          [] rule = 24 -> [node |-> "SelectStmt", cols |-> v[2].sv_cols, tabs |-> v[4].sv_strs,
                           conds |-> v[5].sv_conds, order |-> v[6].sv_orderby_list,
                           limit |-> v[7].sv_int]]

(* Rules 25 to 36: fields, types and value lists.                          *)
ListAction(rule, y, v) ==
    CASE rule = 25 -> [y EXCEPT !.sv_fields = << v[1].sv_field >>]
      [] rule = 26 -> [y EXCEPT !.sv_fields = Append(@, v[3].sv_field)]
      [] rule = 27 -> [y EXCEPT !.sv_strs = << v[1].sv_str >>]
      [] rule = 28 -> [y EXCEPT !.sv_strs = Append(@, v[3].sv_str)]
      [] rule = 29 -> [y EXCEPT !.sv_field = [col |-> v[1].sv_str, type |-> v[2].sv_type_len]]
      [] rule = 30 -> [y EXCEPT !.sv_type_len = TypeLen("INT", 4)]
      [] rule = 31 -> [y EXCEPT !.sv_type_len = TypeLen("STRING", v[3].sv_str)]
      [] rule = 32 -> [y EXCEPT !.sv_type_len = TypeLen("FLOAT", 4)]
      [] rule = 33 -> [y EXCEPT !.sv_type_len = TypeLen("BIGINT", 8)]
      [] rule = 34 -> [y EXCEPT !.sv_type_len = TypeLen("DATETIME", 8)]
      [] rule = 35 -> [y EXCEPT !.sv_vals = << v[1].sv_val >>]
      [] rule = 36 -> [y EXCEPT !.sv_vals = Append(@, v[3].sv_val)]

(* Rules 37 to 48: values, conditions and columns.                         *)
ConditionAction(rule, y, v) ==
    CASE rule = 37 -> [y EXCEPT !.sv_val = Lit("IntLit", v[1].sv_str)]
      [] rule = 38 -> [y EXCEPT !.sv_val = Lit("FloatLit", v[1].sv_float)]
      [] rule = 39 -> [y EXCEPT !.sv_val = Lit("StringLit", v[1].sv_str)]
      [] rule = 40 -> [y EXCEPT !.sv_cond = [lhs |-> v[1].sv_col, op |-> v[2].sv_comp_op,
                                             rhs |-> v[3].sv_expr]]
      [] rule = 41 -> y
      [] rule = 42 -> [y EXCEPT !.sv_conds = v[2].sv_conds]
      [] rule = 43 -> [y EXCEPT !.sv_conds = << v[1].sv_cond >>]
      [] rule = 44 -> [y EXCEPT !.sv_conds = Append(@, v[3].sv_cond)]
      [] rule = 45 -> [y EXCEPT !.sv_col = Col(v[1].sv_str, v[3].sv_str)]
      [] rule = 46 -> [y EXCEPT !.sv_col = Col("", v[1].sv_str)]
      [] rule = 47 -> [y EXCEPT !.sv_cols = << v[1].sv_col >>]
      [] rule = 48 -> [y EXCEPT !.sv_cols = Append(@, v[3].sv_col)]

(* Rules 49 to 60: operators, expressions, SET clauses and '*'.            *)
OperatorAction(rule, y, v) ==
    CASE rule \in 49 .. 54 ->
           [y EXCEPT !.sv_comp_op = << "=", "<", ">", "#", "<=", ">=" >>[rule - 48]]
      [] rule = 55 -> [y EXCEPT !.sv_expr = v[1].sv_val]
      [] rule = 56 -> [y EXCEPT !.sv_expr = v[1].sv_col]
      [] rule = 57 -> [y EXCEPT !.sv_set_clauses = << v[1].sv_set_clause >>]
      [] rule = 58 -> [y EXCEPT !.sv_set_clauses = Append(@, v[3].sv_set_clause)]
      [] rule = 59 -> [y EXCEPT !.sv_set_clause = [col |-> v[1].sv_str, val |-> v[3].sv_val]]
      [] rule = 60 -> [y EXCEPT !.sv_cols = << >>]

(* Rules 63 to 69: aggregates.                                             *)
AggregateAction(rule, y, v) ==
    LET Agg(agg) == AggCol(agg, v[3].sv_col.tab, v[3].sv_col.col, v[6].sv_str, FALSE)
    IN CASE rule = 63 -> [y EXCEPT !.sv_cols = << v[1].sv_col >>]
         [] rule = 64 -> [y EXCEPT !.sv_cols = Append(@, v[3].sv_col)]
         [] rule = 65 -> [y EXCEPT !.sv_col = AggCol("COUNT", "", "", v[6].sv_str, TRUE)]
         [] rule = 66 -> [y EXCEPT !.sv_col = Agg("COUNT")]
         [] rule = 67 -> [y EXCEPT !.sv_col = Agg("SUM")]
         [] rule = 68 -> [y EXCEPT !.sv_col = Agg("MAX")]
         [] rule = 69 -> [y EXCEPT !.sv_col = Agg("MIN")]

(* Mutant of TableAction: the rule of an absent LIMIT sets nothing.        *)
TableAction_StaleLimit(rule, y, v) ==
    CASE rule = 70 -> [y EXCEPT !.sv_strs = << v[1].sv_str >>]
      [] rule \in {71, 72} -> [y EXCEPT !.sv_strs = Append(@, v[3].sv_str)]
      [] rule = 73 -> [y EXCEPT !.sv_orderby_list = v[3].sv_orderby_list]
      [] rule = 75 -> [y EXCEPT !.sv_orderby = [col |-> v[1].sv_col, dir |-> v[2].sv_orderby_dir]]
      [] rule = 76 -> [y EXCEPT !.sv_orderby_list = << v[1].sv_orderby >>]
      [] rule = 77 -> [y EXCEPT !.sv_orderby_list = Append(v[1].sv_orderby_list, v[3].sv_orderby)]
      [] rule \in 78 .. 80 ->
           [y EXCEPT !.sv_orderby_dir = << "ASC", "DESC", "DEFAULT" >>[rule - 77]]
      [] rule = 81 -> [y EXCEPT !.sv_int = v[2].sv_str]
      [] OTHER -> y

(* Rules 70 to 82: tables, ORDER BY and LIMIT.                             *)
TableAction(rule, y, v) ==
    CASE rule = 70 -> [y EXCEPT !.sv_strs = << v[1].sv_str >>]
      [] rule \in {71, 72} -> [y EXCEPT !.sv_strs = Append(@, v[3].sv_str)]
      [] rule = 73 -> [y EXCEPT !.sv_orderby_list = v[3].sv_orderby_list]
      [] rule = 74 -> y
      [] rule = 75 -> [y EXCEPT !.sv_orderby = [col |-> v[1].sv_col, dir |-> v[2].sv_orderby_dir]]
      [] rule = 76 -> [y EXCEPT !.sv_orderby_list = << v[1].sv_orderby >>]
      [] rule = 77 -> [y EXCEPT !.sv_orderby_list = Append(v[1].sv_orderby_list, v[3].sv_orderby)]
      [] rule \in 78 .. 80 ->
           [y EXCEPT !.sv_orderby_dir = << "ASC", "DESC", "DEFAULT" >>[rule - 77]]
      [] rule = 81 -> [y EXCEPT !.sv_int = v[2].sv_str]
      [] rule = 82 -> [y EXCEPT !.sv_int = -1]

SemanticAction(rule, y, v) ==
    CASE rule \in 10 .. 24 -> StatementAction(rule, y, v)
      [] rule \in 25 .. 36 -> ListAction(rule, y, v)
      [] rule \in 37 .. 48 -> ConditionAction(rule, y, v)
      [] rule \in 49 .. 60 -> OperatorAction(rule, y, v)
      [] rule \in 63 .. 69 -> AggregateAction(rule, y, v)
      [] rule \in 70 .. 82 -> TableAction(rule, y, v)
      [] OTHER -> y        \* no action: $$ = $1

(* std::stoi throws out_of_range in rules 31 and 81.                       *)
StoiThrows(rule, v) ==
    \/ rule = 31 /\ v[3].sv_str > STOI_MAX
    \/ rule = 81 /\ v[2].sv_str > STOI_MAX

----------------------------------------------------------------------------
(* yyparse.                                                                *)

At(table, i) == table[i + 1]

yystate == Last(yyss)

(* The state needs no lookahead: its action is the default one.            *)
IsDefault == At(yypact, yystate) = YYPACT_NINF

(* The scanner is called when a lookahead is needed and there is none.     *)
Lookahead ==
    IF IsDefault \/ yychar # ""
    THEN [token |-> yychar, lval |-> yylval, p |-> yy_c_buf_p, start |-> yy_start]
    ELSE yylex(input, yy_c_buf_p, yy_start, yylval)

(* yybackup: the entry of yytable for the lookahead, 0 for yydefault.      *)
TableEntry(token) ==
    LET yyn == At(yypact, yystate) + SymbolKind[token]
    IN IF IsDefault THEN 0
       ELSE IF yyn < 0 \/ yyn > YYLAST THEN 0
       ELSE IF At(yycheck, yyn) # SymbolKind[token] THEN 0
       ELSE At(yytable, yyn)

(* The rule to reduce, 0 for yyerrlab.                                     *)
Rule(entry) == IF entry < 0 THEN -entry ELSE At(yydefact, yystate)

(* Reading the lookahead; yychar is tok after the step.                    *)
Reads(la, tok) ==
    /\ yychar' = tok
    /\ yylval' = la.lval
    /\ yy_c_buf_p' = la.p
    /\ yy_start' = la.start
    /\ UNCHANGED input

(* Put a value into the i-th slot.                                         *)
Slot(vs, i, val) == IF i <= Len(vs) THEN [vs EXCEPT ![i] = val] ELSE Append(vs, val)

StaleSlot(i) == IF i <= Len(yyvs) THEN yyvs[i] ELSE SemValue

(* yynewstate and yysetstate: push a state; full stacks end the parse.     *)
yynewstate(ss, state) ==
    /\ yyss' = Append(ss, state)
    /\ yyresult' = IF Len(ss) + 1 >= YYINITDEPTH THEN "nomem"
                   ELSE IF state = YYFINAL THEN "accept"
                   ELSE "running"

Shift(la, entry) ==
    /\ entry > 0
    /\ Reads(la, "")
    /\ yyvs' = Slot(yyvs, Len(yyss) + 1, la.lval)
    /\ yynewstate(yyss, entry)
    /\ UNCHANGED parse_tree

(* Rules 2 to 5 set parse_tree and accept at once: what follows the ';' is *)
(* not read.                                                               *)
AcceptStart(rule, v) ==
    /\ parse_tree' = CASE rule = 2 -> v[1].sv_node
                       [] rule = 3 -> Node("Help")
                       [] rule \in {4, 5} -> nullptr
    /\ yyresult' = "accept"
    /\ UNCHANGED << yyss, yyvs >>

(* Mutant of Goto: an entry of the table is taken whoever it belongs to.   *)
Goto_Unchecked(ss, rule) ==
    LET lhs == At(yyr1, rule) - YYNTOKENS
        yyi == At(yypgoto, lhs) + Last(ss)
    IN IF yyi < 0 \/ yyi > YYLAST THEN At(yydefgoto, lhs) ELSE At(yytable, yyi)

(* The state after popping to ss and pushing the left-hand side of a rule. *)
Goto(ss, rule) ==
    LET lhs == At(yyr1, rule) - YYNTOKENS
        yyi == At(yypgoto, lhs) + Last(ss)
        hit == IF yyi < 0 \/ yyi > YYLAST THEN FALSE ELSE At(yycheck, yyi) = Last(ss)
    IN IF hit THEN At(yytable, yyi) ELSE At(yydefgoto, lhs)

(* The action of a rule on the values v of its right-hand side; ss is what *)
(* is left of the stack of states.                                         *)
Act(rule, v, ss) ==
    IF rule \in 2 .. 5 THEN AcceptStart(rule, v)
    ELSE IF StoiThrows(rule, v)
    THEN yyresult' = "threw" /\ UNCHANGED << yyss, yyvs, parse_tree >>
    ELSE /\ yyvs' = Slot(yyvs, Len(ss) + 1, SemanticAction(rule, StaleSlot(Len(ss) + 1), v))
         /\ yynewstate(ss, Goto(ss, rule))
         /\ UNCHANGED parse_tree

yyreduce(la, rule) ==
    /\ rule # 0
    /\ Reads(la, la.token)
    /\ LET base == Len(yyss) - At(yyr2, rule)
       IN Act(rule, [k \in 1 .. At(yyr2, rule) |-> yyvs[base + k]], SubSeq(yyss, 1, base))

(* yyerrlab: no rule of the grammar mentions error, so yyerrlab1 pops all  *)
(* states and aborts.                                                      *)
yyerrlab(la, rule) ==
    /\ rule = 0
    /\ Reads(la, la.token)
    /\ yyss' = << >>
    /\ yyresult' = "abort"
    /\ UNCHANGED << yyvs, parse_tree >>

(* client_handler's yy_scan_string and call of yyparse, the first time.    *)
ParserInit(text) ==
    /\ input = text /\ yy_c_buf_p = 0 /\ yy_start = "INITIAL"
    /\ yylval = SemValue /\ yychar = ""
    /\ yyss = << 0 >> /\ yyvs = << SemValue >>
    /\ parse_tree = nullptr /\ yyresult = "running"

(* The next text: everything but the start state of the scanner is new.    *)
yy_scan_string(text) ==
    /\ input' = text /\ yy_c_buf_p' = 0
    /\ yylval' = SemValue /\ yychar' = ""
    /\ yyss' = << 0 >> /\ yyvs' = << SemValue >>
    /\ parse_tree' = nullptr /\ yyresult' = "running"
    /\ UNCHANGED yy_start

Step(la, entry) ==
    \/ Shift(la, entry)
    \/ entry <= 0 /\ yyreduce(la, Rule(entry))
    \/ entry <= 0 /\ yyerrlab(la, Rule(entry))

yybackup(la) == Step(la, TableEntry(la.token))

ParserNext == yyresult = "running" /\ yybackup(Lookahead)
=============================================================================
