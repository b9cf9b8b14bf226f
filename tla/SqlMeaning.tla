----------------------------- MODULE SqlMeaning -----------------------------
(***************************************************************************)
(* What a statement means: how it is written, what a SELECT answers and    *)
(* what INSERT, DELETE and UPDATE make of a table.  Nothing here is        *)
(* translated from the code; the pipeline of Statement is checked against  *)
(* it.                                                                     *)
(*                                                                         *)
(* rows[tab] is a table: a sequence of rows, whose order means nothing.  A *)
(* row is the sequence of its values: a number, the sequence of the        *)
(* characters of a text, or the six numbers of a date.                     *)
(***************************************************************************)
EXTENDS Analyze

----------------------------------------------------------------------------
(* The text of a statement.  JOIN is another comma between tables.         *)

Word(lex) == << lex, "" >>
Id(name)  == << "id", name >>

(* Parts with a separator between them.                                    *)
Separated(parts, sep) ==
    FlattenSeq([i \in DOMAIN parts |-> IF i = 1 THEN parts[i] ELSE << Word(sep) >> \o parts[i]])

Each(s, Part(_)) == [i \in DOMAIN s |-> Part(s[i])]

ColText(c) == IF c.tab = "" THEN << Id(c.col) >> ELSE << Id(c.tab), Word("."), Id(c.col) >>

SelColText(c) ==
    IF c.agg = "" THEN ColText(c)
    ELSE << Word(c.agg), Word("(") >> \o (IF c.count_star THEN << Word("*") >> ELSE ColText(c))
            \o << Word(")"), Word("AS"), Id(c.alias) >>

LitText(l) ==
    << << CASE l.node = "IntLit" -> "int" [] l.node = "FloatLit" -> "float"
            [] l.node = "StringLit" -> "string", l.val >> >>

CondText(c) ==
    ColText(c.lhs) \o << Word(IF c.op = "#" THEN "<>" ELSE c.op) >>
        \o (IF c.rhs.node = "Col" THEN ColText(c.rhs) ELSE LitText(c.rhs))

WhereText(conds) ==
    IF conds = << >> THEN << >> ELSE << Word("WHERE") >> \o Separated(Each(conds, CondText), "AND")

OrderText(order) ==
    LET Item(o) == ColText(o.col) \o (IF o.dir = "DEFAULT" THEN << >> ELSE << Word(o.dir) >>)
    IN IF order = << >> THEN << >>
       ELSE << Word("ORDER"), Word("BY") >> \o Separated(Each(order, Item), ",")

FieldText(f) ==
    << Id(f.col) >> \o (IF f.type.type # "STRING" THEN << Word(f.type.type) >>
                        ELSE << Word("CHAR"), Word("("), << "int", f.type.len >>, Word(")") >>)

IdText(name) == << Id(name) >>

InParens(s) == << Word("(") >> \o s \o << Word(")") >>

SelectText(x, comma) ==
    << Word("SELECT") >>
        \o (IF x.cols = << >> THEN << Word("*") >> ELSE Separated(Each(x.cols, SelColText), ","))
        \o << Word("FROM") >> \o Separated(Each(x.tabs, IdText), comma)
        \o WhereText(x.conds) \o OrderText(x.order)
        \o (IF x.limit = -1 THEN << >> ELSE << Word("LIMIT"), << "int", x.limit >> >>)

UpdateText(x) ==
    LET Set(c) == << Id(c.col), Word("=") >> \o LitText(c.val)
    IN << Word("UPDATE"), Id(x.tab), Word("SET") >> \o Separated(Each(x.set_clauses, Set), ",")
          \o WhereText(x.conds)

StmtText(x, comma) ==
    CASE x.node = "SelectStmt" -> SelectText(x, comma)
      [] x.node = "UpdateStmt" -> UpdateText(x)
      [] x.node = "DeleteStmt" -> << Word("DELETE"), Word("FROM"), Id(x.tab) >> \o WhereText(x.conds)
      [] x.node = "InsertStmt" -> << Word("INSERT"), Word("INTO"), Id(x.tab), Word("VALUES") >>
                                    \o InParens(Separated(Each(x.vals, LitText), ","))
      [] x.node = "CreateTable" -> << Word("CREATE"), Word("TABLE"), Id(x.tab) >>
                                    \o InParens(Separated(Each(x.fields, FieldText), ","))
      [] x.node = "CreateIndex" -> << Word("CREATE"), Word("INDEX"), Id(x.tab) >>
                                    \o InParens(Separated(Each(x.cols, IdText), ","))
      [] x.node = "DropIndex" -> << Word("DROP"), Word("INDEX"), Id(x.tab) >>
                                    \o InParens(Separated(Each(x.cols, IdText), ","))
      [] x.node = "DropTable" -> << Word("DROP"), Word("TABLE"), Id(x.tab) >>
      [] x.node = "DescTable" -> << Word("DESC"), Id(x.tab) >>
      [] x.node = "ShowIndex" -> << Word("SHOW"), Word("INDEX"), Word("FROM"), Id(x.tab) >>
      [] x.node = "ShowTables" -> << Word("SHOW"), Word("TABLES") >>
      [] x.node = "TxnBegin" -> << Word("BEGIN") >>
      [] x.node = "TxnCommit" -> << Word("COMMIT") >>
      [] x.node = "TxnAbort" -> << Word("ABORT") >>
      [] x.node = "TxnRollback" -> << Word("ROLLBACK") >>

TextWith(x, comma) ==
    IF x.node = "Help" THEN << Word("HELP") >> ELSE StmtText(x, comma) \o << Word(";") >>

Text(x) == TextWith(x, ",")

(* The lexemes outside comments.                                           *)
RECURSIVE Visible(_, _)
Visible(text, in_comment) ==
    IF text = << >> THEN << >>
    ELSE LET lex == Head(text)[1]
         IN IF in_comment THEN Visible(Tail(text), lex # "*/")
            ELSE (IF lex \in {"/*", "junk"} THEN << >> ELSE << Head(text) >>)
                    \o Visible(Tail(text), lex = "/*")

----------------------------------------------------------------------------
(* Values, columns and conditions.                                         *)

SeqLess(s, t) ==
    \E n \in DOMAIN t : /\ \A i \in 1 .. n - 1 : i \in DOMAIN s /\ s[i] = t[i]
                        /\ n \notin DOMAIN s \/ s[n] < t[n]

Less(type, a, b) == IF type \in {"STRING", "DATETIME"} THEN SeqLess(a, b) ELSE a < b

Position(tab, name) == { i \in DOMAIN Tables[tab].cols : Tables[tab].cols[i].name = name }

(* The only table of a FROM clause that a column can belong to.            *)
TableOf(tabs, c) ==
    IF c.tab # "" THEN c.tab ELSE CHOOSE tab \in Range(tabs) : Position(tab, c.col) # {}

TypeOf(tabs, c) == Tables[TableOf(tabs, c)].cols[Min(Position(TableOf(tabs, c), c.col))].type

(* f picks a row of every table.                                           *)
Picks(rows, tabs) ==
    LET most == Max({ Len(rows[tab]) : tab \in DOMAIN rows } \cup {0})
    IN { f \in [Range(tabs) -> 1 .. most] : \A tab \in Range(tabs) : f[tab] <= Len(rows[tab]) }

ValueOf(rows, tabs, f, c) ==
    LET tab == TableOf(tabs, c) IN rows[tab][f[tab]][Min(Position(tab, c.col))]

Holds(rows, tabs, f, c) ==
    LET a  == ValueOf(rows, tabs, f, c.lhs)
        b  == IF c.rhs.node = "Col" THEN ValueOf(rows, tabs, f, c.rhs) ELSE c.rhs.val
        lt == Less(TypeOf(tabs, c.lhs), a, b)
        eq == a = b
    IN CASE c.op = "=" -> eq
         [] c.op = "#" -> ~eq
         [] c.op = "<" -> lt
         [] c.op = ">" -> ~lt /\ ~eq
         [] c.op = "<=" -> lt \/ eq
         [] c.op = ">=" -> ~lt

Hits(rows, tabs, conds) ==
    { f \in Picks(rows, tabs) : \A i \in DOMAIN conds : Holds(rows, tabs, f, conds[i]) }

----------------------------------------------------------------------------
(* The answer to a SELECT.                                                 *)

Projected(rows, x, f) ==
    IF x.cols = << >> THEN FlattenSeq([i \in DOMAIN x.tabs |-> rows[x.tabs[i]][f[x.tabs[i]]]])
    ELSE [i \in DOMAIN x.cols |-> ValueOf(rows, x.tabs, f, x.cols[i])]

(* f comes before g in the order of the ORDER BY clause.                   *)
Precedes(rows, x, f, g) ==
    \E n \in DOMAIN x.order :
        LET L(i, a, b) == Less(TypeOf(x.tabs, x.order[i].col), ValueOf(rows, x.tabs, a, x.order[i].col),
                               ValueOf(rows, x.tabs, b, x.order[i].col))
        IN /\ IF x.order[n].dir = "DESC" THEN L(n, g, f) ELSE L(n, f, g)
           /\ \A i \in 1 .. n - 1 : ~L(i, f, g) /\ ~L(i, g, f)

(* The pairs of hits in the order of the ORDER BY clause.                  *)
Before(rows, x, hits) == { p \in hits \X hits : Precedes(rows, x, p[1], p[2]) }

(* The hits that are equal to the order fill a stretch of out in any       *)
(* order; the last stretch may be cut.  row is what a hit prints.          *)
InOrder(hits, row, less, out) ==
    \A f \in hits :
        LET class   == { g \in hits : << f, g >> \notin less /\ << g, f >> \notin less }
            first   == Cardinality({ g \in hits : << g, f >> \in less })
            stretch == { p \in DOMAIN out : first < p /\ p <= first + Cardinality(class) }
        IN \A p \in stretch : Cardinality({ q \in stretch : out[q] = out[p] })
                                 <= Cardinality({ g \in class : row[g] = out[p] })

(* out is the table of all hits in an order the clause allows, cut after   *)
(* LIMIT rows.                                                             *)
IsAnswer(rows, x, hits, out) ==
    /\ Len(out) = IF x.limit >= 0 THEN Min({x.limit, Cardinality(hits)}) ELSE Cardinality(hits)
    /\ InOrder(hits, [f \in hits |-> Projected(rows, x, f)], Before(rows, x, hits), out)

(* The value of an aggregate, NoValue for MAX and MIN of no rows.          *)
AggregateOf(rows, x, c, hits, NoValue) ==
    LET V(f) == ValueOf(rows, x.tabs, f, c)
        type == TypeOf(x.tabs, c)
    IN CASE c.agg = "COUNT" -> Cardinality(hits)
         [] c.agg = "SUM" -> FoldSet(LAMBDA f, sum : sum + V(f), 0, hits)
         [] c.agg = "MAX" -> IF hits = {} THEN NoValue
                             ELSE V(CHOOSE f \in hits : \A g \in hits : ~Less(type, V(f), V(g)))
         [] c.agg = "MIN" -> IF hits = {} THEN NoValue
                             ELSE V(CHOOSE f \in hits : \A g \in hits : ~Less(type, V(g), V(f)))

----------------------------------------------------------------------------
(* What the other statements make of a table, and when they are refused.   *)

Count(s, v) == Cardinality({ i \in DOMAIN s : s[i] = v })

SameRows(s, t) == \A v \in Range(s) \cup Range(t) : Count(s, v) = Count(t, v)

LitFits(lit, col) ==
    CASE lit.node = "IntLit" -> \/ col.type = "INT" /\ IsInt(lit.val)
                                \/ col.type = "BIGINT" /\ IsBigint(lit.val)
                                \/ col.type = "FLOAT"
      [] lit.node = "FloatLit" -> col.type = "FLOAT"
      [] lit.node = "StringLit" -> \/ col.type = "STRING" /\ Len(lit.val) <= col.len
                                   \/ col.type = "DATETIME" /\ IsDatetime(lit.val)

(* No two rows agree on the columns of an index.                           *)
KeysUnique(tab, s) ==
    \A n \in DOMAIN Tables[tab].indexes : \A i, j \in DOMAIN s :
        LET P(c) == Min(Position(tab, c))
        IN (\A c \in Range(Tables[tab].indexes[n]) : s[i][P(c)] = s[j][P(c)]) => i = j

(* The positions of the rows that UPDATE or DELETE is about.               *)
HitRows(rows, x) ==
    IF x.node = "InsertStmt" THEN {} ELSE { f[x.tab] : f \in Hits(rows, << x.tab >>, x.conds) }

(* The rows s of the table after an accepted statement.                    *)
Result(s, x, hits) ==
    LET cols == Tables[x.tab].cols
        Kept == SelectSeq([i \in DOMAIN s |-> i], LAMBDA i : i \notin hits)
        Last_(name) == Max({ n \in DOMAIN x.set_clauses : x.set_clauses[n].col = name })
        Updated(row) == [c \in DOMAIN row |->
            IF \E n \in DOMAIN x.set_clauses : x.set_clauses[n].col = cols[c].name
            THEN x.set_clauses[Last_(cols[c].name)].val.val ELSE row[c]]
    IN CASE x.node = "InsertStmt" -> Append(s, [i \in DOMAIN x.vals |-> x.vals[i].val])
         [] x.node = "DeleteStmt" -> [i \in DOMAIN Kept |-> s[Kept[i]]]
         [] x.node = "UpdateStmt" -> [i \in DOMAIN s |-> IF i \in hits THEN Updated(s[i]) ELSE s[i]]

(* A statement that makes sense is refused when a value does not fit or    *)
(* two rows would share a key.                                             *)
MustRefuse(x, hits, result) ==
    LET cols == Tables[x.tab].cols
    IN CASE x.node = "InsertStmt" ->
              \/ Len(x.vals) # Len(cols)
              \/ \E i \in DOMAIN cols : ~LitFits(x.vals[i], cols[i])
              \/ ~KeysUnique(x.tab, result)
         [] x.node = "DeleteStmt" -> FALSE
         [] x.node = "UpdateStmt" ->
              \/ /\ hits # {}
                 /\ \E n \in DOMAIN x.set_clauses :
                      ~LitFits(x.set_clauses[n].val,
                               cols[Min(Position(x.tab, x.set_clauses[n].col))])
              \/ ~KeysUnique(x.tab, result)
=============================================================================
