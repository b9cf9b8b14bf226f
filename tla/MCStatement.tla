---------------------------- MODULE MCStatement -----------------------------
(***************************************************************************)
(* Instances of Statement: four small tables, a set of statements over     *)
(* them, and texts that differ from a statement in one place.              *)
(***************************************************************************)
EXTENDS Statement

CONSTANT CompareInTable    \* conditions may compare two columns of one table

Column(tab, name, type, len, offset) ==
    [tab |-> tab, name |-> name, type |-> type, len |-> len, offset |-> offset]

MCTables ==
    [t |-> [cols |-> << Column("t", "k", "INT", 1, 0), Column("t", "c", "STRING", 2, 1) >>,
            indexes |-> << << "c" >>, << "k", "c" >> >>],
     u |-> [cols |-> << Column("u", "k", "INT", 1, 0), Column("u", "b", "BIGINT", 1, 1) >>,
            indexes |-> << >>],
     v |-> [cols |-> << Column("v", "b", "BIGINT", 1, 0), Column("v", "d", "DATETIME", 1, 1) >>,
            indexes |-> << << "d" >> >>],
     w |-> [cols |-> << Column("w", "b", "BIGINT", 1, 0), Column("w", "k", "INT", 1, 1) >>,
            indexes |-> << >>]]

Leap    == << 2024, 2, 29, 0, 0, 0 >>
Eve     == << 2023, 12, 31, 23, 59, 59 >>
NoLeap  == << 2023, 2, 29, 0, 0, 0 >>
Later   == << 2024, 10, 1, 12, 0, 0 >>

MCDatabases ==
    { [t |-> << << 1, << 1, 2 >> >>, << 2, << 1 >> >>, << 2, << 2 >> >> >>,
       u |-> << << 2, 7 >>, << 1, 7 >>, << 2, 3 >> >>,
       v |-> << << 7, Leap >>, << 3, Eve >> >>,
       w |-> << << 3, 1 >>, << 7, 2 >> >>],
      [t |-> << << 2, << 1 >> >> >>, u |-> << >>,
       v |-> << << 3, Leap >>, << 3, Eve >> >>, w |-> << << 3, 3 >> >>] }

----------------------------------------------------------------------------
Int_(n) == Lit("IntLit", n)
Str(s)  == Lit("StringLit", s)

Cmp(lhs, op, rhs) == [lhs |-> lhs, op |-> op, rhs |-> rhs]

k == Col("", "k")
c == Col("", "c")
b == Col("", "b")
d == Col("", "d")
tk == Col("t", "k")
uk == Col("u", "k")
ub == Col("u", "b")
vb == Col("v", "b")
wb == Col("w", "b")
wk == Col("w", "k")

(* Sequences of at most n different elements of a set.                     *)
Upto(set, n) == UNION { { s \in [1 .. m -> set] : \A i, j \in 1 .. m : s[i] = s[j] => i = j } : m \in 0 .. n }

Select(cols, tabs, conds, order, limit) ==
    [node |-> "SelectStmt", cols |-> cols, tabs |-> tabs, conds |-> conds, order |-> order, limit |-> limit]

By(col, dir) == [col |-> col, dir |-> dir]

CondsT == { Cmp(k, "=", Int_(2)), Cmp(k, ">", Int_(1)), Cmp(tk, "<=", Int_(1)), Cmp(c, "#", Str(<< 1 >>)),
            Cmp(c, "<", Str(<< 2 >>)), Cmp(c, ">=", Str(<< 1, 2 >>)), Cmp(k, "=", Int_(7)) }

CondsTU == { Cmp(tk, "=", uk), Cmp(uk, "<", tk), Cmp(tk, "<=", uk), Cmp(tk, "=", Int_(2)),
             Cmp(b, ">", Int_(3)), Cmp(c, "=", Str(<< 1 >>)) }

CondsTUV == { Cmp(tk, "=", uk), Cmp(ub, "=", vb), Cmp(vb, "#", ub), Cmp(d, ">=", Str(Leap)), Cmp(tk, ">", Int_(1)) }

CondsTUVW == { Cmp(tk, "=", uk), Cmp(wb, "=", vb), Cmp(ub, "=", vb), Cmp(wk, ">=", tk) }

Orders == { << >>, << By(k, "ASC") >>, << By(c, "DESC") >>, << By(k, "DESC"), By(c, "DEFAULT") >> }

Agg(agg, col) == AggCol(agg, col.tab, col.col, "a", FALSE)
CountStar     == AggCol("COUNT", "", "", "n", TRUE)

Selects ==
    { Select(<< >>, << "t" >>, conds, << >>, -1) : conds \in Upto(CondsT, 2) }
    \cup { Select(<< c, tk >>, << "t" >>, conds, order, limit) :
             conds \in Upto({Cmp(k, ">", Int_(1))}, 1), order \in Orders, limit \in {-1, 0, 1, 2} }
    \cup { Select(cols, tabs, conds, << >>, -1) :
             cols \in {<< >>}, tabs \in {<< "t", "u" >>, << "u", "t" >>}, conds \in Upto(CondsTU, 2) }
    \cup { Select(<< c, b >>, << "u", "t" >>, << Cmp(tk, "=", uk) >>, << By(b, "DESC"), By(c, "ASC") >>, limit) :
             limit \in {-1, 1, 3} }
    \cup { Select(<< d, uk >>, tabs, conds, << >>, -1) :
             tabs \in {<< "t", "u", "v" >>, << "v", "t", "u" >>}, conds \in Upto(CondsTUV, 3) }
    \cup { Select(<< c, wk, d, ub >>, << "t", "u", "v", "w" >>, conds, << >>, -1) : conds \in Upto(CondsTUVW, 3) }

Aggregates ==
    { Select(cols, << "t" >>, conds, << >>, -1) :
        cols \in { << CountStar >>, << Agg("SUM", k), Agg("MAX", c), Agg("MIN", tk), CountStar >> },
        conds \in Upto({Cmp(k, ">", Int_(1)), Cmp(c, "=", Str(<< 2, 2 >>))}, 1) }
    \cup { Select(<< Agg("COUNT", d), Agg("MAX", d), Agg("MIN", d), Agg("SUM", ub) >>, << "v", "u" >>, conds, << >>, -1) :
             conds \in Upto({Cmp(ub, ">", vb), Cmp(d, "<", Str(Leap))}, 1) }

(* Statements the analyzer refuses.                                        *)
Refused ==
    { Select(<< >>, << "x" >>, << >>, << >>, -1), Select(<< k >>, << "t", "u" >>, << >>, << >>, -1),
      Select(<< d >>, << "t" >>, << >>, << >>, -1), Select(<< >>, << "t" >>, << Cmp(k, "=", Str(<< 1 >>)) >>, << >>, -1),
      Select(<< >>, << "t", "u" >>, << Cmp(c, "=", uk) >>, << >>, -1),
      Select(<< >>, << "u" >>, << Cmp(b, "=", Int_(20)) >>, << >>, -1),
      Select(<< >>, << "v" >>, << Cmp(d, "=", Str(NoLeap)) >>, << >>, -1),
      Select(<< >>, << "t" >>, << Cmp(c, "=", Str(<< 1, 1, 1 >>)) >>, << >>, -1),
      Select(<< Agg("SUM", c) >>, << "t" >>, << >>, << >>, -1) }

Insert(tab, vals) == [node |-> "InsertStmt", tab |-> tab, vals |-> vals]
Delete(tab, conds) == [node |-> "DeleteStmt", tab |-> tab, conds |-> conds]
Set(col, val) == [col |-> col, val |-> val]
Update(tab, sets, conds) == [node |-> "UpdateStmt", tab |-> tab, set_clauses |-> sets, conds |-> conds]

Writes ==
    { Insert("t", << Int_(m), Str(s) >>) : m \in {1, 3, 7}, s \in { << 1 >>, << 2, 1 >>, << 1, 1, 1 >>, << >> } }
    \cup { Insert("v", << Int_(m), Str(s) >>) : m \in {2, 20}, s \in {Leap, NoLeap, Later} }
    \cup { Insert("u", vals) : vals \in { << Int_(1) >>, << Int_(1), Int_(7), Int_(1) >>, << Int_(2), Int_(7) >> } }
    \cup { Delete("t", conds) : conds \in Upto(CondsT, 1) }
    \cup { Update("t", sets, conds) :
             sets \in { << Set("k", Int_(1)) >>, << Set("c", Str(<< 2 >>)) >>, << Set("c", Str(<< 1, 1, 1 >>)) >>,
                        << Set("k", Int_(3)), Set("c", Str(<< 1 >>)) >>, << Set("k", Int_(3)), Set("k", Int_(2)) >> },
             conds \in Upto({Cmp(k, "=", Int_(2)), Cmp(c, "=", Str(<< 1 >>)), Cmp(c, "<", Str(<< 1 >>))}, 1) }
    \cup { Update("v", << Set("d", Str(date)) >>, << Cmp(b, "=", Int_(7)) >>) : date \in {Eve, NoLeap, Later} }

Field(col, type, len) == [col |-> col, type |-> TypeLen(type, len)]

Others ==
    { [node |-> "CreateTable", tab |-> "x",
       fields |-> << Field("a", "INT", 4), Field("e", "STRING", 3), Field("f", "FLOAT", 4),
                     Field("g", "BIGINT", 8), Field("h", "DATETIME", 8) >>],
      [node |-> "DropTable", tab |-> "t"], [node |-> "DescTable", tab |-> "t"],
      [node |-> "CreateIndex", tab |-> "t", cols |-> << "k", "c" >>],
      [node |-> "DropIndex", tab |-> "t", cols |-> << "c" >>], [node |-> "ShowIndex", tab |-> "t"],
      [node |-> "DescTable", tab |-> "x"], [node |-> "ShowIndex", tab |-> "x"] }
    \cup { Node(n) : n \in {"ShowTables", "Help", "TxnBegin", "TxnCommit", "TxnAbort", "TxnRollback"} }

Inserted == Insert("w", << Int_(1), Lit("FloatLit", 2) >>)

(* Statements with a comparison inside one table.                          *)
InTable ==
    { Select(<< >>, tabs, << Cmp(wb, "=", vb), Cmp(wb, op, wb) >>, << >>, -1) :
        tabs \in {<< "v", "w" >>, << "w", "v" >>}, op \in {"=", "<"} }

Stmt == Selects \cup Aggregates \cup Refused \cup Writes \cup Others \cup {Inserted}

----------------------------------------------------------------------------
(* Texts that differ from a statement in one place.  A comment, a stray    *)
(* character and what follows the ';' leave it the same statement.         *)
Same(text) ==
    { InsertAt(text, i, Word("junk")) : i \in DOMAIN text }
    \cup { InsertAt(InsertAt(text, i, Word("*/")), i, Word("/*")) : i \in DOMAIN text }
    \cup { text \o << Word("SELECT") >> }

Changed(text) ==
    { RemoveAt(text, i) : i \in DOMAIN text }
    \cup { InsertAt(text, i, l) : i \in DOMAIN text, l \in {Word(","), Id("k"), Word("/*")} }

Edited ==
    { Text(x) : x \in
      { Select(<< c, tk >>, << "t" >>, << Cmp(k, ">", Int_(1)), Cmp(c, "=", Str(<< 1 >>)) >>, << By(k, "DESC"), By(c, "ASC") >>, 2),
        Select(<< CountStar, Agg("MAX", k) >>, << "t", "v" >>, << >>, << >>, -1),
        Update("t", << Set("k", Int_(1)), Set("c", Str(<< 2 >>)) >>, << Cmp(k, "=", Int_(2)) >>),
        Insert("u", << Int_(2), Int_(7) >>),
        [node |-> "CreateTable", tab |-> "x", fields |-> << Field("a", "INT", 4), Field("e", "STRING", 3) >>] } }

Everything == Text(Select(<< >>, << "t" >>, << >>, << >>, -1))

Request(text)  == << text, TRUE >>
NoRequest(text) == << text, FALSE >>

MCSessions ==
    IF CompareInTable THEN { << Request(Text(x)) >> : x \in InTable }
    ELSE { << Request(Text(x)) >> : x \in Stmt } \cup { << Request(TextWith(x, "JOIN")) >> : x \in Aggregates }
         \cup { << Request(Text(x)), Request(Everything) >> : x \in { y \in Writes : y.tab = "t" } }
         \cup { << Request(text) >> : text \in UNION { Same(t) : t \in Edited } }
         \cup { << NoRequest(text) >> : text \in UNION { Changed(t) : t \in Edited } }
         \cup { << NoRequest(<< Word("/*") >> \o Everything), NoRequest(Everything), Request(<< Word("*/") >> \o Everything) >>,
                << Request(Everything), Request(Text(Select(<< c >>, << "t" >>, << >>, << >>, -1))) >>,
                << Request(<< Word("EXIT") >>) >>,
                << Request(Text(Select(<< >>, << "t" >>, << >>, << >>, 5))) >> }
=============================================================================
