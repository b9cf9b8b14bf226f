----------------------------- MODULE Statement ------------------------------
(***************************************************************************)
(* The statements of one client, from text to answer: the body of          *)
(* client_handler's loop (src/rmdb.cpp) with the scanner, the parser, the  *)
(* analyzer, the planner, Portal (src/portal.h), QlManager (src/execution/ *)
(* execution_manager.cpp), the executors, the reply, and the loop of the   *)
(* client (rmdb_client/main.cpp) that shows it.                            *)
(*                                                                         *)
(* DDL and utility statements end when they are handed to their manager;   *)
(* Catalog and TransactionManager model what those do.  A statement that   *)
(* fails is rolled back (HeapFile, RuntimeIndex): its writes are gone.     *)
(***************************************************************************)
EXTENDS Parser, Executors, SqlMeaning, Reply

CONSTANTS
    Sessions,      \* what a client may send: sequences of << text, is a statement >>
    Databases      \* contents the tables may have: table name -> sequence of rows

VARIABLES
    session,       \* the requests from the current one on
    data,          \* the record files
    before,        \* data when the statement began
    in_comment,    \* the start state of the scanner was STATE_COMMENT then
    phase,         \* where client_handler is
    query,         \* the result of do_analyze
    plan,          \* the result of plan_query
    root,          \* PortalStmt::root: an executor, or the rids to write
    states,        \* the aggregate states of select_from
    out,           \* the rows of the answer
    reply,         \* the reply buffer
    wire,          \* what the server has written and the client has not read
    shown,         \* what the client has printed for its request
    short          \* ghost: a recv returned less than had been written

clientVars == << wire, shown, short >>
vars == << parserVars, session, data, before, in_comment, phase, query, plan, root, states,
           out, reply, clientVars >>

None == [node |-> "none"]

(* A record, printed: the values of its columns.                           *)
Printed(rec, cols) == [i \in DOMAIN cols |-> format_column_value(rec, cols[i])]

(* The record of a row of values, as InsertExecutor makes it.              *)
RecordOf(tab, row) ==
    FlattenSeq([i \in DOMAIN row |->
        LET col == Tables[tab].cols[i]
        IN init_raw(IF col.type = "DATETIME" THEN coerce_to(Val("STRING", row[i]), "DATETIME")
                    ELSE Val(col.type, row[i]), col.len)])

(* The cells of a printed record.                                          *)
Cells(rec, cols) == [i \in DOMAIN cols |-> Cell(format_column_value(rec, cols[i]), cols[i].type)]

ResultCell(state) ==
    Cell(finalize_aggregate(state),
         IF state.type \in {"MAX", "MIN"} /\ state.initialized THEN state.col.type ELSE "BIGINT")

Captions ==
    IF states # << >> THEN [i \in DOMAIN states |-> Caption(query.aggregates[i].alias)]
    ELSE [i \in DOMAIN root.sel |-> Caption(root.sel[i].name)]

requestVars == << session, before, in_comment, clientVars >>

----------------------------------------------------------------------------
Parse ==
    /\ phase = "parse"
    /\ ParserNext
    /\ UNCHANGED << requestVars, data, phase, query, plan, root, states, out, reply >>

Fail == phase' = "failed" /\ reply' = Failure

(* yyparse has returned.  A null tree is answered with nothing; what       *)
(* std::stoi throws is caught nowhere.                                     *)
ParseDone ==
    /\ phase = "parse"
    /\ \/ /\ yyresult = "accept"
          /\ phase' = IF parse_tree = nullptr THEN "done" ELSE "analyze"
          /\ UNCHANGED reply
       \/ yyresult \in {"abort", "nomem"} /\ Fail
       \/ yyresult = "threw" /\ phase' = "terminated" /\ UNCHANGED reply
    /\ UNCHANGED << parserVars, requestVars, data, query, plan, root, states, out >>

(* do_analyze and plan_query.                                              *)
Analyze_ ==
    /\ phase = "analyze"
    /\ IF AnalyzeOK(parse_tree)
       THEN /\ query' = do_analyze(parse_tree)
            /\ plan' = plan_query(query')
            /\ phase' = "start" /\ UNCHANGED reply
       ELSE Fail /\ UNCHANGED << query, plan >>
    /\ UNCHANGED << parserVars, requestVars, data, root, states, out >>

(* run_cmd_utility.  SHOW TABLES goes through the map of tables.           *)
Utility ==
    CASE plan.tag \in {"DescTable", "ShowIndex"} /\ ~IsTable(parse_tree.tab) -> Fail
      [] OTHER ->
           /\ phase' = "done"
           /\ reply' = CASE plan.tag = "ShowTables" -> show_tables(SetToSeq(DOMAIN Tables))
                         [] plan.tag = "DescTable"  -> desc_table(Tables[parse_tree.tab])
                         [] plan.tag = "ShowIndex"  -> show_index(Tables[parse_tree.tab])
                         [] plan.tag = "Help"       -> help_info
                         [] OTHER                   -> reply

(* Portal::start.  UPDATE and DELETE read all their rids here.  An         *)
(* assertion of a constructor ends the process.                  *)
PortalStart ==
    /\ phase = "start"
    /\ CASE plan.class = "Other" -> Utility /\ UNCHANGED << root, states >>
         [] plan.class = "DDL" -> phase' = "done" /\ UNCHANGED << root, states, reply >>
         [] plan.tag = "select" ->
              /\ root' = convert_plan_executor(plan.sub)
              /\ states' = [i \in DOMAIN plan.aggregates |->
                              AggregateState(plan.aggregates[i], root'.cols)]
              /\ phase' = IF Threw(root') THEN "terminated" ELSE "begin"
              /\ UNCHANGED reply
         [] plan.tag \in {"Update", "Delete"} ->
              /\ root' = CollectRids(data, beginTuple(data, convert_plan_executor(plan.sub)))
              /\ phase' = "write" /\ UNCHANGED << states, reply >>
         [] plan.tag = "Insert" -> phase' = "write" /\ UNCHANGED << root, states, reply >>
    /\ UNCHANGED << parserVars, requestVars, data, query, plan, out >>

(* select_from: the header, and the loop over the tuples, one action each. *)
SelectBegin ==
    /\ phase = "begin"
    /\ reply' = print_header(reply, Captions)
    /\ root' = beginTuple(data, root)
    /\ phase' = "rows"
    /\ UNCHANGED << parserVars, requestVars, data, query, plan, states, out >>

SelectRow ==
    /\ phase = "rows" /\ ~is_end(root)
    /\ LET rec == Next_(data, root)
       IN IF states # << >>
          THEN /\ states' = [i \in DOMAIN states |-> Accumulate(states[i], rec)]
               /\ UNCHANGED << out, reply >>
          ELSE /\ out' = Append(out, Printed(rec, root.cols))
               /\ reply' = print_record(reply, Cells(rec, root.cols))
               /\ UNCHANGED states
    /\ root' = nextTuple(data, root)
    /\ UNCHANGED << parserVars, requestVars, data, phase, query, plan >>

SelectEnd ==
    /\ phase = "rows" /\ is_end(root)
    /\ IF Threw(root) THEN Fail /\ out' = << >>
       ELSE LET results == [i \in DOMAIN states |-> ResultCell(states[i])]
                printed == IF states = << >> THEN reply ELSE print_record(reply, results)
            IN /\ phase' = "done"
               /\ out' = IF states = << >> THEN out
                         ELSE << [i \in DOMAIN results |-> results[i].val] >>
               /\ reply' = print_record_count(print_separator(printed, Len(Captions)), Len(out'))
    /\ UNCHANGED << parserVars, requestVars, data, query, plan, root, states >>

(* run_dml.  s is the outcome of the executor's Next.                      *)
Wrote(s) ==
    IF s.threw THEN Fail /\ UNCHANGED data
    ELSE phase' = "done" /\ data' = s.data /\ UNCHANGED reply

Write ==
    /\ phase = "write"
    /\ Wrote(CASE plan.tag = "Insert" -> InsertExecutor(data, plan)
               [] plan.tag = "Update" -> UpdateExecutor(data, plan, root)
               [] plan.tag = "Delete" -> DeleteExecutor(data, plan, root))
    /\ UNCHANGED << parserVars, requestVars, query, plan, root, states, out >>

(* write: the bytes up to offset, and one more, a '\0'.                    *)
SendReply ==
    /\ phase \in {"done", "failed"}
    /\ wire' = wire \o Append(reply.sent, NUL)
    /\ phase' = "sent"
    /\ UNCHANGED << parserVars, session, before, in_comment, shown, short,
                    data, query, plan, root, states, out, reply >>

(* The client's recv returns some of the bytes that are there.             *)
Receive(n) ==
    /\ phase = "sent"
    /\ shown' = PrintReceived(SubSeq(wire, 1, n))
    /\ wire' = SubSeq(wire, n + 1, Len(wire))
    /\ short' = (short \/ n < Len(wire))
    /\ phase' = "shown"
    /\ UNCHANGED << parserVars, session, before, in_comment,
                    data, query, plan, root, states, out, reply >>

(* The next request, with a new Context.                                   *)
NextRequest ==
    /\ phase = "shown" /\ Len(session) > 1
    /\ session' = Tail(session)
    /\ yy_scan_string(session[2][1])
    /\ phase' = "parse" /\ query' = None /\ plan' = None
    /\ root' = << >> /\ states' = << >> /\ out' = << >>
    /\ reply' = NoReply /\ shown' = << >>
    /\ before' = data
    /\ in_comment' = (yy_start = "STATE_COMMENT")
    /\ UNCHANGED << data, wire, short >>

Init ==
    \E requests \in Sessions, db \in Databases :
        /\ ParserInit(requests[1][1])
        /\ session = requests
        /\ data = [tab \in DOMAIN db |-> [r \in DOMAIN db[tab] |-> RecordOf(tab, db[tab][r])]]
        /\ before = data
        /\ in_comment = FALSE
        /\ phase = "parse" /\ query = None /\ plan = None
        /\ root = << >> /\ states = << >> /\ out = << >>
        /\ reply = NoReply /\ wire = << >> /\ shown = << >> /\ short = FALSE

(* The client has what it asked for, or the process is gone.               *)
Finished ==
    /\ \/ phase = "shown" /\ Len(session) = 1
       \/ phase = "terminated"
    /\ UNCHANGED vars

Next ==
    \/ Parse
    \/ ParseDone
    \/ Analyze_
    \/ PortalStart
    \/ SelectBegin
    \/ SelectRow
    \/ SelectEnd
    \/ Write
    \/ SendReply
    \/ \E n \in 1 .. Len(wire) : Receive(n)
    \/ NextRequest
    \/ Finished

Spec == Init /\ [][Next]_vars

----------------------------------------------------------------------------
(* Properties.                                                             *)

(* The tree that yyparse builds is the statement that was written: its     *)
(* text is the text of the client, up to the ';', whatever stale values    *)
(* the slots of the stack and yylval hold when an action reads them.       *)
ParsedAsWritten ==
    yyresult = "accept" /\ parse_tree # nullptr =>
        LET seen == Visible(input, in_comment)
        IN \E comma \in {",", "JOIN"} : IsPrefix(TextWith(parse_tree, comma), seen)

(* A text is refused only when it is not a statement: yyparse does not     *)
(* stop with an error, or for want of stack, on a text of the grammar,     *)
(* whatever comments and stray characters it has between its words.        *)
EveryStatementParses == yyresult \in {"abort", "nomem"} => ~Head(session)[2]

(* The logical rows of the tables.                                         *)
RowsOf(d) ==
    [tab \in DOMAIN d |->
        LET rids == SetToSortSeq(DOMAIN d[tab], <)
        IN [i \in DOMAIN rids |-> Printed(d[tab][rids[i]], Tables[tab].cols)]]

IsSelect == parse_tree.node = "SelectStmt"

IsWrite == parse_tree.node \in {"InsertStmt", "DeleteStmt", "UpdateStmt"}

Answered(rows, x, hits) ==
    IF states = << >> THEN IsAnswer(rows, x, hits, out)
    ELSE x.limit = -1 => \A i \in DOMAIN x.cols :
             LET value == AggregateOf(rows, x, x.cols[i], hits, NULL_TEXT)
             IN (x.cols[i].agg = "SUM" => IsBigint(value)) => out[1][i] = value

(* The answer to a SELECT is what the statement means: the joined rows     *)
(* that satisfy every condition, each as often as it should be, in the     *)
(* order asked for, cut at LIMIT; or the aggregates of all of them.  It    *)
(* does not depend on the chosen index, on where the planner puts a        *)
(* condition, on the order of joins or on the size of the join buffer.     *)
(* Two cases are left aside: aggregates with LIMIT, where the code cuts    *)
(* the rows first, and a SUM that no int64 holds.                          *)
AnswerExact ==
    phase = "done" /\ IsSelect =>
        Answered(RowsOf(before), parse_tree, Hits(RowsOf(before), parse_tree.tabs, parse_tree.conds))

(* What the client shows for a SELECT is the table of the answer, line by  *)
(* line, as far as the reply buffer goes: it is cut only where it does not *)
(* fit, nothing that follows the cut is shown but "... ...", the number of *)
(* records is that of all rows, and the reply with its '\0' stays within   *)
(* the buffer.  Not so after a recv that returned less than the server had *)
(* written: the rest of a reply is taken for the next one.                 *)
ShownExact ==
    phase = "shown" /\ ~short /\ IsSelect /\ query # None =>
        LET Line(cells) == Append([i \in DOMAIN cells |-> CellPiece(cells[i])], Piece("line_end", "", 2))
            Row(i) == IF states = << >> THEN [j \in DOMAIN out[i] |-> Cell(out[i][j], root.cols[j].type)]
                      ELSE [j \in DOMAIN states |-> ResultCell(states[j])]
            rule   == Append([i \in DOMAIN Captions |-> Piece("rule", "", COL_WIDTH + 3)], Piece("rule_end", "", 2))
            table  == rule \o Line(Captions) \o rule \o FlattenSeq([i \in DOMAIN out |-> Line(Row(i))]) \o rule
            Bytes(pieces) == FoldLeft(LAMBDA n, p : n + p.len, 0, pieces)
        IN \E k \in 0 .. Len(table) :
              /\ SamePieces(shown, SubSeq(table, 1, k)
                                   \o (IF k < Len(table) THEN << Piece("ellipsis", "", 8) >> ELSE << >>)
                                   \o << Piece("count", Len(out), 1) >>)
              /\ k < Len(table) => Bytes(table) + RECORD_COUNT_LENGTH >= BUFFER_LENGTH
              /\ Bytes(shown) + 1 <= BUFFER_LENGTH

(* result is what an accepted statement leaves.                            *)
Outcome(x, hits, result) ==
    /\ phase = "failed" <=> MustRefuse(x, hits, result)
    /\ phase = "done" => SameRows(RowsOf(data)[x.tab], result)

Written(rows, x, hits) == Outcome(x, hits, Result(rows, x, hits))

(* INSERT, DELETE and UPDATE leave the table as the statement says, and    *)
(* are refused exactly when a value does not fit or two rows would have    *)
(* one key of an index: checking keys row by row, on a table that is half  *)
(* updated, refuses no update that would end well.                         *)
DmlExact ==
    phase \in {"done", "failed"} /\ query # None /\ IsWrite =>
        Written(RowsOf(before)[parse_tree.tab], parse_tree, HitRows(RowsOf(before), parse_tree))


(* The loop of select_from hands out no more rows than there are: with    *)
(* every step able to go on, each statement is answered.                   *)
RowsBounded ==
    phase = "rows" =>
        LET n == Cardinality(Hits(RowsOf(before), parse_tree.tabs, parse_tree.conds))
        IN Len(out) <= n /\ \A i \in DOMAIN states : states[i].count <= n
=============================================================================
