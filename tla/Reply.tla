------------------------------- MODULE Reply --------------------------------
(***************************************************************************)
(* What a client gets to see: RecordPrinter (src/record_printer.h), which  *)
(* prints tables into the reply buffer of a Context, SHOW and DESC         *)
(* (src/system/sm_manager.cpp), and the loop of the client that prints     *)
(* what it receives (rmdb_client/main.cpp).                                *)
(*                                                                         *)
(* A text is a piece, with its length in bytes; a reply is the sequence of *)
(* its pieces.  Messages and index lines have one length, MESSAGE_LENGTH.  *)
(***************************************************************************)
EXTENDS Naturals, SequencesExt

CONSTANTS
    BUFFER_LENGTH,      \* bytes of data_send
    MESSAGE_LENGTH      \* bytes of a message

RECORD_COUNT_LENGTH == 40
COL_WIDTH           == 16

Piece(kind, text, len) == [kind |-> kind, text |-> text, len |-> len]

NUL == Piece("nul", "", 1)

(* context->data_send_ up to *offset_, and ellipsis_.                      *)
NoReply == [sent |-> << >>, offset |-> 0, ellipsis |-> FALSE]

memcpy(context, piece) ==
    [context EXCEPT !.sent = Append(@, piece), !.offset = @ + piece.len]

(* Mutant of HasRoom: a short text is printed where a longer one was not.  *)
HasRoom_NoEllipsis(context, len) == context.offset + RECORD_COUNT_LENGTH + len < BUFFER_LENGTH

HasRoom(context, len) ==
    ~context.ellipsis /\ context.offset + RECORD_COUNT_LENGTH + len < BUFFER_LENGTH

PrintPiece(context, piece) ==
    IF HasRoom(context, piece.len) THEN memcpy(context, piece)
    ELSE [context EXCEPT !.ellipsis = TRUE]

(* A cell is a value and its type.  A text of more than COL_WIDTH          *)
(* characters is cut three characters before that: of a datetime, which    *)
(* has 19, year, month, day and hour are left.                             *)
Cell(val, type) == [val |-> val, type |-> type]

CellText(cell) ==
    CASE cell.type = "DATETIME" -> SubSeq(cell.val, 1, 4) \o << "..." >>
      [] cell.type = "STRING" /\ Len(cell.val) > COL_WIDTH -> SubSeq(cell.val, 1, COL_WIDTH - 3) \o << "..." >>
      [] OTHER -> cell.val

Caption(name) == Cell(name, "CAPTION")

CellPiece(cell) == Piece("cell", CellText(cell), COL_WIDTH + 3)

print_separator(context, num_cols) ==
    PrintPiece(FoldLeft(PrintPiece, context, [i \in 1 .. num_cols |-> Piece("rule", "", COL_WIDTH + 3)]),
               Piece("rule_end", "", 2))

(* The end of the line does not set ellipsis_.                             *)
print_record(context, cells) ==
    LET row == FoldLeft(PrintPiece, context, [i \in DOMAIN cells |-> CellPiece(cells[i])])
    IN IF HasRoom(row, 2) THEN memcpy(row, Piece("line_end", "", 2)) ELSE row

Digits(n) == CHOOSE d \in 1 .. n + 1 : n < 10 ^ d /\ (d > 1 => n >= 10 ^ (d - 1))

(* Printed without a look at the room that is left.                        *)
print_record_count(context, num_rec) ==
    memcpy(IF context.ellipsis THEN memcpy(context, Piece("ellipsis", "", 8)) ELSE context,
           Piece("count", num_rec, 18 + Digits(num_rec)))

(* A header between two separators.                                        *)
print_header(context, captions) ==
    print_separator(print_record(print_separator(context, Len(captions)), captions), Len(captions))

(* HELP overwrites as well.                                                *)
help_info == memcpy(NoReply, Piece("help", "", MESSAGE_LENGTH))

(* RMDBError, or a text that does not parse: the message overwrites what   *)
(* has been printed.                                                       *)
Failure == memcpy(NoReply, Piece("failure", "", MESSAGE_LENGTH))

----------------------------------------------------------------------------
(* SHOW TABLES, DESC and SHOW INDEX.                                       *)

PrintTable(captions, records) ==
    print_separator(FoldLeft(print_record, print_header(NoReply, captions), records), Len(captions))

show_tables(names) == PrintTable(<< Caption("Tables") >>, [i \in DOMAIN names |-> << Caption(names[i]) >>])

desc_table(tab) ==
    PrintTable(<< Caption("Field"), Caption("Type"), Caption("Index") >>,
               [i \in DOMAIN tab.cols |->
                   LET col == tab.cols[i]
                   IN << Caption(col.name), Caption(col.type),
                         Caption(IF \E j \in DOMAIN tab.indexes : col.name \in Range(tab.indexes[j])
                                 THEN "YES" ELSE "NO") >>])

(* One line per index, whether there is room or not.                       *)
show_index(tab) ==
    FoldLeft(LAMBDA context, cols : memcpy(context, Piece("index", cols, MESSAGE_LENGTH)), NoReply, tab.indexes)

----------------------------------------------------------------------------
(* The client: what recv returned, printed up to the first '\0'.           *)
PrintReceived(received) ==
    LET nuls == { i \in DOMAIN received : received[i].kind = "nul" }
    IN IF nuls = {} THEN received ELSE SubSeq(received, 1, Min(nuls) - 1)

SamePieces(s, t) ==
    Len(s) = Len(t) /\ \A i \in DOMAIN s : s[i].kind = t[i].kind /\ s[i].text = t[i].text
=============================================================================
