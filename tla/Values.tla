------------------------------- MODULE Values -------------------------------
(***************************************************************************)
(* Values and records (src/common/common.h, src/execution/execution_defs.h,*)
(* src/defs.h).                                                            *)
(*                                                                         *)
(* A record is a sequence of cells.  A CHAR(n) column takes n cells, one   *)
(* per character, padded with 0; every other column takes one cell.  An    *)
(* int literal is its number.  A string literal is the sequence of its     *)
(* characters; one that has the shape of a date is the sequence of its six *)
(* numbers.  A datetime, YYYYMMDDHHMMSS in an int64, is the pair of its    *)
(* upper and lower part to the base 10^6.                                  *)
(***************************************************************************)
EXTENDS Integers, SequencesExt, FiniteSetsExt

CONSTANTS
    INT_MAX,       \* numeric_limits<int>::max(), a small number here
    BIGINT_MAX     \* numeric_limits<int64_t>::max()

ASSUME WidthAssumption == INT_MAX \in Nat /\ BIGINT_MAX \in Nat /\ INT_MAX <= BIGINT_MAX

ColType == {"INT", "FLOAT", "STRING", "BIGINT", "DATETIME"}

IsInt(n)    == -INT_MAX - 1 <= n /\ n <= INT_MAX
IsBigint(n) == -BIGINT_MAX - 1 <= n /\ n <= BIGINT_MAX

(* What an int64 sum wraps to.                                             *)
int64(n) == ((n + BIGINT_MAX + 1) % (2 * (BIGINT_MAX + 1))) - BIGINT_MAX - 1

----------------------------------------------------------------------------
(* Dates.                                                                  *)

is_leap_year(year) == (year % 400 = 0) \/ (year % 4 = 0 /\ year % 100 # 0)

days_in_month(year, month) ==
    IF month = 2 /\ is_leap_year(year) THEN 29
    ELSE << 31, 28, 31, 30, 31, 30, 31, 31, 30, 31, 30, 31 >>[month]

(* What parse_datetime_literal accepts: the shape, then the ranges.        *)
IsDatetime(text) ==
    /\ Len(text) = 6
    /\ text[1] \in 1000 .. 9999 /\ text[2] \in 1 .. 12
    /\ text[3] >= 1 /\ text[3] <= days_in_month(text[1], text[2])
    /\ text[4] \in 0 .. 23 /\ text[5] \in 0 .. 59 /\ text[6] \in 0 .. 59

parse_datetime_literal(text) ==
    << text[1] * 10000 + text[2] * 100 + text[3], text[4] * 10000 + text[5] * 100 + text[6] >>

format_datetime_value(value) ==
    << value[1] \div 10000, (value[1] \div 100) % 100, value[1] % 100,
       value[2] \div 10000, (value[2] \div 100) % 100, value[2] % 100 >>

----------------------------------------------------------------------------
(* Value: a type and a number, a pair or a text.                           *)

Val(type, val) == [type |-> type, val |-> val]

(* coerce_to returns true, or parse_datetime_literal does not throw.       *)
CanCoerce(v, target) ==
    \/ v.type = target
    \/ target = "FLOAT" /\ v.type = "INT"
    \/ target = "BIGINT" /\ v.type = "INT"
    \/ target = "INT" /\ v.type = "BIGINT" /\ IsInt(v.val)
    \/ target = "DATETIME" /\ v.type = "STRING" /\ IsDatetime(v.val)

coerce_to(v, target) ==
    IF v.type = "STRING" /\ target = "DATETIME" THEN Val(target, parse_datetime_literal(v.val))
    ELSE Val(target, v.val)

(* init_raw does not throw StringOverflowError.                            *)
FitsRaw(v, len) == v.type = "STRING" => Len(v.val) <= len

init_raw(v, len) ==
    IF v.type = "STRING" THEN [i \in 1 .. len |-> IF i <= Len(v.val) THEN v.val[i] ELSE 0]
    ELSE << v.val >>

----------------------------------------------------------------------------
(* Comparing cells.                                                        *)

Sign(m, n) == IF m > n THEN 1 ELSE IF m < n THEN -1 ELSE 0

(* strncmp: up to the first difference, or the end of both, or len.        *)
strncmp(lhs, rhs, len) ==
    LET stops == { i \in 1 .. len : lhs[i] # rhs[i] \/ lhs[i] = 0 }
    IN IF stops = {} THEN 0 ELSE Sign(lhs[Min(stops)], rhs[Min(stops)])

(* lhs and rhs are the cells from the offset of a column on.               *)
compare_raw_value(lhs, rhs, type, len) ==
    CASE type = "STRING"   -> strncmp(lhs, rhs, len)
      [] type = "DATETIME" -> IF lhs[1][1] = rhs[1][1] THEN Sign(lhs[1][2], rhs[1][2])
                              ELSE Sign(lhs[1][1], rhs[1][1])
      [] OTHER             -> Sign(lhs[1], rhs[1])

eval_compare(cmp, op) ==
    CASE op = "=" -> cmp = 0
      [] op = "#" -> cmp # 0
      [] op = "<" -> cmp < 0
      [] op = ">" -> cmp > 0
      [] op = "<=" -> cmp <= 0
      [] op = ">=" -> cmp >= 0

swap_op == [op \in {"=", "#", "<", ">", "<=", ">="} |->
    CASE op = "<" -> ">" [] op = ">" -> "<" [] op = "<=" -> ">=" [] op = ">=" -> "<="
      [] OTHER -> op]

(* The cells of rec from the offset of a column on.                        *)
CellsAt(rec, col) == SubSeq(rec, col.offset + 1, Len(rec))

(* How a column is printed: texts end at the first 0.                      *)
format_column_value(rec, col) ==
    CASE col.type = "STRING"   ->
            SelectSeq(SubSeq(rec, col.offset + 1, col.offset + col.len), LAMBDA c : c # 0)
      [] col.type = "DATETIME" -> format_datetime_value(rec[col.offset + 1])
      [] OTHER                 -> rec[col.offset + 1]
=============================================================================
