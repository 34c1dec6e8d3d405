----------------------------- MODULE DumpValues -----------------------------
(***************************************************************************)
(* parseValues of dump/parser.go and the handler's Data of canal/dump.go:   *)
(* the text between the parentheses of one INSERT line of mysqldump, split  *)
(* into values and converted by the types of the columns.  A text is a      *)
(* sequence of characters; mysqldump writes a number or NULL as it is, a    *)
(* binary value in hexadecimal (--hex-blob) and a string in single quotes   *)
(* with a backslash before the characters that need one.                    *)
(***************************************************************************)
EXTENDS Integers, Sequences, SequencesExt

CONSTANTS StringChars,   \* the characters of the string values
          MaxString,     \* their length
          MaxValues      \* values of a row

VARIABLE dumpRow         \* a row of the dumped table

Quote == "'"
Backslash == "\\"
Newline == "nl"
Comma == ","

(* NULL, numbers, strings and binary values: what a row event would hold.  *)
DumpedValues ==
  [null : {TRUE}] \cup [num : {0, 7, 10}] \cup [str : BoundedSeq(StringChars, MaxString)]
  \cup [bin : BoundedSeq({"a", "n"}, 1)]
DumpedRows == UNION {[1..n -> DumpedValues] : n \in 1..MaxValues}

DumpValuesInit == dumpRow \in DumpedRows

-----------------------------------------------------------------------------
(* mysqldump (external): mysql_real_escape_string.                         *)
Escaped(c) ==
  CASE c = Newline -> <<Backslash, "n">>
    [] c \in {Quote, Backslash} -> <<Backslash, c>>
    [] OTHER -> <<c>>

Digit(n) == <<"0", "1", "2", "3", "4", "5", "6", "7", "8", "9">>[n + 1]
HexCode(c) == IF c = "a" THEN "61" ELSE "6e"

DumpedText(v) ==
  CASE "null" \in DOMAIN v -> <<"NULL">>
    [] "num" \in DOMAIN v -> IF v.num < 10 THEN <<Digit(v.num)>> ELSE <<Digit(v.num \div 10), Digit(v.num % 10)>>
    [] "bin" \in DOMAIN v -> IF v.bin = <<>> THEN <<"_binary ", Quote, Quote>>
                             ELSE <<"0x">> \o [i \in DOMAIN v.bin |-> HexCode(v.bin[i])]
    [] OTHER -> <<Quote>> \o FlattenSeq([i \in DOMAIN v.str |-> Escaped(v.str[i])]) \o <<Quote>>

RECURSIVE JoinComma(_)
JoinComma(ts) ==
  IF Len(ts) = 1 THEN ts[1] ELSE ts[1] \o <<Comma>> \o JoinComma(Tail(ts))

InsertText(row) == JoinComma([i \in DOMAIN row |-> DumpedText(row[i])])

-----------------------------------------------------------------------------
unescapeChar(c) == IF c = "n" THEN Newline ELSE c

RECURSIVE unescapeFrom(_, _)
unescapeFrom(s, i) ==
  CASE i > Len(s) -> <<>>
    [] i <= Len(s) /\ s[i] # Backslash -> <<s[i]>> \o unescapeFrom(s, i + 1)
    [] i < Len(s) /\ s[i] = Backslash -> <<unescapeChar(s[i + 1])>> \o unescapeFrom(s, i + 2)
    [] OTHER -> <<>>

unescapeString(s) == unescapeFrom(s, 1)

(* The end of a bare value: the next comma, or the end of the text.        *)
RECURSIVE BareEnd(_, _)
BareEnd(s, j) == IF j > Len(s) \/ s[j] = Comma THEN j ELSE BareEnd(s, j + 1)

(* A mutant: a backslash is read as one character of the string.          *)
RECURSIVE QuoteEndPlain(_, _)
QuoteEndPlain(s, j) ==
  IF j > Len(s) \/ s[j] = Quote THEN j ELSE QuoteEndPlain(s, j + 1)

(* The closing quote at or after j; what a backslash precedes is skipped.  *)
RECURSIVE QuoteEnd(_, _)
QuoteEnd(s, j) ==
  IF j > Len(s) \/ s[j] = Quote THEN j
  ELSE QuoteEnd(s, IF s[j] = Backslash THEN j + 2 ELSE j + 1)

(* The values from character i on; "error" ends an unfinished string.      *)
RECURSIVE parseFrom(_, _)
parseFrom(s, i) ==
  IF i > Len(s) THEN <<>>
  ELSE IF s[i] # Quote
  THEN LET j == BareEnd(s, i + 1) IN <<SubSeq(s, i, j - 1)>> \o parseFrom(s, j + 1)
  ELSE LET j == QuoteEnd(s, i + 1)
           value == SubSeq(s, i, j)
       IN  IF j > Len(s) THEN <<"error">>
           ELSE <<IF Backslash \in Range(value) THEN unescapeString(value) ELSE value>>
                \o parseFrom(s, j + 2)

parseValues(s) == parseFrom(s, 1)

-----------------------------------------------------------------------------
(* canal's dumpParseHandler.Data.  Only a number's column decides how a    *)
(* bare value is read; an error ends the dump.                             *)

ParseUint(t) == FoldLeft(LAMBDA n, c : 10 * n + (CHOOSE d \in 0..9 : Digit(d) = c), 0, t)
DecodeHex(t) == [i \in 1..Len(t) - 1 |-> CHOOSE c \in {"a", "n"} : HexCode(c) = t[i + 1]]

Convert(isNumber, t) ==
  CASE t = <<"NULL">> -> [null |-> TRUE]
    [] t = <<"_binary ", Quote, Quote>> -> [bin |-> <<>>]
    [] t[1] = Quote -> [str |-> SubSeq(t, 2, Len(t) - 1)]
    [] t[1] # Quote /\ isNumber -> [num |-> ParseUint(t)]
    [] t[1] = "0x" -> [bin |-> DecodeHex(t)]
    [] OTHER -> [err |-> TRUE]

Data(columns, values) ==
  [i \in DOMAIN values |-> IF i \in DOMAIN columns THEN Convert(columns[i], values[i]) ELSE [err |-> TRUE]]

(* The column types: is it a number?                                       *)
ColumnsOf(row) == [i \in DOMAIN row |-> "num" \in DOMAIN row[i]]

-----------------------------------------------------------------------------
(* The row that OnRow gets for an INSERT line of the dump is the row of    *)
(* the table: as many values, each with its type and its characters,       *)
(* whatever quotes, backslashes and commas a string holds.                 *)
DumpedRowExact == Data(ColumnsOf(dumpRow), parseValues(InsertText(dumpRow))) = dumpRow
=============================================================================
