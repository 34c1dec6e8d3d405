------------------------------ MODULE Position ------------------------------
(***************************************************************************)
(* The order of binlog positions: src/mysql/position.go.  A file name is   *)
(* empty or has a base and a number (0 when it has no extension); bases    *)
(* are numbers in string order.                                            *)
(***************************************************************************)
EXTENDS Integers

NoName == [base |-> -1, seq |-> 0]

Cmp(a, b) == IF a > b THEN 1 ELSE IF a < b THEN -1 ELSE 0

CompareBinlogFileName(a, b) ==
  CASE a = NoName /\ b = NoName -> 0
    [] a = NoName /\ b # NoName -> -1
    [] a # NoName /\ b = NoName -> 1
    [] OTHER -> IF a.base # b.base THEN Cmp(a.base, b.base) ELSE Cmp(a.seq, b.seq)

Compare(p, o) ==
  LET c == CompareBinlogFileName(p.name, o.name)
  IN  IF c # 0 THEN c ELSE Cmp(p.pos, o.pos)

=============================================================================
