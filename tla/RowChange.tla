------------------------------ MODULE RowChange ------------------------------
(***************************************************************************)
(* What one row of a rows event does to a table when a server applies it    *)
(* (external), and how the flashback of replication/row_event_parser.go     *)
(* turns it round.  A table maps the values of its primary key to the other *)
(* columns, or to Absent; an image [k, v] is a full row image.              *)
(***************************************************************************)
CONSTANTS RowKeys,     \* values of the primary key
          RowValues,   \* values of the other columns
          Absent       \* no row with this key

(* No row has the value that stands for a missing row.                     *)
ASSUME AbsentAssumption == Absent \notin RowValues

Images == [k : RowKeys, v : RowValues]
TableStates == [RowKeys -> RowValues \cup {Absent}]

(* A change: the kind of rows event, the first image and, for an update,    *)
(* the second one (the same image otherwise).                               *)
Changes == [type : {"write", "delete", "update"}, one : Images, two : Images]

(* The row is there, and a new key is free.                                 *)
CanApply(tab, c) ==
  IF c.type = "write" THEN tab[c.one.k] = Absent
  ELSE /\ tab[c.one.k] = c.one.v
       /\ c.type = "update" => c.two.k = c.one.k \/ tab[c.two.k] = Absent

ApplyRow(tab, c) ==
  IF c.type = "write" THEN [tab EXCEPT ![c.one.k] = c.one.v]
  ELSE IF c.type = "delete" THEN [tab EXCEPT ![c.one.k] = Absent]
  ELSE [[tab EXCEPT ![c.one.k] = Absent] EXCEPT ![c.two.k] = c.two.v]

(* The event type, without its version: swapFlashbackEventType and the     *)
(* first switch of FlashbackData2.                                         *)
swapFlashbackEventType(type) ==
  IF type = "write" THEN "delete" ELSE IF type = "delete" THEN "write" ELSE type

(* FlashbackData2 for one row: the other type, and the images of an update *)
(* in the other order.                                                     *)
FlashbackRow(c) ==
  [type |-> swapFlashbackEventType(c.type),
   one |-> IF c.type = "update" THEN c.two ELSE c.one,
   two |-> c.one]
=============================================================================
