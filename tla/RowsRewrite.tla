----------------------------- MODULE RowsRewrite -----------------------------
(***************************************************************************)
(* How gomysqlbinlog rewrites one event (parseEventRewrite and what it      *)
(* calls), and what a server does with the output (external).               *)
(*                                                                         *)
(* A rows event is [type, ver, tid, end, images]: its type and version      *)
(* ("v1" for the versions 1 and 2, "tendb" and "mariadb" for their          *)
(* compressed ones, "partial"), its table id, STMT_END_F and its row        *)
(* images, which for an update are before and after in turn.  The filter    *)
(* of rows is a set of keys, RowKeys if there is none.                      *)
(***************************************************************************)
EXTENDS RowChange, Integers, Sequences, SequencesExt

(* newRowsEvent: an update has a second column bitmap and second images.   *)
needBitmap2(e) == e.type = "update"

RowsOfEvent(e) ==
  IF needBitmap2(e)
  THEN [i \in 1..(Len(e.images) \div 2) |-> <<e.images[2 * i - 1], e.images[2 * i]>>]
  ELSE [i \in 1..Len(e.images) |-> <<e.images[i]>>]

(* The rows whose first image the filter matches.                          *)
MatchedRows(e, keys) == SelectSeq(RowsOfEvent(e), LAMBDA r : r[1].k \in keys)

Compressed(e) == e.ver \in {"tendb", "mariadb"}

(* convUpdateToWriteThis: an update becomes a write.                       *)
ConvertsUpdate(e, conv) == conv /\ e.type = "update" /\ e.ver \in {"v1", "tendb"}

(* The header's type byte after a rewrite; only these versions change it.  *)
RewrittenType(e, flashback, conv) ==
  IF ConvertsUpdate(e, conv) THEN "write"
  ELSE IF flashback /\ e.ver \in {"v1", "tendb"} THEN swapFlashbackEventType(e.type)
  ELSE e.type

(* A rewritten event: the header keeps the bitmaps of the original, rows   *)
(* of a compressed event are written uncompressed.                         *)
Rewritten(e, flashback, conv, rows) ==
  [type |-> RewrittenType(e, flashback, conv),
   ver |-> IF e.ver = "tendb" THEN "v1" ELSE e.ver,
   bitmaps |-> IF needBitmap2(e) THEN 2 ELSE 1,
   images |-> FlattenSeq(rows)]

FlashbackData2(e, keys, conv) ==
  LET rows == MatchedRows(e, keys)
  IN  Rewritten(e, TRUE, conv,
                [i \in DOMAIN rows |->
                   IF needBitmap2(e) /\ ~ConvertsUpdate(e, conv) THEN <<rows[i][2], rows[i][1]>>
                   ELSE <<rows[i][1]>>])

DecodeData2(e, keys, conv) ==
  LET rows == MatchedRows(e, keys)
  IN  Rewritten(e, FALSE, conv,
                [i \in DOMAIN rows |-> IF ConvertsUpdate(e, conv) THEN <<rows[i][2]>> ELSE rows[i]])

FlashbackData(e, flashback, keys, conv) ==
  IF flashback THEN FlashbackData2(e, keys, conv) ELSE DecodeData2(e, keys, conv)

(* computeCrc32Checksum runs before the event's size is set: what it gives *)
(* fits only if the size stays.                                            *)
RowsChecksum(e, r, alg) ==
  CASE alg # "crc32" -> "none"
    [] alg = "crc32" /\ ~Compressed(e) /\ Len(r.images) = Len(e.images) -> "right"
    [] OTHER -> "stale"

-----------------------------------------------------------------------------
(* ParseStmt: is a statement harmless for a flashback, and on which tables *)
(* is it?  Kinds that it has no case for name no table.                    *)

(* A mutant: altering a table is harmless.                                  *)
ParseStmtAlters(q) ==
  [allowed |-> q.kind \in {"alter", "create_table", "create_index", "drop_index", "optimize"},
   tables |-> IF q.kind \in {"begin", "drop_database"} THEN {} ELSE q.tables]

ParseStmt(q) ==
  [allowed |-> q.kind \in {"create_table", "create_index", "drop_index", "optimize",
                           "create_view", "drop_view", "drop_procedure"},
   tables |-> IF q.kind \in {"begin", "drop_database"} THEN {} ELSE q.tables]

(* QueryEventFilter.Match: nil only for a kind that --query-match-ignore   *)
(* names and --query-match-error does not.                                 *)
QueryMatch(q, opt) == q.kind \notin opt.matchError /\ q.kind \in opt.matchIgnore

(* The query of parseEventRewrite: "print", "hide", "error" or "panic" (no *)
(* table filter to ask).                                                   *)
RewriteQuery(q, opt) ==
  LET stmt == ParseStmt(q)
      hit == {t \in stmt.tables : t \in opt.tables}
  IN  IF ~opt.flashback /\ ~opt.tableFilter /\ opt.keys = RowKeys THEN "print"
      ELSE IF q.kind = "unparsed" THEN IF QueryMatch(q, opt) THEN "hide" ELSE "error"
      ELSE IF stmt.tables # {} /\ ~opt.tableFilter THEN "panic"
      ELSE IF hit # {} /\ ~stmt.allowed /\ ~QueryMatch(q, opt) THEN "error" ELSE "hide"

-----------------------------------------------------------------------------
(* A server that executes the output (external): it decodes an event by    *)
(* the checksum algorithm of the format event and by the event's own type, *)
(* and applies its rows one after the other, stopping at the first that    *)
(* does not fit.                                                           *)

ChangeOf(type, r) == [type |-> type, one |-> r[1], two |-> IF Len(r) = 2 THEN r[2] ELSE r[1]]

ApplyChange(st, c) ==
  IF st.ok /\ CanApply(st.tab, c) THEN [ok |-> TRUE, tab |-> ApplyRow(st.tab, c)]
  ELSE [st EXCEPT !.ok = FALSE]

(* The changes of a rows event, in order.                                  *)
ChangesOf(e) == [i \in DOMAIN RowsOfEvent(e) |-> ChangeOf(e.type, RowsOfEvent(e)[i])]

ApplyChanges(tab, cs) == FoldLeft(ApplyChange, [ok |-> TRUE, tab |-> tab], cs)

Readable(b, alg) ==
  /\ b.bitmaps = IF b.type = "update" THEN 2 ELSE 1
  /\ alg = "crc32" => b.crc # "none" /\ b.map.crc # "none"

(* A statement on the tables of s.                                         *)
ExecuteQuery(s, q) ==
  IF q.kind \in {"truncate", "drop_database"}
  THEN [t \in DOMAIN s |-> IF t \in q.tables THEN [k \in RowKeys |-> Absent] ELSE s[t]]
  ELSE s
=============================================================================
