------------------------------ MODULE Flashback ------------------------------
(***************************************************************************)
(* cmd/gomysqlbinlog: binlog files read event by event (ParseFile and       *)
(* parseSingleEvent), filtered and rewritten (RowsRewrite), and printed     *)
(* forward, or backward through the FlashbackWriter's cache and part files, *)
(* one output for each file.                                                *)
(*                                                                         *)
(* Event i of a file ends at position i.  The output is a header (the       *)
(* format event), blocks and a footer; comments and the other settings in   *)
(* it are left out, and so are blocks without contents.  Every block has    *)
(* size 1.                                                                  *)
(***************************************************************************)
EXTENDS RowsRewrite, FiniteSets

CONSTANTS FbCases,      \* [log, flags]: a log (a sequence of files, which are
                        \* sequences of events) and a command line
          FbTables,     \* the tables, which RowChange describes
          FbStart,      \* their contents before the log
          TableIds,     \* table ids of table map events
          NewName,      \* NewName[t]: table t under --rewrite-db
          CacheSize,    \* maxCacheSize of the FlashbackWriter
          CreateFails   \* may creating a part file fail?  {FALSE} or BOOLEAN

VARIABLES fbLog,        \* the files
          opt,          \* the options of the parser
          rd,           \* [file, idx, nested, at]: the reader
          ps,           \* [alg, outer, tables, maps]: the parser's memory
          wr,           \* [header, cache, parts, bad, footer]: the writer
          outs,         \* the outputs of the files that were closed
          fbRes         \* "running", "ok", "error" or "panic"

fbVars == <<fbLog, opt, rd, ps, wr, outs, fbRes>>

NoTable == "none"
RowTypes == {"write", "update", "delete"}

(* parseBinlogFile: a flashback always has a table filter.                 *)
ParserOptions(f) ==
  [f EXCEPT !.tableFilter = f.tableFilter \/ f.flashback]

NewWriter == [header |-> NoTable, cache |-> <<>>, parts |-> <<<<>>>>, bad |-> FALSE, footer |-> FALSE]

FbInit ==
  /\ \E c \in FbCases : fbLog = c.log /\ opt = ParserOptions(c.flags)
  /\ rd = [file |-> 1, idx |-> 1, nested |-> <<>>, at |-> "read"]
  /\ ps = [alg |-> NoTable, outer |-> NoTable,
           tables |-> [i \in TableIds |-> NoTable], maps |-> [i \in TableIds |-> [name |-> NoTable, crc |-> "none"]]]
  /\ wr = NewWriter /\ outs = <<>> /\ fbRes = "running"

(* The positions apply to the first and to the last file only.             *)
StartPos == IF rd.file = 1 THEN opt.startPos ELSE 0
StopPos == IF rd.file = Len(fbLog) THEN opt.stopPos ELSE 0

-----------------------------------------------------------------------------
(* FlashbackWriter and NormalWriter.                                        *)

AppendLast(s, x) == [s EXCEPT ![Len(s)] = @ \o x]

(* A mutant: the cache is written in the order in which it was filled.     *)
FlushForward(w) == [w EXCEPT !.parts = Append(AppendLast(@, w.cache), <<>>), !.cache = <<>>]

(* The cache goes to the current part from its end, and a new part begins. *)
Flush(w) == [w EXCEPT !.parts = Append(AppendLast(@, Reverse(w.cache)), <<>>), !.cache = <<>>]

(* A part that cannot be created makes every later write fail.  No caller  *)
(* looks at the error.                                                     *)
FlushOutcomes(w) == {[Flush(w) EXCEPT !.bad = failed] : failed \in CreateFails}

(* The writers after block b.                                              *)
WriteBlock(b) ==
  LET w == [wr EXCEPT !.cache = Append(@, b)]
  IN  IF ~opt.flashback THEN {[wr EXCEPT !.parts = AppendLast(@, <<b>>)]}
      ELSE IF Len(w.cache) < CacheSize THEN {w}
      ELSE IF w.bad THEN {w} ELSE FlushOutcomes(w)

(* Close: the rest of the cache, then the parts from the last to the first *)
(* between the header and the footer.                                      *)
CloseOutput ==
  LET parts == AppendLast(wr.parts, Reverse(wr.cache))
  IN  [header |-> wr.header, footer |-> wr.footer,
       blocks |-> FlattenSeq(IF opt.flashback THEN Reverse(parts) ELSE parts)]

-----------------------------------------------------------------------------
(* parseSingleEvent.                                                        *)

Reading == fbRes = "running" /\ rd.at = "read"
InPayload == rd.nested # <<>>
AtEnd == ~InPayload /\ rd.idx > Len(fbLog[rd.file])
Current == IF InPayload THEN Head(rd.nested) ELSE fbLog[rd.file][rd.idx]
LogPos == IF InPayload THEN 0 ELSE rd.idx

(* The filter by time and position, before the body is read.  The table    *)
(* maps of a flashback pass: their rows event decides.                     *)
TimeFilter(e) ==
  IF e.type = "format" \/ (opt.flashback /\ e.type = "table_map") THEN "parse"
  ELSE IF e.ts < opt.startTime THEN "skip"
  ELSE IF opt.stopTime > 0 /\ e.ts > opt.stopTime THEN IF opt.quickStop THEN "stop" ELSE "skip"
  ELSE IF StopPos > 0 /\ LogPos > StopPos THEN "stop" ELSE "parse"

(* To the next event: of a payload, whose end gives the checksum algorithm *)
(* back, or of the file.  After the format event, which is always read,    *)
(* comes the start position.                                               *)
Advance(q) ==
  IF InPayload
  THEN /\ rd' = [rd EXCEPT !.nested = Tail(@), !.idx = IF Len(rd.nested) = 1 THEN @ + 1 ELSE @]
       /\ ps' = IF Len(rd.nested) = 1 THEN [q EXCEPT !.alg = ps.outer] ELSE q
  ELSE /\ rd' = [rd EXCEPT !.idx = IF @ = 1 /\ StartPos > 1 THEN StartPos + 1 ELSE @ + 1]
       /\ ps' = q

(* An error of the parser or of the printing: the writer is closed too.    *)
Abort(res) ==
  /\ fbRes' = res
  /\ outs' = IF res = "error" THEN Append(outs, CloseOutput) ELSE outs
  /\ UNCHANGED <<rd, ps, wr>>

(* The event is dropped; a nested one never ends the file.                 *)
SkipEvent ==
  /\ Reading /\ ~AtEnd /\ TimeFilter(Current) # "parse"
  /\ IF TimeFilter(Current) = "stop" /\ ~InPayload
     THEN rd' = [rd EXCEPT !.at = "close"] /\ UNCHANGED ps
     ELSE Advance(ps)
  /\ UNCHANGED <<fbLog, opt, wr, outs, fbRes>>

Parsing(type) == Reading /\ ~AtEnd /\ TimeFilter(Current) = "parse" /\ Current.type = type

(* The format event is the header of the output.                           *)
ParseFormat ==
  /\ Parsing("format")
  /\ Advance([ps EXCEPT !.alg = Current.alg])
  /\ wr' = [wr EXCEPT !.header = Current.alg]
  /\ UNCHANGED <<fbLog, opt, outs, fbRes>>

(* The table map is kept as it will be printed, renamed if asked for.      *)
ParseTableMap ==
  /\ Parsing("table_map")
  /\ LET e == Current
         crc == CASE ps.alg # "crc32" -> "none"
                  [] ps.alg = "crc32" /\ ~opt.rename -> "right"
                  [] OTHER -> "stale"
     IN  Advance([ps EXCEPT !.tables[e.tid] = e.table,
                            !.maps[e.tid] = [name |-> IF opt.rename THEN NewName[e.table] ELSE e.table,
                                             crc |-> crc]])
  /\ UNCHANGED <<fbLog, opt, wr, outs, fbRes>>

(* STMT_END_F forgets the table maps.                                      *)
AfterRows(e) == IF e.end THEN [ps EXCEPT !.tables = [i \in TableIds |-> NoTable]] ELSE ps

(* Only these versions are printed; the others fall into the default case. *)
Printed(e) == e.ver \in {"v1", "tendb"}

(* EventTypeFilter.  The event is then printed as a comment, with the table *)
(* that was not looked up, unless --short hides it.                         *)
TypeFiltered(e) == opt.types # RowTypes /\ (e.type \notin opt.types \/ ~Printed(e))

RowsBlock(e) ==
  LET r == FlashbackData(e, opt.flashback, opt.keys, opt.conv)
  IN  [map |-> ps.maps[e.tid], type |-> r.type, images |-> r.images, bitmaps |-> r.bitmaps,
       crc |-> RowsChecksum(e, r, ps.alg)]

ParseRows ==
  /\ Reading /\ ~AtEnd /\ TimeFilter(Current) = "parse"
  /\ Current.type \in RowTypes
  /\ LET e == Current
     IN  IF TypeFiltered(e)
         THEN IF opt.short \/ ~Printed(e) THEN Advance(ps) /\ UNCHANGED <<wr, outs, fbRes>> ELSE Abort("panic")
         ELSE IF ps.tables[e.tid] = NoTable THEN Abort("error")
         ELSE /\ Advance(AfterRows(e))
              /\ IF \/ ps.tables[e.tid] \notin opt.tables
                    \/ opt.keys # RowKeys /\ MatchedRows(e, opt.keys) = <<>>
                    \/ ~Printed(e)
                 THEN UNCHANGED wr
                 ELSE wr' \in WriteBlock(RowsBlock(e))
              /\ UNCHANGED <<outs, fbRes>>
  /\ UNCHANGED <<fbLog, opt>>

(* A statement is printed only without filters.                            *)
ParseQuery ==
  /\ Parsing("query")
  /\ LET q == Current.query
         way == RewriteQuery(q, opt)
     IN  IF way \in {"error", "panic"} THEN Abort(way)
         ELSE /\ Advance(ps)
              /\ IF way = "print" THEN wr' \in WriteBlock([query |-> q]) ELSE UNCHANGED wr
              /\ UNCHANGED <<outs, fbRes>>
  /\ UNCHANGED <<fbLog, opt>>

(* A compressed transaction: its events come one after the other, without  *)
(* checksums.                                                              *)
ParsePayload ==
  /\ Parsing("payload")
  /\ rd' = [rd EXCEPT !.nested = Current.events]
  /\ ps' = [ps EXCEPT !.outer = ps.alg, !.alg = "off"]
  /\ UNCHANGED <<fbLog, opt, wr, outs, fbRes>>

(* GTID, XID and rotate events print nothing.                              *)
ParseOther ==
  /\ Parsing("other")
  /\ Advance(ps) /\ UNCHANGED <<fbLog, opt, wr, outs, fbRes>>

(* FAKE_DONE_EVENT at the end of the file: the footer.                     *)
EndOfFile ==
  /\ Reading /\ AtEnd
  /\ rd' = [rd EXCEPT !.at = "close"]
  /\ wr' = [wr EXCEPT !.footer = TRUE]
  /\ UNCHANGED <<fbLog, opt, ps, outs, fbRes>>

(* ioWriter.Close, and the next file with a writer of its own.  A part     *)
(* that could not be created shows here.                                   *)
CloseFile ==
  /\ fbRes = "running" /\ rd.at = "close"
  /\ IF wr.bad
     THEN fbRes' = "error" /\ UNCHANGED <<rd, wr, outs>>
     ELSE /\ outs' = Append(outs, CloseOutput)
          /\ IF rd.file < Len(fbLog)
             THEN /\ rd' = [file |-> rd.file + 1, idx |-> 1, nested |-> <<>>, at |-> "read"]
                  /\ wr' = NewWriter /\ UNCHANGED fbRes
             ELSE fbRes' = "ok" /\ UNCHANGED <<rd, wr>>
  /\ UNCHANGED <<fbLog, opt, ps>>

FbNext ==
  \/ SkipEvent \/ ParseFormat \/ ParseTableMap \/ ParseRows \/ ParseQuery
  \/ ParsePayload \/ ParseOther \/ EndOfFile \/ CloseFile

-----------------------------------------------------------------------------
(* The reference: what the log did, and what the outputs do.               *)

(* The events of file f, those of a payload one by one, with the position  *)
(* of the event that holds them.                                           *)
Expanded(f) ==
  FlattenSeq([i \in DOMAIN fbLog[f] |->
    LET e == fbLog[f][i]
        es == IF e.type = "payload" THEN e.events ELSE <<e>>
    IN  [j \in DOMAIN es |-> [event |-> es[j], file |-> f, pos |-> i]]])

(* Where an event is: before, in or after the window.                      *)
Place(x) ==
  IF x.event.ts < opt.startTime \/ (x.file = 1 /\ x.pos <= opt.startPos) THEN "before"
  ELSE IF \/ opt.stopTime > 0 /\ x.event.ts > opt.stopTime
          \/ opt.stopPos > 0 /\ x.file = Len(fbLog) /\ x.pos > opt.stopPos
  THEN "after" ELSE "in"

(* The table of the rows event number i: the last table map with its id.   *)
TableOf(xs, i) ==
  LET maps == {j \in 1..i : xs[j].event.type = "table_map" /\ xs[j].event.tid = xs[i].event.tid}
  IN  xs[CHOOSE j \in maps : \A h \in maps : h <= j].event.table

(* What the log does, statement by statement and row by row.               *)
Effects ==
  LET of(xs, i) ==
        LET x == xs[i]
            cs == ChangesOf(x.event)
        IN  CASE x.event.type = "query" -> <<[place |-> Place(x), query |-> x.event.query]>>
              [] x.event.type \in RowTypes ->
                   [n \in DOMAIN cs |-> [place |-> Place(x), table |-> TableOf(xs, i), change |-> cs[n]]]
              [] OTHER -> <<>>
  IN  FlattenSeq([f \in DOMAIN fbLog |->
        LET xs == Expanded(f) IN FlattenSeq([i \in DOMAIN xs |-> of(xs, i)])])

RefApply(s, x) ==
  IF "query" \in DOMAIN x THEN ExecuteQuery(s, x.query)
  ELSE [s EXCEPT ![x.table] = ApplyRow(@, x.change)]

Contents(places) == FoldLeft(RefApply, FbStart, SelectSeq(Effects, LAMBDA x : x.place \in places))

Source == Contents(IF opt.flashback THEN {"before", "in"} ELSE {"before"})
Goal == Contents(IF opt.flashback THEN {"before"} ELSE {"before", "in"})

(* What the options select in the window: rows, and statements when they   *)
(* are printed without any filter of tables or rows.                       *)
Selected ==
  SelectSeq(Effects, LAMBDA x :
    x.place = "in" /\ IF "query" \in DOMAIN x THEN ~opt.tableFilter /\ opt.keys = RowKeys
                      ELSE /\ x.table \in opt.tables /\ x.change.type \in opt.types
                           /\ x.change.one.k \in opt.keys)

(* One of them executed, as long as they fit.                              *)
Execute(st, x) ==
  IF "query" \in DOMAIN x THEN [st EXCEPT !.tabs = ExecuteQuery(@, x.query)]
  ELSE LET r == ApplyChange([ok |-> st.ok, tab |-> st.tabs[x.table]], x.change)
       IN  [ok |-> r.ok, tabs |-> [st.tabs EXCEPT ![x.table] = r.tab]]

(* All undone, the last one first, or repeated.  They need not fit: a      *)
(* filter may leave out a change that another one needs.                   *)
Wanted ==
  LET cs == Selected
  IN  FoldLeft(Execute, [ok |-> TRUE, tabs |-> Source],
               IF opt.flashback THEN Reverse([i \in DOMAIN cs |-> [cs[i] EXCEPT !.change = FlashbackRow(@)]])
               ELSE cs)

NameOf(t) == IF opt.rename THEN NewName[t] ELSE t

ApplyBlock(st, b) ==
  IF "query" \in DOMAIN b THEN [st EXCEPT !.tabs = ExecuteQuery(@, b.query)]
  ELSE LET ts == {t \in FbTables : NameOf(t) = b.map.name}
       IN  IF ~st.ok \/ ~Readable(b, st.alg) \/ ts = {} THEN [st EXCEPT !.ok = FALSE]
           ELSE LET t == CHOOSE t \in ts : TRUE
                    r == ApplyChanges(st.tabs[t], ChangesOf(b))
                IN  [st EXCEPT !.ok = r.ok, !.tabs[t] = r.tab]

ApplyOutput(st, out) == FoldLeft(ApplyBlock, [st EXCEPT !.alg = out.header], out.blocks)

(* The outputs applied where they belong: those of a flashback from the    *)
(* last file to the first.                                                 *)
Applied ==
  FoldLeft(ApplyOutput, [ok |-> TRUE, alg |-> NoTable, tabs |-> Source],
           IF opt.flashback THEN Reverse(outs) ELSE outs)

(* When gomysqlbinlog succeeds, its output undoes exactly the selected      *)
(* changes of the window, or repeats them, in the order that this takes;    *)
(* without a filter of types and rows that can always be executed, and the  *)
(* selected tables are then as before (as after) the window.                *)
FlashbackRestores ==
  fbRes = "ok" =>
    LET done == Applied
        wanted == Wanted
    IN  /\ done.ok = wanted.ok
        /\ done.ok => done.tabs = wanted.tabs
        /\ opt.types = RowTypes /\ opt.keys = RowKeys =>
             done.ok /\ \A t \in opt.tables : done.tabs[t] = Goal[t]

(* A flashback never passes in silence over a statement of the window that  *)
(* it cannot read, or that empties or alters a selected table: it ends with *)
(* an error, unless --query-match-ignore names the statement and            *)
(* --query-match-error does not.                                            *)
DdlReported ==
  fbRes = "ok" /\ opt.flashback =>
    \A i \in DOMAIN Effects :
      LET x == Effects[i]
      IN  /\ x.place = "in" /\ "query" \in DOMAIN x
          /\ \/ x.query.kind = "unparsed"
             \/ x.query.kind \in {"truncate", "alter"} /\ x.query.tables \cap opt.tables # {}
          => x.query.kind \in opt.matchIgnore \ opt.matchError
=============================================================================
