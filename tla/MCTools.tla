------------------------------- MODULE MCTools -------------------------------
(***************************************************************************)
(* Small instances of the parts that hand data on: streamed results, the    *)
(* database/sql driver, backups, mysqldump and its values, and flashbacks.  *)
(* They do not interact; `part` says which one a behaviour is about, and    *)
(* the others rest in a state in which they are over.                       *)
(***************************************************************************)
EXTENDS StreamResult, Driver, Backup, Dump, DumpValues, RowUndo, Flashback

CONSTANT Parts      \* the parts that a run is about

VARIABLE part

MCChars == {"a", "n", Comma, Quote, Backslash, Newline}

-----------------------------------------------------------------------------
(* Logs and command lines of the flashback.                                 *)

Keys == {1, 2, 3}
Vals == {"x", "y"}
Tabs == {"t1", "t2"}
MCNewName == [t1 |-> "n1", t2 |-> "n2"]
MCStart == [t1 |-> [k \in Keys |-> IF k = 2 THEN "x" ELSE "absent"],
            t2 |-> [k \in Keys |-> IF k = 1 THEN "y" ELSE "absent"]]

Img(k, v) == [k |-> k, v |-> v]
Fmt(alg) == [type |-> "format", alg |-> alg, ts |-> 0]
Query(stmt, tabs, ts) == [type |-> "query", query |-> [kind |-> stmt, tables |-> tabs], ts |-> ts]
Begin(ts) == Query("begin", {}, ts)
Xid(ts) == [type |-> "other", ts |-> ts]
Map(tid, t, ts) == [type |-> "table_map", tid |-> tid, table |-> t, ts |-> ts]
RowsEvent(type, ver, tid, end, images, ts) ==
  [type |-> type, ver |-> ver, tid |-> tid, end |-> end, images |-> images, ts |-> ts]
Payload(events, ts) == [type |-> "payload", events |-> events, ts |-> ts]

(* One statement on two tables, one event with two rows, a new key, a      *)
(* compressed event; times 1 to 3.                                         *)
TwoTables ==
  << <<Fmt("crc32"), Begin(1), Map(1, "t1", 1), Map(2, "t2", 1),
       RowsEvent("write", "v1", 1, FALSE, <<Img(1, "x"), Img(3, "y")>>, 1),
       RowsEvent("delete", "v1", 2, TRUE, <<Img(1, "y")>>, 1), Xid(1),
       Begin(2), Map(1, "t1", 2),
       RowsEvent("update", "v1", 1, TRUE, <<Img(1, "x"), Img(1, "y"), Img(2, "x"), Img(2, "y")>>, 2), Xid(2),
       Begin(3), Map(2, "t2", 3), RowsEvent("write", "tendb", 2, TRUE, <<Img(1, "x")>>, 3), Xid(3)>> >>

(* Two files; the table ids change their meaning; a key moves.             *)
TwoFiles ==
  << <<Fmt("crc32"), Map(1, "t1", 1), RowsEvent("update", "v1", 1, TRUE, <<Img(2, "x"), Img(3, "x")>>, 1),
       Map(2, "t2", 2), RowsEvent("delete", "v1", 2, TRUE, <<Img(1, "y")>>, 2), Xid(2)>>,
     <<Fmt("off"), Map(1, "t2", 1), RowsEvent("write", "v1", 1, TRUE, <<Img(2, "y")>>, 1),
       Map(2, "t1", 3), RowsEvent("delete", "v1", 2, TRUE, <<Img(3, "x")>>, 3)>> >>

(* A compressed transaction, then a statement on t2 and rows of it.        *)
Statements(stmt, ver) ==
  << <<Fmt("off"),
       Payload(<<Begin(1), Map(1, "t1", 1), RowsEvent("write", "v1", 1, FALSE, <<Img(1, "y")>>, 1),
                 RowsEvent("update", "v1", 1, TRUE, <<Img(1, "y"), Img(1, "x")>>, 1), Xid(1)>>, 1),
       Query(stmt, {"t2"}, 2),
       Map(2, "t2", 3), RowsEvent("write", ver, 2, TRUE, <<Img(3, "x")>>, 3)>> >>

(* One update that moves rows along: 2 to 3, then 1 to 2.                  *)
Chained ==
  << <<Fmt("crc32"), Map(1, "t1", 1), RowsEvent("write", "v1", 1, TRUE, <<Img(1, "y")>>, 1),
       Map(1, "t1", 2), RowsEvent("update", "v1", 1, TRUE, <<Img(2, "x"), Img(3, "x"), Img(1, "y"), Img(2, "y")>>, 2)>> >>

Base == [flashback |-> TRUE, tableFilter |-> FALSE, tables |-> Tabs, keys |-> Keys, types |-> RowTypes,
         conv |-> FALSE, rename |-> FALSE, short |-> TRUE, startPos |-> 0, stopPos |-> 0, startTime |-> 0,
         stopTime |-> 0, quickStop |-> FALSE, matchIgnore |-> {}, matchError |-> {}]

(* Start and stop position, start and stop time.                           *)
Windows == {<<0, 0, 0, 0>>, <<7, 0, 0, 0>>, <<9, 0, 0, 0>>, <<0, 11, 0, 0>>, <<0, 5, 0, 0>>,
            <<0, 0, 2, 0>>, <<0, 0, 0, 2>>, <<0, 0, 2, 2>>}
FileWindows == {<<0, 0, 0, 0>>, <<3, 3, 0, 0>>, <<3, 0, 0, 0>>, <<0, 3, 0, 0>>, <<0, 0, 2, 0>>, <<0, 0, 0, 2>>}

Selecting(windows) ==
  {[Base EXCEPT !.flashback = f, !.tableFilter = (ts # Tabs), !.tables = ts, !.keys = ks, !.types = ty, !.rename = r,
                !.startPos = w[1], !.stopPos = w[2], !.startTime = w[3], !.stopTime = w[4], !.quickStop = q] :
     f \in BOOLEAN, ts \in {Tabs, {"t1"}}, ks \in {Keys, {1}}, ty \in {RowTypes, {"write"}},
     r \in BOOLEAN, q \in BOOLEAN, w \in windows}

Filtering ==
  {[Base EXCEPT !.flashback = f, !.tableFilter = (ts # Tabs), !.tables = ts, !.keys = ks, !.types = ty,
                !.short = sh, !.matchIgnore = ig, !.matchError = er, !.startTime = st, !.stopTime = en] :
     f \in BOOLEAN, ts \in {Tabs, {"t1"}}, ks \in {Keys, {1}}, ty \in {RowTypes, {"write"}}, sh \in BOOLEAN,
     ig \in {{}, {"unparsed", "alter"}}, er \in {{}, {"unparsed"}}, st \in {0, 2}, en \in {0, 1}}

MCCases ==
  {[log |-> TwoTables, flags |-> f] : f \in Selecting(Windows)}
  \cup {[log |-> TwoFiles, flags |-> f] : f \in Selecting(FileWindows)}
  \cup {[log |-> Statements(k, "v1"), flags |-> f] :
          k \in {"truncate", "alter", "create_index", "unparsed"}, f \in Filtering}
  \cup {[log |-> Statements("alter", "mariadb"), flags |-> [Base EXCEPT !.tableFilter = TRUE, !.tables = {"t1"}, !.types = ty]] :
          ty \in {RowTypes, {"write"}}}

MCChained == {[log |-> Chained, flags |-> Base]}

-----------------------------------------------------------------------------
StreamOver == /\ chan = <<>> /\ closed = {} /\ closer = "none" /\ srErr = FALSE /\ canceled = FALSE
              /\ producer = [at |-> "ended", row |-> 1] /\ writer = "ended"
              /\ client = [rows |-> <<>>, end |-> "none"]
DriverOver == DriverInit /\ retries = FALSE /\ \A k, l \in Calls : kind[k] = kind[l] /\ kind[k] = CHOOSE x \in Kinds : TRUE
BackupOver == BackupInit /\ bkSync = FALSE /\ bkStart = 0
DumpOver == /\ dumpOf = "tables" /\ masterData = FALSE
            /\ dumpProc = [at |-> "failed", line |-> 0] /\ stdout = [lines |-> <<>>, open |-> TRUE]
            /\ pipe = [line |-> None, w |-> "error", r |-> "closed"] /\ copier = "ended"
            /\ parse = [at |-> "ended", db |-> "", binlog |-> FALSE, err |-> "read"]
            /\ dumpMain = [at |-> "returned", err |-> "exit"] /\ handed = <<>>
ValuesOver == dumpRow = CHOOSE r \in DumpedRows : TRUE
UndoOver == /\ table = [k \in RowKeys |-> Absent] /\ logged = <<>> /\ earlier = <<>> /\ undoing = TRUE
FlashbackOver == /\ fbLog = <<>> /\ opt = Base /\ rd = <<>> /\ ps = <<>> /\ wr = <<>> /\ outs = <<>> /\ fbRes = "error"

MCInit ==
  /\ part \in Parts
  /\ IF part = "stream" THEN StreamInit ELSE StreamOver
  /\ IF part = "driver" THEN DriverInit ELSE DriverOver
  /\ IF part = "backup" THEN BackupInit ELSE BackupOver
  /\ IF part = "dump" THEN DumpInit ELSE DumpOver
  /\ IF part = "values" THEN DumpValuesInit ELSE ValuesOver
  /\ IF part = "undo" THEN UndoInit ELSE UndoOver
  /\ IF part = "flashback" THEN FbInit ELSE FlashbackOver

MCNext ==
  /\ UNCHANGED <<part, dumpRow>>
  /\ \/ part = "stream" /\ StreamNext /\ UNCHANGED <<drVars, bkVars, dumpVars, undoVars, fbVars>>
     \/ part = "driver" /\ DriverNext /\ UNCHANGED <<stVars, bkVars, dumpVars, undoVars, fbVars>>
     \/ part = "backup" /\ BackupNext /\ UNCHANGED <<stVars, drVars, dumpVars, undoVars, fbVars>>
     \/ part = "dump" /\ DumpNext /\ UNCHANGED <<stVars, drVars, bkVars, undoVars, fbVars>>
     \/ part = "undo" /\ UndoNext /\ UNCHANGED <<stVars, drVars, bkVars, dumpVars, fbVars>>
     \/ part = "flashback" /\ FbNext /\ UNCHANGED <<stVars, drVars, bkVars, dumpVars, undoVars>>

(* Goroutines that can run do run.                                         *)
MCFairness ==
  /\ WF_stVars(part = "stream" /\ StreamProducer) /\ WF_stVars(part = "stream" /\ StreamWriter)
  /\ \A k \in Calls : WF_drVars(part = "driver" /\ CallStep(k))
  /\ \A c \in DriverConns : WF_drVars(part = "driver" /\ DriverWatcher(c))
  /\ WF_dumpVars(part = "dump" /\ DumpStep)

MCVars == <<part, dumpRow, stVars, drVars, bkVars, dumpVars, undoVars, fbVars>>
MCSpec == MCInit /\ [][MCNext]_MCVars /\ MCFairness

(* Every goroutine and process that was started comes to its end: producer  *)
(* and writer of a streamed result, canceled calls and the watchers of      *)
(* closed connections, DumpAndParse and mysqldump.                          *)
AllEnd ==
  /\ part = "stream" => StreamReleased
  /\ part = "driver" => CancelEnds /\ WatchersEnd
  /\ part = "dump" => DumpEnds
=============================================================================
