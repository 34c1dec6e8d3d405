------------------------------- MODULE Canal -------------------------------
(***************************************************************************)
(* Canal (src/canal/): the run goroutine, which dumps the tables and then  *)
(* hands the events of the binlog to an EventHandler, the table cache, the *)
(* synced position in masterInfo, CatchMasterPos and Close.                *)
(*                                                                         *)
(* The source server and the application are external.  The source commits *)
(* a prefix of the log, up to head.  The application treats a row as       *)
(* applied when OnRow returns, stores what OnPosSynced is given (at once   *)
(* when force is set, now and then otherwise) and, after a crash or an     *)
(* error, starts a new Canal from what it stored.  The stream of events is *)
(* the one BinlogDelivery promises.  Names of log files are numbers; 0 is  *)
(* the empty name.  Timestamps and the delay are left out.                 *)
(***************************************************************************)
EXTENDS BinlogDelivery

CONSTANTS
    Setups,        \* configurations: a log, whether the application uses GTIDs, ...
    Tables,
    Excluded,      \* tables the regular expressions leave out
    MaxStarts,     \* bound on the lives of the process
    MaxCalls       \* bound on calls of CatchMasterPos and Close

VARIABLES
    cfg,           \* the Config and the application's kind of restart
    head,          \* the log indices 1..head are committed
    pc,            \* where run is
    work,          \* the event, or the events of the payload, in handleEvent
    curr,          \* GSet of the events of the stream
    pos, gset,     \* masterInfo
    tables,        \* cached versions of table definitions
    errorTablesGetTime, \* tables whose definition was tried in the last 10 s
    h,             \* dumpParseHandler
    conn,          \* is c.conn set
    wpc, wat,      \* CatchMasterPos: where it is and the index it waits for
    cpc, cl,       \* Close: where it is and what it read
    saved,         \* what the application stored
    applied,       \* rows handed to OnRow
    dropped,       \* rows let go because their table has no definition
    starts, calls

runVars == <<work, curr>>
masterVars == <<pos, gset>>
tableVars == <<tables, errorTablesGetTime, conn>>
waitVars == <<wpc, wat>>
closeVars == <<cpc, cl>>
appVars == <<saved, applied, dropped, starts, calls>>
vars == <<deliveryVars, cfg, head, pc, runVars, masterVars, tableVars, h, waitVars, closeVars, appVars>>

NoTxn == 0
Nil == {NoTxn}                       \* the nil GTIDSet
NoPos == [Name |-> 0, Pos |-> 0]
NoPoint == [pos |-> NoPos, gset |-> Nil]
NoTable == -1
FileStart == 4

\* Position.Compare is at least 0.
Compare(p, q) == p.Name > q.Name \/ (p.Name = q.Name /\ p.Pos >= q.Pos)

\* Where the reader of a log is after its first i events.
PositionAfter(l, i) ==
    IF i = 0 THEN [Name |-> l[1].file, Pos |-> FileStart]
    ELSE IF l[i].kind = "rotate" THEN [Name |-> l[i].file + 1, Pos |-> FileStart]
    ELSE [Name |-> l[i].file, Pos |-> l[i].end]

EndOf(i) == PositionAfter(log, i)

Executed(i) == {log[j].txn : j \in 1..i} \ {NoTxn}

Rows == {i \in DOMAIN log : log[i].kind \in {"rows", "payload"} /\ log[i].table \notin Excluded}

\* The definition of a table after the first i events: the statement that made it.
Version(t, i) == Max({0} \cup {j \in 1..i : log[j].kind = "ddl" /\ log[j].table = t})
Exists(t, i) ==
    LET ddls == {j \in 1..i : log[j].kind = "ddl" /\ log[j].table = t}
    IN  \A j \in ddls : log[j].drop => \E k \in ddls : k > j

\* Cancelled by Close, or by run when it returns.
ctxDone == cpc # "no" \/ pc = "ended"

-----------------------------------------------------------------------------
(***************************************************************************)
(* The logs of a source server (external).                                 *)
(***************************************************************************)
CommitKinds == {"xid", "ddl", "badquery", "rotate", "payload"}

LogEvents == [kind : CommitKinds \cup {"gtid", "begin", "rows"}, txn : Nat, file : Nat \ {0}, end : Nat,
              table : Tables, drop : BOOLEAN]

\* Positions grow along the log, and a rotate event is the last of its file.
PositionsGrow(l) ==
    \A i \in DOMAIN l :
        /\ l[i].end > FileStart
        /\ \A j \in DOMAIN l : i < j =>
               \/ l[i].file < l[j].file
               \/ l[i].file = l[j].file /\ l[i].kind # "rotate" /\ l[i].end < l[j].end

\* The events of a transaction follow its GTID event and end with its commit, and
\* unless the source writes no GTIDs, every change has one.
TxnsWhole(l) ==
    /\ \A i, k, j \in DOMAIN l :
          i <= k /\ k < j /\ l[k].kind \in CommitKinds /\ l[i].txn = l[j].txn => l[i].txn = NoTxn
    /\ \A i \in DOMAIN l : l[i].txn # NoTxn =>
          \E g \in 1..i : l[g].kind = "gtid" /\ l[g].txn = l[i].txn
    /\ (\E i \in DOMAIN l : l[i].txn # NoTxn) =>
          \A i \in DOMAIN l : l[i].kind # "rotate" => l[i].txn # NoTxn
    /\ l[Len(l)].kind \in CommitKinds

ASSUME SetupsAssumption ==
    \A s \in Setups :
        /\ s.log \in Seq(LogEvents) /\ s.log # <<>>
        /\ PositionsGrow(s.log) /\ TxnsWhole(s.log)

ASSUME BoundsAssumption == MaxStarts \in Nat /\ MaxCalls \in Nat

-----------------------------------------------------------------------------
NoTables == [t \in Tables |-> NoTable]
NoDump == [pos |-> NoPos, gset |-> Nil, snap |-> 0, todo |-> {}]

Init ==
    /\ cfg \in Setups
    /\ log = cfg.log
    /\ head = 0
    /\ pc = "down"
    /\ wanted = {} /\ resend = FALSE /\ last = 0
    /\ work = <<>> /\ curr = Nil
    /\ pos = NoPos /\ gset = Nil
    /\ tables = NoTables /\ errorTablesGetTime = {} /\ conn = FALSE
    /\ h = NoDump
    /\ wpc = "no" /\ wat = 0
    /\ cpc = "no" /\ cl = NoPoint
    /\ saved = NoPoint
    /\ applied = {} /\ dropped = {} /\ starts = 0 /\ calls = 0

-----------------------------------------------------------------------------
(***************************************************************************)
(* The source and the application.                                         *)
(***************************************************************************)
\* A transaction, a statement or a rotation is committed as a whole.
CommitPoint(i) == log[i].kind \in CommitKinds

Commit ==
    /\ head < Len(log)
    /\ head' = Min({i \in DOMAIN log : i > head /\ CommitPoint(i)})
    /\ UNCHANGED <<deliveryVars, cfg, pc, runVars, masterVars, tableVars, h, waitVars, closeVars, appVars>>

\* The process ends, at any point, and what it had in memory is lost.
Crash ==
    /\ pc # "down"
    /\ pc' = "down"
    /\ wanted' = {} /\ resend' = FALSE /\ last' = 0
    /\ work' = <<>> /\ curr' = Nil
    /\ pos' = NoPos /\ gset' = Nil
    /\ tables' = NoTables /\ errorTablesGetTime' = {} /\ conn' = FALSE
    /\ h' = NoDump
    /\ wpc' = "no" /\ wat' = 0
    /\ cpc' = "no" /\ cl' = NoPoint
    /\ UNCHANGED <<log, cfg, head, appVars>>

\* The application's OnPosSynced.
OnPosSynced(p, g, force) ==
    \/ saved' = [pos |-> p, gset |-> g]
    \/ ~force /\ UNCHANGED saved

-----------------------------------------------------------------------------
(***************************************************************************)
(* Run, RunFrom and StartFromGTID, up to the first event.                  *)
(***************************************************************************)
\* tryDump
SkipsDump(p, g) == (p.Name > 0 /\ p.Pos > 0) \/ g \notin {Nil, {}} \/ ~cfg.dumper

\* checkBinlogRowFormat has connected.
NewCanal ==
    /\ conn' = TRUE
    /\ tables' = NoTables
    /\ errorTablesGetTime' = {}

Launch ==
    /\ pc = "down"
    /\ starts < MaxStarts
    /\ NewCanal
    /\ starts' = starts + 1
    /\ pos' = IF cfg.gtid THEN NoPos ELSE saved.pos
    /\ gset' = IF ~cfg.gtid THEN Nil ELSE IF saved.gset = Nil THEN {} ELSE saved.gset
    /\ pc' = IF SkipsDump(pos', gset') THEN "start" ELSE "dump"
    /\ UNCHANGED <<deliveryVars, cfg, head, runVars, h, waitVars, closeVars,
                   saved, applied, dropped, calls>>

\* Faulty variant: connecting does not use the context.
ExecuteSucceedsNoContext == conn' = TRUE

\* Execute, with its three attempts: connecting needs a context that is not done.
ExecuteSucceeds == (conn \/ ~ctxDone) /\ conn' = TRUE
ExecuteFails == conn' \in BOOLEAN /\ (conn' => conn \/ ~ctxDone)

\* A step of run, a callback of the application or a query fails: run returns.
RunFails ==
    /\ pc \notin {"down", "ended"}
    /\ pc' = "ended"
    /\ ExecuteFails
    /\ UNCHANGED <<deliveryVars, cfg, head, runVars, masterVars, tables, errorTablesGetTime, h,
                   waitVars, closeVars, appVars>>

\* GetMasterPos looks at c.conn before Execute has connected: without a
\* connection it panics, which is a Crash.
GetMasterPos == conn /\ ExecuteSucceeds

-----------------------------------------------------------------------------
(***************************************************************************)
(* GetTable and its outcomes.                                              *)
(***************************************************************************)
NotCached(t) == tables[t] = NoTable

GetTable(t) ==
    \/ ~NotCached(t) /\ UNCHANGED tableVars
    \/ /\ NotCached(t) /\ t \notin errorTablesGetTime
       /\ ExecuteSucceeds
       /\ Exists(t, head)
       /\ tables' = [tables EXCEPT ![t] = Version(t, head)]
       /\ UNCHANGED errorTablesGetTime

\* ErrTableNotExist
GetTableNotExist(t) ==
    /\ NotCached(t) /\ t \notin errorTablesGetTime
    /\ ExecuteSucceeds
    /\ ~Exists(t, head)
    /\ UNCHANGED <<tables, errorTablesGetTime>>

\* ErrMissingTableMeta
GetTableMissingMeta(t) ==
    /\ cfg.discard /\ NotCached(t)
    /\ IF t \in errorTablesGetTime THEN UNCHANGED conn ELSE ExecuteFails
    /\ errorTablesGetTime' = errorTablesGetTime \cup {t}
    /\ UNCHANGED tables

\* UnknownTableRetryPeriod is over.
RetryPeriodEnds(t) ==
    /\ t \in errorTablesGetTime
    /\ errorTablesGetTime' = errorTablesGetTime \ {t}
    /\ UNCHANGED <<deliveryVars, cfg, head, pc, runVars, masterVars, tables, conn, h,
                   waitVars, closeVars, appVars>>

\* Faulty variant: only the failed attempts are forgotten.
ClearTableCacheErrors(t) ==
    /\ errorTablesGetTime' = errorTablesGetTime \ {t}
    /\ UNCHANGED <<tables, conn>>

ClearTableCache(t) ==
    /\ tables' = [tables EXCEPT ![t] = NoTable]
    /\ errorTablesGetTime' = errorTablesGetTime \ {t}
    /\ UNCHANGED conn

OnRow(i) == applied' = applied \cup {i} /\ UNCHANGED dropped

DropRow(i) == dropped' = dropped \cup {i} /\ UNCHANGED applied

-----------------------------------------------------------------------------
(***************************************************************************)
(* dump: the point before the dump, then mysqldump's consistent snapshot,  *)
(* whose rows stand for the row events before it.                          *)
(***************************************************************************)
DumpStarts ==
    /\ pc = "dump"
    /\ gset = Nil /\ cfg.skipMasterData => GetMasterPos
    /\ gset # Nil => ExecuteSucceeds
    /\ gset = Nil /\ ~cfg.skipMasterData => UNCHANGED conn
    /\ h' = [h EXCEPT !.gset = IF gset = Nil THEN Nil ELSE Executed(head),
                      !.pos = IF cfg.skipMasterData THEN EndOf(head) ELSE NoPos]
    /\ pc' = "snapshot"
    /\ UNCHANGED <<deliveryVars, cfg, head, runVars, masterVars, tables, errorTablesGetTime,
                   waitVars, closeVars, appVars>>

\* GtidSet, for MySQL only, and BinLog, from the lines at the top of the dump.
DumpSnapshot ==
    /\ pc = "snapshot"
    /\ LET masterData == ~cfg.skipMasterData
       IN  h' = [h EXCEPT !.gset = IF masterData /\ cfg.flavor = "mysql"
                                   THEN (@ \ Nil) \cup Executed(head) ELSE @,
                          !.pos = IF masterData THEN EndOf(head) ELSE @,
                          !.snap = head,
                          !.todo = {i \in Rows : i <= head}]
    /\ pc' = "data"
    /\ UNCHANGED <<deliveryVars, cfg, head, runVars, masterVars, tableVars, waitVars, closeVars, appVars>>

\* Data, for the rows of a table that was in the snapshot.
DumpData ==
    /\ pc = "data" /\ h.todo # {}
    /\ LET i == Min(h.todo)
           t == log[i].table
       IN  /\ h' = [h EXCEPT !.todo = @ \ {i}]
           /\ IF ~Exists(t, h.snap) THEN DropRow(i) /\ UNCHANGED tableVars
              ELSE /\ ~ctxDone
                   /\ \/ GetTable(t) /\ OnRow(i)
                      \/ (GetTableNotExist(t) \/ GetTableMissingMeta(t)) /\ DropRow(i)
    /\ UNCHANGED <<deliveryVars, cfg, head, pc, runVars, masterVars, waitVars, closeVars, saved, starts, calls>>

\* Faulty variant: the position is read when the dump is over.
DumpDoneLate ==
    /\ pc = "data" /\ h.todo = {}
    /\ pos' = EndOf(head)
    /\ gset' = h.gset
    /\ OnPosSynced(pos', gset', TRUE)
    /\ pc' = "start"
    /\ h' = NoDump
    /\ UNCHANGED <<deliveryVars, cfg, head, runVars, tableVars, waitVars, closeVars,
                   applied, dropped, starts, calls>>

DumpDone ==
    /\ pc = "data" /\ h.todo = {}
    /\ pos' = h.pos
    /\ gset' = h.gset
    /\ OnPosSynced(pos', gset', TRUE)
    /\ pc' = "start"
    /\ h' = NoDump
    /\ UNCHANGED <<deliveryVars, cfg, head, runVars, tableVars, waitVars, closeVars,
                   applied, dropped, starts, calls>>

-----------------------------------------------------------------------------
(***************************************************************************)
(* startSyncer and the stream.                                             *)
(***************************************************************************)
FromPos(p) == {i \in DOMAIN log : \/ log[i].file > p.Name
                                  \/ log[i].file = p.Name /\ log[i].end > p.Pos}

FromSet(g) ==
    LET missing == {i \in DOMAIN log : log[i].txn \notin g \cup {NoTxn}}
    IN  {i \in DOMAIN log : \/ i \in missing
                            \/ missing # {} /\ i > Min(missing) /\ log[i].txn = NoTxn}

FileOf(w) == IF w = {} THEN log[Len(log)].file ELSE log[Min(w)].file

\* An event in handleEvent, with the position and the set to save after it.
Item(kind, i, at, g) == [kind |-> kind, index |-> i, at |-> at, gset |-> g]

\* A dump opens with a fake rotate event, ignored when the file is the same.
FakeRotate(at) == IF at.Name = pos.Name THEN <<>> ELSE <<Item("rotate", 0, at, Nil)>>

\* Faulty variant: the position where the event starts.
ItemsStart(i, g) ==
    LET at == [pos EXCEPT !.Pos = IF log[i].kind = "payload" THEN 0 - 1 ELSE log[i].end - 1]
    IN  <<Item(IF log[i].kind = "payload" THEN "xid" ELSE log[i].kind, i, at, g)>>

\* The events of a payload have neither a position nor a set.
Items(i, g) ==
    IF log[i].kind = "payload"
    THEN LET at == [pos EXCEPT !.Pos = 0]
         IN  <<Item("begin", i, at, Nil), Item("rows", i, at, Nil), Item("xid", i, at, Nil)>>
    ELSE <<Item(log[i].kind, i, IF log[i].kind = "rotate" THEN EndOf(i)
                                ELSE [pos EXCEPT !.Pos = log[i].end], g)>>

Handle(items) ==
    /\ work' = items
    /\ pc' = IF items = <<>> THEN "get" ELSE "handle"

StartSyncer ==
    /\ pc = "start" /\ cpc \in {"no", "cancelled"}
    /\ IF gset \in {Nil, {}}
       THEN /\ wanted' = FromPos(pos)
            /\ resend' = FALSE
            /\ curr' = Nil
            /\ Handle(FakeRotate([Name |-> IF pos.Name = 0 THEN log[1].file ELSE pos.Name,
                                  Pos |-> IF pos.Pos < FileStart THEN FileStart ELSE pos.Pos]))
       ELSE /\ wanted' = FromSet(gset)
            /\ resend' = TRUE
            /\ curr' = gset
            /\ Handle(FakeRotate([Name |-> FileOf(FromSet(gset)), Pos |-> FileStart]))
    /\ UNCHANGED <<log, last, cfg, head, masterVars, tableVars, h, waitVars, closeVars, appVars>>

GetEvent ==
    /\ pc = "get"
    /\ After(wanted, last) # {}
    /\ LET i == Min(After(wanted, last))
           g == IF curr = Nil \/ log[i].txn = NoTxn THEN curr ELSE curr \cup {log[i].txn}
       IN  /\ i <= head
           /\ curr' = g
           /\ Handle(Items(i, g))
    /\ Deliver
    /\ UNCHANGED <<cfg, head, masterVars, tableVars, h, waitVars, closeVars, appVars>>

\* The syncer reconnects: the transaction in progress comes again, from its
\* GTID event on.
StreamReconnects ==
    /\ pc = "get"
    /\ Repeat
    /\ LET i == RepeatFrom(wanted, last)
       IN  Handle(FakeRotate([Name |-> log[i].file, Pos |-> FileStart]) \o Items(i, curr))
    /\ UNCHANGED <<cfg, head, curr, masterVars, tableVars, h, waitVars, closeVars, appVars>>

GetEventCancelled ==
    /\ pc = "get" /\ ctxDone
    /\ pc' = "ended"
    /\ UNCHANGED <<deliveryVars, cfg, head, runVars, masterVars, tableVars, h, waitVars, closeVars, appVars>>

-----------------------------------------------------------------------------
(***************************************************************************)
(* handleEvent.                                                            *)
(***************************************************************************)
Handling(kinds) == pc = "handle" /\ Head(work).kind \in kinds

NextItem == Handle(Tail(work))

\* OnGTID; a query that the parser does not understand.
HandleOther ==
    /\ Handling({"gtid", "badquery"})
    /\ NextItem
    /\ UNCHANGED <<deliveryVars, cfg, head, curr, masterVars, tableVars, h, waitVars, closeVars, appVars>>

HandleRows ==
    /\ Handling({"rows"})
    /\ LET i == Head(work).index
           t == log[i].table
       IN  \/ t \in Excluded /\ UNCHANGED <<tableVars, applied, dropped>>
           \/ t \notin Excluded /\ GetTable(t) /\ OnRow(i)
           \/ t \notin Excluded /\ (GetTableNotExist(t) \/ GetTableMissingMeta(t)) /\ DropRow(i)
    /\ NextItem
    /\ UNCHANGED <<deliveryVars, cfg, head, curr, masterVars, h, waitVars, closeVars, saved, starts, calls>>

\* UpdateGTIDSet and Update of masterInfo.
UpdateMaster ==
    /\ gset' = IF Head(work).gset = Nil THEN gset ELSE Head(work).gset
    /\ pos' = Head(work).at
    /\ pc' = "synced"

\* OnXID, or a statement that changes no table.
HandleCommit ==
    /\ Handling({"xid", "begin"})
    /\ UpdateMaster
    /\ UNCHANGED <<deliveryVars, cfg, head, runVars, tableVars, h, waitVars, closeVars, appVars>>

\* OnRotate
HandleRotate ==
    /\ Handling({"rotate"})
    /\ pos' = Head(work).at
    /\ pc' = "synced"
    /\ UNCHANGED <<deliveryVars, cfg, head, runVars, gset, tableVars, h, waitVars, closeVars, appVars>>

\* updateTable, OnTableChanged and OnDDL.
HandleDDL ==
    /\ Handling({"ddl"})
    /\ ClearTableCache(log[Head(work).index].table)
    /\ UpdateMaster
    /\ UNCHANGED <<deliveryVars, cfg, head, runVars, h, waitVars, closeVars, appVars>>

PosSynced ==
    /\ pc = "synced"
    /\ OnPosSynced(pos, gset, Head(work).kind \in {"rotate", "ddl"})
    /\ NextItem
    /\ UNCHANGED <<deliveryVars, cfg, head, curr, masterVars, tableVars, h, waitVars, closeVars,
                   applied, dropped, starts, calls>>

-----------------------------------------------------------------------------
(***************************************************************************)
(* CatchMasterPos and Close, called by other goroutines of the process.    *)
(***************************************************************************)
CatchMasterPos ==
    /\ pc # "down" /\ wpc = "no"
    /\ calls < MaxCalls /\ calls' = calls + 1
    /\ GetMasterPos
    /\ wpc' = "wait" /\ wat' = head
    /\ UNCHANGED <<deliveryVars, cfg, head, pc, runVars, masterVars, tables, errorTablesGetTime, h,
                   closeVars, saved, applied, dropped, starts>>

\* Faulty variant: only the names of the files are compared.
WaitUntilPosByName ==
    /\ wpc = "wait"
    /\ pos.Name >= EndOf(wat).Name
    /\ wpc' = "ok"
    /\ UNCHANGED <<deliveryVars, cfg, head, pc, runVars, masterVars, tableVars, h, wat, closeVars, appVars>>

WaitUntilPos ==
    /\ wpc = "wait"
    /\ Compare(pos, EndOf(wat))
    /\ wpc' = "ok"
    /\ UNCHANGED <<deliveryVars, cfg, head, pc, runVars, masterVars, tableVars, h, wat, closeVars, appVars>>

\* The timeout, or FlushBinlog fails.
WaitUntilPosFails ==
    /\ wpc = "wait"
    /\ ExecuteFails
    /\ wpc' = "no" /\ wat' = 0
    /\ UNCHANGED <<deliveryVars, cfg, head, pc, runVars, masterVars, tables, errorTablesGetTime, h,
                   closeVars, appVars>>

CloseCancels ==
    /\ pc # "down" /\ cpc = "no"
    /\ calls < MaxCalls /\ calls' = calls + 1
    /\ cpc' = "cancelled"
    /\ UNCHANGED <<deliveryVars, cfg, head, pc, runVars, masterVars, tableVars, h, waitVars, cl,
                   saved, applied, dropped, starts>>

CloseConn ==
    /\ cpc = "cancelled"
    /\ cpc' = "closed"
    /\ conn' = FALSE
    /\ UNCHANGED <<deliveryVars, cfg, head, pc, runVars, masterVars, tables, errorTablesGetTime, h,
                   waitVars, cl, appVars>>

\* Only one of the two is used by the application, so they are read together.
CloseReads ==
    /\ cpc = "closed"
    /\ cpc' = "read"
    /\ cl' = [pos |-> pos, gset |-> gset]
    /\ UNCHANGED <<deliveryVars, cfg, head, pc, runVars, masterVars, tableVars, h, waitVars, appVars>>

CloseSaves ==
    /\ cpc = "read"
    /\ cpc' = "done"
    /\ OnPosSynced(cl.pos, cl.gset, TRUE)
    /\ cl' = NoPoint
    /\ UNCHANGED <<deliveryVars, cfg, head, pc, runVars, masterVars, tableVars, h, waitVars,
                   applied, dropped, starts, calls>>

-----------------------------------------------------------------------------
Run ==
    \/ DumpStarts \/ DumpSnapshot \/ DumpData \/ DumpDone
    \/ StartSyncer \/ StreamReconnects \/ GetEvent \/ GetEventCancelled
    \/ HandleOther \/ HandleRows \/ HandleCommit \/ HandleRotate \/ HandleDDL \/ PosSynced

Closing == CloseCancels \/ CloseConn \/ CloseReads \/ CloseSaves

Next ==
    \/ Commit \/ Launch \/ Crash \/ RunFails
    \/ Run \/ Closing
    \/ CatchMasterPos \/ WaitUntilPos \/ WaitUntilPosFails
    \/ \E t \in Tables : RetryPeriodEnds(t)

Spec == Init /\ [][Next]_vars

-----------------------------------------------------------------------------
(***************************************************************************)
(* Properties.                                                             *)
(***************************************************************************)
\* The values each variable ranges over.
TypeOK ==
    /\ head \in 0..Len(log) /\ last \in 0..Len(log) /\ wanted \subseteq DOMAIN log
    /\ pc \in {"down", "dump", "snapshot", "data", "start", "get", "handle",
               "synced", "ended"}
    /\ pos \in [Name : Nat, Pos : Nat]
    /\ tables \in [Tables -> Nat \cup {NoTable}]
    /\ errorTablesGetTime \subseteq Tables
    /\ conn \in BOOLEAN
    /\ wpc \in {"no", "wait", "ok"}
    /\ cpc \in {"no", "cancelled", "closed", "read", "done"}
    /\ applied \subseteq DOMAIN log /\ dropped \subseteq DOMAIN log
    /\ starts \in 0..MaxStarts /\ calls \in 0..MaxCalls

\* The source does not send the row event again after a restart.
Skipped(i) ==
    IF cfg.gtid THEN saved.gset # Nil /\ log[i].txn \in saved.gset
    ELSE Compare(saved.pos, EndOf(i))

\* However the process ends, a Canal started from the stored position or set
\* gets every row that was not handed to OnRow before: "For RowsEvent, we
\* can't save the position until meeting XIDEvent which tells the whole
\* transaction is over."
NoRowLost == \A i \in Rows : Skipped(i) => i \in applied \cup dropped

\* When CatchMasterPos has returned, every row that was committed when it was
\* called has been handed to OnRow.
CaughtUp == wpc = "ok" => \A i \in Rows : i <= wat => i \in applied \cup dropped

\* A row is never handed over with a definition of its table older than the
\* one it was written with: updateTable clears the cache in time.
RowSchemaFresh ==
    [][\A i \in applied' \ applied :
         tables'[log[i].table] >= Version(log[i].table, IF pc = "data" THEN h.snap ELSE i)]_vars

\* Close leaves no connection behind, although other goroutines may be in
\* Execute, which connects when there is none.
NoConnAfterClose == cpc \in {"closed", "read", "done"} => ~conn

\* The Canal is well typed, and closed for good once Close is past its lock
\* (TypeOK and NoConnAfterClose).
CanalConsistent == TypeOK /\ NoConnAfterClose
=============================================================================
