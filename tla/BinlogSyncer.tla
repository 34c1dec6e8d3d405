---------------------------- MODULE BinlogSyncer ----------------------------
(***************************************************************************)
(* BinlogSyncer and BinlogStreamer (src/replication/binlogsyncer.go,       *)
(* binlogstreamer.go): StartSync, StartSyncGTID, the onStream goroutine    *)
(* with its reconnect loop, the consumer's GetEvent, and Close.            *)
(*                                                                         *)
(* The source server is external: it has a log and, on a dump command,     *)
(* sends an artificial rotate event with the starting point and then every *)
(* event from there on (StartSync) or every transaction the GTID set does  *)
(* not cover (StartSyncGTID).  What is on the wire when a connection       *)
(* breaks is lost, so a connection is the set of events not read yet.      *)
(* Names of log files are numbers; 0 is the empty name.                    *)
(***************************************************************************)
EXTENDS BinlogDelivery

CONSTANTS
    Configs,                 \* configurations of a syncer, with the source's log
                             \* and the arguments it may be started with
    Tags,                    \* tags of MySQL GTIDs, "" where there is none
    PosModulus,              \* positions are uint32: 2^32
    MaxFaults                \* bound on broken connections and failed reconnects

VARIABLE cfg                 \* the configuration; never changes

Flavor == cfg.Flavor         \* "mysql" or "mariadb"
DisableRetrySync == cfg.DisableRetrySync
MaxReconnectAttempts == cfg.MaxReconnectAttempts
FillZeroLogPos == cfg.FillZeroLogPos
SemiSyncEnabled == cfg.SemiSyncEnabled
SyncHandler == cfg.SyncHandler            \* SynchronousEventHandler is set
EventCacheCount == cfg.EventCacheCount
StartPositions == cfg.StartPositions      \* arguments of StartSync
StartSets == cfg.StartSets                \* arguments of StartSyncGTID
LateSets == cfg.LateSets                  \* the same on a running syncer

NoTxn == [dom |-> 0, tag |-> "", gno |-> 0]
Nil == {NoTxn}               \* the nil GTIDSet

FileStart == 4
EchCap == 4                  \* make(chan error, 4)

\* A transaction as its GTID event names it: source or domain, tag, number.
GTIDs == [dom : Nat, tag : Tags, gno : Nat]

LogEvents ==
    [kind : {"gtid", "query", "xid", "rotate"}, txn : GTIDs, file : Nat,
     end : 0..PosModulus - 1, size : Nat, zero : BOOLEAN]

ASSUME SyncerAssumption == PosModulus \in Nat /\ PosModulus > FileStart /\ MaxFaults \in Nat

ASSUME TagAssumption == "" \in Tags

ASSUME ConfigAssumption ==
    \A c \in Configs :
        /\ c.Flavor \in {"mysql", "mariadb"}
        /\ {c.DisableRetrySync, c.FillZeroLogPos, c.SemiSyncEnabled, c.SyncHandler} \subseteq BOOLEAN
        /\ c.MaxReconnectAttempts \in Nat /\ c.EventCacheCount \in Nat \ {0}
        /\ c.log \in Seq(LogEvents) /\ c.log # <<>>
        /\ c.StartPositions \subseteq [Name : Nat, Pos : 0..PosModulus - 1]
        /\ \A g \in c.StartSets \cup c.LateSets : g \subseteq GTIDs /\ NoTxn \notin g

VARIABLES
    m,             \* holder of the mutex: "free", "stream" or "close"
    spc,           \* where onStream is
    ev,            \* the event in handleEventAndACK: a log index, 0 for the artificial rotate
    conn,          \* the dump in progress: is it up, is the artificial rotate
                   \*   still to come, where it points to, log indices still to come
    nextPos,
    prevGset, currGset,
    prevMySQLGTIDEvent,
    running,
    retryCount,
    ch, ech, err,  \* the BinlogStreamer
    call,          \* the GTID set of a StartSyncGTID that waits for the mutex
    cpc,           \* Close: "no", "lock", "wait", "done"
    acked,         \* the last log index acknowledged to the source
    faults

syncVars == <<nextPos, prevGset, currGset, prevMySQLGTIDEvent>>
streamerVars == <<ch, ech, err>>
vars == <<cfg, log, wanted, resend, last, m, spc, ev, conn, nextPos, prevGset, currGset,
          prevMySQLGTIDEvent, running, retryCount, ch, ech, err, call, cpc, acked, faults>>

ctxDone == cpc \in {"wait", "done"}

Init ==
    /\ cfg \in Configs /\ log = cfg.log
    /\ DeliveryInit
    /\ m = "free" /\ spc = "none" /\ ev = 0
    /\ conn = [up |-> FALSE, hello |-> FALSE, at |-> [Name |-> 0, Pos |-> 0], todo |-> {}]
    /\ nextPos = [Name |-> 0, Pos |-> 0]
    /\ prevGset = Nil /\ currGset = Nil /\ prevMySQLGTIDEvent = NoTxn
    /\ running = FALSE /\ retryCount = 0
    /\ ch = <<>> /\ ech = <<>> /\ err = "none"
    /\ call = Nil /\ cpc = "no" /\ acked = 0 /\ faults = 0

-----------------------------------------------------------------------------
(***************************************************************************)
(* The source server.                                                      *)
(***************************************************************************)
GtidIndex(t) == CHOOSE i \in DOMAIN log : log[i].kind = "gtid" /\ log[i].txn = t

\* A MySQL set contains the transaction; a MariaDB set holds, for the
\* transaction's domain, the position of it or of a later one.
Covered(g, t) ==
    IF Flavor = "mysql" THEN t \in g
    ELSE \E u \in g : u.dom = t.dom /\ GtidIndex(t) <= GtidIndex(u)

DumpPos(p) ==
    [up |-> TRUE, hello |-> TRUE, at |-> p,
     todo |-> {i \in DOMAIN log : \/ log[i].file > p.Name
                                  \/ log[i].file = p.Name /\ log[i].end > p.Pos}]

Missing(g) ==
    LET first == {i \in DOMAIN log : log[i].kind = "gtid" /\ ~Covered(g, log[i].txn)}
    IN  {i \in DOMAIN log : /\ first # {} /\ i >= Min(first)
                            /\ log[i].kind = "rotate" \/ ~Covered(g, log[i].txn)}

DumpGTID(g) ==
    [up |-> TRUE, hello |-> TRUE, todo |-> Missing(g),
     at |-> [Name |-> IF Missing(g) = {} THEN log[Len(log)].file ELSE log[Min(Missing(g))].file,
             Pos |-> FileStart]]

ConnBreaks ==
    /\ conn.up
    /\ faults < MaxFaults
    /\ faults' = faults + 1
    /\ conn' = [conn EXCEPT !.up = FALSE]
    /\ UNCHANGED <<deliveryVars, m, spc, ev, syncVars, running, retryCount,
                   streamerVars, call, cpc, acked>>

-----------------------------------------------------------------------------
(***************************************************************************)
(* Starting.  A StartSync that fails to connect changes nothing; a         *)
(* StartSyncGTID writes prevGset before it takes the mutex.  Only a call   *)
(* on a running syncer overlaps with another one.                          *)
(***************************************************************************)
\* prepare: refused once the syncer is closed.
prepare == ~ctxDone

\* registerSlave replaces the connection, on which the dump is then requested.
registerSlave(dump) == conn' = dump

Clamp(p) == IF p.Pos < FileStart THEN [p EXCEPT !.Pos = FileStart] ELSE p

startDumpStream(dump, again) ==
    /\ registerSlave(dump)
    /\ wanted' = dump.todo
    /\ resend' = again
    /\ running' = TRUE
    /\ spc' = "read"
    /\ UNCHANGED <<log, last, m, ev, retryCount, streamerVars, cpc, acked, faults>>

StartSync(p) ==
    /\ call = Nil
    /\ m = "free" /\ ~running /\ prepare
    /\ startDumpStream(DumpPos(Clamp(p)), FALSE)
    /\ UNCHANGED <<syncVars, call>>

StartSyncGTIDWrites(g) ==
    /\ call = Nil
    /\ g \in IF running THEN LateSets ELSE StartSets
    /\ call' = g
    /\ prevMySQLGTIDEvent' = NoTxn
    /\ prevGset' = g
    /\ UNCHANGED <<deliveryVars, m, spc, ev, conn, nextPos, currGset, running,
                   retryCount, streamerVars, cpc, acked, faults>>

StartSyncGTID ==
    /\ call # Nil
    /\ m = "free" /\ ~running /\ prepare
    /\ currGset' = Nil
    /\ call' = Nil
    /\ startDumpStream(DumpGTID(call), TRUE)
    /\ UNCHANGED <<nextPos, prevGset, prevMySQLGTIDEvent>>

\* errSyncRunning, ErrSyncClosed, or the connection could not be set up.
StartSyncGTIDFails ==
    /\ call # Nil
    /\ m = "free"
    /\ call' = Nil
    /\ currGset' = IF running THEN currGset ELSE Nil
    /\ UNCHANGED <<deliveryVars, m, spc, ev, conn, nextPos, prevGset, prevMySQLGTIDEvent,
                   running, retryCount, streamerVars, cpc, acked, faults>>

-----------------------------------------------------------------------------
(***************************************************************************)
(* onStream.                                                               *)
(***************************************************************************)
\* Faulty variant: the error channel has no buffer.
closeWithErrorUnbuffered(e) ==
    /\ spc' = "exit"
    /\ UNCHANGED <<ch, ech, err>>

\* closeWithError: dropped when the error channel is full.
closeWithError(e) ==
    /\ spc' = "exit"
    /\ ech' = IF Len(ech) < EchCap THEN Append(ech, e) ELSE ech
    /\ UNCHANGED <<ch, err>>

\* ReadPacket returns, with data or with an error, and the context is done.
ReadClosed ==
    /\ spc = "read" /\ ctxDone
    /\ closeWithError("closed")
    /\ UNCHANGED <<deliveryVars, m, ev, conn, syncVars, running, retryCount, call, cpc, acked, faults>>

ReadFails ==
    /\ spc = "read" /\ ~conn.up /\ ~ctxDone
    /\ IF (nextPos.Name = 0 /\ prevGset = Nil) \/ DisableRetrySync
       THEN closeWithError("conn")
       ELSE spc' = "backoff" /\ UNCHANGED streamerVars
    /\ UNCHANGED <<deliveryVars, m, ev, conn, syncVars, running, retryCount, call, cpc, acked, faults>>

\* An error packet, or an event that parseEvent refuses.
ReadErrorPacket ==
    /\ spc = "read" /\ conn.up /\ ~ctxDone
    /\ retryCount' = 0
    /\ closeWithError("server")
    /\ UNCHANGED <<deliveryVars, m, ev, conn, syncVars, running, call, cpc, acked, faults>>

ReadArtificialRotate ==
    /\ spc = "read" /\ conn.up /\ ~ctxDone
    /\ conn.hello
    /\ conn' = [conn EXCEPT !.hello = FALSE]
    /\ nextPos' = conn.at
    /\ ev' = 0
    /\ retryCount' = 0
    /\ spc' = "put"
    /\ UNCHANGED <<deliveryVars, m, prevGset, currGset, prevMySQLGTIDEvent, running,
                   streamerVars, call, cpc, acked, faults>>

\* handleEventAndACK: header.LogPos, or the position computed for MariaDB
\* events that have none.
PosAfter(e) ==
    IF ~e.zero THEN e.end
    ELSE IF FillZeroLogPos /\ Flavor = "mariadb" THEN (nextPos.Pos + e.size) % PosModulus
    ELSE nextPos.Pos

PosAfterEvent(e) ==
    IF e.kind = "rotate" THEN [Name |-> e.file + 1, Pos |-> FileStart]
    ELSE [nextPos EXCEPT !.Pos = PosAfter(e)]

\* MysqlGTIDSet.AddGTID and AddGTIDWithTag; MariadbGTIDSet.AddSet.
AddGTID(g, t) == g \cup {[t EXCEPT !.tag = ""]}
AddGTIDWithTag(g, t) == g \cup {t}
AddSet(g, t) == {u \in g : u.dom # t.dom} \cup {t}

CurrOrPrev == IF currGset = Nil THEN prevGset ELSE currGset

\* Faulty variant: the transaction that begins counts as done.
HandleMySQLGTIDEager(t) ==
    /\ currGset' = AddGTIDWithTag(CurrOrPrev, t)
    /\ prevGset' = AddGTIDWithTag(prevGset, t)
    /\ prevMySQLGTIDEvent' = t

HandleMySQLGTID(t) ==
    /\ currGset' = AddGTIDWithTag(CurrOrPrev, t)
    /\ prevGset' = IF prevMySQLGTIDEvent = NoTxn THEN prevGset
                   ELSE IF t.tag = "" THEN AddGTID(prevGset, prevMySQLGTIDEvent)
                   ELSE AddGTIDWithTag(prevGset, prevMySQLGTIDEvent)
    /\ prevMySQLGTIDEvent' = t

HandleMariadbGTID(t) ==
    /\ currGset' = AddSet(CurrOrPrev, t)
    /\ prevGset' = IF AddSet(CurrOrPrev, t) = CurrOrPrev THEN prevGset ELSE CurrOrPrev
    /\ UNCHANGED prevMySQLGTIDEvent

HandleGTIDs(e) ==
    IF e.kind # "gtid" \/ prevGset = Nil
    THEN UNCHANGED <<prevGset, currGset, prevMySQLGTIDEvent>>
    ELSE IF Flavor = "mysql" THEN HandleMySQLGTID(e.txn) ELSE HandleMariadbGTID(e.txn)

\* Faulty variant: the event is acknowledged when it is read.
ReadEventAcks ==
    /\ spc = "read" /\ conn.up /\ ~ctxDone
    /\ ~conn.hello /\ conn.todo # {}
    /\ LET i == Min(conn.todo)
       IN  /\ conn' = [conn EXCEPT !.todo = @ \ {i}]
           /\ nextPos' = PosAfterEvent(log[i])
           /\ HandleGTIDs(log[i])
           /\ ev' = i
           /\ acked' = i
    /\ retryCount' = 0
    /\ spc' = "put"
    /\ UNCHANGED <<deliveryVars, m, running, streamerVars, call, cpc, faults>>

ReadEvent ==
    /\ spc = "read" /\ conn.up /\ ~ctxDone
    /\ ~conn.hello /\ conn.todo # {}
    /\ LET i == Min(conn.todo)
           e == log[i]
       IN  /\ conn' = [conn EXCEPT !.todo = @ \ {i},
                                   !.hello = (e.kind = "rotate"),
                                   !.at = [Name |-> e.file + 1, Pos |-> FileStart]]
           /\ nextPos' = PosAfterEvent(e)
           /\ HandleGTIDs(e)
           /\ ev' = i
    /\ retryCount' = 0
    /\ spc' = "put"
    /\ UNCHANGED <<deliveryVars, m, running, streamerVars, call, cpc, acked, faults>>

\* Faulty variant: the set without the event's own transaction.
GSetOfPrev(i) == IF i # 0 /\ log[i].kind \in {"xid", "query"} THEN prevGset ELSE Nil

\* What the event carries in its GSet field.
GSetOf(i) == IF i # 0 /\ log[i].kind \in {"xid", "query"} THEN currGset ELSE Nil

HandedOver ==
    /\ last' = IF ev = 0 THEN last ELSE ev
    /\ spc' \in {"read"} \cup (IF SemiSyncEnabled THEN {"ack"} ELSE {})
    /\ UNCHANGED <<log, wanted, resend, m, ev, conn, syncVars, running, retryCount, ech, err,
                   call, cpc, acked, faults>>

\* Faulty variant: the channel's capacity is not respected.
PutEventUnbounded ==
    /\ spc = "put"
    /\ ~SyncHandler
    /\ ch' = Append(ch, [index |-> ev, gset |-> GSetOf(ev)])
    /\ HandedOver

PutEvent ==
    /\ spc = "put"
    /\ ~SyncHandler
    /\ Len(ch) < EventCacheCount
    /\ ch' = Append(ch, [index |-> ev, gset |-> GSetOf(ev)])
    /\ HandedOver

PutClosed ==
    /\ spc = "put" /\ ctxDone
    /\ ~SyncHandler
    /\ closeWithError("closed")
    /\ UNCHANGED <<deliveryVars, m, ev, conn, syncVars, running, retryCount, call, cpc, acked, faults>>

HandleEvent == spc = "put" /\ SyncHandler /\ HandedOver /\ UNCHANGED ch

HandleEventFails ==
    /\ spc = "put" /\ SyncHandler
    /\ closeWithError("handler")
    /\ UNCHANGED <<deliveryVars, m, ev, conn, syncVars, running, retryCount, call, cpc, acked, faults>>

\* replySemiSyncACK: writing to a broken connection may fail.
ReplySemiSyncACK ==
    /\ spc = "ack"
    /\ spc' = "read"
    /\ acked' = IF ev = 0 THEN acked ELSE ev
    /\ UNCHANGED <<deliveryVars, m, ev, conn, syncVars, running, retryCount, streamerVars,
                   call, cpc, faults>>

ReplySemiSyncACKFails ==
    /\ spc = "ack" /\ ~conn.up
    /\ closeWithError("ack")
    /\ UNCHANGED <<deliveryVars, m, ev, conn, syncVars, running, retryCount, call, cpc, acked, faults>>

-----------------------------------------------------------------------------
(***************************************************************************)
(* The reconnect loop of onStream.  Its select picks either case when both *)
(* are ready.                                                              *)
(***************************************************************************)
BackoffClosed ==
    /\ spc = "backoff" /\ ctxDone
    /\ closeWithError("closed")
    /\ UNCHANGED <<deliveryVars, m, ev, conn, syncVars, running, retryCount, call, cpc, acked, faults>>

BackoffTimer ==
    /\ spc = "backoff"
    /\ retryCount' = retryCount + 1
    /\ spc' = "lock"
    /\ UNCHANGED <<deliveryVars, m, ev, conn, syncVars, running, streamerVars, call, cpc, acked, faults>>

\* Faulty variant: retrySync keeps the GTID event of the broken connection.
RetryLocksKeepsGTID ==
    /\ spc = "lock" /\ m = "free"
    /\ m' = "stream"
    /\ spc' = "retry"
    /\ currGset' = IF prevGset = Nil THEN currGset ELSE Nil
    /\ UNCHANGED <<deliveryVars, ev, conn, nextPos, prevGset, prevMySQLGTIDEvent, running,
                   retryCount, streamerVars, call, cpc, acked, faults>>

RetryLocks ==
    /\ spc = "lock" /\ m = "free"
    /\ m' = "stream"
    /\ spc' = "retry"
    /\ prevMySQLGTIDEvent' = NoTxn
    /\ currGset' = IF prevGset = Nil THEN currGset ELSE Nil
    /\ UNCHANGED <<deliveryVars, ev, conn, nextPos, prevGset, running, retryCount, streamerVars,
                   call, cpc, acked, faults>>

RetrySync ==
    /\ spc = "retry" /\ prepare
    /\ m' = "free"
    /\ spc' = "read"
    /\ registerSlave(IF prevGset # Nil THEN DumpGTID(prevGset) ELSE DumpPos(Clamp(nextPos)))
    /\ UNCHANGED <<deliveryVars, ev, syncVars, running, retryCount, streamerVars, call, cpc, acked, faults>>

\* Faulty variant: the mutex is not released on the error path.
RetrySyncFailsKeepsLock ==
    /\ spc = "retry"
    /\ faults < MaxFaults
    /\ faults' = faults + 1
    /\ spc' = "backoff"
    /\ UNCHANGED <<deliveryVars, m, ev, conn, syncVars, running, retryCount, streamerVars,
                   call, cpc, acked>>

RetrySyncFails ==
    /\ spc = "retry"
    /\ faults < MaxFaults
    /\ faults' = faults + 1
    /\ m' = "free"
    /\ IF MaxReconnectAttempts > 0 /\ retryCount >= MaxReconnectAttempts
       THEN closeWithError("giveup")
       ELSE spc' = "backoff" /\ UNCHANGED streamerVars
    /\ UNCHANGED <<deliveryVars, ev, conn, syncVars, running, retryCount, call, cpc, acked>>

-----------------------------------------------------------------------------
(***************************************************************************)
(* The consumer.  GetEvent picks an event or an error when both are there. *)
(***************************************************************************)
GetEvent ==
    /\ err = "none" /\ ch # <<>>
    /\ ch' = Tail(ch)
    /\ UNCHANGED <<deliveryVars, m, spc, ev, conn, syncVars, running, retryCount, ech, err,
                   call, cpc, acked, faults>>

GetError ==
    /\ err = "none" /\ ech # <<>>
    /\ err' = Head(ech)
    /\ ech' = Tail(ech)
    /\ UNCHANGED <<deliveryVars, m, spc, ev, conn, syncVars, running, retryCount, ch,
                   call, cpc, acked, faults>>

DumpEvents ==
    /\ err # "none" /\ ch # <<>>
    /\ ch' = <<>>
    /\ UNCHANGED <<deliveryVars, m, spc, ev, conn, syncVars, running, retryCount, ech, err,
                   call, cpc, acked, faults>>

-----------------------------------------------------------------------------
(***************************************************************************)
(* Close holds the mutex until onStream has returned.                      *)
(***************************************************************************)
CloseCalled ==
    /\ cpc = "no"
    /\ cpc' = "lock"
    /\ UNCHANGED <<deliveryVars, m, spc, ev, conn, syncVars, running, retryCount, streamerVars,
                   call, acked, faults>>

CloseLocks ==
    /\ cpc = "lock" /\ m = "free"
    /\ m' = "close"
    /\ cpc' = "wait"
    /\ running' = FALSE
    /\ UNCHANGED <<deliveryVars, spc, ev, conn, syncVars, retryCount, streamerVars, call, acked, faults>>

CloseReturns ==
    /\ cpc = "wait"
    /\ spc \in {"none", "exit"}
    /\ m' = "free"
    /\ cpc' = "done"
    /\ conn' = [conn EXCEPT !.up = FALSE]
    /\ UNCHANGED <<deliveryVars, spc, ev, syncVars, running, retryCount, streamerVars, call, acked, faults>>

-----------------------------------------------------------------------------
StreamStep ==
    \/ ReadClosed \/ ReadFails \/ ReadArtificialRotate \/ ReadEvent
    \/ PutEvent \/ PutClosed \/ HandleEvent \/ ReplySemiSyncACK \/ ReplySemiSyncACKFails
    \/ BackoffClosed \/ BackoffTimer \/ RetryLocks \/ RetrySync \/ RetrySyncFails

StreamFailure == ReadErrorPacket \/ HandleEventFails

Consumer == GetEvent \/ GetError \/ DumpEvents

Starting ==
    \/ \E p \in StartPositions : StartSync(p)
    \/ \E g \in StartSets \cup LateSets : StartSyncGTIDWrites(g)
    \/ StartSyncGTID \/ StartSyncGTIDFails

Closing == CloseLocks \/ CloseReturns

Next ==
    /\ Starting \/ ConnBreaks \/ StreamStep \/ StreamFailure \/ Consumer \/ CloseCalled \/ Closing
    /\ UNCHANGED cfg

Spec == Init /\ [][Next]_vars
(***************************************************************************)
(* Fairness: the goroutines that can run do run.  That the consumer keeps  *)
(* calling GetEvent is assumed only where everything is to be delivered.   *)
(***************************************************************************)
FairSpec == Spec /\ WF_vars(StreamStep /\ UNCHANGED cfg) /\ WF_vars(Closing /\ UNCHANGED cfg)

FairConsumerSpec == FairSpec /\ WF_vars(Consumer /\ UNCHANGED cfg)

-----------------------------------------------------------------------------
(***************************************************************************)
(* What a source and a caller do in practice, on which the properties of   *)
(* the resume point rest.                                                  *)
(***************************************************************************)
\* The position after the first k events of log l.
PositionAfter(l, k) ==
    IF k = 0 THEN [Name |-> l[1].file, Pos |-> FileStart]
    ELSE IF l[k].kind = "rotate" THEN [Name |-> l[k].file + 1, Pos |-> FileStart]
    ELSE [Name |-> l[k].file, Pos |-> l[k].end]

\* Positions grow, an event is in the file the one before it leaves off in, and
\* an event without LogPos ends where its size says.
PositionsGrow(l) ==
    \A i \in DOMAIN l :
        /\ l[i].file > 0 /\ l[i].end > FileStart
        /\ l[i].file = PositionAfter(l, i - 1).Name
        /\ l[i].zero => l[i].end = PositionAfter(l, i - 1).Pos + l[i].size
        /\ \A j \in DOMAIN l : i < j =>
               l[i].file < l[j].file \/ (l[i].file = l[j].file /\ l[i].end < l[j].end)

\* No two transactions have the same GTID, and an event that is not a rotate
\* event belongs to the transaction of the GTID event before it.
TxnsInOrder(l) ==
    /\ \A i, j \in DOMAIN l :
          l[i].kind = "gtid" /\ l[j].kind = "gtid" /\ l[i].txn = l[j].txn => i = j
    /\ \A i \in DOMAIN l : l[i].kind # "rotate" =>
          /\ l[i].txn # NoTxn
          /\ \E j \in 1..i : /\ l[j].kind = "gtid" /\ l[j].txn = l[i].txn
                             /\ \A k \in j + 1..i : l[k].kind # "gtid"

\* A caller starts a syncer by position or by GTID set, at a position it was
\* given, and once; the tagged transactions are the last ones of the log.
Orderly(c) ==
    /\ PositionsGrow(c.log) /\ TxnsInOrder(c.log)
    /\ c.LateSets = {} /\ (c.StartPositions = {} \/ c.StartSets = {})
    /\ \A p \in c.StartPositions : \E k \in 0..Len(c.log) : Clamp(p) = PositionAfter(c.log, k)
    /\ c.StartPositions # {} /\ (\E i \in DOMAIN c.log : c.log[i].zero) =>
          c.FillZeroLogPos /\ c.Flavor = "mariadb"
    /\ c.Flavor = "mariadb" =>
          \A g \in c.StartSets : \A t \in g : \E i \in DOMAIN c.log : c.log[i].kind = "gtid" /\ c.log[i].txn = t
    /\ c.Flavor = "mysql" =>
          \A i, j \in DOMAIN c.log :
              i < j /\ c.log[i].kind = "gtid" /\ c.log[j].kind = "gtid" /\ c.log[j].txn.tag = "" =>
                  c.log[i].txn.tag = ""

-----------------------------------------------------------------------------
(***************************************************************************)
(* Properties.  That the syncer keeps its promise to the consumer is       *)
(* DeliverySpec of BinlogDelivery, whose variables are part of the state.  *)
(***************************************************************************)
Txns == {log[i].txn : i \in DOMAIN log}

\* The values each variable ranges over.
TypeOK ==
    /\ m \in {"free", "stream", "close"}
    /\ spc \in {"none", "read", "put", "ack", "backoff", "lock", "retry", "exit"}
    /\ ev \in {0} \cup DOMAIN log
    /\ conn \in [up : BOOLEAN, hello : BOOLEAN, at : [Name : Nat, Pos : Nat], todo : SUBSET DOMAIN log]
    /\ nextPos \in [Name : Nat, Pos : 0..PosModulus - 1]
    /\ prevMySQLGTIDEvent \in Txns \cup {NoTxn}
    /\ running \in BOOLEAN
    /\ retryCount \in Nat
    /\ Len(ch) <= EventCacheCount
    /\ Len(ech) <= EchCap
    /\ cpc \in {"no", "lock", "wait", "done"}
    /\ acked \in {0} \cup DOMAIN log
    /\ last \in {0} \cup DOMAIN log
    /\ faults \in 0..MaxFaults

\* Whatever was sent, lost and reconnected, the dump that onStream reads from
\* continues after the last event handed over or, after StartSyncGTID, at the
\* GTID event of the transaction in progress: "re-connect again with last
\* nextPos or nextGTID we got".
ResumePoint ==
    spc = "read" /\ conn.up =>
        \/ conn.todo = After(wanted, last)
        \/ /\ resend /\ last # 0
           /\ conn.todo = {j \in wanted : j >= RepeatFrom(wanted, last)}

\* The GSet of a commit event covers the starting set and the transactions up
\* to and including its own, and no other, also when currGset was rebuilt
\* from prevGset after a reconnect.
GSetExact ==
    \A k \in DOMAIN ch :
        resend /\ ch[k].index # 0 /\ log[ch[k].index].kind = "xid" =>
            \A i \in DOMAIN log : log[i].kind = "gtid" =>
                (Covered(ch[k].gset, log[i].txn) <=> i \notin wanted \/ i <= ch[k].index)

\* A consumer is not left waiting for ever: when onStream has ended, there is
\* an error for GetEvent to return, or it has returned one.
EndReported == spc = "exit" => ech # <<>> \/ err # "none"

\* What the streamer holds for GetEvent: at most EventCacheCount events with exact
\* sets and, after the end, the error (TypeOK, GSetExact and EndReported).
StreamerExact == TypeOK /\ GSetExact /\ EndReported

\* An event is acknowledged to a semi-synchronous source only after it has
\* been handed over.
AckAfterHandOver == [][acked' # acked => acked' = last]_vars

\* Everything wanted is handed over when there are finitely many faults,
\* unless the stream ends or the syncer is closed.
AllDelivered ==
    wanted # {} ~> (last # 0 /\ After(wanted, last) = {}) \/ spc = "exit" \/ ctxDone

\* Close returns: onStream notices the cancelled context wherever it is, so
\* that wg.Wait does not park for ever, whether or not anybody reads events.
CloseTerminates == cpc = "lock" ~> cpc = "done"
=============================================================================
