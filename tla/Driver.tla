------------------------------- MODULE Driver -------------------------------
(***************************************************************************)
(* src/driver/driver.go under database/sql: the goroutine of a connection  *)
(* that watches the context of the call in progress, the answers to        *)
(* database/sql when a connection is bad, and the retries these cause.     *)
(*                                                                         *)
(* Every call has a context of its own, which may be canceled at any time, *)
(* also after the call has returned.  The contexts channel has no buffer:  *)
(* handing a context over is one step of the call and of the watcher.      *)
(* Rows are read whole before a call returns, so they are left out.        *)
(***************************************************************************)
EXTENDS Integers, FiniteSets

CONSTANTS Calls,       \* calls of database/sql, each with its context
          NConns,      \* connections that may be opened
          Background   \* context.Background()

ASSUME DriverAssumption == NConns \in Nat \ {0} /\ Background \notin Calls

DriverConns == 1 .. NConns
Kinds == {"exec", "prepare", "ping"}
MaxTries == 3          \* database/sql: two cached connections, then a new one

VARIABLES retries,     \* the DSN option of that name
          kind,        \* what each call does
          at,          \* where it is
          using,       \* the connection it uses
          tries,       \* how often it was tried
          reply,       \* what the driver returned for it
          performed,   \* how often the server performed its statement, if it has one
          done,        \* the contexts that are done
          dc           \* the connections

drVars == <<retries, kind, at, using, tries, reply, performed, done, dc>>

NotOpened ==
  [place |-> "none", socket |-> FALSE, watch |-> Background, watcher |-> FALSE,
   contexts |-> FALSE, valid |-> TRUE, failed |-> FALSE]

\* `place`: not opened, idle, used or closed.  `failed`: a statement on it failed
\* with ErrBadConn.
DriverInit ==
  /\ retries \in BOOLEAN
  /\ kind \in [Calls -> Kinds]
  /\ at = [k \in Calls |-> "start"]
  /\ using = [k \in Calls |-> 1]
  /\ tries = [k \in Calls |-> 0]
  /\ reply = [k \in Calls |-> "none"]
  /\ performed = [k \in Calls |-> 0]
  /\ done = {}
  /\ dc = [c \in DriverConns |-> NotOpened]

-----------------------------------------------------------------------------
(* database/sql.                                                            *)

Idle == {c \in DriverConns : dc[c].place = "idle"}

Used(k, c) ==
  /\ using' = [using EXCEPT ![k] = c]
  /\ at' = [at EXCEPT ![k] = "watch"]
  /\ tries' = [tries EXCEPT ![k] = @ + 1]
  /\ UNCHANGED <<retries, kind, reply, performed, done>>

\* db.conn: an idle connection, for the first two tries.
TakeIdle(k, c) ==
  /\ at[k] = "start" /\ k \notin done
  /\ c \in Idle /\ tries[k] < MaxTries - 1
  /\ dc' = [dc EXCEPT ![c].place = "used"]
  /\ Used(k, c)

\* Connect: a connection, and the goroutine that watches its contexts.
Connect(k, c) ==
  /\ at[k] = "start" /\ k \notin done
  /\ dc[c].place = "none" /\ \A b \in 1 .. c - 1 : dc[b].place # "none"
  /\ (Idle = {} \/ tries[k] = MaxTries - 1)
  /\ dc' = [dc EXCEPT ![c] = [@ EXCEPT !.place = "used", !.socket = TRUE, !.watcher = TRUE,
                                       !.contexts = TRUE]]
  /\ Used(k, c)

\* A context that is done ends the call before it has a connection.
TakeFails(k) ==
  /\ at[k] = "start"
  /\ k \in done \/ (Idle = {} /\ \A c \in DriverConns : dc[c].place # "none")
  /\ at' = [at EXCEPT ![k] = "returned"]
  /\ UNCHANGED <<retries, kind, using, tries, reply, performed, done, dc>>

ClosedSocket(conn) == [conn EXCEPT !.place = "closed", !.socket = FALSE]

\* Conn.Close: state.Close and the socket; the watcher is still running.
Closed(conn) == [NotOpened EXCEPT !.place = "closed", !.watch = conn.watch, !.watcher = conn.watcher]

\* putConn: ErrBadConn of package driver, or IsValid, decide.
Release(k) ==
  /\ at[k] = "release"
  /\ LET c == using[k]
     IN  dc' = [dc EXCEPT ![c] = IF reply[k] = "ErrBadConn" \/ ~ @.valid THEN Closed(@)
                                 ELSE [@ EXCEPT !.place = "idle"]]
  /\ IF reply[k] = "ErrBadConn" /\ tries[k] < MaxTries
     THEN at' = [at EXCEPT ![k] = "start"] /\ UNCHANGED tries
     ELSE at' = [at EXCEPT ![k] = "returned"] /\ tries' = [tries EXCEPT ![k] = 0]
  /\ using' = [using EXCEPT ![k] = 1] /\ reply' = [reply EXCEPT ![k] = "none"]
  /\ UNCHANGED <<retries, kind, performed, done>>

\* An idle connection that is too old.
CloseIdle(c) ==
  /\ c \in Idle
  /\ dc' = [dc EXCEPT ![c] = Closed(@)]
  /\ UNCHANGED <<retries, kind, at, using, tries, reply, performed, done>>

Cancel(k) ==
  /\ k \notin done
  /\ done' = done \cup {k}
  /\ UNCHANGED <<retries, kind, at, using, tries, reply, performed, dc>>

-----------------------------------------------------------------------------
(* The driver.                                                              *)

\* watchCtx
Watch(k) ==
  /\ at[k] = "watch" /\ dc[using[k]].watcher
  /\ dc' = [dc EXCEPT ![using[k]].watch = k]
  /\ at' = [at EXCEPT ![k] = "write"]
  /\ UNCHANGED <<retries, kind, using, tries, reply, performed, done>>

replyErrorStd(k, err) ==
  IF err = "bad" THEN [says |-> "ErrBadConn", valid |-> dc[using[k]].valid]
  ELSE [says |-> err, valid |-> TRUE]

replyErrorKeeps(k, err) ==
  [says |-> IF retries /\ err = "bad" THEN "ErrBadConn" ELSE err, valid |-> TRUE]

\* replyError
replyError(k, err) ==
  IF retries /\ err = "bad" THEN [says |-> "ErrBadConn", valid |-> dc[using[k]].valid]
  ELSE [says |-> err, valid |-> err # "bad"]

\* What ExecContext and QueryContext, PrepareContext and BeginTx, and Ping return.
Returned(k, err) ==
  IF err = "ok" \/ kind[k] = "prepare" THEN [says |-> err, valid |-> dc[using[k]].valid]
  ELSE IF kind[k] = "ping" THEN [says |-> "ErrBadConn", valid |-> dc[using[k]].valid]
  ELSE replyError(k, err)

Finish(k, err, socket) ==
  LET r == Returned(k, err)
      bad == dc[using[k]].failed \/ (err = "bad" /\ kind[k] = "exec")
  IN  /\ reply' = [reply EXCEPT ![k] = r.says]
      /\ dc' = [dc EXCEPT ![using[k]] = [@ EXCEPT !.valid = r.valid, !.socket = socket, !.failed = bad]]
      /\ at' = [at EXCEPT ![k] = "unwatch"]

\* The command is written, unless the socket is closed; the server performs it.
WriteCommand(k) ==
  /\ at[k] = "write"
  /\ IF dc[using[k]].socket
     THEN /\ at' = [at EXCEPT ![k] = "read"]
          /\ performed' = [performed EXCEPT ![k] = IF kind[k] = "exec" THEN @ + 1 ELSE @]
          /\ UNCHANGED <<reply, dc>>
     ELSE Finish(k, "bad", FALSE) /\ UNCHANGED performed
  /\ UNCHANGED <<retries, kind, using, tries, done>>

\* The server answers, or the connection breaks.
Answered(k) ==
  /\ at[k] = "read" /\ dc[using[k]].socket
  /\ Finish(k, "ok", TRUE) \/ Finish(k, "err", TRUE) \/ Finish(k, "bad", FALSE)
  /\ UNCHANGED <<retries, kind, using, tries, performed, done>>

\* The watcher closed the socket under the reader.  packet.Conn.Close also sets
\* the sequence number that the reader may be about to compare.
ReadClosed(k) ==
  /\ at[k] = "read" /\ ~ dc[using[k]].socket
  /\ \E err \in {"bad", "invalid sequence"} : Finish(k, err, FALSE)
  /\ UNCHANGED <<retries, kind, using, tries, performed, done>>

UnwatchKept(k) ==
  /\ at[k] = "unwatch"
  /\ at' = [at EXCEPT ![k] = "release"]
  /\ UNCHANGED <<retries, kind, using, tries, reply, performed, done, dc>>

\* The function that watchCtx returned, deferred by the call.
Unwatch(k) ==
  /\ at[k] = "unwatch" /\ dc[using[k]].watcher
  /\ dc' = [dc EXCEPT ![using[k]].watch = Background]
  /\ at' = [at EXCEPT ![k] = "release"]
  /\ UNCHANGED <<retries, kind, using, tries, reply, performed, done>>

ContextDoneKeeps(c) ==
  /\ dc[c].watcher /\ dc[c].watch \in done
  /\ dc' = [dc EXCEPT ![c].watch = Background]
  /\ UNCHANGED <<retries, kind, at, using, tries, reply, performed, done>>

\* The watcher: the context is done, or the contexts channel was closed.
ContextDone(c) ==
  /\ dc[c].watcher /\ dc[c].watch \in done
  /\ dc' = [dc EXCEPT ![c].watch = Background, ![c].socket = FALSE]
  /\ UNCHANGED <<retries, kind, at, using, tries, reply, performed, done>>

WatcherReturns(c) ==
  /\ dc[c].watcher /\ ~ dc[c].contexts
  /\ dc' = [dc EXCEPT ![c].watcher = FALSE]
  /\ UNCHANGED <<retries, kind, at, using, tries, reply, performed, done>>

\* Go runs every goroutine that can run; the server need not answer.
CallStep(k) ==
  \/ \E c \in DriverConns : TakeIdle(k, c) \/ Connect(k, c)
  \/ TakeFails(k) \/ Watch(k) \/ WriteCommand(k) \/ ReadClosed(k) \/ Unwatch(k) \/ Release(k)

DriverWatcher(c) == ContextDone(c) \/ WatcherReturns(c)

DriverNext ==
  \/ \E k \in Calls : CallStep(k) \/ Answered(k) \/ Cancel(k)
  \/ \E c \in DriverConns : DriverWatcher(c) \/ CloseIdle(c)

DriverSpec == DriverInit /\ [][DriverNext]_drVars

-----------------------------------------------------------------------------
(* A watcher watches the context of the call that uses its connection, and *)
(* of no other: a context canceled after its call has returned never       *)
(* closes a connection that is idle or used by another call.               *)
WatchesOwner ==
  \A c \in DriverConns : \A k \in Calls :
    dc[c].watch = k => using[k] = c /\ at[k] \in {"write", "read", "unwatch"}

(* With retries off, a statement is performed at most once, whatever       *)
(* breaks: the driver's own error keeps database/sql from trying again.    *)
RetriesOffOnce ==
  ~ retries => \A k \in Calls : performed[k] <= 1

(* A call whose context is canceled returns, even if the server never      *)
(* answers: the watcher closes the socket and the read fails.              *)
CancelEnds == \A k \in Calls : k \in done ~> at[k] = "returned"

(* The watcher of a connection that database/sql has closed ends.          *)
WatchersEnd == \A c \in DriverConns : dc[c].place = "closed" ~> ~ dc[c].watcher

(* A connection on which a statement failed with ErrBadConn is not given   *)
(* to another call.                                                        *)
FailedNotReused == \A c \in Idle : ~ dc[c].failed

(* A bad connection costs neither a second execution (RetriesOffOnce) nor   *)
(* the next call its answer (FailedNotReused).                             *)
BadConnContained == RetriesOffOnce /\ FailedNotReused
=============================================================================
