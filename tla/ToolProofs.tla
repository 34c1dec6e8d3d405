----------------------------- MODULE ToolProofs -----------------------------
(***************************************************************************)
(* The parts around a connection and the tools.  The goroutines that share *)
(* a connection: the producer and the writer of a streamed result, and the *)
(* calls and the watchers of the driver, for any number of rows, calls and *)
(* connections.  The flashback of one row, and of a log of any length, for *)
(* every set of keys and values and every table.  The intervals of GTID    *)
(* sets, and positions.                                                    *)
(***************************************************************************)
EXTENDS StreamResult, Driver, RowUndo, Interval, Position, TLAPS,
        WellFoundedInduction, NaturalsInduction

(***************************************************************************)
(* Streamed results.  As long as the writer reads, what the client has and *)
(* what is in the channel are the rows written so far, and the channel was *)
(* closed by nobody but a producer that wrote all rows or set the error.   *)
(***************************************************************************)
StreamTypes ==
    /\ chan \in Seq(Nat) /\ closed \subseteq {"done", "rowsChan"}
    /\ closer \in {"none", "producer", "writer"} /\ srErr \in BOOLEAN
    /\ producer \in [at : {"loop", "fail", "close", "ended", "panic"}, row : 1..Rows + 1]
    /\ writer \in {"fields", "rows", "close", "ended"}
    /\ client \in [rows : Seq(Nat), end : {"none", "eof", "error"}]

Reading == writer \in {"fields", "rows"}

InOrder == client.rows = [i \in 1..Len(client.rows) |-> i]

Pipeline ==
    Reading =>
        /\ client.end = "none"
        /\ producer.row = Len(client.rows) + Len(chan) + 1
        /\ \A i \in 1..Len(chan) : chan[i] = Len(client.rows) + i

ClosedByProducer ==
    /\ closer = "producer" => producer.at = "close"
    /\ closer = "writer" => writer = "close"
    /\ Reading /\ closed # {} => producer.at \in {"close", "ended"}
    /\ Reading /\ "rowsChan" \in closed => producer.at = "ended"
    /\ "done" \notin closed => closer = "none" /\ closed = {}
    /\ producer.at = "ended" => closed # {}

AllOrError == producer.at \in {"close", "ended"} => srErr \/ producer.row = Rows + 1

StreamInv ==
    /\ StreamTypes /\ InOrder /\ Pipeline /\ ClosedByProducer /\ AllOrError
    /\ client.end = "eof" => Len(client.rows) = Rows

\* NewStreamResult establishes the invariant.
LEMMA StreamInvInit == StreamInit => StreamInv
<1> SUFFICES ASSUME StreamInit
             PROVE  StreamInv
  OBVIOUS
<1> USE StreamAssumption DEF StreamInit
<1>1. StreamTypes
  <2>1. chan \in Seq(Nat) /\ client \in [rows : Seq(Nat), end : {"none", "eof", "error"}]
    OBVIOUS
  <2>2. 1 \in 1..Rows + 1
    OBVIOUS
  <2>3. producer \in [at : {"loop", "fail", "close", "ended", "panic"}, row : 1..Rows + 1]
    BY <2>2
  <2> QED
    BY <2>1, <2>3, Zenon DEF StreamTypes
<1>2. InOrder /\ Pipeline
  BY DEF InOrder, Pipeline
<1>3. ClosedByProducer /\ AllOrError
  BY DEF ClosedByProducer, AllOrError
<1> QED
  BY <1>1, <1>2, <1>3 DEF StreamInv

\* Every step of the producer, the writer and Close keeps it.
LEMMA StreamInvNext == StreamInv /\ [StreamNext]_stVars => StreamInv'
<1> SUFFICES ASSUME StreamInv, [StreamNext]_stVars
             PROVE  StreamInv'
  OBVIOUS
<1> USE StreamAssumption DEF StreamInv
<1>1. CASE LastRow \/ ProducerFails
  <2>1. /\ UNCHANGED <<chan, closed, closer, srErr, writer, client>>
        /\ producer.at = "loop" /\ producer'.row = producer.row /\ producer'.at \in {"close", "fail"}
        /\ producer' \in [at : {"loop", "fail", "close", "ended", "panic"}, row : 1..Rows + 1]
        /\ producer'.at = "close" => producer.row > Rows
    BY <1>1 DEF LastRow, ProducerFails, StreamTypes
  <2>2. producer'.at = "close" => producer'.row = Rows + 1
    BY <2>1 DEF StreamTypes
  <2>3. StreamTypes' /\ InOrder' /\ Pipeline' /\ AllOrError'
    BY <2>1, <2>2 DEF StreamTypes, InOrder, Pipeline, Reading, AllOrError
  <2>4. ClosedByProducer'
    BY <2>1 DEF ClosedByProducer, Reading
  <2> QED
    BY <2>1, <2>3, <2>4
<1>2. CASE WriteRow
  <2>1. CASE SendRow
    <3>1. /\ chan' = Append(chan, producer.row) /\ producer' = [producer EXCEPT !.row = @ + 1]
          /\ producer.at = "loop" /\ producer.row <= Rows
          /\ UNCHANGED <<closed, closer, srErr, writer, client>>
      BY <1>2, <2>1 DEF WriteRow, SendRow
    <3>2. StreamTypes'
      <4>1. producer.row \in 1..Rows + 1 /\ producer.row \in Nat /\ producer.row + 1 \in 1..Rows + 1
        BY <3>1 DEF StreamTypes
      <4>2. chan' \in Seq(Nat)
        BY <3>1, <4>1 DEF StreamTypes
      <4>3. producer' \in [at : {"loop", "fail", "close", "ended", "panic"}, row : 1..Rows + 1]
        BY <3>1, <4>1 DEF StreamTypes
      <4> QED
        BY <3>1, <4>2, <4>3 DEF StreamTypes
    <3>3. Pipeline'
      <4> SUFFICES ASSUME Reading
                   PROVE  Pipeline'
        BY <3>1, Zenon DEF Pipeline, Reading
      <4> DEFINE n == Len(client.rows)
                 k == Len(chan)
                 r == producer.row
      <4>1. n \in Nat /\ k \in Nat /\ Len(chan') = k + 1
        BY <3>1 DEF StreamTypes
      <4>2. \A i \in 1..k + 1 : chan'[i] = IF i = k + 1 THEN r ELSE chan[i]
        BY <3>1, <4>1 DEF StreamTypes
      <4>3. producer'.row = r + 1
        BY <3>1 DEF StreamTypes
      <4>4. client.end = "none" /\ r = n + k + 1 /\ \A i \in 1..k : chan[i] = n + i
        BY DEF Pipeline
      <4> HIDE DEF n, k, r, StreamInv
      <4>5. producer'.row = n + (k + 1) + 1
        BY <4>1, <4>3, <4>4
      <4>6. \A i \in 1..k + 1 : chan'[i] = n + i
        BY <4>1, <4>2, <4>4
      <4> QED
        BY <3>1, <4>1, <4>4, <4>5, <4>6 DEF Pipeline, n
    <3>4. InOrder' /\ ClosedByProducer' /\ AllOrError'
      BY <3>1 DEF InOrder, ClosedByProducer, AllOrError, Reading, StreamTypes
    <3> QED
      BY <3>1, <3>2, <3>3, <3>4
  <2>2. CASE SendPanics \/ StreamDone
    BY <1>2, <2>2, Zenon
    DEF WriteRow, SendPanics, StreamDone, StreamTypes, InOrder, Pipeline, Reading, ClosedByProducer, AllOrError
  <2> QED
    BY <1>2, <2>1, <2>2 DEF WriteRow
<1>3. CASE SetError
  <2>1. producer.at = "fail" /\ producer' = [producer EXCEPT !.at = "close"] /\ srErr' = TRUE
        /\ UNCHANGED <<chan, closed, closer, writer, client>>
    BY <1>3, Zenon DEF SetError
  <2>2. producer'.at = "close" /\ producer'.row = producer.row
    BY <2>1 DEF StreamTypes
  <2>3. StreamTypes' /\ InOrder'
    BY <2>1 DEF StreamTypes, InOrder
  <2>4. Pipeline'
    BY <2>1, <2>2 DEF Pipeline, Reading
  <2>5. ClosedByProducer' /\ AllOrError'
    BY <2>1, <2>2 DEF ClosedByProducer, AllOrError, Reading
  <2> QED
    BY <2>1, <2>3, <2>4, <2>5
<1>10. CASE CancelContext
  BY <1>10, Zenon DEF CancelContext, StreamTypes, InOrder, Pipeline, Reading, ClosedByProducer, AllOrError
<1>4. ASSUME NEW who \in {"producer", "writer"}, CloseDone(who)
      PROVE  StreamInv'
  BY <1>4 DEF CloseDone, Leave, At, StreamTypes, InOrder, Pipeline, Reading, ClosedByProducer, AllOrError
<1>5. ASSUME NEW who \in {"producer", "writer"}, CloseRowsChan(who)
      PROVE  StreamInv'
  BY <1>5, Zenon DEF CloseRowsChan, Leave, StreamTypes, InOrder, Pipeline, Reading, ClosedByProducer, AllOrError
<1>6. CASE WriteFields
  BY <1>6, Zenon DEF WriteFields, StreamTypes, InOrder, Pipeline, Reading, ClosedByProducer, AllOrError
<1>7. CASE WriteStreamRow
  <2>1. /\ writer = "rows" /\ chan # <<>> /\ chan' = Tail(chan) /\ Reading
        /\ UNCHANGED <<closed, closer, srErr, producer>>
    BY <1>7 DEF WriteStreamRow, Reading
  <2>2. Head(chan) = Len(client.rows) + 1 /\ Len(chan) \in Nat \ {0} /\ Len(client.rows) \in Nat
    BY <2>1 DEF Pipeline, StreamTypes
  <2>3. CASE client' = [client EXCEPT !.rows = Append(@, Head(chan))] /\ writer' = writer
    <3>1. client'.rows = Append(client.rows, Len(client.rows) + 1) /\ client'.end = client.end
      BY <2>2, <2>3 DEF StreamTypes
    <3>2. StreamTypes'
      <4>1. chan' \in Seq(Nat) /\ Head(chan) \in Nat
        BY <2>1, <2>2 DEF StreamTypes
      <4>2. Append(client.rows, Head(chan)) \in Seq(Nat)
        BY <4>1 DEF StreamTypes
      <4> QED
        BY <2>1, <2>3, <4>1, <4>2, Zenon DEF StreamTypes
    <3>3. InOrder'
      BY <2>2, <3>1 DEF InOrder, StreamTypes
    <3>4. Pipeline'
      <4>1. Len(chan') = Len(chan) - 1 /\ \A i \in 1..Len(chan') : chan'[i] = chan[i + 1]
        BY <2>1, <2>2 DEF StreamTypes
      <4>2. Len(client'.rows) = Len(client.rows) + 1
        BY <3>1 DEF StreamTypes
      <4> QED
        BY <2>1, <2>2, <3>1, <4>1, <4>2 DEF Pipeline
    <3>5. ClosedByProducer' /\ AllOrError'
      BY <2>1, <2>3 DEF ClosedByProducer, AllOrError, Reading
    <3> QED
      BY <2>1, <3>1, <3>2, <3>3, <3>4, <3>5 DEF Pipeline
  <2>4. CASE client' = [client EXCEPT !.end = "error"] /\ writer' = "close"
    <3>1. StreamTypes'
      <4>1. chan' \in Seq(Nat)
        BY <2>1, <2>2 DEF StreamTypes
      <4> QED
        BY <2>1, <2>4, <4>1, Zenon DEF StreamTypes
    <3> QED
      BY <2>1, <2>4, <3>1 DEF StreamTypes, InOrder, Pipeline, Reading, ClosedByProducer, AllOrError
  <2> QED
    BY <1>7, <2>3, <2>4 DEF WriteStreamRow
<1>8. CASE RowsEnded
  <2>1. ~srErr => Len(client.rows) = Rows
    BY <1>8 DEF RowsEnded, StreamTypes, Pipeline, Reading, ClosedByProducer, AllOrError
  <2> QED
    BY <1>8, <2>1 DEF RowsEnded, StreamTypes, InOrder, Pipeline, Reading, ClosedByProducer, AllOrError
<1>9. CASE UNCHANGED stVars
  BY <1>9 DEF stVars, StreamTypes, InOrder, Pipeline, Reading, ClosedByProducer, AllOrError
<1> QED
  BY <1>1, <1>2, <1>3, <1>4, <1>5, <1>6, <1>7, <1>8, <1>9, <1>10 DEF StreamNext

\* A client that reads the end of a streamed result has read every row of it, in
\* order, for every number of rows and every buffer, however producer, writer,
\* Close and the cancellation interleave.
THEOREM StreamedExactly == StreamSpec => []StreamExact
<1>1. StreamInv => StreamExact
  BY DEF StreamInv, InOrder, StreamExact
<1> QED
  BY <1>1, StreamInvInit, StreamInvNext, PTL DEF StreamSpec

-----------------------------------------------------------------------------
(***************************************************************************)
(* The driver under database/sql.                                          *)
(***************************************************************************)
DriverConn ==
    [place : {"none", "idle", "used", "closed"}, socket : BOOLEAN, watch : Calls \cup {Background},
     watcher : BOOLEAN, contexts : BOOLEAN, valid : BOOLEAN, failed : BOOLEAN]

DriverTypes ==
    /\ retries \in BOOLEAN /\ kind \in [Calls -> Kinds]
    /\ at \in [Calls -> {"start", "watch", "write", "read", "unwatch", "release", "returned"}]
    /\ using \in [Calls -> DriverConns] /\ tries \in [Calls -> Nat]
    /\ reply \in [Calls -> {"none", "ok", "err", "bad", "invalid sequence", "ErrBadConn"}]
    /\ performed \in [Calls -> Nat] /\ done \subseteq Calls
    /\ dc \in [DriverConns -> DriverConn]

\* The call has a connection.
Holds(k) == at[k] \in {"watch", "write", "read", "unwatch", "release"}

\* A used connection belongs to one call.
OneCall ==
    /\ \A k \in Calls : Holds(k) => dc[using[k]].place = "used"
    /\ \A k, l \in Calls : Holds(k) /\ Holds(l) /\ using[k] = using[l] => k = l

\* A connection on which a statement failed is on its way to be closed: the call
\* that saw the failure still has it, and says so when it gives it back.
FailedIsHeld ==
    \A c \in DriverConns : dc[c].failed =>
        \E k \in Calls : /\ at[k] \in {"unwatch", "release"} /\ using[k] = c
                         /\ reply[k] = "ErrBadConn" \/ ~dc[c].valid

\* With retries off a statement is not tried again once the server got it.
NotTriedAgain ==
    /\ \A k \in Calls : kind[k] # "exec" => performed[k] = 0
    /\ ~retries => \A k \in Calls : kind[k] = "exec" =>
          /\ reply[k] # "ErrBadConn"
          /\ performed[k] = 0 \/ (performed[k] = 1 /\ at[k] \notin {"start", "watch", "write"})

DriverInv ==
    DriverTypes /\ OneCall /\ FailedIsHeld /\ NotTriedAgain /\ WatchesOwner

\* The types after a step: each of them follows from the call's own steps.
LEMMA DriverTypesNext == DriverTypes /\ [DriverNext]_drVars => DriverTypes'
<1> SUFFICES ASSUME DriverTypes, [DriverNext]_drVars
             PROVE  DriverTypes'
  OBVIOUS
<1>1. NotOpened \in DriverConn /\ 1 \in DriverConns
  BY DriverAssumption DEF NotOpened, DriverConn, DriverConns
<1>2. ASSUME NEW conn \in DriverConn
      PROVE  Closed(conn) \in DriverConn
  BY <1>1, Zenon DEF Closed, NotOpened, DriverConn
<1>A. ASSUME NEW c \in DriverConns, NEW d \in DriverConn, dc' = [dc EXCEPT ![c] = d]
      PROVE  dc' \in [DriverConns -> DriverConn]
  BY <1>A, Zenon DEF DriverTypes
<1>B. ASSUME NEW c \in DriverConns
      PROVE  dc[c] \in DriverConn
  BY Zenon DEF DriverTypes
<1>C. \A k \in Calls : tries[k] \in Nat /\ performed[k] \in Nat
  BY Zenon DEF DriverTypes
<1>D. tries \in [Calls -> Nat] /\ performed \in [Calls -> Nat]
  BY Zenon DEF DriverTypes
<1>E. ASSUME NEW f \in [Calls -> Nat], NEW k \in Calls, NEW n \in Nat
      PROVE  [f EXCEPT ![k] = n] \in [Calls -> Nat]
  OBVIOUS
<1>3. ASSUME NEW k \in Calls, NEW c \in DriverConns, TakeIdle(k, c) \/ Connect(k, c)
      PROVE  DriverTypes'
  <2>1. /\ [dc[c] EXCEPT !.place = "used"] \in DriverConn
        /\ [dc[c] EXCEPT !.place = "used", !.socket = TRUE, !.watcher = TRUE, !.contexts = TRUE] \in DriverConn
    BY <1>B, Zenon DEF DriverConn
  <2>2. dc' \in [DriverConns -> DriverConn]
    BY <1>3, <1>A, <2>1 DEF TakeIdle, Connect
  <2>3. Used(k, c)
    BY <1>3 DEF TakeIdle, Connect
  <2>4. tries[k] + 1 \in Nat
    BY <1>C
  <2>5. tries' \in [Calls -> Nat]
    BY <1>E, <2>3, <2>4, Zenon DEF Used, DriverTypes
  <2> QED
    BY <2>2, <2>3, <2>5, Zenon DEF Used, DriverTypes
<1>4. ASSUME NEW k \in Calls, TakeFails(k) \/ Cancel(k)
      PROVE  DriverTypes'
  BY <1>4, Zenon DEF TakeFails, Cancel, DriverTypes
<1>5. ASSUME NEW k \in Calls, Watch(k) \/ Unwatch(k)
      PROVE  DriverTypes'
  <2>1. using[k] \in DriverConns
    BY Zenon DEF DriverTypes
  <2>2. /\ [dc[using[k]] EXCEPT !.watch = k] \in DriverConn
        /\ [dc[using[k]] EXCEPT !.watch = Background] \in DriverConn
    BY <1>B, <2>1 DEF DriverConn
  <2>3. dc' \in [DriverConns -> DriverConn]
    BY <1>5, <1>A, <2>1, <2>2 DEF Watch, Unwatch
  <2> QED
    BY <1>5, <2>3, Zenon DEF Watch, Unwatch, DriverTypes
<1>6. ASSUME NEW k \in Calls, NEW err \in {"ok", "err", "bad", "invalid sequence"},
             NEW socket \in BOOLEAN, Finish(k, err, socket)
      PROVE  /\ reply' \in [Calls -> {"none", "ok", "err", "bad", "invalid sequence", "ErrBadConn"}]
             /\ at' \in [Calls -> {"start", "watch", "write", "read", "unwatch", "release", "returned"}]
             /\ dc' \in [DriverConns -> DriverConn]
  <2> DEFINE r == Returned(k, err)
             bad == dc[using[k]].failed \/ (err = "bad" /\ kind[k] = "exec")
             d == [dc[using[k]] EXCEPT !.valid = r.valid, !.socket = socket, !.failed = bad]
  <2>1. using[k] \in DriverConns
    BY Zenon DEF DriverTypes
  <2>2. /\ r.says \in {"none", "ok", "err", "bad", "invalid sequence", "ErrBadConn"}
        /\ r.valid \in BOOLEAN
    BY <1>B, <2>1, Zenon DEF Returned, replyError, DriverConn
  <2>3. dc' = [dc EXCEPT ![using[k]] = d]
    BY <1>6, Zenon DEF Finish
  <2>4. bad \in BOOLEAN
    BY <1>B, <2>1, Zenon DEF DriverConn
  <2>5. reply' = [reply EXCEPT ![k] = r.says] /\ at' = [at EXCEPT ![k] = "unwatch"]
    BY <1>6, Zenon DEF Finish
  <2> HIDE DEF r, bad
  <2>6. d \in DriverConn
    BY <1>B, <2>1, <2>2, <2>4, Zenon DEF DriverConn
  <2> HIDE DEF d
  <2> QED
    BY <1>A, <2>1, <2>2, <2>3, <2>5, <2>6, Zenon DEF DriverTypes
<1>7. ASSUME NEW k \in Calls, WriteCommand(k)
      PROVE  DriverTypes'
  <2>1. CASE dc[using[k]].socket
    <3> DEFINE n == IF kind[k] = "exec" THEN performed[k] + 1 ELSE performed[k]
    <3>1. performed' = [performed EXCEPT ![k] = n]
      BY <1>7, <2>1, Zenon DEF WriteCommand
    <3>2. n \in Nat
      BY <1>C
    <3> HIDE DEF n
    <3>3. performed' \in [Calls -> Nat]
      BY <1>E, <1>D, <3>1, <3>2
    <3> QED
      BY <1>7, <2>1, <3>3, Zenon DEF WriteCommand, DriverTypes
  <2>2. CASE ~dc[using[k]].socket
    BY <1>6, <1>7, <2>2, Zenon DEF WriteCommand, DriverTypes
  <2> QED
    BY <2>1, <2>2
<1>8. ASSUME NEW k \in Calls, Answered(k) \/ ReadClosed(k)
      PROVE  DriverTypes'
  <2>1. /\ \E err \in {"ok", "err", "bad", "invalid sequence"} : \E socket \in BOOLEAN : Finish(k, err, socket)
        /\ UNCHANGED <<retries, kind, using, tries, performed, done>>
    BY <1>8, Zenon DEF Answered, ReadClosed
  <2> QED
    BY <1>6, <2>1, Zenon DEF DriverTypes
<1>9. ASSUME NEW k \in Calls, Release(k)
      PROVE  DriverTypes'
  <2>1. using[k] \in DriverConns
    BY Zenon DEF DriverTypes
  <2>2. Closed(dc[using[k]]) \in DriverConn /\ [dc[using[k]] EXCEPT !.place = "idle"] \in DriverConn
    BY <1>2, <1>B, <2>1 DEF DriverConn
  <2>3. dc' \in [DriverConns -> DriverConn]
    BY <1>9, <1>A, <2>1, <2>2, Zenon DEF Release
  <2> QED
    <3>1. using' \in [Calls -> DriverConns]
      BY <1>1, <1>9, Zenon DEF Release, DriverTypes
    <3>2. tries' = tries \/ tries' = [tries EXCEPT ![k] = 0]
      BY <1>9, Zenon DEF Release
    <3>4. tries' \in [Calls -> Nat]
      BY <1>E, <1>D, <3>2
    <3>3. /\ at' \in [Calls -> {"start", "watch", "write", "read", "unwatch", "release", "returned"}]
          /\ reply' \in [Calls -> {"none", "ok", "err", "bad", "invalid sequence", "ErrBadConn"}]
      BY <1>9, Zenon DEF Release, DriverTypes
    <3> QED
      BY <1>9, <2>3, <3>1, <3>3, <3>4, Zenon DEF Release, DriverTypes
<1>10. ASSUME NEW c \in DriverConns, DriverWatcher(c)
       PROVE  DriverTypes'
  <2>1. /\ [dc[c] EXCEPT !.watch = Background, !.socket = FALSE] \in DriverConn
        /\ [dc[c] EXCEPT !.watcher = FALSE] \in DriverConn
    BY <1>B, Zenon DEF DriverConn
  <2>2. \/ dc' = [dc EXCEPT ![c] = [dc[c] EXCEPT !.watch = Background, !.socket = FALSE]]
        \/ dc' = [dc EXCEPT ![c] = [dc[c] EXCEPT !.watcher = FALSE]]
    BY <1>10, <1>B, Zenon DEF DriverWatcher, ContextDone, WatcherReturns, DriverConn, DriverTypes
  <2>3. dc' \in [DriverConns -> DriverConn]
    BY <1>A, <2>1, <2>2, Zenon
  <2> QED
    BY <1>10, <2>3, Zenon DEF DriverWatcher, ContextDone, WatcherReturns, DriverTypes
<1>11. ASSUME NEW c \in DriverConns, CloseIdle(c)
       PROVE  DriverTypes'
  <2>1. dc' \in [DriverConns -> DriverConn]
    BY <1>2, <1>11, <1>A, <1>B, Zenon DEF CloseIdle
  <2> QED
    BY <1>11, <2>1, Zenon DEF CloseIdle, DriverTypes
<1>12. CASE UNCHANGED drVars
  BY <1>12, Zenon DEF drVars, DriverTypes
<1> QED
  BY <1>3, <1>4, <1>5, <1>7, <1>8, <1>9, <1>10, <1>11, <1>12 DEF DriverNext, CallStep

\* Before the first call there is no connection.
LEMMA DriverInvInit == DriverInit => DriverInv
<1> SUFFICES ASSUME DriverInit
             PROVE  DriverInv
  OBVIOUS
<1> USE DEF DriverInit
<1>1. NotOpened \in DriverConn /\ 1 \in DriverConns
  BY DriverAssumption DEF NotOpened, DriverConn, DriverConns
<1>2. DriverTypes
  BY <1>1 DEF DriverTypes
<1>3. OneCall /\ NotTriedAgain
  BY DEF OneCall, NotTriedAgain, Holds
<1>4. FailedIsHeld
  BY DEF FailedIsHeld, NotOpened
<1>5. WatchesOwner
  BY DriverAssumption DEF WatchesOwner, NotOpened
<1> QED
  BY <1>2, <1>3, <1>4, <1>5 DEF DriverInv

\* A step changes one connection and leaves the others alone.
LEMMA OneConn ==
  ASSUME DriverTypes, NEW c \in DriverConns, NEW d, dc' = [dc EXCEPT ![c] = d]
  PROVE  dc'[c] = d /\ \A e \in DriverConns : e # c => dc'[e] = dc[e]
BY Zenon DEF DriverTypes

\* Every connection is a record of its fields.
LEMMA ConnTyped ==
  ASSUME DriverTypes, NEW c \in DriverConns
  PROVE  dc[c] \in DriverConn
BY Zenon DEF DriverTypes

\* database/sql gives a connection to a call.
LEMMA TakeInv ==
  ASSUME DriverInv, NEW k \in Calls, NEW c \in DriverConns, TakeIdle(k, c) \/ Connect(k, c)
  PROVE  OneCall' /\ FailedIsHeld' /\ NotTriedAgain' /\ WatchesOwner'
<1> USE DEF DriverInv
<1>1. /\ at[k] = "start" /\ dc[c].place # "used"
      /\ \A l \in Calls : at'[l] = IF l = k THEN "watch" ELSE at[l]
      /\ \A l \in Calls : using'[l] = IF l = k THEN c ELSE using[l]
      /\ UNCHANGED <<retries, kind, reply, performed>>
  BY Zenon DEF TakeIdle, Connect, Used, Idle, DriverTypes
<1>2. /\ dc'[c].place = "used"
      /\ \A d \in DriverConns : /\ d # c => dc'[d] = dc[d]
                                /\ dc'[d].watch = dc[d].watch
                                /\ dc'[d].valid = dc[d].valid /\ dc'[d].failed = dc[d].failed
  <2>1. \/ dc' = [dc EXCEPT ![c] = [dc[c] EXCEPT !.place = "used"]]
        \/ dc' = [dc EXCEPT ![c] = [dc[c] EXCEPT !.place = "used", !.socket = TRUE, !.watcher = TRUE,
                                                !.contexts = TRUE]]
    BY Zenon DEF TakeIdle, Connect
  <2>2. /\ \/ dc'[c] = [dc[c] EXCEPT !.place = "used"]
           \/ dc'[c] = [dc[c] EXCEPT !.place = "used", !.socket = TRUE, !.watcher = TRUE,
                                    !.contexts = TRUE]
        /\ \A e \in DriverConns : e # c => dc'[e] = dc[e]
    BY <2>1, OneConn, Zenon
  <2>3. dc[c] \in DriverConn
    BY ConnTyped
  <2>4. /\ dc'[c].place = "used" /\ dc'[c].watch = dc[c].watch
        /\ dc'[c].valid = dc[c].valid /\ dc'[c].failed = dc[c].failed
    BY <2>2, <2>3, Zenon DEF DriverConn
  <2> QED
    BY <2>2, <2>4
<1>3. \A l \in Calls : using[l] \in DriverConns
  BY Zenon DEF DriverTypes
<1>4. OneCall'
  BY <1>1, <1>2, <1>3 DEF OneCall, Holds
<1>5. FailedIsHeld'
  BY <1>1, <1>2 DEF FailedIsHeld
<1>6. NotTriedAgain'
  BY <1>1 DEF NotTriedAgain
<1>7. WatchesOwner'
  BY <1>1, <1>2 DEF WatchesOwner
<1> QED
  BY <1>4, <1>5, <1>6, <1>7

\* The answer of a command, from the server or because the socket is closed.
LEMMA FinishInv ==
  ASSUME DriverInv, NEW k \in Calls, at[k] \in {"write", "read"},
         NEW err \in {"ok", "err", "bad", "invalid sequence"}, NEW socket \in BOOLEAN, Finish(k, err, socket),
         UNCHANGED <<retries, kind, using, performed>>
  PROVE  OneCall' /\ FailedIsHeld' /\ NotTriedAgain' /\ WatchesOwner'
<1> USE DEF DriverInv
<1> DEFINE r == Returned(k, err)
<1>1. /\ \A l \in Calls : at'[l] = IF l = k THEN "unwatch" ELSE at[l]
      /\ \A l \in Calls : reply'[l] = IF l = k THEN r.says ELSE reply[l]
      /\ \A l \in Calls : using[l] \in DriverConns
  BY Zenon DEF Finish, DriverTypes
<1>2. /\ \A d \in DriverConns : /\ d # using[k] => dc'[d] = dc[d]
                                /\ dc'[d].watch = dc[d].watch /\ dc'[d].place = dc[d].place
      /\ dc'[using[k]].valid = r.valid
      /\ dc'[using[k]].failed => dc[using[k]].failed \/ (err = "bad" /\ kind[k] = "exec")
  <2> DEFINE bad == dc[using[k]].failed \/ (err = "bad" /\ kind[k] = "exec")
             d == [dc[using[k]] EXCEPT !.valid = r.valid, !.socket = socket, !.failed = bad]
  <2>1. dc' = [dc EXCEPT ![using[k]] = d]
    BY Zenon DEF Finish
  <2>2. dc'[using[k]] = d /\ \A e \in DriverConns : e # using[k] => dc'[e] = dc[e]
    <3> HIDE DEF d, r
    <3>1. using[k] \in DriverConns /\ DriverTypes
      BY <1>1
    <3> HIDE DEF DriverInv
    <3> QED
      BY <2>1, <3>1, OneConn, Zenon
  <2>3. dc[using[k]] \in DriverConn
    BY <1>1, ConnTyped, Zenon
  <2> HIDE DEF r, bad
  <2>4. /\ d.watch = dc[using[k]].watch /\ d.place = dc[using[k]].place
        /\ d.valid = r.valid /\ d.failed = bad
    BY <2>3, Zenon DEF DriverConn
  <2> HIDE DEF d
  <2>5. dc'[using[k]].failed => dc[using[k]].failed \/ (err = "bad" /\ kind[k] = "exec")
    BY <2>2, <2>4, Zenon DEF bad
  <2> QED
    BY <2>2, <2>4, <2>5, Zenon
<1>3. /\ err = "bad" /\ kind[k] = "exec" => r.says = "ErrBadConn" \/ ~r.valid
      /\ ~retries /\ kind[k] = "exec" => r.says # "ErrBadConn"
  BY Zenon DEF Returned, replyError, DriverTypes
<1> HIDE DEF r
<1>S. at[k] \notin {"unwatch", "release"} /\ Holds(k) /\ using' = using
  BY Zenon DEF Holds
<1>4. OneCall'
  <2>1. \A l \in Calls : Holds(l)' <=> Holds(l)
    BY <1>1, <1>S, Zenon DEF Holds
  <2>2. \A l \in Calls : using'[l] = using[l] /\ dc'[using[l]].place = dc[using[l]].place
    BY <1>1, <1>2, <1>S, Zenon
  <2> QED
    BY <2>1, <2>2, Zenon DEF OneCall
<1>5. FailedIsHeld'
  <2>1. ~dc[using[k]].failed
    <3> SUFFICES ASSUME dc[using[k]].failed
                 PROVE  FALSE
      BY Zenon
    <3>1. using[k] \in DriverConns
      BY <1>1, Zenon
    <3>2. PICK l \in Calls : at[l] \in {"unwatch", "release"} /\ using[l] = using[k]
      BY <3>1, Zenon DEF FailedIsHeld
    <3>3. Holds(l)
      BY <3>2, Zenon DEF Holds
    <3>4. l = k
      BY <1>S, <3>2, <3>3, Zenon DEF OneCall
    <3> QED
      BY <1>S, <3>2, <3>4, Zenon
  <2> SUFFICES ASSUME NEW c \in DriverConns, dc'[c].failed
               PROVE  \E l \in Calls : /\ at'[l] \in {"unwatch", "release"} /\ using'[l] = c
                                       /\ reply'[l] = "ErrBadConn" \/ ~dc'[c].valid
    BY Zenon DEF FailedIsHeld
  <2>2. CASE c = using[k]
    BY <1>1, <1>2, <1>3, <2>1, <2>2, Zenon
  <2>3. CASE c # using[k]
    <3>1. PICK l \in Calls : /\ at[l] \in {"unwatch", "release"} /\ using[l] = c
                             /\ reply[l] = "ErrBadConn" \/ ~dc[c].valid
      BY <1>2, <2>3, Zenon DEF FailedIsHeld
    <3> QED
      BY <1>1, <1>2, <2>3, <3>1, Zenon
  <2> QED
    BY <2>2, <2>3, Zenon
<1>6. NotTriedAgain'
  BY <1>1, <1>3, Zenon DEF NotTriedAgain
<1>7. WatchesOwner'
  <2> SUFFICES ASSUME NEW c \in DriverConns, NEW l \in Calls, dc'[c].watch = l
               PROVE  using'[l] = c /\ at'[l] \in {"write", "read", "unwatch"}
    BY Zenon DEF WatchesOwner
  <2>1. dc[c].watch = l
    BY <1>2, Zenon
  <2>2. using[l] = c /\ at[l] \in {"write", "read", "unwatch"}
    BY <2>1, Zenon DEF WatchesOwner
  <2> QED
    BY <1>1, <1>S, <2>2, Zenon
<1> QED
  BY <1>4, <1>5, <1>6, <1>7, Zenon

\* putConn: the connection is closed or idle again.
LEMMA ReleaseInv ==
  ASSUME DriverInv, NEW k \in Calls, Release(k)
  PROVE  OneCall' /\ FailedIsHeld' /\ NotTriedAgain' /\ WatchesOwner'
<1> USE DEF DriverInv
<1> DEFINE bad == reply[k] = "ErrBadConn" \/ ~dc[using[k]].valid
<1>1. /\ at[k] = "release" /\ at'[k] \in {"start", "returned"}
      /\ reply[k] # "ErrBadConn" => at'[k] = "returned"
      /\ \A l \in Calls : l # k => at'[l] = at[l] /\ using'[l] = using[l] /\ reply'[l] = reply[l]
      /\ reply'[k] = "none"
      /\ \A l \in Calls : using[l] \in DriverConns
      /\ UNCHANGED <<retries, kind, performed>>
  BY Zenon DEF Release, DriverTypes
<1>2. /\ \A d \in DriverConns : /\ d # using[k] => dc'[d] = dc[d]
                                /\ dc'[d].watch = dc[d].watch
      /\ IF bad THEN ~dc'[using[k]].failed ELSE dc'[using[k]].failed = dc[using[k]].failed
  <2> DEFINE d == IF bad THEN Closed(dc[using[k]]) ELSE [dc[using[k]] EXCEPT !.place = "idle"]
  <2>1. dc' = [dc EXCEPT ![using[k]] = d]
    BY Zenon DEF Release
  <2>2. dc'[using[k]] = d /\ \A e \in DriverConns : e # using[k] => dc'[e] = dc[e]
    <3> HIDE DEF d
    <3> QED
      BY <1>1, <2>1, OneConn, Zenon
  <2>3. dc[using[k]] \in DriverConn
    BY <1>1, ConnTyped
  <2> HIDE DEF bad
  <2>4. /\ d.watch = dc[using[k]].watch
        /\ IF bad THEN ~d.failed ELSE d.failed = dc[using[k]].failed
    BY <2>3 DEF Closed, NotOpened, DriverConn
  <2> HIDE DEF d
  <2> QED
    BY <2>2, <2>4
<1>3. \A l \in Calls : l # k /\ Holds(l) => using[l] # using[k]
  BY <1>1 DEF OneCall, Holds
<1>4. OneCall'
  BY <1>1, <1>2, <1>3 DEF OneCall, Holds
<1>5. FailedIsHeld'
  <2>1. ~dc'[using[k]].failed
    BY <1>1, <1>2, <1>3 DEF FailedIsHeld, Holds
  <2> SUFFICES ASSUME NEW c \in DriverConns, dc'[c].failed
               PROVE  \E l \in Calls : /\ at'[l] \in {"unwatch", "release"} /\ using'[l] = c
                                       /\ reply'[l] = "ErrBadConn" \/ ~dc'[c].valid
    BY DEF FailedIsHeld
  <2>2. c # using[k] /\ dc'[c] = dc[c]
    BY <1>2, <2>1
  <2>3. PICK l \in Calls : /\ at[l] \in {"unwatch", "release"} /\ using[l] = c
                           /\ reply[l] = "ErrBadConn" \/ ~dc[c].valid
    BY <2>2 DEF FailedIsHeld
  <2> QED
    BY <1>1, <2>2, <2>3
<1>6. NotTriedAgain'
  BY <1>1 DEF NotTriedAgain
<1>7. WatchesOwner'
  BY <1>1, <1>2 DEF WatchesOwner
<1> QED
  BY <1>4, <1>5, <1>6, <1>7

\* The steps that leave the calls' answers alone, and what the watchers do.
LEMMA DriverInvNext == DriverInv /\ [DriverNext]_drVars => DriverInv'
<1> SUFFICES ASSUME DriverInv, [DriverNext]_drVars
             PROVE  DriverInv'
  OBVIOUS
<1> DEFINE Kept == OneCall' /\ FailedIsHeld' /\ NotTriedAgain' /\ WatchesOwner'
<1> USE DEF DriverInv
<1>U. \A k \in Calls : using[k] \in DriverConns
  BY Zenon DEF DriverTypes
<1>1. ASSUME NEW k \in Calls, TakeFails(k) \/ Cancel(k)
      PROVE  Kept
  <2>1. /\ UNCHANGED <<retries, kind, using, reply, performed, dc>>
        /\ at' = at \/ (at[k] = "start" /\ at' = [at EXCEPT ![k] = "returned"])
    BY <1>1 DEF TakeFails, Cancel
  <2>2. \A l \in Calls : at'[l] = at[l] \/ (at[l] = "start" /\ at'[l] = "returned")
    BY <2>1, Zenon DEF DriverTypes
  <2>3. OneCall'
    BY <2>1, <2>2 DEF OneCall, Holds
  <2>4. FailedIsHeld'
    BY <2>1, <2>2 DEF FailedIsHeld
  <2>5. NotTriedAgain'
    BY <2>1, <2>2 DEF NotTriedAgain
  <2>6. WatchesOwner'
    BY <2>1, <2>2 DEF WatchesOwner
  <2> QED
    BY <2>3, <2>4, <2>5, <2>6
<1>2. ASSUME NEW k \in Calls, Watch(k) \/ Unwatch(k)
      PROVE  Kept
  <2> DEFINE c == using[k]
  <2>1. /\ UNCHANGED <<retries, kind, using, reply, performed>>
        /\ \/ /\ at[k] = "watch" /\ at' = [at EXCEPT ![k] = "write"]
              /\ dc' = [dc EXCEPT ![c] = [dc[c] EXCEPT !.watch = k]]
           \/ /\ at[k] = "unwatch" /\ at' = [at EXCEPT ![k] = "release"]
              /\ dc' = [dc EXCEPT ![c] = [dc[c] EXCEPT !.watch = Background]]
    BY <1>2 DEF Watch, Unwatch
  <2>2. \A l \in Calls : at'[l] = IF l # k THEN at[l] ELSE IF at[k] = "watch" THEN "write" ELSE "release"
    BY <2>1, Zenon DEF DriverTypes
  <2>3. /\ dc'[c] = [dc[c] EXCEPT !.watch = IF at[k] = "watch" THEN k ELSE Background]
        /\ \A e \in DriverConns : e # c => dc'[e] = dc[e]
    BY <1>U, <2>1, OneConn
  <2>4. dc[c] \in DriverConn
    BY <1>U, ConnTyped
  <2>5. /\ dc'[c].place = dc[c].place /\ dc'[c].failed = dc[c].failed /\ dc'[c].valid = dc[c].valid
        /\ dc'[c].watch = IF at[k] = "watch" THEN k ELSE Background
    BY <2>3, <2>4 DEF DriverConn
  <2> HIDE DEF c
  <2>6. \A e \in DriverConns : dc'[e].place = dc[e].place /\ dc'[e].failed = dc[e].failed /\ dc'[e].valid = dc[e].valid
    BY <2>3, <2>5, Zenon
  <2>7. OneCall'
    BY <1>U, <2>1, <2>2, <2>6 DEF OneCall, Holds
  <2>8. FailedIsHeld'
    BY <2>1, <2>2, <2>6 DEF FailedIsHeld
  <2>9. NotTriedAgain'
    BY <2>1, <2>2 DEF NotTriedAgain
  <2>10. WatchesOwner'
    <3> SUFFICES ASSUME NEW e \in DriverConns, NEW l \in Calls, dc'[e].watch = l
                 PROVE  using[l] = e /\ at'[l] \in {"write", "read", "unwatch"}
      BY <2>1 DEF WatchesOwner
    <3>1. CASE e = c
      BY <2>1, <2>2, <2>5, <3>1, DriverAssumption DEF c
    <3>2. CASE e # c
      BY <2>2, <2>3, <3>2 DEF WatchesOwner, c
    <3> QED
      BY <3>1, <3>2
  <2> QED
    BY <2>7, <2>8, <2>9, <2>10
<1>3. ASSUME NEW k \in Calls, WriteCommand(k)
      PROVE  Kept
  <2>1. CASE dc[using[k]].socket
    <3>1. /\ UNCHANGED <<retries, kind, using, reply, dc>>
          /\ at[k] = "write" /\ at' = [at EXCEPT ![k] = "read"]
          /\ performed' = [performed EXCEPT ![k] = IF kind[k] = "exec" THEN @ + 1 ELSE @]
      BY <1>3, <2>1, Zenon DEF WriteCommand
    <3>2. \A l \in Calls : at'[l] = IF l = k THEN "read" ELSE at[l]
      BY <3>1, Zenon DEF DriverTypes
    <3>3. \A l \in Calls : performed'[l] = IF l = k /\ kind[k] = "exec" THEN performed[k] + 1 ELSE performed[l]
      BY <3>1, Zenon DEF DriverTypes
    <3>4. OneCall'
      BY <3>1, <3>2 DEF OneCall, Holds
    <3>5. FailedIsHeld'
      BY <3>1, <3>2 DEF FailedIsHeld
    <3>6. NotTriedAgain'
      BY <3>1, <3>2, <3>3 DEF NotTriedAgain
    <3>7. WatchesOwner'
      BY <3>1, <3>2 DEF WatchesOwner
    <3> QED
      BY <3>4, <3>5, <3>6, <3>7
  <2>2. CASE ~dc[using[k]].socket
    <3>1. /\ at[k] = "write" /\ Finish(k, "bad", FALSE)
          /\ UNCHANGED <<retries, kind, using, performed>>
      BY <1>3, <2>2, Zenon DEF WriteCommand
    <3>2. at[k] \in {"write", "read"} /\ "bad" \in {"ok", "err", "bad", "invalid sequence"}
      BY <3>1
    <3> QED
      BY <3>1, <3>2, FinishInv, Zenon
  <2> QED
    BY <2>1, <2>2
<1>4. ASSUME NEW k \in Calls, Answered(k) \/ ReadClosed(k)
      PROVE  Kept
  <2>1. /\ at[k] \in {"write", "read"} /\ UNCHANGED <<retries, kind, using, performed>>
        /\ \E err \in {"ok", "err", "bad", "invalid sequence"} : \E socket \in BOOLEAN : Finish(k, err, socket)
    BY <1>4, Zenon DEF Answered, ReadClosed
  <2> QED
    BY <2>1, FinishInv, Zenon
<1>5. ASSUME NEW c \in DriverConns, DriverWatcher(c) \/ CloseIdle(c)
      PROVE  Kept
  <2>1. /\ UNCHANGED <<retries, kind, at, using, reply, performed>>
        /\ \/ dc' = [dc EXCEPT ![c] = [dc[c] EXCEPT !.watch = Background, !.socket = FALSE]]
           \/ dc' = [dc EXCEPT ![c] = [dc[c] EXCEPT !.watcher = FALSE]]
           \/ dc[c].place = "idle" /\ dc' = [dc EXCEPT ![c] = Closed(dc[c])]
    BY <1>5, ConnTyped, Zenon DEF DriverWatcher, ContextDone, WatcherReturns, CloseIdle, Idle, DriverTypes, DriverConn
  <2>2. \A e \in DriverConns : e # c => dc'[e] = dc[e]
    BY <2>1, OneConn
  <2>3. /\ dc'[c].watch \in {dc[c].watch, Background}
        /\ \/ dc'[c].place = dc[c].place /\ dc'[c].valid = dc[c].valid /\ dc'[c].failed = dc[c].failed
           \/ dc[c].place = "idle" /\ ~dc'[c].failed
    <3>1. \/ dc'[c] = [dc[c] EXCEPT !.watch = Background, !.socket = FALSE]
          \/ dc'[c] = [dc[c] EXCEPT !.watcher = FALSE]
          \/ dc[c].place = "idle" /\ dc'[c] = Closed(dc[c])
      BY <2>1, OneConn, Zenon
    <3> QED
      BY <3>1, ConnTyped, Zenon DEF DriverConn, Closed, NotOpened
  <2>4. OneCall'
    BY <1>U, <2>1, <2>2, <2>3 DEF OneCall, Holds
  <2>5. FailedIsHeld'
    BY <2>1, <2>2, <2>3 DEF FailedIsHeld
  <2>6. NotTriedAgain'
    BY <2>1 DEF NotTriedAgain
  <2>7. WatchesOwner'
    BY <2>1, <2>2, <2>3, DriverAssumption DEF WatchesOwner
  <2> QED
    BY <2>4, <2>5, <2>6, <2>7
<1>6. ASSUME UNCHANGED drVars
      PROVE  Kept
  BY <1>6 DEF drVars, OneCall, Holds, FailedIsHeld, NotTriedAgain, WatchesOwner
<1>7. Kept
  BY <1>1, <1>2, <1>3, <1>4, <1>5, <1>6, TakeInv, ReleaseInv DEF DriverNext, CallStep
<1>8. DriverTypes'
  BY DriverTypesNext
<1> QED
  BY <1>7, <1>8, Zenon

\* What holds in every state of the driver.
LEMMA DriverInvAlways == DriverSpec => []DriverInv
BY DriverInvInit, DriverInvNext, PTL DEF DriverSpec

(***************************************************************************)
(* watchCtx and the function it returns keep the watcher on the context of *)
(* the call that uses the connection, whatever is canceled when: a context *)
(* canceled late never closes the connection of another call.              *)
(***************************************************************************)
THEOREM WatcherWatchesOwner == DriverSpec => []WatchesOwner
<1>1. DriverInv => WatchesOwner
  BY DEF DriverInv
<1> QED
  BY <1>1, DriverInvAlways, PTL

(***************************************************************************)
(* replyError and IsValid contain a bad connection, for any number of      *)
(* calls and connections: with retries off no statement is performed       *)
(* twice, and no connection on which a statement failed becomes idle.      *)
(***************************************************************************)
THEOREM BadConnIsContained == DriverSpec => []BadConnContained
<1>1. DriverInv => RetriesOffOnce
  <2> SUFFICES ASSUME DriverInv, ~retries, NEW k \in Calls
               PROVE  performed[k] <= 1
    BY DEF RetriesOffOnce
  <2>1. performed[k] = 0 \/ performed[k] = 1
    BY DEF DriverInv, NotTriedAgain
  <2> QED
    BY <2>1
<1>2. DriverInv => FailedNotReused
  BY DEF DriverInv, FailedNotReused, FailedIsHeld, OneCall, Holds, Idle
<1> QED
  BY <1>1, <1>2, DriverInvAlways, PTL DEF BadConnContained

(***************************************************************************)
(* Flashback: the undo of a row change, and of a log, last change first.   *)
(***************************************************************************)
(* A change that a server could apply to a table can be undone there: its  *)
(* flashback applies, and gives the table back as it was, whatever the     *)
(* other rows are.                                                         *)
THEOREM FlashbackRowUndoes ==
  ASSUME NEW tab \in TableStates, NEW c \in Changes, CanApply(tab, c)
  PROVE  /\ CanApply(ApplyRow(tab, c), FlashbackRow(c))
         /\ ApplyRow(ApplyRow(tab, c), FlashbackRow(c)) = tab
<1>0. c.one.k \in RowKeys /\ c.two.k \in RowKeys /\ c.one.v \in RowValues /\ c.two.v \in RowValues
  BY DEF Changes, Images
<1>1. CASE c.type = "write"
  BY <1>0, <1>1, Zenon DEF CanApply, ApplyRow, FlashbackRow, swapFlashbackEventType, TableStates
<1>2. CASE c.type = "delete"
  BY <1>0, <1>2, Zenon DEF CanApply, ApplyRow, FlashbackRow, swapFlashbackEventType, TableStates
<1>3. CASE c.type = "update"
  <2> DEFINE f == [type |-> "update", one |-> c.two, two |-> c.one]
             mid == [[tab EXCEPT ![c.one.k] = Absent] EXCEPT ![c.two.k] = c.two.v]
  <2>1. FlashbackRow(c) = f
    BY <1>3 DEF FlashbackRow, swapFlashbackEventType
  <2>2. ApplyRow(tab, c) = mid
    BY <1>3 DEF ApplyRow
  <2>3. tab[c.one.k] = c.one.v /\ (c.two.k = c.one.k \/ tab[c.two.k] = Absent)
    BY <1>3 DEF CanApply
  <2>4. mid \in TableStates /\ mid[c.two.k] = c.two.v /\ (c.two.k = c.one.k \/ mid[c.one.k] = Absent)
    BY <1>0 DEF TableStates
  <2>5. CanApply(mid, f)
    BY <2>4 DEF CanApply
  <2>6. ApplyRow(mid, f) = [[mid EXCEPT ![c.two.k] = Absent] EXCEPT ![c.one.k] = c.one.v]
    BY DEF ApplyRow
  <2>7. [[mid EXCEPT ![c.two.k] = Absent] EXCEPT ![c.one.k] = c.one.v] = tab
    BY <1>0, <2>3, Zenon DEF TableStates
  <2>8. QED
    BY <2>1, <2>2, <2>5, <2>6, <2>7, Zenon
<1>4. QED
  BY <1>1, <1>2, <1>3 DEF Changes

(* A change leaves a table.                                                *)
LEMMA ApplyRowType ==
  ASSUME NEW tab \in TableStates, NEW c \in Changes
  PROVE  ApplyRow(tab, c) \in TableStates
BY DEF ApplyRow, TableStates, Changes, Images

(* The flashback of a change is a change.                                  *)
LEMMA FlashbackRowType ==
  ASSUME NEW c \in Changes
  PROVE  FlashbackRow(c) \in Changes
BY DEF FlashbackRow, swapFlashbackEventType, Changes

(* Logging one more change.                                                *)
LEMMA ApplyInv ==
  ASSUME UndoInv, NEW c \in Changes, Apply(c)
  PROVE  UndoInv'
<1>1. /\ table \in TableStates /\ logged \in Seq(Changes) /\ earlier \in Seq(TableStates)
      /\ Len(logged) = Len(earlier) /\ CanApply(table, c)
      /\ table' = ApplyRow(table, c) /\ logged' = Append(logged, c) /\ earlier' = Append(earlier, table)
  BY DEF UndoInv, Apply
<1>2. table' \in TableStates
  BY <1>1, ApplyRowType
<1>3. /\ logged' \in Seq(Changes) /\ earlier' \in Seq(TableStates)
      /\ Len(logged') = Len(logged) + 1 /\ Len(earlier') = Len(logged) + 1 /\ Len(logged) \in Nat
      /\ logged'[Len(logged) + 1] = c /\ earlier'[Len(logged) + 1] = table
      /\ \A i \in 1..Len(logged) : logged'[i] = logged[i] /\ earlier'[i] = earlier[i]
  BY <1>1
<1>4. ASSUME NEW i \in 1..Len(logged')
      PROVE  CanApply(earlier'[i], logged'[i]) /\ ApplyRow(earlier'[i], logged'[i]) = After(i)'
  <2>1. CASE i = Len(logged) + 1
    BY <1>1, <1>3, <2>1 DEF After
  <2>2. CASE i \in 1..Len(logged)
    <3>1. CanApply(earlier[i], logged[i]) /\ ApplyRow(earlier[i], logged[i]) = After(i)
      BY <2>2 DEF UndoInv
    <3>2. After(i)' = earlier'[i + 1]
      BY <1>3, <2>2 DEF After
    <3>3. earlier'[i + 1] = After(i)
      BY <1>3, <2>2 DEF After
    <3>4. QED
      BY <1>3, <2>2, <3>1, <3>2, <3>3
  <2>3. QED
    BY <1>3, <2>1, <2>2
<1>5. QED
  BY <1>2, <1>3, <1>4, Zenon DEF UndoInv

(* The last change of the log can be undone.                               *)
LEMMA LastUndone ==
  ASSUME UndoInv
  PROVE  UndoRestores
<1>1. SUFFICES ASSUME logged # <<>>
               PROVE  /\ CanApply(table, FlashbackRow(logged[Len(logged)]))
                      /\ ApplyRow(table, FlashbackRow(logged[Len(logged)])) = earlier[Len(logged)]
  BY DEF UndoRestores
<1>2. Len(logged) \in 1..Len(logged) /\ logged[Len(logged)] \in Changes /\ earlier[Len(logged)] \in TableStates
  BY <1>1 DEF UndoInv
<1>3. /\ CanApply(earlier[Len(logged)], logged[Len(logged)])
      /\ ApplyRow(earlier[Len(logged)], logged[Len(logged)]) = table
  BY <1>2 DEF UndoInv, After
<1>4. QED
  BY <1>2, <1>3, FlashbackRowUndoes

(* Undoing one change.                                                     *)
LEMMA UndoStepInv ==
  ASSUME UndoInv, Undo
  PROVE  UndoInv'
<1> DEFINE n == Len(logged) - 1
<1>1. /\ logged # <<>> /\ logged' = SubSeq(logged, 1, n) /\ earlier' = SubSeq(earlier, 1, n)
      /\ logged \in Seq(Changes) /\ earlier \in Seq(TableStates) /\ Len(earlier) = n + 1
      /\ n \in Nat /\ Len(logged) = n + 1
  BY DEF UndoInv, Undo, ButLast
<1>2. table' = earlier[n + 1] /\ table' \in TableStates
  BY <1>1, LastUndone DEF Undo, UndoRestores
<1>3. /\ logged' \in Seq(Changes) /\ earlier' \in Seq(TableStates)
      /\ Len(logged') = n /\ Len(earlier') = n
      /\ \A i \in 1..n : logged'[i] = logged[i] /\ earlier'[i] = earlier[i]
  BY <1>1
<1>4. ASSUME NEW i \in 1..n
      PROVE  CanApply(earlier'[i], logged'[i]) /\ ApplyRow(earlier'[i], logged'[i]) = After(i)'
  <2>1. CanApply(earlier[i], logged[i]) /\ ApplyRow(earlier[i], logged[i]) = After(i)
    BY <1>1 DEF UndoInv
  <2>2. After(i) = earlier[i + 1]
    BY <1>1 DEF After
  <2>3. After(i)' = earlier[i + 1]
    BY <1>1, <1>2, <1>3 DEF After
  <2>4. QED
    BY <1>3, <2>1, <2>2, <2>3
<1>5. QED
  BY <1>2, <1>3, <1>4 DEF UndoInv

(* For a log of any length: undoing it from its end never fails, and leads *)
(* back through every state of the table to the first.                     *)
THEOREM FlashbackLogUndoes == UndoSpec => []UndoRestores
<1>1. UndoInit => UndoInv
  BY DEF UndoInit, UndoInv
<1>2. UndoInv /\ [UndoNext]_undoVars => UndoInv'
  <2> SUFFICES ASSUME UndoInv, [UndoNext]_undoVars
               PROVE  UndoInv'
    OBVIOUS
  <2>1. ASSUME NEW c \in Changes, Apply(c)
        PROVE  UndoInv'
    BY <2>1, ApplyInv
  <2>2. CASE Turn
    BY <2>2 DEF Turn, UndoInv, After
  <2>3. CASE Undo
    BY <2>3, UndoStepInv
  <2>4. CASE UNCHANGED undoVars
    BY <2>4 DEF undoVars, UndoInv, After
  <2>5. QED
    BY <2>1, <2>2, <2>3, <2>4 DEF UndoNext
<1>3. UndoInv => UndoRestores
  BY LastUndone
<1>4. QED
  BY <1>1, <1>2, <1>3, PTL DEF UndoSpec

-----------------------------------------------------------------------------
(***************************************************************************)
(* Slices of intervals and the order of binlog positions, for every slice  *)
(* and every position.                                                     *)
(***************************************************************************)
\* The bounds of the intervals of a slice are numbers.
LEMMA SliceTypes ==
  ASSUME NEW s \in Seq(Interval), NEW k \in DOMAIN s
  PROVE  s[k].start \in Nat /\ s[k].stop \in Nat
<1>1. s[k] \in Interval
  OBVIOUS
<1> QED
  BY <1>1 DEF Interval

\* sort.Search finds the first interval that does not end before x, or one past
\* the end.
LEMMA SearchFinds ==
  ASSUME NEW s \in Seq(Interval), NEW x \in Nat
  PROVE  LET j == Search(s, x)
         IN  /\ j \in 1 .. Len(s) + 1
             /\ j <= Len(s) => x <= s[j].stop
             /\ \A k \in 1 .. j - 1 : s[k].stop < x
<1> DEFINE T == {j \in 1 .. Len(s) + 1 : j <= Len(s) => x <= s[j].stop}
           P(j) == /\ j <= Len(s) => x <= s[j].stop
                   /\ \A k \in 1 .. j - 1 : ~ (x <= s[k].stop)
<1>1. Len(s) + 1 \in T /\ T \subseteq Nat
  OBVIOUS
<1>2. PICK j \in T : \A y \in T : ~ (<<y, j>> \in OpToRel(<, Nat))
  <2> HIDE DEF T, P
  <2>1. T # {}
    BY <1>1, Zenon
  <2> QED
    BY <1>1, <2>1, NatLessThanWellFounded, WFMin, Zenon
<1>3. ASSUME NEW y \in T
      PROVE  j <= y
  <2>1. j \in Nat /\ y \in Nat
    BY <1>1, <1>3
  <2>2. y < j => <<y, j>> \in OpToRel(<, Nat)
    BY <2>1 DEF OpToRel
  <2>3. ~ (y < j)
    BY <1>2, <1>3, <2>2, Zenon
  <2> QED
    BY <2>1, <2>3
<1>4. \A k \in 1 .. j - 1 : ~ (x <= s[k].stop)
  BY <1>3
<1>5. \E i \in 1 .. Len(s) + 1 : P(i)
  BY <1>4
<1>6. Search(s, x) \in 1 .. Len(s) + 1 /\ P(Search(s, x))
  BY <1>5, Zenon DEF Search
<1> DEFINE m == Search(s, x)
<1> HIDE DEF m
<1>7. m \in 1 .. Len(s) + 1 /\ P(m)
  BY <1>6, Zenon DEF m
<1>8. ASSUME NEW k \in 1 .. m - 1
      PROVE  s[k].stop \in Nat
  <2> HIDE DEF P, T
  <2>1. k \in 1 .. Len(s)
    BY <1>7
  <2>2. s[k] \in Interval
    BY <2>1
  <2> QED
    BY <2>2 DEF Interval
<1> QED
  BY <1>7, <1>8 DEF m

\* IntervalSlice.Contain asks for the right thing: in a normalized slice an
\* interval is contained, by one search and one comparison, exactly when every
\* transaction number of it is in some interval of the slice.
THEOREM ContainIntervalExact ==
  ASSUME NEW s \in Seq(Interval), Normal(s),
         NEW i \in Interval, i.start < i.stop
  PROVE  ContainInterval(s, i) <=> Members(i) \subseteq Covered(s)
<1> DEFINE j == Search(s, i.start)
<1>a. i.start \in Nat /\ i.stop \in Nat /\ i.start < i.stop
  BY DEF Interval
<1>b. \A k \in DOMAIN s : s[k].start \in Nat /\ s[k].stop \in Nat
  BY SliceTypes
<1>c. /\ j \in 1 .. Len(s) + 1
      /\ j <= Len(s) => i.start <= s[j].stop
      /\ \A k \in 1 .. j - 1 : s[k].stop < i.start
  BY <1>a, SearchFinds, Zenon
<1>d. \A k, l \in DOMAIN s : k < l => s[k].stop < s[l].start
  BY DEF Normal
<1>1. ASSUME ContainInterval(s, i), NEW n \in Members(i)
      PROVE  n \in Covered(s)
  <2>1. j \in DOMAIN s /\ s[j].start <= i.start /\ i.stop <= s[j].stop
    BY <1>1, <1>a, <1>b, <1>c DEF ContainInterval
  <2>2. n \in Members(s[j])
    BY <1>1, <1>a, <1>b, <2>1 DEF Members
  <2> QED
    BY <2>1, <2>2 DEF Covered
<1>2. ASSUME Members(i) \subseteq Covered(s)
      PROVE  ContainInterval(s, i)
  <2>1. i.start \in Members(i)
    BY <1>a DEF Members
  <2>2. PICK k \in DOMAIN s : i.start \in Members(s[k])
    BY <1>2, <2>1 DEF Covered
  <2>3. s[k].start <= i.start /\ i.start < s[k].stop
    BY <1>a, <1>b, <2>2 DEF Members
  <2>4. j <= k
    <3>1. k \in 1 .. Len(s) /\ s[k].stop \in Nat
      BY <1>b, <2>2
    <3>2. ~ (k \in 1 .. j - 1)
      BY <1>a, <1>c, <2>3, <3>1
    <3> QED
      BY <1>c, <3>1, <3>2
  <2>5. j = k
    <3>1. SUFFICES ASSUME j < k PROVE FALSE
      BY <1>c, <2>4
    <3>2. j \in DOMAIN s /\ s[j].stop < s[k].start
      BY <1>c, <1>d, <3>1
    <3> QED
      BY <1>a, <1>b, <1>c, <2>3, <3>1, <3>2
  <2>6. i.stop <= s[k].stop
    <3>1. SUFFICES ASSUME s[k].stop < i.stop PROVE FALSE
      BY <1>a, <1>b
    <3>2. s[k].stop \in Members(i)
      BY <1>a, <1>b, <2>3, <3>1 DEF Members
    <3>3. PICK l \in DOMAIN s : s[k].stop \in Members(s[l])
      BY <1>2, <3>2 DEF Covered
    <3>4. s[l].start <= s[k].stop /\ s[k].stop < s[l].stop
      BY <1>b, <3>3 DEF Members
    <3>5. s[k].start < s[k].stop /\ s[l].start < s[l].stop
      BY DEF Normal
    <3>6. CASE k < l
      BY <1>b, <1>d, <3>4, <3>6
    <3>7. CASE l < k
      <4>1. s[l].stop < s[k].start
        BY <1>d, <3>7
      <4> QED
        BY <1>b, <3>4, <3>5, <4>1
    <3>8. CASE l = k
      BY <1>b, <3>4, <3>8
    <3> QED
      BY <3>6, <3>7, <3>8
  <2> QED
    BY <1>a, <1>b, <1>c, <2>3, <2>5, <2>6 DEF ContainInterval
<1> QED
  BY <1>1, <1>2

\* The loop of Normalize: when the intervals come sorted by their start, one
\* turn keeps the result normalized and adds exactly the transactions of the
\* next interval.
THEOREM MergeNextExact ==
  ASSUME NEW n \in Seq(Interval), n # <<>>, Normal(n),
         NEW i \in Interval, i.start < i.stop, n[Len(n)].start <= i.start
  PROVE  /\ MergeNext(n, i) \in Seq(Interval)
         /\ Normal(MergeNext(n, i))
         /\ Covered(MergeNext(n, i)) = Covered(n) \cup Members(i)
<1> DEFINE last == n[Len(n)]
           top == IF i.stop > last.stop THEN i.stop ELSE last.stop
           r == [n EXCEPT ![Len(n)].stop = IF i.stop > last.stop THEN i.stop ELSE last.stop]
<1>a. i.start \in Nat /\ i.stop \in Nat
  BY DEF Interval
<1>b. \A k \in DOMAIN n : n[k].start \in Nat /\ n[k].stop \in Nat
  BY SliceTypes
<1>c. Len(n) \in Nat /\ Len(n) > 0 /\ Len(n) \in DOMAIN n /\ DOMAIN n = 1 .. Len(n)
  OBVIOUS
<1>d. /\ \A k \in DOMAIN n : n[k].start < n[k].stop
      /\ \A k, l \in DOMAIN n : k < l => n[k].stop < n[l].start
  BY DEF Normal
<1>1. CASE i.start > last.stop
  <2> DEFINE q == Append(n, i)
  <2>1. MergeNext(n, i) = q
    BY <1>1 DEF MergeNext
  <2>2. /\ q \in Seq(Interval) /\ DOMAIN q = 1 .. Len(n) + 1
        /\ q[Len(n) + 1] = i
        /\ \A k \in DOMAIN n : q[k] = n[k]
    OBVIOUS
  <2>3. ASSUME NEW k \in DOMAIN n
        PROVE  n[k].stop < i.start
    <3>1. CASE k = Len(n)
      BY <1>1, <3>1, <1>a, <1>b
    <3>2. CASE k < Len(n)
      <4>1. n[k].stop < last.start /\ last.start < last.stop
        BY <1>c, <1>d, <3>2
      <4> QED
        BY <1>1, <1>a, <1>b, <1>c, <4>1
    <3> QED
      BY <1>c, <3>1, <3>2
  <2>4. Normal(q)
    <3>1. \A k \in DOMAIN q : q[k].start < q[k].stop
      BY <1>c, <1>d, <2>2
    <3>2. ASSUME NEW k \in DOMAIN q, NEW l \in DOMAIN q, k < l
          PROVE  q[k].stop < q[l].start
      <4>1. k \in DOMAIN n
        BY <1>c, <2>2, <3>2
      <4>2. CASE l \in DOMAIN n
        BY <1>d, <2>2, <3>2, <4>1, <4>2
      <4>3. CASE l = Len(n) + 1
        BY <2>2, <2>3, <4>1, <4>3
      <4> QED
        BY <1>c, <2>2, <4>2, <4>3
    <3> QED
      BY <3>1, <3>2 DEF Normal
  <2>5. Covered(q) = Covered(n) \cup Members(i)
    <3>1. DOMAIN q = DOMAIN n \cup {Len(n) + 1}
      BY <1>c, <2>2
    <3> QED
      BY <2>2, <3>1, Zenon DEF Covered
  <2> QED
    BY <2>1, <2>2, <2>4, <2>5
<1>2. CASE i.start <= last.stop
  <2>1. MergeNext(n, i) = r
    <3>1. ~ (i.start > n[Len(n)].stop)
      BY <1>2, <1>a, <1>b, <1>c
    <3> QED
      BY <3>1, Zenon DEF MergeNext
  <2>t. top \in Nat /\ top >= last.stop /\ top >= i.stop /\ (top = i.stop \/ top = last.stop)
    BY <1>a, <1>b, <1>c
  <2>2. /\ r \in Seq(Interval) /\ DOMAIN r = DOMAIN n
        /\ r[Len(n)].start = last.start /\ r[Len(n)].stop = top
        /\ \A k \in DOMAIN n : k # Len(n) => r[k] = n[k]
    <3>1. n[Len(n)] \in Interval
      BY <1>c
    <3>2. [n[Len(n)] EXCEPT !.stop = top] \in Interval
      BY <2>t, <3>1 DEF Interval
    <3>3. r = [n EXCEPT ![Len(n)] = [n[Len(n)] EXCEPT !.stop = top]]
      BY <1>c
    <3>4. r \in Seq(Interval) /\ DOMAIN r = DOMAIN n
      BY <1>c, <3>2, <3>3
    <3>5. r[Len(n)] = [n[Len(n)] EXCEPT !.stop = top]
      BY <1>c, <3>3
    <3>6. r[Len(n)].start = last.start /\ r[Len(n)].stop = top
      BY <3>1, <3>5 DEF Interval
    <3>7. \A k \in DOMAIN n : k # Len(n) => r[k] = n[k]
      BY <1>c, <3>3
    <3> QED
      BY <3>4, <3>6, <3>7
  <2>3. Normal(r)
    <3>1. \A k \in DOMAIN r : r[k].start < r[k].stop
      BY <1>b, <1>c, <1>d, <2>t, <2>2
    <3>2. ASSUME NEW k \in DOMAIN r, NEW l \in DOMAIN r, k < l
          PROVE  r[k].stop < r[l].start
      <4>1. k # Len(n) /\ r[k] = n[k] /\ n[k].stop < n[l].start
        BY <1>c, <1>d, <2>2, <3>2
      <4>2. r[l].start = n[l].start
        BY <2>2
      <4> QED
        BY <4>1, <4>2
    <3> QED
      BY <3>1, <3>2 DEF Normal
  <2>4. Members(r[Len(n)]) = Members(last) \cup Members(i)
    <3>1. /\ last.start < last.stop /\ last.start \in Nat /\ last.stop \in Nat
          /\ last.start <= i.start
      BY <1>b, <1>c, <1>d
    <3>2. Members(r[Len(n)]) = last.start .. (top - 1)
      BY <2>2 DEF Members
    <3>3. \A x \in Int : last.start <= x /\ x <= top - 1 <=>
            (last.start <= x /\ x <= last.stop - 1) \/ (i.start <= x /\ x <= i.stop - 1)
      <4> HIDE DEF last, top
      <4> QED
        BY <1>2, <1>a, <2>t, <3>1
    <3>4. Members(last) = last.start .. (last.stop - 1) /\ Members(i) = i.start .. (i.stop - 1)
      BY DEF Members
    <3> HIDE DEF top, last
    <3>5. last.start .. (top - 1) = (last.start .. (last.stop - 1)) \cup (i.start .. (i.stop - 1))
      BY <1>a, <2>t, <3>1, <3>3
    <3> QED
      BY <3>2, <3>4, <3>5, Zenon
  <2>5. Covered(r) = Covered(n) \cup Members(i)
    <3>1. ASSUME NEW x \in Covered(r)
          PROVE  x \in Covered(n) \cup Members(i)
      <4>1. PICK k \in DOMAIN n : x \in Members(r[k])
        BY <2>2, <3>1 DEF Covered
      <4>2. CASE k = Len(n)
        BY <1>c, <2>4, <4>1, <4>2 DEF Covered
      <4>3. CASE k # Len(n)
        BY <2>2, <4>1, <4>3 DEF Covered
      <4> QED
        BY <4>2, <4>3
    <3>2. ASSUME NEW x \in Covered(n) \cup Members(i)
          PROVE  x \in Covered(r)
      <4>1. CASE x \in Members(i) \cup Members(last)
        BY <1>c, <2>2, <2>4, <4>1 DEF Covered
      <4>2. CASE x \in Covered(n)
        <5>1. PICK k \in DOMAIN n : x \in Members(n[k])
          BY <4>2 DEF Covered
        <5>2. CASE k = Len(n)
          BY <4>1, <5>1, <5>2
        <5>3. CASE k # Len(n)
          BY <2>2, <5>1, <5>3 DEF Covered
        <5> QED
          BY <5>2, <5>3
      <4> QED
        BY <3>2, <4>1, <4>2
    <3> QED
      BY <3>1, <3>2, Zenon
  <2> QED
    BY <2>1, <2>2, <2>3, <2>5, Zenon
<1> QED
  BY <1>1, <1>2, <1>a, <1>b, <1>c

FileName == [base : Nat \cup {-1}, seq : Nat]

Positions == [name : FileName, pos : Nat]

\* Position.Compare is a total order on positions: swapping the arguments
\* changes the sign, and "not after" is transitive, across empty names, other
\* bases and file numbers.
THEOREM CompareOrders ==
  ASSUME NEW p \in Positions, NEW q \in Positions, NEW r \in Positions
  PROVE  /\ Compare(p, q) = - Compare(q, p)
         /\ Compare(p, q) <= 0 /\ Compare(q, r) <= 0 => Compare(p, r) <= 0
<1>1. /\ p.name \in FileName /\ q.name \in FileName /\ r.name \in FileName
      /\ p.pos \in Nat /\ q.pos \in Nat /\ r.pos \in Nat
  BY DEF Positions
<1> DEFINE F(a, b) == CompareBinlogFileName(a, b)
<1>2. ASSUME NEW a \in FileName, NEW b \in FileName
      PROVE  /\ F(a, b) \in {-1, 0, 1}
             /\ F(a, b) = - F(b, a)
  BY DEF CompareBinlogFileName, NoName, FileName, Cmp
<1>3. ASSUME NEW a \in FileName, NEW b \in FileName, NEW c \in FileName
      PROVE  /\ F(a, b) <= 0 /\ F(b, c) <= 0 => F(a, c) <= 0
             /\ F(a, b) <= 0 /\ F(b, c) <= 0 /\ F(a, c) = 0 => F(a, b) = 0 /\ F(b, c) = 0
  BY DEF CompareBinlogFileName, NoName, FileName, Cmp
<1> HIDE DEF F
<1>4. \A x, y \in Positions : Compare(x, y) = IF F(x.name, y.name) # 0 THEN F(x.name, y.name)
                                             ELSE Cmp(x.pos, y.pos)
  BY DEF Compare, F
<1>5. Compare(p, q) = - Compare(q, p)
  BY <1>1, <1>2, <1>4 DEF Cmp
<1>6. ASSUME Compare(p, q) <= 0, Compare(q, r) <= 0
      PROVE  Compare(p, r) <= 0
  <2>1. F(p.name, q.name) <= 0 /\ F(q.name, r.name) <= 0
    BY <1>1, <1>2, <1>4, <1>6 DEF Cmp
  <2>2. F(p.name, r.name) <= 0
    BY <1>1, <1>3, <2>1
  <2>3. CASE F(p.name, r.name) # 0
    BY <1>4, <2>2, <2>3
  <2>4. CASE F(p.name, r.name) = 0
    <3>1. F(p.name, q.name) = 0 /\ F(q.name, r.name) = 0
      BY <1>1, <1>3, <2>1, <2>4
    <3>2. Cmp(p.pos, q.pos) <= 0 /\ Cmp(q.pos, r.pos) <= 0
      BY <1>4, <1>6, <3>1
    <3> QED
      BY <1>1, <1>4, <2>4, <3>2 DEF Cmp
  <2> QED
    BY <2>3, <2>4
<1> QED
  BY <1>5, <1>6
=============================================================================
