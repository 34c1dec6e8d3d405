---------------------------- MODULE StreamResult ----------------------------
(***************************************************************************)
(* mysql.StreamResult: the rows of a result handed, one at a time, from a   *)
(* goroutine of the application (the producer) to the goroutine that serves *)
(* the client (writeStreamResultset in server/resp.go).                     *)
(*                                                                         *)
(* rowsChan is `chan`, a Go channel of capacity BufSize; closing it and     *)
(* closing `done` are two steps of Close, in that order, under the mutex.   *)
(* The producer follows the usage pattern in the comment of StreamResult,   *)
(* and records an error with SetError when it stops early.  A row is a      *)
(* number, its place in the result; the values of a row are left out, and   *)
(* formatting one may fail.                                                 *)
(***************************************************************************)
EXTENDS Integers, Sequences

CONSTANTS BufSize,   \* the bufSize of NewStreamResult
          Rows       \* the rows the producer has to write

ASSUME StreamAssumption == BufSize \in Nat /\ Rows \in Nat

VARIABLES chan,      \* rows in rowsChan
          closed,    \* which of "done" and "rowsChan" have been closed
          closer,    \* who is inside Close: "none", "producer" or "writer"
          srErr,     \* sr.err is set
          canceled,  \* the producer's context is done
          producer,  \* [at, row]: where the producer is, and its next row
          writer,    \* where writeStreamResultset is
          client     \* [rows, end]: what the client has read of the result

stVars == <<chan, closed, closer, srErr, canceled, producer, writer, client>>

(* NewStreamResult, and a handler that returned sr.AsResult().             *)
StreamInit ==
  /\ chan = <<>> /\ closed = {} /\ closer = "none"
  /\ srErr = FALSE /\ canceled = FALSE
  /\ producer = [at |-> "loop", row |-> 1]
  /\ writer = "fields"
  /\ client = [rows |-> <<>>, end |-> "none"]

(* A send can proceed: the buffer has room, or the reader waits for a row. *)
CanSend == Len(chan) < BufSize \/ (chan = <<>> /\ writer = "rows")

-----------------------------------------------------------------------------
(* The producer.                                                            *)

LastRow ==
  /\ producer.at = "loop" /\ producer.row > Rows
  /\ producer' = [producer EXCEPT !.at = "close"]
  /\ UNCHANGED <<chan, closed, closer, srErr, canceled, writer, client>>

(* A failure of the application ends the rows early.                       *)
ProducerFails ==
  /\ producer.at = "loop" /\ producer.row <= Rows
  /\ producer' = [producer EXCEPT !.at = "fail"]
  /\ UNCHANGED <<chan, closed, closer, srErr, canceled, writer, client>>

SendRow ==
  /\ "rowsChan" \notin closed /\ CanSend
  /\ chan' = Append(chan, producer.row)
  /\ producer' = [producer EXCEPT !.row = @ + 1]

(* A send on a closed channel is a ready case of the select: it panics,    *)
(* and the program ends.                                                    *)
SendPanics ==
  /\ "rowsChan" \in closed
  /\ producer' = [producer EXCEPT !.at = "panic"]
  /\ UNCHANGED chan

StreamDone ==
  /\ canceled \/ "done" \in closed
  /\ producer' = [producer EXCEPT !.at = "fail"]
  /\ UNCHANGED chan

(* The cases of the select that are ready; it takes any of them.           *)
WriteRow ==
  /\ producer.at = "loop" /\ producer.row <= Rows
  /\ SendRow \/ SendPanics \/ StreamDone
  /\ UNCHANGED <<closed, closer, srErr, canceled, writer, client>>

SetError ==
  /\ producer.at = "fail" /\ closer = "none"
  /\ srErr' = TRUE
  /\ producer' = [producer EXCEPT !.at = "close"]
  /\ UNCHANGED <<chan, closed, closer, canceled, writer, client>>

CancelContext ==
  /\ ~canceled /\ canceled' = TRUE
  /\ UNCHANGED <<chan, closed, closer, srErr, producer, writer, client>>

-----------------------------------------------------------------------------
(* Close, by the producer's defer and by the writer's.                     *)

Leave(who) ==
  IF who = "producer"
  THEN producer' = [producer EXCEPT !.at = "ended"] /\ UNCHANGED writer
  ELSE writer' = "ended" /\ UNCHANGED producer

At(who) == IF who = "producer" THEN producer.at ELSE writer

(* Take the mutex; a stream that is already closed is left alone.          *)
CloseDone(who) ==
  /\ At(who) = "close" /\ closer = "none"
  /\ IF "done" \in closed
     THEN Leave(who) /\ UNCHANGED <<closed, closer>>
     ELSE /\ closed' = closed \cup {"done"} /\ closer' = who
          /\ UNCHANGED <<producer, writer>>
  /\ UNCHANGED <<chan, srErr, canceled, client>>

CloseRowsChan(who) ==
  /\ closer = who
  /\ closed' = closed \cup {"rowsChan"} /\ closer' = "none"
  /\ Leave(who)
  /\ UNCHANGED <<chan, srErr, canceled, client>>

-----------------------------------------------------------------------------
(* writeStreamResultset.                                                    *)

(* A mutant: returning from a failed write of the fields before the        *)
(* deferred Close is set up.                                               *)
WriteFieldsLeaves ==
  /\ writer = "fields"
  /\ \/ writer' = "rows" /\ UNCHANGED client
     \/ writer' = "ended" /\ client' = [client EXCEPT !.end = "error"]
  /\ UNCHANGED <<chan, closed, closer, srErr, canceled, producer>>

(* The column count and the fields; WritePacket may fail.                  *)
WriteFields ==
  /\ writer = "fields"
  /\ \/ writer' = "rows" /\ UNCHANGED client
     \/ writer' = "close" /\ client' = [client EXCEPT !.end = "error"]
  /\ UNCHANGED <<chan, closed, closer, srErr, canceled, producer>>

(* One iteration of the range over RowsChan: format the row and write it.  *)
WriteStreamRow ==
  /\ writer = "rows" /\ chan # <<>>
  /\ chan' = Tail(chan)
  /\ \/ client' = [client EXCEPT !.rows = Append(@, Head(chan))] /\ UNCHANGED writer
     \/ client' = [client EXCEPT !.end = "error"] /\ writer' = "close"
  /\ UNCHANGED <<closed, closer, srErr, canceled, producer>>

(* A mutant: the end of the rows taken for a success without reading Err.  *)
RowsEndedUnchecked ==
  /\ writer = "rows" /\ chan = <<>> /\ "rowsChan" \in closed /\ closer = "none"
  /\ writer' = "close"
  /\ client' = [client EXCEPT !.end = "eof"]
  /\ UNCHANGED <<chan, closed, closer, srErr, canceled, producer>>

(* The channel is closed and drained; sr.Err needs the mutex.  An error is *)
(* not written: the connection is closed instead.                          *)
RowsEnded ==
  /\ writer = "rows" /\ chan = <<>> /\ "rowsChan" \in closed /\ closer = "none"
  /\ writer' = "close"
  /\ client' = [client EXCEPT !.end = IF srErr THEN "error" ELSE "eof"]
  /\ UNCHANGED <<chan, closed, closer, srErr, canceled, producer>>

StreamNext ==
  \/ LastRow \/ ProducerFails \/ WriteRow \/ SetError \/ CancelContext
  \/ \E who \in {"producer", "writer"} : CloseDone(who) \/ CloseRowsChan(who)
  \/ WriteFields \/ WriteStreamRow \/ RowsEnded

StreamSpec == StreamInit /\ [][StreamNext]_stVars

StreamProducer ==
  LastRow \/ WriteRow \/ SetError \/ CloseDone("producer") \/ CloseRowsChan("producer")

StreamWriter ==
  WriteFields \/ WriteStreamRow \/ RowsEnded \/ CloseDone("writer") \/ CloseRowsChan("writer")

(* Go runs every goroutine that can run.                                   *)
StreamFairness == WF_stVars(StreamProducer) /\ WF_stVars(StreamWriter)

-----------------------------------------------------------------------------
(* A client that reads the end of a streamed result has read every row of  *)
(* it, in order; before that it has read a prefix.  A producer that stops   *)
(* early, a canceled context and a failing write end the result otherwise. *)
StreamExact ==
  /\ client.rows = [i \in 1..Len(client.rows) |-> i]
  /\ client.end = "eof" => Len(client.rows) = Rows

(* server/resp.go:171: the stream is closed "whether successful or not",   *)
(* so neither goroutine waits for the other for ever.                      *)
StreamReleased == <>(producer.at \in {"ended", "panic"}) /\ <>(writer = "ended" \/ producer.at = "panic")
=============================================================================
