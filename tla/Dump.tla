-------------------------------- MODULE Dump --------------------------------
(***************************************************************************)
(* Dumper.DumpAndParse of dump/: mysqldump runs as a process whose output   *)
(* os/exec copies into an io.Pipe, and Parse reads the pipe in a goroutine  *)
(* and calls a ParseHandler.  A line is a record; a row is its number, the  *)
(* lines that Parse ignores are left out, and what an INSERT line's values  *)
(* are is the subject of DumpValues.                                        *)
(***************************************************************************)
EXTENDS Integers, Sequences, SequencesExt

CONSTANTS DumpRows,     \* rows of each of the two databases
          StdoutCap     \* lines that fit into mysqldump's stdout

VARIABLES dumpOf,       \* "databases" or "tables": what the Dumper was told
          masterData,   \* ~d.masterDataSkipped
          dumpProc,     \* [at, line]: the process, and the lines it printed
          stdout,       \* [lines, open]: the pipe of the operating system
          pipe,         \* [line, w, r]: the io.Pipe, and how its ends were closed
          copier,       \* os/exec's copying goroutine
          parse,        \* [at, db, binlog, err]: the goroutine of Parse
          dumpMain,     \* where DumpAndParse is, and the error of Dump
          handed        \* what the ParseHandler was called with

dumpVars == <<dumpOf, masterData, dumpProc, stdout, pipe, copier, parse, dumpMain, handed>>

None == [kind |-> "none"]

(* The output of mysqldump (external): the position, then the rows of each  *)
(* database after its USE line, which is missing when tables are named.     *)
RowsOf(d) == [i \in 1..DumpRows |-> [kind |-> "insert", db |-> d, row |-> i]]
UseLine(d) == [kind |-> "use", db |-> d]
DumpLines ==
  (IF masterData THEN <<[kind |-> "gtid"], [kind |-> "binlog"]>> ELSE <<>>) \o
  (IF dumpOf = "tables" THEN RowsOf("d1")
   ELSE <<UseLine("d1")>> \o RowsOf("d1") \o <<UseLine("d2")>> \o RowsOf("d2"))

DumpInit ==
  /\ dumpOf \in {"databases", "tables"} /\ masterData \in BOOLEAN
  /\ dumpProc = [at |-> "not started", line |-> 0]
  /\ stdout = [lines |-> <<>>, open |-> TRUE]
  /\ pipe = [line |-> None, w |-> "open", r |-> "open"]
  /\ copier = "not started"
  /\ parse = [at |-> "reading", db |-> "", binlog |-> FALSE, err |-> "none"]
  /\ dumpMain = [at |-> "use", err |-> "none"]
  /\ handed = <<>>

-----------------------------------------------------------------------------
(* Dump.                                                                    *)

(* Without database names in the output the USE line is written into the   *)
(* pipe first; the write waits for the reader.                             *)
WriteUse ==
  /\ dumpMain.at = "use"
  /\ IF dumpOf = "tables" THEN pipe' = [pipe EXCEPT !.line = UseLine("d1")] ELSE UNCHANGED pipe
  /\ dumpMain' = [dumpMain EXCEPT !.at = "start"]
  /\ UNCHANGED <<dumpOf, masterData, dumpProc, stdout, copier, parse, handed>>

(* cmd.Start, which fails when there is no mysqldump to run.               *)
StartDump ==
  /\ dumpMain.at = "start" /\ pipe.line = None
  /\ \/ /\ dumpProc' = [dumpProc EXCEPT !.at = "running"] /\ copier' = "copying"
        /\ dumpMain' = [dumpMain EXCEPT !.at = "wait"]
     \/ /\ dumpMain' = [at |-> "close", err |-> "start"] /\ UNCHANGED <<dumpProc, copier>>
  /\ UNCHANGED <<dumpOf, masterData, stdout, pipe, parse, handed>>

(* cmd.Wait: the process and the copying have ended.                       *)
WaitDump ==
  /\ dumpMain.at = "wait" /\ dumpProc.at \in {"succeeded", "failed"} /\ copier \in {"ended", "failed"}
  /\ dumpMain' = [at |-> "close", err |-> CASE dumpProc.at = "failed" -> "exit"
                                            [] copier = "failed" -> "copy"
                                            [] OTHER -> "none"]
  /\ UNCHANGED <<dumpOf, masterData, dumpProc, stdout, pipe, copier, parse, handed>>

(* A mutant: the pipe is closed without the error of mysqldump.            *)
ClosePipeClean ==
  /\ dumpMain.at = "close" /\ dumpMain' = [dumpMain EXCEPT !.at = "done"]
  /\ pipe' = [pipe EXCEPT !.w = "eof"]
  /\ UNCHANGED <<dumpOf, masterData, dumpProc, stdout, copier, parse, handed>>

(* w.CloseWithError(err): without an error the reader sees the end.        *)
ClosePipe ==
  /\ dumpMain.at = "close" /\ dumpMain' = [dumpMain EXCEPT !.at = "done"]
  /\ pipe' = [pipe EXCEPT !.w = IF dumpMain.err = "none" THEN "eof" ELSE "error"]
  /\ UNCHANGED <<dumpOf, masterData, dumpProc, stdout, copier, parse, handed>>

(* err = <-done                                                            *)
DumpReturns ==
  /\ dumpMain.at = "done" /\ parse.at = "ended"
  /\ dumpMain' = [dumpMain EXCEPT !.at = "returned"]
  /\ UNCHANGED <<dumpOf, masterData, dumpProc, stdout, pipe, copier, parse, handed>>

-----------------------------------------------------------------------------
(* mysqldump and os/exec (external).                                        *)

DumperPrints ==
  /\ dumpProc.at = "running" /\ dumpProc.line < Len(DumpLines)
  /\ IF stdout.open
     THEN /\ Len(stdout.lines) < StdoutCap
          /\ stdout' = [stdout EXCEPT !.lines = Append(@, DumpLines[dumpProc.line + 1])]
          /\ dumpProc' = [dumpProc EXCEPT !.line = @ + 1]
     ELSE dumpProc' = [dumpProc EXCEPT !.at = "failed"] /\ UNCHANGED stdout
  /\ UNCHANGED <<dumpOf, masterData, pipe, copier, parse, dumpMain, handed>>

DumperExits ==
  /\ dumpProc.at = "running" /\ dumpProc.line = Len(DumpLines)
  /\ dumpProc' = [dumpProc EXCEPT !.at = "succeeded"]
  /\ UNCHANGED <<dumpOf, masterData, stdout, pipe, copier, parse, dumpMain, handed>>

(* The server goes away: mysqldump prints an error and exits.              *)
DumperFails ==
  /\ dumpProc.at = "running" /\ dumpProc' = [dumpProc EXCEPT !.at = "failed"]
  /\ UNCHANGED <<dumpOf, masterData, stdout, pipe, copier, parse, dumpMain, handed>>

(* io.Copy into the pipe; a write fails once the reader has closed it, and *)
(* the read end of stdout is closed.                                       *)
CopyLine ==
  /\ copier = "copying" /\ pipe.line = None /\ stdout.lines # <<>>
  /\ IF pipe.r = "open"
     THEN /\ pipe' = [pipe EXCEPT !.line = Head(stdout.lines)]
          /\ stdout' = [stdout EXCEPT !.lines = Tail(@)] /\ UNCHANGED copier
     ELSE copier' = "failed" /\ stdout' = [stdout EXCEPT !.open = FALSE] /\ UNCHANGED pipe
  /\ UNCHANGED <<dumpOf, masterData, dumpProc, parse, dumpMain, handed>>

(* The copier sees the end only after its last write has been taken.       *)
CopyEnds ==
  /\ copier = "copying" /\ pipe.line = None /\ stdout.lines = <<>>
  /\ dumpProc.at \in {"succeeded", "failed"}
  /\ copier' = "ended"
  /\ UNCHANGED <<dumpOf, masterData, dumpProc, stdout, pipe, parse, dumpMain, handed>>

-----------------------------------------------------------------------------
(* Parse.                                                                   *)

Position(l) == l.kind \in {"gtid", "binlog"} /\ masterData /\ ~parse.binlog

(* One line.  BinLog and Data may return ErrSkip, which is ignored; every  *)
(* other error of the handler, and of a value that does not parse, ends    *)
(* Parse.                                                                   *)
ParseLine ==
  /\ parse.at = "reading" /\ pipe.line # None
  /\ pipe' = [pipe EXCEPT !.line = None]
  /\ LET l == pipe.line
         called == Position(l) \/ l.kind = "insert"
     IN  /\ handed' = IF l.kind = "insert" THEN Append(handed, [l EXCEPT !.db = parse.db])
                      ELSE IF called THEN Append(handed, l) ELSE handed
         /\ \E ok \in {TRUE} \cup (IF called THEN {FALSE} ELSE {}) :
              parse' = IF ~ok THEN [parse EXCEPT !.at = "closing", !.err = "handler"]
                       ELSE [parse EXCEPT !.db = IF l.kind = "use" THEN l.db ELSE @,
                                          !.binlog = @ \/ (Position(l) /\ l.kind = "binlog")]
  /\ UNCHANGED <<dumpOf, masterData, dumpProc, stdout, copier, dumpMain>>

(* The writer closed the pipe.                                             *)
ParseEnds ==
  /\ parse.at = "reading" /\ pipe.line = None /\ pipe.w # "open"
  /\ parse' = [parse EXCEPT !.at = "closing", !.err = IF pipe.w = "eof" THEN "none" ELSE "read"]
  /\ UNCHANGED <<dumpOf, masterData, dumpProc, stdout, pipe, copier, dumpMain, handed>>

(* A mutant: the reader does not close its end.                            *)
ParseDoneOnly ==
  /\ parse.at = "closing" /\ parse' = [parse EXCEPT !.at = "ended"]
  /\ UNCHANGED <<dumpOf, masterData, dumpProc, stdout, pipe, copier, dumpMain, handed>>

(* r.CloseWithError(err) releases a writer in the middle of a write; then  *)
(* done <- err.                                                            *)
ParseDone ==
  /\ parse.at = "closing" /\ parse' = [parse EXCEPT !.at = "ended"]
  /\ pipe' = [pipe EXCEPT !.r = "closed", !.line = None]
  /\ UNCHANGED <<dumpOf, masterData, dumpProc, stdout, copier, dumpMain, handed>>

DumpStep ==
  \/ WriteUse \/ StartDump \/ WaitDump \/ ClosePipe \/ DumpReturns
  \/ DumperPrints \/ DumperExits \/ CopyLine \/ CopyEnds
  \/ ParseLine \/ ParseEnds \/ ParseDone

DumpNext == DumpStep \/ DumperFails

-----------------------------------------------------------------------------
DumpedRowsOnly(s) == SelectSeq(s, LAMBDA l : l.kind = "insert")

(* When DumpAndParse returns nil, mysqldump succeeded and the handler was  *)
(* given the position, if asked for, and then every row, in order, each    *)
(* with its database; before that it was given a beginning of this.        *)
DumpExact ==
  LET all == (IF masterData THEN SubSeq(DumpLines, 1, 2) ELSE <<>>) \o DumpedRowsOnly(DumpLines)
  IN  /\ IsPrefix(handed, all)
      /\ (dumpMain.at = "returned" /\ parse.err = "none") =>
           handed = all /\ dumpProc.at = "succeeded"

(* DumpAndParse returns, and the process has ended when it does: no one    *)
(* waits for ever for a pipe that is not read or not written.              *)
DumpEnds == <>(dumpMain.at = "returned" /\ dumpProc.at # "running")
=============================================================================
