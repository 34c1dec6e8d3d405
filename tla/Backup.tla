------------------------------- MODULE Backup -------------------------------
(***************************************************************************)
(* replication/backup.go: raw events of the source's binlog written to      *)
(* files of the same names, from a streamer (processWithHandler) or inside  *)
(* the syncer's goroutine (a SynchronousEventHandler, process).  The start  *)
(* is a position; a start from a GTID set differs in the command only.      *)
(*                                                                         *)
(* File f of the source is its format description event, item 1, and        *)
(* BkEvents further items; the last item of every file but the newest is    *)
(* its rotate event.  Events have the same size, so that a position is a    *)
(* number of items.  Retries of the connection succeed.                     *)
(***************************************************************************)
EXTENDS Integers, Sequences

CONSTANTS BkFiles,    \* files of the source's binlog
          BkEvents,   \* items of a file after its format description event
          BkBreaks,   \* how often the connection breaks
          BkCache     \* capacity of the streamer's channel

BackupFiles == 1..BkFiles
FileItems == 1..(BkEvents + 1)

VARIABLES bkSync,    \* the events go to a SynchronousEventHandler
          bkStart,   \* the items the start position leaves out
          bkConn,    \* [file, item, at]: the next event of the dump
          bkBroken,  \* breaks of the connection so far
          bkNext,    \* nextPos of the syncer, [file, items]
          bkCh,      \* events in the streamer's channel
          bkFailed,  \* the syncer's goroutine ended with an error in s.ech
          handler,   \* [filename, w, off]: BackupEventHandler
          disk,      \* disk[f]: the items of file f in the backup directory
          backup,    \* "running", or how StartBackup returned
          resumed    \* files whose format event came with a later start

bkVars == <<bkSync, bkStart, bkConn, bkBroken, bkNext, bkCh, bkFailed,
            handler, disk, backup, resumed>>

NoWriter == 0
Torn == 0    \* an item of which only a part was written

(* StartBackup: the dump from position p.  The source answers with an       *)
(* artificial rotate event that names the file.                             *)
BackupInit ==
  /\ bkSync \in BOOLEAN /\ bkStart \in {0, 2}
  /\ bkConn = [file |-> 1, item |-> bkStart + 1, at |-> "rotate"]
  /\ bkBroken = 0 /\ bkNext = [file |-> 1, items |-> bkStart]
  /\ bkCh = <<>> /\ bkFailed = FALSE
  /\ handler = [filename |-> 0, w |-> NoWriter, off |-> 0]
  /\ disk = [f \in BackupFiles |-> <<>>]
  /\ backup = "running" /\ resumed = {}

-----------------------------------------------------------------------------
(* HandleEvent.                                                             *)

(* Writing item x of the source at the writer's offset: a file is opened    *)
(* without O_TRUNC, so what it held beyond stays.                           *)
WriteItem(d, h, x) ==
  [d EXCEPT ![h.w] = IF h.off < Len(@) THEN [@ EXCEPT ![h.off + 1] = x] ELSE Append(@, x)]

(* h.w.Write(e.RawData), which may fail or be short.                        *)
WriteRaw(h, d, e) ==
  IF h.w = NoWriter THEN {[h |-> h, disk |-> d, err |-> TRUE]}
  ELSE {[h |-> [h EXCEPT !.off = @ + 1], disk |-> WriteItem(d, h, e.item), err |-> FALSE],
        [h |-> h, disk |-> WriteItem(d, h, Torn), err |-> TRUE]}

(* A mutant: a file that is open is kept.                                  *)
OpenFileKept(h, d, e) ==
  {[h |-> [h EXCEPT !.w = NoWriter], disk |-> d, err |-> TRUE]} \cup
  (IF h.filename = 0 THEN {}
   ELSE WriteRaw(IF h.w # NoWriter THEN h ELSE [h EXCEPT !.w = h.filename, !.off = 0], d, e))

(* A format description event: close the old file, open the new one.  Its   *)
(* close, its open and the write of the header may fail.                    *)
OpenFile(h, d, e) ==
  {[h |-> [h EXCEPT !.w = NoWriter], disk |-> d, err |-> TRUE]} \cup
  (IF h.filename = 0 THEN {} ELSE WriteRaw([h EXCEPT !.w = h.filename, !.off = 0], d, e))

(* The possible outcomes for event e.                                      *)
HandleEvent(e) ==
  LET h == IF e.type = "rotate" THEN [handler EXCEPT !.filename = e.file + 1]
           ELSE IF e.type = "fake" THEN [handler EXCEPT !.filename = e.file] ELSE handler
  IN  CASE e.type = "fake" -> {[h |-> h, disk |-> disk, err |-> FALSE]}
        [] e.type = "format" -> OpenFile(h, disk, e)
        [] OTHER -> WriteRaw(h, disk, e)

(* Marks the file of a format event that is followed by a later item.      *)
NoteResume(e) == resumed' = IF e.type = "format" /\ e.from > 2 THEN resumed \cup {e.file} ELSE resumed

-----------------------------------------------------------------------------
(* The syncer and its source.                                              *)

LastItem(f, i) == f < BkFiles /\ i = BkEvents + 1

(* The event that the source sends next.                                   *)
NextEvent ==
  LET c == bkConn
      e(t, i) == [type |-> t, file |-> c.file, item |-> i, from |-> c.item]
  IN  CASE c.at = "rotate" -> e("fake", 0)
        [] c.at = "format" -> e("format", 1)
        [] OTHER -> e(IF LastItem(c.file, c.item) THEN "rotate" ELSE "event", c.item)

(* The connection after e: artificial rotate, format event, the items from *)
(* the asked position; the next file after a rotate event.                 *)
ConnAfter(e) ==
  CASE e.type = "fake" -> [bkConn EXCEPT !.at = "format"]
    [] e.type = "format" -> [bkConn EXCEPT !.at = "items", !.item = IF @ = 1 THEN 2 ELSE @]
    [] e.type = "rotate" -> [file |-> e.file + 1, item |-> 1, at |-> "rotate"]
    [] OTHER -> [bkConn EXCEPT !.item = @ + 1]

(* handleEventAndACK: LogPos, which is 0 in the format event of a dump that *)
(* starts later in the file, then the target of a rotate event.            *)
NextPos(e) ==
  CASE e.type = "fake" -> [file |-> e.file, items |-> e.from - 1]
    [] e.type = "format" /\ e.from > 1 -> bkNext
    [] e.type = "rotate" -> [file |-> e.file + 1, items |-> 0]
    [] OTHER -> [file |-> e.file, items |-> e.item]

CanSendEvent == ~bkFailed /\ (bkConn.at = "items" => bkConn.item <= BkEvents + 1)

(* A mutant: an event is dropped when the channel is full.                 *)
StreamEventDrops ==
  /\ CanSendEvent
  /\ LET e == NextEvent
     IN  /\ bkConn' = ConnAfter(e) /\ bkNext' = NextPos(e)
         /\ bkCh' = IF Len(bkCh) < BkCache THEN Append(bkCh, e) ELSE bkCh
  /\ UNCHANGED <<bkSync, bkStart, bkBroken, bkFailed, handler, disk, backup, resumed>>

(* One event is received and handed over.  A handler's error ends the      *)
(* syncer's goroutine.                                                     *)
StreamEvent ==
  /\ CanSendEvent
  /\ LET e == NextEvent
     IN  /\ bkConn' = ConnAfter(e) /\ bkNext' = NextPos(e)
         /\ IF bkSync
            THEN /\ \E o \in HandleEvent(e) : handler' = o.h /\ disk' = o.disk /\ bkFailed' = o.err
                 /\ NoteResume(e) /\ UNCHANGED bkCh
            ELSE /\ Len(bkCh) < BkCache /\ bkCh' = Append(bkCh, e)
                 /\ UNCHANGED <<handler, disk, bkFailed, resumed>>
  /\ UNCHANGED <<bkSync, bkStart, bkBroken, backup>>

(* retrySync: the connection breaks and the dump goes on at nextPos.       *)
Reconnect ==
  /\ ~bkFailed /\ bkBroken < BkBreaks /\ bkBroken' = bkBroken + 1
  /\ bkConn' = [file |-> bkNext.file, item |-> bkNext.items + 1, at |-> "rotate"]
  /\ UNCHANGED <<bkSync, bkStart, bkNext, bkCh, bkFailed, handler, disk, backup, resumed>>

(* An ERR packet of the source, or no attempt left: s.closeWithError.      *)
StreamFails ==
  /\ ~bkFailed /\ bkFailed' = TRUE
  /\ UNCHANGED <<bkSync, bkStart, bkConn, bkBroken, bkNext, bkCh, handler, disk, backup, resumed>>

-----------------------------------------------------------------------------
(* process and processWithHandler.                                         *)

(* case e := <-s.ch                                                        *)
ReadEvent ==
  /\ ~bkSync /\ backup = "running" /\ bkCh # <<>>
  /\ bkCh' = Tail(bkCh)
  /\ \E o \in HandleEvent(Head(bkCh)) :
       /\ handler' = IF o.err THEN [o.h EXCEPT !.w = NoWriter] ELSE o.h
       /\ disk' = o.disk
       /\ backup' = IF o.err THEN "error" ELSE backup
  /\ NoteResume(Head(bkCh))
  /\ UNCHANGED <<bkSync, bkStart, bkConn, bkBroken, bkNext, bkFailed>>

(* The timeout, a closed syncer or s.ech.  The deferred Close of the file  *)
(* belongs to processWithHandler only, and its error is returned.          *)
BackupReturns ==
  /\ backup = "running"
  /\ backup' \in {"nil"} \cup (IF bkFailed THEN {"error"} ELSE {})
                 \cup (IF ~bkSync /\ handler.w # NoWriter THEN {"error"} ELSE {})
  /\ handler' = IF bkSync THEN handler ELSE [handler EXCEPT !.w = NoWriter]
  /\ UNCHANGED <<bkSync, bkStart, bkConn, bkBroken, bkNext, bkCh, bkFailed, disk, resumed>>

BackupNext == StreamEvent \/ Reconnect \/ StreamFails \/ ReadEvent \/ BackupReturns

-----------------------------------------------------------------------------
(* The items of file f the backup holds are the first ones of the source's *)
(* file, the last of them perhaps torn when writing ended with an error;   *)
(* and a file is complete once one after it exists.                        *)
FileWhole(f) ==
  LET n == Len(disk[f])
  IN  /\ \A i \in 1..n : disk[f][i] = i \/ (disk[f][i] = Torn /\ i = n /\ (bkFailed \/ backup = "error"))
      /\ (\E g \in f + 1..BkFiles : disk[g] # <<>>) => n = BkEvents + 1

(* Whatever fails, whenever it is stopped and wherever the connection      *)
(* breaks, a file that the dump did not enter in the middle is a prefix of *)
(* the source's, and complete before the next file is begun.               *)
BackupIntact == \A f \in BackupFiles \ resumed : FileWhole(f)

(* What the syncer counts as received (its nextPos, which an application   *)
(* stores to go on later) is on disk, or still in the channel: no event is *)
(* skipped between the source and the files, also across reconnects.       *)
ReceivedIsKept ==
  (backup = "running" /\ ~bkFailed) =>
    \A f \in BackupFiles, i \in FileItems \ {1} :
      (f < bkNext.file \/ (f = bkNext.file /\ i <= bkNext.items)) =>
        \/ f = 1 /\ i <= bkStart
        \/ i \in {disk[f][j] : j \in DOMAIN disk[f]}
        \/ \E k \in DOMAIN bkCh : bkCh[k].file = f /\ bkCh[k].item = i
        \/ f \in resumed

(* The files of a backup: what is there is right (BackupIntact), and all   *)
(* that counts as received is there (ReceivedIsKept).                      *)
BackupExact == BackupIntact /\ ReceivedIsKept

(* StartBackup "starts the backup process for the binary log and writes to *)
(* the backup directory" (backup.go:15), from the beginning of a file also *)
(* across a reconnect, which the syncer does by itself.                    *)
BackupWhole == bkStart = 0 => \A f \in BackupFiles : FileWhole(f)
=============================================================================
