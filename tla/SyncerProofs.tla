---------------------------- MODULE SyncerProofs ----------------------------
(***************************************************************************)
(* What BinlogSyncer guarantees for every log, every configuration and any *)
(* number of faults.                                                       *)
(***************************************************************************)
EXTENDS SyncerLemmas

(***************************************************************************)
(* What holds for every source and every caller.                           *)
(***************************************************************************)
\* The steps that change the connection.
LEMMA ConnSteps ==
  ASSUME [Next]_vars
  PROVE  \/ UNCHANGED conn
         \/ \E p \in StartPositions : StartSync(p)
         \/ StartSyncGTID \/ ConnBreaks \/ ReadArtificialRotate \/ ReadEvent
         \/ RetrySync \/ CloseReturns
  BY Zenon
  DEF Next, vars, Starting, StreamStep, StreamFailure, Consumer, Closing,
      StartSyncGTIDWrites, StartSyncGTIDFails, ReadClosed, ReadFails, ReadErrorPacket,
      PutEvent, PutClosed, HandleEvent, HandleEventFails, ReplySemiSyncACK,
      ReplySemiSyncACKFails, BackoffClosed, BackoffTimer, RetryLocks, RetrySyncFails,
      GetEvent, GetError, DumpEvents, CloseCalled, CloseLocks, closeWithError, HandedOver,
      syncVars, streamerVars, deliveryVars

\* The steps that change the GTID sets.
LEMMA SetSteps ==
  ASSUME [Next]_vars
  PROVE  \/ UNCHANGED <<prevGset, currGset, call, prevMySQLGTIDEvent>>
         \/ \E g \in StartSets \cup LateSets : StartSyncGTIDWrites(g)
         \/ StartSyncGTID \/ StartSyncGTIDFails \/ ReadEvent \/ RetryLocks
  BY Zenon
  DEF Next, vars, Starting, StreamStep, StreamFailure, Consumer, Closing, StartSync,
      ConnBreaks, ReadClosed, ReadFails, ReadErrorPacket, ReadArtificialRotate, PutEvent,
      PutClosed, HandleEvent, HandleEventFails, ReplySemiSyncACK, ReplySemiSyncACKFails,
      BackoffClosed, BackoffTimer, RetrySync, RetrySyncFails, GetEvent, GetError,
      DumpEvents, CloseCalled, CloseLocks, CloseReturns, closeWithError, HandedOver,
      startDumpStream, syncVars, streamerVars, deliveryVars

\* The steps that change the position.
LEMMA NextPosSteps ==
  ASSUME [Next]_vars
  PROVE  \/ UNCHANGED nextPos
         \/ ReadArtificialRotate \/ ReadEvent
  BY Zenon
  DEF Next, vars, Starting, StreamStep, StreamFailure, Consumer, Closing, StartSync,
      StartSyncGTIDWrites, StartSyncGTID, StartSyncGTIDFails, ConnBreaks, ReadClosed,
      ReadFails, ReadErrorPacket, PutEvent, PutClosed, HandleEvent, HandleEventFails,
      ReplySemiSyncACK, ReplySemiSyncACKFails, BackoffClosed, BackoffTimer, RetryLocks,
      RetrySync, RetrySyncFails, GetEvent, GetError, DumpEvents, CloseCalled, CloseLocks,
      CloseReturns, closeWithError, HandedOver, startDumpStream, syncVars, streamerVars,
      deliveryVars

\* The steps that change the event channel.
LEMMA EventSteps ==
  ASSUME [Next]_vars
  PROVE  \/ UNCHANGED ch
         \/ PutEvent \/ GetEvent \/ DumpEvents
  BY Zenon
  DEF Next, vars, Starting, StreamStep, StreamFailure, Consumer, Closing, StartSync,
      StartSyncGTIDWrites, StartSyncGTID, StartSyncGTIDFails, ConnBreaks, ReadClosed,
      ReadFails, ReadErrorPacket, ReadArtificialRotate, ReadEvent, PutClosed, HandleEvent,
      HandleEventFails, ReplySemiSyncACK, ReplySemiSyncACKFails, BackoffClosed,
      BackoffTimer, RetryLocks, RetrySync, RetrySyncFails, GetError, CloseCalled,
      CloseLocks, CloseReturns, closeWithError, HandedOver, startDumpStream, syncVars,
      streamerVars, deliveryVars

\* The steps that change the error channel.
LEMMA ErrorSteps ==
  ASSUME [Next]_vars
  PROVE  \/ UNCHANGED <<ech, err>>
         \/ ReadClosed \/ ReadFails \/ ReadErrorPacket \/ PutClosed
         \/ HandleEventFails \/ ReplySemiSyncACKFails \/ BackoffClosed \/ RetrySyncFails
         \/ GetError
  BY Zenon
  DEF Next, vars, Starting, StreamStep, StreamFailure, Consumer, Closing, StartSync,
      StartSyncGTIDWrites, StartSyncGTID, StartSyncGTIDFails, ConnBreaks,
      ReadArtificialRotate, ReadEvent, PutEvent, HandleEvent, ReplySemiSyncACK,
      BackoffTimer, RetryLocks, RetrySync, GetEvent, DumpEvents, CloseCalled, CloseLocks,
      CloseReturns, HandedOver, startDumpStream, syncVars, streamerVars, deliveryVars

\* The mutex, onStream and Close keep out of each other's way, after a step.
LEMMA ControlNext == Types /\ Control /\ [Next]_vars => Control'
<1> SUFFICES ASSUME Types, Control, [Next]_vars
             PROVE  Control'
  OBVIOUS
<1> USE DEF Types, Scalars, Positions, Control, ctxDone, syncVars, streamerVars, deliveryVars
<1>1. ASSUME NEW p \in StartPositions, StartSync(p)
      PROVE  Control'
  BY <1>1 DEF StartSync, startDumpStream, registerSlave, prepare, DumpPos
<1>2. ASSUME NEW g \in StartSets \cup LateSets, StartSyncGTIDWrites(g)
      PROVE  Control'
  BY <1>2 DEF StartSyncGTIDWrites
<1>3. CASE StartSyncGTID
  BY <1>3 DEF StartSyncGTID, startDumpStream, registerSlave, prepare
<1>4. CASE StartSyncGTIDFails
  BY <1>4 DEF StartSyncGTIDFails
<1>5. CASE ConnBreaks
  BY <1>5 DEF ConnBreaks
<1>6. CASE ReadClosed
  BY <1>6 DEF ReadClosed, closeWithError
<1>7. CASE ReadFails
  BY <1>7 DEF ReadFails, closeWithError
<1>8. CASE ReadErrorPacket
  BY <1>8 DEF ReadErrorPacket, closeWithError
<1>9. CASE ReadArtificialRotate
  BY <1>9 DEF ReadArtificialRotate
<1>10. CASE ReadEvent
  BY <1>10 DEF ReadEvent
<1>11. CASE PutEvent
  BY <1>11 DEF PutEvent, HandedOver
<1>12. CASE PutClosed
  BY <1>12 DEF PutClosed, closeWithError
<1>13. CASE HandleEvent
  BY <1>13 DEF HandleEvent, HandedOver
<1>14. CASE HandleEventFails
  BY <1>14 DEF HandleEventFails, closeWithError
<1>15. CASE ReplySemiSyncACK
  BY <1>15 DEF ReplySemiSyncACK
<1>16. CASE ReplySemiSyncACKFails
  BY <1>16 DEF ReplySemiSyncACKFails, closeWithError
<1>17. CASE BackoffClosed
  BY <1>17 DEF BackoffClosed, closeWithError
<1>18. CASE BackoffTimer
  BY <1>18 DEF BackoffTimer
<1>19. CASE RetryLocks
  BY <1>19 DEF RetryLocks
<1>20. CASE RetrySync
  BY <1>20 DEF RetrySync, registerSlave, prepare
<1>21. CASE RetrySyncFails
  BY <1>21 DEF RetrySyncFails, closeWithError
<1>22. CASE GetEvent
  BY <1>22 DEF GetEvent
<1>23. CASE GetError
  BY <1>23 DEF GetError
<1>24. CASE DumpEvents
  BY <1>24 DEF DumpEvents
<1>25. CASE CloseCalled
  BY <1>25 DEF CloseCalled
<1>26. CASE CloseLocks
  BY <1>26 DEF CloseLocks
<1>27. CASE CloseReturns
  BY <1>27 DEF CloseReturns
<1>28. CASE UNCHANGED vars
  BY <1>28 DEF vars
<1> QED
  BY <1>1, <1>2, <1>3, <1>4, <1>5, <1>6, <1>7, <1>8, <1>9, <1>10, <1>11, <1>12, <1>13, <1>14, <1>15, <1>16, <1>17, <1>18, <1>19, <1>20, <1>21, <1>22, <1>23, <1>24, <1>25, <1>26, <1>27, <1>28, Zenon
  DEF Next, Starting, StreamStep, StreamFailure, Consumer, Closing

\* The types of the plain variables, after a step.
LEMMA ScalarsNext == Types /\ Control /\ [Next]_vars => Scalars'
<1> SUFFICES ASSUME Types, Control, [Next]_vars
             PROVE  Scalars'
  OBVIOUS
<1>0. cfg' = cfg
  BY DEF Next, vars
<1> USE <1>0 DEF Types, Scalars, ctxDone, syncVars, streamerVars, deliveryVars
<1>1. ASSUME NEW p \in StartPositions, StartSync(p)
      PROVE  Scalars'
  BY <1>1, Zenon DEF StartSync, startDumpStream, registerSlave, prepare, DumpPos, Clamp
<1>2. ASSUME NEW g \in StartSets \cup LateSets, StartSyncGTIDWrites(g)
      PROVE  Scalars'
  BY <1>2 DEF StartSyncGTIDWrites
<1>3. CASE StartSyncGTID
  BY <1>3, Zenon DEF StartSyncGTID, startDumpStream, DumpGTID, Missing
<1>4. CASE StartSyncGTIDFails
  BY <1>4 DEF StartSyncGTIDFails
<1>5. CASE ConnBreaks
  BY <1>5, SyncerAssumption DEF ConnBreaks
<1>6. CASE ReadClosed
  BY <1>6 DEF ReadClosed, closeWithError
<1>7. CASE ReadFails
  BY <1>7 DEF ReadFails, closeWithError
<1>8. CASE ReadErrorPacket
  BY <1>8 DEF ReadErrorPacket, closeWithError
<1>9. CASE ReadArtificialRotate
  BY <1>9 DEF ReadArtificialRotate
<1>10. CASE ReadEvent
  <2>1. conn.todo \in SUBSET DOMAIN log /\ conn.todo # {}
    BY <1>10 DEF ReadEvent, Positions
  <2>2. Min(conn.todo) \in DOMAIN log
    BY <2>1, TodoMin
  <2> QED
    BY <1>10, <2>2 DEF ReadEvent
<1>11. CASE PutEvent
  BY <1>11 DEF PutEvent, HandedOver
<1>12. CASE PutClosed
  BY <1>12 DEF PutClosed, closeWithError
<1>13. CASE HandleEvent
  BY <1>13 DEF HandleEvent, HandedOver
<1>14. CASE HandleEventFails
  BY <1>14 DEF HandleEventFails, closeWithError
<1>15. CASE ReplySemiSyncACK
  BY <1>15 DEF ReplySemiSyncACK
<1>16. CASE ReplySemiSyncACKFails
  BY <1>16 DEF ReplySemiSyncACKFails, closeWithError
<1>17. CASE BackoffClosed
  BY <1>17 DEF BackoffClosed, closeWithError
<1>18. CASE BackoffTimer
  BY <1>18 DEF BackoffTimer
<1>19. CASE RetryLocks
  BY <1>19 DEF RetryLocks
<1>20. CASE RetrySync
  BY <1>20 DEF RetrySync, registerSlave, prepare
<1>21. CASE RetrySyncFails
  BY <1>21, SyncerAssumption DEF RetrySyncFails, closeWithError
<1>22. CASE GetEvent
  BY <1>22 DEF GetEvent
<1>23. CASE GetError
  BY <1>23 DEF GetError
<1>24. CASE DumpEvents
  BY <1>24 DEF DumpEvents
<1>25. CASE CloseCalled
  BY <1>25 DEF CloseCalled
<1>26. CASE CloseLocks
  BY <1>26, Zenon DEF CloseLocks
<1>27. CASE CloseReturns
  BY <1>27 DEF CloseReturns
<1>28. CASE UNCHANGED vars
  BY <1>28 DEF vars
<1> QED
  BY <1>1, <1>2, <1>3, <1>4, <1>5, <1>6, <1>7, <1>8, <1>9, <1>10, <1>11, <1>12, <1>13, <1>14, <1>15, <1>16, <1>17, <1>18, <1>19, <1>20, <1>21, <1>22, <1>23, <1>24, <1>25, <1>26, <1>27, <1>28, Zenon
  DEF Next, Starting, StreamStep, StreamFailure, Consumer, Closing

\* The connection and nextPos, after a step: positions stay uint32.
LEMMA PositionsNext == Types /\ Control /\ [Next]_vars => Positions'
<1> SUFFICES ASSUME Types, Control, [Next]_vars
             PROVE  Positions'
  OBVIOUS
<1>0. cfg' = cfg /\ log' = log
  BY ScalarsNext DEF Types, Scalars, Next, vars
<1> USE <1>0 DEF Types, Positions
<1>1. ASSUME NEW p \in StartPositions, StartSync(p)
      PROVE  Positions'
  <2>1. p \in [Name : Nat, Pos : 0..PosModulus - 1]
    BY ConfigAssumption DEF StartPositions, Scalars
  <2> QED
    BY <1>1, <2>1, DumpPosTypes DEF StartSync, startDumpStream, registerSlave, syncVars
<1>2. CASE StartSyncGTID
  BY <1>2, DumpGTIDTypes DEF StartSyncGTID, startDumpStream, registerSlave
<1>3. CASE ConnBreaks
  BY <1>3, Zenon DEF ConnBreaks, syncVars
<1>4. CASE ReadArtificialRotate
  BY <1>4, Zenon DEF ReadArtificialRotate
<1>5. CASE ReadEvent
  <2> DEFINE i == Min(conn.todo)
  <2>1. i \in DOMAIN log
    BY <1>5, TodoMin DEF ReadEvent
  <2>2. nextPos' \in [Name : Nat, Pos : 0..PosModulus - 1]
    BY <1>5, <2>1, PosAfterTypes DEF ReadEvent
  <2>3. log[i].file + 1 \in Nat /\ FileStart \in 0..PosModulus - 1
    BY <2>1, LogFields, SyncerAssumption DEF FileStart
  <2> QED
    BY <1>5, <2>2, <2>3, Zenon DEF ReadEvent
<1>6. CASE RetrySync
  BY <1>6, DumpPosTypes, DumpGTIDTypes DEF RetrySync, registerSlave, syncVars
<1>7. CASE CloseReturns
  BY <1>7, Zenon DEF CloseReturns, syncVars
<1>8. CASE UNCHANGED <<conn, nextPos>>
  BY <1>8
<1> QED
  BY <1>1, <1>2, <1>3, <1>4, <1>5, <1>6, <1>7, <1>8, ConnSteps, NextPosSteps

\* The GTID sets, after a step.
LEMMA SetsNext == Types /\ Control /\ [Next]_vars => Sets'
<1> SUFFICES ASSUME Types, Control, [Next]_vars
             PROVE  Sets'
  OBVIOUS
<1>0. cfg' = cfg /\ log' = log /\ cfg \in Configs
  BY ScalarsNext DEF Types, Scalars, Next, vars
<1> USE <1>0 DEF Types, Sets, Txns
<1>1. ASSUME NEW g \in StartSets \cup LateSets, StartSyncGTIDWrites(g)
      PROVE  Sets'
  <2>1. g \subseteq GTIDs
    BY ConfigAssumption DEF StartSets, LateSets
  <2> QED
    BY <1>1, <2>1 DEF StartSyncGTIDWrites
<1>2. CASE StartSyncGTID
  BY <1>2, NilTypes DEF StartSyncGTID, startDumpStream
<1>3. CASE StartSyncGTIDFails
  BY <1>3, NilTypes DEF StartSyncGTIDFails
<1>4. CASE ReadEvent
  <2>1. Min(conn.todo) \in DOMAIN log
    BY <1>4, TodoMin DEF ReadEvent, Positions
  <2> QED
    BY <1>4, <2>1, HandleGTIDsTypes DEF ReadEvent
<1>5. CASE RetryLocks
  BY <1>5, NilTypes DEF RetryLocks
<1>6. CASE UNCHANGED <<prevGset, currGset, call, prevMySQLGTIDEvent>>
  BY <1>6
<1> QED
  BY <1>1, <1>2, <1>3, <1>4, <1>5, <1>6, SetSteps

\* The channels of the streamer, after a step: closeWithError drops what does
\* not fit.
LEMMA QueuesNext == Types /\ Control /\ [Next]_vars => Queues'
<1> SUFFICES ASSUME Types, Control, [Next]_vars
             PROVE  Queues'
  OBVIOUS
<1> DEFINE Entry == [index : {0} \cup DOMAIN log, gset : SUBSET GTIDs]
<1>0. cfg' = cfg /\ log' = log /\ Entry' = Entry
  BY ScalarsNext, Zenon DEF Types, Scalars, Next, vars
<1>1. ch \in Seq(Entry) /\ Len(ch) <= EventCacheCount
  BY DEF Types, Queues
<1>2. ch' \in Seq(Entry) /\ Len(ch') <= EventCacheCount
  <2>1. CASE PutEvent
    <3>1. [index |-> ev, gset |-> GSetOf(ev)] \in Entry
      BY NilTypes DEF GSetOf, Types, Scalars, Sets
    <3>2. EventCacheCount \in Nat
      BY ConfigAssumption DEF EventCacheCount, Types, Scalars
    <3> HIDE DEF Entry
    <3> QED
      BY <2>1, <1>1, <3>1, <3>2 DEF PutEvent
  <2>2. CASE GetEvent
    <3>1. EventCacheCount \in Nat
      BY ConfigAssumption DEF EventCacheCount, Types, Scalars
    <3> HIDE DEF Entry
    <3> QED
      BY <2>2, <1>1, <3>1 DEF GetEvent
  <2>3. CASE DumpEvents
    <3>1. EventCacheCount \in Nat
      BY ConfigAssumption DEF EventCacheCount, Types, Scalars
    <3> HIDE DEF Entry
    <3> QED
      BY <2>3, <3>1 DEF DumpEvents
  <2> QED
    BY <1>1, <2>1, <2>2, <2>3, EventSteps
<1>3. ech' \in Seq(Errors) /\ Len(ech') <= EchCap /\ err' \in {"none"} \cup Errors
  <2>1. ech \in Seq(Errors) /\ Len(ech) <= EchCap /\ err \in {"none"} \cup Errors
    BY DEF Types, Queues
  <2>2. ASSUME NEW e \in Errors, closeWithError(e)
        PROVE  ech' \in Seq(Errors) /\ Len(ech') <= EchCap /\ err' \in {"none"} \cup Errors
    BY <2>1, <2>2 DEF closeWithError, EchCap
  <2>3. CASE UNCHANGED <<ech, err>>
    BY <2>1, <2>3
  <2>4. CASE GetError
    BY <2>1, <2>4 DEF GetError, EchCap
  <2>5. {"closed", "conn", "server", "handler", "ack", "giveup"} \subseteq Errors
    BY DEF Errors
  <2> QED
    BY <2>2, <2>3, <2>4, <2>5, ErrorSteps
    DEF ReadClosed, ReadFails, ReadErrorPacket, PutClosed, HandleEventFails, ReplySemiSyncACKFails,
        BackoffClosed, RetrySyncFails, streamerVars
<1> QED
  BY <1>0, <1>2, <1>3 DEF Queues, EventCacheCount

\* onStream ends through closeWithError, and the consumer takes an error only
\* to keep it in err.
LEMMA EndReportedNext == Types /\ EndReported /\ [Next]_vars => EndReported'
<1> SUFFICES ASSUME Types, EndReported, [Next]_vars
             PROVE  EndReported'
  OBVIOUS
<1> USE DEF EndReported
<1>1. ech \in Seq(Errors) /\ Len(ech) <= EchCap
  BY DEF Types, Queues
<1>2. ASSUME NEW e \in Errors, closeWithError(e)
      PROVE  EndReported'
  <2>1. CASE Len(ech) < EchCap
    <3>1. ech' = Append(ech, e)
      BY <1>2, <2>1 DEF closeWithError
    <3> QED
      BY <1>1, <3>1
  <2>2. CASE ~ (Len(ech) < EchCap)
    <3>1. ech' = ech
      BY <1>2, <2>2 DEF closeWithError
    <3> QED
      BY <1>1, <2>2, <3>1 DEF EchCap
  <2> QED
    BY <2>1, <2>2
<1>3. CASE GetError
  <2>1. err' \in Errors
    BY <1>1, <1>3 DEF GetError
  <2> QED
    BY <2>1 DEF Errors
<1>4. CASE UNCHANGED <<ech, err>> /\ (spc' = "exit" => spc = "exit")
  BY <1>4
<1>5. \/ \E e \in Errors : closeWithError(e)
      \/ GetError
      \/ UNCHANGED <<ech, err>> /\ (spc' = "exit" => spc = "exit")
  BY Zenon
  DEF Errors, Next, vars, Starting, StreamStep, StreamFailure, Consumer, Closing,
      StartSync, StartSyncGTIDWrites, StartSyncGTID, StartSyncGTIDFails, ConnBreaks,
      ReadClosed, ReadFails, ReadErrorPacket, ReadArtificialRotate, ReadEvent, PutEvent,
      PutClosed, HandleEvent, HandleEventFails, ReplySemiSyncACK, ReplySemiSyncACKFails,
      BackoffClosed, BackoffTimer, RetryLocks, RetrySync, RetrySyncFails, GetEvent,
      DumpEvents, CloseCalled, CloseLocks, CloseReturns, HandedOver, startDumpStream,
      syncVars, streamerVars, deliveryVars
<1> QED
  BY <1>2, <1>3, <1>4, <1>5

\* All the types, after a step.
LEMMA TypesNext == Types /\ Control /\ [Next]_vars => Types'
  BY ScalarsNext, PositionsNext, SetsNext, QueuesNext DEF Types

\* NewBinlogSyncer sets all of this up.
LEMMA InitTypes == Init => Types /\ Control /\ EndReported
<1> SUFFICES ASSUME Init
             PROVE  Types /\ Control /\ EndReported
  OBVIOUS
<1> USE DEF Init, DeliveryInit
<1>1. Scalars
  <2>1. faults \in 0..MaxFaults /\ retryCount \in Nat
    BY SyncerAssumption
  <2>2. {ev, acked, last} \subseteq {0} \cup DOMAIN log /\ wanted \subseteq DOMAIN log
    OBVIOUS
  <2>3. {resend, running} \subseteq BOOLEAN
    BY Zenon
  <2> QED
    BY <2>1, <2>2, <2>3 DEF Scalars
<1>2. Positions
  BY SyncerAssumption DEF Positions, FileStart
<1>3. Sets
  BY NilTypes DEF Sets
<1>4. Queues
  BY ConfigAssumption DEF Queues, EventCacheCount, EchCap
<1>5. Control /\ EndReported
  BY DEF Control, EndReported, ctxDone
<1> QED
  BY <1>1, <1>2, <1>3, <1>4, <1>5 DEF Types

\* The types of the proof are those of the specification, and more.
LEMMA TypesGiveTypeOK == Types => TypeOK
  BY DEF Types, Scalars, Positions, Sets, Queues, TypeOK

-----------------------------------------------------------------------------
(***************************************************************************)
(* Steps of an orderly source and caller.                                  *)
(***************************************************************************)
\* A step that leaves the place in the log alone.
Quiet ==
    /\ UNCHANGED <<log, wanted, resend, last, spc, ev, nextPos, prevGset, currGset,
                   prevMySQLGTIDEvent, call>>
    /\ conn' = conn \/ conn' = [conn EXCEPT !.up = FALSE]
    /\ ctxDone => ctxDone'

\* onStream goes to its reconnect loop: a failed read or a failed attempt.
Retries ==
    /\ \/ spc = "read" /\ (nextPos.Name # 0 \/ prevGset # Nil)
       \/ spc = "retry"
    /\ spc' = "backoff"
    /\ UNCHANGED <<log, wanted, resend, last, ev, conn, nextPos, prevGset, currGset,
                   prevMySQLGTIDEvent, call, cpc>>

\* The steps that matter for the place in the log.
LEMMA PlaceSteps ==
  ASSUME [Next]_vars
  PROVE  \/ spc # "none" /\ spc' = "exit" /\ UNCHANGED <<log, wanted, resend, last, prevGset, call>>
         \/ Quiet \/ Retries
         \/ \E p \in StartPositions : StartSync(p)
         \/ \E g \in StartSets \cup LateSets : StartSyncGTIDWrites(g)
         \/ StartSyncGTID \/ StartSyncGTIDFails
         \/ ReadArtificialRotate \/ ReadEvent \/ PutEvent \/ HandleEvent \/ ReplySemiSyncACK
         \/ BackoffTimer \/ RetryLocks \/ RetrySync
  BY Zenon
  DEF Next, vars, Starting, StreamStep, StreamFailure, Consumer, Closing, ConnBreaks,
      ReadClosed, ReadFails, ReadErrorPacket, PutClosed, HandleEventFails,
      ReplySemiSyncACKFails, BackoffClosed, RetrySyncFails, GetEvent, GetError,
      DumpEvents, CloseCalled, CloseLocks, CloseReturns, closeWithError, syncVars,
      streamerVars, deliveryVars, ctxDone, Quiet, Retries

\* The operators on the log do not change with the state.
LEMMA Frame ==
  ASSUME log' = log, cfg' = cfg, NEW w, NEW g, NEW k
  PROVE  /\ RepeatFrom(w, k)' = RepeatFrom(w, k)
         /\ TxnStart(w, k)' = TxnStart(w, k)
         /\ DoneBefore(w, g, k)' <=> DoneBefore(w, g, k)
         /\ WholeTxns(w)' <=> WholeTxns(w)
         /\ Proper(g)' <=> Proper(g)
         /\ Missing(g)' = Missing(g)
<1>1. RepeatFrom(w, k)' = RepeatFrom(w, k)
  BY DEF RepeatFrom
<1>2. \A a, b : Covered(a, b)' <=> Covered(a, b)
  BY DEF Covered, GtidIndex, Flavor
<1>3. \A i : Gtid(i)' <=> Gtid(i)
  BY DEF Gtid
<1>4. TxnStart(w, k)' = TxnStart(w, k)
  BY <1>1 DEF TxnStart
<1>5. DoneBefore(w, g, k)' <=> DoneBefore(w, g, k)
  BY <1>2, <1>3 DEF DoneBefore
<1>6. WholeTxns(w)' <=> WholeTxns(w)
  BY <1>3 DEF WholeTxns
<1>7. Proper(g)' <=> Proper(g)
  BY <1>3 DEF Proper, Flavor
<1>8. Missing(g)' = Missing(g)
  BY <1>2 DEF Missing
<1> QED
  BY <1>1, <1>4, <1>5, <1>6, <1>7, <1>8

\* The events still to come are wanted ones.
LEMMA TodoWanted ==
  ASSUME Types, Resume, Streaming
  PROVE  conn.todo \subseteq wanted
<1>1. Active /\ \A i \in DOMAIN log : i \in Nat \ {0}
  BY LogFields DEF Streaming, Active
<1>2. CASE resend
  BY <1>1, <1>2 DEF Resume, InPlace, ByGTID, After
<1>3. CASE ~resend
  <2>1. PICK s \in 0..Len(log) : FromPositionAfter(s)
    BY <1>1, <1>3 DEF Resume, InPlace, ByPosition
  <2>2. LastRead = 0 \/ LastRead > s
    BY <2>1 DEF Resume, Callers, FromPositionAfter
  <2>3. LastRead \in Nat /\ s \in Nat
    BY <1>1 DEF Resume, Callers, Types, Scalars
  <2> QED
    BY <1>1, <2>1, <2>2, <2>3 DEF FromPositionAfter
<1> QED
  BY <1>2, <1>3

\* What the callers have done, after a step.
LEMMA CallersNext ==
  ASSUME Types, Control, Resume, Orderly(cfg), [Next]_vars
  PROVE  Callers'
<1>0. /\ cfg' = cfg /\ StartSets' = StartSets /\ StartPositions' = StartPositions
      /\ LateSets = {} /\ (StartPositions = {} \/ StartSets = {})
  BY Zenon DEF Next, vars, StartSets, StartPositions, LateSets, Orderly
<1> USE <1>0 DEF Callers, LastRead
<1>1. CASE spc # "none" /\ spc' = "exit" /\ UNCHANGED <<log, wanted, resend, last, prevGset, call>>
  BY <1>1 DEF Resume, Control
<1>2. CASE Quiet \/ Retries
  BY <1>2 DEF Resume, Quiet, Retries
<1>3. ASSUME NEW p \in StartPositions, StartSync(p)
      PROVE  Callers'
  BY <1>3 DEF Resume, Control, StartSync, startDumpStream, prepare, syncVars
<1>4. ASSUME NEW g \in StartSets \cup LateSets, StartSyncGTIDWrites(g)
      PROVE  Callers'
  BY <1>4 DEF Resume, StartSyncGTIDWrites, deliveryVars
<1>5. CASE StartSyncGTID
  BY <1>5 DEF Resume, Control, StartSyncGTID, startDumpStream, prepare
<1>6. CASE StartSyncGTIDFails
  BY <1>6 DEF Resume, StartSyncGTIDFails, deliveryVars
<1>7. CASE ReadArtificialRotate
  BY <1>7 DEF Resume, ReadArtificialRotate, deliveryVars
<1>8. CASE ReadEvent
  <2>1. Min(conn.todo) \in wanted
    BY <1>8, TodoWanted, TodoMin DEF ReadEvent, Streaming, Types, Scalars
  <2>2. prevGset = Nil => prevGset' = Nil
    BY <1>8 DEF ReadEvent, HandleGTIDs
  <2> QED
    BY <1>8, <2>1, <2>2 DEF Resume, ReadEvent, deliveryVars
<1>9. CASE PutEvent \/ HandleEvent
  BY <1>9 DEF Resume, PutEvent, HandleEvent, HandedOver, syncVars
<1>10. CASE ReplySemiSyncACK \/ BackoffTimer \/ RetryLocks \/ RetrySync
  BY <1>10 DEF Resume, ReplySemiSyncACK, BackoffTimer, RetryLocks, RetrySync, deliveryVars, syncVars
<1> QED
  BY <1>1, <1>2, <1>3, <1>4, <1>5, <1>6, <1>7, <1>8, <1>9, <1>10, PlaceSteps, Zenon

\* A read after StartSyncGTID.
LEMMA ReadByGTID ==
  ASSUME Types, Control, Resume, Orderly(cfg), resend, ReadEvent, UNCHANGED cfg
  PROVE  ByGTID' /\ NextInOrder'
<1> DEFINE r == LastRead
           i == Min(conn.todo)
           f == TxnStart(wanted, r)
<1>1. /\ Types /\ TxnsInOrder(log) /\ wanted \in SUBSET DOMAIN log /\ log' = log /\ cfg' = cfg
      /\ r = last /\ r \in {0} \cup wanted /\ 0 \notin wanted
      /\ ~ctxDone /\ ~ctxDone'
  BY LogFields, Zenon DEF Orderly, Types, Scalars, ReadEvent, LastRead, Resume, Callers, deliveryVars, ctxDone
<1>2. ByGTID /\ Streaming
  BY DEF Resume, InPlace, Active, ReadEvent, Streaming
<1>3. /\ WholeTxns(wanted) /\ Proper(prevGset) /\ DoneBefore(wanted, prevGset, f)
      /\ Flavor = "mysql" => prevMySQLGTIDEvent = IF currGset = Nil THEN NoTxn ELSE log[f].txn
      /\ currGset # Nil => r # 0 /\ Proper(currGset) /\ DoneBefore(wanted, currGset, f + 1)
      /\ conn.todo = IF currGset = Nil THEN {j \in wanted : j >= f} ELSE After(wanted, r)
  BY <1>1, <1>2 DEF ByGTID
<1>4. conn.todo # {}
  BY DEF ReadEvent
<1>5. /\ i \in wanted /\ conn.todo \ {i} = After(wanted, i)
      /\ \A j \in wanted : Gtid(j) => (j < i <=> IF currGset = Nil THEN j < f ELSE j < f + 1)
      /\ Gtid(i) => TxnStart(wanted, i) = i
      /\ ~Gtid(i) => currGset # Nil /\ TxnStart(wanted, i) = f
      /\ \/ After(wanted, r) # {} /\ i = Min(After(wanted, r))
         \/ r # 0 /\ i = RepeatFrom(wanted, r)
  <2>1. PICK new \in BOOLEAN : new <=> currGset = Nil
    BY Zenon
  <2>2. conn.todo = IF new THEN {j \in wanted : j >= TxnStart(wanted, r)} ELSE After(wanted, r)
    BY <1>3, <2>1
  <2>3. new \/ r # 0
    BY <1>3, <2>1
  <2>4. r \in {0} \cup wanted /\ wanted \in SUBSET DOMAIN log /\ WholeTxns(wanted) /\ i = Min(conn.todo)
    BY <1>1, <1>3
  <2> HIDE DEF r, i
  <2>5. /\ i \in wanted /\ conn.todo \ {i} = After(wanted, i)
        /\ \A j \in wanted : Gtid(j) =>
              (j < i <=> IF new THEN j < TxnStart(wanted, r) ELSE j < TxnStart(wanted, r) + 1)
        /\ Gtid(i) => TxnStart(wanted, i) = i
        /\ ~Gtid(i) => ~new /\ TxnStart(wanted, i) = TxnStart(wanted, r)
        /\ \/ After(wanted, r) # {} /\ i = Min(After(wanted, r))
           \/ new /\ r # 0 /\ i = RepeatFrom(wanted, r)
    BY <1>4, <2>2, <2>3, <2>4, NextRead
  <2> QED
    BY <2>1, <2>5
<1>6. /\ i \in DOMAIN log /\ i \in Nat \ {0}
      /\ wanted' = wanted /\ spc' = "put" /\ ev' = i /\ LastRead' = i /\ last' = last /\ resend'
      /\ conn'.todo = After(wanted, i)
  BY <1>1, <1>5, LogFields DEF ReadEvent, LastRead, deliveryVars, Types, Positions
<1>7. HandleGTIDs(log[i])
  BY DEF ReadEvent
<1>8. /\ Proper(prevGset') /\ DoneBefore(wanted, prevGset', TxnStart(wanted, i))
      /\ Proper(currGset') /\ DoneBefore(wanted, currGset', TxnStart(wanted, i) + 1)
      /\ Flavor = "mysql" => prevMySQLGTIDEvent' = log[TxnStart(wanted, i)].txn
  <2>1. CASE Gtid(i)
    <3>1. f \in Nat /\ (r # 0 => f \in wanted /\ Gtid(f) /\ f <= r)
      BY <1>1, <1>3, RepeatStart, Zenon DEF TxnStart
    <3>2. currGset # Nil => f \in wanted /\ Gtid(f) /\ f < i
      BY <1>3, <1>5, <1>6, <3>1
    <3> HIDE DEF f
    <3> QED
      BY <1>1, <1>3, <1>5, <1>6, <1>7, <2>1, <3>1, <3>2, GTIDEventSets, Zenon
  <2>2. CASE ~Gtid(i)
    <3>1. UNCHANGED <<prevGset, currGset, prevMySQLGTIDEvent>>
      BY <1>7, <2>2 DEF HandleGTIDs, Gtid
    <3> QED
      BY <1>3, <1>5, <2>2, <3>1
  <2> QED
    BY <2>1, <2>2
<1>9. currGset' # Nil
  BY <1>8 DEF Proper, Nil
<1>10. Flavor' = Flavor /\ Streaming'
  BY <1>1, <1>6 DEF Flavor, Streaming
<1>11. ByGTID'
  <2>1. WholeTxns(wanted)'
    BY <1>1, <1>3, <1>6, Frame, Zenon
  <2>2. TxnStart(wanted, LastRead)' = TxnStart(wanted, i)
    BY <1>1, <1>6, Frame
  <2>3. /\ Proper(prevGset)' /\ DoneBefore(wanted, prevGset, TxnStart(wanted, LastRead))'
        /\ Proper(currGset)' /\ DoneBefore(wanted, currGset, TxnStart(wanted, LastRead) + 1)'
    BY <1>1, <1>6, <1>8, <2>2, Frame
  <2> HIDE DEF i
  <2> QED
    BY <1>1, <1>6, <1>8, <1>9, <1>10, <2>1, <2>2, <2>3, Zenon DEF ByGTID, Nil
<1>12. NextInOrder'
  BY <1>1, <1>5, <1>6, Frame, Zenon DEF NextInOrder
<1> QED
  BY <1>11, <1>12

\* A read after StartSync.
LEMMA ReadByPosition ==
  ASSUME Types, Control, Resume, Orderly(cfg), ~resend, ReadEvent, UNCHANGED cfg
  PROVE  ByPosition' /\ NextInOrder'
<1>1. /\ PositionsGrow(log) /\ log' = log /\ cfg' = cfg /\ wanted' = wanted /\ last' = last
      /\ LastRead = last /\ Streaming /\ Active
      /\ Len(log) \in Nat /\ DOMAIN log = 1..Len(log)
  <2>1. log \in Seq(LogEvents)
    BY ConfigAssumption DEF Types, Scalars
  <2>2. PositionsGrow(log) /\ log' = log /\ cfg' = cfg /\ wanted' = wanted /\ last' = last
    BY Zenon DEF Orderly, Types, Scalars, ReadEvent, deliveryVars
  <2>3. LastRead = last /\ Streaming /\ Active
    BY DEF ReadEvent, LastRead, Streaming, Active
  <2> QED
    BY <2>1, <2>2, <2>3
<1>2. PICK s \in 0..Len(log) : FromPositionAfter(s)
  BY <1>1 DEF Resume, InPlace, ByPosition
<1> DEFINE k == IF LastRead = 0 THEN s ELSE LastRead
<1>3. /\ wanted = {i \in DOMAIN log : i > s} /\ conn.todo = {i \in DOMAIN log : i > k}
      /\ nextPos = PositionAfter(log, k)
  BY <1>1, <1>2 DEF FromPositionAfter, ReadEvent
<1>4. last \in {0} \cup wanted /\ (last = 0 \/ last > s) /\ k \in 0..Len(log)
  BY <1>1, <1>3 DEF Resume, Callers
<1>5. Min(conn.todo) \in conn.todo /\ \A x \in conn.todo : Min(conn.todo) <= x
  BY <1>1, <1>3, TodoMin, Zenon DEF ReadEvent
<1> HIDE DEF k
<1>6. k + 1 \in conn.todo
  BY <1>1, <1>3, <1>4, <1>5
<1>7. Min(conn.todo) = k + 1 /\ k + 1 \in DOMAIN log
  <2>1. Min(conn.todo) <= k + 1 /\ k + 1 \in DOMAIN log
    BY <1>3, <1>5, <1>6
  <2>2. Min(conn.todo) > k /\ Min(conn.todo) \in Nat
    BY <1>1, <1>3, <1>5
  <2> QED
    BY <1>4, <2>1, <2>2
<1>8. log[k + 1].zero => FillZeroLogPos /\ Flavor = "mariadb"
  BY <1>1, <1>7, Zenon DEF Orderly, FillZeroLogPos, Flavor, Types, Scalars, Resume, Callers, StartPositions, Active
<1>9. conn.todo = After(wanted, last)
  BY <1>1, <1>3, <1>4 DEF After, k
<1>10. /\ spc' = "put" /\ ev' = k + 1 /\ LastRead' = k + 1 /\ k + 1 # 0
       /\ conn'.todo = conn.todo \ {k + 1}
       /\ conn'.hello = (log[k + 1].kind = "rotate")
       /\ conn'.at = [Name |-> log[k + 1].file + 1, Pos |-> FileStart]
       /\ nextPos' = PosAfterEvent(log[k + 1])
  BY <1>1, <1>4, <1>7 DEF ReadEvent, LastRead, Types, Positions
<1>11. nextPos' = PositionAfter(log, k + 1)
  BY <1>1, <1>3, <1>4, <1>7, <1>8, <1>10, PositionStep
<1>12. nextPos'.Name # 0
  BY <1>1, <1>7, <1>11, PositionDump
<1>13. log[k + 1].kind = "rotate" => conn'.at = PositionAfter(log, k + 1)
  BY <1>4, <1>10 DEF PositionAfter
<1>14. conn'.todo = {i \in DOMAIN log : i > k + 1}
  <2>1. \A i \in DOMAIN log : i \in Nat
    BY <1>1
  <2>2. k \in Nat /\ conn'.todo = {i \in DOMAIN log : i > k} \ {k + 1}
    BY <1>3, <1>4, <1>10
  <2> QED
    BY <2>1, <2>2
<1>15. FromPositionAfter(s)'
  BY <1>1, <1>3, <1>10, <1>11, <1>12, <1>13, <1>14, Zenon DEF FromPositionAfter, Streaming, k
<1>16. ByPosition'
  BY <1>1, <1>15 DEF ByPosition
<1>17. NextInOrder'
  BY <1>1, <1>6, <1>7, <1>9, <1>10 DEF NextInOrder
<1> QED
  BY <1>16, <1>17

\* The last event read is an event of the log.
LEMMA PlaceTypes ==
  ASSUME Types, Callers
  PROVE  last \in 0..Len(log) /\ LastRead \in 0..Len(log)
<1>1. {last, LastRead} \subseteq {0} \cup DOMAIN log
  BY DEF Callers, Types, Scalars
<1>2. log \in Seq(LogEvents)
  BY ConfigAssumption DEF Types, Scalars
<1> QED
  BY <1>1, <1>2

\* The first dump: from a position, or for a set.
LEMMA FirstDump ==
  ASSUME Types, Control, Resume, Orderly(cfg), UNCHANGED cfg,
         (\E p \in StartPositions : StartSync(p)) \/ StartSyncGTID
  PROVE  InPlace'
<1>1. /\ spc = "none" /\ last = 0 /\ log' = log /\ last' = 0 /\ spc' = "read" /\ LastRead' = 0
      /\ nextPos.Name = 0 /\ nextPos' = nextPos /\ ~ctxDone /\ ~ctxDone'
  BY DEF Control, StartSync, StartSyncGTID, startDumpStream, prepare, LastRead, syncVars, ctxDone
<1>2. ASSUME NEW p \in StartPositions, StartSync(p)
      PROVE  InPlace'
  <2>1. PICK k \in 0..Len(log) : Clamp(p) = PositionAfter(log, k)
    BY Zenon DEF Orderly, StartPositions, Types, Scalars
  <2>2. PositionsGrow(log)
    BY Zenon DEF Orderly, Types, Scalars
  <2>3. /\ conn' = [up |-> TRUE, hello |-> TRUE, at |-> PositionAfter(log, k),
                    todo |-> {i \in DOMAIN log : i > k}]
        /\ wanted' = {i \in DOMAIN log : i > k} /\ resend' = FALSE
    <3>1. startDumpStream(DumpPos(PositionAfter(log, k)), FALSE)
      BY <1>2, <2>1, Zenon DEF StartSync
    <3>2. DumpPos(PositionAfter(log, k)) =
              [up |-> TRUE, hello |-> TRUE, at |-> PositionAfter(log, k),
               todo |-> {i \in DOMAIN log : i > k}]
      BY <2>2, PositionDump
    <3> QED
      BY <3>1, <3>2 DEF startDumpStream, registerSlave
  <2>4. FromPositionAfter(k)'
    BY <1>1, <2>3 DEF FromPositionAfter, Streaming
  <2> QED
    BY <1>1, <2>3, <2>4 DEF InPlace, ByPosition
<1>3. CASE StartSyncGTID
  <2>1. /\ prevGset = call /\ call \in StartSets /\ prevGset' = call /\ currGset' = Nil
        /\ prevMySQLGTIDEvent' = prevMySQLGTIDEvent
    BY <1>1, <1>3 DEF StartSyncGTID, Resume, Callers
  <2>2. conn'.todo = Missing(call) /\ wanted' = Missing(call) /\ resend' = TRUE
    BY <1>3 DEF StartSyncGTID, startDumpStream, registerSlave, DumpGTID
  <2>3. WholeTxns(Missing(call)) /\ DoneBefore(Missing(call), call, 0)
    BY MissingStart, Zenon DEF Orderly, Types, Scalars
  <2>4. Proper(call)
    BY <2>1, ConfigAssumption, Zenon DEF Proper, Orderly, Flavor, StartSets, Gtid, Types, Scalars
  <2>5. TxnStart(wanted, LastRead)' = 0
    BY <1>1 DEF TxnStart
  <2>6. \A j \in Missing(call) : j >= 0
    <3>1. \A j \in DOMAIN log : j >= 0
      BY LogFields
    <3> QED
      BY <3>1 DEF Missing
  <2>7. WholeTxns(wanted)' /\ Proper(prevGset)' /\ DoneBefore(wanted, prevGset, TxnStart(wanted, LastRead))'
    BY <1>1, <2>1, <2>2, <2>3, <2>4, <2>5, Frame
  <2>8. Nil' = Nil /\ prevMySQLGTIDEvent' = NoTxn
    BY <1>1, <2>1 DEF Nil, Control
  <2>9. ByGTID'
    BY <1>1, <2>1, <2>2, <2>5, <2>6, <2>7, <2>8 DEF ByGTID, Streaming
  <2> QED
    BY <2>2, <2>9 DEF InPlace
<1> QED
  BY <1>2, <1>3

\* The reconnect: the dump goes on where the last one was left.
LEMMA NextDump ==
  ASSUME Types, Control, Resume, Orderly(cfg), RetrySync, UNCHANGED cfg
  PROVE  InPlace'
<1>1. /\ spc = "retry" /\ spc' = "read" /\ ~ctxDone /\ ~ctxDone' /\ Active /\ log' = log
      /\ LastRead = last /\ LastRead' = last
      /\ UNCHANGED <<wanted, resend, nextPos, prevGset, currGset, prevMySQLGTIDEvent>>
  BY DEF RetrySync, prepare, ctxDone, Active, LastRead, deliveryVars, syncVars
<1>2. CASE resend
  <2>1. ByGTID
    BY <1>1, <1>2 DEF Resume, InPlace
  <2>2. /\ Proper(prevGset) /\ DoneBefore(wanted, prevGset, TxnStart(wanted, last))
        /\ WholeTxns(wanted) /\ currGset = Nil
    BY <1>1, <2>1 DEF ByGTID
  <2>3. prevGset # Nil
    BY <2>2 DEF Proper, Nil
  <2>4. conn'.todo = Missing(prevGset)
    BY <2>3 DEF RetrySync, registerSlave, DumpGTID
  <2>5. Missing(prevGset) = {j \in wanted : j >= TxnStart(wanted, last)}
    <3>1. last \in {0} \cup wanted /\ wanted \in SUBSET DOMAIN log
      BY DEF Resume, Callers, Types, Scalars
    <3>2. TxnStart(wanted, last) = 0 \/ (TxnStart(wanted, last) \in wanted /\ Gtid(TxnStart(wanted, last)))
      BY <2>2, <3>1, RepeatStart DEF TxnStart
    <3>3. TxnsInOrder(log)
      BY Zenon DEF Orderly, Types, Scalars
    <3> QED
      BY <2>2, <3>1, <3>2, <3>3, MissingRest
  <2>6. TxnStart(wanted, LastRead)' = TxnStart(wanted, last)
    BY <1>1, Frame
  <2>7. WholeTxns(wanted)' /\ Proper(prevGset)' /\ DoneBefore(wanted, prevGset, TxnStart(wanted, LastRead))'
    BY <1>1, <2>2, <2>6, Frame
  <2>8. ByGTID'
    BY <1>1, <2>1, <2>2, <2>4, <2>5, <2>6, <2>7, Zenon DEF ByGTID, Streaming, Nil, Flavor
  <2> QED
    BY <1>1, <1>2, <2>8 DEF InPlace
<1>3. CASE ~resend
  <2>1. PICK s \in 0..Len(log) : FromPositionAfter(s)
    BY <1>1, <1>3 DEF Resume, InPlace, ByPosition
  <2> DEFINE k == IF LastRead = 0 THEN s ELSE LastRead
  <2>2. nextPos = PositionAfter(log, k) /\ prevGset = Nil
    BY <1>1, <1>3, <2>1, Zenon DEF FromPositionAfter, Resume, Callers, Orderly, StartPositions, StartSets
  <2>3. k \in 0..Len(log)
    BY PlaceTypes DEF Resume
  <2>4. conn' = [up |-> TRUE, hello |-> TRUE, at |-> PositionAfter(log, k),
                 todo |-> {i \in DOMAIN log : i > k}]
    <3> HIDE DEF k
    <3> QED
      BY <2>2, <2>3, PositionDump, Zenon DEF RetrySync, registerSlave, Orderly, Types, Scalars
  <2>5. FromPositionAfter(s)'
    BY <1>1, <2>1, <2>4 DEF FromPositionAfter, Streaming
  <2> QED
    BY <1>1, <1>3, <2>5 DEF InPlace, ByPosition
<1> QED
  BY <1>2, <1>3

\* A step that reads nothing and asks for no dump keeps what holds after
\* StartSyncGTID, and once the syncer is closed also prevGset does not matter.
LEMMA SameByGTID ==
  ASSUME ByGTID, UNCHANGED <<cfg, log, wanted, currGset>>, LastRead' = LastRead,
         ctxDone' \/ (~ctxDone /\ UNCHANGED <<prevGset, prevMySQLGTIDEvent>>),
         Streaming' => Streaming /\ conn'.todo = conn.todo,
         spc' = "put" /\ ev' # 0 => spc = "put" /\ ev # 0,
         spc' = "retry" => spc = "retry"
  PROVE  ByGTID'
<1>1. Nil' = Nil /\ Flavor' = Flavor
  BY DEF Nil, Flavor
<1>2. TxnStart(wanted, LastRead)' = TxnStart(wanted, LastRead)
  BY Frame, Zenon
<1>3. WholeTxns(wanted)'
  BY Frame, Zenon DEF ByGTID
<1>4. ~ctxDone' =>
        /\ Proper(prevGset)'
        /\ DoneBefore(wanted, prevGset, TxnStart(wanted, LastRead))'
        /\ (Flavor = "mysql" =>
              prevMySQLGTIDEvent = IF currGset = Nil THEN NoTxn ELSE log[TxnStart(wanted, LastRead)].txn)'
  BY <1>1, <1>2, Frame, Zenon DEF ByGTID
<1>5. (currGset # Nil =>
          /\ LastRead # 0
          /\ Proper(currGset)
          /\ DoneBefore(wanted, currGset, TxnStart(wanted, LastRead) + 1))'
  BY <1>1, <1>2, Frame DEF ByGTID
<1>6. (Streaming =>
          conn.todo = IF currGset = Nil THEN {j \in wanted : j >= TxnStart(wanted, LastRead)}
                      ELSE After(wanted, LastRead))'
  BY <1>1, <1>2, Zenon DEF ByGTID
<1>7. (spc = "put" /\ ev # 0 => currGset # Nil)' /\ (spc = "retry" => currGset = Nil)'
  BY <1>1, Zenon DEF ByGTID
<1> QED
  BY <1>3, <1>4, <1>5, <1>6, <1>7, Zenon DEF ByGTID

\* The same after StartSync.
LEMMA SameByPosition ==
  ASSUME ByPosition, UNCHANGED <<log, wanted, nextPos>>, LastRead' = LastRead,
         Streaming' => Streaming /\ conn'.todo = conn.todo /\ conn'.hello = conn.hello /\ conn'.at = conn.at,
         spc' \in {"backoff", "lock", "retry"} => nextPos.Name # 0 \/ spc \in {"backoff", "lock", "retry"}
  PROVE  ByPosition'
<1>1. PICK s \in 0..Len(log) : FromPositionAfter(s)
  BY DEF ByPosition
<1>2. FromPositionAfter(s)'
  BY <1>1 DEF FromPositionAfter
<1> QED
  BY <1>2 DEF ByPosition

\* Where onStream stands in the log, after a step.
LEMMA InPlaceNext ==
  ASSUME Types, Control, Resume, Orderly(cfg), [Next]_vars
  PROVE  InPlace'
<1>0. cfg' = cfg /\ LateSets = {}
  BY Zenon DEF Next, vars, LateSets, Orderly
<1>A. ASSUME Active, log' = log, resend' = resend, wanted' = wanted,
             resend => ByGTID', ~resend => ByPosition'
      PROVE  InPlace'
  BY <1>A DEF InPlace
<1>B. resend /\ Active => ByGTID
  BY DEF Resume, InPlace
<1>C. ~resend /\ Active => ByPosition
  BY DEF Resume, InPlace
<1>1. CASE spc # "none" /\ spc' = "exit" /\ UNCHANGED <<log, wanted, resend, last, prevGset, call>>
  BY <1>1 DEF InPlace, Active
<1>2. CASE Quiet
  <2> SUFFICES ASSUME Active
               PROVE  InPlace'
    BY <1>2 DEF Quiet, Active, InPlace
  <2>1. /\ conn'.todo = conn.todo /\ conn'.hello = conn.hello /\ conn'.at = conn.at
        /\ LastRead' = LastRead /\ Streaming' = Streaming
    BY <1>2 DEF Quiet, LastRead, Streaming, Types, Positions
  <2>2. resend => ByGTID'
    BY <1>0, <1>2, <1>B, <2>1, SameByGTID DEF Quiet
  <2>3. ~resend => ByPosition'
    BY <1>2, <1>C, <2>1, SameByPosition DEF Quiet
  <2> QED
    BY <1>2, <1>A, <2>2, <2>3 DEF Quiet
<1>3. CASE Retries
  <2>1. Active /\ ~Streaming' /\ LastRead' = LastRead /\ ctxDone' = ctxDone
    BY <1>3 DEF Retries, Active, Streaming, LastRead, ctxDone
  <2>2. resend => ByGTID'
    BY <1>0, <1>3, <1>B, <2>1, SameByGTID DEF Retries
  <2>3. ~resend => prevGset = Nil
    BY <2>1, Zenon DEF Resume, Callers, Orderly, Active, StartPositions, StartSets
  <2>4. ~resend => ByPosition'
    BY <1>3, <1>C, <2>1, <2>3, SameByPosition DEF Retries
  <2> QED
    BY <1>3, <1>A, <2>1, <2>2, <2>4 DEF Retries
<1>4. CASE (\E p \in StartPositions : StartSync(p)) \/ StartSyncGTID
  BY <1>0, <1>4, FirstDump
<1>5. ASSUME NEW g \in StartSets \cup LateSets, StartSyncGTIDWrites(g)
      PROVE  InPlace'
  <2> SUFFICES ASSUME Active
               PROVE  InPlace'
    BY <1>5 DEF StartSyncGTIDWrites, Active, InPlace
  <2>1. ~running /\ ctxDone'
    BY <1>0, <1>5 DEF StartSyncGTIDWrites, Control, Active, ctxDone
  <2>2. LastRead' = LastRead /\ Streaming' = Streaming
    BY <1>5 DEF StartSyncGTIDWrites, LastRead, Streaming, deliveryVars
  <2>3. resend => ByGTID'
    BY <1>0, <1>5, <1>B, <2>1, <2>2, SameByGTID DEF StartSyncGTIDWrites, deliveryVars
  <2>4. ~resend => ByPosition'
    BY <1>5, <1>C, <2>2, SameByPosition DEF StartSyncGTIDWrites, deliveryVars
  <2> QED
    BY <1>5, <1>A, <2>3, <2>4 DEF StartSyncGTIDWrites, deliveryVars
<1>6. CASE StartSyncGTIDFails
  <2> SUFFICES ASSUME Active
               PROVE  InPlace'
    BY <1>6 DEF StartSyncGTIDFails, Active, InPlace
  <2>1. running /\ currGset' = currGset /\ ~ctxDone
    BY <1>6 DEF StartSyncGTIDFails, Control, Active, ctxDone
  <2>2. LastRead' = LastRead /\ Streaming' = Streaming
    BY <1>6 DEF StartSyncGTIDFails, LastRead, Streaming, deliveryVars
  <2>3. resend => ByGTID'
    BY <1>0, <1>6, <1>B, <2>1, <2>2, SameByGTID DEF StartSyncGTIDFails, deliveryVars
  <2>4. ~resend => ByPosition'
    BY <1>6, <1>C, <2>2, SameByPosition DEF StartSyncGTIDFails, deliveryVars
  <2> QED
    BY <1>6, <1>A, <2>3, <2>4 DEF StartSyncGTIDFails, deliveryVars
<1>7. CASE ReadArtificialRotate
  <2>1. /\ Active /\ Streaming /\ ~ctxDone /\ LastRead = last /\ LastRead' = last
        /\ conn'.todo = conn.todo /\ conn.hello /\ conn'.hello = FALSE
    BY <1>7 DEF ReadArtificialRotate, Active, Streaming, LastRead, deliveryVars, Types, Positions
  <2>2. resend => ByGTID'
    BY <1>0, <1>7, <1>B, <2>1, SameByGTID DEF ReadArtificialRotate, deliveryVars
  <2>3. ASSUME ~resend
        PROVE  ByPosition'
    <3>1. PICK s \in 0..Len(log) : FromPositionAfter(s)
      BY <1>C, <2>1, <2>3 DEF ByPosition
    <3> DEFINE k == IF LastRead = 0 THEN s ELSE LastRead
    <3>2. nextPos' = PositionAfter(log, k)
      BY <1>7, <2>1, <3>1 DEF FromPositionAfter, ReadArtificialRotate
    <3>3. k \in 0..Len(log)
      BY PlaceTypes DEF Resume
    <3>4. PositionAfter(log, k).Name > 0
      <4> HIDE DEF k
      <4> QED
        BY <3>3, PositionDump, Zenon DEF Orderly, Types, Scalars
    <3>5. nextPos'.Name # 0
      BY <3>2, <3>4
    <3>6. /\ UNCHANGED <<log, wanted>> /\ spc' = "put" /\ wanted = {i \in DOMAIN log : i > s}
          /\ conn.todo = {i \in DOMAIN log : i > k}
      BY <1>7, <2>1, <3>1 DEF FromPositionAfter, ReadArtificialRotate, deliveryVars
    <3>7. FromPositionAfter(s)'
      BY <2>1, <3>2, <3>5, <3>6 DEF FromPositionAfter
    <3> QED
      BY <3>6, <3>7 DEF ByPosition
  <2> QED
    BY <1>7, <1>A, <2>1, <2>2, <2>3 DEF ReadArtificialRotate, deliveryVars
<1>8. CASE ReadEvent
  <2>1. Active /\ UNCHANGED <<log, resend, wanted>>
    BY <1>8 DEF ReadEvent, Active, deliveryVars
  <2> QED
    BY <1>0, <1>8, <1>A, <2>1, ReadByGTID, ReadByPosition
<1>9. CASE PutEvent \/ HandleEvent \/ ReplySemiSyncACK \/ BackoffTimer
  <2>1. /\ UNCHANGED <<log, resend, wanted, nextPos, prevGset, currGset, prevMySQLGTIDEvent, conn>>
        /\ Active /\ LastRead' = LastRead /\ ctxDone' = ctxDone
        /\ Streaming' => Streaming
        /\ spc' # "put" /\ spc' # "retry"
        /\ spc' \in {"backoff", "lock", "retry"} => spc \in {"backoff", "lock", "retry"}
    BY <1>9 DEF PutEvent, HandleEvent, HandedOver, ReplySemiSyncACK, BackoffTimer, syncVars,
                deliveryVars, Active, LastRead, ctxDone, Streaming
  <2>2. resend => ByGTID'
    BY <1>0, <1>B, <2>1, SameByGTID
  <2>3. ~resend => ByPosition'
    BY <1>C, <2>1, SameByPosition
  <2> QED
    BY <1>A, <2>1, <2>2, <2>3
<1>10. CASE RetryLocks
  <2>1. /\ UNCHANGED <<log, resend, wanted, nextPos, prevGset, conn, ev>>
        /\ Active /\ LastRead = last /\ LastRead' = last /\ ~ctxDone /\ ~ctxDone' /\ ~Streaming'
        /\ spc = "lock" /\ spc' = "retry" /\ prevMySQLGTIDEvent' = NoTxn
    BY <1>10 DEF RetryLocks, Control, Active, LastRead, ctxDone, Streaming, deliveryVars
  <2>2. ASSUME resend
        PROVE  ByGTID'
    <3>1. /\ WholeTxns(wanted) /\ Proper(prevGset)
          /\ DoneBefore(wanted, prevGset, TxnStart(wanted, LastRead))
      BY <1>B, <2>1, <2>2 DEF ByGTID
    <3>2. currGset' = Nil
      BY <1>10, <3>1, Zenon DEF RetryLocks, Proper, Nil
    <3>3. /\ WholeTxns(wanted)' /\ Proper(prevGset)'
          /\ DoneBefore(wanted, prevGset, TxnStart(wanted, LastRead))'
      BY <1>0, <2>1, <3>1, Frame
    <3> QED
      BY <2>1, <3>2, <3>3 DEF ByGTID, Nil
  <2>3. ~resend => ByPosition'
    BY <1>C, <2>1, SameByPosition
  <2> QED
    BY <1>A, <2>1, <2>2, <2>3
<1>11. CASE RetrySync
  BY <1>0, <1>11, NextDump
<1> QED
  BY <1>1, <1>2, <1>3, <1>4, <1>5, <1>6, <1>7, <1>8, <1>9, <1>10, <1>11, PlaceSteps

\* The event being handed over, after a step.
LEMMA NextInOrderNext ==
  ASSUME Types, Control, Resume, Orderly(cfg), [Next]_vars
  PROVE  NextInOrder'
<1>0. cfg' = cfg
  BY DEF Next, vars
<1>1. CASE ReadEvent
  BY <1>0, <1>1, ReadByGTID, ReadByPosition
<1>2. CASE UNCHANGED <<log, wanted, resend, last, spc, ev>>
  BY <1>0, <1>2, Frame DEF Resume, NextInOrder
<1>3. CASE spc' # "put" \/ ev' = 0
  BY <1>3 DEF NextInOrder
<1>4. ReadEvent \/ UNCHANGED <<log, wanted, resend, last, spc, ev>> \/ spc' # "put" \/ ev' = 0
  BY PlaceSteps, Zenon
  DEF Quiet, Retries, StartSync, StartSyncGTIDWrites, StartSyncGTID, StartSyncGTIDFails,
      startDumpStream, ReadArtificialRotate, PutEvent, HandleEvent, HandedOver,
      ReplySemiSyncACK, BackoffTimer, RetryLocks, RetrySync, deliveryVars
<1> QED
  BY <1>1, <1>2, <1>3, <1>4

\* Who changes what the consumer is still to get.
LEMMA ChannelSteps ==
  ASSUME [Next]_vars
  PROVE  \/ PutEvent
         \/ ch # <<>> /\ ch' = Tail(ch) /\ UNCHANGED deliveryVars
         \/ ch' = <<>>
         \/ ch' = ch /\ (UNCHANGED <<log, wanted, resend>> \/ (m = "free" /\ ~running /\ ~ctxDone))
  BY Zenon
  DEF Next, vars, Starting, StreamStep, StreamFailure, Consumer, Closing,
      StartSync, StartSyncGTIDWrites, StartSyncGTID, StartSyncGTIDFails, ConnBreaks,
      ReadClosed, ReadFails, ReadErrorPacket, ReadArtificialRotate, ReadEvent,
      PutClosed, HandleEvent, HandleEventFails, ReplySemiSyncACK, ReplySemiSyncACKFails,
      BackoffClosed, BackoffTimer, RetryLocks, RetrySync, RetrySyncFails, GetEvent, GetError,
      DumpEvents, CloseCalled, CloseLocks, CloseReturns, HandedOver, startDumpStream,
      closeWithError, prepare, syncVars, streamerVars, deliveryVars

\* The sets in the channel, after a step.
LEMMA GSetExactNext ==
  ASSUME Types, Control, Resume, Orderly(cfg), GSetExact, [Next]_vars
  PROVE  GSetExact'
<1> DEFINE Exact(q) ==
      resend /\ q.index # 0 /\ log[q.index].kind = "xid" =>
          \A i \in DOMAIN log : log[i].kind = "gtid" =>
              (Covered(q.gset, log[i].txn) <=> i \notin wanted \/ i <= q.index)
<1>0. cfg' = cfg /\ ch \in Seq([index : {0} \cup DOMAIN log, gset : SUBSET GTIDs])
  BY DEF Next, vars, Types, Queues
<1>1. \A k \in DOMAIN ch : Exact(ch[k])
  BY DEF GSetExact
<1>2. ASSUME UNCHANGED <<log, wanted, resend>>, \A k \in DOMAIN ch' : Exact(ch'[k])
      PROVE  GSetExact'
  <2>1. \A a, b : Covered(a, b)' <=> Covered(a, b)
    BY <1>0, <1>2 DEF Covered, GtidIndex, Flavor
  <2> QED
    BY <1>2, <2>1, Zenon DEF GSetExact
<1>3. CASE PutEvent
  <2>1. Exact([index |-> ev, gset |-> GSetOf(ev)])
    <3> SUFFICES ASSUME resend, ev # 0, log[ev].kind = "xid",
                        NEW i \in DOMAIN log, log[i].kind = "gtid"
                 PROVE  Covered(currGset, log[i].txn) <=> i \notin wanted \/ i <= ev
      BY DEF GSetOf
    <3>1. LastRead = ev /\ ByGTID /\ currGset # Nil
      BY <1>3, Zenon DEF PutEvent, LastRead, Resume, InPlace, Active, ByGTID
    <3>2. /\ ev \in wanted /\ wanted \in SUBSET DOMAIN log /\ WholeTxns(wanted)
          /\ DoneBefore(wanted, currGset, TxnStart(wanted, ev) + 1)
      BY <3>1, Zenon DEF ByGTID, Resume, Callers, Types, Scalars
    <3> DEFINE f == TxnStart(wanted, ev)
    <3>3. /\ f \in Nat /\ f <= ev /\ \A j \in wanted : Gtid(j) /\ j <= ev => j <= f
      BY <3>2, RepeatStart, Zenon
    <3>4. Covered(currGset, log[i].txn) <=> i \notin wanted \/ i < f + 1
      BY <3>2 DEF DoneBefore, Gtid
    <3>5. i \in Nat /\ ev \in Nat
      BY <3>2, LogFields
    <3> HIDE DEF f
    <3>6. i \in wanted => (i <= ev <=> i <= f)
      BY <3>3, <3>5 DEF Gtid
    <3>7. i < f + 1 <=> i <= f
      BY <3>3, <3>5
    <3> QED
      BY <3>4, <3>6, <3>7
  <2>2. /\ ch' = Append(ch, [index |-> ev, gset |-> GSetOf(ev)])
        /\ UNCHANGED <<log, wanted, resend>>
    BY <1>3 DEF PutEvent, HandedOver
  <2> HIDE DEF Exact
  <2>3. \A k \in DOMAIN ch' : Exact(ch'[k])
    <3>1. ASSUME NEW k \in DOMAIN ch'
          PROVE  (k \in DOMAIN ch /\ ch'[k] = ch[k]) \/ ch'[k] = [index |-> ev, gset |-> GSetOf(ev)]
      BY <1>0, <2>2, <3>1
    <3> QED
      BY <1>1, <2>1, <3>1
  <2> QED
    BY <1>2, <2>2, <2>3
<1>4. CASE ch # <<>> /\ ch' = Tail(ch) /\ UNCHANGED deliveryVars
  <2> HIDE DEF Exact
  <2>1. \A k \in DOMAIN ch' : k + 1 \in DOMAIN ch /\ ch'[k] = ch[k + 1]
    BY <1>0, <1>4
  <2>2. \A k \in DOMAIN ch' : Exact(ch'[k])
    BY <1>1, <2>1
  <2> QED
    BY <1>2, <1>4, <2>2 DEF deliveryVars
<1>5. CASE ch' = <<>>
  <2>1. DOMAIN ch' = {}
    BY <1>5
  <2> QED
    BY <2>1 DEF GSetExact
<1>6. CASE ch' = ch /\ UNCHANGED <<log, wanted, resend>>
  <2> HIDE DEF Exact
  <2> QED
    BY <1>1, <1>2, <1>6
<1>7. CASE ch' = ch /\ m = "free" /\ ~running /\ ~ctxDone
  <2>1. ch' = <<>>
    BY <1>7 DEF Control
  <2> QED
    BY <1>5, <2>1
<1> QED
  BY <1>3, <1>4, <1>5, <1>6, <1>7, ChannelSteps

-----------------------------------------------------------------------------
(***************************************************************************)
(* The theorems.                                                           *)
(***************************************************************************)
\* The inductive invariant of the syncer of an orderly source and caller.
SyncerInv == Types /\ Control /\ EndReported /\ Orderly(cfg) /\ Resume /\ GSetExact

\* The configuration of a syncer does not change.
LEMMA OrderlyNext == Orderly(cfg) /\ [Next]_vars => Orderly(cfg)'
<1> SUFFICES ASSUME Orderly(cfg), [Next]_vars
             PROVE  Orderly(cfg)'
  OBVIOUS
<1>1. cfg' = cfg
  BY DEF Next, vars
<1> QED
  BY <1>1, Zenon

\* A syncer that was not started yet is in place.
LEMMA SyncerInvInit == Init /\ Orderly(cfg) => SyncerInv
<1> SUFFICES ASSUME Init, Orderly(cfg)
             PROVE  SyncerInv
  OBVIOUS
<1>1. Types /\ Control /\ EndReported
  BY InitTypes
<1>2. Resume
  BY DEF Init, DeliveryInit, Resume, Callers, InPlace, NextInOrder, Active, LastRead
<1>3. GSetExact
  <2>1. DOMAIN ch = {}
    BY DEF Init
  <2> QED
    BY <2>1 DEF GSetExact
<1> QED
  BY <1>1, <1>2, <1>3 DEF SyncerInv

\* Every step keeps the invariant.
LEMMA SyncerInvNext == SyncerInv /\ [Next]_vars => SyncerInv'
  BY TypesNext, ControlNext, EndReportedNext, OrderlyNext, CallersNext, InPlaceNext,
     NextInOrderNext, GSetExactNext DEF SyncerInv, Resume

\* A dump goes on after the last event handed over or repeats its transaction.
LEMMA InPlaceGivesResumePoint ==
  ASSUME Types, Resume
  PROVE  ResumePoint
<1> SUFFICES ASSUME spc = "read", conn.up
             PROVE  \/ conn.todo = After(wanted, last)
                    \/ /\ resend /\ last # 0
                       /\ conn.todo = {j \in wanted : j >= RepeatFrom(wanted, last)}
  BY DEF ResumePoint
<1>1. /\ LastRead = last /\ Active /\ Streaming /\ last \in {0} \cup wanted /\ wanted \subseteq DOMAIN log
      /\ \A i \in DOMAIN log : i \in Nat \ {0}
  BY LogFields DEF LastRead, Active, Streaming, Resume, Callers, Types, Scalars
<1>2. CASE resend
  <2>1. conn.todo = IF currGset = Nil THEN {j \in wanted : j >= TxnStart(wanted, last)}
                    ELSE After(wanted, last)
    BY <1>1, <1>2, Zenon DEF Resume, InPlace, ByGTID
  <2>2. {j \in wanted : j >= 0} = After(wanted, 0)
    BY <1>1 DEF After
  <2> QED
    BY <1>2, <2>1, <2>2 DEF TxnStart
<1>3. CASE ~resend
  <2>1. PICK s \in 0..Len(log) : FromPositionAfter(s)
    BY <1>1, <1>3 DEF Resume, InPlace, ByPosition
  <2> DEFINE k == IF last = 0 THEN s ELSE last
  <2>2. conn.todo = {j \in DOMAIN log : j > k} /\ wanted = {j \in DOMAIN log : j > s}
    BY <1>1, <2>1, Zenon DEF FromPositionAfter
  <2>3. s \in Nat /\ last \in Nat /\ (last # 0 => last > s)
    BY <1>1, <2>1, <2>2
  <2>4. \A j \in DOMAIN log : j > k <=> j > s /\ j > last
    BY <1>1, <2>3
  <2> QED
    BY <2>2, <2>4, Zenon DEF After
<1> QED
  BY <1>2, <1>3

\* A step of the syncer is one that BinlogDelivery allows: the start of the dump,
\* the next event in the order of the log, a repeated transaction, or none.
LEMMA DeliveryStep == SyncerInv /\ [Next]_vars => [DeliveryNext]_deliveryVars
<1> SUFFICES ASSUME SyncerInv, [Next]_vars
             PROVE  [DeliveryNext]_deliveryVars
  OBVIOUS
<1>0. Types /\ Control /\ Callers /\ NextInOrder
  BY DEF SyncerInv, Resume
<1>1. ASSUME spc = "put", HandedOver
      PROVE  [DeliveryNext]_deliveryVars
  BY <1>0, <1>1 DEF HandedOver, NextInOrder, DeliveryNext, Deliver, Repeat, deliveryVars
<1>2. ASSUME NEW dump, NEW again \in BOOLEAN, m = "free", ~running, prepare, startDumpStream(dump, again)
      PROVE  [DeliveryNext]_deliveryVars
  <2>1. last = 0
    BY <1>0, <1>2 DEF Control, prepare
  <2>2. wanted' \subseteq DOMAIN log'
    BY <1>0, TypesNext DEF Types, Scalars
  <2> QED
    BY <1>2, <2>1, <2>2 DEF startDumpStream, DeliveryNext, Start
<1>3. \/ UNCHANGED deliveryVars
      \/ spc = "put" /\ HandedOver
      \/ \E p \in StartPositions : StartSync(p)
      \/ StartSyncGTID
  BY Zenon
  DEF Next, vars, Starting, StreamStep, StreamFailure, Consumer, Closing,
      StartSyncGTIDWrites, StartSyncGTIDFails, ConnBreaks,
      ReadClosed, ReadFails, ReadErrorPacket, ReadArtificialRotate, ReadEvent, PutEvent,
      PutClosed, HandleEvent, HandleEventFails, ReplySemiSyncACK, ReplySemiSyncACKFails,
      BackoffClosed, BackoffTimer, RetryLocks, RetrySync, RetrySyncFails, GetEvent, GetError,
      DumpEvents, CloseCalled, CloseLocks, CloseReturns, deliveryVars
<1>4. ASSUME NEW p \in StartPositions, StartSync(p)
      PROVE  [DeliveryNext]_deliveryVars
  BY <1>2, <1>4, Zenon DEF StartSync
<1>5. CASE StartSyncGTID
  BY <1>2, <1>5, Zenon DEF StartSyncGTID
<1> QED
  BY <1>1, <1>3, <1>4, <1>5

\* For every log and configuration, whatever the source sends and whoever starts
\* the syncer: the variables keep their types (positions stay uint32, the two
\* channels within their capacity), and onStream does not end without an error
\* for GetEvent to return.
THEOREM StreamerSafe == Spec => [](TypeOK /\ EndReported)
<1>1. Init => Types /\ Control /\ EndReported
  BY InitTypes
<1>2. Types /\ Control /\ EndReported /\ [Next]_vars => (Types /\ Control /\ EndReported)'
  BY TypesNext, ControlNext, EndReportedNext
<1>3. Types => TypeOK
  BY TypesGiveTypeOK
<1> QED
  BY <1>1, <1>2, <1>3, PTL DEF Spec

\* An event is acknowledged to a semi-synchronous source only after it was handed
\* over (handleEventAndACK replies last), for every log and configuration.
THEOREM AcksHandedOver == Spec => AckAfterHandOver
<1>1. Init => Types /\ Control
  BY InitTypes
<1>2. Types /\ Control /\ [Next]_vars => (Types /\ Control)'
  BY TypesNext, ControlNext
<1>3. Types /\ Control /\ [Next]_vars => [acked' # acked => acked' = last]_vars
  <2> SUFFICES ASSUME Control, [Next]_vars, acked' # acked
               PROVE  acked' = last
    OBVIOUS
  <2>1. ReplySemiSyncACK
    BY Zenon
    DEF Next, vars, Starting, StreamStep, StreamFailure, Consumer, Closing,
        StartSync, StartSyncGTIDWrites, StartSyncGTID, StartSyncGTIDFails, ConnBreaks,
        ReadClosed, ReadFails, ReadErrorPacket, ReadArtificialRotate, ReadEvent, PutEvent,
        PutClosed, HandleEvent, HandleEventFails, ReplySemiSyncACKFails,
        BackoffClosed, BackoffTimer, RetryLocks, RetrySync, RetrySyncFails, GetEvent, GetError,
        DumpEvents, CloseCalled, CloseLocks, CloseReturns, HandedOver, startDumpStream
  <2> QED
    BY <2>1 DEF ReplySemiSyncACK, Control
<1> QED
  BY <1>1, <1>2, <1>3, PTL DEF Spec, AckAfterHandOver

\* Whatever breaks and however often, the dump that onStream reads continues where
\* the last one was left, for every orderly log, by position and by GTID set.
THEOREM ResumesInPlace == Spec /\ Orderly(cfg) => []ResumePoint
<1>1. SyncerInv => ResumePoint
  BY InPlaceGivesResumePoint DEF SyncerInv
<1> QED
  BY <1>1, SyncerInvInit, SyncerInvNext, PTL DEF Spec

\* What the streamer holds for GetEvent is bounded, carries exact GTID sets and,
\* after the end, an error, for every orderly log.
THEOREM StreamerHoldsExact == Spec /\ Orderly(cfg) => []StreamerExact
<1>1. SyncerInv => StreamerExact
  BY TypesGiveTypeOK DEF SyncerInv, StreamerExact
<1> QED
  BY <1>1, SyncerInvInit, SyncerInvNext, PTL DEF Spec

\* The syncer implements BinlogDelivery: the wanted events arrive in the order of
\* the log and without a gap, for every orderly log and any number of faults.
THEOREM SyncerDelivers == Spec /\ Orderly(cfg) => DeliverySpec
<1>1. Init => DeliveryInit
  BY DEF Init
<1> QED
  BY <1>1, DeliveryStep, SyncerInvInit, SyncerInvNext, PTL DEF Spec, DeliverySpec
=============================================================================
