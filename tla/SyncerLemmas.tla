---------------------------- MODULE SyncerLemmas ----------------------------
(***************************************************************************)
(* The inductive invariant of BinlogSyncer, and the facts about logs, GTID  *)
(* sets and positions that its proof rests on (SyncerProofs).              *)
(***************************************************************************)
EXTENDS BinlogSyncer, TLAPS, WellFoundedInduction, NaturalsInduction

(***************************************************************************)
(* The inductive invariant.                                                *)
(***************************************************************************)
\* The types of the variables, of which TypeOK names the greater part; the
\* position of the artificial rotate event stays a uint32, as nextPos must.
Scalars ==
    /\ cfg \in Configs /\ log = cfg.log
    /\ m \in {"free", "stream", "close"}
    /\ spc \in {"none", "read", "put", "ack", "backoff", "lock", "retry", "exit"}
    /\ {ev, acked, last} \subseteq {0} \cup DOMAIN log
    /\ wanted \subseteq DOMAIN log /\ {resend, running} \subseteq BOOLEAN
    /\ retryCount \in Nat /\ faults \in 0..MaxFaults
    /\ cpc \in {"no", "lock", "wait", "done"}

Positions ==
    /\ conn \in [up : BOOLEAN, hello : BOOLEAN, at : [Name : Nat, Pos : 0..PosModulus - 1],
                 todo : SUBSET DOMAIN log]
    /\ nextPos \in [Name : Nat, Pos : 0..PosModulus - 1]

Sets ==
    /\ {prevGset, currGset, call} \subseteq SUBSET GTIDs
    /\ prevMySQLGTIDEvent \in Txns \cup {NoTxn}

\* What onStream ends with.
Errors == {"closed", "conn", "server", "handler", "ack", "giveup"}

Queues ==
    /\ ch \in Seq([index : {0} \cup DOMAIN log, gset : SUBSET GTIDs]) /\ Len(ch) <= EventCacheCount
    /\ ech \in Seq(Errors) /\ Len(ech) <= EchCap /\ err \in {"none"} \cup Errors

Types == Scalars /\ Positions /\ Sets /\ Queues

\* The mutex, the goroutine and Close: who may run when.
Control ==
    /\ m = "stream" <=> spc = "retry"
    /\ m = "close" <=> cpc = "wait"
    /\ running => spc # "none"
    /\ ~running => spc = "none" \/ ctxDone
    /\ cpc = "done" => spc \in {"none", "exit"}
    /\ spc = "none" => last = 0 /\ wanted = {} /\ ~resend /\ ch = <<>> /\ ~conn.up /\ currGset = Nil
                       /\ nextPos.Name = 0 /\ prevMySQLGTIDEvent = NoTxn
    /\ spc = "ack" /\ ev # 0 => ev = last

Active == spc \notin {"none", "exit"}
Streaming == spc \in {"read", "put", "ack"}

\* The last log event read from the source.
LastRead == IF spc = "put" /\ ev # 0 THEN ev ELSE last

\* The GTID event of the transaction that event r of those in w belongs to or
\* follows.
TxnStart(w, r) == IF r = 0 THEN 0 ELSE RepeatFrom(w, r)

Gtid(i) == log[i].kind = "gtid"

\* Set g stands for the transactions of w before log index k and those not in w.
DoneBefore(w, g, k) ==
    \A i \in DOMAIN log : Gtid(i) => (Covered(g, log[i].txn) <=> i \notin w \/ i < k)

\* A set that the syncer may hold.
Proper(g) ==
    /\ g \subseteq GTIDs /\ NoTxn \notin g
    /\ Flavor = "mariadb" => \A t \in g : \E i \in DOMAIN log : Gtid(i) /\ log[i].txn = t

\* The events in w are those of whole transactions, and the rotate events after
\* the first of them.
WholeTxns(w) ==
    \A i \in DOMAIN log : i \in w <=>
        /\ \E f \in w : Gtid(f) /\ f <= i
        /\ log[i].kind = "rotate" \/ \E j \in w : Gtid(j) /\ log[j].txn = log[i].txn

\* After StartSyncGTID: prevGset stands for what was done before the transaction
\* in progress, currGset for that and the transaction itself; a connection on
\* which no GTID event was read yet repeats that transaction.
ByGTID ==
    /\ WholeTxns(wanted)
    /\ ~ctxDone =>
          /\ Proper(prevGset)
          /\ DoneBefore(wanted, prevGset, TxnStart(wanted, LastRead))
          /\ Flavor = "mysql" =>
                prevMySQLGTIDEvent = IF currGset = Nil THEN NoTxn ELSE log[TxnStart(wanted, LastRead)].txn
    /\ currGset # Nil =>
          /\ LastRead # 0
          /\ Proper(currGset)
          /\ DoneBefore(wanted, currGset, TxnStart(wanted, LastRead) + 1)
    /\ Streaming =>
          conn.todo = IF currGset = Nil THEN {j \in wanted : j >= TxnStart(wanted, LastRead)}
                      ELSE After(wanted, LastRead)
    /\ spc = "put" /\ ev # 0 => currGset # Nil
    /\ spc = "retry" => currGset = Nil

\* After StartSync at the position after s events: nextPos is the position after
\* the last event read, from where the connection goes on.
FromPositionAfter(s) ==
    LET k == IF LastRead = 0 THEN s ELSE LastRead
    IN  /\ wanted = {i \in DOMAIN log : i > s}
        /\ nextPos.Name = 0 \/ nextPos = PositionAfter(log, k)
        /\ spc \in {"backoff", "lock", "retry"} => nextPos.Name # 0
        /\ Streaming =>
              /\ conn.todo = {i \in DOMAIN log : i > k}
              /\ IF conn.hello THEN conn.at = PositionAfter(log, k) ELSE nextPos.Name # 0

ByPosition == \E s \in 0..Len(log) : FromPositionAfter(s)

InPlace == Active => IF resend THEN ByGTID ELSE ByPosition

\* The event being handed over is the one BinlogDelivery wants next.
NextInOrder ==
    spc = "put" /\ ev # 0 =>
        \/ After(wanted, last) # {} /\ ev = Min(After(wanted, last))
        \/ resend /\ last # 0 /\ ev = RepeatFrom(wanted, last)

\* What a caller has done so far.
Callers ==
    /\ StartSets = {} => prevGset = Nil /\ call = Nil
    /\ call # Nil => call \in StartSets
    /\ spc = "none" /\ call # Nil => prevGset = call
    /\ spc # "none" /\ ~resend => StartPositions # {}
    /\ {last, LastRead} \subseteq {0} \cup wanted

Resume == Callers /\ InPlace /\ NextInOrder

-----------------------------------------------------------------------------
(***************************************************************************)
(* Facts about the operators.                                              *)
(***************************************************************************)
\* A set of numbers has a least element.
LEMMA MinIn ==
  ASSUME NEW S \in SUBSET Nat, S # {}
  PROVE  Min(S) \in S /\ \A x \in S : Min(S) <= x
<1>1. PICK j \in S : \A y \in S : ~ (<<y, j>> \in OpToRel(<, Nat))
  BY NatLessThanWellFounded, WFMin, Zenon
<1>2. ASSUME NEW y \in S
      PROVE  j <= y
  <2>1. j \in Nat /\ y \in Nat
    OBVIOUS
  <2>2. y < j => <<y, j>> \in OpToRel(<, Nat)
    BY <2>1 DEF OpToRel
  <2>3. ~ (y < j)
    BY <1>1, <2>2, Zenon
  <2> QED
    BY <2>1, <2>3
<1> QED
  BY <1>2, Zenon DEF Min

\* A bounded set of numbers has a greatest element.
LEMMA MaxIn ==
  ASSUME NEW n \in Nat, NEW S \in SUBSET (0..n), S # {}
  PROVE  Max(S) \in S /\ \A x \in S : x <= Max(S)
<1> DEFINE U == {x \in 0..n : \A y \in S : y <= x}
<1>1. n \in U /\ U \in SUBSET Nat
  OBVIOUS
<1> DEFINE u == Min(U)
<1>2. u \in U /\ \A x \in U : u <= x
  BY <1>1, MinIn
<1> HIDE DEF u
<1>3. u \in S
  <2> SUFFICES ASSUME u \notin S
               PROVE  FALSE
    OBVIOUS
  <2>1. \A y \in S : y <= u - 1 /\ 0 <= y
    BY <1>2
  <2>2. PICK y \in S : TRUE
    BY Zenon
  <2>3. u - 1 \in U
    BY <1>2, <2>1, <2>2
  <2> QED
    BY <1>2, <2>3
<1> QED
  BY <1>2, <1>3, Zenon DEF Max

\* The fields of an event of the log.
LEMMA LogFields ==
  ASSUME Types, NEW i \in DOMAIN log
  PROVE  /\ i \in Nat \ {0} /\ i <= Len(log) /\ Len(log) \in Nat /\ DOMAIN log = 1..Len(log)
         /\ log[i].kind \in {"gtid", "query", "xid", "rotate"}
         /\ log[i].txn \in GTIDs
         /\ log[i].file \in Nat
         /\ log[i].end \in 0..PosModulus - 1
         /\ log[i].size \in Nat
         /\ log[i].zero \in BOOLEAN
<1>1. log \in Seq(LogEvents)
  BY ConfigAssumption DEF Types, Scalars
<1>2. log[i] \in LogEvents
  BY <1>1
<1> QED
  BY <1>1, <1>2 DEF LogEvents

\* The nil set has the type of a set.
LEMMA NilTypes == NoTxn \in GTIDs /\ Nil \in SUBSET GTIDs
<1>1. NoTxn \in GTIDs
  BY TagAssumption, Zenon DEF NoTxn, GTIDs
<1> QED
  BY <1>1 DEF Nil

\* The next event of the connection is an event of the log.
LEMMA TodoMin ==
  ASSUME Types, NEW S \in SUBSET DOMAIN log, S # {}
  PROVE  Min(S) \in S /\ Min(S) \in DOMAIN log /\ \A x \in S : Min(S) <= x
<1>1. PICK i \in DOMAIN log : TRUE
  OBVIOUS
<1>2. DOMAIN log \subseteq Nat
  BY <1>1, LogFields
<1> QED
  BY <1>2, MinIn

\* The dumps that the syncer asks for start at positions of type uint32.
LEMMA DumpPosTypes ==
  ASSUME Types, NEW p \in [Name : Nat, Pos : 0..PosModulus - 1]
  PROVE  DumpPos(Clamp(p)) \in [up : BOOLEAN, hello : BOOLEAN, at : [Name : Nat, Pos : 0..PosModulus - 1],
                                todo : SUBSET DOMAIN log]
<1>1. Clamp(p) \in [Name : Nat, Pos : 0..PosModulus - 1]
  BY SyncerAssumption DEF Clamp, FileStart
<1> QED
  BY <1>1 DEF DumpPos

\* The same for a dump by GTID set.
LEMMA DumpGTIDTypes ==
  ASSUME Types, NEW g
  PROVE  DumpGTID(g) \in [up : BOOLEAN, hello : BOOLEAN, at : [Name : Nat, Pos : 0..PosModulus - 1],
                          todo : SUBSET DOMAIN log]
<1>1. Missing(g) \in SUBSET DOMAIN log
  BY DEF Missing
<1>2. log[Len(log)].file \in Nat
  <2>1. Len(log) \in DOMAIN log
    BY ConfigAssumption DEF Types, Scalars
  <2> QED
    BY <2>1, LogFields
<1>3. Missing(g) # {} => log[Min(Missing(g))].file \in Nat
  BY <1>1, TodoMin, LogFields
<1>4. FileStart \in 0..PosModulus - 1
  BY SyncerAssumption DEF FileStart
<1> QED
  BY <1>1, <1>2, <1>3, <1>4 DEF DumpGTID

\* The position after an event is of type uint32, whatever its fields say.
LEMMA PosAfterTypes ==
  ASSUME Types, NEW i \in DOMAIN log
  PROVE  PosAfterEvent(log[i]) \in [Name : Nat, Pos : 0..PosModulus - 1]
<1>1. ASSUME NEW a \in Nat
      PROVE  a % PosModulus \in 0..PosModulus - 1
  BY SyncerAssumption DEF FileStart
<1>2. nextPos.Pos \in 0..PosModulus - 1 /\ nextPos.Name \in Nat
  BY DEF Types, Positions
<1>3. nextPos.Pos + log[i].size \in Nat
  BY <1>2, LogFields, SyncerAssumption
<1>4. PosAfter(log[i]) \in 0..PosModulus - 1
  BY <1>1, <1>2, <1>3, LogFields, Zenon DEF PosAfter
<1>5. FileStart \in 0..PosModulus - 1 /\ log[i].file + 1 \in Nat
  BY LogFields, SyncerAssumption DEF FileStart
<1> QED
  BY <1>4, <1>5 DEF Types, Positions, PosAfterEvent

\* The sets after a GTID event are sets of GTIDs.
LEMMA HandleGTIDsTypes ==
  ASSUME Types, NEW i \in DOMAIN log, HandleGTIDs(log[i])
  PROVE  /\ prevGset' \subseteq GTIDs /\ currGset' \subseteq GTIDs
         /\ prevMySQLGTIDEvent' \in Txns \cup {NoTxn}
<1>1. log[i].txn \in GTIDs /\ log[i].txn \in Txns
  BY LogFields DEF Txns
<1>2. prevGset \subseteq GTIDs /\ currGset \subseteq GTIDs /\ CurrOrPrev \subseteq GTIDs
  BY DEF Types, Sets, CurrOrPrev
<1>3. prevMySQLGTIDEvent \in Txns \cup {NoTxn} /\ Txns \subseteq GTIDs
  BY LogFields DEF Types, Sets, Txns
<1>4. [prevMySQLGTIDEvent EXCEPT !.tag = ""] \in GTIDs
  BY <1>3, NilTypes, TagAssumption, Zenon DEF GTIDs
<1>5. CASE HandleMySQLGTID(log[i].txn)
  BY <1>1, <1>2, <1>3, <1>4, <1>5, NilTypes, Zenon DEF HandleMySQLGTID, AddGTID, AddGTIDWithTag
<1>6. CASE HandleMariadbGTID(log[i].txn)
  BY <1>1, <1>2, <1>3, <1>6 DEF HandleMariadbGTID, AddSet
<1>7. CASE UNCHANGED <<prevGset, currGset, prevMySQLGTIDEvent>>
  BY <1>2, <1>3, <1>7
<1> QED
  BY <1>5, <1>6, <1>7 DEF HandleGTIDs

-----------------------------------------------------------------------------
(***************************************************************************)
(* Resuming from a position.                                               *)
(***************************************************************************)
\* The position after k events is one of type uint32 from which the source sends
\* the events after the first k.
LEMMA PositionDump ==
  ASSUME Types, PositionsGrow(log), NEW k \in 0..Len(log)
  PROVE  /\ PositionAfter(log, k).Name > 0
         /\ PositionAfter(log, k) \in [Name : Nat, Pos : 0..PosModulus - 1]
         /\ Clamp(PositionAfter(log, k)) = PositionAfter(log, k)
         /\ DumpPos(PositionAfter(log, k)) =
               [up |-> TRUE, hello |-> TRUE, at |-> PositionAfter(log, k),
                todo |-> {i \in DOMAIN log : i > k}]
<1> DEFINE p == PositionAfter(log, k)
<1>1. log \in Seq(LogEvents) /\ Len(log) \in Nat \ {0} /\ DOMAIN log = 1..Len(log)
  BY ConfigAssumption DEF Types, Scalars
<1>2. /\ p \in [Name : Nat, Pos : 0..PosModulus - 1]
      /\ p.Name > 0 /\ p.Pos >= FileStart
  BY <1>1, LogFields, SyncerAssumption DEF PositionAfter, PositionsGrow, FileStart
<1>3. Clamp(p) = p
  BY <1>2 DEF Clamp, FileStart
<1>4. ASSUME NEW i \in DOMAIN log
      PROVE  (log[i].file > p.Name \/ (log[i].file = p.Name /\ log[i].end > p.Pos)) <=> i > k
  <2>1. \A j \in DOMAIN log : log[j].file \in Nat /\ log[j].end \in Nat
    BY LogFields
  <2>2. p.Name \in Nat /\ p.Pos \in Nat
    BY <1>2
  <2>3. \A j, n \in DOMAIN log : j < n =>
           log[j].file < log[n].file \/ (log[j].file = log[n].file /\ log[j].end < log[n].end)
    BY DEF PositionsGrow
  <2>4. CASE i > k
    <3>1. k + 1 \in DOMAIN log
      BY <1>1, <2>4
    <3>2. log[k + 1].file = p.Name /\ log[k + 1].end > FileStart
      BY <1>1, <3>1 DEF PositionsGrow
    <3>3. log[k + 1].end > p.Pos
      <4>1. CASE k = 0 \/ log[k].kind = "rotate"
        BY <3>2, <4>1 DEF PositionAfter
      <4>2. CASE k # 0 /\ log[k].kind # "rotate"
        <5>1. k \in DOMAIN log /\ k < k + 1
          BY <1>1, <4>2
        <5>2. p.Name = log[k].file /\ p.Pos = log[k].end
          BY <4>2 DEF PositionAfter
        <5> QED
          BY <2>1, <2>3, <3>1, <3>2, <5>1, <5>2
      <4> QED
        BY <4>1, <4>2
    <3>4. i = k + 1 \/ k + 1 < i
      BY <1>1, <2>4
    <3> HIDE DEF p
    <3> QED
      BY <2>1, <2>2, <2>3, <2>4, <3>1, <3>2, <3>3, <3>4
  <2>5. CASE ~ (i > k)
    <3>1. k \in DOMAIN log /\ (i < k \/ i = k)
      BY <1>1, <2>5
    <3>2. IF log[k].kind = "rotate" THEN p.Name = log[k].file + 1 /\ p.Pos = FileStart
          ELSE p.Name = log[k].file /\ p.Pos = log[k].end
      BY <1>1, <3>1 DEF PositionAfter
    <3> HIDE DEF p
    <3> QED
      BY <2>1, <2>2, <2>3, <2>5, <3>1, <3>2
  <2> QED
    BY <2>4, <2>5
<1>5. DumpPos(p).todo = {i \in DOMAIN log : i > k}
  BY <1>4 DEF DumpPos
<1> QED
  BY <1>2, <1>3, <1>5, Zenon DEF DumpPos

\* Reading the next event moves nextPos to the position after it, also when the
\* event comes without LogPos and the position is computed from its size.
LEMMA PositionStep ==
  ASSUME Types, PositionsGrow(log), NEW k \in 0..Len(log), k + 1 \in DOMAIN log,
         nextPos = PositionAfter(log, k),
         log[k + 1].zero => FillZeroLogPos /\ Flavor = "mariadb"
  PROVE  PosAfterEvent(log[k + 1]) = PositionAfter(log, k + 1)
<1> DEFINE e == log[k + 1]
<1>1. /\ e.file = nextPos.Name /\ k + 1 - 1 = k
      /\ e.zero => e.end = nextPos.Pos + e.size
  BY DEF PositionsGrow
<1>2. e.end \in 0..PosModulus - 1 /\ e.zero \in BOOLEAN
  BY LogFields
<1>3. e.end % PosModulus = e.end
  BY <1>2, SyncerAssumption DEF FileStart
<1>4. PosAfter(e) = e.end
  BY <1>1, <1>2, <1>3 DEF PosAfter
<1>5. nextPos \in [Name : Nat, Pos : 0..PosModulus - 1]
  BY DEF Types, Positions
<1>6. CASE e.kind = "rotate"
  BY <1>6 DEF PosAfterEvent, PositionAfter
<1>7. CASE e.kind # "rotate"
  <2>1. [nextPos EXCEPT !.Pos = e.end] = [Name |-> e.file, Pos |-> e.end]
    BY <1>1, <1>5
  <2> QED
    BY <1>4, <1>7, <2>1 DEF PosAfterEvent, PositionAfter
<1> QED
  BY <1>6, <1>7

-----------------------------------------------------------------------------
(***************************************************************************)
(* Resuming from a GTID set.                                               *)
(***************************************************************************)
\* The GTID event of the transaction of an event.
LEMMA HeadOfTxn ==
  ASSUME Types, TxnsInOrder(log), NEW i \in DOMAIN log, log[i].kind # "rotate"
  PROVE  \E h \in DOMAIN log : /\ Gtid(h) /\ log[h].txn = log[i].txn /\ h <= i
                             /\ \A k \in DOMAIN log : Gtid(k) /\ k <= i => k <= h
<1>1. PICK h \in 1..i : /\ log[h].kind = "gtid" /\ log[h].txn = log[i].txn
                       /\ \A k \in h + 1..i : log[k].kind # "gtid"
  BY DEF TxnsInOrder
<1>2. i \in Nat /\ DOMAIN log = 1..Len(log) /\ Len(log) \in Nat
  BY LogFields
<1> QED
  BY <1>1, <1>2 DEF Gtid

\* Where a repeated transaction starts: at its GTID event, the last one up to r.
LEMMA RepeatStart ==
  ASSUME Types, NEW w \in SUBSET DOMAIN log, WholeTxns(w), NEW r \in w
  PROVE  LET f == TxnStart(w, r)
         IN  /\ f \in w /\ Gtid(f) /\ f <= r /\ f \in Nat \ {0}
             /\ \A j \in w : Gtid(j) /\ j <= r => j <= f
<1> DEFINE S == {j \in w : j <= r /\ log[j].kind = "gtid"}
<1>1. r \in Nat \ {0} /\ \A j \in w : j \in Nat \ {0}
  BY LogFields
<1>2. S # {} /\ S \in SUBSET (0..r)
  BY <1>1 DEF WholeTxns, Gtid
<1>3. TxnStart(w, r) = Max(S)
  BY <1>1, <1>2 DEF TxnStart, RepeatFrom
<1>4. Max(S) \in S /\ \A x \in S : x <= Max(S)
  BY <1>1, <1>2, MaxIn, Zenon
<1> QED
  BY <1>1, <1>3, <1>4 DEF Gtid

\* A transaction of the log is found at its GTID event.
LEMMA IndexOfTxn ==
  ASSUME Types, TxnsInOrder(log), NEW i \in DOMAIN log, Gtid(i)
  PROVE  GtidIndex(log[i].txn) = i
  BY DEF TxnsInOrder, GtidIndex, Gtid

\* What the source sends for a set: everything that is not covered, from the
\* first such transaction on.
LEMMA MissingIs ==
  ASSUME Types, NEW g, NEW i \in DOMAIN log
  PROVE  i \in Missing(g) <=>
             /\ \E f \in DOMAIN log : Gtid(f) /\ ~Covered(g, log[f].txn) /\ f <= i
             /\ log[i].kind = "rotate" \/ ~Covered(g, log[i].txn)
<1> DEFINE F == {f \in DOMAIN log : log[f].kind = "gtid" /\ ~Covered(g, log[f].txn)}
<1>1. i \in Missing(g) <=> /\ F # {} /\ i >= Min(F)
                           /\ log[i].kind = "rotate" \/ ~Covered(g, log[i].txn)
  BY DEF Missing
<1>2. F # {} => Min(F) \in F /\ \A x \in F : Min(F) <= x
  BY TodoMin
<1>3. i \in Nat /\ \A x \in F : x \in Nat
  BY LogFields
<1> HIDE DEF F
<1>4. (F # {} /\ i >= Min(F)) <=> \E f \in F : f <= i
  <2>1. ASSUME F # {}, i >= Min(F)
        PROVE  \E f \in F : f <= i
    BY <1>2, <1>3, <2>1
  <2>2. ASSUME NEW f \in F, f <= i
        PROVE  F # {} /\ i >= Min(F)
    BY <1>2, <1>3, <2>2
  <2> QED
    BY <2>1, <2>2
<1> QED
  BY <1>1, <1>4 DEF Gtid, F

\* A set that stands for what was done before transaction k makes the source
\* send the wanted events from k on.
LEMMA MissingRest ==
  ASSUME Types, TxnsInOrder(log), NEW w \in SUBSET DOMAIN log, WholeTxns(w), NEW g,
         NEW k, k = 0 \/ (k \in w /\ Gtid(k)), DoneBefore(w, g, k)
  PROVE  Missing(g) = {j \in w : j >= k}
<1>1. \A i \in DOMAIN log : i \in Nat \ {0}
  BY LogFields
<1>2. k \in Nat
  BY <1>1
<1>3. ASSUME NEW i \in DOMAIN log, log[i].kind # "rotate", k <= i
      PROVE  ~Covered(g, log[i].txn) <=> \E j \in w : Gtid(j) /\ log[j].txn = log[i].txn
  <2>1. PICK h \in DOMAIN log : /\ Gtid(h) /\ log[h].txn = log[i].txn /\ h <= i
                               /\ \A n \in DOMAIN log : Gtid(n) /\ n <= i => n <= h
    BY <1>3, HeadOfTxn
  <2>2. ~Covered(g, log[i].txn) <=> h \in w /\ ~ (h < k)
    BY <2>1 DEF DoneBefore
  <2>3. ~ (h < k)
    BY <1>1, <1>2, <1>3, <2>1
  <2>4. \A j \in w : Gtid(j) /\ log[j].txn = log[i].txn => j = h
    BY <2>1 DEF TxnsInOrder, Gtid
  <2> QED
    BY <2>1, <2>2, <2>3, <2>4
<1>4. ASSUME NEW i \in DOMAIN log
      PROVE  i \in Missing(g) <=> i \in w /\ i >= k
  <2>1. (\E f \in DOMAIN log : Gtid(f) /\ ~Covered(g, log[f].txn) /\ f <= i)
          <=> \E f \in w : Gtid(f) /\ f <= i /\ ~ (f < k)
    BY DEF DoneBefore
  <2>2. (\E f \in w : Gtid(f) /\ f <= i /\ ~ (f < k)) <=> k <= i /\ \E f \in w : Gtid(f) /\ f <= i
    BY <1>1, <1>2
  <2>3. i \in w <=> /\ \E f \in w : Gtid(f) /\ f <= i
                    /\ log[i].kind = "rotate" \/ \E j \in w : Gtid(j) /\ log[j].txn = log[i].txn
    BY DEF WholeTxns
  <2> QED
    BY <1>1, <1>2, <1>3, <2>1, <2>2, <2>3, MissingIs
<1>5. Missing(g) \subseteq DOMAIN log
  BY DEF Missing
<1> QED
  BY <1>4, <1>5

\* What the source sends for the set of StartSyncGTID are whole transactions, and
\* the set stands for all the others.
LEMMA MissingStart ==
  ASSUME Types, TxnsInOrder(log), NEW g
  PROVE  WholeTxns(Missing(g)) /\ DoneBefore(Missing(g), g, 0)
<1>1. \A i \in DOMAIN log : i \in Nat \ {0}
  BY LogFields
<1>2. Missing(g) \subseteq DOMAIN log
  BY DEF Missing
<1>3. \A i \in DOMAIN log : Gtid(i) => (i \in Missing(g) <=> ~Covered(g, log[i].txn))
  BY <1>1, MissingIs DEF Gtid
<1>4. DoneBefore(Missing(g), g, 0)
  BY <1>1, <1>3 DEF DoneBefore
<1>5. ASSUME NEW i \in DOMAIN log
      PROVE  i \in Missing(g) <=>
                 /\ \E f \in Missing(g) : Gtid(f) /\ f <= i
                 /\ log[i].kind = "rotate" \/ \E j \in Missing(g) : Gtid(j) /\ log[j].txn = log[i].txn
  <2>1. (\E f \in DOMAIN log : Gtid(f) /\ ~Covered(g, log[f].txn) /\ f <= i)
          <=> \E f \in Missing(g) : Gtid(f) /\ f <= i
    BY <1>2, <1>3
  <2>2. log[i].kind # "rotate" =>
          (~Covered(g, log[i].txn) <=> \E j \in Missing(g) : Gtid(j) /\ log[j].txn = log[i].txn)
    BY <1>2, <1>3, HeadOfTxn
  <2> QED
    BY <2>1, <2>2, MissingIs
<1> QED
  BY <1>4, <1>5 DEF WholeTxns

\* MysqlGTIDSet: adding a wanted transaction to a set adds it to what is done.
LEMMA AddMySQL ==
  ASSUME Types, TxnsInOrder(log), Flavor = "mysql", NEW w \in SUBSET DOMAIN log,
         NEW g, Proper(g), NEW k, NEW n, DoneBefore(w, g, k), NEW i \in w, Gtid(i),
         \A j \in w : Gtid(j) => (j < n <=> j < k \/ j = i)
  PROVE  LET h == g \cup {log[i].txn} IN Proper(h) /\ DoneBefore(w, h, n)
<1>1. log[i].txn \in GTIDs /\ log[i].txn # NoTxn
  BY LogFields DEF TxnsInOrder, Gtid
<1>2. \A j \in DOMAIN log : Gtid(j) => (log[j].txn = log[i].txn <=> j = i)
  BY DEF TxnsInOrder, Gtid
<1>3. Proper(g \cup {log[i].txn})
  BY <1>1 DEF Proper
<1>4. DoneBefore(w, g \cup {log[i].txn}, n)
  BY <1>2 DEF DoneBefore, Covered
<1> QED
  BY <1>3, <1>4

\* MariadbGTIDSet: so does replacing the position of its domain, when nothing
\* wanted is left out before it; and the set is a new one.
LEMMA AddMariaDB ==
  ASSUME Types, TxnsInOrder(log), Flavor = "mariadb", NEW w \in SUBSET DOMAIN log,
         NEW g, Proper(g), NEW k \in Nat, NEW n \in Nat, DoneBefore(w, g, k), NEW i \in w, Gtid(i),
         \A j \in w : Gtid(j) => (j < n <=> j < k \/ j = i),
         \A j \in w : Gtid(j) => (j < k <=> j < i)
  PROVE  LET h == AddSet(g, log[i].txn) IN Proper(h) /\ DoneBefore(w, h, n) /\ h # g
<1> DEFINE t == log[i].txn
           h == AddSet(g, t)
<1>1. t \in GTIDs /\ t # NoTxn /\ t \in h /\ \A u \in h : u \in g \/ u = t
  BY LogFields DEF TxnsInOrder, Gtid, AddSet
<1>2. Proper(h)
  BY <1>1 DEF Proper, AddSet
<1>3. \A j \in DOMAIN log : j \in Nat
  BY LogFields
<1>4. \A u \in h \cup g : GtidIndex(u) \in Nat
  <2> SUFFICES ASSUME NEW u \in h \cup g
               PROVE  GtidIndex(u) \in Nat
    OBVIOUS
  <2>1. PICK j \in DOMAIN log : Gtid(j) /\ log[j].txn = u
    BY <1>1 DEF Proper
  <2> QED
    BY <1>3, <2>1, IndexOfTxn
<1>5. ~Covered(g, t)
  BY <1>3 DEF DoneBefore
<1>6. GtidIndex(t) = i
  BY IndexOfTxn
<1>7. \A u \in g : u.dom = t.dom => GtidIndex(u) < i
  BY <1>3, <1>4, <1>5, <1>6 DEF Covered
<1>8. t \notin g
  BY <1>3, <1>6, <1>7
<1>9. ASSUME NEW j \in DOMAIN log, Gtid(j)
      PROVE  Covered(h, log[j].txn) <=> j \notin w \/ j < n
  <2> DEFINE tj == log[j].txn
  <2>1. GtidIndex(tj) = j /\ j \in Nat /\ i \in Nat
    BY <1>3, <1>9, IndexOfTxn
  <2>2. Covered(g, tj) <=> j \notin w \/ j < k
    BY <1>9 DEF DoneBefore
  <2>3. Covered(g, tj) <=> \E u \in g : u.dom = tj.dom /\ j <= GtidIndex(u)
    BY <2>1 DEF Covered
  <2>4. Covered(h, tj) <=> \E u \in h : u.dom = tj.dom /\ j <= GtidIndex(u)
    BY <2>1 DEF Covered
  <2>5. \A u : u \in h <=> (u \in g /\ u.dom # t.dom) \/ u = t
    BY DEF AddSet
  <2>6. ASSUME Covered(h, tj)
        PROVE  j \notin w \/ j < n
    <3>1. PICK u \in h : u.dom = tj.dom /\ j <= GtidIndex(u)
      BY <2>4, <2>6
    <3>2. CASE u \in g
      BY <1>9, <2>2, <2>3, <3>1, <3>2
    <3>3. CASE u = t
      BY <1>6, <1>9, <2>1, <3>1, <3>3
    <3> QED
      BY <2>5, <3>1, <3>2, <3>3
  <2>7. ASSUME j \notin w \/ j < n
        PROVE  Covered(h, tj)
    <3>1. CASE j = i
      BY <1>1, <1>6, <2>1, <2>4, <3>1
    <3>2. CASE j # i
      <4>1. PICK u \in g : u.dom = tj.dom /\ j <= GtidIndex(u)
        BY <1>9, <2>2, <2>3, <2>7, <3>2
      <4>2. CASE u.dom # t.dom
        BY <2>4, <2>5, <4>1, <4>2
      <4>3. CASE u.dom = t.dom
        <5>1. j <= i /\ tj.dom = t.dom
          BY <1>4, <1>7, <2>1, <4>1, <4>3
        <5> QED
          BY <1>1, <1>6, <2>4, <5>1
      <4> QED
        BY <4>2, <4>3
    <3> QED
      BY <3>1, <3>2
  <2> QED
    BY <2>6, <2>7
<1>10. DoneBefore(w, h, n)
  BY <1>9 DEF DoneBefore
<1> QED
  BY <1>1, <1>2, <1>8, <1>10

\* The same for the next transaction after those that are done.
LEMMA NextMariaDB ==
  ASSUME Types, TxnsInOrder(log), Flavor = "mariadb", NEW w \in SUBSET DOMAIN log,
         NEW g, Proper(g), NEW i \in w, Gtid(i), DoneBefore(w, g, i)
  PROVE  /\ Proper(AddSet(g, log[i].txn)) /\ DoneBefore(w, AddSet(g, log[i].txn), i + 1)
         /\ AddSet(g, log[i].txn) # g
<1>1. i \in Nat /\ i + 1 \in Nat /\ \A j \in w : j \in Nat
  BY LogFields
<1>2. \A j \in w : Gtid(j) => (j < i + 1 <=> j < i \/ j = i)
  BY <1>1
<1>3. \A j \in w : Gtid(j) => (j < i <=> j < i)
  OBVIOUS
<1> QED
  BY <1>1, <1>2, <1>3, AddMariaDB

\* The next event that is read after event r, on a new connection or not: after it
\* the connection has the wanted events after it, and the transactions before it
\* are those before the one of r, which a new connection repeats, or up to it.
LEMMA NextRead ==
  ASSUME Types, NEW w \in SUBSET DOMAIN log, WholeTxns(w), NEW r \in {0} \cup w,
         NEW new \in BOOLEAN, new \/ r # 0,
         NEW T, T = IF new THEN {j \in w : j >= TxnStart(w, r)} ELSE After(w, r),
         NEW i, T # {}, i = Min(T)
  PROVE  LET f == TxnStart(w, r)
         IN  /\ i \in w /\ T \ {i} = After(w, i)
             /\ \A j \in w : Gtid(j) => (j < i <=> IF new THEN j < f ELSE j < f + 1)
             /\ Gtid(i) => TxnStart(w, i) = i
             /\ ~Gtid(i) => ~new /\ TxnStart(w, i) = f
             /\ \/ After(w, r) # {} /\ i = Min(After(w, r))
                \/ new /\ r # 0 /\ i = RepeatFrom(w, r)
<1> DEFINE f == TxnStart(w, r)
<1>1. \A j \in w : j \in Nat \ {0}
  BY LogFields
<1>2. T \in SUBSET w /\ T \in SUBSET DOMAIN log
  BY DEF After
<1>3. i \in T /\ \A x \in T : i <= x
  BY <1>2, TodoMin
<1>4. i \in w
  BY <1>2, <1>3
<1>5. IF r = 0 THEN f = 0
      ELSE f \in w /\ Gtid(f) /\ f <= r /\ \A j \in w : Gtid(j) /\ j <= r => j <= f
  BY RepeatStart DEF TxnStart
<1>6. /\ TxnStart(w, i) \in w /\ Gtid(TxnStart(w, i)) /\ TxnStart(w, i) <= i
      /\ \A j \in w : Gtid(j) /\ j <= i => j <= TxnStart(w, i)
  BY <1>4, RepeatStart
<1>7. CASE new
  <2>1. T = {j \in w : j >= f}
    BY <1>7
  <2>2. CASE r = 0
    <3>1. T = w /\ After(w, r) = w
      BY <1>1, <1>5, <2>1, <2>2 DEF After
    <3>2. PICK g \in w : Gtid(g) /\ g <= i
      BY <1>4, Zenon DEF WholeTxns
    <3>3. Gtid(i)
      BY <1>1, <1>3, <1>4, <3>1, <3>2
    <3>4. T \ {i} = After(w, i)
      BY <1>1, <1>3, <1>4, <3>1 DEF After
    <3>5. \A j \in w : ~ (j < i) /\ ~ (j < f)
      BY <1>1, <1>3, <1>4, <1>5, <2>2, <3>1
    <3>6. TxnStart(w, i) = i
      <4>1. i <= i
        BY <1>1, <1>4
      <4>2. i <= TxnStart(w, i)
        BY <1>4, <1>6, <3>3, <4>1
      <4> QED
        BY <1>1, <1>4, <1>6, <4>2
    <3> QED
      BY <1>3, <1>4, <1>7, <3>1, <3>3, <3>4, <3>5, <3>6
  <2>3. CASE r # 0
    <3>1. f \in T
      BY <1>1, <1>5, <2>1, <2>3
    <3>2. i = f
      BY <1>1, <1>3, <1>4, <1>5, <2>1, <2>3, <3>1
    <3>3. T \ {i} = After(w, i)
      <4>1. T = {j \in w : j >= i}
        BY <2>1, <3>2, Zenon
      <4>2. i \in Nat /\ \A j \in w : j \in Nat
        BY <1>1, <1>4
      <4> QED
        BY <4>1, <4>2 DEF After
    <3>4. Gtid(i) /\ TxnStart(w, i) = i
      BY <1>1, <1>4, <1>5, <1>6, <2>3, <3>2
    <3>5. i = RepeatFrom(w, r)
      BY <2>3, <3>2 DEF TxnStart
    <3> QED
      BY <1>4, <1>7, <2>3, <3>2, <3>3, <3>4, <3>5, Zenon
  <2> QED
    BY <2>2, <2>3, Zenon
<1>8. CASE ~new
  <2>1. T = After(w, r) /\ r \in w
    BY <1>8
  <2>2. r < i /\ \A j \in w : j < i <=> j <= r
    BY <1>1, <1>3, <1>4, <2>1 DEF After
  <2>3. f \in w /\ Gtid(f) /\ f <= r /\ \A j \in w : Gtid(j) /\ j <= r => j <= f
    BY <1>1, <1>5, <2>1
  <2>4. T \ {i} = After(w, i)
    BY <1>1, <1>3, <1>4, <2>1, <2>2 DEF After
  <2>5. \A j \in w : Gtid(j) => (j < i <=> j < f + 1)
    BY <1>1, <2>1, <2>2, <2>3
  <2>6. Gtid(i) => TxnStart(w, i) = i
    BY <1>1, <1>4, <1>6
  <2>7. ~Gtid(i) => TxnStart(w, i) = f
    <3> SUFFICES ASSUME ~Gtid(i)
                 PROVE  TxnStart(w, i) = f
      OBVIOUS
    <3>1. TxnStart(w, i) # i
      BY <1>6
    <3>2. TxnStart(w, i) <= f
      BY <1>1, <1>4, <1>6, <2>2, <2>3, <3>1
    <3>3. f <= TxnStart(w, i)
      <4>1. f <= i
        BY <1>1, <1>4, <2>1, <2>2, <2>3
      <4> QED
        BY <1>1, <1>4, <1>6, <2>3, <4>1
    <3> QED
      BY <1>1, <1>6, <2>3, <3>2, <3>3
  <2> QED
    BY <1>4, <1>8, <2>1, <2>4, <2>5, <2>6, <2>7
<1> QED
  BY <1>7, <1>8

\* Two bounds between which there is no wanted transaction say the same.
LEMMA SameBound ==
  ASSUME NEW w, NEW g, NEW k, NEW n, DoneBefore(w, g, k),
         \A j \in w : j \in DOMAIN log /\ Gtid(j) => (j < n <=> j < k)
  PROVE  DoneBefore(w, g, n)
  BY DEF DoneBefore

\* The sets after a GTID event: prevGset goes on to the end of the transaction
\* before it, currGset to its own.
LEMMA GTIDEventSets ==
  ASSUME Types, TxnsInOrder(log), Orderly(cfg), NEW i \in wanted, Gtid(i), HandleGTIDs(log[i]),
         Proper(prevGset), NEW f \in Nat, DoneBefore(wanted, prevGset, f),
         Flavor = "mysql" => prevMySQLGTIDEvent = IF currGset = Nil THEN NoTxn ELSE log[f].txn,
         currGset # Nil => /\ f \in wanted /\ Gtid(f) /\ f < i
                           /\ Proper(currGset) /\ DoneBefore(wanted, currGset, f + 1),
         \A j \in wanted : Gtid(j) => (j < i <=> IF currGset = Nil THEN j < f ELSE j < f + 1)
  PROVE  /\ Proper(prevGset') /\ DoneBefore(wanted, prevGset', i)
         /\ Proper(currGset') /\ DoneBefore(wanted, currGset', i + 1)
         /\ Flavor = "mysql" => prevMySQLGTIDEvent' = log[i].txn
<1> DEFINE t == log[i].txn
           C == CurrOrPrev
<1>1. wanted \in SUBSET DOMAIN log /\ \A j \in wanted : j \in Nat
  BY LogFields DEF Types, Scalars
<1>2. Proper(C) /\ DoneBefore(wanted, C, i)
  <2>1. CASE currGset = Nil
    BY <1>1, <2>1, SameBound DEF CurrOrPrev
  <2>2. CASE currGset # Nil
    BY <1>1, <2>2, SameBound DEF CurrOrPrev
  <2> QED
    BY <2>1, <2>2
<1>3. \A j \in wanted : j < i + 1 <=> j < i \/ j = i
  BY <1>1
<1>4. log[i].kind = "gtid" /\ prevGset # Nil
  BY DEF Gtid, Proper, Nil
<1>5. CASE Flavor = "mysql"
  <2>1. HandleMySQLGTID(t)
    BY <1>4, <1>5 DEF HandleGTIDs
  <2>2. prevMySQLGTIDEvent' = t /\ currGset' = C \cup {t}
    BY <2>1, Zenon DEF HandleMySQLGTID, AddGTIDWithTag
  <2>3. Proper(currGset') /\ DoneBefore(wanted, currGset', i + 1)
    BY <1>1, <1>2, <1>3, <1>5, <2>2, AddMySQL
  <2>4. CASE currGset = Nil
    <3>1. prevGset' = prevGset
      BY <1>5, <2>1, <2>4 DEF HandleMySQLGTID
    <3> QED
      BY <1>2, <2>2, <2>3, <2>4, <3>1 DEF CurrOrPrev
  <2>5. CASE currGset # Nil
    <3>1. prevMySQLGTIDEvent = log[f].txn /\ log[f].txn # NoTxn /\ log[f].txn \in GTIDs
      BY <1>1, <1>5, <2>5, LogFields DEF TxnsInOrder, Gtid
    <3>2. t.tag = "" => log[f].txn.tag = ""
      BY <1>1, <1>5, <2>5, Zenon DEF Orderly, Gtid, Flavor, Types, Scalars
    <3>3. t.tag = "" => [log[f].txn EXCEPT !.tag = ""] = log[f].txn
      BY <3>1, <3>2, Zenon DEF GTIDs
    <3>4. prevGset' = prevGset \cup {log[f].txn}
      BY <2>1, <3>1, <3>3, Zenon DEF HandleMySQLGTID, AddGTID, AddGTIDWithTag
    <3>5. \A j \in wanted : j < f + 1 <=> j < f \/ j = f
      BY <1>1
    <3>6. Proper(prevGset') /\ DoneBefore(wanted, prevGset', f + 1)
      BY <1>1, <1>5, <2>5, <3>4, <3>5, AddMySQL, Zenon
    <3>7. DoneBefore(wanted, prevGset', i)
      BY <2>5, <3>6, SameBound
    <3> QED
      BY <2>2, <2>3, <3>6, <3>7
  <2> QED
    BY <2>4, <2>5
<1>6. CASE Flavor = "mariadb"
  <2>1. HandleMariadbGTID(t)
    BY <1>4, <1>6 DEF HandleGTIDs
  <2>2. currGset' = AddSet(C, t)
    BY <2>1 DEF HandleMariadbGTID
  <2>3. Proper(currGset') /\ DoneBefore(wanted, currGset', i + 1) /\ AddSet(C, t) # C
    BY <1>1, <1>2, <1>6, <2>2, NextMariaDB
  <2>4. prevGset' = C
    BY <2>1, <2>3 DEF HandleMariadbGTID
  <2> QED
    BY <1>2, <1>6, <2>3, <2>4
<1>7. Flavor \in {"mysql", "mariadb"}
  BY ConfigAssumption DEF Flavor, Types, Scalars
<1> QED
  BY <1>5, <1>6, <1>7
=============================================================================
