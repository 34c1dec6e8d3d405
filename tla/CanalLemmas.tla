---------------------------- MODULE CanalLemmas ----------------------------
(***************************************************************************)
(* The inductive invariant of Canal, the facts about logs, positions and   *)
(* sets it rests on, and the steps of each part of the state.              *)
(***************************************************************************)
EXTENDS Canal, TLAPS

(***************************************************************************)
(* The inductive invariant.                                                *)
(***************************************************************************)
\* An application that restarts from GTID sets gets no BEGIN statements, which
\* save the set of a transaction before its rows (MariaDB sends none).
Resumable(c) == c.gtid => \A i \in DOMAIN c.log : c.log[i].kind # "begin"

HasTxns(l) == \E i \in DOMAIN l : l[i].txn # NoTxn

\* The events that need not be sent again: those that are committed and, when
\* they are rows, were handed over or dropped.
Settled(i) ==
    \/ log[i].kind = "rotate"
    \/ i <= head /\ (Resumable(cfg) /\ i \in Rows => i \in applied \cup dropped)

Done == {i \in DOMAIN log : Settled(i)}

\* The events of log l that end at or before a position, or whose transaction is
\* in a set, are in D.
PosIn(p, l, D) ==
    /\ p.Name = 0 => p.Pos = 0
    /\ \A i \in DOMAIN l : Compare(p, PositionAfter(l, i)) => i \in D

SetIn(g, l, D) ==
    \/ g \in {Nil, {}}
    \/ HasTxns(l) /\ \A i \in DOMAIN l : l[i].txn \in g \cup {NoTxn} => i \in D

\* The events among the first n.
Early(l, n) == {i \in DOMAIN l : l[i].kind = "rotate" \/ i <= n}

\* A file at which the events of w after the k-th can be read.
NameIn(name, l, w, k) == name # 0 /\ \A j \in w : j > k => name <= l[j].file

Positions == [Name : Nat, Pos : Nat]
Points == [pos : Positions, gset : SUBSET Nat]
Kinds == {"gtid", "begin", "rows", "xid", "ddl", "rotate", "badquery"}
Saving == {"xid", "begin", "ddl", "rotate"}
WorkItems == [kind : Kinds, index : Nat, at : Positions, gset : SUBSET Nat]

\* An event in handleEvent, when the k-th event was the last one that arrived:
\* what it will save is settled.
ItemIn(it, l, D, w, k, bySet) ==
    /\ it.kind \in {"rows", "ddl"} => it.index = k /\ k \in DOMAIN l
    /\ it.kind = "ddl" => l[k].kind = "ddl"
    /\ it.kind \in Saving => PosIn(it.at, l, D) /\ NameIn(it.at.Name, l, w, k)
    /\ it.kind \in Saving \ {"rotate"} /\ bySet => SetIn(it.gset, l, D)

Streaming == pc \in {"get", "handle", "synced"}
Pending(kind) == \E n \in 1..Len(work) : work[n].kind = kind

\* Every set of numbers has a least one: the invariant carries this fact about Nat
\* along, so that only the module which proves it needs well-founded orders.
Least == \A S \in SUBSET Nat : S # {} => \E j \in S : \A x \in S : j <= x

RunTypes ==
    /\ Least
    /\ cfg \in Setups /\ log = cfg.log
    /\ head \in 0..Len(log) /\ last \in 0..Len(log) /\ wanted \subseteq DOMAIN log
    /\ pc \in {"down", "dump", "snapshot", "data", "start", "get", "handle", "synced", "ended"}
    /\ work \in Seq(WorkItems)

PointTypes ==
    /\ pos \in Positions /\ gset \in SUBSET Nat /\ curr \in SUBSET Nat
    /\ saved \in Points /\ cl \in Points
    /\ h \in [pos : Positions, gset : SUBSET Nat, snap : Nat, todo : SUBSET Nat]
    /\ h.todo \subseteq Rows

CacheTypes ==
    /\ tables \in [Tables -> Nat \cup {NoTable}] /\ errorTablesGetTime \subseteq Tables
    /\ conn \in BOOLEAN

CallTypes ==
    /\ wpc \in {"no", "wait", "ok"} /\ wat \in 0..Len(log)
    /\ cpc \in {"no", "cancelled", "closed", "read", "done"}
    /\ applied \subseteq DOMAIN log /\ dropped \subseteq DOMAIN log
    /\ starts \in 0..MaxStarts /\ calls \in 0..MaxCalls

Types == RunTypes /\ PointTypes /\ CacheTypes /\ CallTypes

\* Transactions are committed as a whole, and before they are sent.
Committed == (head = 0 \/ CommitPoint(head)) /\ last <= head

Life ==
    /\ pc = "down" => cpc = "no" /\ wpc = "no"
    /\ pc \in {"down", "dump", "snapshot"} => tables = NoTables
    /\ pc \notin {"get", "handle", "synced", "ended"} => last = 0
    /\ pc = "get" => work = <<>>
    /\ pc \in {"handle", "synced"} => work # <<>>
    /\ pc = "synced" => Head(work).kind \in Saving
    /\ NoConnAfterClose

\* What is stored, or may be stored by Close or PosSynced, is settled.
Stored ==
    /\ PosIn(pos, log, Done) /\ PosIn(saved.pos, log, Done) /\ PosIn(cl.pos, log, Done)
    /\ cfg.gtid => SetIn(gset, log, Done) /\ SetIn(saved.gset, log, Done) /\ SetIn(cl.gset, log, Done)

\* The dump hands over the rows up to the point it will name.
Dumping ==
    /\ pc \in {"dump", "snapshot", "data"} => gset \in {Nil, {}}
    /\ pc = "snapshot" => PosIn(h.pos, log, Early(log, head)) /\ SetIn(h.gset, log, Early(log, head))
    /\ pc = "data" =>
          /\ h.snap <= head
          /\ PosIn(h.pos, log, Early(log, h.snap)) /\ SetIn(h.gset, log, Early(log, h.snap))
          /\ \A i \in Rows : i <= h.snap => i \in h.todo \cup applied \cup dropped
    /\ pc = "start" => SetIn(gset, log, Done)

\* The events before the last one that arrived, and those not asked for, are
\* settled; the last one is unless its rows are still in work.
InStream ==
    Streaming =>
      /\ \A i \in DOMAIN log : i \notin wanted \/ i < last => i \in Done
      /\ last # 0 => last \in wanted /\ (last \in Done \/ Pending("rows"))
      /\ \A n \in 1..Len(work) : ItemIn(work[n], log, Done, wanted, last, cfg.gtid)
      /\ pc = "synced" \/ ~Pending("rotate") => NameIn(pos.Name, log, wanted, last)

\* In a stream from a GTID set, every event is preceded by the GTID event of its
\* transaction, and the transactions of curr have begun.
SetStream ==
    Streaming =>
      /\ resend => curr # Nil
      /\ curr # Nil =>
          /\ HasTxns(log)
          /\ \A i \in wanted : \E g \in wanted : g <= i /\ log[g].kind = "gtid"
          /\ \A i \in wanted : log[i].txn # NoTxn =>
                \E g \in wanted : g <= i /\ log[g].kind = "gtid" /\ log[g].txn = log[i].txn
          /\ \A i \in wanted : log[i].txn # NoTxn /\ log[i].txn \in curr =>
                \E j \in wanted : j <= last /\ log[j].txn = log[i].txn

\* The statements that changed table t, and those of them a definition in the
\* cache must not be older than.
DDLs(l, t) == {j \in DOMAIN l : l[j].kind = "ddl" /\ l[j].table = t}
NotOlder(v, l, t, S) == \A j \in DDLs(l, t) : j \in S => j <= v
Newer(tabs, l, S) == \A t \in Tables : tabs[t] # NoTable => NotOlder(tabs[t], l, t, S)
Passed(l, w, k) == {j \in DOMAIN l : j \notin w \/ j <= k}

Schemas ==
    /\ pc = "data" => Newer(tables, log, 1..h.snap)
    /\ pc = "start" =>
          \E n \in 0..head : /\ Newer(tables, log, 1..n)
                             /\ PosIn(pos, log, Early(log, n)) /\ SetIn(gset, log, Early(log, n))
    /\ Streaming =>
          \A t \in Tables : tables[t] # NoTable =>
             \/ NotOlder(tables[t], log, t, Passed(log, wanted, last))
             \/ pc = "handle" /\ Head(work).kind = "ddl" /\ log[last].table = t

\* CaughtUp, as far as a restart can be exact.
Caught == wpc = "ok" => \A i \in Rows : i <= wat => i \in Done

Inv == Types /\ Committed /\ Life /\ Stored /\ Dumping /\ InStream /\ SetStream /\ Schemas /\ Caught

-----------------------------------------------------------------------------
(***************************************************************************)
(* Facts about the operators.                                              *)
(***************************************************************************)
\* A set of numbers has a least element.
LEMMA MinIn ==
  ASSUME RunTypes, NEW S \in SUBSET Nat, S # {}
  PROVE  Min(S) \in S /\ \A x \in S : Min(S) <= x
<1>1. \E j \in S : \A x \in S : j <= x
  BY Zenon DEF RunTypes, Least
<1> QED
  BY <1>1, Zenon DEF Min

\* A bounded set of numbers has a greatest element.
LEMMA MaxIn ==
  ASSUME RunTypes, NEW n \in Nat, NEW S \in SUBSET (0..n), S # {}
  PROVE  Max(S) \in S /\ \A x \in S : x <= Max(S)
<1> DEFINE U == {x \in 0..n : \A y \in S : y <= x}
<1>1. n \in U /\ U \in SUBSET Nat
  OBVIOUS
<1> DEFINE u == Min(U)
<1>2. u \in U /\ \A x \in U : u <= x
  BY <1>1, MinIn, Zenon
<1> HIDE DEF u
<1>3. u \in S
  <2> SUFFICES ASSUME u \notin S
               PROVE  FALSE
    OBVIOUS
  <2>1. \A y \in S : y <= u - 1 /\ 0 <= y
    BY <1>2
  <2>2. PICK y \in S : TRUE
    BY Zenon
  <2>3. u - 1 \in U
    BY <1>2, <2>1, <2>2
  <2> QED
    BY <1>2, <2>3
<1> QED
  BY <1>2, <1>3, Zenon DEF Max

\* The log is one of a source.
LEMMA SourceLog ==
  ASSUME RunTypes
  PROVE  /\ log \in Seq(LogEvents) /\ PositionsGrow(log) /\ TxnsWhole(log)
         /\ Len(log) \in Nat \ {0} /\ DOMAIN log = 1..Len(log)
         /\ 1 \in DOMAIN log /\ Len(log) \in DOMAIN log
         /\ DOMAIN log \subseteq Nat
<1>1. log \in Seq(LogEvents) /\ log # <<>> /\ PositionsGrow(log) /\ TxnsWhole(log)
  BY SetupsAssumption, Zenon DEF RunTypes
<1>2. Len(log) \in Nat \ {0} /\ DOMAIN log = 1..Len(log)
  BY <1>1
<1> QED
  BY <1>1, <1>2

\* The fields of an event of the log.
LEMMA LogFields ==
  ASSUME RunTypes, NEW i \in DOMAIN log
  PROVE  /\ i \in Nat \ {0} /\ i <= Len(log) /\ Len(log) \in Nat
         /\ log[i].kind \in CommitKinds \cup {"gtid", "begin", "rows"}
         /\ log[i].txn \in Nat
         /\ log[i].file \in Nat \ {0}
         /\ log[i].end \in Nat /\ log[i].end > FileStart
         /\ log[i].table \in Tables
<1>1. log[i] \in LogEvents /\ i \in 1..Len(log) /\ Len(log) \in Nat
  BY SourceLog
<1>2. log[i].end > FileStart
  BY SourceLog, Zenon DEF PositionsGrow
<1> QED
  BY <1>1, <1>2 DEF LogEvents

\* A later event has a later position.
LEMMA LaterEvent ==
  ASSUME RunTypes, NEW i \in DOMAIN log, NEW j \in DOMAIN log, i < j
  PROVE  /\ log[i].file < log[j].file \/ (log[i].file = log[j].file /\ log[i].end < log[j].end)
         /\ log[i].kind = "rotate" => log[i].file < log[j].file
         /\ log[i].file <= log[j].file
<1>1. \/ log[i].file < log[j].file
      \/ log[i].file = log[j].file /\ log[i].kind # "rotate" /\ log[i].end < log[j].end
  BY SourceLog, Zenon DEF PositionsGrow
<1> QED
  BY <1>1, LogFields

\* The files of the log are numbered upwards.
LEMMA FilesGrow ==
  ASSUME RunTypes, NEW i \in DOMAIN log, NEW j \in DOMAIN log, i <= j
  PROVE  log[i].file <= log[j].file
<1>1. CASE i = j
  BY <1>1, LogFields
<1>2. CASE i < j
  BY <1>2, LaterEvent
<1> QED
  BY <1>1, <1>2, LogFields

\* Where the reader is after an event that is not a rotate event.
LEMMA EndIs ==
  ASSUME RunTypes, NEW i \in DOMAIN log
  PROVE  /\ log[i].kind # "rotate" => EndOf(i) = [Name |-> log[i].file, Pos |-> log[i].end]
         /\ log[i].kind = "rotate" => EndOf(i) = [Name |-> log[i].file + 1, Pos |-> FileStart]
BY LogFields DEF EndOf, PositionAfter

\* The end of a prefix of the log is a position in a file.
LEMMA EndTypes ==
  ASSUME RunTypes, NEW i \in 0..Len(log)
  PROVE  EndOf(i) \in Positions /\ EndOf(i).Name # 0
<1>1. CASE i = 0
  BY <1>1, SourceLog, LogFields DEF EndOf, PositionAfter, Positions, FileStart
<1>2. CASE i # 0
  <2>1. i \in DOMAIN log
    BY <1>2, SourceLog
  <2> QED
    BY <2>1, EndIs, LogFields DEF Positions, FileStart
<1> QED
  BY <1>1, <1>2

\* What is in a smaller set is in a larger one.
LEMMA PosInGrows ==
  ASSUME NEW p, NEW l, NEW D, NEW E, PosIn(p, l, D), D \subseteq E
  PROVE  PosIn(p, l, E)
BY Zenon DEF PosIn

\* What a set names stays in larger sets of events.
LEMMA SetInGrows ==
  ASSUME NEW g, NEW l, NEW D, NEW E, SetIn(g, l, D), D \subseteq E
  PROVE  SetIn(g, l, E)
BY Zenon DEF SetIn

-----------------------------------------------------------------------------
(***************************************************************************)
(* Positions and sets name a part of the log.                              *)
(***************************************************************************)
\* The events up to a position in the file of an event come no later than it.
LEMMA PosUpTo ==
  ASSUME RunTypes, NEW p \in Positions, NEW i \in DOMAIN log, p.Name # 0,
         p.Name <= log[i].file, p.Name = log[i].file => p.Pos <= log[i].end
  PROVE  PosIn(p, log, Early(log, i))
<1> SUFFICES ASSUME NEW r \in DOMAIN log, Compare(p, EndOf(r)), log[r].kind # "rotate"
             PROVE  r <= i
  BY Zenon DEF PosIn, Early, EndOf
<1>1. p.Name > log[r].file \/ (p.Name = log[r].file /\ p.Pos >= log[r].end)
  BY EndIs DEF Compare
<1>2. ~ (i < r)
  BY <1>1, LaterEvent, LogFields DEF Positions
<1> QED
  BY <1>2, LogFields

\* At the start of the file of an event only the events before it have passed.
LEMMA PosAtFile ==
  ASSUME RunTypes, NEW p \in Positions, NEW i \in DOMAIN log, p.Name # 0,
         p.Name <= log[i].file, p.Pos <= FileStart
  PROVE  PosIn(p, log, Early(log, i - 1))
<1> SUFFICES ASSUME NEW r \in DOMAIN log, Compare(p, EndOf(r)), log[r].kind # "rotate"
             PROVE  r <= i - 1
  BY Zenon DEF PosIn, Early, EndOf
<1>1. p.Name > log[r].file \/ (p.Name = log[r].file /\ p.Pos >= log[r].end)
  BY EndIs DEF Compare
<1>2. log[r].file < log[i].file
  BY <1>1, LogFields DEF Positions, FileStart
<1>3. ~ (i <= r)
  BY <1>2, FilesGrow, LogFields
<1> QED
  BY <1>3, LogFields

\* A rotate event names the next file, where no event of a later file is.
LEMMA PosAfterRotate ==
  ASSUME RunTypes, NEW i \in DOMAIN log, log[i].kind = "rotate"
  PROVE  /\ PosIn(EndOf(i), log, Early(log, i))
         /\ \A j \in DOMAIN log : j > i => EndOf(i).Name <= log[j].file
<1>1. EndOf(i) = [Name |-> log[i].file + 1, Pos |-> FileStart]
  BY EndIs
<1>2. ASSUME NEW j \in DOMAIN log, j > i
      PROVE  EndOf(i).Name <= log[j].file
  BY <1>1, <1>2, LaterEvent, LogFields
<1>3. ASSUME NEW r \in DOMAIN log, Compare(EndOf(i), EndOf(r)), log[r].kind # "rotate"
      PROVE  r <= i
  <2>1. log[r].file < log[i].file + 1
    BY <1>1, <1>3, EndIs, LogFields DEF Compare, FileStart
  <2>2. ~ (i < r)
    BY <2>1, LaterEvent, LogFields
  <2> QED
    BY <2>2, LogFields
<1>4. EndOf(i).Name # 0
  BY <1>1, LogFields
<1> QED
  BY <1>2, <1>3, <1>4, Zenon DEF PosIn, Early, EndOf

\* The end of the first k events is after no other.
LEMMA PosAfterEnd ==
  ASSUME RunTypes, NEW k \in 0..Len(log)
  PROVE  PosIn(EndOf(k), log, Early(log, k))
<1>1. CASE k = 0
  <2>1. 1 \in DOMAIN log
    BY SourceLog
  <2>2. EndOf(0) = [Name |-> log[1].file, Pos |-> FileStart]
    BY DEF EndOf, PositionAfter
  <2>3. PosIn(EndOf(0), log, Early(log, 1 - 1))
    BY <2>1, <2>2, PosAtFile, EndTypes, LogFields DEF FileStart
  <2> QED
    BY <1>1, <2>3
<1>2. CASE k # 0
  <2>1. k \in DOMAIN log
    BY <1>2, SourceLog
  <2>2. CASE log[k].kind = "rotate"
    BY <2>1, <2>2, PosAfterRotate
  <2>3. CASE log[k].kind # "rotate"
    <3>1. EndOf(k).Name = log[k].file /\ EndOf(k).Pos = log[k].end
      BY <2>1, <2>3, EndIs
    <3> QED
      BY <2>1, <3>1, PosUpTo, EndTypes, LogFields
  <2> QED
    BY <2>2, <2>3
<1> QED
  BY <1>1, <1>2

\* Nothing ends before the empty position.
LEMMA NoPosIn ==
  ASSUME RunTypes, NEW D
  PROVE  PosIn(NoPos, log, D) /\ NoPos \in Positions
<1>1. NoPos \in Positions /\ NoPos.Name = 0 /\ NoPos.Pos = 0
  BY DEF NoPos, Positions
<1>2. ASSUME NEW r \in DOMAIN log
      PROVE  ~ Compare(NoPos, EndOf(r))
  <2>1. r \in 0..Len(log)
    BY SourceLog
  <2> QED
    BY <1>1, <2>1, EndTypes DEF Compare, Positions
<1> QED
  BY <1>1, <1>2, Zenon DEF PosIn, EndOf

\* A position that is at the end of the first k events has passed each of them.
LEMMA EndReached ==
  ASSUME RunTypes, NEW p \in Positions, NEW k \in 0..Len(log), Compare(p, EndOf(k)),
         NEW D, PosIn(p, log, D), NEW r \in DOMAIN log, log[r].kind # "rotate", r <= k
  PROVE  r \in D
<1>1. k \in DOMAIN log
  BY SourceLog, LogFields
<1>2. EndOf(r) = [Name |-> log[r].file, Pos |-> log[r].end]
  BY EndIs
<1>3. EndOf(k).Name > log[r].file \/ (EndOf(k).Name = log[r].file /\ EndOf(k).Pos >= log[r].end)
  <2>1. CASE r = k
    BY <1>2, <2>1, LogFields
  <2>2. CASE r < k
    BY <1>1, <2>2, LaterEvent, EndIs, LogFields
  <2> QED
    BY <2>1, <2>2, LogFields
<1>4. EndOf(k) \in Positions
  BY EndTypes
<1>5. Compare(p, EndOf(r))
  BY <1>2, <1>3, <1>4, LogFields DEF Compare, Positions
<1> QED
  BY <1>5, Zenon DEF PosIn, EndOf

\* When the source writes GTIDs, every event but a rotate event has one.
LEMMA HasTxn ==
  ASSUME RunTypes, HasTxns(log), NEW i \in DOMAIN log, log[i].kind # "rotate"
  PROVE  log[i].txn # NoTxn
BY SourceLog, Zenon DEF TxnsWhole, HasTxns

\* The events of a transaction are on the same side of every commit.
LEMMA TxnOver ==
  ASSUME RunTypes, HasTxns(log), NEW j \in DOMAIN log, NEW k \in DOMAIN log, NEW i \in DOMAIN log,
         j <= k, k < i, CommitPoint(k), log[j].txn = log[i].txn
  PROVE  log[i].kind = "rotate"
<1>1. log[j].txn = NoTxn
  BY SourceLog, Zenon DEF TxnsWhole, CommitPoint
<1> QED
  BY <1>1, HasTxn, Zenon

\* gtid_executed at a commit names the events up to it.
LEMMA ExecutedEarly ==
  ASSUME RunTypes, NEW k \in 0..Len(log), k = 0 \/ CommitPoint(k)
  PROVE  /\ Executed(k) \subseteq Nat /\ NoTxn \notin Executed(k)
         /\ Executed(k) # {} => HasTxns(log)
         /\ \A i \in DOMAIN log : log[i].txn \in Executed(k) => i \in Early(log, k)
         /\ SetIn(Executed(k), log, Early(log, k))
<1>1. 1..k \subseteq DOMAIN log
  BY SourceLog
<1>2. Executed(k) \subseteq Nat /\ NoTxn \notin Executed(k)
  BY <1>1, LogFields DEF Executed
<1>3. \A x \in Executed(k) : x # NoTxn /\ \E j \in 1..k : log[j].txn = x
  BY Zenon DEF Executed
<1>4. Executed(k) # {} => HasTxns(log)
  BY <1>1, <1>3, Zenon DEF HasTxns
<1>5. ASSUME NEW i \in DOMAIN log, log[i].txn \in Executed(k)
      PROVE  i \in Early(log, k)
  <2>1. PICK j \in 1..k : log[j].txn = log[i].txn
    BY <1>3, <1>5, Zenon
  <2>2. j \in DOMAIN log /\ k \in DOMAIN log /\ j <= k /\ CommitPoint(k)
    BY <1>1, <2>1, SourceLog
  <2>3. HasTxns(log)
    BY <1>4, <1>5, Zenon
  <2>4. k < i => log[i].kind = "rotate"
    BY <2>1, <2>2, <2>3, TxnOver, Zenon
  <2> QED
    BY <2>4, LogFields DEF Early
<1>6. ASSUME HasTxns(log), NEW i \in DOMAIN log, log[i].txn = NoTxn
      PROVE  i \in Early(log, k)
  BY <1>6, HasTxn, Zenon DEF Early
<1>7. SetIn(Executed(k), log, Early(log, k))
  <2>1. CASE Executed(k) = {}
    BY <2>1, Zenon DEF SetIn
  <2>2. CASE Executed(k) # {}
    BY <1>4, <1>5, <1>6, <2>2, Zenon DEF SetIn
  <2> QED
    BY <2>1, <2>2, Zenon
<1> QED
  BY <1>2, <1>4, <1>5, <1>7, Zenon

\* The version of a table is the last statement that changed it.
LEMMA VersionIs ==
  ASSUME RunTypes, NEW t, NEW k \in 0..Len(log)
  PROVE  /\ Version(t, k) \in Nat /\ NotOlder(Version(t, k), log, t, 1..k)
         /\ Version(t, k) = 0 \/ (Version(t, k) \in DDLs(log, t) /\ Version(t, k) \in 1..k)
<1> DEFINE V == {0} \cup {j \in 1..k : log[j].kind = "ddl" /\ log[j].table = t}
<1>1. k \in Nat /\ 1..k \subseteq DOMAIN log
  BY SourceLog
<1>2. V \in SUBSET (0..k) /\ V # {}
  BY <1>1
<1>3. Version(t, k) = Max(V)
  BY DEF Version
<1>4. Max(V) \in V /\ \A x \in V : x <= Max(V)
  BY <1>1, <1>2, MaxIn, Zenon
<1>5. \A j \in DDLs(log, t) : j \in 1..k => j \in V
  BY Zenon DEF DDLs
<1>6. \A j \in V : j \in Nat /\ (j = 0 \/ (j \in 1..k /\ j \in DDLs(log, t)))
  BY <1>1 DEF DDLs
<1> HIDE DEF V
<1> QED
  BY <1>3, <1>4, <1>5, <1>6, Zenon DEF NotOlder

-----------------------------------------------------------------------------
(***************************************************************************)
(* What the steps leave alone.                                             *)
(***************************************************************************)
\* The steps of the source, of the callers of CatchMasterPos and Close, and of
\* time; run returns.
Quiet == UNCHANGED <<log, cfg, wanted, resend, last, pc, work, curr, pos, gset, tables, h, applied, dropped>>

Ends ==
    /\ pc \notin {"down", "ended"} /\ pc' = "ended"
    /\ UNCHANGED <<log, cfg, wanted, resend, last, work, curr, pos, gset, tables, h, applied, dropped>>

\* Every step is quiet, an end of run, or one of the other steps of the process.
LEMMA Steps ==
  ASSUME [Next]_vars
  PROVE  \/ Quiet \/ Ends \/ Crash \/ Launch
         \/ DumpStarts \/ DumpSnapshot \/ DumpData \/ DumpDone
         \/ StartSyncer \/ StreamReconnects \/ GetEvent
         \/ HandleOther \/ HandleRows \/ HandleCommit \/ HandleRotate \/ HandleDDL \/ PosSynced
<1> USE DEF Quiet, Ends, deliveryVars, runVars, masterVars, tableVars, waitVars, closeVars, appVars
<1>1. Commit => Quiet
  BY Zenon DEF Commit
<1>2. CatchMasterPos => Quiet
  BY Zenon DEF CatchMasterPos
<1>3. WaitUntilPos => Quiet
  BY Zenon DEF WaitUntilPos
<1>4. WaitUntilPosFails => Quiet
  BY Zenon DEF WaitUntilPosFails
<1>5. Closing => Quiet
  BY Zenon DEF Closing, CloseCancels, CloseConn, CloseReads, CloseSaves
<1>6. (\E t \in Tables : RetryPeriodEnds(t)) => Quiet
  BY Zenon DEF RetryPeriodEnds
<1>7. UNCHANGED vars => Quiet
  BY Zenon DEF vars
<1>8. RunFails => Ends
  BY Zenon DEF RunFails
<1>9. GetEventCancelled => Ends
  BY DEF GetEventCancelled
<1> HIDE DEF Quiet, Ends
<1> QED
  BY <1>1, <1>2, <1>3, <1>4, <1>5, <1>6, <1>7, <1>8, <1>9, Zenon DEF Next, Run

\* The log and the configuration stay; the head moves to a commit.
LEMMA HeadNext ==
  ASSUME RunTypes, [Next]_vars
  PROVE  /\ log' = log /\ cfg' = cfg
         /\ head' \in 0..Len(log) /\ head <= head'
         /\ head' = head \/ (head' # 0 /\ CommitPoint(head'))
<1>1. log' = log /\ cfg' = cfg
  BY Steps, Zenon
  DEF Quiet, Ends, Crash, Launch, DumpStarts, DumpSnapshot, DumpData, DumpDone, StartSyncer,
      StreamReconnects, GetEvent, HandleOther, HandleRows, HandleCommit, HandleRotate, HandleDDL,
      PosSynced, Deliver, Repeat, deliveryVars
<1>2. CASE Commit
  <2> DEFINE S == {i \in DOMAIN log : i > head /\ CommitPoint(i)}
  <2>1. Len(log) \in S /\ S \in SUBSET Nat
    BY <1>2, SourceLog DEF Commit, CommitPoint, TxnsWhole
  <2>2. Min(S) \in S
    BY <2>1, MinIn
  <2>3. head' \in S
    BY <1>2, <2>2 DEF Commit
  <2> QED
    BY <1>1, <2>3, SourceLog DEF RunTypes
<1>3. ASSUME ~Commit
      PROVE  head' = head
  BY <1>3, Zenon
  DEF Next, Run, Closing, Launch, Crash, RunFails, CatchMasterPos, WaitUntilPos, WaitUntilPosFails,
      RetryPeriodEnds, CloseCancels, CloseConn, CloseReads, CloseSaves,
      DumpStarts, DumpSnapshot, DumpData, DumpDone, StartSyncer, StreamReconnects, GetEvent, GetEventCancelled,
      HandleOther, HandleRows, HandleCommit, HandleRotate, HandleDDL, PosSynced, vars
<1> QED
  BY <1>1, <1>2, <1>3 DEF RunTypes

\* Rows stay applied or dropped.
LEMMA AppliedNext ==
  ASSUME [Next]_vars
  PROVE  /\ applied \subseteq applied' /\ dropped \subseteq dropped'
         /\ DumpData \/ HandleRows \/ UNCHANGED <<applied, dropped>>
<1> USE DEF appVars
<1>1. ASSUME NEW i, OnRow(i) \/ DropRow(i)
      PROVE  applied \subseteq applied' /\ dropped \subseteq dropped'
  BY <1>1, Zenon DEF OnRow, DropRow
<1>2. CASE DumpData
  BY <1>1, <1>2, Zenon DEF DumpData
<1>3. CASE HandleRows
  BY <1>1, <1>3, Zenon DEF HandleRows
<1>4. ASSUME ~DumpData, ~HandleRows
      PROVE  UNCHANGED <<applied, dropped>>
  BY <1>4, Steps, Zenon
  DEF Quiet, Ends, Crash, Launch, DumpStarts, DumpSnapshot, DumpDone, StartSyncer, StreamReconnects, GetEvent,
      HandleOther, HandleCommit, HandleRotate, HandleDDL, PosSynced
<1> QED
  BY <1>2, <1>3, <1>4

\* What is settled stays settled.
LEMMA DoneNext ==
  ASSUME RunTypes, [Next]_vars
  PROVE  /\ Rows' = Rows /\ Done \subseteq Done'
         /\ Done \subseteq Early(log, head)
<1>1. log' = log /\ cfg' = cfg /\ applied \subseteq applied' /\ dropped \subseteq dropped'
  BY HeadNext, AppliedNext, Zenon
<1>2. Rows' = Rows
  BY <1>1, Zenon DEF Rows
<1>3. \A i \in DOMAIN log : i <= head => i <= head'
  BY HeadNext, SourceLog DEF RunTypes
<1>4. Done \subseteq Done'
  BY <1>1, <1>2, <1>3, Zenon DEF Done, Settled, Resumable
<1>5. Done \subseteq Early(log, head)
  BY Zenon DEF Done, Settled, Early
<1> QED
  BY <1>2, <1>4, <1>5

\* The first events stay among the first.
LEMMA EarlyGrows ==
  ASSUME RunTypes, NEW n \in Nat, NEW k \in Nat, n <= k
  PROVE  Early(log, n) \subseteq Early(log, k)
BY SourceLog DEF Early

-----------------------------------------------------------------------------
(***************************************************************************)
(* The steps of the stream.                                                *)
(***************************************************************************)
\* The nil set has the type of a set.
LEMMA NilTypes == Nil \in SUBSET Nat /\ {} \in SUBSET Nat /\ NoTxn \in Nat /\ Nil # {}
BY DEF Nil, NoTxn

\* An event in handleEvent is a work item.
LEMMA ItemTyped ==
  ASSUME NEW kind \in Kinds, NEW i \in Nat, NEW at \in Positions, NEW g \in SUBSET Nat
  PROVE  Item(kind, i, at, g) \in WorkItems
BY DEF Item, WorkItems

\* The fake rotate event at the start of a dump, when there is one.
LEMMA FakeRotateTyped ==
  ASSUME NEW at \in Positions
  PROVE  /\ at.Name = pos.Name => FakeRotate(at) = <<>>
         /\ at.Name # pos.Name => FakeRotate(at) = <<Item("rotate", 0, at, Nil)>>
         /\ Item("rotate", 0, at, Nil) \in WorkItems
         /\ FakeRotate(at) \in Seq(WorkItems)
<1>1. Item("rotate", 0, at, Nil) \in WorkItems
  BY NilTypes, ItemTyped DEF Kinds
<1> QED
  BY <1>1 DEF FakeRotate

\* The events of a payload come without a position and without a set; any other
\* event is handed over as it is.
LEMMA ItemsTyped ==
  ASSUME RunTypes, PointTypes, NEW i \in DOMAIN log, NEW g \in SUBSET Nat
  PROVE  /\ Items(i, g) \in Seq(WorkItems) /\ Items(i, g) # <<>>
         /\ log[i].kind = "payload" =>
               \E at \in Positions :
                  /\ at.Name = pos.Name /\ at.Pos = 0
                  /\ Items(i, g) = <<Item("begin", i, at, Nil), Item("rows", i, at, Nil), Item("xid", i, at, Nil)>>
         /\ log[i].kind # "payload" =>
               \E at \in Positions :
                  /\ log[i].kind = "rotate" => at = EndOf(i)
                  /\ log[i].kind # "rotate" => at.Name = pos.Name /\ at.Pos = log[i].end
                  /\ Items(i, g) = <<Item(log[i].kind, i, at, g)>>
                  /\ log[i].kind \in Kinds
<1>1. i \in Nat /\ pos \in Positions
  BY LogFields DEF PointTypes
<1>2. CASE log[i].kind = "payload"
  <2> DEFINE at == [pos EXCEPT !.Pos = 0]
  <2>1. at \in Positions /\ at.Name = pos.Name /\ at.Pos = 0
    BY <1>1 DEF Positions
  <2>2. Items(i, g) = <<Item("begin", i, at, Nil), Item("rows", i, at, Nil), Item("xid", i, at, Nil)>>
    BY <1>2, Zenon DEF Items
  <2> HIDE DEF at
  <2>3. {Item("begin", i, at, Nil), Item("rows", i, at, Nil), Item("xid", i, at, Nil)} \subseteq WorkItems
    BY <1>1, <2>1, NilTypes, ItemTyped DEF Kinds
  <2> QED
    BY <1>2, <2>1, <2>2, <2>3
<1>3. CASE log[i].kind # "payload"
  <2> DEFINE at == IF log[i].kind = "rotate" THEN EndOf(i) ELSE [pos EXCEPT !.Pos = log[i].end]
  <2>1. at \in Positions
    <3>1. i \in 0..Len(log)
      BY LogFields
    <3>2. EndOf(i) \in Positions
      BY <3>1, EndTypes
    <3> QED
      BY <1>1, <3>2, LogFields DEF Positions
  <2>2. log[i].kind # "rotate" => at.Name = pos.Name /\ at.Pos = log[i].end
    BY <1>1 DEF Positions
  <2>3. log[i].kind = "rotate" => at = EndOf(i)
    OBVIOUS
  <2>4. Items(i, g) = <<Item(log[i].kind, i, at, g)>>
    BY <1>3, Zenon DEF Items
  <2> HIDE DEF at
  <2>5. log[i].kind \in Kinds
    BY <1>3, LogFields DEF Kinds, CommitKinds
  <2>6. Item(log[i].kind, i, at, g) \in WorkItems
    BY <1>1, <2>1, <2>5, ItemTyped
  <2> QED
    BY <1>3, <2>1, <2>2, <2>3, <2>4, <2>5, <2>6
<1> QED
  BY <1>2, <1>3

\* The next event is the first one wanted after the last.
LEMMA GetFacts ==
  ASSUME RunTypes, PointTypes, Life, GetEvent
  PROVE  /\ last' \in wanted /\ last' \in DOMAIN log /\ last' > last /\ last' <= head
         /\ \A j \in wanted : j > last => last' <= j
         /\ curr' = IF curr = Nil \/ log[last'].txn = NoTxn THEN curr ELSE curr \cup {log[last'].txn}
         /\ curr' \in SUBSET Nat
         /\ work = <<>> /\ work' = Items(last', curr') /\ pc = "get" /\ pc' = "handle"
         /\ UNCHANGED <<log, cfg, head, wanted, resend, pos, gset, tables, h, applied, dropped>>
<1>1. last' = Min(After(wanted, last)) /\ After(wanted, last) # {}
  BY Zenon DEF GetEvent, Deliver
<1>2. After(wanted, last) \in SUBSET Nat
  BY SourceLog DEF After, RunTypes
<1>3. last' \in After(wanted, last) /\ \A j \in After(wanted, last) : last' <= j
  BY <1>1, <1>2, MinIn
<1>4. last' \in wanted /\ last' \in DOMAIN log /\ last' > last /\ \A j \in wanted : j > last => last' <= j
  BY <1>3 DEF After, RunTypes
<1>5. /\ curr' = IF curr = Nil \/ log[last'].txn = NoTxn THEN curr ELSE curr \cup {log[last'].txn}
      /\ last' <= head /\ Handle(Items(last', curr'))
  BY <1>1, Zenon DEF GetEvent
<1>6. curr' \in SUBSET Nat
  BY <1>4, <1>5, LogFields, Zenon DEF PointTypes
<1>7. Items(last', curr') # <<>>
  BY <1>4, <1>6, ItemsTyped, Zenon
<1>8. UNCHANGED <<log, cfg, head, wanted, resend, pos, gset, tables, h, applied, dropped>> /\ pc = "get"
  BY Zenon DEF GetEvent, Deliver, masterVars, tableVars, appVars
<1> QED
  BY <1>4, <1>5, <1>6, <1>7, <1>8 DEF Handle, Life

\* Sequences of one item, put together.
LEMMA Joined ==
  ASSUME NEW a \in WorkItems, NEW b \in WorkItems
  PROVE  /\ <<b>> \in Seq(WorkItems) /\ <<a, b>> \in Seq(WorkItems)
         /\ <<>> \o <<b>> = <<b>> /\ <<a>> \o <<b>> = <<a, b>>
<1>1. <<b>> \in Seq(WorkItems) /\ <<a>> \in Seq(WorkItems)
  OBVIOUS
<1>2. <<a, b>> \in Seq(WorkItems)
  OBVIOUS
<1>3. <<>> \o <<b>> = <<b>>
  BY <1>1
<1>4. <<a>> \o <<b>> = <<a, b>>
  <2> DEFINE c == <<a>> \o <<b>>
  <2>1. c \in Seq(WorkItems) /\ Len(c) = 2 /\ c[1] = a /\ c[2] = b
    BY <1>1
  <2> HIDE DEF c
  <2>2. c = <<a, b>>
    BY <1>2, <2>1
  <2> QED
    BY <2>2 DEF c
<1> QED
  BY <1>1, <1>2, <1>3, <1>4

\* A reconnect goes back to the last GTID event that arrived.
LEMMA ReconnectFacts ==
  ASSUME RunTypes, PointTypes, Life, InStream, SetStream, StreamReconnects
  PROVE  /\ last' \in wanted /\ last' \in DOMAIN log /\ last' <= last
         /\ log[last'].kind = "gtid"
         /\ \A g \in wanted : g <= last /\ log[g].kind = "gtid" => g <= last'
         /\ curr # Nil /\ work = <<>> /\ pc = "get" /\ pc' = "handle"
         /\ \E it, rot \in WorkItems :
               /\ it.kind = "gtid"
               /\ rot.kind = "rotate" /\ rot.at = [Name |-> log[last'].file, Pos |-> FileStart]
               /\ \/ pos.Name = log[last'].file /\ work' = <<it>>
                  \/ work' = <<rot, it>>
         /\ UNCHANGED <<log, cfg, head, wanted, resend, curr, pos, gset, tables, h, applied, dropped>>
<1> DEFINE gtids == {j \in wanted : j <= last /\ log[j].kind = "gtid"}
<1>1. /\ UNCHANGED <<log, cfg, head, wanted, resend, curr, pos, gset, tables, h, applied, dropped>>
      /\ pc = "get" /\ resend /\ last # 0 /\ last' = RepeatFrom(wanted, last)
  BY Zenon DEF StreamReconnects, Repeat, masterVars, tableVars, appVars
<1>2. work = <<>> /\ curr # Nil /\ last \in wanted
  BY <1>1 DEF Life, InStream, SetStream, Streaming
<1>3. gtids # {}
  BY <1>1, <1>2 DEF SetStream, Streaming
<1>4. Len(log) \in Nat /\ gtids \in SUBSET (0..Len(log))
  BY SourceLog DEF RunTypes
<1>5. last' = Max(gtids)
  BY <1>1, <1>3, Zenon DEF RepeatFrom
<1>6. last' \in gtids /\ \A x \in gtids : x <= last'
  BY <1>3, <1>4, <1>5, MaxIn, Zenon
<1>7. last' \in DOMAIN log /\ log[last'].kind = "gtid"
  BY <1>6 DEF RunTypes
<1> DEFINE at == [Name |-> log[last'].file, Pos |-> FileStart]
           rot == Item("rotate", 0, at, Nil)
<1>8. at \in Positions /\ at.Name = log[last'].file
  BY <1>7, LogFields DEF Positions, FileStart
<1>9. Handle(FakeRotate(at) \o Items(last', curr))
  BY <1>1, Zenon DEF StreamReconnects
<1> HIDE DEF at
<1>10. PICK p \in Positions : Items(last', curr) = <<Item("gtid", last', p, curr)>>
  BY <1>7, ItemsTyped DEF PointTypes
<1> DEFINE it == Item("gtid", last', p, curr)
<1>11. it \in WorkItems /\ it.kind = "gtid"
  <2>1. last' \in Nat
    BY <1>7, LogFields
  <2>2. it \in WorkItems
    BY <2>1, ItemTyped DEF Kinds, PointTypes
  <2> QED
    BY <2>2 DEF Item
<1>12. rot \in WorkItems /\ rot.kind = "rotate" /\ rot.at = at
  BY <1>8, FakeRotateTyped DEF Item
<1>13. \/ pos.Name = at.Name /\ FakeRotate(at) = <<>>
       \/ FakeRotate(at) = <<rot>>
  BY <1>8, FakeRotateTyped
<1> HIDE DEF it, rot
<1>14. \/ pos.Name = at.Name /\ FakeRotate(at) \o Items(last', curr) = <<it>>
       \/ FakeRotate(at) \o Items(last', curr) = <<rot, it>>
  <2>1. Items(last', curr) = <<it>>
    BY <1>10 DEF it
  <2>2. <<>> \o <<it>> = <<it>> /\ <<rot>> \o <<it>> = <<rot, it>>
    BY <1>11, <1>12, Joined
  <2> QED
    BY <1>13, <2>1, <2>2, Zenon
<1>15. pc' = "handle" /\ ((pos.Name = at.Name /\ work' = <<it>>) \/ work' = <<rot, it>>)
  BY <1>9, <1>14 DEF Handle
<1> QED
  BY <1>1, <1>2, <1>6, <1>7, <1>8, <1>11, <1>12, <1>15 DEF at

\* handleEvent is over for the first item.
LEMMA NextItemFacts ==
  ASSUME RunTypes, work # <<>>, NextItem
  PROVE  /\ work' \in Seq(WorkItems) /\ work \in Seq(WorkItems)
         /\ Len(work) \in Nat \ {0} /\ Len(work') = Len(work) - 1
         /\ \A n \in 1..Len(work') : n + 1 \in 1..Len(work) /\ work'[n] = work[n + 1]
         /\ Head(work) = work[1] /\ work[1] \in WorkItems
         /\ pc' \in {"get", "handle"} /\ (pc' = "get" <=> work' = <<>>)
<1>1. work' = Tail(work) /\ pc' = IF Tail(work) = <<>> THEN "get" ELSE "handle"
  BY Zenon DEF NextItem, Handle
<1>2. work \in Seq(WorkItems)
  BY DEF RunTypes
<1> QED
  BY <1>1, <1>2

-----------------------------------------------------------------------------
(***************************************************************************)
(* Who changes what.                                                       *)
(***************************************************************************)
\* The point of masterInfo.
LEMMA MasterNext ==
  ASSUME [Next]_vars
  PROVE  \/ UNCHANGED <<pos, gset>>
         \/ Crash \/ Launch \/ DumpDone \/ HandleCommit \/ HandleRotate \/ HandleDDL
BY Steps, Zenon
DEF Quiet, Ends, DumpStarts, DumpSnapshot, DumpData, StartSyncer, StreamReconnects, GetEvent,
    HandleOther, HandleRows, PosSynced, masterVars

\* What the application stored.
LEMMA SavedNext ==
  ASSUME [Next]_vars
  PROVE  \/ saved' = saved
         \/ DumpDone /\ saved' = [pos |-> h.pos, gset |-> h.gset]
         \/ PosSynced /\ saved' = [pos |-> pos, gset |-> gset]
         \/ CloseSaves /\ saved' = [pos |-> cl.pos, gset |-> cl.gset]
<1>1. DumpDone => saved' = [pos |-> h.pos, gset |-> h.gset]
  BY DEF DumpDone, OnPosSynced
<1>2. PosSynced => saved' = saved \/ saved' = [pos |-> pos, gset |-> gset]
  BY DEF PosSynced, OnPosSynced
<1>3. CloseSaves => saved' = [pos |-> cl.pos, gset |-> cl.gset]
  BY DEF CloseSaves, OnPosSynced
<1>4. ~DumpDone /\ ~PosSynced /\ ~CloseSaves => saved' = saved
  BY Zenon
  DEF Next, Run, Closing, Commit, Launch, Crash, RunFails, CatchMasterPos, WaitUntilPos, WaitUntilPosFails,
      RetryPeriodEnds, CloseCancels, CloseConn, CloseReads,
      DumpStarts, DumpSnapshot, DumpData, StartSyncer, StreamReconnects, GetEvent, GetEventCancelled,
      HandleOther, HandleRows, HandleCommit, HandleRotate, HandleDDL, vars, appVars
<1> QED
  BY <1>1, <1>2, <1>3, <1>4

\* What Close read.
LEMMA CloseNext ==
  ASSUME [Next]_vars
  PROVE  /\ \/ cl' = cl
            \/ cl' = NoPoint
            \/ cl' = [pos |-> pos, gset |-> gset]
         /\ \/ cpc' = cpc
            \/ cpc' = "no" /\ pc' = "down"
            \/ cpc = "no" /\ pc # "down" /\ cpc' = "cancelled" /\ pc' = pc
            \/ cpc = "cancelled" /\ cpc' = "closed" /\ conn' = FALSE /\ pc' = pc
            \/ cpc = "closed" /\ cpc' = "read" /\ conn' = conn /\ pc' = pc
            \/ cpc = "read" /\ cpc' = "done" /\ conn' = conn /\ pc' = pc
<1>1. CASE Closing
  BY <1>1, Zenon DEF Closing, CloseCancels, CloseConn, CloseReads, CloseSaves, tableVars
<1>2. CASE Crash
  BY <1>2, Zenon DEF Crash
<1>3. CASE ~Closing /\ ~Crash
  BY <1>3, Zenon
  DEF Next, Run, Commit, Launch, RunFails, CatchMasterPos, WaitUntilPos, WaitUntilPosFails, RetryPeriodEnds,
      DumpStarts, DumpSnapshot, DumpData, DumpDone, StartSyncer, StreamReconnects, GetEvent, GetEventCancelled,
      HandleOther, HandleRows, HandleCommit, HandleRotate, HandleDDL, PosSynced, vars, closeVars
<1> QED
  BY <1>1, <1>2, <1>3, Zenon

\* The wait of CatchMasterPos.
LEMMA WaitNext ==
  ASSUME [Next]_vars
  PROVE  \/ UNCHANGED <<wpc, wat>> /\ (pc' = "down" => pc = "down")
         \/ wpc' = "no" /\ wat' = 0
         \/ wpc' = "wait" /\ wat' = head /\ pc # "down" /\ pc' = pc
         \/ WaitUntilPos
<1>1. Crash => wpc' = "no" /\ wat' = 0
  BY DEF Crash
<1>2. CatchMasterPos => wpc' = "wait" /\ wat' = head /\ pc # "down" /\ pc' = pc
  BY Zenon DEF CatchMasterPos
<1>3. WaitUntilPosFails => wpc' = "no" /\ wat' = 0
  BY Zenon DEF WaitUntilPosFails
<1>4. CASE ~Crash /\ ~CatchMasterPos /\ ~WaitUntilPosFails /\ ~WaitUntilPos
  <2>1. UNCHANGED <<wpc, wat>>
    BY <1>4, Zenon
    DEF Next, Run, Closing, Commit, Launch, RunFails, RetryPeriodEnds, CloseCancels, CloseConn, CloseReads, CloseSaves,
        DumpStarts, DumpSnapshot, DumpData, DumpDone, StartSyncer, StreamReconnects, GetEvent, GetEventCancelled,
        HandleOther, HandleRows, HandleCommit, HandleRotate, HandleDDL, PosSynced, vars, waitVars
  <2>2. pc' = "down" => pc = "down"
    BY <1>4, Steps, Zenon
    DEF Quiet, Ends, Launch, DumpStarts, DumpSnapshot, DumpData, DumpDone, StartSyncer, StreamReconnects, GetEvent,
        HandleOther, HandleRows, HandleCommit, HandleRotate, HandleDDL, PosSynced, Handle, NextItem, UpdateMaster
  <2> QED
    BY <2>1, <2>2
<1> QED
  BY <1>1, <1>2, <1>3, <1>4

\* The connection: it is opened by a new Canal, or before the context is done.
LEMMA ConnNext ==
  ASSUME conn \in BOOLEAN, [Next]_vars
  PROVE  /\ conn' \in BOOLEAN
         /\ conn' => conn \/ ~ctxDone \/ pc = "down"
<1> USE DEF tableVars
<1> DEFINE Opened == conn' = TRUE /\ (conn \/ ~ctxDone \/ pc = "down")
           Ok == conn' = conn \/ conn' = FALSE \/ Opened \/ ExecuteFails
<1>1. ASSUME NEW t, GetTable(t) \/ GetTableNotExist(t) \/ GetTableMissingMeta(t)
      PROVE  Ok
  BY <1>1, Zenon DEF GetTable, GetTableNotExist, GetTableMissingMeta, ExecuteSucceeds
<1>2. DumpData => Ok
  BY <1>1, Zenon DEF DumpData
<1>3. HandleRows => Ok
  BY <1>1, Zenon DEF HandleRows
<1>4. DumpStarts \/ RunFails \/ CatchMasterPos \/ WaitUntilPosFails => Ok
  BY Zenon DEF DumpStarts, RunFails, CatchMasterPos, WaitUntilPosFails, GetMasterPos, ExecuteSucceeds
<1>5. Launch \/ Crash \/ CloseConn \/ HandleDDL => Ok
  BY Zenon DEF Launch, NewCanal, Crash, CloseConn, HandleDDL, ClearTableCache
<1>6. ASSUME ~ (DumpData \/ HandleRows \/ DumpStarts \/ RunFails \/ CatchMasterPos \/ WaitUntilPosFails \/ Launch
                \/ Crash \/ CloseConn \/ HandleDDL)
      PROVE  Ok
  BY <1>6, Zenon
  DEF Next, Run, Closing, Commit, WaitUntilPos, RetryPeriodEnds, CloseCancels, CloseReads, CloseSaves,
      DumpSnapshot, DumpDone, StartSyncer, StreamReconnects, GetEvent, GetEventCancelled,
      HandleOther, HandleCommit, HandleRotate, PosSynced, vars
<1>7. Ok
  BY <1>2, <1>3, <1>4, <1>5, <1>6, Zenon
<1> QED
  <2>1. CASE conn' = conn
    BY <2>1, Zenon
  <2>2. CASE conn' = FALSE
    BY <2>2, Zenon
  <2>3. CASE Opened
    BY <2>3, Zenon
  <2>4. CASE ExecuteFails
    BY <2>4, Zenon DEF ExecuteFails
  <2> QED
    BY <1>7, <2>1, <2>2, <2>3, <2>4, Zenon

-----------------------------------------------------------------------------
(***************************************************************************)
(* The types.                                                              *)
(***************************************************************************)
\* Where run can be.
Places == {"down", "dump", "snapshot", "data", "start", "get", "handle", "synced", "ended"}

\* run keeps the types of its place in the stream and of its work.
LEMMA RunTypesNext ==
  ASSUME Inv, [Next]_vars
  PROVE  RunTypes'
<1> USE DEF Inv, Types
<1>1. log' = log /\ cfg' = cfg /\ head' \in 0..Len(log) /\ Len(log) \in Nat
  BY HeadNext, SourceLog
<1> SUFFICES last' \in 0..Len(log) /\ wanted' \subseteq DOMAIN log /\ pc' \in Places /\ work' \in Seq(WorkItems)
  BY <1>1 DEF RunTypes, Places
<1>2. CASE Quiet \/ Ends
  BY <1>2 DEF Quiet, Ends, RunTypes, Places
<1>3. CASE Crash
  BY <1>1, <1>3 DEF Crash, Places
<1>4. CASE Launch \/ DumpStarts \/ DumpSnapshot \/ DumpData \/ DumpDone
  BY <1>4, Zenon DEF Launch, DumpStarts, DumpSnapshot, DumpData, DumpDone, deliveryVars, runVars, RunTypes, Places
<1>5. CASE HandleCommit \/ HandleRotate \/ HandleDDL
  BY <1>5 DEF HandleCommit, HandleRotate, HandleDDL, UpdateMaster, deliveryVars, runVars, RunTypes, Places
<1>6. CASE StartSyncer
  <2>1. last' = last /\ wanted' \subseteq DOMAIN log
    BY <1>6, Zenon DEF StartSyncer, FromPos, FromSet
  <2>2. ASSUME NEW at, at \in Positions, Handle(FakeRotate(at))
        PROVE  pc' \in Places /\ work' \in Seq(WorkItems)
    BY <2>2, FakeRotateTyped DEF Handle, Places
  <2>3. CASE gset \in {Nil, {}}
    <3> DEFINE at == [Name |-> IF pos.Name = 0 THEN log[1].file ELSE pos.Name,
                      Pos |-> IF pos.Pos < FileStart THEN FileStart ELSE pos.Pos]
    <3>1. log[1].file \in Nat
      BY SourceLog, LogFields
    <3>2. at \in Positions
      BY <3>1 DEF PointTypes, Positions, FileStart
    <3>3. Handle(FakeRotate(at))
      BY <1>6, <2>3, Zenon DEF StartSyncer
    <3> QED
      BY <2>1, <2>2, <3>2, <3>3, Zenon DEF RunTypes
  <2>4. CASE gset \notin {Nil, {}}
    <3> DEFINE at == [Name |-> FileOf(FromSet(gset)), Pos |-> FileStart]
    <3>1. FileOf(FromSet(gset)) \in Nat
      <4>1. FromSet(gset) \in SUBSET DOMAIN log
        BY DEF FromSet
      <4>2. FromSet(gset) # {} => Min(FromSet(gset)) \in DOMAIN log
        BY <4>1, SourceLog, MinIn
      <4> QED
        BY <4>2, SourceLog, LogFields DEF FileOf
    <3>2. at \in Positions
      BY <3>1 DEF Positions, FileStart
    <3>3. Handle(FakeRotate(at))
      BY <1>6, <2>4, Zenon DEF StartSyncer
    <3> QED
      BY <2>1, <2>2, <3>2, <3>3, Zenon DEF RunTypes
  <2> QED
    BY <2>3, <2>4
<1>7. CASE StreamReconnects
  <2>1. /\ last' \in DOMAIN log /\ wanted' = wanted /\ pc' = "handle"
        /\ \E it, rot \in WorkItems : work' = <<it>> \/ work' = <<rot, it>>
    BY <1>7, ReconnectFacts, Zenon
  <2>2. PICK it \in WorkItems, rot \in WorkItems : work' = <<it>> \/ work' = <<rot, it>>
    BY <2>1, Zenon
  <2>3. work' \in Seq(WorkItems)
    BY <2>2, Joined, Zenon
  <2> QED
    BY <2>1, <2>3, SourceLog DEF Places, RunTypes
<1>8. CASE GetEvent
  <2>1. last' \in DOMAIN log /\ wanted' = wanted /\ pc' = "handle" /\ work' = Items(last', curr') /\ curr' \in SUBSET Nat
    BY <1>8, GetFacts
  <2>2. work' \in Seq(WorkItems)
    BY <2>1, ItemsTyped
  <2> QED
    BY <2>1, <2>2, SourceLog DEF Places, RunTypes
<1>9. CASE HandleOther \/ HandleRows \/ PosSynced
  <2>1. UNCHANGED <<last, wanted>> /\ NextItem /\ work # <<>>
    BY <1>9 DEF HandleOther, HandleRows, PosSynced, Handling, Life, deliveryVars
  <2>2. work' \in Seq(WorkItems) /\ pc' \in {"get", "handle"}
    BY <2>1, NextItemFacts
  <2> QED
    BY <2>1, <2>2 DEF Places, RunTypes
<1> QED
  BY <1>2, <1>3, <1>4, <1>5, <1>6, <1>7, <1>8, <1>9, Steps

\* A point of masterInfo that an item carries.
LEMMA HeadItem ==
  ASSUME RunTypes, work # <<>>
  PROVE  /\ Head(work) = work[1] /\ work[1] \in WorkItems /\ 1 \in 1..Len(work)
         /\ work[1].kind \in Kinds /\ work[1].index \in Nat /\ work[1].at \in Positions
         /\ work[1].gset \in SUBSET Nat
<1>1. Head(work) = work[1] /\ work[1] \in WorkItems /\ 1 \in 1..Len(work)
  BY DEF RunTypes
<1> QED
  BY <1>1 DEF WorkItems

\* Positions and sets stay positions and sets, wherever they are kept.
LEMMA PointTypesNext ==
  ASSUME Inv, [Next]_vars
  PROVE  PointTypes'
<1> USE DEF Inv, Types
<1> DEFINE Dumps == [pos : Positions, gset : SUBSET Nat, snap : Nat, todo : SUBSET Nat]
<1>a. /\ pos \in Positions /\ gset \in SUBSET Nat /\ curr \in SUBSET Nat
      /\ saved \in Points /\ cl \in Points /\ h \in Dumps /\ h.todo \subseteq Rows
  BY DEF PointTypes
<1>b. NoPos \in Positions /\ NoPoint \in Points /\ NoDump \in Dumps /\ NoDump.todo = {}
  BY NoPosIn, NilTypes, Zenon DEF NoPoint, NoDump, Points
<1>c. /\ saved.pos \in Positions /\ saved.gset \in SUBSET Nat /\ cl.pos \in Positions /\ cl.gset \in SUBSET Nat
      /\ h.pos \in Positions /\ h.gset \in SUBSET Nat /\ h.snap \in Nat /\ h.todo \in SUBSET Nat
  BY <1>a DEF Points
<1>d. Executed(head) \in SUBSET Nat /\ EndOf(head) \in Positions /\ Rows \in SUBSET Nat /\ head \in Nat
  BY ExecutedEarly, EndTypes, SourceLog DEF RunTypes, Rows, Committed
<1>1. pos' \in Positions /\ gset' \in SUBSET Nat
  <2>1. CASE UNCHANGED <<pos, gset>>
    BY <1>a, <2>1
  <2>2. CASE Crash
    BY <1>b, <2>2, NilTypes DEF Crash
  <2>3. CASE Launch
    BY <1>b, <1>c, <2>3, NilTypes DEF Launch
  <2>4. CASE DumpDone
    BY <1>c, <2>4 DEF DumpDone
  <2>5. CASE HandleCommit \/ HandleRotate \/ HandleDDL
    <3>1. pos' = Head(work).at /\ gset' \in {gset, Head(work).gset} /\ pc = "handle"
      BY <2>5 DEF HandleCommit, HandleRotate, HandleDDL, UpdateMaster, Handling
    <3> QED
      BY <1>a, <3>1, HeadItem DEF Life
  <2> QED
    BY <2>1, <2>2, <2>3, <2>4, <2>5, MasterNext
<1>2. curr' \in SUBSET Nat
  <2>1. CASE StartSyncer
    BY <1>a, <2>1, NilTypes, Zenon DEF StartSyncer
  <2>2. CASE GetEvent
    BY <2>2, GetFacts
  <2>3. CASE Crash
    BY <2>3, NilTypes DEF Crash
  <2>4. CASE ~StartSyncer /\ ~GetEvent /\ ~Crash
    <3>1. curr' = curr
      BY <2>4, Steps, Zenon
      DEF Quiet, Ends, Launch, DumpStarts, DumpSnapshot, DumpData, DumpDone, StreamReconnects,
          HandleOther, HandleRows, HandleCommit, HandleRotate, HandleDDL, PosSynced, runVars
    <3> QED
      BY <1>a, <3>1
  <2> QED
    BY <2>1, <2>2, <2>3, <2>4
<1>e. ASSUME NEW p \in Positions, NEW g \in SUBSET Nat
      PROVE  [pos |-> p, gset |-> g] \in Points
  BY DEF Points
<1>3. saved' \in Points
  BY <1>a, <1>c, <1>e, SavedNext, Zenon
<1>4. cl' \in Points
  BY <1>a, <1>b, <1>e, CloseNext, Zenon
<1>5. h' \in Dumps /\ h'.todo \subseteq Rows
  <2>1. CASE Crash \/ DumpDone
    BY <1>b, <2>1, Zenon DEF Crash, DumpDone
  <2>2. CASE DumpStarts
    <3> DEFINE g == IF gset = Nil THEN Nil ELSE Executed(head)
               p == IF cfg.skipMasterData THEN EndOf(head) ELSE NoPos
    <3>1. g \in SUBSET Nat /\ p \in Positions
      BY <1>b, <1>d, NilTypes
    <3>2. h' = [h EXCEPT !.gset = g, !.pos = p]
      BY <2>2, Zenon DEF DumpStarts
    <3> HIDE DEF g, p
    <3> QED
      BY <1>a, <3>1, <3>2, Zenon
  <2>3. CASE DumpSnapshot
    <3> DEFINE g == IF ~cfg.skipMasterData /\ cfg.flavor = "mysql" THEN (h.gset \ Nil) \cup Executed(head) ELSE h.gset
               p == IF ~cfg.skipMasterData THEN EndOf(head) ELSE h.pos
               td == {i \in Rows : i <= head}
    <3>1. g \in SUBSET Nat /\ p \in Positions /\ td \in SUBSET Nat /\ td \subseteq Rows
      BY <1>c, <1>d, Zenon
    <3>2. h' = [h EXCEPT !.gset = g, !.pos = p, !.snap = head, !.todo = td]
      BY <2>3, Zenon DEF DumpSnapshot
    <3> HIDE DEF g, p, td
    <3> QED
      BY <1>a, <1>d, <3>1, <3>2, Zenon
  <2>4. CASE DumpData
    <3>1. PICK i : h' = [h EXCEPT !.todo = @ \ {i}]
      BY <2>4, Zenon DEF DumpData
    <3> QED
      BY <1>a, <1>c, <3>1
  <2>5. CASE ~Crash /\ ~DumpDone /\ ~DumpStarts /\ ~DumpSnapshot /\ ~DumpData
    <3>1. h' = h
      BY <2>5, Steps, Zenon
      DEF Quiet, Ends, Launch, StartSyncer, StreamReconnects, GetEvent,
          HandleOther, HandleRows, HandleCommit, HandleRotate, HandleDDL, PosSynced
    <3> QED
      BY <1>a, <3>1
  <2> QED
    BY <2>1, <2>2, <2>3, <2>4, <2>5
<1>6. Rows' = Rows
  BY DoneNext
<1> QED
  BY <1>1, <1>2, <1>3, <1>4, <1>5, <1>6 DEF PointTypes

\* GetTable caches the definition of now.
LEMMA GetTableCaches ==
  ASSUME RunTypes, CacheTypes, NEW t \in Tables, GetTable(t)
  PROVE  /\ tables' \in [Tables -> Nat \cup {NoTable}]
         /\ \A s \in Tables : s # t => tables'[s] = tables[s]
         /\ \/ tables[t] # NoTable /\ tables'[t] = tables[t]
            \/ tables'[t] = Version(t, head) /\ tables'[t] \in Nat
         /\ errorTablesGetTime' = errorTablesGetTime
<1>1. CASE ~NotCached(t) /\ UNCHANGED tableVars
  BY <1>1 DEF NotCached, tableVars, CacheTypes
<1>2. CASE tables' = [tables EXCEPT ![t] = Version(t, head)] /\ UNCHANGED errorTablesGetTime
  <2>1. Version(t, head) \in Nat
    BY VersionIs, Zenon DEF RunTypes
  <2> QED
    BY <1>2, <2>1 DEF CacheTypes
<1> QED
  BY <1>1, <1>2, Zenon DEF GetTable

\* The cache keeps definitions of tables only.
LEMMA CacheTypesNext ==
  ASSUME Inv, [Next]_vars
  PROVE  CacheTypes'
<1> USE DEF Inv, Types
<1>1. conn' \in BOOLEAN
  BY ConnNext DEF CacheTypes
<1> DEFINE Cached == tables' \in [Tables -> Nat \cup {NoTable}] /\ errorTablesGetTime' \subseteq Tables
<1> SUFFICES Cached
  BY <1>1 DEF CacheTypes
<1>2. ASSUME NEW t \in Tables, GetTable(t) \/ GetTableNotExist(t) \/ GetTableMissingMeta(t)
      PROVE  Cached
  <2>1. CASE GetTable(t)
    BY <2>1, GetTableCaches DEF CacheTypes
  <2>2. CASE GetTableNotExist(t)
    BY <2>2 DEF GetTableNotExist, CacheTypes
  <2>3. CASE GetTableMissingMeta(t)
    BY <2>3 DEF GetTableMissingMeta, CacheTypes
  <2> QED
    BY <1>2, <2>1, <2>2, <2>3
<1>3. CASE DumpData
  <2> DEFINE i == Min(h.todo)
  <2>1. i \in Rows
    BY <1>3, MinIn DEF DumpData, PointTypes
  <2>2. log[i].table \in Tables
    BY <2>1, LogFields DEF Rows
  <2> HIDE DEF i
  <2>3. \/ UNCHANGED tableVars
        \/ GetTable(log[i].table) \/ GetTableNotExist(log[i].table) \/ GetTableMissingMeta(log[i].table)
    BY <1>3, Zenon DEF DumpData, i
  <2>4. CASE UNCHANGED tableVars
    BY <2>4 DEF tableVars, CacheTypes
  <2> QED
    BY <1>2, <2>2, <2>3, <2>4
<1>4. CASE HandleRows
  <2> DEFINE i == Head(work).index
  <2>1. pc = "handle" /\ work # <<>> /\ Head(work).kind = "rows" /\ Head(work) = work[1] /\ 1 \in 1..Len(work)
    BY <1>4, HeadItem, Zenon DEF HandleRows, Handling, Life
  <2>2. i = last /\ last \in DOMAIN log
    BY <2>1 DEF InStream, Streaming, ItemIn
  <2>3. log[i].table \in Tables
    BY <2>2, LogFields
  <2> HIDE DEF i
  <2>4. \/ UNCHANGED tableVars
        \/ GetTable(log[i].table) \/ GetTableNotExist(log[i].table) \/ GetTableMissingMeta(log[i].table)
    BY <1>4, Zenon DEF HandleRows, i, tableVars
  <2>5. CASE UNCHANGED tableVars
    BY <2>5 DEF tableVars, CacheTypes
  <2> QED
    BY <1>2, <2>3, <2>4, <2>5, Zenon
<1>5. CASE HandleDDL
  BY <1>5, Zenon DEF HandleDDL, ClearTableCache, CacheTypes
<1>6. CASE Launch \/ Crash
  BY <1>6 DEF Launch, NewCanal, Crash, NoTables
<1>7. CASE ~ (DumpData \/ HandleRows \/ HandleDDL \/ Launch \/ Crash)
  <2>1. tables' = tables
    BY <1>7, Steps, Zenon
    DEF Quiet, Ends, DumpStarts, DumpSnapshot, DumpDone, StartSyncer, StreamReconnects, GetEvent,
        HandleOther, HandleCommit, HandleRotate, PosSynced, tableVars
  <2>2. errorTablesGetTime' \subseteq errorTablesGetTime
    BY <1>7, Zenon
    DEF Next, Run, Closing, Commit, RunFails, CatchMasterPos, WaitUntilPos, WaitUntilPosFails, RetryPeriodEnds,
        CloseCancels, CloseConn, CloseReads, CloseSaves,
        DumpStarts, DumpSnapshot, DumpDone, StartSyncer, StreamReconnects, GetEvent, GetEventCancelled,
        HandleOther, HandleCommit, HandleRotate, PosSynced, vars, tableVars
  <2> QED
    BY <2>1, <2>2 DEF CacheTypes
<1> QED
  BY <1>3, <1>4, <1>5, <1>6, <1>7

\* The counts of starts and calls.
LEMMA CountsNext ==
  ASSUME CallTypes, [Next]_vars
  PROVE  starts' \in 0..MaxStarts /\ calls' \in 0..MaxCalls
<1>1. starts' = starts \/ (starts < MaxStarts /\ starts' = starts + 1)
  BY Zenon
  DEF Next, Run, Closing, Commit, Launch, Crash, RunFails, CatchMasterPos, WaitUntilPos, WaitUntilPosFails,
      RetryPeriodEnds, CloseCancels, CloseConn, CloseReads, CloseSaves,
      DumpStarts, DumpSnapshot, DumpData, DumpDone, StartSyncer, StreamReconnects, GetEvent, GetEventCancelled,
      HandleOther, HandleRows, HandleCommit, HandleRotate, HandleDDL, PosSynced, vars, appVars
<1>2. calls' = calls \/ (calls < MaxCalls /\ calls' = calls + 1)
  BY Zenon
  DEF Next, Run, Closing, Commit, Launch, Crash, RunFails, CatchMasterPos, WaitUntilPos, WaitUntilPosFails,
      RetryPeriodEnds, CloseCancels, CloseConn, CloseReads, CloseSaves,
      DumpStarts, DumpSnapshot, DumpData, DumpDone, StartSyncer, StreamReconnects, GetEvent, GetEventCancelled,
      HandleOther, HandleRows, HandleCommit, HandleRotate, HandleDDL, PosSynced, vars, appVars
<1> QED
  BY <1>1, <1>2, BoundsAssumption DEF CallTypes

\* CatchMasterPos, Close and the application keep their types.
LEMMA CallTypesNext ==
  ASSUME Inv, [Next]_vars
  PROVE  CallTypes'
<1> USE DEF Inv, Types
<1>1. log' = log /\ Len(log) \in Nat
  BY HeadNext, SourceLog
<1>2. wpc' \in {"no", "wait", "ok"} /\ wat' \in 0..Len(log)
  BY <1>1, WaitNext DEF WaitUntilPos, CallTypes, RunTypes
<1>3. cpc' \in {"no", "cancelled", "closed", "read", "done"}
  BY CloseNext, Zenon DEF CallTypes
<1>4. applied' \subseteq DOMAIN log /\ dropped' \subseteq DOMAIN log
  <2>1. ASSUME NEW i \in DOMAIN log, OnRow(i) \/ DropRow(i)
        PROVE  applied' \subseteq DOMAIN log /\ dropped' \subseteq DOMAIN log
    BY <2>1 DEF OnRow, DropRow, CallTypes
  <2>2. CASE DumpData
    <3>1. Min(h.todo) \in DOMAIN log
      BY <2>2, MinIn DEF DumpData, PointTypes, Rows
    <3>2. OnRow(Min(h.todo)) \/ DropRow(Min(h.todo))
      BY <2>2, Zenon DEF DumpData
    <3> QED
      BY <2>1, <3>1, <3>2
  <2>3. CASE HandleRows
    <3>1. pc = "handle" /\ work # <<>> /\ Head(work).kind = "rows" /\ Head(work) = work[1] /\ 1 \in 1..Len(work)
      BY <2>3, HeadItem DEF HandleRows, Handling, Life
    <3>2. Head(work).index \in DOMAIN log
      BY <3>1 DEF InStream, Streaming, ItemIn
    <3>3. OnRow(Head(work).index) \/ DropRow(Head(work).index) \/ UNCHANGED <<applied, dropped>>
      BY <2>3, Zenon DEF HandleRows
    <3> QED
      BY <2>1, <3>2, <3>3 DEF CallTypes
  <2>4. CASE ~DumpData /\ ~HandleRows
    <3>1. UNCHANGED <<applied, dropped>>
      BY <2>4, Steps, Zenon
      DEF Quiet, Ends, Crash, Launch, DumpStarts, DumpSnapshot, DumpDone, StartSyncer, StreamReconnects, GetEvent,
          HandleOther, HandleCommit, HandleRotate, HandleDDL, PosSynced, appVars
    <3> QED
      BY <3>1 DEF CallTypes
  <2> QED
    BY <2>2, <2>3, <2>4
<1> QED
  BY <1>1, <1>2, <1>3, <1>4, CountsNext DEF CallTypes

-----------------------------------------------------------------------------
(***************************************************************************)
(* Where run goes.                                                         *)
(***************************************************************************)
\* The steps that lead to a place before the stream.
LEMMA ToDump ==
  ASSUME [Next]_vars, pc' \in {"down", "dump", "snapshot", "data", "start"}
  PROVE  \/ Quiet
         \/ Crash /\ pc' = "down"
         \/ Launch /\ pc = "down" /\ pc' \in {"start", "dump"}
         \/ DumpStarts /\ pc = "dump" /\ pc' = "snapshot"
         \/ DumpSnapshot /\ pc = "snapshot" /\ pc' = "data"
         \/ DumpData /\ pc = "data" /\ pc' = "data"
         \/ DumpDone /\ pc = "data" /\ pc' = "start"
<1>1. CASE Crash \/ Launch \/ DumpStarts \/ DumpSnapshot \/ DumpData \/ DumpDone
  <2>1. Launch => pc = "down" /\ pc' \in {"start", "dump"}
    BY DEF Launch
  <2>2. /\ Crash => pc' = "down"
        /\ DumpStarts => pc = "dump" /\ pc' = "snapshot"
        /\ DumpSnapshot => pc = "snapshot" /\ pc' = "data"
        /\ DumpData => pc = "data" /\ pc' = "data"
        /\ DumpDone => pc = "data" /\ pc' = "start"
    BY Zenon DEF Crash, DumpStarts, DumpSnapshot, DumpData, DumpDone
  <2> QED
    BY <1>1, <2>1, <2>2, Zenon
<1>2. ASSUME StartSyncer \/ StreamReconnects \/ GetEvent \/ HandleOther \/ HandleRows \/ PosSynced
      PROVE  pc' \in {"get", "handle"}
  BY <1>2, Zenon DEF StartSyncer, StreamReconnects, GetEvent, HandleOther, HandleRows, PosSynced, NextItem, Handle
<1>3. ASSUME HandleCommit \/ HandleRotate \/ HandleDDL
      PROVE  pc' = "synced"
  BY <1>3, Zenon DEF HandleCommit, HandleRotate, HandleDDL, UpdateMaster
<1>4. ASSUME Ends
      PROVE  pc' = "ended"
  BY <1>4 DEF Ends
<1> QED
  BY <1>1, <1>2, <1>3, <1>4, Steps

\* The steps that lead to a place in the stream.
LEMMA ToStream ==
  ASSUME [Next]_vars, Streaming'
  PROVE  \/ Quiet
         \/ StartSyncer \/ StreamReconnects \/ GetEvent
         \/ HandleOther \/ HandleRows \/ HandleCommit \/ HandleRotate \/ HandleDDL \/ PosSynced
<1>1. ASSUME Crash \/ Launch \/ DumpStarts \/ DumpSnapshot \/ DumpData \/ DumpDone \/ Ends
      PROVE  pc' \in {"down", "dump", "snapshot", "data", "start", "ended"}
  BY <1>1, Zenon DEF Crash, Launch, DumpStarts, DumpSnapshot, DumpData, DumpDone, Ends
<1> QED
  BY <1>1, Steps DEF Streaming

\* Transactions stay whole, and are committed before they are sent.
LEMMA CommittedNext ==
  ASSUME Inv, [Next]_vars
  PROVE  Committed'
<1> USE DEF Inv, Types
<1>1. log' = log /\ head \in Nat /\ head' \in Nat /\ head <= head' /\ last <= head /\ last \in Nat
  BY HeadNext, SourceLog DEF RunTypes, Committed
<1>2. head' = 0 \/ log[head'].kind \in CommitKinds
  BY HeadNext DEF Committed, CommitPoint
<1>3. last' <= head'
  <2>1. CASE GetEvent
    BY <1>1, <2>1, GetFacts
  <2>2. CASE StreamReconnects
    BY <1>1, <2>2, ReconnectFacts, LogFields
  <2>3. CASE ~GetEvent /\ ~StreamReconnects
    <3>1. last' = last \/ last' = 0
      BY <2>3, Steps, Zenon
      DEF Quiet, Ends, Crash, Launch, DumpStarts, DumpSnapshot, DumpData, DumpDone, StartSyncer,
          HandleOther, HandleRows, HandleCommit, HandleRotate, HandleDDL, PosSynced, deliveryVars
    <3> QED
      BY <1>1, <3>1
  <2> QED
    BY <2>1, <2>2, <2>3, Zenon
<1> QED
  BY <1>1, <1>2, <1>3 DEF Committed, CommitPoint

\* The control of run and of Close.
LEMMA LifeNext ==
  ASSUME Inv, [Next]_vars
  PROVE  Life'
<1> USE DEF Inv, Types
<1>1. ASSUME pc' = "down"
      PROVE  cpc' = "no" /\ wpc' = "no"
  <2>1. Crash => cpc' = "no" /\ wpc' = "no"
    BY DEF Crash
  <2>2. CASE Quiet
    <3>1. pc = "down" /\ cpc = "no" /\ wpc = "no"
      BY <1>1, <2>2 DEF Quiet, Life
    <3> QED
      BY <3>1, CloseNext, WaitNext DEF WaitUntilPos
  <2> QED
    BY <1>1, <2>1, <2>2, ToDump
<1>2. ASSUME pc' \in {"down", "dump", "snapshot"}
      PROVE  tables' = NoTables
  <2>1. CASE Quiet
    BY <1>2, <2>1 DEF Quiet, Life
  <2>2. CASE Crash \/ Launch
    BY <2>2, Zenon DEF Crash, Launch, NewCanal
  <2>3. CASE DumpStarts
    BY <2>3 DEF DumpStarts, Life
  <2> QED
    BY <1>2, <2>1, <2>2, <2>3, ToDump
<1>3. ASSUME pc' \notin {"get", "handle", "synced", "ended"}
      PROVE  last' = 0
  <2>1. pc' \in {"down", "dump", "snapshot", "data", "start"}
    BY <1>3, RunTypesNext DEF RunTypes
  <2>2. CASE Quiet
    BY <1>3, <2>2 DEF Quiet, Life
  <2>3. CASE Crash
    BY <2>3 DEF Crash
  <2>4. CASE Launch \/ DumpStarts \/ DumpSnapshot \/ DumpData \/ DumpDone
    BY <2>4, Zenon DEF Launch, DumpStarts, DumpSnapshot, DumpData, DumpDone, deliveryVars, Life
  <2> QED
    BY <2>1, <2>2, <2>3, <2>4, ToDump
<1>4. ASSUME Streaming'
      PROVE  /\ pc' = "get" => work' = <<>>
             /\ pc' \in {"handle", "synced"} => work' # <<>>
             /\ pc' = "synced" => Head(work').kind \in Saving
  <2>1. CASE Quiet
    BY <2>1, Zenon DEF Quiet, Life
  <2>2. CASE StartSyncer
    <3>1. pc' = IF work' = <<>> THEN "get" ELSE "handle"
      BY <2>2, Zenon DEF StartSyncer, Handle
    <3> QED
      BY <3>1
  <2>3. CASE StreamReconnects
    <3>1. pc' = "handle" /\ \E it, rot \in WorkItems : work' = <<it>> \/ work' = <<rot, it>>
      BY <2>3, ReconnectFacts, Zenon
    <3> QED
      BY <3>1
  <2>4. CASE GetEvent
    <3>1. pc' = "handle" /\ work' = Items(last', curr') /\ last' \in DOMAIN log /\ curr' \in SUBSET Nat
      BY <2>4, GetFacts
    <3> QED
      BY <3>1, ItemsTyped
  <2>5. CASE HandleOther \/ HandleRows \/ PosSynced
    <3>1. NextItem /\ work # <<>>
      BY <2>5, Zenon DEF HandleOther, HandleRows, PosSynced, Handling, Life
    <3> QED
      BY <3>1, NextItemFacts
  <2>6. CASE HandleCommit \/ HandleRotate \/ HandleDDL
    BY <2>6, Zenon DEF HandleCommit, HandleRotate, HandleDDL, UpdateMaster, Handling, Saving, runVars, Life
  <2> QED
    BY <1>4, <2>1, <2>2, <2>3, <2>4, <2>5, <2>6, ToStream, Zenon
<1>5. NoConnAfterClose'
  <2>1. conn \in BOOLEAN /\ (cpc \in {"closed", "read", "done"} => ~conn /\ pc # "down" /\ ctxDone)
    BY DEF Life, NoConnAfterClose, ctxDone, CacheTypes
  <2>2. conn' \in BOOLEAN /\ (conn' => conn \/ ~ctxDone \/ pc = "down")
    BY <2>1, ConnNext
  <2> QED
    BY <2>1, <2>2, CloseNext, Zenon DEF NoConnAfterClose
<1> QED
  BY <1>1, <1>2, <1>3, <1>4, <1>5 DEF Life, Streaming

(***************************************************************************)
(* The stored points, and the dump.                                        *)
(***************************************************************************)
\* When the dump has handed over its rows, the events up to it are settled.
LEMMA SnapDone ==
  ASSUME Types, Dumping, pc = "data", h.todo = {}
  PROVE  Early(log, h.snap) \subseteq Done
<1>1. h.snap \in Nat /\ head \in Nat /\ h.snap <= head /\ \A i \in Rows : i <= h.snap => i \in applied \cup dropped
  <2>1. h.snap \in Nat /\ head \in Nat
    BY SourceLog DEF Types, PointTypes, RunTypes
  <2>2. h.snap <= head /\ \A i \in Rows : i <= h.snap => i \in h.todo \cup applied \cup dropped
    BY Zenon DEF Dumping
  <2> QED
    BY <2>1, <2>2, Zenon
<1>2. \A i \in DOMAIN log : i \in Nat
  BY SourceLog DEF Types
<1> QED
  BY <1>1, <1>2 DEF Early, Done, Settled

\* What the item in handleEvent will save.
LEMMA ItemSaves ==
  ASSUME Types, Life, InStream, HandleCommit \/ HandleRotate \/ HandleDDL
  PROVE  /\ pc = "handle" /\ pc' = "synced" /\ work # <<>> /\ Head(work) = work[1] /\ work[1].kind \in Saving
         /\ pos' = work[1].at /\ gset' \in {gset, work[1].gset}
         /\ ItemIn(work[1], log, Done, wanted, last, cfg.gtid)
         /\ PosIn(pos', log, Done) /\ NameIn(pos'.Name, log, wanted, last)
         /\ gset' = gset \/ (cfg.gtid => SetIn(gset', log, Done))
         /\ work' = work /\ UNCHANGED <<log, cfg, head, wanted, resend, last, curr, h, applied, dropped>>
<1>1. /\ pc = "handle" /\ pc' = "synced" /\ Head(work).kind \in Saving /\ pos' = Head(work).at
      /\ gset' = gset \/ (gset' = Head(work).gset /\ Head(work).kind # "rotate")
      /\ work' = work /\ UNCHANGED <<log, cfg, head, wanted, resend, last, curr, h, applied, dropped>>
  BY Zenon DEF HandleCommit, HandleRotate, HandleDDL, UpdateMaster, Handling, Saving, deliveryVars, runVars, appVars
<1>2. work # <<>> /\ Head(work) = work[1] /\ 1 \in 1..Len(work)
  BY <1>1, HeadItem DEF Life, Types
<1>3. ItemIn(work[1], log, Done, wanted, last, cfg.gtid)
  BY <1>1, <1>2, Zenon DEF InStream, Streaming
<1> QED
  BY <1>1, <1>2, <1>3, Zenon DEF ItemIn

\* What is stored, or may be stored next, stays settled.
LEMMA StoredNext ==
  ASSUME Inv, [Next]_vars
  PROVE  Stored'
<1> USE DEF Inv, Types
<1>1. log' = log /\ cfg' = cfg /\ Done \subseteq Done'
  BY HeadNext, DoneNext
<1> DEFINE Ok(p, g) == PosIn(p, log, Done') /\ (cfg.gtid => SetIn(g, log, Done'))
<1>2. Ok(pos, gset) /\ Ok(saved.pos, saved.gset) /\ Ok(cl.pos, cl.gset)
  BY <1>1, PosInGrows, SetInGrows, Zenon DEF Stored
<1>3. Ok(NoPos, Nil) /\ SetIn(Nil, log, Done') /\ SetIn({}, log, Done')
  BY NoPosIn, Zenon DEF SetIn
<1>4. ASSUME DumpDone
      PROVE  Ok(h.pos, h.gset)
  <2>1. pc = "data" /\ h.todo = {}
    BY <1>4 DEF DumpDone
  <2>2. Early(log, h.snap) \subseteq Done'
    BY <1>1, <2>1, SnapDone
  <2> QED
    BY <2>1, <2>2, PosInGrows, SetInGrows, Zenon DEF Dumping
<1> HIDE DEF Ok
<1>5. Ok(pos', gset')
  <2>1. CASE UNCHANGED <<pos, gset>>
    BY <1>2, <2>1
  <2>2. CASE Crash
    BY <1>3, <2>2 DEF Crash
  <2>3. CASE Launch
    BY <1>2, <1>3, <2>3, Zenon DEF Launch, Ok
  <2>4. CASE DumpDone
    BY <1>4, <2>4, Zenon DEF DumpDone
  <2>5. CASE HandleCommit \/ HandleRotate \/ HandleDDL
    <3>1. PosIn(pos', log, Done) /\ (gset' = gset \/ (cfg.gtid => SetIn(gset', log, Done)))
      BY <2>5, ItemSaves
    <3>2. PosIn(pos', log, Done')
      BY <1>1, <3>1, PosInGrows, Zenon
    <3>3. cfg.gtid => SetIn(gset', log, Done')
      BY <1>1, <1>2, <3>1, SetInGrows, Zenon DEF Ok
    <3> QED
      BY <3>2, <3>3, Zenon DEF Ok
  <2> QED
    BY <2>1, <2>2, <2>3, <2>4, <2>5, MasterNext
<1>6. Ok(saved'.pos, saved'.gset)
  <2>1. CASE saved' = saved
    BY <1>2, <2>1, Zenon
  <2>2. CASE DumpDone /\ saved' = [pos |-> h.pos, gset |-> h.gset]
    BY <1>4, <2>2
  <2>3. CASE saved' = [pos |-> pos, gset |-> gset]
    BY <1>2, <2>3, Zenon
  <2>4. CASE saved' = [pos |-> cl.pos, gset |-> cl.gset]
    BY <1>2, <2>4
  <2> QED
    BY <2>1, <2>2, <2>3, <2>4, SavedNext, Zenon
<1>7. Ok(cl'.pos, cl'.gset)
  <2>1. CASE cl' = cl
    BY <1>2, <2>1, Zenon
  <2>2. CASE cl' = NoPoint
    BY <1>3, <2>2 DEF NoPoint
  <2>3. CASE cl' = [pos |-> pos, gset |-> gset]
    BY <1>2, <2>3
  <2> QED
    BY <2>1, <2>2, <2>3, CloseNext, Zenon
<1> QED
  BY <1>1, <1>5, <1>6, <1>7, Zenon DEF Stored, Ok

\* A new Canal starts from a stored point.
LEMMA LaunchPoint ==
  ASSUME Inv, Launch
  PROVE  /\ PosIn(pos', log, Done) /\ SetIn(gset', log, Done)
         /\ pc' = "dump" => gset' \in {Nil, {}}
         /\ UNCHANGED <<log, cfg, head, applied, dropped, last, h>> /\ tables' = NoTables
<1> USE DEF Inv, Types
<1>1. PosIn(pos', log, Done)
  BY NoPosIn DEF Launch, Stored
<1>2. SetIn(gset', log, Done)
  BY Zenon DEF Launch, Stored, SetIn
<1>3. pc' = "dump" => gset' \in {Nil, {}}
  BY DEF Launch, SkipsDump
<1> QED
  BY <1>1, <1>2, <1>3, Zenon DEF Launch, NewCanal, deliveryVars

\* The dump keeps what it will name in line with what it hands over.
LEMMA DumpingNext ==
  ASSUME Inv, [Next]_vars
  PROVE  Dumping'
<1> USE DEF Inv, Types
<1>1. /\ log' = log /\ cfg' = cfg /\ Done \subseteq Done' /\ Rows' = Rows
      /\ head \in Nat /\ head' \in Nat /\ head <= head' /\ h.snap \in Nat
      /\ applied \subseteq applied' /\ dropped \subseteq dropped'
  <2>1. /\ log' = log /\ cfg' = cfg /\ Done \subseteq Done' /\ Rows' = Rows
        /\ head' \in 0..Len(log) /\ head <= head'
        /\ applied \subseteq applied' /\ dropped \subseteq dropped'
    BY HeadNext, DoneNext, AppliedNext, Zenon
  <2>2. head \in Nat /\ head' \in Nat
    BY <2>1, SourceLog DEF RunTypes
  <2>3. h.snap \in Nat
    BY DEF PointTypes
  <2> QED
    BY <2>1, <2>2, <2>3, Zenon
<1>2. Early(log, head) \subseteq Early(log, head')
  BY <1>1, EarlyGrows
<1>3. ASSUME pc' \in {"dump", "snapshot", "data"}
      PROVE  gset' \in {Nil, {}}
  <2>1. CASE Quiet
    BY <1>3, <2>1, Zenon DEF Quiet, Dumping
  <2>2. CASE Launch
    <3>1. pc' \in {"start", "dump"}
      BY <2>2 DEF Launch
    <3> QED
      BY <1>3, <2>2, <3>1, LaunchPoint, Zenon
  <2>3. CASE DumpStarts \/ DumpSnapshot \/ DumpData
    BY <2>3 DEF DumpStarts, DumpSnapshot, DumpData, masterVars, Dumping
  <2> QED
    BY <1>3, <2>1, <2>2, <2>3, ToDump
<1>4. ASSUME pc' = "snapshot"
      PROVE  PosIn(h'.pos, log, Early(log, head')) /\ SetIn(h'.gset, log, Early(log, head'))
  <2>1. CASE Quiet
    BY <1>2, <1>4, <2>1, PosInGrows, SetInGrows, Zenon DEF Quiet, Dumping
  <2>2. CASE DumpStarts
    <3>1. head \in 0..Len(log) /\ (head = 0 \/ CommitPoint(head))
      BY DEF RunTypes, Committed
    <3>2. /\ h'.pos \in {NoPos, EndOf(head)} /\ h'.gset \in {Nil, Executed(head)}
      BY <2>2 DEF DumpStarts, PointTypes
    <3>3. PosIn(NoPos, log, Early(log, head)) /\ PosIn(EndOf(head), log, Early(log, head))
      BY <3>1, NoPosIn, PosAfterEnd, Zenon
    <3>4. SetIn(Nil, log, Early(log, head)) /\ SetIn(Executed(head), log, Early(log, head))
      BY <3>1, ExecutedEarly DEF SetIn
    <3> QED
      BY <1>2, <3>2, <3>3, <3>4, PosInGrows, SetInGrows, Zenon
  <2> QED
    BY <1>4, <2>1, <2>2, ToDump
<1>5. ASSUME pc' = "data"
      PROVE  /\ h'.snap <= head'
             /\ PosIn(h'.pos, log, Early(log, h'.snap)) /\ SetIn(h'.gset, log, Early(log, h'.snap))
             /\ \A i \in Rows : i <= h'.snap => i \in h'.todo \cup applied' \cup dropped'
  <2>1. CASE Quiet
    <3>1. pc = "data" /\ h' = h
      BY <1>5, <2>1, Zenon DEF Quiet
    <3>2. /\ h.snap <= head
          /\ PosIn(h.pos, log, Early(log, h.snap)) /\ SetIn(h.gset, log, Early(log, h.snap))
          /\ \A i \in Rows : i <= h.snap => i \in h.todo \cup applied \cup dropped
      BY <3>1, Zenon DEF Dumping
    <3>3. h.snap <= head'
      BY <1>1, <3>2
    <3> QED
      BY <1>1, <3>1, <3>2, <3>3, Zenon
  <2>2. CASE DumpSnapshot
    <3>1. head \in 0..Len(log) /\ (head = 0 \/ CommitPoint(head)) /\ pc = "snapshot"
      BY <2>2 DEF RunTypes, Committed, DumpSnapshot
    <3>2. /\ h'.snap = head /\ h'.todo = {i \in Rows : i <= head}
          /\ h'.pos \in {h.pos, EndOf(head)} /\ h'.gset \in {h.gset, (h.gset \ Nil) \cup Executed(head)}
      BY <2>2, Zenon DEF DumpSnapshot, PointTypes
    <3>3. PosIn(h.pos, log, Early(log, head)) /\ PosIn(EndOf(head), log, Early(log, head))
      BY <3>1, PosAfterEnd, Zenon DEF Dumping
    <3>4. SetIn(h.gset, log, Early(log, head))
      BY <3>1 DEF Dumping
    <3>5. SetIn((h.gset \ Nil) \cup Executed(head), log, Early(log, head))
      <4>1. CASE h.gset \in {Nil, {}}
        <5>1. (h.gset \ Nil) \cup Executed(head) = Executed(head)
          BY <4>1, Zenon
        <5> QED
          BY <3>1, <5>1, ExecutedEarly, Zenon
      <4>2. CASE h.gset \notin {Nil, {}}
        <5>1. /\ HasTxns(log)
              /\ \A i \in DOMAIN log : log[i].txn \in h.gset \cup {NoTxn} => i \in Early(log, head)
          BY <3>4, <4>2, Zenon DEF SetIn
        <5>2. \A i \in DOMAIN log : log[i].txn \in Executed(head) => i \in Early(log, head)
          BY <3>1, ExecutedEarly
        <5> QED
          BY <5>1, <5>2, Zenon DEF SetIn
      <4> QED
        BY <4>1, <4>2, Zenon
    <3> QED
      BY <1>1, <3>2, <3>3, <3>4, <3>5, Zenon
  <2>3. CASE DumpData
    <3> DEFINE i == Min(h.todo)
    <3>1. pc = "data" /\ (OnRow(i) \/ DropRow(i)) /\ h' = [h EXCEPT !.todo = @ \ {i}]
      BY <2>3, Zenon DEF DumpData
    <3> HIDE DEF i
    <3>2. /\ h'.snap = h.snap /\ h'.pos = h.pos /\ h'.gset = h.gset /\ h'.todo = h.todo \ {i}
          /\ i \in applied' \cup dropped'
      BY <3>1 DEF PointTypes, OnRow, DropRow
    <3>3. /\ h.snap <= head
          /\ PosIn(h.pos, log, Early(log, h.snap)) /\ SetIn(h.gset, log, Early(log, h.snap))
          /\ \A r \in Rows : r <= h.snap => r \in h.todo \cup applied \cup dropped
      BY <3>1 DEF Dumping
    <3>4. h.snap <= head'
      BY <1>1, <3>3
    <3> QED
      BY <1>1, <3>2, <3>3, <3>4, Zenon
  <2> QED
    BY <1>5, <2>1, <2>2, <2>3, ToDump, Zenon
<1>6. ASSUME pc' = "start"
      PROVE  SetIn(gset', log, Done')
  <2>1. CASE Quiet
    BY <1>1, <1>6, <2>1, SetInGrows DEF Quiet, Dumping
  <2>2. CASE Launch
    BY <1>1, <2>2, LaunchPoint, SetInGrows, Zenon
  <2>3. CASE DumpDone
    <3>1. pc = "data" /\ h.todo = {} /\ gset' = h.gset
      BY <2>3, Zenon DEF DumpDone
    <3>2. Early(log, h.snap) \subseteq Done'
      BY <1>1, <3>1, SnapDone, Zenon
    <3> QED
      BY <3>1, <3>2, SetInGrows DEF Dumping
  <2> QED
    BY <1>6, <2>1, <2>2, <2>3, ToDump, Zenon
<1> QED
  BY <1>1, <1>3, <1>4, <1>5, <1>6, Zenon DEF Dumping

-----------------------------------------------------------------------------
=============================================================================
