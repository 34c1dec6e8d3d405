---------------------------- MODULE CanalProofs ----------------------------
(***************************************************************************)
(* What holds of every Canal, for any log of a source, any number of       *)
(* restarts and any calls of CatchMasterPos and Close.                     *)
(***************************************************************************)
EXTENDS CanalLemmas, WellFoundedInduction

(***************************************************************************)
(* The stream.                                                             *)
(***************************************************************************)
\* The events that startSyncer does not ask for are behind the point it starts
\* from.
LEMMA NotWanted ==
  ASSUME Types, StartSyncer, NEW D, PosIn(pos, log, D), SetIn(gset, log, D),
         \A i \in DOMAIN log : log[i].kind = "rotate" => i \in D
  PROVE  \A i \in DOMAIN log : i \notin wanted' => i \in D
<1> USE DEF Types
<1>1. CASE gset \in {Nil, {}}
  <2>1. wanted' = FromPos(pos)
    BY <1>1, Zenon DEF StartSyncer
  <2> SUFFICES ASSUME NEW i \in DOMAIN log, i \notin FromPos(pos), log[i].kind # "rotate"
               PROVE  i \in D
    BY <2>1, Zenon
  <2>2. ~ (log[i].file > pos.Name) /\ ~ (log[i].file = pos.Name /\ log[i].end > pos.Pos)
    BY Zenon DEF FromPos
  <2>3. Compare(pos, EndOf(i))
    BY <2>2, EndIs, LogFields DEF Compare, PointTypes, Positions
  <2> QED
    BY <2>3, Zenon DEF PosIn, EndOf
<1>2. CASE gset \notin {Nil, {}}
  <2>1. wanted' = FromSet(gset)
    BY <1>2, Zenon DEF StartSyncer
  <2>2. \A i \in DOMAIN log : i \notin wanted' => log[i].txn \in gset \cup {NoTxn}
    BY <2>1, Zenon DEF FromSet
  <2> QED
    BY <1>2, <2>2, Zenon DEF SetIn
<1> QED
  BY <1>1, <1>2

\* The stream opens at a file from which the wanted events can be read.
LEMMA StartFacts ==
  ASSUME Inv, StartSyncer
  PROVE  /\ UNCHANGED <<log, cfg, head, last, pos, gset, tables, h, applied, dropped>> /\ last = 0
         /\ wanted' \subseteq DOMAIN log
         /\ \A i \in DOMAIN log : i \notin wanted' => i \in Done
         /\ pc = "start" /\ pc' \in {"get", "handle"}
         /\ \E at \in Positions :
               /\ NameIn(at.Name, log, wanted', 0)
               /\ at.Name # pos.Name => PosIn(at, log, Done)
               /\ work' = FakeRotate(at)
<1> USE DEF Inv, Types
<1>1. /\ UNCHANGED <<log, cfg, head, last, pos, gset, tables, h, applied, dropped>>
      /\ pc = "start" /\ pc' \in {"get", "handle"}
  BY Zenon DEF StartSyncer, Handle, masterVars, tableVars, appVars
<1>2. last = 0
  BY <1>1 DEF Life
<1>3. wanted' \subseteq DOMAIN log
  BY Zenon DEF StartSyncer, FromPos, FromSet
<1>4. \A i \in DOMAIN log : i \notin wanted' => i \in Done
  <2>1. PosIn(pos, log, Done) /\ SetIn(gset, log, Done)
    BY <1>1, Zenon DEF Stored, Dumping
  <2>2. \A i \in DOMAIN log : log[i].kind = "rotate" => i \in Done
    BY Zenon DEF Done, Settled
  <2> QED
    BY <2>1, <2>2, NotWanted, Zenon
<1>5. \E at \in Positions :
         /\ NameIn(at.Name, log, wanted', 0)
         /\ at.Name # pos.Name => PosIn(at, log, Done)
         /\ work' = FakeRotate(at)
  <2>1. CASE gset \in {Nil, {}}
    <3> DEFINE at == [Name |-> IF pos.Name = 0 THEN log[1].file ELSE pos.Name,
                      Pos |-> IF pos.Pos < FileStart THEN FileStart ELSE pos.Pos]
    <3>1. /\ log[1].file \in Nat \ {0} /\ 1 \in DOMAIN log /\ pos.Name \in Nat /\ pos.Pos \in Nat
          /\ pos.Name = 0 => pos.Pos = 0
      BY SourceLog, LogFields, Zenon DEF PointTypes, Positions, Stored, PosIn
    <3>2. at \in Positions /\ at.Name # 0
      BY <3>1, Zenon DEF Positions, FileStart
    <3>3. wanted' = FromPos(pos) /\ Handle(FakeRotate(at))
      BY <2>1, Zenon DEF StartSyncer
    <3>4. ASSUME NEW j \in wanted'
          PROVE  at.Name <= log[j].file
      <4>1. j \in DOMAIN log /\ 1 <= j /\ log[j].file >= pos.Name
        BY <3>3, LogFields DEF FromPos, PointTypes, Positions
      <4>2. log[1].file <= log[j].file
        BY <3>1, <4>1, FilesGrow
      <4> QED
        BY <4>1, <4>2, Zenon
    <3>5. ASSUME at.Name # pos.Name
          PROVE  PosIn(at, log, Done)
      <4>1. at.Name = log[1].file /\ at.Pos = FileStart
        BY <3>1, <3>5 DEF FileStart
      <4> HIDE DEF at
      <4>2. PosIn(at, log, Early(log, 1 - 1))
        BY <3>1, <3>2, <4>1, PosAtFile DEF FileStart
      <4>3. Early(log, 1 - 1) \subseteq Done
        BY SourceLog DEF Early, Done, Settled
      <4> QED
        BY <4>2, <4>3, PosInGrows, Zenon
    <3> HIDE DEF at
    <3>6. work' = FakeRotate(at)
      BY <3>3, Zenon DEF Handle
    <3> QED
      BY <3>2, <3>4, <3>5, <3>6, Zenon DEF NameIn
  <2>2. CASE gset \notin {Nil, {}}
    <3> DEFINE w == FromSet(gset)
               at == [Name |-> FileOf(w), Pos |-> FileStart]
    <3>1. wanted' = w /\ Handle(FakeRotate(at))
      BY <2>2, Zenon DEF StartSyncer
    <3>2. PICK m \in DOMAIN log : FileOf(w) = log[m].file /\ (\A j \in w : m <= j) /\ (\A j \in DOMAIN log : j < m => j \notin w)
      <4>1. w \in SUBSET Nat /\ w \subseteq DOMAIN log
        BY <1>3, <3>1, SourceLog
      <4> HIDE DEF w
      <4>2. CASE w = {}
        BY <4>2, SourceLog DEF FileOf
      <4>3. CASE w # {}
        <5>1. Min(w) \in w /\ \A j \in w : Min(w) <= j
          BY <4>1, <4>3, MinIn
        <5>2. FileOf(w) = log[Min(w)].file
          BY <4>3, Zenon DEF FileOf
        <5>3. ASSUME NEW j \in w, j < Min(w)
              PROVE  FALSE
          <6>1. j \in Nat /\ Min(w) \in Nat /\ Min(w) <= j
            BY <4>1, <5>1, Zenon
          <6> QED
            BY <5>3, <6>1
        <5> QED
          BY <4>1, <5>1, <5>2, <5>3, Zenon
      <4> QED
        BY <4>2, <4>3
    <3>3. at \in Positions /\ at.Name # 0 /\ at.Name = log[m].file /\ at.Pos <= FileStart
      BY <3>2, LogFields DEF Positions, FileStart
    <3>4. ASSUME NEW j \in wanted'
          PROVE  at.Name <= log[j].file
      BY <1>3, <3>1, <3>2, <3>3, FilesGrow, Zenon
    <3> HIDE DEF at
    <3>5. PosIn(at, log, Done)
      <4>1. PosIn(at, log, Early(log, m - 1))
        BY <3>3, PosAtFile, LogFields
      <4>2. ASSUME NEW j \in DOMAIN log, j <= m - 1
            PROVE  j \in Done
        <5>1. j < m
          BY <4>2, LogFields
        <5> QED
          BY <1>4, <3>1, <3>2, <5>1, Zenon
      <4>3. Early(log, m - 1) \subseteq Done
        BY <4>2, Zenon DEF Early, Done, Settled
      <4> QED
        BY <4>1, <4>3, PosInGrows, Zenon
    <3>6. work' = FakeRotate(at)
      BY <3>1, Zenon DEF Handle
    <3> QED
      BY <3>3, <3>4, <3>5, <3>6, Zenon DEF NameIn
  <2> QED
    BY <2>1, <2>2, Zenon
<1> QED
  BY <1>1, <1>2, <1>3, <1>4, <1>5, Zenon

\* What an item will save stays settled.
LEMMA ItemInGrows ==
  ASSUME NEW it, NEW l, NEW D, NEW E, NEW w, NEW k, NEW b, ItemIn(it, l, D, w, k, b), D \subseteq E
  PROVE  ItemIn(it, l, E, w, k, b)
<1>1. it.kind \in Saving => PosIn(it.at, l, E)
  BY PosInGrows, Zenon DEF ItemIn
<1>2. it.kind \in Saving \ {"rotate"} /\ b => SetIn(it.gset, l, E)
  BY SetInGrows, Zenon DEF ItemIn
<1> QED
  BY <1>1, <1>2, Zenon DEF ItemIn

\* A fake rotate event, when the k-th event was the last one that arrived.
LEMMA RotateIn ==
  ASSUME NEW it, NEW l, NEW D, NEW w, NEW k, NEW b,
         it.kind = "rotate", PosIn(it.at, l, D), NameIn(it.at.Name, l, w, k)
  PROVE  ItemIn(it, l, D, w, k, b)
BY DEF ItemIn, Saving

\* When an event arrives, all events before it are settled, and so is it unless
\* it has rows.
LEMMA GetDone ==
  ASSUME Inv, GetEvent
  PROVE  /\ \A r \in DOMAIN log : r \notin wanted \/ r < last' => r \in Done
         /\ Early(log, last' - 1) \subseteq Done
         /\ log[last'].kind \notin {"rows", "payload"} => last' \in Done /\ Early(log, last') \subseteq Done
<1> USE DEF Inv, Types
<1>1. /\ last' \in wanted /\ last' \in DOMAIN log /\ last' > last /\ last' <= head
      /\ \A j \in wanted : j > last => last' <= j
      /\ work = <<>> /\ pc = "get"
  BY GetFacts
<1>2. ASSUME NEW r \in DOMAIN log, r \notin wanted \/ r < last'
      PROVE  r \in Done
  <2>1. \A i \in DOMAIN log : i \notin wanted \/ i < last => i \in Done
    BY <1>1 DEF InStream, Streaming
  <2>2. last # 0 => last \in Done
    BY <1>1 DEF InStream, Streaming, Pending
  <2>3. r \in wanted => r < last \/ r = last
    BY <1>1, <1>2, LogFields DEF RunTypes
  <2> QED
    BY <2>1, <2>2, <2>3, LogFields
<1>3. Early(log, last' - 1) \subseteq Done
  <2>1. \A r \in DOMAIN log : r <= last' - 1 => r < last'
    BY <1>1, LogFields
  <2> QED
    BY <1>2, <2>1, Zenon DEF Early, Done, Settled
<1>4. ASSUME log[last'].kind \notin {"rows", "payload"}
      PROVE  last' \in Done
  BY <1>1, <1>4 DEF Done, Settled, Rows
<1>5. ASSUME last' \in Done
      PROVE  Early(log, last') \subseteq Done
  <2>1. \A r \in DOMAIN log : r <= last' => r < last' \/ r = last'
    BY <1>1, LogFields
  <2> QED
    BY <1>2, <1>5, <2>1, Zenon DEF Early, Done, Settled
<1> QED
  BY <1>2, <1>3, <1>4, <1>5

\* The set after a commit has no transaction that comes later; the one after a
\* BEGIN has at least been committed.
LEMMA GetSet ==
  ASSUME Inv, GetEvent, cfg.gtid, log[last'].kind \in {"xid", "begin", "ddl"}
  PROVE  SetIn(curr', log, Done)
<1> USE DEF Inv, Types
<1> DEFINE i == last'
<1>1. /\ i \in wanted /\ i \in DOMAIN log /\ i > last /\ i <= head /\ i \in Nat \ {0} /\ pc = "get"
      /\ curr' = IF curr = Nil \/ log[i].txn = NoTxn THEN curr ELSE curr \cup {log[i].txn}
  BY GetFacts, LogFields
<1>2. \A r \in DOMAIN log : r \notin wanted \/ r < i => r \in Done
  BY GetDone
<1>3. i \in Done
  BY GetDone
<1> HIDE DEF i
<1>4. CASE curr = Nil
  BY <1>1, <1>4, Zenon DEF SetIn
<1>5. CASE curr # Nil
  <2>1. /\ HasTxns(log)
        /\ \A r \in wanted : log[r].txn # NoTxn /\ log[r].txn \in curr =>
              \E j \in wanted : j <= last /\ log[j].txn = log[r].txn
    BY <1>1, <1>5 DEF SetStream, Streaming
  <2> SUFFICES ASSUME NEW r \in DOMAIN log, log[r].txn \in curr' \cup {NoTxn}, log[r].kind # "rotate", r \in wanted
               PROVE  r \in Done
    BY <1>2, <2>1, Zenon DEF SetIn, Done, Settled
  <2>2. log[r].txn # NoTxn
    BY <2>1, HasTxn
  <2>3. PICK j \in wanted : j <= i /\ log[j].txn = log[r].txn
    <3>1. CASE log[r].txn \in curr
      <4>1. PICK j \in wanted : j <= last /\ log[j].txn = log[r].txn
        BY <2>1, <2>2, <3>1
      <4>2. j <= i
        BY <1>1, <4>1, LogFields DEF RunTypes
      <4> QED
        BY <4>1, <4>2
    <3>2. CASE log[r].txn \notin curr
      <4>1. log[r].txn = log[i].txn /\ i <= i
        BY <1>1, <2>2, <3>2
      <4> QED
        BY <1>1, <4>1
    <3> QED
      BY <3>1, <3>2
  <2>4. j \in DOMAIN log /\ j \in Nat /\ r \in Nat /\ head \in Nat
    BY LogFields, SourceLog DEF RunTypes
  <2>5. CASE log[i].kind = "begin"
    <3>1. head \in DOMAIN log /\ CommitPoint(head) /\ j <= head
      <4>1. head \in 0..Len(log) /\ DOMAIN log = 1..Len(log) /\ Len(log) \in Nat
        BY SourceLog DEF RunTypes
      <4>2. head # 0 /\ head \in DOMAIN log /\ j <= head
        BY <1>1, <2>3, <2>4, <4>1
      <4> QED
        BY <4>2, Zenon DEF Committed
    <3>2. r <= head
      BY <2>1, <2>3, <2>4, <3>1, TxnOver
    <3>3. ~Resumable(cfg)
      BY <1>1, <2>5 DEF Resumable, RunTypes
    <3> QED
      BY <3>2, <3>3 DEF Done, Settled
  <2>6. CASE log[i].kind \in {"xid", "ddl"}
    <3>1. CommitPoint(i)
      BY <2>6 DEF CommitPoint, CommitKinds
    <3>2. ~ (i < r)
      BY <1>1, <2>1, <2>3, <2>4, <3>1, TxnOver
    <3>3. r < i \/ r = i
      BY <1>1, <2>4, <3>2
    <3> QED
      BY <1>2, <1>3, <3>3
  <2> QED
    BY <2>5, <2>6 DEF i
<1> QED
  BY <1>4, <1>5

\* The items of an event that arrives.
LEMMA GetItems ==
  ASSUME Inv, GetEvent
  PROVE  /\ \A n \in 1..Len(work') : ItemIn(work'[n], log, Done, wanted, last', cfg.gtid)
         /\ log[last'].kind \in {"rows", "payload"} => \E n \in 1..Len(work') : work'[n].kind = "rows"
<1> USE DEF Inv, Types
<1> DEFINE i == last'
           g == curr'
<1>1. /\ i \in wanted /\ i \in DOMAIN log /\ i > last /\ pc = "get" /\ work = <<>>
      /\ g \in SUBSET Nat /\ work' = Items(i, g)
  BY GetFacts
<1>2. /\ Early(log, i - 1) \subseteq Done
      /\ log[i].kind \notin {"rows", "payload"} => Early(log, i) \subseteq Done
  BY GetDone
<1>3. cfg.gtid /\ log[i].kind \in {"xid", "begin", "ddl"} => SetIn(g, log, Done)
  BY GetSet
<1>4. NameIn(pos.Name, log, wanted, last)
  BY <1>1 DEF InStream, Streaming, Pending
<1>5. pos.Name # 0 /\ pos.Name <= log[i].file
  BY <1>1, <1>4 DEF NameIn
<1>6. NameIn(pos.Name, log, wanted, i)
  <2>1. \A j \in wanted : j > i => j > last
    BY <1>1, LogFields DEF RunTypes
  <2> QED
    BY <1>4, <2>1, Zenon DEF NameIn
<1> HIDE DEF i, g
<1>7. CASE log[i].kind = "payload"
  <2>1. PICK at \in Positions :
           /\ at.Name = pos.Name /\ at.Pos = 0
           /\ Items(i, g) = <<Item("begin", i, at, Nil), Item("rows", i, at, Nil), Item("xid", i, at, Nil)>>
    BY <1>1, <1>7, ItemsTyped, Zenon
  <2>2. PosIn(at, log, Done)
    <3>1. PosIn(at, log, Early(log, i - 1))
      BY <1>1, <1>5, <2>1, PosAtFile DEF FileStart
    <3> QED
      BY <1>2, <3>1, PosInGrows
  <2>3. SetIn(Nil, log, Done)
    BY DEF SetIn
  <2>4. ASSUME NEW kind \in {"begin", "rows", "xid"}
        PROVE  ItemIn(Item(kind, i, at, Nil), log, Done, wanted, i, cfg.gtid)
    BY <1>1, <1>6, <2>1, <2>2, <2>3, Zenon DEF ItemIn, Item, Saving
  <2>5. /\ Len(work') = 3 /\ work'[1] = Item("begin", i, at, Nil) /\ work'[2] = Item("rows", i, at, Nil)
        /\ work'[3] = Item("xid", i, at, Nil)
    BY <1>1, <2>1
  <2>6. \A n \in 1..Len(work') : ItemIn(work'[n], log, Done, wanted, i, cfg.gtid)
    BY <2>4, <2>5
  <2>7. work'[2].kind = "rows" /\ 2 \in 1..Len(work')
    BY <2>5 DEF Item
  <2> QED
    BY <2>6, <2>7, Zenon DEF i
<1>8. CASE log[i].kind # "payload"
  <2>1. PICK at \in Positions :
           /\ log[i].kind = "rotate" => at = EndOf(i)
           /\ log[i].kind # "rotate" => at.Name = pos.Name /\ at.Pos = log[i].end
           /\ Items(i, g) = <<Item(log[i].kind, i, at, g)>>
    BY <1>1, <1>8, ItemsTyped, Zenon
  <2> DEFINE it == Item(log[i].kind, i, at, g)
  <2>2. it.kind = log[i].kind /\ it.index = i /\ it.at = at /\ it.gset = g
    BY DEF Item
  <2>3. Len(work') = 1 /\ work'[1] = it
    BY <1>1, <2>1
  <2> HIDE DEF it
  <2>4. it.kind \in Saving => PosIn(it.at, log, Done) /\ NameIn(it.at.Name, log, wanted, i)
    <3>1. CASE log[i].kind = "rotate"
      <4>1. PosIn(at, log, Early(log, i)) /\ \A j \in DOMAIN log : j > i => at.Name <= log[j].file
        BY <1>1, <2>1, <3>1, PosAfterRotate, Zenon
      <4>2. at.Name # 0
        <5>1. i \in 0..Len(log)
          BY <1>1, LogFields
        <5> QED
          BY <2>1, <3>1, <5>1, EndTypes, Zenon
      <4>3. NameIn(at.Name, log, wanted, i)
        BY <4>1, <4>2 DEF NameIn, RunTypes
      <4> QED
        BY <1>2, <2>2, <3>1, <4>1, <4>3, PosInGrows, Zenon
    <3>2. CASE log[i].kind \in Saving \ {"rotate"}
      <4>1. at.Name = pos.Name /\ at.Pos = log[i].end
        BY <2>1, <3>2, Zenon
      <4>2. PosIn(at, log, Early(log, i))
        BY <1>1, <1>5, <4>1, PosUpTo, LogFields
      <4>3. Early(log, i) \subseteq Done
        BY <1>2, <3>2 DEF Saving
      <4> QED
        BY <1>6, <2>2, <4>1, <4>2, <4>3, PosInGrows, Zenon
    <3> QED
      BY <2>2, <3>1, <3>2, Zenon
  <2>5. it.kind \in Saving \ {"rotate"} /\ cfg.gtid => SetIn(it.gset, log, Done)
    BY <1>3, <2>2, Zenon DEF Saving
  <2>6. ItemIn(it, log, Done, wanted, i, cfg.gtid)
    BY <1>1, <2>2, <2>4, <2>5, Zenon DEF ItemIn
  <2>7. \A n \in 1..Len(work') : ItemIn(work'[n], log, Done, wanted, i, cfg.gtid)
    BY <2>3, <2>6
  <2>8. log[i].kind = "rows" => work'[1].kind = "rows" /\ 1 \in 1..Len(work')
    BY <2>2, <2>3
  <2> QED
    BY <1>8, <2>7, <2>8 DEF i
<1> QED
  BY <1>7, <1>8

\* The next item: what it leaves pending was pending before.
LEMMA NextInStream ==
  ASSUME Inv, [Next]_vars, NextItem, pc \in {"handle", "synced"}, UNCHANGED <<log, cfg, wanted, last, pos>>,
         Head(work).kind = "rows" => last \in Done',
         Head(work).kind = "rotate" => pc = "synced"
  PROVE  InStream'
<1> USE DEF Inv, Types
<1>1. Done \subseteq Done'
  BY DoneNext
<1>2. work # <<>>
  BY DEF Life
<1>3. /\ Len(work) \in Nat \ {0} /\ Len(work') = Len(work) - 1 /\ Head(work) = work[1] /\ pc' \in {"get", "handle"}
      /\ \A n \in 1..Len(work') : n + 1 \in 1..Len(work) /\ work'[n] = work[n + 1]
  BY <1>2, NextItemFacts
<1>4. /\ \A i \in DOMAIN log : i \notin wanted \/ i < last => i \in Done
      /\ last # 0 => last \in wanted /\ (last \in Done \/ Pending("rows"))
      /\ \A n \in 1..Len(work) : ItemIn(work[n], log, Done, wanted, last, cfg.gtid)
      /\ pc = "synced" \/ ~Pending("rotate") => NameIn(pos.Name, log, wanted, last)
  BY DEF InStream, Streaming
<1>5. ASSUME NEW kind, Pending(kind), Head(work).kind # kind
      PROVE  Pending(kind)'
  <2>1. PICK n \in 1..Len(work) : work[n].kind = kind
    BY <1>5 DEF Pending
  <2>2. n - 1 \in 1..Len(work') /\ (n - 1) + 1 = n
    BY <1>3, <1>5, <2>1
  <2>3. work'[n - 1].kind = kind
    BY <1>3, <2>1, <2>2
  <2> QED
    BY <2>2, <2>3 DEF Pending
<1>6. last # 0 => last \in wanted /\ (last \in Done' \/ Pending("rows")')
  BY <1>1, <1>4, <1>5
<1>7. \A n \in 1..Len(work') : ItemIn(work'[n], log, Done', wanted, last, cfg.gtid)
  BY <1>1, <1>3, <1>4, ItemInGrows, Zenon
<1>8. ~Pending("rotate")' => NameIn(pos.Name, log, wanted, last)
  BY <1>4, <1>5
<1> QED
  BY <1>1, <1>3, <1>4, <1>6, <1>7, <1>8, Zenon DEF InStream

\* The stream leaves nothing behind that is not settled.
LEMMA InStreamNext ==
  ASSUME Inv, [Next]_vars
  PROVE  InStream'
<1> USE DEF Inv, Types
<1> SUFFICES ASSUME Streaming'
             PROVE  InStream'
  BY Zenon DEF InStream
<1>1. log' = log /\ cfg' = cfg /\ Done \subseteq Done'
  BY HeadNext, DoneNext
<1>2. CASE Quiet
  <2>1. UNCHANGED <<log, cfg, wanted, last, pc, work, pos>>
    BY <1>2 DEF Quiet
  <2>2. \A n \in 1..Len(work) : ItemIn(work[n], log, Done', wanted, last, cfg.gtid)
    BY <1>1, <2>1, ItemInGrows DEF InStream, Streaming
  <2> QED
    BY <1>1, <2>1, <2>2, Zenon DEF InStream, Streaming, Pending
<1>3. CASE StartSyncer
  <2>1. /\ last' = 0 /\ pos' = pos /\ pc' \in {"get", "handle"}
        /\ \A i \in DOMAIN log : i \notin wanted' => i \in Done'
    BY <1>1, <1>3, StartFacts
  <2>2. PICK at \in Positions :
           /\ NameIn(at.Name, log, wanted', 0)
           /\ at.Name # pos.Name => PosIn(at, log, Done)
           /\ work' = FakeRotate(at)
    BY <1>3, StartFacts, Zenon
  <2> DEFINE it == Item("rotate", 0, at, Nil)
  <2>3. it.kind = "rotate" /\ it.at = at
    BY DEF Item
  <2>4. \/ at.Name = pos.Name /\ work' = <<>>
        \/ at.Name # pos.Name /\ work' = <<it>>
    BY <2>2, FakeRotateTyped, Zenon
  <2> HIDE DEF it
  <2>5. at.Name # pos.Name => ItemIn(it, log, Done', wanted', 0, cfg.gtid)
    BY <1>1, <2>2, <2>3, RotateIn, PosInGrows, Zenon
  <2>6. \A n \in 1..Len(work') : ItemIn(work'[n], log, Done', wanted', last', cfg.gtid)
    BY <2>1, <2>4, <2>5
  <2>7. ~Pending("rotate")' => NameIn(pos.Name, log, wanted', 0)
    BY <2>2, <2>3, <2>4 DEF Pending
  <2>8. \A i \in DOMAIN log : ~ (i < 0)
    BY LogFields
  <2> QED
    BY <1>1, <2>1, <2>6, <2>7, <2>8, Zenon DEF InStream
<1>4. CASE StreamReconnects
  <2>1. /\ last' \in wanted /\ last' \in DOMAIN log /\ last' <= last /\ work = <<>> /\ pc = "get" /\ pc' = "handle"
        /\ UNCHANGED <<wanted, pos>>
    BY <1>4, ReconnectFacts
  <2>2. PICK it \in WorkItems, rot \in WorkItems :
           /\ it.kind = "gtid"
           /\ rot.kind = "rotate" /\ rot.at = [Name |-> log[last'].file, Pos |-> FileStart]
           /\ \/ pos.Name = log[last'].file /\ work' = <<it>>
              \/ work' = <<rot, it>>
    BY <1>4, ReconnectFacts
  <2>3. /\ \A i \in DOMAIN log : i \notin wanted \/ i < last => i \in Done
        /\ last # 0 => last \in Done
    BY <2>1 DEF InStream, Streaming, Pending
  <2>4. \A i \in DOMAIN log : i \notin wanted \/ i <= last' => i \in Done
    BY <2>1, <2>3, LogFields DEF RunTypes
  <2>5. \A i \in DOMAIN log : i < last' => i <= last'
    BY <2>1, LogFields
  <2>6. NameIn(log[last'].file, log, wanted, last')
    <3>1. \A j \in wanted : j > last' => log[last'].file <= log[j].file
      BY <2>1, FilesGrow, LogFields DEF RunTypes
    <3> QED
      BY <2>1, <3>1, LogFields DEF NameIn
  <2>7. PosIn(rot.at, log, Done)
    <3>1. rot.at \in Positions /\ rot.at.Name = log[last'].file /\ rot.at.Pos = FileStart /\ rot.at.Name # 0
      BY <2>1, <2>2, LogFields DEF Positions, FileStart
    <3>2. PosIn(rot.at, log, Early(log, last' - 1))
      BY <2>1, <3>1, PosAtFile, LogFields DEF FileStart
    <3>3. \A i \in DOMAIN log : i <= last' - 1 => i <= last'
      BY <2>1, LogFields
    <3>4. Early(log, last' - 1) \subseteq Done
      BY <2>4, <3>3, Zenon DEF Early, Done, Settled
    <3> QED
      BY <3>2, <3>4, PosInGrows, Zenon
  <2>8. ItemIn(rot, log, Done', wanted, last', cfg.gtid)
    <3>1. PosIn(rot.at, log, Done')
      BY <1>1, <2>7, PosInGrows, Zenon
    <3>2. rot.kind = "rotate" /\ rot.at.Name = log[last'].file
      BY <2>2
    <3> QED
      BY <2>6, <3>1, <3>2, RotateIn, Zenon
  <2>9. ItemIn(it, log, Done', wanted, last', cfg.gtid)
    BY <2>2, Zenon DEF ItemIn, Saving
  <2>10. \A n \in 1..Len(work') : ItemIn(work'[n], log, Done', wanted, last', cfg.gtid)
    <3>1. \A n \in 1..Len(work') : work'[n] = it \/ work'[n] = rot
      BY <2>2
    <3> QED
      BY <2>8, <2>9, <3>1, Zenon
  <2>11. ~Pending("rotate")' => NameIn(pos.Name, log, wanted, last')
    BY <2>2, <2>6 DEF Pending
  <2>12. last' \in Done'
    BY <1>1, <2>1, <2>4, LogFields
  <2> QED
    BY <1>1, <2>1, <2>4, <2>5, <2>10, <2>11, <2>12, Zenon DEF InStream
<1>5. CASE GetEvent
  <2>1. /\ last' \in wanted /\ last' \in DOMAIN log /\ last' > last /\ work = <<>> /\ pc = "get" /\ pc' = "handle"
        /\ UNCHANGED <<wanted, pos>>
    BY <1>5, GetFacts
  <2>2. /\ \A r \in DOMAIN log : r \notin wanted \/ r < last' => r \in Done
        /\ log[last'].kind \notin {"rows", "payload"} => last' \in Done
    BY <1>5, GetDone
  <2>3. /\ \A n \in 1..Len(work') : ItemIn(work'[n], log, Done', wanted, last', cfg.gtid)
        /\ last' \in Done \/ Pending("rows")'
    BY <1>1, <1>5, <2>2, GetItems, ItemInGrows, Zenon DEF Pending
  <2>4. NameIn(pos.Name, log, wanted, last')
    <3>1. NameIn(pos.Name, log, wanted, last)
      BY <2>1 DEF InStream, Streaming, Pending
    <3>2. \A j \in wanted : j > last' => j > last
      BY <2>1, LogFields DEF RunTypes
    <3> QED
      BY <3>1, <3>2, Zenon DEF NameIn
  <2> QED
    BY <1>1, <2>1, <2>2, <2>3, <2>4, Zenon DEF InStream
<1>6. CASE HandleOther
  <2>1. /\ NextItem /\ pc = "handle" /\ Head(work).kind \in {"gtid", "badquery"}
        /\ UNCHANGED <<log, cfg, wanted, last, pos>>
    BY <1>6 DEF HandleOther, Handling, deliveryVars, masterVars
  <2> QED
    BY <2>1, NextInStream
<1>7. CASE HandleRows
  <2>1. /\ NextItem /\ pc = "handle" /\ Head(work).kind = "rows"
        /\ UNCHANGED <<log, cfg, wanted, last, pos, head>>
    BY <1>7 DEF HandleRows, Handling, deliveryVars, masterVars
  <2>2. last \in DOMAIN log /\ Head(work).index = last
    <3>1. work # <<>> /\ Head(work) = work[1] /\ 1 \in 1..Len(work)
      BY <2>1, HeadItem DEF Life
    <3> QED
      BY <2>1, <3>1 DEF InStream, Streaming, ItemIn
  <2>3. log[last].table \in Excluded \/ OnRow(last) \/ DropRow(last)
    BY <1>7, <2>2, Zenon DEF HandleRows
  <2>4. last \in Rows => last \in applied' \cup dropped'
    BY <2>3, Zenon DEF Rows, OnRow, DropRow
  <2>5. Rows' = Rows
    BY DoneNext
  <2>6. last \in Done'
    BY <1>1, <2>1, <2>2, <2>4, <2>5 DEF Done, Settled, Committed
  <2> QED
    BY <2>1, <2>6, NextInStream
<1>8. CASE PosSynced
  <2>1. NextItem /\ pc = "synced" /\ Head(work).kind \in Saving /\ UNCHANGED <<log, cfg, wanted, last, pos>>
    BY <1>8, Zenon DEF PosSynced, deliveryVars, masterVars, Life
  <2> QED
    BY <2>1, NextInStream DEF Saving
<1>9. CASE HandleCommit \/ HandleRotate \/ HandleDDL
  <2>1. /\ pc = "handle" /\ pc' = "synced" /\ NameIn(pos'.Name, log, wanted, last)
        /\ work' = work /\ UNCHANGED <<wanted, last>>
    BY <1>9, ItemSaves
  <2>2. \A n \in 1..Len(work) : ItemIn(work[n], log, Done', wanted, last, cfg.gtid)
    BY <1>1, <2>1, ItemInGrows, Zenon DEF InStream, Streaming
  <2>3. /\ \A i \in DOMAIN log : i \notin wanted \/ i < last => i \in Done'
        /\ last # 0 => last \in wanted /\ (last \in Done' \/ Pending("rows"))
    BY <1>1, <2>1 DEF InStream, Streaming
  <2> QED
    BY <1>1, <2>1, <2>2, <2>3, Zenon DEF InStream, Pending
<1> QED
  BY <1>2, <1>3, <1>4, <1>5, <1>6, <1>7, <1>8, <1>9, ToStream

\* The transactions of a stream from a GTID set.
LEMMA SetStreamNext ==
  ASSUME Inv, [Next]_vars
  PROVE  SetStream'
<1> USE DEF Inv, Types
<1> SUFFICES ASSUME Streaming'
             PROVE  SetStream'
  BY DEF SetStream
<1>1. log' = log
  BY HeadNext
<1>2. CASE Streaming /\ UNCHANGED <<wanted, resend, last, curr>>
  BY <1>1, <1>2 DEF SetStream
<1>3. CASE Quiet
  BY <1>2, <1>3 DEF Quiet, Streaming
<1>4. CASE HandleOther \/ HandleRows \/ HandleCommit \/ HandleRotate \/ HandleDDL \/ PosSynced
  <2>1. Streaming /\ UNCHANGED <<wanted, resend, last, curr>>
    BY <1>4, Zenon
    DEF HandleOther, HandleRows, HandleCommit, HandleRotate, HandleDDL, PosSynced, Handling, deliveryVars, runVars,
        Streaming
  <2> QED
    BY <1>2, <2>1
<1>5. CASE StartSyncer
  <2>1. CASE gset \in {Nil, {}}
    <3>1. resend' = FALSE /\ curr' = Nil
      BY <1>5, <2>1, Zenon DEF StartSyncer
    <3> QED
      BY <3>1, Zenon DEF SetStream
  <2>2. CASE gset \notin {Nil, {}}
    <3>1. wanted' = FromSet(gset) /\ curr' = gset /\ gset # Nil
      BY <1>5, <2>2, Zenon DEF StartSyncer
    <3>2. HasTxns(log)
      BY <1>5, <2>2, Zenon DEF StartSyncer, Dumping, SetIn
    <3> DEFINE missing == {i \in DOMAIN log : log[i].txn \notin gset \cup {NoTxn}}
    <3>3. \A i \in wanted' : i \in missing \/ (missing # {} /\ i > Min(missing) /\ log[i].txn = NoTxn)
      BY <3>1, Zenon DEF FromSet
    <3>4. missing \subseteq wanted'
      BY <3>1, Zenon DEF FromSet
    <3>5. ASSUME NEW i \in missing
          PROVE  \E g \in wanted' : g <= i /\ log[g].kind = "gtid" /\ log[g].txn = log[i].txn
      <4>1. i \in DOMAIN log /\ log[i].txn # NoTxn /\ log[i].txn \notin gset
        BY <3>5
      <4>2. PICK g \in 1..i : log[g].kind = "gtid" /\ log[g].txn = log[i].txn
        BY <4>1, SourceLog DEF TxnsWhole
      <4>3. g \in DOMAIN log /\ g <= i
        BY <4>1, <4>2, SourceLog
      <4>4. g \in missing
        BY <4>1, <4>2, <4>3
      <4> QED
        BY <3>4, <4>2, <4>3, <4>4
    <3>6. ASSUME NEW i \in wanted'
          PROVE  \E g \in wanted' : g <= i /\ log[g].kind = "gtid"
      <4>1. CASE i \in missing
        BY <3>5, <4>1
      <4>2. CASE missing # {} /\ i > Min(missing)
        <5>1. missing \in SUBSET Nat
          BY SourceLog
        <5>2. Min(missing) \in missing /\ i \in Nat
          <6>1. i \in DOMAIN log
            BY <1>5, StartFacts
          <6> QED
            BY <4>2, <5>1, <6>1, MinIn, LogFields, Zenon
        <5> HIDE DEF missing
        <5>3. PICK g \in wanted' : g <= Min(missing) /\ log[g].kind = "gtid"
          BY <3>5, <5>2
        <5>4. g \in DOMAIN log
          BY <1>5, StartFacts
        <5>5. g \in Nat /\ Min(missing) \in Nat
          BY <5>1, <5>2, <5>4, LogFields, Zenon
        <5> QED
          BY <4>2, <5>2, <5>3, <5>5
      <4> QED
        BY <3>3, <4>1, <4>2
    <3>7. \A i \in wanted' : log[i].txn # NoTxn => i \in missing /\ log[i].txn \notin gset
      BY <3>3, Zenon
    <3> HIDE DEF missing
    <3> QED
      BY <1>1, <3>1, <3>2, <3>5, <3>6, <3>7, Zenon DEF SetStream
  <2> QED
    BY <2>1, <2>2
<1>6. CASE StreamReconnects
  <2>1. /\ last' \in wanted /\ last' \in DOMAIN log /\ last' <= last /\ pc = "get" /\ curr # Nil
        /\ \A g \in wanted : g <= last /\ log[g].kind = "gtid" => g <= last'
        /\ UNCHANGED <<wanted, resend, curr>>
    BY <1>6, ReconnectFacts, Zenon
  <2>2. /\ HasTxns(log)
        /\ \A i \in wanted : \E g \in wanted : g <= i /\ log[g].kind = "gtid"
        /\ \A i \in wanted : log[i].txn # NoTxn =>
              \E g \in wanted : g <= i /\ log[g].kind = "gtid" /\ log[g].txn = log[i].txn
        /\ \A i \in wanted : log[i].txn # NoTxn /\ log[i].txn \in curr =>
              \E j \in wanted : j <= last /\ log[j].txn = log[i].txn
    BY <2>1 DEF SetStream, Streaming
  <2>3. ASSUME NEW i \in wanted, log[i].txn # NoTxn, log[i].txn \in curr
        PROVE  \E j \in wanted : j <= last' /\ log[j].txn = log[i].txn
    <3>1. PICK j \in wanted : j <= last /\ log[j].txn = log[i].txn
      BY <2>2, <2>3
    <3>2. PICK g \in wanted : g <= j /\ log[g].kind = "gtid" /\ log[g].txn = log[j].txn
      BY <2>2, <2>3, <3>1
    <3>3. g \in Nat /\ j \in Nat /\ last \in Nat
      BY SourceLog DEF RunTypes
    <3>4. g <= last
      BY <3>1, <3>2, <3>3
    <3> QED
      BY <2>1, <3>1, <3>2, <3>4
  <2> QED
    BY <1>1, <2>1, <2>2, <2>3, Zenon DEF SetStream
<1>7. CASE GetEvent
  <2>1. /\ last' \in wanted /\ last' \in DOMAIN log /\ last' > last /\ pc = "get"
        /\ curr' = IF curr = Nil \/ log[last'].txn = NoTxn THEN curr ELSE curr \cup {log[last'].txn}
        /\ UNCHANGED <<wanted, resend>>
    BY <1>7, GetFacts, Zenon
  <2>2. CASE curr = Nil
    BY <2>1, <2>2, Zenon DEF SetStream, Streaming
  <2>3. CASE curr # Nil
    <3>1. /\ HasTxns(log)
          /\ \A i \in wanted : \E g \in wanted : g <= i /\ log[g].kind = "gtid"
          /\ \A i \in wanted : log[i].txn # NoTxn =>
                \E g \in wanted : g <= i /\ log[g].kind = "gtid" /\ log[g].txn = log[i].txn
          /\ \A i \in wanted : log[i].txn # NoTxn /\ log[i].txn \in curr =>
                \E j \in wanted : j <= last /\ log[j].txn = log[i].txn
      BY <2>1, <2>3 DEF SetStream, Streaming
    <3>2. curr' # Nil
      BY <2>1, <2>3, Zenon DEF Nil
    <3>3. \A j \in wanted : j <= last => j <= last'
      BY <2>1, LogFields DEF RunTypes
    <3>4. last' <= last'
      BY <2>1, LogFields
    <3>5. ASSUME NEW i \in wanted, log[i].txn # NoTxn, log[i].txn \in curr'
          PROVE  \E j \in wanted : j <= last' /\ log[j].txn = log[i].txn
      BY <2>1, <3>1, <3>3, <3>4, <3>5
    <3> QED
      BY <1>1, <2>1, <3>1, <3>2, <3>5, Zenon DEF SetStream
  <2> QED
    BY <2>2, <2>3
<1> QED
  BY <1>3, <1>4, <1>5, <1>6, <1>7, ToStream, Zenon

(***************************************************************************)
(* The table cache.                                                        *)
(***************************************************************************)
\* A definition read from the source now is as new as any statement committed.
LEMMA GetTableNewer ==
  ASSUME Types, NEW t \in Tables, GetTable(t), NEW S, NEW s \in Tables,
         DDLs(log, s) \cap S \subseteq 1..head,
         tables[s] # NoTable => NotOlder(tables[s], log, s, S)
  PROVE  /\ tables'[s] # NoTable => NotOlder(tables'[s], log, s, S)
         /\ s = t => NotOlder(tables'[s], log, s, S)
<1> USE DEF Types
<1>1. /\ s # t => tables'[s] = tables[s]
      /\ (tables[t] # NoTable /\ tables'[t] = tables[t]) \/ tables'[t] = Version(t, head)
  BY GetTableCaches
<1>2. NotOlder(Version(t, head), log, t, 1..head)
  BY VersionIs DEF RunTypes
<1>3. s = t => NotOlder(Version(t, head), log, s, S)
  BY <1>2, Zenon DEF NotOlder
<1> QED
  BY <1>1, <1>3, Zenon

\* The rows of the dump and of the stream, and the tables they need.
LEMMA DumpRow ==
  ASSUME Inv, DumpData
  PROVE  \E i \in Rows :
            /\ log[i].table \in Tables
            /\ \/ tables' = tables /\ applied' = applied
               \/ GetTable(log[i].table) /\ applied' = applied \cup {i}
            /\ h'.snap = h.snap /\ pc = "data" /\ head' = head
<1> USE DEF Inv, Types
<1> DEFINE i == Min(h.todo)
<1>1. i \in Rows
  BY MinIn DEF DumpData, PointTypes
<1>2. log[i].table \in Tables
  BY <1>1, LogFields DEF Rows
<1>3. /\ \/ DropRow(i) /\ UNCHANGED tableVars
         \/ GetTable(log[i].table) /\ OnRow(i)
         \/ (GetTableNotExist(log[i].table) \/ GetTableMissingMeta(log[i].table)) /\ DropRow(i)
      /\ h' = [h EXCEPT !.todo = @ \ {i}] /\ pc = "data" /\ head' = head
  BY Zenon DEF DumpData
<1> HIDE DEF i
<1>4. h'.snap = h.snap
  BY <1>3 DEF PointTypes
<1>5. \/ tables' = tables /\ applied' = applied
      \/ GetTable(log[i].table) /\ applied' = applied \cup {i}
  BY <1>3, Zenon DEF DropRow, OnRow, tableVars, GetTableNotExist, GetTableMissingMeta
<1> QED
  BY <1>1, <1>2, <1>3, <1>4, <1>5

\* A row of the stream is the last event that arrived.
LEMMA StreamRow ==
  ASSUME Inv, HandleRows
  PROVE  /\ pc = "handle" /\ Head(work).kind = "rows" /\ NextItem /\ last \in DOMAIN log
         /\ log[last].table \in Tables
         /\ \/ tables' = tables /\ applied' = applied
            \/ GetTable(log[last].table) /\ applied' = applied \cup {last}
         /\ UNCHANGED <<log, wanted, last, head>>
<1> USE DEF Inv, Types
<1>1. pc = "handle" /\ Head(work).kind = "rows" /\ NextItem /\ UNCHANGED <<log, wanted, last, head>>
  BY DEF HandleRows, Handling, deliveryVars
<1>2. work # <<>> /\ Head(work) = work[1] /\ 1 \in 1..Len(work)
  BY <1>1, HeadItem, Zenon DEF Life
<1>3. last \in DOMAIN log /\ Head(work).index = last
  BY <1>1, <1>2 DEF InStream, Streaming, ItemIn
<1>4. log[last].table \in Tables
  BY <1>3, LogFields
<1>5. \/ UNCHANGED <<tableVars, applied, dropped>>
      \/ GetTable(log[last].table) /\ OnRow(last)
      \/ (GetTableNotExist(log[last].table) \/ GetTableMissingMeta(log[last].table)) /\ DropRow(last)
  BY <1>3, Zenon DEF HandleRows
<1>6. \/ tables' = tables /\ applied' = applied
      \/ GetTable(log[last].table) /\ applied' = applied \cup {last}
  BY <1>5, Zenon DEF DropRow, OnRow, tableVars, GetTableNotExist, GetTableMissingMeta
<1> QED
  BY <1>1, <1>3, <1>4, <1>6, Zenon

\* The events behind the reader of the stream are committed.
LEMMA PassedCommitted ==
  ASSUME Types, Committed, InStream, Streaming, NEW t
  PROVE  /\ DDLs(log, t) \cap Passed(log, wanted, last) \subseteq 1..head
         /\ \A i \in DOMAIN log : i <= last => DDLs(log, t) \cap (1..i) \subseteq DDLs(log, t) \cap Passed(log, wanted, last)
<1> USE DEF Types
<1>1. \A j \in DOMAIN log : j \in Nat \ {0} /\ (j <= last => j <= head)
  BY LogFields DEF Committed, RunTypes
<1>2. \A j \in DOMAIN log : j \notin wanted /\ log[j].kind = "ddl" => j <= head
  BY DEF InStream, Done, Settled
<1>3. \A j \in DOMAIN log : j <= head => j \in 1..head
  BY <1>1 DEF RunTypes
<1>4. \A i, j \in DOMAIN log : i <= last /\ j \in 1..i => j <= last
  BY <1>1 DEF RunTypes
<1> QED
  BY <1>1, <1>2, <1>3, <1>4, Zenon DEF DDLs, Passed

\* A cached definition stays new enough while only the place in the stream
\* changes.
LEMMA StreamNewer ==
  ASSUME NEW t, NEW v, NEW w, NEW k, NEW P, NotOlder(v, log, t, P),
         DDLs(log, t) \cap Passed(log, w, k) \subseteq DDLs(log, t) \cap P
  PROVE  NotOlder(v, log, t, Passed(log, w, k))
BY Zenon DEF NotOlder

\* The cache is never older than what the reader of the stream has passed.
LEMMA SchemasNext ==
  ASSUME Inv, [Next]_vars
  PROVE  Schemas'
<1> USE DEF Inv, Types
<1>1. log' = log /\ head' \in Nat /\ head \in Nat /\ head <= head' /\ head \in 0..Len(log)
  BY HeadNext, SourceLog DEF RunTypes
<1>2. \A S : Newer(NoTables, log, S)
  BY Zenon DEF Newer, NoTables
<1>3. ASSUME pc' = "data"
      PROVE  Newer(tables', log, 1..h'.snap)
  <2>1. CASE Quiet
    BY <1>3, <2>1 DEF Quiet, Schemas
  <2>2. CASE DumpSnapshot
    <3>1. tables' = NoTables
      BY <2>2, Zenon DEF DumpSnapshot, tableVars, Life
    <3> QED
      BY <1>2, <3>1, Zenon
  <2>3. CASE DumpData
    <3>1. PICK i \in Rows :
             /\ log[i].table \in Tables
             /\ tables' = tables \/ GetTable(log[i].table)
             /\ h'.snap = h.snap /\ pc = "data"
      BY <2>3, DumpRow, Zenon
    <3>2. Newer(tables, log, 1..h.snap)
      BY <3>1 DEF Schemas
    <3>3. CASE tables' = tables
      BY <3>1, <3>2, <3>3, Zenon
    <3>4. CASE GetTable(log[i].table)
      <4>1. h.snap \in Nat /\ h.snap <= head
        BY <3>1 DEF Dumping, PointTypes
      <4>2. 1..h.snap \subseteq 1..head
        BY <1>1, <4>1
      <4>3. \A s \in Tables : DDLs(log, s) \cap (1..h.snap) \subseteq 1..head
        BY <4>2, Zenon
      <4>4. \A s \in Tables : tables'[s] # NoTable => NotOlder(tables'[s], log, s, 1..h.snap)
        BY <3>1, <3>2, <3>4, <4>3, GetTableNewer, Zenon DEF Newer
      <4> QED
        BY <3>1, <4>4, Zenon DEF Newer
    <3> QED
      BY <3>1, <3>3, <3>4, Zenon
  <2> QED
    BY <1>3, <2>1, <2>2, <2>3, ToDump, Zenon
<1>4. ASSUME pc' = "start"
      PROVE  \E n \in 0..head' : /\ Newer(tables', log, 1..n)
                                 /\ PosIn(pos', log, Early(log, n)) /\ SetIn(gset', log, Early(log, n))
  <2>1. 0..head \subseteq 0..head'
    BY <1>1
  <2>2. CASE Quiet
    BY <1>4, <2>1, <2>2, Zenon DEF Quiet, Schemas
  <2>3. CASE Launch
    <3>1. PosIn(pos', log, Done) /\ SetIn(gset', log, Done) /\ tables' = NoTables
      BY <2>3, LaunchPoint
    <3>2. Done \subseteq Early(log, head)
      BY DoneNext
    <3>3. PosIn(pos', log, Early(log, head)) /\ SetIn(gset', log, Early(log, head)) /\ Newer(tables', log, 1..head)
      BY <1>2, <3>1, <3>2, PosInGrows, SetInGrows, Zenon
    <3>4. head \in 0..head'
      BY <1>1
    <3> QED
      BY <3>3, <3>4
  <2>4. CASE DumpDone
    <3>1. pc = "data" /\ pos' = h.pos /\ gset' = h.gset /\ tables' = tables
      BY <2>4, Zenon DEF DumpDone, tableVars
    <3>2. h.snap \in Nat /\ h.snap <= head
      BY <3>1 DEF Dumping, PointTypes
    <3>3. h.snap \in 0..head'
      BY <1>1, <3>2
    <3> QED
      BY <3>1, <3>3, Zenon DEF Schemas, Dumping
  <2> QED
    BY <1>4, <2>2, <2>3, <2>4, ToDump, Zenon
<1>5. ASSUME Streaming', NEW t \in Tables, tables'[t] # NoTable
      PROVE  \/ NotOlder(tables'[t], log, t, Passed(log, wanted', last'))
             \/ pc' = "handle" /\ Head(work').kind = "ddl" /\ log[last'].table = t
  <2> DEFINE P == Passed(log, wanted, last)
  <2>1. ASSUME Streaming, ~ (pc = "handle" /\ Head(work).kind = "ddl" /\ log[last].table = t)
        PROVE  tables[t] # NoTable => NotOlder(tables[t], log, t, P)
    BY <2>1, Zenon DEF Schemas
  <2> HIDE DEF P
  <2>2. CASE Quiet
    <3>1. UNCHANGED <<pc, work, tables, wanted, last>> /\ Streaming
      BY <1>5, <2>2 DEF Quiet, Streaming
    <3> QED
      BY <1>5, <3>1, Zenon DEF Schemas
  <2>3. CASE StartSyncer
    <3>1. /\ last' = 0 /\ tables' = tables /\ wanted' \subseteq DOMAIN log /\ pc = "start"
      BY <2>3, StartFacts, Zenon
    <3>2. PICK n \in 0..head : /\ Newer(tables, log, 1..n)
                               /\ PosIn(pos, log, Early(log, n)) /\ SetIn(gset, log, Early(log, n))
      BY <3>1, Zenon DEF Schemas
    <3>3. \A j \in DOMAIN log : j \notin wanted' => j \in Early(log, n)
      BY <2>3, <3>2, NotWanted, Zenon DEF Early
    <3>4. \A j \in DOMAIN log : ~ (j <= 0) /\ (j <= n => j \in 1..n)
      <4>1. n \in Nat
        BY <1>1, <3>2
      <4>2. \A j \in DOMAIN log : j \in Nat \ {0}
        BY LogFields
      <4> QED
        BY <4>1, <4>2
    <3>5. \A j \in DDLs(log, t) : j \in DOMAIN log /\ log[j].kind # "rotate"
      BY DEF DDLs
    <3>6. DDLs(log, t) \cap Passed(log, wanted', 0) \subseteq DDLs(log, t) \cap (1..n)
      BY <3>3, <3>4, <3>5, Zenon DEF Passed, Early
    <3>7. tables[t] # NoTable => NotOlder(tables[t], log, t, 1..n)
      BY <3>2 DEF Newer
    <3> QED
      BY <1>5, <3>1, <3>6, <3>7, StreamNewer, Zenon
  <2>4. CASE StreamReconnects
    <3>1. last' \in DOMAIN log /\ last' <= last /\ tables' = tables /\ wanted' = wanted /\ pc = "get"
      BY <2>4, ReconnectFacts, Zenon
    <3>2. \A j \in DOMAIN log : j <= last' => j <= last
      BY <3>1, LogFields DEF RunTypes
    <3>3. DDLs(log, t) \cap Passed(log, wanted, last') \subseteq DDLs(log, t) \cap P
      BY <3>2, Zenon DEF P, Passed
    <3>4. tables[t] # NoTable => NotOlder(tables[t], log, t, P)
      BY <2>1, <3>1, Zenon DEF Streaming
    <3> QED
      BY <1>5, <3>1, <3>3, <3>4, StreamNewer, Zenon
  <2>5. CASE GetEvent
    <3>1. /\ last' \in wanted /\ last' \in DOMAIN log /\ last' > last /\ tables' = tables /\ wanted' = wanted
          /\ \A j \in wanted : j > last => last' <= j
          /\ pc = "get" /\ pc' = "handle" /\ work' = Items(last', curr') /\ curr' \in SUBSET Nat
      BY <2>5, GetFacts, Zenon
    <3>2. tables[t] # NoTable => NotOlder(tables[t], log, t, P)
      BY <2>1, <3>1, Zenon DEF Streaming
    <3>3. CASE last' \in DDLs(log, t)
      <4>1. log[last'].kind = "ddl" /\ log[last'].table = t
        BY <3>3, Zenon DEF DDLs
      <4>2. PICK at \in Positions : work' = <<Item("ddl", last', at, curr')>>
        BY <3>1, <4>1, ItemsTyped
      <4>3. Head(work').kind = "ddl"
        BY <4>2 DEF Item
      <4> QED
        BY <3>1, <4>1, <4>3
    <3>4. CASE last' \notin DDLs(log, t)
      <4>1. \A j \in DOMAIN log : j \in wanted /\ j <= last' => j <= last \/ j = last'
        BY <3>1, LogFields DEF RunTypes
      <4>2. DDLs(log, t) \cap Passed(log, wanted, last') \subseteq DDLs(log, t) \cap P
        BY <3>4, <4>1, Zenon DEF P, Passed
      <4> QED
        BY <1>5, <3>1, <3>2, <4>2, StreamNewer, Zenon
    <3> QED
      BY <3>3, <3>4, Zenon
  <2>6. CASE HandleOther \/ HandleCommit \/ HandleRotate \/ PosSynced
    <3>1. /\ Streaming /\ ~ (pc = "handle" /\ Head(work).kind = "ddl") /\ UNCHANGED <<tables, wanted, last>>
      BY <2>6, Zenon
      DEF HandleOther, HandleCommit, HandleRotate, PosSynced, Handling, deliveryVars, tableVars, Streaming
    <3> QED
      BY <1>5, <2>1, <3>1, Zenon DEF P
  <2>7. CASE HandleRows
    <3>1. /\ pc = "handle" /\ Head(work).kind = "rows" /\ UNCHANGED <<wanted, last>>
          /\ log[last].table \in Tables /\ (tables' = tables \/ GetTable(log[last].table))
      BY <2>7, StreamRow
    <3>2. tables[t] # NoTable => NotOlder(tables[t], log, t, P)
      BY <2>1, <3>1 DEF Streaming
    <3>3. DDLs(log, t) \cap P \subseteq 1..head
      BY <3>1, PassedCommitted, Zenon DEF P, Streaming
    <3>4. GetTable(log[last].table) => NotOlder(tables'[t], log, t, P)
      BY <1>5, <3>1, <3>2, <3>3, GetTableNewer, Zenon
    <3> QED
      BY <1>5, <3>1, <3>2, <3>4 DEF P
  <2>8. CASE HandleDDL
    <3>1. /\ pc = "handle" /\ Head(work).kind = "ddl" /\ UNCHANGED <<wanted, last>>
          /\ tables' = [tables EXCEPT ![log[Head(work).index].table] = NoTable]
      BY <2>8, Zenon DEF HandleDDL, ClearTableCache, Handling, deliveryVars
    <3>2. Head(work).index = last
      <4>1. work # <<>> /\ Head(work) = work[1] /\ 1 \in 1..Len(work)
        BY <3>1, HeadItem, Zenon DEF Life
      <4> QED
        BY <3>1, <4>1, Zenon DEF InStream, Streaming, ItemIn
    <3>3. log[last].table # t /\ tables'[t] = tables[t]
      BY <1>5, <3>1, <3>2 DEF CacheTypes
    <3> QED
      BY <1>5, <2>1, <3>1, <3>3, Zenon DEF P, Streaming
  <2> QED
    BY <1>5, <2>2, <2>3, <2>4, <2>5, <2>6, <2>7, <2>8, ToStream, Zenon
<1> QED
  BY <1>1, <1>3, <1>4, <1>5, Zenon DEF Schemas

-----------------------------------------------------------------------------
(***************************************************************************)
(* CatchMasterPos, and the invariant.                                      *)
(***************************************************************************)
\* WaitUntilPos returns only when masterInfo has passed the position it was given.
LEMMA CaughtNext ==
  ASSUME Inv, [Next]_vars
  PROVE  Caught'
<1> USE DEF Inv, Types
<1>1. log' = log /\ Rows' = Rows /\ Done \subseteq Done'
  BY HeadNext, DoneNext
<1>2. ASSUME wpc' = "ok", NEW i \in Rows, i <= wat'
      PROVE  i \in Done
  <2>1. CASE UNCHANGED <<wpc, wat>>
    BY <1>2, <2>1, Zenon DEF Caught
  <2>2. CASE WaitUntilPos
    <3>1. wat' = wat /\ Compare(pos, EndOf(wat))
      BY <2>2 DEF WaitUntilPos
    <3>2. i \in DOMAIN log /\ log[i].kind # "rotate"
      BY <1>2 DEF Rows
    <3> QED
      BY <1>2, <3>1, <3>2, EndReached, Zenon DEF Stored, PointTypes, CallTypes
  <2> QED
    BY <1>2, <2>1, <2>2, WaitNext
<1> QED
  BY <1>1, <1>2 DEF Caught

\* The fact about numbers that RunTypes carries along.
LEMMA LeastExists == Least
<1> SUFFICES ASSUME NEW S \in SUBSET Nat, S # {}
             PROVE  \E j \in S : \A x \in S : j <= x
  BY DEF Least
<1>1. PICK j \in S : \A y \in S : ~ (<<y, j>> \in OpToRel(<, Nat))
  BY NatLessThanWellFounded, WFMin, Zenon
<1>2. ASSUME NEW y \in S
      PROVE  j <= y
  <2>1. j \in Nat /\ y \in Nat
    OBVIOUS
  <2>2. y < j => <<y, j>> \in OpToRel(<, Nat)
    BY <2>1 DEF OpToRel
  <2>3. ~ (y < j)
    BY <1>1, <2>2, Zenon
  <2> QED
    BY <2>1, <2>3
<1> QED
  BY <1>2

\* The invariant holds before the first start.
LEMMA InvInit ==
  ASSUME Init
  PROVE  Inv
<1> USE DEF Init
<1>1. RunTypes
  <2>1. log \in Seq(LogEvents) /\ 0 \in 0..Len(log)
    BY SetupsAssumption
  <2> QED
    BY <2>1, LeastExists DEF RunTypes
<1>2. PointTypes /\ NoPos \in Positions
  BY <1>1, NoPosIn, NilTypes DEF PointTypes, Points, NoPoint, NoDump
<1>3. CacheTypes
  BY Zenon DEF CacheTypes, NoTables
<1>4. CallTypes
  BY <1>1, BoundsAssumption, SourceLog DEF CallTypes
<1>5. Committed /\ Life
  BY DEF Committed, Life, NoConnAfterClose
<1>6. Stored
  BY <1>1, NoPosIn, NilTypes, Zenon DEF Stored, NoPoint, SetIn
<1>7. Dumping /\ InStream /\ SetStream /\ Schemas /\ Caught
  BY Zenon DEF Dumping, InStream, SetStream, Schemas, Caught, Streaming
<1> QED
  BY <1>1, <1>2, <1>3, <1>4, <1>5, <1>6, <1>7, Zenon DEF Inv, Types

\* Every step preserves the invariant.
LEMMA InvNext ==
  ASSUME Inv, [Next]_vars
  PROVE  Inv'
<1>1. Types'
  BY RunTypesNext, PointTypesNext, CacheTypesNext, CallTypesNext DEF Types
<1>2. Committed' /\ Life' /\ Stored' /\ Dumping'
  BY CommittedNext, LifeNext, StoredNext, DumpingNext
<1>3. InStream' /\ SetStream' /\ Schemas' /\ Caught'
  BY InStreamNext, SetStreamNext, SchemasNext, CaughtNext
<1> QED
  BY <1>1, <1>2, <1>3 DEF Inv

\* The invariant holds in every behaviour.
LEMMA InvAlways == Spec => []Inv
  BY InvInit, InvNext, PTL DEF Spec

\* A definition that is as new as the statements before the k-th event.
LEMMA VersionReached ==
  ASSUME RunTypes, NEW t, NEW k \in 0..Len(log), NEW v \in Nat, NotOlder(v, log, t, 1..k)
  PROVE  v >= Version(t, k)
<1>1. Version(t, k) \in Nat /\ (Version(t, k) = 0 \/ Version(t, k) <= v)
  BY VersionIs, Zenon DEF NotOlder
<1> QED
  BY <1>1

\* A row is handed over with a definition at least as new as it.
LEMMA FreshStep ==
  ASSUME Inv, [Next]_vars, NEW i \in applied' \ applied
  PROVE  tables'[log[i].table] >= Version(log[i].table, IF pc = "data" THEN h.snap ELSE i)
<1> USE DEF Inv, Types
<1>1. ASSUME NEW t \in Tables, GetTable(t)
      PROVE  tables'[t] \in Nat
  BY <1>1, GetTableCaches, Zenon DEF CacheTypes
<1>2. CASE DumpData
  <2>1. PICK k \in Rows :
           /\ log[k].table \in Tables
           /\ \/ tables' = tables /\ applied' = applied
              \/ GetTable(log[k].table) /\ applied' = applied \cup {k}
           /\ pc = "data"
    BY <1>2, DumpRow
  <2>2. k = i /\ GetTable(log[i].table) /\ log[i].table \in Tables
    BY <2>1, Zenon
  <2>3. Newer(tables, log, 1..h.snap) /\ h.snap \in Nat /\ h.snap <= head /\ head \in 0..Len(log)
    BY <2>1, Zenon DEF Schemas, Dumping, PointTypes, RunTypes
  <2>4. Len(log) \in Nat
    BY SourceLog
  <2>5. h.snap \in 0..Len(log) /\ 1..h.snap \subseteq 1..head
    BY <2>3, <2>4
  <2>6. NotOlder(tables'[log[i].table], log, log[i].table, 1..h.snap) /\ tables'[log[i].table] \in Nat
    BY <1>1, <2>2, <2>3, <2>5, GetTableNewer, Zenon DEF Newer
  <2> QED
    BY <2>1, <2>5, <2>6, VersionReached, Zenon
<1>3. CASE HandleRows
  <2>1. /\ pc = "handle" /\ Head(work).kind = "rows" /\ last \in DOMAIN log
        /\ log[last].table \in Tables
        /\ \/ tables' = tables /\ applied' = applied
           \/ GetTable(log[last].table) /\ applied' = applied \cup {last}
    BY <1>3, StreamRow
  <2>2. i = last /\ GetTable(log[i].table)
    BY <2>1
  <2> DEFINE t == log[last].table
             P == Passed(log, wanted, last)
  <2>3. t \in Tables /\ GetTable(t)
    BY <2>1, <2>2
  <2>4. tables[t] # NoTable => NotOlder(tables[t], log, t, P)
    BY <2>1, <2>3, Zenon DEF Schemas, Streaming
  <2>5. DDLs(log, t) \cap P \subseteq 1..head /\ DDLs(log, t) \cap (1..last) \subseteq DDLs(log, t) \cap P
    <3>1. last <= last
      BY DEF RunTypes
    <3> QED
      BY <2>1, <3>1, PassedCommitted, Zenon DEF Streaming
  <2> HIDE DEF t, P
  <2>6. NotOlder(tables'[t], log, t, P) /\ tables'[t] \in Nat
    BY <1>1, <2>3, <2>4, <2>5, GetTableNewer, Zenon
  <2>7. NotOlder(tables'[t], log, t, 1..last)
    BY <2>5, <2>6, Zenon DEF NotOlder
  <2>8. tables'[t] >= Version(t, last)
    BY <2>6, <2>7, VersionReached, Zenon DEF RunTypes
  <2> QED
    BY <2>1, <2>2, <2>8, Zenon DEF t
<1>4. DumpData \/ HandleRows \/ applied' = applied
  BY AppliedNext
<1> QED
  BY <1>2, <1>3, <1>4, Zenon

-----------------------------------------------------------------------------
(***************************************************************************)
(* The theorems.                                                           *)
(***************************************************************************)
\* Whatever run, CatchMasterPos and Close do in each other's way, the Canal
\* stays well typed and Close leaves no connection behind (canal.go: Close,
\* Execute).
THEOREM CanalStaysConsistent == Spec => []CanalConsistent
<1>1. Inv => CanalConsistent
  BY Zenon DEF Inv, Types, RunTypes, PointTypes, CacheTypes, CallTypes, Life, Positions, CanalConsistent, TypeOK
<1> QED
  BY <1>1, InvAlways, PTL

\* A position or a set is stored only when every row before it was handed to
\* OnRow or dropped: a restart loses no row (sync.go, dump.go, master.go).  For
\* an application that restarts from GTID sets this needs a source without BEGIN
\* statements.
THEOREM NoRowIsLost == Spec => [](Resumable(cfg) => NoRowLost)
<1>1. Inv => (Resumable(cfg) => NoRowLost)
  <2> SUFFICES ASSUME Inv, Resumable(cfg), NEW i \in Rows, Skipped(i)
               PROVE  i \in applied \cup dropped
    BY DEF NoRowLost
  <2>1. i \in DOMAIN log /\ log[i].kind # "rotate"
    BY Zenon DEF Rows
  <2>2. CASE cfg.gtid
    <3>1. log[i].txn \in saved.gset /\ saved.gset \notin {Nil, {}}
      BY <2>2, Zenon DEF Skipped
    <3> QED
      BY <2>1, <2>2, <3>1, Zenon DEF Inv, Stored, SetIn, Done, Settled
  <2>3. CASE ~cfg.gtid
    <3>1. Compare(saved.pos, PositionAfter(log, i))
      BY <2>3, Zenon DEF Skipped, EndOf
    <3> QED
      BY <2>1, <3>1, Zenon DEF Inv, Stored, PosIn, Done, Settled
  <2> QED
    BY <2>2, <2>3
<1> QED
  BY <1>1, InvAlways, PTL

\* CatchMasterPos returns only when every row that was committed when it was
\* called has been handed to OnRow or dropped (sync.go: CatchMasterPos,
\* WaitUntilPos).
THEOREM CatchMasterPosCatchesUp == Spec => [](Resumable(cfg) => CaughtUp)
<1>1. Inv => (Resumable(cfg) => CaughtUp)
  BY Zenon DEF Inv, Caught, CaughtUp, Done, Settled, Rows
<1> QED
  BY <1>1, InvAlways, PTL

\* OnRow never gets a row with a definition of its table older than the row:
\* updateTable clears the cache before the rows after the statement are handled,
\* and restarts begin with an empty cache (canal.go: GetTable; sync.go).
THEOREM RowsHaveFreshSchemas == Spec => RowSchemaFresh
<1>1. Inv /\ [Next]_vars =>
        [\A i \in applied' \ applied :
           tables'[log[i].table] >= Version(log[i].table, IF pc = "data" THEN h.snap ELSE i)]_vars
  BY FreshStep, Zenon
<1> QED
  BY <1>1, InvAlways, PTL DEF Spec, RowSchemaFresh
=============================================================================
