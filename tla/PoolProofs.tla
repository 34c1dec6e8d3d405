----------------------------- MODULE PoolProofs -----------------------------
(***************************************************************************)
(* The other steps of Pool preserve the invariant of PoolLemmas; the       *)
(* theorems about Pool follow.                                             *)
(***************************************************************************)
EXTENDS PoolLemmas

\* Every step of newConnectionProducer keeps the invariant.
LEMMA ProducerInv ==
    ASSUME IInv, ProducerStep
    PROVE  IInv'
<1> USE ProcsDistinct
<1> SUFFICES TypeOK' /\ Shape' /\ Core'
  BY DEF IInv, Core
<1>1. ASSUME NEW c \in idle, TakeIdle(producer, c, "offer"), pc[producer] = "loop"
      PROVE  TypeOK' /\ Shape' /\ Core'
  <2>1. has[producer] = {}
    BY <1>1 DEF IInv, Shape
  <2>2. Core'
    BY <1>1, <2>1, TakeCore, Zenon DEF TakeIdle, Busy
  <2>3. TypeOK' /\ Shape'
    <3>1. Fits(producer, "offer", {c}, loose[producer])
      BY <1>1, FitsNow DEF TakeIdle, IInv, Fits, ProducerPC, Starters
    <3> QED
      BY <1>1, <3>1, TakeShape, ZenonT(30) DEF TakeIdle
  <2> QED BY <2>2, <2>3
<1>2. ASSUME pc[producer] = "loop", TotalCount < maxAlive, TotalCount' = TotalCount + 1,
             Goto(producer, "create"),
             UNCHANGED <<has, loose, idle, open, recvq, left, closing>>
      PROVE  TypeOK' /\ Shape' /\ Core'
  <2>1. \A h \in Procs : pc'[h] = IF h = producer THEN "create" ELSE pc[h]
    BY <1>2 DEF Goto, IInv, TypeOK
  <2>2. TypeOK' /\ Shape'
    <3>1. Fits(producer, "create", has[producer], loose[producer])
      BY <1>2, FitsNow, Zenon DEF IInv, Fits, ProducerPC, Starters
    <3>2. Goto(producer, "create") /\ Rest'
      BY <1>2 DEF IInv, TypeOK, Rest
    <3>3. has' = [has EXCEPT ![producer] = has[producer]] /\ loose' = [loose EXCEPT ![producer] = loose[producer]]
      BY <1>2, Same DEF IInv
    <3>4. has[producer] \in SUBSET Conns /\ loose[producer] \in SUBSET Conns
      BY Same
    <3> QED
      BY <3>1, <3>2, <3>3, <3>4, Updated, ZenonT(30)
  <2>3. WaitQueue'
    BY <1>2, <2>1, QueueKept DEF IInv
  <2>4. Structure' /\ Counted' = Counted
    BY <1>2 DEF IInv, Structure, OneOwner, OpenAreOwned, Counted
  <2>5. TotalCountExact'
    <3>1. Reserved' = 1 /\ Reserved = 0
      BY <1>2, <2>1 DEF Reserved
    <3> QED
      BY <1>2, <2>4, <3>1, CountedFinite, SMTT(30) DEF IInv, TypeOK, TotalCountExact
  <2>6. PendingBound'
    <3>1. Pending(starter)' = Pending(starter) /\ Pending(recycler)' = Pending(recycler)
      BY <1>2, <2>1 DEF Pending
    <3>2. Pending(starter) <= minAlive /\ Pending(recycler) <= minAlive
      BY PendingNat DEF IInv, PendingBound
    <3>3. \A g \in Starters : Pending(g)' <= minAlive
      BY <3>1, <3>2 DEF Starters
    <3>4. TotalCount' + Pending(starter)' + Pending(recycler)' <= maxAlive + 2 * minAlive
      BY <1>2, <3>1, <3>2, PendingNat, LimitsNat DEF IInv, TypeOK
    <3> QED
      BY <3>3, <3>4 DEF PendingBound
  <2>7. IdleInv'
    BY <1>2 DEF IInv, IdleInv, idleCap
  <2> QED BY <2>2, <2>3, <2>4, <2>5, <2>6, <2>7 DEF Core
<1>3. CASE ProducerConnects
  <2> PICK c \in Conns \ open : /\ open' = open \cup {c}
                                /\ has' = [has EXCEPT ![producer] = {c}]
    BY <1>3, Zenon DEF ProducerConnects
  <2>1. \A h \in Procs : pc'[h] = IF h = producer THEN "offer" ELSE pc[h]
    BY <1>3 DEF ProducerConnects, Goto, IInv, TypeOK
  <2>2. TypeOK' /\ Shape'
    <3>1. Fits(producer, "offer", {c}, loose[producer])
      BY <1>3, FitsNow DEF ProducerConnects, IInv, Fits, ProducerPC, Starters
    <3>2. Goto(producer, "offer") /\ Rest'
      BY <1>3 DEF ProducerConnects, IInv, TypeOK, Rest
    <3>3. has' = [has EXCEPT ![producer] = {c}] /\ loose' = [loose EXCEPT ![producer] = loose[producer]]
      BY <1>3, Same DEF ProducerConnects, IInv
    <3>4. {c} \in SUBSET Conns /\ loose[producer] \in SUBSET Conns
      BY Same
    <3> QED
      BY <3>1, <3>2, <3>3, <3>4, Updated, Zenon
  <2>3. WaitQueue'
    BY <1>3, <2>1, QueueKept DEF ProducerConnects, IInv
  <2>4. Structure' /\ Counted' = Counted \cup {c} /\ c \notin Counted
    <3>1. has[producer] = {} /\ UNCHANGED <<idle, loose>>
      BY <1>3 DEF ProducerConnects, IInv, Shape
    <3>2. \A h \in Procs : has'[h] = IF h = producer THEN {c} ELSE has[h]
      BY DEF IInv, TypeOK
    <3>3. c \notin Counted /\ \A h \in Procs : c \notin loose[h]
      BY DEF IInv, Structure, OpenAreOwned
    <3>4. c \notin idle /\ \A h \in Procs : c \notin has[h]
      BY <3>3, CountedIff
    <3>5. Counted' = Counted \cup {c}
      BY <3>1, <3>2 DEF Counted
    <3>6. OneOwner'
      BY <3>1, <3>2, <3>3, <3>4 DEF IInv, Structure, OneOwner
    <3>7. OpenAreOwned'
      BY <3>1, <3>5, SMTT(30) DEF IInv, Structure, OpenAreOwned
    <3> QED
      BY <3>3, <3>5, <3>6, <3>7, SMTT(30) DEF Structure
  <2>5. TotalCountExact'
    <3>1. Reserved' = 0 /\ Reserved = 1
      BY <1>3, <2>1 DEF ProducerConnects, Reserved
    <3>2. Cardinality(Counted \cup {c}) = Cardinality(Counted) + 1
      BY <2>4, CountedFinite, FS_AddElement, Zenon DEF IInv
    <3> QED
      BY <1>3, <2>4, <3>1, <3>2, CountedFinite, SMTT(90) DEF ProducerConnects, IInv, TypeOK, TotalCountExact
  <2>6. PendingBound'
    <3>1. Pending(starter)' = Pending(starter) /\ Pending(recycler)' = Pending(recycler)
      BY <1>3, <2>1 DEF ProducerConnects, Pending
    <3> QED
      BY <1>3, <3>1, PendingKept DEF ProducerConnects, IInv, TypeOK
  <2>7. IdleInv'
    BY <1>3 DEF ProducerConnects, IInv, IdleInv, idleCap
  <2> QED BY <2>2, <2>3, <2>4, <2>5, <2>6, <2>7 DEF Core
<1>4. CASE ProducerConnectFails
  <2>1. \A h \in Procs : pc'[h] = IF h = producer THEN "backoff" ELSE pc[h]
    BY <1>4 DEF ProducerConnectFails, Goto, IInv, TypeOK
  <2>2. TypeOK' /\ Shape'
    <3>1. Fits(producer, "backoff", has[producer], loose[producer])
      BY <1>4, FitsNow DEF ProducerConnectFails, IInv, Fits, ProducerPC, Starters
    <3>2. Goto(producer, "backoff") /\ Rest'
      BY <1>4 DEF ProducerConnectFails, IInv, TypeOK, Rest
    <3>3. has' = [has EXCEPT ![producer] = has[producer]] /\ loose' = [loose EXCEPT ![producer] = loose[producer]]
      BY <1>4, Same DEF ProducerConnectFails, IInv
    <3>4. has[producer] \in SUBSET Conns /\ loose[producer] \in SUBSET Conns
      BY Same, SMTT(30)
    <3> QED
      BY <3>1, <3>2, <3>3, <3>4, Updated, ZenonT(30)
  <2>3. WaitQueue'
    BY <1>4, <2>1, QueueKept, SMTT(90) DEF ProducerConnectFails, IInv
  <2>4. Structure' /\ Counted' = Counted
    BY <1>4 DEF ProducerConnectFails, IInv, Structure, OneOwner, OpenAreOwned, Counted
  <2>5. TotalCountExact'
    <3>1. Reserved' = 0 /\ Reserved = 1
      BY <1>4, <2>1 DEF ProducerConnectFails, Reserved
    <3> QED
      BY <1>4, <2>4, <3>1, CountedFinite, SMTT(30) DEF ProducerConnectFails, IInv, TypeOK, TotalCountExact
  <2>6. PendingBound'
    <3>1. Pending(starter)' = Pending(starter) /\ Pending(recycler)' = Pending(recycler)
      BY <1>4, <2>1 DEF ProducerConnectFails, Pending
    <3> QED
      BY <1>4, <3>1, PendingKept DEF ProducerConnectFails, IInv, TypeOK
  <2>7. IdleInv'
    BY <1>4 DEF ProducerConnectFails, IInv, IdleInv, idleCap
  <2> QED BY <2>2, <2>3, <2>4, <2>5, <2>6, <2>7, SMTT(30) DEF Core
<1>5. ASSUME NEW l \in {"loop", "exit"}, Move(producer, "backoff", l)
      PROVE  TypeOK' /\ Shape' /\ Core'
  <2>1. Core'
    BY <1>5, MoveCore DEF Move, Busy
  <2>2. TypeOK' /\ Shape'
    <3>1. Fits(producer, l, has[producer], loose[producer])
      BY <1>5, FitsNow, SMTT(90) DEF Move, IInv, Fits, ProducerPC, Starters
    <3> QED
      BY <1>5, <3>1, MoveShape, SMTT(30) DEF Move
  <2> QED BY <2>1, <2>2
<1>6. CASE ProducerHandsOver
  BY <1>6, HandOverInv DEF ProducerHandsOver
<1>7. CASE ProducerCtxDone
  <2> PICK c \in has[producer] : Uncount(producer, c, "close")
    BY <1>7 DEF ProducerCtxDone
  <2>0. pc[producer] = "offer"
    BY <1>7 DEF ProducerCtxDone
  <2>1. loose[producer] = {} /\ has[producer] = {c} /\ c \in Conns
    BY <2>0, SMTT(90) DEF IInv, TypeOK, Shape
  <2>2. Core'
    BY <2>0, <2>1, UncountCore DEF Busy
  <2>3. TypeOK' /\ Shape'
    <3>1. has[producer] \ {c} = {}
      BY <2>0, <2>1, SMTT(30)
    <3>2. Fits(producer, "close", has[producer] \ {c}, {c})
      BY <2>0, <2>1, <3>1, FitsNow DEF IInv, Fits, ProducerPC, Starters
    <3> QED
      BY <2>0, <2>1, <3>2, UncountShape
  <2> QED BY <2>2, <2>3
<1>8. CASE ProducerCloses
  <2>1. Core'
    BY <1>8, CloseSocketCore DEF ProducerCloses, Busy
  <2>2. TypeOK' /\ Shape'
    <3>1. Fits(producer, "exit", has[producer], {})
      BY <1>8, FitsNow DEF ProducerCloses, IInv, Fits, ProducerPC, Starters
    <3> QED
      BY <1>8, <3>1, CloseSocketShape, SMTT(90) DEF ProducerCloses
  <2> QED BY <2>1, <2>2
<1> QED
  BY <1>1, <1>2, <1>3, <1>4, <1>5, <1>6, <1>7, <1>8, SMTT(30)
     DEF ProducerStep, ProducerTakes, ProducerBackoff, ProducerBackoffExit

\* Every step of a goroutine that starts connections keeps the invariant.
LEMMA StarterInv ==
    ASSUME IInv, NEW g \in Starters, StarterStep(g)
    PROVE  IInv'
<1> USE ProcsDistinct
<1> g \in Procs
  OBVIOUS
<1> SUFFICES TypeOK' /\ Shape' /\ Core'
  BY DEF IInv, Core
<1>a. TypeOK /\ Shape /\ WaitQueue /\ Structure /\ TotalCountExact /\ PendingBound /\ IdleInv
  BY DEF IInv
<1>b. OneOwner /\ OpenAreOwned
  BY <1>a DEF Structure
<1>c. /\ TotalCount \in Int /\ TotalCount = Cardinality(Counted) + Reserved
      /\ Cardinality(Counted) \in Nat /\ IsFiniteSet(Counted)
  BY <1>a, CountedFinite DEF TypeOK, TotalCountExact
<1>d. /\ Pending(starter) \in Nat /\ Pending(recycler) \in Nat
      /\ Pending(starter) <= minAlive /\ Pending(recycler) <= minAlive
      /\ TotalCount + Pending(starter) + Pending(recycler) <= maxAlive + 2 * minAlive
  BY <1>a, PendingNat DEF PendingBound
<1>0. left[g] \in Nat /\ left \in [Starters -> Nat]
  BY <1>a DEF TypeOK
<1>1. CASE StartOne(g)
  <2>1. /\ pc[g] = "create" /\ left[g] > 0 /\ left' = [left EXCEPT ![g] = @ - 1]
        /\ UNCHANGED <<has, idle, TotalCount, recvq, closing>>
    BY <1>1 DEF StartOne
  <2>2. \A h \in Starters : left'[h] = IF h = g THEN left[h] - 1 ELSE left[h]
    BY <1>0, <2>1
  <2>3. left' \in [Starters -> Nat]
    BY <1>0, <2>1
  <2>4. IdleInv' /\ Counted' = Counted
    BY <2>1 DEF IInv, IdleInv, idleCap, Counted
  <2>5. ASSUME UNCHANGED <<pc, open, loose>>
        PROVE  TypeOK' /\ Shape' /\ Core'
    <3>0. TypeOK' /\ Shape'
      <4>1. TypeOK'
        BY <2>1, <2>3, <2>5 DEF IInv, TypeOK
      <4>2. Shape'
        BY <1>a, <2>1, <2>5, Zenon DEF Shape
      <4> QED BY <4>1, <4>2
    <3>1. WaitQueue' /\ Structure' /\ TotalCountExact'
      <4>1. WaitQueue' /\ Structure'
        <5>1. WaitQueue'
          BY <1>a, <2>1, <2>5 DEF WaitQueue
        <5>2. OneOwner'
          BY <1>b, <2>1, <2>5 DEF OneOwner
        <5>3. OpenAreOwned'
          BY <1>b, <2>4, <2>5 DEF OpenAreOwned
        <5> QED BY <5>1, <5>2, <5>3 DEF Structure
      <4>2. TotalCountExact'
        BY <2>1, <2>4, <2>5 DEF IInv, TotalCountExact, Reserved
      <4> QED BY <4>1, <4>2
    <3>2. /\ Pending(starter)' <= Pending(starter) /\ Pending(recycler)' <= Pending(recycler)
          /\ Pending(starter)' \in Nat /\ Pending(recycler)' \in Nat
      BY <2>2, <2>3, <2>5, <1>0 DEF Pending, Starters
    <3>3. PendingBound'
      BY <1>a, <2>1, <3>2, PendingLess
    <3> QED BY <2>4, <3>0, <3>1, <3>3 DEF Core
  <2>6. ASSUME NEW c \in Conns \ open, open' = open \cup {c},
               loose' = [loose EXCEPT ![g] = {c}], Goto(g, "count")
        PROVE  TypeOK' /\ Shape' /\ Core'
    <3>1. \A h \in Procs : pc'[h] = IF h = g THEN "count" ELSE pc[h]
      BY <2>6 DEF Goto, IInv, TypeOK
    <3>2. \A h \in Procs : loose'[h] = IF h = g THEN {c} ELSE loose[h]
      BY <2>6 DEF IInv, TypeOK
    <3>3. TypeOK' /\ Shape'
      <4>1. Fits(g, "count", has[g], {c})
        BY <2>1, <2>6 DEF Fits, StarterPC, RecyclerPC, Starters
      <4>2. has' = [has EXCEPT ![g] = has[g]] /\ has[g] \in SUBSET Conns /\ {c} \in SUBSET Conns
        BY <2>1, Same
      <4>3. Rest'
        BY <1>a, <2>1, <2>3, <2>6 DEF TypeOK, Rest
      <4> QED
        BY <2>6, <4>1, <4>2, <4>3, Updated, Zenon
    <3>4. loose[g] = {}
      BY <1>a, <2>1 DEF Shape, Starters
    <3>6. WaitQueue'
      <4>1. \A q \in Clients : pc'[q] = pc[q]
        BY <3>1 DEF Starters
      <4> QED BY <1>a, <2>1, <4>1, QueueKept
    <3>7. Structure'
      <4>1. c \notin Counted /\ \A h \in Procs : c \notin loose[h]
        BY <1>b DEF OpenAreOwned
      <4>2. c \notin idle /\ \A h \in Procs : c \notin has[h]
        BY <4>1, CountedIff
      <4>3. OneOwner'
        BY <1>b, <2>1, <3>2, <4>1, <4>2 DEF OneOwner
      <4>4. UNION {loose'[h] : h \in Procs} = {c} \cup UNION {loose[h] : h \in Procs}
        BY <3>2, <3>4
      <4>5. OpenAreOwned'
        BY <1>b, <2>4, <2>6, <4>4 DEF OpenAreOwned
      <4> QED BY <4>3, <4>5 DEF Structure
    <3>8. TotalCountExact'
      <4>1. Reserved' = Reserved
        BY <2>1, <3>1 DEF Reserved, Starters
      <4> QED BY <1>c, <2>1, <2>4, <4>1 DEF TotalCountExact
    <3>9. /\ Pending(starter)' <= Pending(starter) /\ Pending(recycler)' <= Pending(recycler)
          /\ Pending(starter)' \in Nat /\ Pending(recycler)' \in Nat
      BY <2>1, <2>2, <2>3, <3>1, <1>0 DEF Pending, Starters
    <3>10. PendingBound'
      BY <1>a, <2>1, <3>9, PendingLess
    <3> QED BY <2>4, <3>3, <3>6, <3>7, <3>8, <3>10 DEF Core
  <2> QED
    BY <1>1, <2>5, <2>6 DEF StartOne
<1>2. CASE StartCounts(g)
  <2>1. /\ pc[g] = "count" /\ TotalCount' = TotalCount + 1
        /\ UNCHANGED <<idle, open, recvq, left, closing>>
    BY <1>2 DEF StartCounts
  <2> PICK c \in Conns : loose[g] = {c}
    BY <1>a, <2>1 DEF Shape
  <2>2. \A h \in Procs : /\ pc'[h] = IF h = g THEN "create" ELSE pc[h]
                         /\ has'[h] = IF h = g THEN has[g] \cup {c} ELSE has[h]
                         /\ loose'[h] = IF h = g THEN {} ELSE loose[h]
    BY <1>2 DEF StartCounts, Goto, IInv, TypeOK
  <2>3. TypeOK' /\ Shape'
    <3>1. Fits(g, "create", has[g] \cup loose[g], {})
      BY DEF Fits, StarterPC, RecyclerPC, Starters
    <3>2. has[g] \cup loose[g] \in SUBSET Conns /\ {} \in SUBSET Conns
      BY Same
    <3>3. Rest'
      BY <2>1 DEF IInv, TypeOK, Rest
    <3>4. /\ Goto(g, "create")
          /\ has' = [has EXCEPT ![g] = has[g] \cup loose[g]]
          /\ loose' = [loose EXCEPT ![g] = {}]
      BY <1>2 DEF StartCounts
    <3> QED
      BY <3>1, <3>2, <3>3, <3>4, Updated, Zenon
  <2>5. WaitQueue'
    <3>1. \A q \in Clients : pc'[q] = pc[q]
      BY <2>2 DEF Starters
    <3> QED BY <1>a, <2>1, <3>1, QueueKept
  <2>6. /\ c \notin idle /\ c \notin has[g]
        /\ \A h \in Procs : h # g => c \notin has[h] /\ c \notin loose[h]
    BY <1>b DEF OneOwner
  <2>7. c \notin Counted /\ Counted' = Counted \cup {c}
    <3>1. c \notin Counted
      BY <2>6, CountedIff
    <3>2. Counted' = Counted \cup {c}
      BY <2>1, <2>2 DEF Counted
    <3> QED BY <3>1, <3>2
  <2>8. Structure'
    <3>1. OneOwner'
      BY <1>b, <2>1, <2>2, <2>6 DEF OneOwner
    <3>2. {c} \cup UNION {loose'[h] : h \in Procs} = UNION {loose[h] : h \in Procs}
      BY <2>2
    <3>3. OpenAreOwned'
      <4>1. open' = Counted \cup UNION {loose[h] : h \in Procs}
        BY <1>b, <2>1 DEF OpenAreOwned
      <4>2. open' = Counted' \cup UNION {loose'[h] : h \in Procs}
        BY <2>7, <3>2, <4>1
      <4> QED BY <4>2, Zenon DEF OpenAreOwned
    <3> QED BY <3>1, <3>3 DEF Structure
  <2>9. TotalCountExact'
    <3>1. Cardinality(Counted \cup {c}) = Cardinality(Counted) + 1
      BY <1>c, <2>7, FS_AddElement, Zenon
    <3>2. Reserved' = Reserved /\ Reserved \in Nat
      BY <2>2 DEF Reserved, Starters
    <3>3. Cardinality(Counted') = Cardinality(Counted) + 1
      BY <2>7, <3>1, Zenon
    <3>4. TotalCount' = Cardinality(Counted') + Reserved'
      BY <1>c, <2>1, <3>2, <3>3
    <3> QED
      BY <3>4 DEF TotalCountExact
  <2>10. PendingBound'
    <3>1. /\ g = starter => /\ Pending(starter)' = Pending(starter) - 1
                            /\ Pending(recycler)' = Pending(recycler)
          /\ g = recycler => /\ Pending(recycler)' = Pending(recycler) - 1
                             /\ Pending(starter)' = Pending(starter)
      BY <2>1, <2>2, <1>0 DEF Pending, Starters
    <3>2. Pending(starter)' <= minAlive /\ Pending(recycler)' <= minAlive
      BY <1>d, <3>1, LimitsNat DEF Starters
    <3>3. TotalCount' + Pending(starter)' + Pending(recycler)' <= maxAlive + 2 * minAlive
      BY <1>c, <1>d, <2>1, <3>1, LimitsNat DEF Starters
    <3> QED BY <3>2, <3>3 DEF PendingBound, Starters
  <2>11. IdleInv'
    BY <2>1 DEF IInv, IdleInv, idleCap
  <2> QED BY <2>3, <2>5, <2>8, <2>9, <2>10, <2>11 DEF Core
<1>3. CASE StartPutsAll(g)
  <2> DEFINE l == IF g = starter THEN "exit" ELSE "tick"
  <2>1. pc[g] = "create" /\ left[g] = 0 /\ PutUnsafe(g, has[g], l)
    BY <1>3 DEF StartPutsAll
  <2>2. Core'
    BY <2>1, PutUnsafeCore DEF Busy
  <2>3. TypeOK' /\ Shape'
    <3>1. has[g] \ has[g] = {} /\ loose[g] = {}
      BY <1>a, <2>1 DEF Shape, Starters
    <3>2. Fits(g, l, has[g] \ has[g], loose[g])
      <4>1. Fits(g, l, {}, {})
        BY DEF Fits, StarterPC, RecyclerPC, Starters
      <4> QED BY <3>1, <4>1, Zenon
    <3> HIDE DEF l
    <3> QED
      BY <2>1, <3>2, PutUnsafeShape, Zenon
  <2> QED BY <2>2, <2>3
<1> QED
  BY <1>1, <1>2, <1>3 DEF StarterStep

\* Every step of a worker keeps the invariant.
LEMMA WorkerInv ==
    ASSUME IInv, NEW w \in Workers, WorkerStep(w)
    PROVE  IInv'
<1> USE ProcsDistinct
<1> w \in Procs
  OBVIOUS
<1> SUFFICES TypeOK' /\ Shape' /\ Core'
  BY DEF IInv, Core
<1>1. CASE WorkerReceives(w)
  <2>0. PICK c \in has[recycler] : has' = [has EXCEPT ![recycler] = @ \ {c}, ![w] = {c}]
    BY <1>1, Zenon DEF WorkerReceives
  <2>1. /\ pc[w] = "ready" /\ pc[recycler] = "recheck" /\ Goto(w, "ping")
        /\ UNCHANGED <<loose, idle, TotalCount, open, recvq, left, closing>>
    BY <1>1 DEF WorkerReceives
  <2>2. c \in Conns /\ has[w] = {}
    BY <2>0, <2>1 DEF IInv, TypeOK, Shape
  <2>3. /\ has'[w] = {c} /\ has'[recycler] = has[recycler] \ {c}
        /\ \A h \in Procs : h # w /\ h # recycler => has'[h] = has[h]
    BY <2>0 DEF IInv, TypeOK
  <2>4. \A h \in Procs : pc'[h] = IF h = w THEN "ping" ELSE pc[h]
    BY <2>1 DEF Goto, IInv, TypeOK
  <2>5. TypeOK' /\ Shape'
    <3>1. pc' \in [Procs -> Labels] /\ has' \in [Procs -> SUBSET Conns]
      BY <2>0, <2>1, <2>2, Zenon DEF Goto, IInv, TypeOK, Labels, WorkerPC
    <3>2. loose' \in [Procs -> SUBSET Conns] /\ Rest'
      BY <2>1 DEF IInv, TypeOK, Rest
    <3>3. Fits(w, pc'[w], has'[w], loose'[w])
      <4>1. loose'[w] = {} /\ pc'[w] = "ping"
        BY <2>1, <2>4, Zenon DEF IInv, Shape
      <4> QED BY <2>3, <4>1, Zenon DEF Fits, WorkerPC, Starters
    <3>4. Fits(recycler, pc'[recycler], has'[recycler], loose'[recycler])
      <4>1. loose'[recycler] = {} /\ pc'[recycler] = "recheck"
        BY <2>1, <2>4, Zenon DEF IInv, Shape
      <4> QED BY <4>1, Zenon DEF Fits, RecyclerPC, Starters
    <3>5. ASSUME NEW h \in Procs, h # w, h # recycler
          PROVE  Fits(h, pc'[h], has'[h], loose'[h])
      <4>1. pc'[h] = pc[h] /\ has'[h] = has[h] /\ loose'[h] = loose[h]
        BY <2>1, <2>3, <2>4, <3>5
      <4>2. Fits(h, pc[h], has[h], loose[h])
        BY FitsNow DEF IInv
      <4> QED BY <4>1, <4>2
    <3>6. \A h \in Procs : Fits(h, pc'[h], has'[h], loose'[h])
      BY <3>3, <3>4, <3>5
    <3> QED
      BY <3>1, <3>2, <3>6, AllFit, Zenon
  <2>7. Structure' /\ Counted' = Counted
    <3>1. loose' = loose /\ idle' = idle /\ open' = open /\ TypeOK /\ Structure
      BY <2>1 DEF IInv
    <3> QED
      BY <2>2, <2>3, <3>1, HandOverStructure
  <2>8. /\ WaitQueue' /\ Reserved' = Reserved
        /\ Pending(starter)' = Pending(starter) /\ Pending(recycler)' = Pending(recycler)
    BY <2>1, QuietStep, Zenon DEF IInv, Goto, Busy
  <2>9. TotalCountExact' /\ IdleInv'
    BY <2>1, <2>7, <2>8, Zenon DEF IInv, TotalCountExact, IdleInv, idleCap
  <2>10. PendingBound'
    BY <2>1, <2>8, PendingKept DEF IInv, TypeOK
  <2> QED BY <2>5, <2>7, <2>8, <2>9, <2>10 DEF Core
<1>2. CASE WorkerPingOk(w)
  <2> PICK c \in has[w] : Put(w, c, "ready")
    BY <1>2 DEF WorkerPingOk
  <2>0. pc[w] = "ping" /\ has[w] = {c} /\ c \in Conns
    BY <1>2 DEF WorkerPingOk, IInv, TypeOK, Shape
  <2>1. CASE HandOver(w, c, "ready")
    BY <2>0, <2>1, HandOverInv
  <2>2. CASE PutUnsafe(w, {c}, "ready")
    <3>1. Core'
      BY <2>0, <2>2, PutUnsafeCore DEF Busy
    <3>2. TypeOK' /\ Shape'
      <4>1. has[w] \ {c} = {}
        BY <2>0, Zenon
      <4>2. Fits(w, "ready", has[w] \ {c}, loose[w])
        BY <2>0, <2>2, <4>1, FitsNow, Zenon DEF IInv, Fits, WorkerPC, Starters
      <4> QED
        BY <2>0, <2>2, <4>2, PutUnsafeShape, Zenon
    <3> QED BY <3>1, <3>2
  <2> QED
    BY <2>1, <2>2 DEF Put
<1>3. CASE WorkerPingFails(w)
  <2> PICK c \in has[w] : Uncount(w, c, "close")
    BY <1>3 DEF WorkerPingFails
  <2>0. pc[w] = "ping" /\ has[w] = {c} /\ c \in Conns /\ loose[w] = {}
    BY <1>3 DEF WorkerPingFails, IInv, TypeOK, Shape
  <2>1. Core'
    BY <2>0, UncountCore, Zenon DEF Busy
  <2>2. TypeOK' /\ Shape'
    <3>1. has[w] \ {c} = {}
      BY <2>0
    <3>2. Fits(w, "close", has[w] \ {c}, {c})
      BY <2>0, <3>1, FitsNow DEF IInv, Fits, WorkerPC, Starters
    <3> QED
      BY <2>0, <3>2, UncountShape, Zenon
  <2> QED BY <2>1, <2>2
<1>4. CASE WorkerCloses(w)
  <2>1. Core'
    BY <1>4, CloseSocketCore DEF WorkerCloses, Busy
  <2>2. TypeOK' /\ Shape'
    <3>1. Fits(w, "ready", has[w], {})
      BY <1>4, FitsNow DEF WorkerCloses, IInv, Fits, WorkerPC, Starters
    <3> QED
      BY <1>4, <3>1, CloseSocketShape, Zenon DEF WorkerCloses
  <2> QED BY <2>1, <2>2
<1> QED
  BY <1>1, <1>2, <1>3, <1>4 DEF WorkerStep

\* Every step of closeOldIdleConnections keeps the invariant.
LEMMA RecyclerInv ==
    ASSUME IInv, RecyclerCtxDone \/ RecyclerTick \/ RecyclerStep
    PROVE  IInv'
<1> USE ProcsDistinct
<1> SUFFICES TypeOK' /\ Shape' /\ Core'
  BY DEF IInv, Core
<1>1. ASSUME NEW from \in {"tick", "recheck", "spawn", "closeIdle", "closeList"},
             NEW l \in {"exit", "spawn", "closeIdle", "tick"},
             pc[recycler] = from, has[recycler] = {}, Goto(recycler, l),
             UNCHANGED <<has, loose, idle, TotalCount, open, recvq, left, closing>>
      PROVE  TypeOK' /\ Shape' /\ Core'
  <2>1. Core'
    BY <1>1, MoveCore DEF Busy
  <2>2. TypeOK' /\ Shape'
    <3>1. loose[recycler] = {}
      BY <1>1, Zenon DEF IInv, Shape
    <3>2. Fits(recycler, l, has[recycler], loose[recycler])
      BY <1>1, <3>1 DEF Fits, RecyclerPC, Starters
    <3> QED
      BY <1>1, <3>2, MoveShape, Zenon
  <2> QED BY <2>1, <2>2
<1>2. ASSUME NEW S \in SUBSET idle, NEW l \in {"recheck", "closeList"},
             pc[recycler] \in {"tick", "closeIdle"}, Goto(recycler, l),
             idle' = idle \ S, has' = [has EXCEPT ![recycler] = S],
             UNCHANGED <<loose, TotalCount, open, recvq, left, closing>>
      PROVE  TypeOK' /\ Shape' /\ Core'
  <2>1. has[recycler] = {}
    BY <1>2 DEF IInv, Shape
  <2>2. Core'
    BY <1>2, <2>1, TakeCore, Zenon DEF Busy
  <2>3. TypeOK' /\ Shape'
    <3>1. loose[recycler] = {}
      BY <1>2, Zenon DEF IInv, Shape
    <3>2. Fits(recycler, l, S, loose[recycler])
      BY <1>2, <3>1, Zenon DEF Fits, RecyclerPC, Starters
    <3> QED
      BY <1>2, <3>2, TakeShape, ZenonT(30)
  <2> QED BY <2>2, <2>3, Zenon
<1>3. CASE RecyclerCtxDone
  BY <1>1, <1>3, Zenon DEF RecyclerCtxDone, Move, IInv, Shape
<1>4. CASE RecyclerTick
  BY <1>2, <1>4, Zenon DEF RecyclerTick
<1>5. CASE RecheckDone
  BY <1>1, <1>5, Zenon DEF RecheckDone, Move
<1>6. CASE spawnConnectionsIfNeeded
  <2>1. CASE minAlive - TotalCount <= 0
    <3>1. Move(recycler, "spawn", "closeIdle")
      BY <1>6, <2>1, Zenon DEF spawnConnectionsIfNeeded, Move
    <3>2. pc[recycler] = "spawn" /\ has[recycler] = {}
      BY <3>1 DEF Move, IInv, Shape
    <3> QED BY <1>1, <3>1, <3>2 DEF Move
  <2>2. CASE ~(minAlive - TotalCount <= 0)
    <3> DEFINE n == Least(minAlive - TotalCount, MaxNewConnectionAtOnce)
    <3>1. /\ pc[recycler] = "spawn" /\ left' = [left EXCEPT ![recycler] = n]
          /\ Goto(recycler, "create")
          /\ UNCHANGED <<has, loose, idle, TotalCount, open, recvq, closing>>
      BY <1>6, <2>2 DEF spawnConnectionsIfNeeded
    <3>2. n \in Nat /\ TotalCount + n <= minAlive
      BY <2>2, LimitsNat, PoolAssumption DEF Least, IInv, TypeOK
    <3> HIDE DEF n
    <3>3. \A h \in Procs : pc'[h] = IF h = recycler THEN "create" ELSE pc[h]
      BY <3>1 DEF Goto, IInv, TypeOK
    <3>4. TypeOK' /\ Shape'
      <4>1. loose[recycler] = {} /\ has[recycler] = {}
        BY <3>1, Zenon DEF IInv, Shape
      <4>2. Fits(recycler, "create", has[recycler], loose[recycler])
        BY <4>1 DEF Fits, RecyclerPC, Starters
      <4>3. Rest'
        BY <3>1, <3>2, ZenonT(30) DEF IInv, TypeOK, Rest
      <4>4. has' = [has EXCEPT ![recycler] = has[recycler]]
            /\ loose' = [loose EXCEPT ![recycler] = loose[recycler]]
        BY <3>1, Same, Zenon
      <4> QED
        BY <3>1, <4>2, <4>3, <4>4, Same, Updated, ZenonT(30)
    <3>6. WaitQueue'
      BY <3>1, <3>3, QueueKept DEF IInv
    <3>7. Structure' /\ Counted' = Counted /\ IdleInv'
      BY <3>1, Zenon DEF IInv, Structure, OneOwner, OpenAreOwned, Counted, IdleInv, idleCap
    <3>8. TotalCountExact'
      BY <3>1, <3>3, <3>7 DEF IInv, TotalCountExact, Reserved
    <3>9. PendingBound'
      <4>1. Pending(starter)' = Pending(starter) /\ Pending(recycler)' = n
        BY <3>1, <3>2, <3>3 DEF Pending, Starters, IInv, TypeOK
      <4>2. Pending(starter) <= minAlive
        BY PendingNat DEF IInv, PendingBound
      <4>3. TotalCount \in Nat
        BY CountedFinite DEF IInv, TypeOK, TotalCountExact, Reserved
      <4>4. \A h \in Starters : Pending(h)' <= minAlive
        BY <3>2, <4>1, <4>2, <4>3, LimitsNat DEF Starters
      <4>5. TotalCount' + Pending(starter)' + Pending(recycler)' <= maxAlive + 2 * minAlive
        BY <3>1, <3>2, <4>1, <4>2, <4>3, PendingNat, LimitsNat DEF IInv
      <4> QED BY <4>4, <4>5 DEF PendingBound
    <3> QED BY <3>4, <3>6, <3>7, <3>8, <3>9 DEF Core
  <2> QED BY <2>1, <2>2, SMTT(30)
<1>7. CASE closeIdleConnectionsIfCan
  <2>1. CASE canCloseCnt <= 0
    <3>1. Move(recycler, "closeIdle", "tick")
      BY <1>7, <2>1, SMTT(30) DEF closeIdleConnectionsIfCan, Move
    <3>2. pc[recycler] = "closeIdle" /\ has[recycler] = {}
      BY <3>1 DEF Move, IInv, Shape
    <3> QED BY <1>1, <3>1, <3>2 DEF Move
  <2>2. CASE ~(canCloseCnt <= 0)
    <3>1. PICK S \in SUBSET idle : idle' = idle \ S /\ has' = [has EXCEPT ![recycler] = S]
      BY <1>7, <2>2, Zenon DEF closeIdleConnectionsIfCan
    <3> QED
      BY <1>2, <1>7, <2>2, <3>1, Zenon DEF closeIdleConnectionsIfCan
  <2> QED BY <2>1, <2>2, SMTT(30)
<1>8. CASE RecyclerCloseNext
  <2>1. CASE has[recycler] = {} /\ Move(recycler, "closeList", "tick")
    BY <1>1, <2>1 DEF Move
  <2>2. ASSUME NEW c \in has[recycler], Uncount(recycler, c, "close")
        PROVE  TypeOK' /\ Shape' /\ Core'
    <3>1. pc[recycler] = "closeList" /\ loose[recycler] = {} /\ c \in Conns
      BY <1>8 DEF RecyclerCloseNext, IInv, TypeOK, Shape
    <3>2. Core'
      BY <2>2, <3>1, UncountCore DEF Busy
    <3>3. TypeOK' /\ Shape'
      <4>2. Fits(recycler, "close", has[recycler] \ {c}, {c})
        BY <2>2, <3>1, FitsNow DEF IInv, Fits, RecyclerPC, Starters
      <4> QED
        BY <2>2, <3>1, <4>2, UncountShape, Zenon
    <3> QED BY <3>2, <3>3
  <2> QED
    BY <1>8, <2>1, <2>2 DEF RecyclerCloseNext
<1>9. CASE RecyclerCloses
  <2>1. Core'
    BY <1>9, CloseSocketCore, Zenon DEF RecyclerCloses, Busy
  <2>2. TypeOK' /\ Shape'
    <3>1. Fits(recycler, "closeList", has[recycler], {})
      BY <1>9, FitsNow DEF RecyclerCloses, IInv, Fits, RecyclerPC, Starters
    <3> QED
      BY <1>9, <3>1, CloseSocketShape, Zenon DEF RecyclerCloses
  <2> QED BY <2>1, <2>2
<1> QED
  BY <1>3, <1>4, <1>5, <1>6, <1>7, <1>8, <1>9 DEF RecyclerStep

\* Every step of Close keeps the invariant.
LEMMA CloseInv ==
    ASSUME IInv, CloseCancels \/ CloseFinishes
    PROVE  IInv'
<1> SUFFICES TypeOK' /\ Shape' /\ Core'
  BY DEF IInv, Core
<1>1. CASE CloseCancels
  <2>1. /\ UNCHANGED <<pc, has, loose, idle, TotalCount, open, recvq, left>>
        /\ closing = "no" /\ closing' = "waiting"
    BY <1>1 DEF CloseCancels
  <2>2. TypeOK'
    BY <2>1 DEF IInv, TypeOK
  <2>3. Shape'
    BY <2>1 DEF IInv, Shape
  <2>4. WaitQueue' /\ Structure'
    BY <2>1 DEF IInv, WaitQueue, Structure, OneOwner, OpenAreOwned, Counted
  <2>5. TotalCountExact'
    BY <2>1 DEF IInv, TotalCountExact, Counted, Reserved
  <2>6. PendingBound' /\ IdleInv'
    BY <2>1 DEF IInv, PendingBound, Pending, IdleInv, idleCap
  <2> QED BY <2>2, <2>3, <2>4, <2>5, <2>6 DEF Core
<1>2. CASE CloseFinishes
  <2>1. /\ UNCHANGED <<pc, has, loose, recvq, left>>
        /\ TotalCount' = TotalCount - Cardinality(idle)
        /\ open' = open \ idle /\ idle' = {} /\ closing' = "done"
    BY <1>2 DEF CloseFinishes
  <2>2. TypeOK'
    BY <2>1, CountedFinite, SMTT(30) DEF IInv, TypeOK
  <2>3. Shape' /\ WaitQueue'
    <3>1. Shape /\ WaitQueue
      BY DEF IInv
    <3>2. Shape'
      BY <2>1, <3>1, Zenon DEF Shape
    <3>3. WaitQueue'
      BY <2>1, <3>1 DEF WaitQueue
    <3> QED BY <3>2, <3>3
  <2>4. \A g \in Procs : has[g] \cap idle = {} /\ loose[g] \cap idle = {}
    <3>1. OneOwner
      BY DEF IInv, Structure
    <3> QED BY <3>1 DEF OneOwner
  <2>5. Counted' = Counted \ idle /\ idle \subseteq Counted
    BY <2>1, <2>4 DEF Counted
  <2>o. OneOwner /\ OpenAreOwned
    BY DEF IInv, Structure
  <2>6. OneOwner'
    BY <2>1, <2>o DEF OneOwner
  <2>7. OpenAreOwned'
    BY <2>1, <2>4, <2>5, <2>o DEF OpenAreOwned
  <2>8. Cardinality(Counted \ idle) = Cardinality(Counted) - Cardinality(idle)
    <3>1. Counted \cap idle = idle
      BY <2>5
    <3>2. Cardinality(Counted \ idle) = Cardinality(Counted) - Cardinality(Counted \cap idle)
      BY CountedFinite, FS_Difference, Zenon DEF IInv
    <3> QED BY <3>1, <3>2, Zenon
  <2>9. TotalCountExact'
    <3>1. Reserved' = Reserved /\ Reserved \in Nat
      BY <2>1 DEF Reserved
    <3> QED
      BY <2>1, <2>5, <2>8, <3>1, CountedFinite DEF IInv, TypeOK, TotalCountExact
  <2>10. PendingBound'
    <3>1. Pending(starter)' = Pending(starter) /\ Pending(recycler)' = Pending(recycler)
      BY <2>1 DEF Pending
    <3>2. TotalCount' \in Int /\ TotalCount' <= TotalCount
      BY <2>1, CountedFinite DEF IInv, TypeOK
    <3> QED
      BY <3>1, <3>2, PendingKept, Zenon DEF IInv
  <2>11. IdleInv'
    BY <2>1, FS_EmptySet DEF IdleInv, idleCap
  <2> QED BY <2>2, <2>3, <2>6, <2>7, <2>9, <2>10, <2>11 DEF Core, Structure
<1> QED
  BY <1>1, <1>2

\* NewPool establishes the invariant.
LEMMA InitInv == Init => IInv
<1> SUFFICES ASSUME Init PROVE IInv
  OBVIOUS
<1> USE ProcsDistinct
<1>1. /\ \A p \in Clients : pc[p] = "out"
      /\ \A w \in Workers : pc[w] = "ready"
      /\ pc[producer] = "loop" /\ pc[recycler] = "tick" /\ pc[starter] \in {"create", "exit"}
  BY DEF Init
<1>2. \A g \in Procs : has[g] = {} /\ loose[g] = {}
  BY DEF Init
<1>3. idle = {} /\ open = {} /\ TotalCount = 0 /\ recvq = <<>> /\ closing = "no"
  BY DEF Init
<1>4. left[starter] = minAlive /\ left[recycler] = 0
  BY DEF Init, Starters
<1>5. TypeOK
  <2>1. left \in [Starters -> Nat]
    BY LimitsNat DEF Init
  <2> DEFINE first(g) == CASE g \in Clients -> "out"
                           [] g \in Workers -> "ready"
                           [] g = producer -> "loop"
                           [] g = recycler -> "tick"
                           [] g = starter -> IF minAlive > 0 THEN "create" ELSE "exit"
  <2>a. pc = [g \in Procs |-> first(g)]
    BY DEF Init
  <2> HIDE DEF first
  <2>2. pc = [g \in Procs |-> pc[g]]
    BY <2>a
  <2>3. \A g \in Procs : pc[g] \in Labels
    BY <1>1 DEF Procs, Labels, ClientPC, WorkerPC, ProducerPC, RecyclerPC, StarterPC
  <2>4. pc \in [Procs -> Labels]
    BY <2>2, <2>3
  <2>5. has \in [Procs -> SUBSET Conns] /\ loose \in [Procs -> SUBSET Conns]
    BY Zenon DEF Init
  <2> QED
    BY <1>1, <1>3, <2>1, <2>4, <2>5
       DEF TypeOK, Labels, ClientPC, WorkerPC, ProducerPC, RecyclerPC, StarterPC
<1>6. Shape
  BY <1>1, <1>2, Zenon DEF Shape, Starters
<1>7. WaitQueue
  BY <1>3 DEF WaitQueue
<1>8. Counted = {} /\ Structure
  BY <1>2, <1>3 DEF Counted, Structure, OneOwner, OpenAreOwned
<1>9. TotalCountExact
  BY <1>1, <1>3, <1>8, FS_EmptySet DEF TotalCountExact, Reserved
<1>10. PendingBound
  <2>1. Pending(starter) = minAlive /\ Pending(recycler) = 0
    BY <1>1, <1>4, LimitsNat DEF Pending
  <2> QED
    BY <1>3, <2>1, LimitsNat DEF PendingBound, Starters
<1>11. IdleInv
  BY <1>3, FS_EmptySet, LimitsNat DEF IdleInv
<1> QED
  BY <1>5, <1>6, <1>7, <1>8, <1>9, <1>10, <1>11 DEF IInv

\* Every step keeps the invariant.
LEMMA NextInv == IInv /\ [Next]_vars => IInv'
<1> SUFFICES ASSUME IInv, [Next]_vars PROVE IInv'
  OBVIOUS
<1>1. CASE UNCHANGED vars
  <2>1. UNCHANGED <<pc, has, loose, idle, TotalCount, open, recvq, left, closing>>
    BY <1>1 DEF vars
  <2>2. TypeOK'
    BY <2>1 DEF IInv, TypeOK
  <2>3. Shape'
    BY <2>1 DEF IInv, Shape
  <2>4. WaitQueue' /\ Structure'
    BY <2>1, SMTT(90) DEF IInv, WaitQueue, Structure, OneOwner, OpenAreOwned, Counted
  <2>5. TotalCountExact'
    BY <2>1 DEF IInv, TotalCountExact, Counted, Reserved
  <2>6. PendingBound' /\ IdleInv'
    BY <2>1 DEF IInv, PendingBound, Pending, IdleInv, idleCap
  <2> QED BY <2>2, <2>3, <2>4, <2>5, <2>6 DEF IInv
<1> QED
  BY <1>1, ClientInv, ProducerInv, StarterInv, WorkerInv, RecyclerInv, CloseInv DEF Next

-----------------------------------------------------------------------------
(***************************************************************************)
(* The results.                                                            *)
(***************************************************************************)
\* The strengthened invariant holds in every reachable state.
THEOREM PoolInvariant == Spec => []IInv
BY InitInv, NextInv, PTL DEF Spec

\* Every variable keeps its type.
THEOREM PoolTypeCorrect == Spec => []TypeOK
BY PoolInvariant, PTL DEF IInv

\* TotalCount is exact: it equals the connections idle or in some goroutine's
\* hands plus the producer's reservation, for any number of callers and workers.
THEOREM PoolTotalCountExact == Spec => []TotalCountExact
BY PoolInvariant, PTL DEF IInv

\* No connection is ever in two places.
THEOREM PoolOneOwner == Spec => []OneOwner
BY PoolInvariant, PTL DEF IInv, Structure

\* No connection leaks, and none that is closed is kept or handed out.
THEOREM PoolOpenAreOwned == Spec => []OpenAreOwned
BY PoolInvariant, PTL DEF IInv, Structure

\* The pool never has more than maxAlive + 2 * minAlive connections.
THEOREM PoolAliveBound == Spec => []AliveBound
<1>1. IInv => AliveBound
  BY PendingNat, LimitsNat DEF IInv, PendingBound, AliveBound, TypeOK
<1> QED
  BY <1>1, PoolInvariant, PTL

\* The idle stack respects maxIdle and is empty once Close has returned.
THEOREM PoolIdleWithinCap == Spec => []IdleWithinCap
<1>1. IInv => IdleWithinCap
  <2> SUFFICES ASSUME IInv PROVE IdleWithinCap
    OBVIOUS
  <2>1. IsFiniteSet(idle) /\ Cardinality(idle) \in Nat
    BY CountedFinite DEF IInv
  <2>2. closing = "done" => Cardinality(idle) = 0
    BY <2>1 DEF IInv, IdleInv, idleCap
  <2> QED
    BY <2>1, <2>2, FS_EmptySet, LimitsNat DEF IInv, IdleInv, idleCap, IdleWithinCap
<1> QED
  BY <1>1, PoolInvariant, PTL
=============================================================================
