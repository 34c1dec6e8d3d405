----------------------------- MODULE PoolLemmas -----------------------------
(***************************************************************************)
(* The inductive invariant of Pool, for every number of callers, workers   *)
(* and connections and every setting of the limits; what the steps that    *)
(* several goroutines share do to it; and that the callers preserve it.    *)
(***************************************************************************)
EXTENDS Pool, FiniteSetTheorems, TLAPS

(***************************************************************************)
(* The strengthening.  Shape says in which control states a goroutine may  *)
(* have a connection in its hands; without it a receive into a variable    *)
(* that still holds a connection could lose that connection.               *)
(***************************************************************************)
Shape ==
    /\ \A p \in Clients : /\ pc[p] \notin {"check", "own"} => has[p] = {}
                          /\ pc[p] \notin {"closeBad", "closeDropped"} => loose[p] = {}
    /\ \A w \in Workers : /\ pc[w] # "ping" => has[w] = {}
                          /\ pc[w] # "close" => loose[w] = {}
    /\ pc[producer] # "offer" => has[producer] = {}
    /\ pc[producer] # "close" => loose[producer] = {}
    /\ pc[recycler] \notin {"recheck", "create", "count", "closeList", "close"} => has[recycler] = {}
    /\ pc[recycler] \notin {"count", "close"} => loose[recycler] = {}
    /\ pc[starter] = "exit" => has[starter] = {}
    /\ pc[starter] # "count" => loose[starter] = {}
    /\ \A g \in Starters : pc[g] = "count" => \E c \in Conns : loose[g] = {c}
    /\ \A g \in Clients \cup Workers \cup {producer} : \A c, d \in has[g] : c = d

\* The callers in the wait queue are exactly where BlockOnReady left them, and
\* nobody waits twice.
WaitQueue ==
    /\ \A i \in 1..Len(recvq) : pc[recvq[i]] = "wait"
    /\ \A i, j \in 1..Len(recvq) : recvq[i] = recvq[j] => i = j

\* Connections a startNewConnections call may still add to TotalCount.
Pending(g) == left[g] + (IF pc[g] = "count" THEN 1 ELSE 0)

PendingBound ==
    /\ \A g \in Starters : Pending(g) <= minAlive
    /\ TotalCount + Pending(starter) + Pending(recycler) <= maxAlive + 2 * minAlive

IdleInv == Cardinality(idle) <= idleCap

Structure == OneOwner /\ OpenAreOwned

IInv == TypeOK /\ Shape /\ WaitQueue /\ Structure /\ TotalCountExact /\ PendingBound /\ IdleInv

-----------------------------------------------------------------------------
\* The goroutines are different ones.
LEMMA ProcsDistinct ==
    /\ producer \in Procs /\ recycler \in Procs /\ starter \in Procs
    /\ Clients \subseteq Procs /\ Workers \subseteq Procs /\ Starters \subseteq Procs
    /\ \A p \in Clients : p \notin Workers /\ p # producer /\ p # recycler /\ p # starter
    /\ \A w \in Workers : w \notin Clients /\ w # producer /\ w # recycler /\ w # starter
    /\ producer # recycler /\ producer # starter /\ recycler # starter
BY PoolAssumption DEF Procs, Starters

\* The limits that NewPool computes are in order.
LEMMA LimitsNat ==
    /\ minAlive \in Nat /\ maxAlive \in Nat /\ maxIdle \in Nat
    /\ minAlive <= maxAlive
    /\ idleCap \in Nat
BY PoolAssumption DEF minAlive, maxAlive, maxIdle, Least, idleCap

\* A counted connection is idle or in somebody's hands.
LEMMA CountedIff ==
    \A c : c \in Counted <=> c \in idle \/ \E g \in Procs : c \in has[g]
BY DEF Counted

\* The same after a step.
LEMMA CountedIffNext ==
    \A c : c \in Counted' <=> c \in idle' \/ \E g \in Procs : c \in has'[g]
BY DEF Counted

\* A loose connection is one that somebody has taken out of the count.
LEMMA LooseIff ==
    \A c : c \in UNION {loose[g] : g \in Procs} <=> \E g \in Procs : c \in loose[g]
OBVIOUS

\* The counted connections can be counted.
LEMMA CountedFinite ==
    ASSUME TypeOK
    PROVE  Counted \in SUBSET Conns /\ IsFiniteSet(Counted) /\ IsFiniteSet(idle)
           /\ Cardinality(Counted) \in Nat /\ Cardinality(idle) \in Nat
<1>1. Counted \in SUBSET Conns
  BY DEF TypeOK, Counted
<1>2. IsFiniteSet(Counted) /\ IsFiniteSet(idle)
  BY <1>1, PoolAssumption, FS_Subset DEF TypeOK
<1> QED
  BY <1>1, <1>2, FS_CardinalityType

-----------------------------------------------------------------------------
(***************************************************************************)
(* What the shared steps do to the ownership structure.                    *)
(***************************************************************************)
LEMMA UncountStructure ==
    ASSUME TypeOK, Structure, NEW g \in Procs, NEW c \in has[g], NEW l,
           loose[g] = {}, Uncount(g, c, l)
    PROVE  Structure' /\ Counted' = Counted \ {c} /\ c \in Counted
<1>1. c \in Counted
  BY CountedIff
<1>2. \A h \in Procs : has'[h] = IF h = g THEN has[g] \ {c} ELSE has[h]
  BY DEF Uncount, TypeOK
<1>3. \A h \in Procs : loose'[h] = IF h = g THEN {c} ELSE loose[h]
  BY DEF Uncount, TypeOK
<1>4. idle' = idle /\ open' = open
  BY DEF Uncount
<1>5. \A h \in Procs : h # g => c \notin has[h] /\ c \notin loose[h]
  BY DEF Structure, OneOwner
<1>6. c \notin idle
  BY DEF Structure, OneOwner
<1>7. Counted' = Counted \ {c}
  BY <1>2, <1>4, <1>5, <1>6 DEF Counted
<1>8. OneOwner'
  BY <1>2, <1>3, <1>4, <1>5, <1>6 DEF Structure, OneOwner
<1>9. OpenAreOwned'
  BY <1>1, <1>2, <1>3, <1>4, <1>7 DEF Structure, OpenAreOwned
<1> QED
  BY <1>1, <1>7, <1>8, <1>9 DEF Structure

\* Closing a socket leaves who owns what alone.
LEMMA CloseSocketStructure ==
    ASSUME TypeOK, Structure, NEW g \in Procs, NEW l, CloseSocket(g, l)
    PROVE  Structure' /\ Counted' = Counted
<1>1. \A h \in Procs : loose'[h] = IF h = g THEN {} ELSE loose[h]
  BY DEF CloseSocket, TypeOK
<1>2. has' = has /\ idle' = idle /\ open' = open \ loose[g]
  BY DEF CloseSocket
<1>3. Counted' = Counted
  BY <1>2 DEF Counted
<1>4. OneOwner'
  BY <1>1, <1>2 DEF Structure, OneOwner
<1>5. \A c \in loose[g] : c \notin Counted /\ \A h \in Procs \ {g} : c \notin loose[h]
  BY CountedIff DEF Structure, OneOwner
<1>6. OpenAreOwned'
  BY <1>1, <1>2, <1>3, <1>5 DEF Structure, OpenAreOwned
<1> QED
  BY <1>3, <1>4, <1>6 DEF Structure

\* A hand-over moves one connection to the first caller in the queue.
LEMMA HandOverStructure ==
    ASSUME TypeOK, Structure, NEW g \in Procs, NEW c \in has[g],
           NEW p \in Procs, p # g, has[p] = {},
           has'[p] = {c}, has'[g] = has[g] \ {c},
           \A h \in Procs : h # p /\ h # g => has'[h] = has[h],
           loose' = loose, idle' = idle, open' = open
    PROVE  Structure' /\ Counted' = Counted
<1>2. \A h \in Procs : h # g => c \notin has[h] /\ c \notin loose[h]
  BY DEF Structure, OneOwner
<1>3. c \notin idle /\ c \notin loose[g]
  BY DEF Structure, OneOwner
<1>4. Counted' = Counted
  <2>1. ASSUME NEW d \in Counted PROVE d \in Counted'
    <3>1. CASE d \in idle
      BY <3>1, CountedIffNext
    <3>2. CASE \E h \in Procs : d \in has[h]
      <4>1. CASE d = c
        BY <4>1, CountedIffNext
      <4>2. CASE d # c
        BY <3>2, <4>2, CountedIffNext
      <4> QED BY <4>1, <4>2
    <3> QED
      BY <3>1, <3>2, CountedIff
  <2>2. ASSUME NEW d \in Counted' PROVE d \in Counted
    BY CountedIff, CountedIffNext
  <2> QED
    BY <2>1, <2>2, Zenon
<1>5. OneOwner'
  <2> SUFFICES ASSUME NEW h \in Procs, NEW k \in Procs \ {h}
               PROVE  /\ (has'[h] \cup loose[h]) \cap idle = {}
                      /\ has'[h] \cap loose[h] = {}
                      /\ (has'[h] \cup loose[h]) \cap (has'[k] \cup loose[k]) = {}
    <3>1. \A h \in Procs : \E k \in Procs : k # h
      BY ProcsDistinct
    <3> QED
      BY <3>1 DEF OneOwner
  <2>1. \A x \in Procs : /\ has[x] \cap idle = {} /\ loose[x] \cap idle = {}
                         /\ has[x] \cap loose[x] = {}
    BY DEF Structure, OneOwner
  <2>2. \A x \in Procs : \A y \in Procs \ {x} :
           has[x] \cap has[y] = {} /\ has[x] \cap loose[y] = {} /\ loose[x] \cap loose[y] = {}
    BY DEF Structure, OneOwner
  <2>3. /\ (has'[h] \cup loose[h]) \cap idle = {}
        /\ has'[h] \cap loose[h] = {}
    BY <1>2, <1>3, <2>1
  <2>4. has'[h] \cap has'[k] = {}
    BY <1>2, <2>2
  <2>5. has'[h] \cap loose[k] = {} /\ loose[h] \cap has'[k] = {}
    BY <1>2, <1>3, <2>1, <2>2
  <2> QED
    BY <2>2, <2>3, <2>4, <2>5
<1>6. OpenAreOwned'
  BY <1>4 DEF Structure, OpenAreOwned
<1> QED
  BY <1>4, <1>5, <1>6 DEF Structure

\* A set S of idle connections moves into g's empty hands.
LEMMA TakeStructure ==
    ASSUME TypeOK, Structure, NEW g \in Procs, has[g] = {}, NEW S \in SUBSET idle,
           has' = [has EXCEPT ![g] = S], idle' = idle \ S,
           loose' = loose, open' = open
    PROVE  Structure' /\ Counted' = Counted /\ Cardinality(idle') <= Cardinality(idle)
<1>1. \A h \in Procs : has'[h] = IF h = g THEN S ELSE has[h]
  BY DEF TypeOK
<1>2. Counted' = Counted
  BY <1>1 DEF Counted
<1>3. OneOwner'
  BY <1>1 DEF Structure, OneOwner
<1>4. OpenAreOwned'
  BY <1>2 DEF Structure, OpenAreOwned
<1>5. Cardinality(idle') <= Cardinality(idle)
  BY CountedFinite, FS_Subset
<1> QED
  BY <1>2, <1>3, <1>4, <1>5 DEF Structure

\* A set S of g's connections goes to the idle stack as far as there is room,
\* the others are closed.
LEMMA PutUnsafeStructure ==
    ASSUME TypeOK, Structure, IdleInv, TotalCountExact, NEW g \in Procs,
           NEW S \in SUBSET has[g], NEW l, PutUnsafe(g, S, l)
    PROVE  /\ Structure'
           /\ Counted' \in SUBSET Conns
           /\ TotalCount' = Cardinality(Counted') + Reserved
           /\ IdleInv'
           /\ TotalCount' <= TotalCount
<1> PICK kept \in SUBSET S :
        /\ Cardinality(kept) = Least(Cardinality(S), idleCap - Cardinality(idle))
        /\ idle' = idle \cup kept
        /\ TotalCount' = TotalCount - Cardinality(S \ kept)
        /\ open' = open \ (S \ kept)
  BY Zenon DEF PutUnsafe
<1> DEFINE gone == S \ kept
<1>1. \A h \in Procs : has'[h] = IF h = g THEN has[g] \ S ELSE has[h]
  BY DEF PutUnsafe, TypeOK
<1>2. loose' = loose /\ closing' = closing
  BY DEF PutUnsafe
<1>3. \A c \in S : c \notin idle /\ c \notin loose[g]
                   /\ \A h \in Procs \ {g} : c \notin has[h] /\ c \notin loose[h]
  BY DEF Structure, OneOwner
<1>4. Counted' = Counted \ gone
  BY <1>1, <1>3 DEF Counted
<1>5. gone \subseteq Counted
  BY CountedIff
<1>6. OneOwner'
  BY <1>1, <1>2, <1>3 DEF Structure, OneOwner
<1>7. OpenAreOwned'
  BY <1>2, <1>3, <1>4, LooseIff DEF Structure, OpenAreOwned
<1>8. IsFiniteSet(gone) /\ IsFiniteSet(kept) /\ IsFiniteSet(S)
      /\ Cardinality(gone) \in Nat /\ Cardinality(kept) \in Nat /\ Cardinality(S) \in Nat
  <2>1. S \in SUBSET Conns
    BY DEF TypeOK
  <2>2. IsFiniteSet(S)
    BY <2>1, PoolAssumption, FS_Subset
  <2> QED
    BY <2>2, FS_Subset, FS_CardinalityType
<1>9. Cardinality(Counted \ gone) = Cardinality(Counted) - Cardinality(gone)
  <2>1. Counted \cap gone = gone
    BY <1>5
  <2> HIDE DEF gone
  <2>2. Cardinality(Counted \ gone) = Cardinality(Counted) - Cardinality(Counted \cap gone)
    BY CountedFinite, FS_Difference, Zenon
  <2> QED
    BY <2>1, <2>2
<1>10. TotalCount' = Cardinality(Counted') + Reserved
  BY <1>4, <1>8, <1>9, CountedFinite DEF TotalCountExact, Reserved
<1>11. Cardinality(idle \cup kept) <= Cardinality(idle) + Cardinality(kept)
  <2>1. idle \cap kept = {}
    BY <1>3
  <2>2. Cardinality(idle \cup kept)
          = Cardinality(idle) + Cardinality(kept) - Cardinality(idle \cap kept)
    BY <1>8, CountedFinite, FS_Union
  <2>3. Cardinality(idle \cap kept) = 0
    BY <2>1, FS_EmptySet
  <2> QED
    BY <1>8, <2>2, <2>3, CountedFinite
<1>12. IdleInv'
  <2>1. Cardinality(kept) <= idleCap - Cardinality(idle)
    BY <1>8, LimitsNat, CountedFinite DEF Least
  <2>2. idleCap' = idleCap
    BY <1>2 DEF idleCap
  <2>3. Cardinality(idle') = Cardinality(idle \cup kept)
    OBVIOUS
  <2>4. Cardinality(idle \cup kept) \in Nat
    BY <1>8, CountedFinite, FS_Union, FS_CardinalityType, Zenon
  <2> QED
    BY <1>8, <1>11, <2>1, <2>2, <2>3, <2>4, LimitsNat, CountedFinite DEF IdleInv
<1>13. TotalCount' <= TotalCount
  BY <1>8 DEF TypeOK
<1>14. Counted' \in SUBSET Conns
  BY <1>4, CountedFinite
<1> QED
  BY <1>6, <1>7, <1>10, <1>12, <1>13, <1>14 DEF Structure

-----------------------------------------------------------------------------
(***************************************************************************)
(* What the shared steps do to the rest of the invariant.  Busy are the    *)
(* control states the other conjuncts look at.                             *)
(***************************************************************************)
Busy == {"wait", "create", "count"}

Core == WaitQueue /\ Structure /\ TotalCountExact /\ PendingBound /\ IdleInv

\* A step of g between control states outside Busy leaves the wait queue and
\* the pending connections as they are.
LEMMA QuietStep ==
    ASSUME TypeOK, WaitQueue, NEW g \in Procs, NEW l, pc[g] \notin Busy, l \notin Busy,
           pc' = [pc EXCEPT ![g] = l], recvq' = recvq, left' = left
    PROVE  /\ WaitQueue'
           /\ Reserved' = Reserved
           /\ Pending(starter)' = Pending(starter)
           /\ Pending(recycler)' = Pending(recycler)
<1>1. \A h \in Procs : pc'[h] = IF h = g THEN l ELSE pc[h]
  BY DEF TypeOK
<1>2. \A i \in 1..Len(recvq) : recvq[i] \in Procs /\ recvq[i] # g
  BY ProcsDistinct DEF TypeOK, WaitQueue, Busy
<1>3. WaitQueue'
  BY <1>1, <1>2 DEF WaitQueue
<1>4. Reserved' = Reserved
  BY <1>1, ProcsDistinct DEF Reserved, Busy
<1>5. Pending(starter)' = Pending(starter) /\ Pending(recycler)' = Pending(recycler)
  BY <1>1, ProcsDistinct DEF Pending, Busy
<1> QED
  BY <1>3, <1>4, <1>5

\* A step that leaves queue and callers where they are keeps the queue in order.
LEMMA QueueKept ==
    ASSUME TypeOK, WaitQueue, recvq' = recvq, \A p \in Clients : pc'[p] = pc[p]
    PROVE  WaitQueue'
<1>1. \A i \in 1..Len(recvq) : recvq[i] \in Clients
  BY DEF TypeOK
<1> QED
  BY <1>1 DEF WaitQueue

\* What startNewConnections has still to do is a number.
LEMMA PendingNat ==
    ASSUME TypeOK
    PROVE  /\ Pending(starter) \in Nat /\ Pending(recycler) \in Nat
           /\ Starters = {starter, recycler}
BY DEF TypeOK, Pending, Starters

\* With the pending counts unchanged a step that does not raise TotalCount
\* keeps the bound.
LEMMA PendingKept ==
    ASSUME TypeOK, PendingBound, TotalCount' \in Int, TotalCount' <= TotalCount,
           Pending(starter)' = Pending(starter), Pending(recycler)' = Pending(recycler)
    PROVE  PendingBound'
<1>1. \A g \in Starters : Pending(g)' <= minAlive
  BY PendingNat DEF PendingBound, Starters
<1>2. TotalCount' + Pending(starter)' + Pending(recycler)' <= maxAlive + 2 * minAlive
  BY PendingNat, LimitsNat DEF PendingBound, TypeOK
<1> QED
  BY <1>1, <1>2 DEF PendingBound

\* Pending counts that only go down keep the bound.
LEMMA PendingLess ==
    ASSUME TypeOK, PendingBound, TotalCount' = TotalCount,
           Pending(starter)' \in Nat, Pending(recycler)' \in Nat,
           Pending(starter)' <= Pending(starter), Pending(recycler)' <= Pending(recycler)
    PROVE  PendingBound'
<1>1. \A g \in Starters : Pending(g)' <= minAlive
  BY PendingNat, LimitsNat DEF PendingBound, Starters
<1>2. TotalCount' + Pending(starter)' + Pending(recycler)' <= maxAlive + 2 * minAlive
  BY PendingNat, LimitsNat DEF PendingBound, TypeOK
<1> QED
  BY <1>1, <1>2 DEF PendingBound

-----------------------------------------------------------------------------
(***************************************************************************)
(* What the steps that several goroutines share (closing, taking, handing  *)
(* over, putting back) do to the invariant.                                *)
(***************************************************************************)
\* Taking a connection out of the count.
LEMMA UncountCore ==
    ASSUME IInv, NEW g \in Procs, NEW c \in has[g], NEW l, loose[g] = {},
           pc[g] \notin Busy, l \notin Busy, Uncount(g, c, l)
    PROVE  Core'
<1>1. /\ pc' = [pc EXCEPT ![g] = l] /\ recvq' = recvq /\ left' = left
      /\ TotalCount' = TotalCount - 1 /\ idle' = idle /\ closing' = closing
  BY DEF Uncount, Goto
<1>2. /\ WaitQueue' /\ Reserved' = Reserved
      /\ Pending(starter)' = Pending(starter) /\ Pending(recycler)' = Pending(recycler)
  BY <1>1, QuietStep, Zenon DEF IInv
<1>3. Structure' /\ Counted' = Counted \ {c} /\ c \in Counted
  BY UncountStructure DEF IInv
<1>4. Cardinality(Counted \ {c}) = Cardinality(Counted) - 1
  BY <1>3, CountedFinite, FS_RemoveElement, Zenon DEF IInv
<1>5. TotalCountExact'
  BY <1>1, <1>2, <1>3, <1>4, CountedFinite DEF IInv, TotalCountExact, Reserved
<1>6. PendingBound'
  BY <1>1, <1>2, PendingKept DEF IInv, TypeOK
<1>7. IdleInv'
  BY <1>1 DEF IInv, IdleInv, idleCap
<1> QED
  BY <1>2, <1>3, <1>5, <1>6, <1>7 DEF Core

\* Closing a socket that is out of the count.
LEMMA CloseSocketCore ==
    ASSUME IInv, NEW g \in Procs, NEW l, pc[g] \notin Busy, l \notin Busy, CloseSocket(g, l)
    PROVE  Core'
<1>1. /\ pc' = [pc EXCEPT ![g] = l] /\ recvq' = recvq /\ left' = left
      /\ TotalCount' = TotalCount /\ idle' = idle /\ closing' = closing
  BY DEF CloseSocket, Goto
<1>2. /\ WaitQueue' /\ Reserved' = Reserved
      /\ Pending(starter)' = Pending(starter) /\ Pending(recycler)' = Pending(recycler)
  BY <1>1, QuietStep, Zenon DEF IInv
<1>3. Structure' /\ Counted' = Counted
  BY CloseSocketStructure DEF IInv
<1>4. TotalCountExact'
  BY <1>1, <1>2, <1>3 DEF IInv, TotalCountExact
<1>5. PendingBound'
  BY <1>1, <1>2, PendingKept DEF IInv, TypeOK
<1>6. IdleInv'
  BY <1>1 DEF IInv, IdleInv, idleCap
<1> QED
  BY <1>2, <1>3, <1>4, <1>5, <1>6 DEF Core

\* A goroutine that only moves on.
LEMMA MoveCore ==
    ASSUME IInv, NEW g \in Procs, NEW l, pc[g] \notin Busy, l \notin Busy, Goto(g, l),
           UNCHANGED <<has, loose, idle, TotalCount, open, recvq, left, closing>>
    PROVE  Core'
<1>1. pc' = [pc EXCEPT ![g] = l]
  BY DEF Goto
<1>2. /\ WaitQueue' /\ Reserved' = Reserved
      /\ Pending(starter)' = Pending(starter) /\ Pending(recycler)' = Pending(recycler)
  BY <1>1, QuietStep, Zenon DEF IInv
<1>3. Structure' /\ Counted' = Counted
  BY DEF IInv, Structure, OneOwner, OpenAreOwned, Counted
<1>4. TotalCountExact'
  BY <1>2, <1>3 DEF IInv, TotalCountExact
<1>5. PendingBound'
  BY <1>2, PendingKept DEF IInv, TypeOK
<1>6. IdleInv'
  BY DEF IInv, IdleInv, idleCap
<1> QED
  BY <1>2, <1>3, <1>4, <1>5, <1>6 DEF Core

\* Idle connections move into g's empty hands (getIdleConnectionUnsafe,
\* getOldIdleConnections, closeIdleConnectionsIfCan).
LEMMA TakeCore ==
    ASSUME IInv, NEW g \in Procs, NEW S \in SUBSET idle, NEW l, has[g] = {},
           pc[g] \notin Busy, l \notin Busy, Goto(g, l),
           idle' = idle \ S, has' = [has EXCEPT ![g] = S],
           UNCHANGED <<loose, TotalCount, open, recvq, left, closing>>
    PROVE  Core'
<1>1. pc' = [pc EXCEPT ![g] = l]
  BY DEF Goto
<1>2. /\ WaitQueue' /\ Reserved' = Reserved
      /\ Pending(starter)' = Pending(starter) /\ Pending(recycler)' = Pending(recycler)
  BY <1>1, QuietStep, Zenon DEF IInv
<1>3. Structure' /\ Counted' = Counted /\ Cardinality(idle') <= Cardinality(idle)
  BY TakeStructure, Zenon DEF IInv
<1>4. TotalCountExact'
  BY <1>2, <1>3 DEF IInv, TotalCountExact
<1>5. PendingBound'
  BY <1>2, PendingKept DEF IInv, TypeOK
<1>6. IdleInv'
  <2>1. Cardinality(idle') \in Nat
    BY CountedFinite, FS_Subset, FS_CardinalityType DEF IInv
  <2>2. idleCap' = idleCap
    BY DEF idleCap
  <2> QED
    BY <1>3, <2>1, <2>2, CountedFinite, LimitsNat DEF IInv, IdleInv
<1> QED
  BY <1>2, <1>3, <1>4, <1>5, <1>6 DEF Core

\* The caller at the head of the queue is a client with empty hands.
LEMMA HeadWaits ==
    ASSUME TypeOK, Shape, WaitQueue, recvq # <<>>
    PROVE  /\ Head(recvq) \in Clients /\ Head(recvq) \in Procs
           /\ pc[Head(recvq)] = "wait" /\ has[Head(recvq)] = {} /\ loose[Head(recvq)] = {}
           /\ Len(recvq) \in Nat \ {0} /\ Head(recvq) = recvq[1]
           /\ Tail(recvq) \in Seq(Clients) /\ Len(Tail(recvq)) = Len(recvq) - 1
           /\ \A i \in 1..Len(Tail(recvq)) : Tail(recvq)[i] = recvq[i + 1]
<1>1. recvq \in Seq(Clients) /\ Len(recvq) \in Nat \ {0}
  BY DEF TypeOK
<1>2. Head(recvq) = recvq[1] /\ Head(recvq) \in Clients
  BY <1>1
<1>3. pc[Head(recvq)] = "wait"
  BY <1>1, <1>2 DEF WaitQueue
<1>4. has[Head(recvq)] = {} /\ loose[Head(recvq)] = {}
  BY <1>2, <1>3 DEF Shape
<1>5. /\ Tail(recvq) \in Seq(Clients) /\ Len(Tail(recvq)) = Len(recvq) - 1
      /\ \A i \in 1..Len(Tail(recvq)) : Tail(recvq)[i] = recvq[i + 1]
  BY <1>1
<1> QED
  BY <1>1, <1>2, <1>3, <1>4, <1>5, ProcsDistinct

\* Giving a connection to a caller that waits.
LEMMA HandOverCore ==
    ASSUME IInv, NEW g \in Procs, NEW c \in has[g], NEW l,
           pc[g] \notin Busy, l \notin Busy, HandOver(g, c, l)
    PROVE  Core' /\ pc' = [pc EXCEPT ![g] = l, ![Head(recvq)] = "check"]
                 /\ has'[Head(recvq)] = {c} /\ has'[g] = has[g] \ {c}
                 /\ \A h \in Procs : h # Head(recvq) /\ h # g => has'[h] = has[h]
                 /\ Head(recvq) # g
<1> DEFINE p == Head(recvq)
<1>1. /\ recvq # <<>> /\ recvq' = Tail(recvq)
      /\ pc' = [pc EXCEPT ![g] = l, ![p] = "check"]
      /\ has' = [has EXCEPT ![g] = @ \ {c}, ![p] = {c}]
      /\ UNCHANGED <<loose, idle, TotalCount, open, left, closing>>
  BY DEF HandOver
<1>2. /\ p \in Clients /\ p \in Procs /\ pc[p] = "wait" /\ has[p] = {}
      /\ Len(recvq) \in Nat \ {0} /\ p = recvq[1]
      /\ Len(Tail(recvq)) = Len(recvq) - 1
      /\ \A i \in 1..Len(Tail(recvq)) : Tail(recvq)[i] = recvq[i + 1]
  BY <1>1, HeadWaits DEF IInv
<1>3. p # g
  BY <1>2 DEF Busy
<1> HIDE DEF p
<1>4. has'[p] = {c} /\ has'[g] = has[g] \ {c}
  BY <1>1, <1>2, <1>3 DEF IInv, TypeOK
<1>5. \A h \in Procs : h # p /\ h # g => has'[h] = has[h]
  BY <1>1, <1>2, <1>3 DEF IInv, TypeOK
<1>6. Structure' /\ Counted' = Counted
  <2>1. loose' = loose /\ idle' = idle /\ open' = open
    BY <1>1
  <2>2. TypeOK /\ Structure
    BY DEF IInv
  <2>3. p \in Procs /\ has[p] = {}
    BY <1>2
  <2> QED
    BY <2>1, <2>2, <2>3, <1>3, <1>4, <1>5, HandOverStructure
<1>7. \A h \in Procs : pc'[h] = IF h = p THEN "check" ELSE IF h = g THEN l ELSE pc[h]
  BY <1>1, <1>2, <1>3 DEF IInv, TypeOK
<1>8. WaitQueue'
  <2>1. \A i \in 1..Len(recvq) : recvq[i] \in Clients /\ recvq[i] \in Procs /\ recvq[i] # g
    BY ProcsDistinct, SMTT(30) DEF IInv, TypeOK, WaitQueue, Busy
  <2>2. \A i \in 2..Len(recvq) : recvq[i] # p /\ pc'[recvq[i]] = "wait"
    <3> SUFFICES ASSUME NEW i \in 2..Len(recvq)
                 PROVE  recvq[i] # p /\ pc'[recvq[i]] = "wait"
      OBVIOUS
    <3>1. i \in 1..Len(recvq) /\ 1 \in 1..Len(recvq) /\ i # 1
      BY <1>2
    <3>2. WaitQueue
      BY DEF IInv
    <3>3. recvq[i] # recvq[1] /\ pc[recvq[i]] = "wait"
      BY <3>1, <3>2 DEF WaitQueue
    <3>4. recvq[i] # p
      BY <1>2, <3>3
    <3>5. recvq[i] \in Procs /\ recvq[i] # g
      BY <2>1, <3>1
    <3> QED
      BY <1>7, <3>3, <3>4, <3>5
  <2>3. \A i \in 1..Len(recvq') : i + 1 \in 2..Len(recvq) /\ recvq'[i] = recvq[i + 1]
    BY <1>1, <1>2
  <2>4. \A i \in 1..Len(recvq') : pc'[recvq'[i]] = "wait"
    BY <2>2, <2>3
  <2>5. \A i, j \in 1..Len(recvq') : recvq'[i] = recvq'[j] => i = j
    <3>1. \A i, j \in 2..Len(recvq) : recvq[i] = recvq[j] => i = j
      BY <1>2 DEF IInv, WaitQueue
    <3> QED
      BY <1>2, <2>3, <3>1
  <2> QED
    BY <2>4, <2>5 DEF WaitQueue
<1>9. Reserved' = Reserved
  BY <1>2, <1>7, ProcsDistinct DEF Reserved, Busy
<1>10. Pending(starter)' = Pending(starter) /\ Pending(recycler)' = Pending(recycler)
  BY <1>1, <1>2, <1>7, ProcsDistinct, ZenonT(30) DEF Pending, Busy
<1>11. TotalCountExact'
  BY <1>1, <1>6, <1>9 DEF IInv, TotalCountExact
<1>12. PendingBound'
  BY <1>1, <1>10, PendingKept DEF IInv, TypeOK
<1>13. IdleInv'
  BY <1>1 DEF IInv, IdleInv, idleCap
<1> QED
  BY <1>1, <1>3, <1>4, <1>5, <1>6, <1>8, <1>11, <1>12, <1>13, Zenon DEF Core, p

\* putConnectionUnsafe by a caller or a worker (outside Busy), or at the end of
\* startNewConnections (nothing left to start).
LEMMA PutUnsafeCore ==
    ASSUME IInv, NEW g \in Procs, NEW S \in SUBSET has[g], NEW l, l \notin Busy,
           pc[g] \notin Busy \/ (g \in Starters /\ pc[g] = "create" /\ left[g] = 0),
           PutUnsafe(g, S, l)
    PROVE  Core'
<1>1. /\ pc' = [pc EXCEPT ![g] = l]
      /\ UNCHANGED <<loose, recvq, left, closing>>
  BY DEF PutUnsafe, Goto
<1>2. /\ Structure' /\ TotalCount' = Cardinality(Counted') + Reserved
      /\ IdleInv' /\ TotalCount' <= TotalCount /\ Counted' \in SUBSET Conns
  BY PutUnsafeStructure DEF IInv
<1>3. \A h \in Procs : pc'[h] = IF h = g THEN l ELSE pc[h]
  BY <1>1 DEF IInv, TypeOK
<1>4. pc[g] # "wait" /\ (g = producer => pc[g] # "create")
  BY ProcsDistinct DEF Busy, Starters
<1>5. \A i \in 1..Len(recvq) : recvq[i] \in Procs /\ recvq[i] # g
  BY <1>4, ProcsDistinct DEF IInv, TypeOK, WaitQueue
<1>6. WaitQueue'
  BY <1>1, <1>3, <1>5 DEF IInv, WaitQueue
<1>7. Reserved' = Reserved
  BY <1>3, <1>4, ProcsDistinct DEF Reserved, Busy
<1>8. Pending(starter)' = Pending(starter) /\ Pending(recycler)' = Pending(recycler)
  BY <1>1, <1>3, ProcsDistinct DEF Pending, Busy
<1>9. TotalCountExact'
  BY <1>2, <1>7 DEF TotalCountExact
<1>10. TotalCount' \in Int
  <2>1. Cardinality(Counted') \in Nat
    BY <1>2, PoolAssumption, FS_Subset, FS_CardinalityType
  <2> QED
    BY <1>2, <2>1 DEF Reserved
<1>11. PendingBound'
  BY <1>2, <1>8, <1>10, PendingKept DEF IInv
<1> QED
  BY <1>2, <1>6, <1>9, <1>11 DEF Core

-----------------------------------------------------------------------------
(***************************************************************************)
(* One lemma per group of actions.                                         *)
(***************************************************************************)
Labels == ClientPC \cup WorkerPC \cup ProducerPC \cup RecyclerPC \cup StarterPC

\* A step of caller p that only changes pc[p] and the wait queue.
LEMMA NoCountStep ==
    ASSUME IInv, NEW p \in Clients, NEW l, pc' = [pc EXCEPT ![p] = l], WaitQueue',
           UNCHANGED <<has, loose, idle, TotalCount, open, left, closing>>
    PROVE  Core'
<1>1. \A h \in Procs : h # p => pc'[h] = pc[h]
  BY ProcsDistinct DEF IInv, TypeOK
<1>2. Structure' /\ Counted' = Counted
  BY DEF IInv, Structure, OneOwner, OpenAreOwned, Counted
<1>3. Reserved' = Reserved
  BY <1>1, ProcsDistinct DEF Reserved
<1>4. Pending(starter)' = Pending(starter) /\ Pending(recycler)' = Pending(recycler)
  BY <1>1, ProcsDistinct DEF Pending
<1>5. TotalCountExact'
  BY <1>2, <1>3 DEF IInv, TotalCountExact
<1>6. PendingBound'
  BY <1>4, PendingKept DEF IInv, TypeOK
<1>7. IdleInv'
  BY DEF IInv, IdleInv, idleCap
<1> QED
  BY <1>2, <1>5, <1>6, <1>7 DEF Core

-----------------------------------------------------------------------------
(***************************************************************************)
(* TypeOK and Shape, one goroutine at a time.  Fits says that goroutine g  *)
(* may be at label l with H in its hands and L about to be closed.         *)
(***************************************************************************)
Fits(g, l, H, L) ==
    /\ g \in Clients => /\ l \in ClientPC
                        /\ l \notin {"check", "own"} => H = {}
                        /\ l \notin {"closeBad", "closeDropped"} => L = {}
    /\ g \in Workers => /\ l \in WorkerPC
                        /\ l # "ping" => H = {}
                        /\ l # "close" => L = {}
    /\ g = producer => /\ l \in ProducerPC
                       /\ l # "offer" => H = {}
                       /\ l # "close" => L = {}
    /\ g = recycler => /\ l \in RecyclerPC
                       /\ l \notin {"recheck", "create", "count", "closeList", "close"} => H = {}
                       /\ l \notin {"count", "close"} => L = {}
    /\ g = starter => /\ l \in StarterPC
                      /\ l = "exit" => H = {}
                      /\ l # "count" => L = {}
    /\ g \in Starters => (l = "count" => \E c \in Conns : L = {c})
    /\ g \in Clients \cup Workers \cup {producer} => \A c, d \in H : c = d

Rest ==
    /\ idle \in SUBSET Conns
    /\ TotalCount \in Int
    /\ open \in SUBSET Conns
    /\ recvq \in Seq(Clients)
    /\ left \in [Starters -> Nat]
    /\ closing \in {"no", "waiting", "done"}

\* Every goroutine has in its hands what its control state allows.
LEMMA FitsNow ==
    ASSUME TypeOK, Shape, NEW g \in Procs
    PROVE  /\ Fits(g, pc[g], has[g], loose[g])
           /\ has[g] \in SUBSET Conns /\ loose[g] \in SUBSET Conns
BY ProcsDistinct DEF TypeOK, Shape, Fits, Starters

\* When every goroutine fits after a step, types and Shape hold again.
LEMMA AllFit ==
    ASSUME pc' \in [Procs -> Labels], has' \in [Procs -> SUBSET Conns],
           loose' \in [Procs -> SUBSET Conns], Rest',
           \A g \in Procs : Fits(g, pc'[g], has'[g], loose'[g])
    PROVE  TypeOK' /\ Shape'
<1>1. TypeOK'
  BY ProcsDistinct DEF TypeOK, Rest, Labels, Fits
<1>2. Shape'
  <2>1. \A p \in Clients : /\ pc'[p] \notin {"check", "own"} => has'[p] = {}
                           /\ pc'[p] \notin {"closeBad", "closeDropped"} => loose'[p] = {}
    BY ProcsDistinct DEF Fits
  <2>2. \A w \in Workers : /\ pc'[w] # "ping" => has'[w] = {}
                           /\ pc'[w] # "close" => loose'[w] = {}
    BY ProcsDistinct DEF Fits
  <2>3. /\ pc'[producer] # "offer" => has'[producer] = {}
        /\ pc'[producer] # "close" => loose'[producer] = {}
    BY ProcsDistinct DEF Fits
  <2>4. /\ pc'[recycler] \notin {"recheck", "create", "count", "closeList", "close"} => has'[recycler] = {}
        /\ pc'[recycler] \notin {"count", "close"} => loose'[recycler] = {}
    BY ProcsDistinct DEF Fits
  <2>5. /\ pc'[starter] = "exit" => has'[starter] = {}
        /\ pc'[starter] # "count" => loose'[starter] = {}
    BY ProcsDistinct DEF Fits
  <2>6. \A g \in Starters : pc'[g] = "count" => \E c \in Conns : loose'[g] = {c}
    BY ProcsDistinct DEF Fits
  <2>7. \A g \in Clients \cup Workers \cup {producer} : \A c, d \in has'[g] : c = d
    BY ProcsDistinct, Zenon DEF Fits
  <2> QED
    BY <2>1, <2>2, <2>3, <2>4, <2>5, <2>6, <2>7, SMTT(30) DEF Shape
<1> QED
  BY <1>1, <1>2

\* A step that moves g alone keeps TypeOK and Shape when g fits afterwards.
LEMMA OneMoved ==
    ASSUME IInv, NEW g \in Procs,
           \A h \in Procs : h # g => pc'[h] = pc[h] /\ has'[h] = has[h] /\ loose'[h] = loose[h],
           pc' \in [Procs -> Labels], has' \in [Procs -> SUBSET Conns],
           loose' \in [Procs -> SUBSET Conns],
           Fits(g, pc'[g], has'[g], loose'[g]), Rest'
    PROVE  TypeOK' /\ Shape'
<1>1. \A h \in Procs : Fits(h, pc[h], has[h], loose[h])
  BY FitsNow DEF IInv
<1>2. \A h \in Procs : Fits(h, pc'[h], has'[h], loose'[h])
  BY <1>1
<1> QED
  BY <1>2, AllFit

\* A control state that a goroutine fits in is one of its own.
LEMMA FitsLabel ==
    ASSUME NEW g \in Procs, NEW l, NEW H, NEW L, Fits(g, l, H, L)
    PROVE  l \in Labels
BY DEF Fits, Labels, Procs

\* The same for a step given by what it assigns to g.
LEMMA Updated ==
    ASSUME IInv, NEW g \in Procs, NEW l, NEW H \in SUBSET Conns, NEW L \in SUBSET Conns,
           Goto(g, l), has' = [has EXCEPT ![g] = H], loose' = [loose EXCEPT ![g] = L],
           Fits(g, l, H, L), Rest'
    PROVE  TypeOK' /\ Shape'
<1>1. pc \in [Procs -> Labels]
  BY DEF IInv, TypeOK, Labels
<1>2. has \in [Procs -> SUBSET Conns] /\ loose \in [Procs -> SUBSET Conns]
  BY DEF IInv, TypeOK
<1>3. pc' \in [Procs -> Labels] /\ \A h \in Procs : pc'[h] = IF h = g THEN l ELSE pc[h]
  BY <1>1, FitsLabel DEF Goto
<1>4. has' \in [Procs -> SUBSET Conns] /\ \A h \in Procs : has'[h] = IF h = g THEN H ELSE has[h]
  BY <1>2
<1>5. loose' \in [Procs -> SUBSET Conns] /\ \A h \in Procs : loose'[h] = IF h = g THEN L ELSE loose[h]
  BY <1>2
<1>6. pc'[g] = l /\ has'[g] = H /\ loose'[g] = L
  BY <1>3, <1>4, <1>5
<1>7. Fits(g, pc'[g], has'[g], loose'[g])
  BY <1>6
<1>8. \A h \in Procs : h # g => pc'[h] = pc[h] /\ has'[h] = has[h] /\ loose'[h] = loose[h]
  BY <1>3, <1>4, <1>5
<1> QED
  BY <1>3, <1>4, <1>5, <1>7, <1>8, OneMoved

\* A variable left alone is one updated with the value it has.
LEMMA Same ==
    ASSUME IInv, NEW g \in Procs
    PROVE  /\ has = [has EXCEPT ![g] = has[g]] /\ has[g] \in SUBSET Conns
           /\ loose = [loose EXCEPT ![g] = loose[g]] /\ loose[g] \in SUBSET Conns
BY DEF IInv, TypeOK

\* A goroutine that only moves on keeps types and Shape.
LEMMA MoveShape ==
    ASSUME IInv, NEW g \in Procs, NEW l, Goto(g, l),
           UNCHANGED <<has, loose, idle, TotalCount, open, recvq, left, closing>>,
           Fits(g, l, has[g], loose[g])
    PROVE  TypeOK' /\ Shape'
<1>1. Rest'
  BY DEF IInv, TypeOK, Rest
<1>2. has' = [has EXCEPT ![g] = has[g]] /\ loose' = [loose EXCEPT ![g] = loose[g]]
  BY Same
<1> QED
  BY <1>1, <1>2, Same, Updated, Zenon

\* Taking an idle connection keeps types and Shape.
LEMMA TakeShape ==
    ASSUME IInv, NEW g \in Procs, NEW l, NEW S \in SUBSET idle, Goto(g, l),
           idle' = idle \ S, has' = [has EXCEPT ![g] = S],
           UNCHANGED <<loose, TotalCount, open, recvq, left, closing>>,
           Fits(g, l, S, loose[g])
    PROVE  TypeOK' /\ Shape'
<1>1. Rest' /\ S \in SUBSET Conns
  BY DEF IInv, TypeOK, Rest
<1>2. loose' = [loose EXCEPT ![g] = loose[g]]
  BY Same
<1> QED
  BY <1>1, <1>2, Same, Updated, Zenon

\* Taking a connection out of the count keeps types and Shape.
LEMMA UncountShape ==
    ASSUME IInv, NEW g \in Procs, NEW c \in has[g], NEW l, Uncount(g, c, l),
           Fits(g, l, has[g] \ {c}, {c})
    PROVE  TypeOK' /\ Shape'
<1>1. has[g] \ {c} \in SUBSET Conns /\ {c} \in SUBSET Conns
  BY Same
<1>2. Rest'
  BY DEF Uncount, IInv, TypeOK, Rest
<1>3. /\ Goto(g, l)
      /\ has' = [has EXCEPT ![g] = has[g] \ {c}]
      /\ loose' = [loose EXCEPT ![g] = {c}]
  BY DEF Uncount
<1> QED
  BY <1>1, <1>2, <1>3, Updated, Zenon

\* Closing a socket keeps types and Shape.
LEMMA CloseSocketShape ==
    ASSUME IInv, NEW g \in Procs, NEW l, CloseSocket(g, l), Fits(g, l, has[g], {})
    PROVE  TypeOK' /\ Shape'
<1>1. Rest'
  BY DEF CloseSocket, IInv, TypeOK, Rest
<1>2. Goto(g, l) /\ has' = [has EXCEPT ![g] = has[g]] /\ loose' = [loose EXCEPT ![g] = {}]
  BY Same DEF CloseSocket
<1>3. has[g] \in SUBSET Conns /\ {} \in SUBSET Conns
  BY Same
<1> QED
  BY <1>1, <1>2, <1>3, Updated, Zenon

\* Putting a connection back keeps types and Shape.
LEMMA PutUnsafeShape ==
    ASSUME IInv, NEW g \in Procs, NEW S \in SUBSET has[g], NEW l, PutUnsafe(g, S, l),
           Fits(g, l, has[g] \ S, loose[g])
    PROVE  TypeOK' /\ Shape'
<1>1. has[g] \in SUBSET Conns /\ loose[g] \in SUBSET Conns
  BY Same
<1>2. \E kept \in SUBSET S : /\ idle' = idle \cup kept
                             /\ TotalCount' = TotalCount - Cardinality(S \ kept)
                             /\ open' = open \ (S \ kept)
  BY Zenon DEF PutUnsafe
<1>3. PICK kept \in SUBSET S : /\ idle' = idle \cup kept
                               /\ TotalCount' = TotalCount - Cardinality(S \ kept)
                               /\ open' = open \ (S \ kept)
  BY <1>2, Zenon
<1>4. Cardinality(S \ kept) \in Nat
  BY <1>1, PoolAssumption, FS_Subset, FS_CardinalityType
<1>5. /\ UNCHANGED <<recvq, left, closing>> /\ Goto(g, l)
      /\ has' = [has EXCEPT ![g] = has[g] \ S]
      /\ loose' = [loose EXCEPT ![g] = loose[g]]
  BY Same DEF PutUnsafe
<1>6. Rest'
  BY <1>1, <1>3, <1>4, <1>5, SMTT(90) DEF IInv, TypeOK, Rest
<1>7. has[g] \ S \in SUBSET Conns
  BY <1>1
<1> QED
  BY <1>1, <1>5, <1>6, <1>7, Updated, Zenon

\* The queue without one caller is a queue.
LEMMA WithoutSeq ==
    ASSUME NEW S, NEW s \in Seq(S), NEW k \in 1..Len(s)
    PROVE  /\ Without(s, k) \in Seq(S)
           /\ Len(Without(s, k)) = Len(s) - 1
           /\ \A i \in 1..Len(s) - 1 : Without(s, k)[i] = IF i < k THEN s[i] ELSE s[i + 1]
<1>1. Len(s) \in Nat /\ Len(s) - 1 \in Nat
  OBVIOUS
<1>2. \A i \in 1..Len(s) - 1 : (IF i < k THEN s[i] ELSE s[i + 1]) \in S
  BY <1>1
<1>3. Without(s, k) \in [1..(Len(s) - 1) -> S]
  BY <1>2 DEF Without
<1> QED
  BY <1>1, <1>3 DEF Without

-----------------------------------------------------------------------------
\* A hand-over by a caller, a worker or the producer.
LEMMA HandOverInv ==
    ASSUME IInv, NEW g \in Clients \cup Workers \cup {producer}, NEW c \in has[g], NEW l,
           HandOver(g, c, l),
           \/ g \in Clients /\ l = "out" /\ pc[g] = "own"
           \/ g \in Workers /\ l = "ready" /\ pc[g] = "ping"
           \/ g = producer /\ l = "loop" /\ pc[g] = "offer"
    PROVE  TypeOK' /\ Shape' /\ Core'
<1> DEFINE p == Head(recvq)
<1> USE ProcsDistinct
<1>1. g \in Procs /\ pc[g] \notin Busy /\ l \notin Busy
  BY DEF Procs, Busy
<1>2. /\ Core' /\ pc' = [pc EXCEPT ![g] = l, ![p] = "check"]
      /\ has'[p] = {c} /\ has'[g] = has[g] \ {c}
      /\ \A h \in Procs : h # p /\ h # g => has'[h] = has[h]
      /\ p # g
  BY <1>1, HandOverCore
<1>3. p \in Clients /\ pc[p] = "wait" /\ loose[p] = {} /\ Tail(recvq) \in Seq(Clients)
  BY HeadWaits DEF HandOver, IInv
<1>4. c \in Conns /\ has[g] = {c}
  BY DEF IInv, TypeOK, Shape
<1> HIDE DEF p
<1>5. \A h \in Procs : pc'[h] = IF h = p THEN "check" ELSE IF h = g THEN l ELSE pc[h]
  BY <1>1, <1>2, <1>3 DEF IInv, TypeOK
<1>6. UNCHANGED <<loose, idle, TotalCount, open, left, closing>> /\ recvq' = Tail(recvq)
  BY DEF HandOver
<1>7. has' \in [Procs -> SUBSET Conns]
  BY <1>1, <1>4 DEF HandOver, IInv, TypeOK
<1>8. pc' \in [Procs -> Labels]
  BY <1>1, <1>2, <1>3 DEF IInv, TypeOK, Labels, ClientPC, WorkerPC, ProducerPC
<1>9. TypeOK'
  BY <1>3, <1>5, <1>6, <1>7, <1>8, Zenon DEF IInv, TypeOK, Labels, ClientPC, WorkerPC, ProducerPC
<1>10. Shape'
  <2>0. /\ has'[p] = {c} /\ has'[g] = {}
        /\ \A h \in Procs : h # p /\ h # g => has'[h] = has[h]
    BY <1>2, <1>4
  <2>1. \A q \in Clients : /\ pc'[q] \notin {"check", "own"} => has'[q] = {}
                           /\ pc'[q] \notin {"closeBad", "closeDropped"} => loose'[q] = {}
    <3> SUFFICES ASSUME NEW q \in Clients
                 PROVE  /\ pc'[q] \notin {"check", "own"} => has'[q] = {}
                        /\ pc'[q] \notin {"closeBad", "closeDropped"} => loose'[q] = {}
      OBVIOUS
    <3>1. CASE q = p
      BY <3>1, <1>3, <1>5, <1>6, Zenon
    <3>2. CASE q = g /\ q # p
      BY <3>2, <2>0, <1>5, <1>6, Zenon DEF IInv, Shape
    <3>3. CASE q # g /\ q # p
      BY <3>3, <2>0, <1>5, <1>6, Zenon DEF IInv, Shape
    <3> QED BY <3>1, <3>2, <3>3
  <2>2. \A w \in Workers : /\ pc'[w] # "ping" => has'[w] = {}
                           /\ pc'[w] # "close" => loose'[w] = {}
    BY <2>0, <1>3, <1>5, <1>6 DEF IInv, Shape
  <2>3. /\ pc'[producer] # "offer" => has'[producer] = {}
        /\ pc'[producer] # "close" => loose'[producer] = {}
    BY <1>2, <1>3, <1>4, <1>5, <1>6, Zenon DEF IInv, Shape
  <2>4. \A g2 \in Starters : pc'[g2] = pc[g2] /\ has'[g2] = has[g2] /\ loose'[g2] = loose[g2]
    BY <1>2, <1>3, <1>5, <1>6, ZenonT(30) DEF Starters
  <2>5. \A q \in Clients \cup Workers \cup {producer} : \A d, e \in has'[q] : d = e
    <3>1. \A q \in Clients \cup Workers \cup {producer} : q \in Procs /\ \A d, e \in has[q] : d = e
      BY Zenon DEF IInv, Shape, Procs
    <3> SUFFICES ASSUME NEW q \in Clients \cup Workers \cup {producer}, NEW d \in has'[q], NEW e \in has'[q]
                 PROVE  d = e
      OBVIOUS
    <3>2. CASE q = p
      BY <2>0, <3>2, Zenon
    <3>3. CASE q = g
      BY <2>0, <3>3, Zenon
    <3>4. CASE q # p /\ q # g
      <4>1. has'[q] = has[q]
        BY <2>0, <3>1, <3>4
      <4> QED
        BY <3>1, <4>1, Zenon
    <3> QED
      BY <3>2, <3>3, <3>4, Zenon
  <2> QED
    BY <2>1, <2>2, <2>3, <2>4, <2>5, Zenon DEF IInv, Shape, Starters
<1> QED
  BY <1>2, <1>9, <1>10

\* Every step of a caller keeps the invariant.
LEMMA ClientInv ==
    ASSUME IInv, NEW p \in Clients, ClientStep(p) \/ StartGetConn(p) \/ CallerCtxDone(p)
    PROVE  IInv'
<1> USE ProcsDistinct
<1> p \in Procs
  OBVIOUS
<1> SUFFICES TypeOK' /\ Shape' /\ Core'
  BY DEF IInv, Core
<1>1. CASE StartGetConn(p)
  <2>1. Core'
    BY <1>1, MoveCore DEF StartGetConn, Move, Busy
  <2>2. TypeOK' /\ Shape'
    <3>1. Fits(p, "loop", has[p], loose[p])
      BY <1>1, FitsNow DEF StartGetConn, Move, IInv, Fits, ClientPC, Starters
    <3> QED
      BY <1>1, <3>1, MoveShape, Zenon DEF StartGetConn, Move
  <2> QED BY <2>1, <2>2
<1>2. CASE CheckPoolCtx(p)
  <2>1. Core'
    BY <1>2, MoveCore DEF CheckPoolCtx, Move, Busy
  <2>2. TypeOK' /\ Shape'
    <3> DEFINE l == IF ctxDone THEN "out" ELSE "get"
    <3>1. Fits(p, l, has[p], loose[p])
      BY <1>2, FitsNow DEF CheckPoolCtx, Move, IInv, Fits, ClientPC, Starters
    <3>2. Goto(p, l) /\ UNCHANGED <<has, loose, idle, TotalCount, open, recvq, left, closing>>
      BY <1>2 DEF CheckPoolCtx, Move
    <3> HIDE DEF l
    <3> QED
      BY <3>1, <3>2, MoveShape, Zenon
  <2> QED BY <2>1, <2>2
<1>3. CASE GetIdle(p)
  <2>1. CASE Move(p, "get", "recv")
    <3>1. Core'
      BY <2>1, MoveCore DEF Move, Busy
    <3>2. TypeOK' /\ Shape'
      <4>1. Fits(p, "recv", has[p], loose[p])
        BY <2>1, FitsNow, Zenon DEF Move, IInv, Fits, ClientPC, Starters
      <4> QED
        BY <2>1, <4>1, MoveShape, Zenon DEF Move
    <3> QED BY <3>1, <3>2
  <2>2. ASSUME NEW c \in idle, TakeIdle(p, c, "check"), pc[p] = "get"
        PROVE  TypeOK' /\ Shape' /\ Core'
    <3>1. has[p] = {}
      BY <2>2, Zenon DEF IInv, Shape
    <3>2. Core'
      BY <2>2, <3>1, TakeCore, Zenon DEF TakeIdle, Busy
    <3>3. TypeOK' /\ Shape'
      <4>1. Fits(p, "check", {c}, loose[p])
        BY <2>2, FitsNow, Zenon DEF TakeIdle, IInv, Fits, ClientPC, Starters
      <4> QED
        BY <2>2, <4>1, TakeShape, Zenon DEF TakeIdle
    <3> QED BY <3>2, <3>3, Zenon
  <2> QED
    BY <1>3, <2>1, <2>2 DEF GetIdle
<1>6. CASE GetConnReturns(p)
  <2>1. Core'
    BY <1>6, MoveCore DEF GetConnReturns, Move, Busy
  <2>2. TypeOK' /\ Shape'
    <3>1. Fits(p, "own", has[p], loose[p])
      BY <1>6, FitsNow, Zenon DEF GetConnReturns, Move, IInv, Fits, ClientPC, Starters
    <3> QED
      BY <1>6, <3>1, MoveShape, Zenon DEF GetConnReturns, Move
  <2> QED BY <2>1, <2>2
<1>7. ASSUME NEW c \in has[p], NEW l \in {"closeBad", "closeDropped"},
             Uncount(p, c, l), pc[p] \in {"check", "own"}
      PROVE  TypeOK' /\ Shape' /\ Core'
  <2>1. loose[p] = {}
    BY <1>7, Zenon DEF IInv, Shape
  <2>2. Core'
    BY <1>7, <2>1, UncountCore DEF Busy
  <2>3. has[p] \ {c} = {}
    BY <1>7, Zenon DEF IInv, Shape
  <2>4. Fits(p, l, has[p] \ {c}, {c})
    BY <1>7, <2>3, Zenon DEF Fits, ClientPC, Starters
  <2>5. TypeOK' /\ Shape'
    BY <1>7, <2>4, UncountShape
  <2> QED BY <2>2, <2>5, Zenon
<1>8. ASSUME NEW l \in {"loop", "out"}, CloseSocket(p, l), pc[p] \in {"closeBad", "closeDropped"}
      PROVE  TypeOK' /\ Shape' /\ Core'
  <2>1. Core'
    BY <1>8, CloseSocketCore, Zenon DEF Busy
  <2>2. TypeOK' /\ Shape'
    <3>1. Fits(p, l, has[p], {})
      BY <1>8, FitsNow, Zenon DEF IInv, Fits, ClientPC, Starters
    <3> QED
      BY <1>8, <3>1, CloseSocketShape, Zenon
  <2> QED BY <2>1, <2>2
<1>9. ASSUME NEW c \in has[p], Put(p, c, "out"), pc[p] = "own"
      PROVE  TypeOK' /\ Shape' /\ Core'
  <2>0. has[p] = {c} /\ c \in Conns
    BY <1>9, SMTT(30) DEF IInv, TypeOK, Shape
  <2>1. CASE HandOver(p, c, "out")
    BY <1>9, <2>0, <2>1, HandOverInv, Zenon DEF IInv, TypeOK, Shape, Busy, ClientPC
  <2>2. CASE PutUnsafe(p, {c}, "out")
    <3>1. Core'
      BY <1>9, <2>2, PutUnsafeCore DEF Busy
    <3>2. TypeOK' /\ Shape'
      <4>1. has[p] \ {c} = {}
        BY <2>0, Zenon
      <4>2. Fits(p, "out", has[p] \ {c}, loose[p])
        BY <1>9, <2>0, <2>2, <4>1, FitsNow, Zenon DEF IInv, Fits, ClientPC, Starters
      <4> QED
        BY <1>9, <2>0, <2>2, <4>2, PutUnsafeShape, Zenon
    <3> QED BY <3>1, <3>2
  <2> QED
    BY <1>9, <2>1, <2>2, Zenon DEF Put
<1>10. CASE BlockOnReady(p)
  <2>1. TypeOK' /\ Shape'
    <3>1. Fits(p, "wait", has[p], loose[p])
      BY <1>10, FitsNow, Zenon DEF BlockOnReady, IInv, Fits, ClientPC, Starters
    <3>2. Goto(p, "wait") /\ has' = has /\ loose' = loose /\ Rest'
      <4>1. /\ Goto(p, "wait") /\ recvq' = Append(recvq, p)
            /\ UNCHANGED <<has, loose, idle, TotalCount, open, left, closing>>
        BY <1>10, Zenon DEF BlockOnReady
      <4>2. Rest
        BY DEF IInv, TypeOK, Rest
      <4>3. recvq' \in Seq(Clients)
        BY <4>1, <4>2 DEF Rest
      <4>4. Rest'
        BY <4>1, <4>2, <4>3, Zenon DEF Rest
      <4> QED BY <4>1, <4>4
    <3>3. has' = [has EXCEPT ![p] = has[p]] /\ loose' = [loose EXCEPT ![p] = loose[p]]
      BY <3>2, Same, Zenon
    <3> QED
      BY <3>1, <3>2, <3>3, Same, Updated, ZenonT(30)
  <2>2. WaitQueue'
    <3>1. /\ recvq \in Seq(Clients) /\ Len(recvq') = Len(recvq) + 1 /\ Len(recvq) \in Nat
          /\ \A i \in 1..Len(recvq) : recvq'[i] = recvq[i]
          /\ recvq'[Len(recvq) + 1] = p
      <4>1. recvq' = Append(recvq, p) /\ recvq \in Seq(Clients)
        BY <1>10 DEF BlockOnReady, IInv, TypeOK
      <4> QED BY <4>1
    <3>2. \A i \in 1..Len(recvq) : recvq[i] # p /\ recvq[i] \in Procs
      BY <1>10, <3>1 DEF BlockOnReady, IInv, WaitQueue
    <3>3. \A h \in Procs : pc'[h] = IF h = p THEN "wait" ELSE pc[h]
      BY <1>10 DEF BlockOnReady, Goto, IInv, TypeOK
    <3> QED
      <4>1. \A i \in 1..Len(recvq) : pc[recvq[i]] = "wait"
        BY Zenon DEF IInv, WaitQueue
      <4>2. \A i, j \in 1..Len(recvq) : recvq[i] = recvq[j] => i = j
        BY Zenon DEF IInv, WaitQueue
      <4>a. Len(recvq') = Len(recvq) + 1 /\ Len(recvq) \in Nat /\ recvq'[Len(recvq) + 1] = p
        BY <3>1, Zenon
      <4>b. \A i \in 1..Len(recvq) : recvq'[i] = recvq[i]
        BY <3>1, Zenon
      <4>3. ASSUME NEW i \in 1..Len(recvq')
            PROVE  i \in 1..Len(recvq) \/ i = Len(recvq) + 1
        BY <4>a
      <4>4. \A i \in 1..Len(recvq') : pc'[recvq'[i]] = "wait"
        BY <3>2, <3>3, <4>1, <4>3, <4>a, <4>b, Zenon
      <4>5. \A i, j \in 1..Len(recvq') : recvq'[i] = recvq'[j] => i = j
        BY <3>1, <3>2, <4>2, <4>3
      <4> QED
        BY <4>4, <4>5, Zenon DEF WaitQueue
  <2>3. Core'
    BY <1>10, <2>2, NoCountStep, Zenon DEF BlockOnReady, Goto
  <2> QED BY <2>1, <2>3
<1>11. CASE CallerCtxDone(p)
  <2> PICK k \in 1..Len(recvq) : recvq[k] = p /\ recvq' = Without(recvq, k)
    BY <1>11 DEF CallerCtxDone
  <2>0. recvq \in Seq(Clients) /\ Len(recvq) \in Nat
    BY DEF IInv, TypeOK
  <2>1. /\ recvq' \in Seq(Clients) /\ Len(recvq') = Len(recvq) - 1
        /\ \A i \in 1..Len(recvq) - 1 : recvq'[i] = IF i < k THEN recvq[i] ELSE recvq[i + 1]
    BY <2>0, WithoutSeq, Zenon
  <2>2. pc[p] = "wait"
    BY DEF IInv, WaitQueue
  <2>3. \A h \in Procs : pc'[h] = IF h = p THEN "out" ELSE pc[h]
    BY <1>11 DEF CallerCtxDone, Goto, IInv, TypeOK
  <2>4. WaitQueue'
    <3>1. \A i \in 1..Len(recvq) - 1 :
            \E j \in 1..Len(recvq) : j # k /\ recvq'[i] = recvq[j] /\ (j = IF i < k THEN i ELSE i + 1)
      BY <2>0, <2>1
    <3>2. \A j \in 1..Len(recvq) : j # k => recvq[j] # p /\ recvq[j] \in Procs /\ pc[recvq[j]] = "wait"
      BY <2>0 DEF IInv, WaitQueue
    <3>3. \A i \in 1..Len(recvq') : pc'[recvq'[i]] = "wait"
      BY <2>1, <2>3, <3>1, <3>2
    <3>4. \A i, j \in 1..Len(recvq') : recvq'[i] = recvq'[j] => i = j
      <4> DEFINE up(i) == IF i < k THEN i ELSE i + 1
      <4>1. \A i \in 1..Len(recvq) - 1 : up(i) \in 1..Len(recvq) /\ recvq'[i] = recvq[up(i)]
        BY <2>0, <2>1
      <4>2. \A i, j \in 1..Len(recvq) - 1 : up(i) = up(j) => i = j
        OBVIOUS
      <4> HIDE DEF up
      <4>3. \A i, j \in 1..Len(recvq) : recvq[i] = recvq[j] => i = j
        BY DEF IInv, WaitQueue
      <4>4. \A i, j \in 1..Len(recvq) - 1 : recvq'[i] = recvq'[j] => i = j
        BY <4>1, <4>2, <4>3
      <4> QED
        BY <2>1, <4>4
    <3> QED
      BY <3>3, <3>4 DEF WaitQueue
  <2>5. TypeOK' /\ Shape'
    <3>1. Fits(p, "out", has[p], loose[p])
      BY <2>2, FitsNow DEF IInv, Fits, ClientPC, Starters
    <3>2. UNCHANGED <<has, loose, idle, TotalCount, open, left, closing>> /\ Goto(p, "out")
      BY <1>11, Zenon DEF CallerCtxDone
    <3>3. Rest'
      BY <2>1, <3>2, Zenon DEF IInv, TypeOK, Rest
    <3>4. has' = [has EXCEPT ![p] = has[p]] /\ loose' = [loose EXCEPT ![p] = loose[p]]
      BY <3>2, Same
    <3> QED
      BY <3>1, <3>2, <3>3, <3>4, Same, Updated, Zenon
  <2>6. Core'
    BY <1>11, <2>4, NoCountStep, Zenon DEF CallerCtxDone, Goto
  <2> QED BY <2>5, <2>6
<1> QED
  BY <1>1, <1>2, <1>3, <1>6, <1>7, <1>8, <1>9, <1>10, <1>11, Zenon
     DEF ClientStep, GetConnPingFails, GetConnCloses, PutConn, DropConn, DropConnCloses
=============================================================================
