-------------------------------- MODULE Pool --------------------------------
(***************************************************************************)
(* The connection pool of the client package (src/client/pool.go): callers *)
(* of GetConn, PutConn and DropConn, the newConnectionProducer goroutine,  *)
(* the closeOldIdleConnections goroutine with its two ping workers, the    *)
(* startNewConnections goroutine of the constructor, and Close.            *)
(*                                                                         *)
(* Every critical section of pool.synchro is one action, because nothing   *)
(* in it blocks; what a goroutine does between two critical sections is    *)
(* one action per connect, ping or conn.Close.  Time is abstracted: which  *)
(* connections have been idle for too long, and whether a ping or a        *)
(* connect succeeds, are free choices.  The idle stack is a set, so the    *)
(* connection popped is any idle one.                                      *)
(***************************************************************************)
EXTENDS Integers, FiniteSets, Sequences

CONSTANTS
    Clients,                 \* goroutines that call GetConn, PutConn, DropConn
    Workers,                 \* the goroutines of recheckConnections
    producer,                \* newConnectionProducer
    recycler,                \* closeOldIdleConnections
    starter,                 \* go pool.startNewConnections(pool.minAlive)
    Conns,                   \* identities of connections, reused after Close
    OptMinAlive, OptMaxAlive, OptMaxIdle,    \* WithPoolLimits
    MaxNewConnectionAtOnce

Procs == Clients \cup Workers \cup {producer, recycler, starter}
Starters == {starter, recycler}

ASSUME PoolAssumption ==
    /\ IsFiniteSet(Conns)
    /\ Clients \cap Workers = {}
    /\ producer \notin Clients \cup Workers
    /\ recycler \notin Clients \cup Workers
    /\ starter \notin Clients \cup Workers
    /\ producer # recycler /\ producer # starter /\ recycler # starter
    /\ OptMinAlive \in Nat /\ OptMaxAlive \in Nat /\ OptMaxIdle \in Nat
    /\ MaxNewConnectionAtOnce \in Nat \ {0}

(***************************************************************************)
(* NewPoolWithOptions clamps the limits in this order.                     *)
(***************************************************************************)
Least(a, b) == IF a < b THEN a ELSE b
minAlive == Least(OptMinAlive, OptMaxAlive)
maxAlive == OptMaxAlive
maxIdle == IF Least(OptMaxIdle, maxAlive) <= minAlive
           THEN minAlive
           ELSE Least(OptMaxIdle, maxAlive)

VARIABLES
    pc,          \* where each goroutine is
    has,         \* connections in a goroutine's local variables, counted in TotalCount
    loose,       \* the connection it has open but not counted: just created by
                 \*   startNewConnections, or being closed by closeConn
    idle,        \* synchro.idleConnections
    TotalCount,  \* synchro.stats.TotalCount
    open,        \* connections whose socket is open
    recvq,       \* callers blocked on readyConnection, in arrival order
    left,        \* iterations startNewConnections still has to do
    closing      \* Close: "no", "waiting" (cancelled, in wg.Wait), "done"

vars == <<pc, has, loose, idle, TotalCount, open, recvq, left, closing>>

ctxDone == closing # "no"
\* Faulty variant: Close truncates the stack and keeps its capacity.
idleCapKept == maxIdle

idleCap == IF closing = "done" THEN 0 ELSE maxIdle

ClientPC == {"out", "loop", "get", "recv", "wait", "check", "own", "closeBad", "closeDropped"}
WorkerPC == {"ready", "ping", "close"}
ProducerPC == {"loop", "create", "backoff", "offer", "close", "exit"}
RecyclerPC == {"tick", "recheck", "spawn", "create", "count", "closeIdle", "closeList", "close", "exit"}
StarterPC == {"create", "count", "exit"}

Init ==
    /\ pc = [g \in Procs |-> CASE g \in Clients -> "out"
                               [] g \in Workers -> "ready"
                               [] g = producer -> "loop"
                               [] g = recycler -> "tick"
                               [] g = starter -> IF minAlive > 0 THEN "create" ELSE "exit"]
    /\ has = [g \in Procs |-> {}]
    /\ loose = [g \in Procs |-> {}]
    /\ idle = {}
    /\ TotalCount = 0
    /\ open = {}
    /\ recvq = <<>>
    /\ left = [g \in Starters |-> IF g = starter THEN minAlive ELSE 0]
    /\ closing = "no"

-----------------------------------------------------------------------------
(***************************************************************************)
(* Steps shared by several goroutines.                                     *)
(***************************************************************************)
Goto(g, l) == pc' = [pc EXCEPT ![g] = l]

\* closeConn, first half: the counter is decremented under the lock.
Uncount(g, c, l) ==
    /\ TotalCount' = TotalCount - 1
    /\ has' = [has EXCEPT ![g] = @ \ {c}]
    /\ loose' = [loose EXCEPT ![g] = {c}]
    /\ Goto(g, l)
    /\ UNCHANGED <<idle, open, recvq, left, closing>>

\* closeConn, second half: conn.Close outside the lock.
CloseSocket(g, l) ==
    /\ open' = open \ loose[g]
    /\ loose' = [loose EXCEPT ![g] = {}]
    /\ Goto(g, l)
    /\ UNCHANGED <<has, idle, TotalCount, recvq, left, closing>>

\* A connection of g is received by the caller that has waited longest.
HandOver(g, c, l) ==
    /\ recvq # <<>>
    /\ pc' = [pc EXCEPT ![g] = l, ![Head(recvq)] = "check"]
    /\ has' = [has EXCEPT ![g] = @ \ {c}, ![Head(recvq)] = {c}]
    /\ recvq' = Tail(recvq)
    /\ UNCHANGED <<loose, idle, TotalCount, open, left, closing>>

\* Faulty variants of putConnectionUnsafe: the overflow is closed but stays
\* counted, or is uncounted but stays open.
PutUnsafeStillCounted(g, S, l) ==
    /\ \E kept \in SUBSET S :
          /\ Cardinality(kept) = Least(Cardinality(S), idleCap - Cardinality(idle))
          /\ idle' = idle \cup kept
          /\ open' = open \ (S \ kept)
    /\ has' = [has EXCEPT ![g] = @ \ S]
    /\ Goto(g, l)
    /\ UNCHANGED <<TotalCount, loose, recvq, left, closing>>

PutUnsafeStillOpen(g, S, l) ==
    /\ \E kept \in SUBSET S :
          /\ Cardinality(kept) = Least(Cardinality(S), idleCap - Cardinality(idle))
          /\ idle' = idle \cup kept
          /\ TotalCount' = TotalCount - Cardinality(S \ kept)
    /\ has' = [has EXCEPT ![g] = @ \ S]
    /\ Goto(g, l)
    /\ UNCHANGED <<open, loose, recvq, left, closing>>

\* putConnectionUnsafe for a set of connections: the stack takes what it has
\* room for, the rest is uncounted and closed under the lock.
PutUnsafe(g, S, l) ==
    /\ \E kept \in SUBSET S :
          /\ Cardinality(kept) = Least(Cardinality(S), idleCap - Cardinality(idle))
          /\ idle' = idle \cup kept
          /\ TotalCount' = TotalCount - Cardinality(S \ kept)
          /\ open' = open \ (S \ kept)
    /\ has' = [has EXCEPT ![g] = @ \ S]
    /\ Goto(g, l)
    /\ UNCHANGED <<loose, recvq, left, closing>>

\* putConnection: a waiting caller first, the idle stack otherwise.
Put(g, c, l) ==
    \/ HandOver(g, c, l)
    \/ recvq = <<>> /\ PutUnsafe(g, {c}, l)

\* Faulty variant: the connection is read but not popped.
TakeIdleNotPopped(g, c, l) ==
    /\ has' = [has EXCEPT ![g] = {c}]
    /\ Goto(g, l)
    /\ UNCHANGED <<idle, loose, TotalCount, open, recvq, left, closing>>

\* getIdleConnectionUnsafe
TakeIdle(g, c, l) ==
    /\ idle' = idle \ {c}
    /\ has' = [has EXCEPT ![g] = {c}]
    /\ Goto(g, l)
    /\ UNCHANGED <<loose, TotalCount, open, recvq, left, closing>>

Move(g, from, to) ==
    /\ pc[g] = from
    /\ Goto(g, to)
    /\ UNCHANGED <<has, loose, idle, TotalCount, open, recvq, left, closing>>

-----------------------------------------------------------------------------
(***************************************************************************)
(* Callers.  A caller holds at most one connection.                        *)
(***************************************************************************)
StartGetConn(p) == Move(p, "out", "loop")

\* The head of GetConn's loop reads pool.ctx.Err().
CheckPoolCtx(p) == Move(p, "loop", IF ctxDone THEN "out" ELSE "get")

\* getConnection pops an idle connection under the lock ...
GetIdle(p) ==
    /\ pc[p] = "get"
    /\ \/ \E c \in idle : TakeIdle(p, c, "check")
       \/ idle = {} /\ Move(p, "get", "recv")

\* ... or, with the lock released, blocks on readyConnection
BlockOnReady(p) ==
    /\ pc[p] = "recv"
    /\ recvq' = Append(recvq, p)
    /\ Goto(p, "wait")
    /\ UNCHANGED <<has, loose, idle, TotalCount, open, left, closing>>

\* until the caller's own context is done and it leaves the wait queue.
Without(s, k) == [i \in 1..Len(s) - 1 |-> IF i < k THEN s[i] ELSE s[i + 1]]

CallerCtxDone(p) ==
    /\ \E k \in 1..Len(recvq) : recvq[k] = p /\ recvq' = Without(recvq, k)
    /\ Goto(p, "out")
    /\ UNCHANGED <<has, loose, idle, TotalCount, open, left, closing>>

\* The connection was used recently, or the ping succeeds: GetConn returns it.
GetConnReturns(p) == Move(p, "check", "own")

\* The ping fails: closeConn, then the next iteration.
GetConnPingFails(p) == pc[p] = "check" /\ \E c \in has[p] : Uncount(p, c, "closeBad")

GetConnCloses(p) == pc[p] = "closeBad" /\ CloseSocket(p, "loop")

PutConn(p) == pc[p] = "own" /\ \E c \in has[p] : Put(p, c, "out")

DropConn(p) == pc[p] = "own" /\ \E c \in has[p] : Uncount(p, c, "closeDropped")

DropConnCloses(p) == pc[p] = "closeDropped" /\ CloseSocket(p, "out")

-----------------------------------------------------------------------------
(***************************************************************************)
(* newConnectionProducer.  At the limit it sleeps and tries again without  *)
(* looking at pool.ctx: that iteration changes nothing.                    *)
(***************************************************************************)
\* Faulty variants: the limit is off by one; the producer only makes new
\* connections and leaves the idle ones alone.
ProducerTakesOneMore ==
    /\ pc[producer] = "loop"
    /\ \/ \E c \in idle : TakeIdle(producer, c, "offer")
       \/ /\ idle = {}
          /\ TotalCount <= maxAlive
          /\ TotalCount' = TotalCount + 1
          /\ Goto(producer, "create")
          /\ UNCHANGED <<has, loose, idle, open, recvq, left, closing>>

ProducerOnlyCreates ==
    /\ pc[producer] = "loop"
    /\ TotalCount < maxAlive
    /\ TotalCount' = TotalCount + 1
    /\ Goto(producer, "create")
    /\ UNCHANGED <<has, loose, idle, open, recvq, left, closing>>

ProducerTakes ==
    /\ pc[producer] = "loop"
    /\ \/ \E c \in idle : TakeIdle(producer, c, "offer")
       \/ /\ idle = {}
          /\ TotalCount < maxAlive
          /\ TotalCount' = TotalCount + 1
          /\ Goto(producer, "create")
          /\ UNCHANGED <<has, loose, idle, open, recvq, left, closing>>

ProducerConnects ==
    /\ pc[producer] = "create"
    /\ \E c \in Conns \ open :
          /\ open' = open \cup {c}
          /\ has' = [has EXCEPT ![producer] = {c}]
    /\ Goto(producer, "offer")
    /\ UNCHANGED <<loose, idle, TotalCount, recvq, left, closing>>

ProducerConnectFails ==
    /\ pc[producer] = "create"
    /\ TotalCount' = TotalCount - 1
    /\ Goto(producer, "backoff")
    /\ UNCHANGED <<has, loose, idle, open, recvq, left, closing>>

ProducerBackoff == Move(producer, "backoff", "loop")

ProducerBackoffExit == ctxDone /\ Move(producer, "backoff", "exit")

ProducerHandsOver ==
    pc[producer] = "offer" /\ \E c \in has[producer] : HandOver(producer, c, "loop")

\* Faulty variant: the producer leaves with the connection it was offering.
ProducerCtxDoneLeaks ==
    /\ pc[producer] = "offer"
    /\ ctxDone
    /\ Goto(producer, "exit")
    /\ UNCHANGED <<has, loose, idle, TotalCount, open, recvq, left, closing>>

ProducerCtxDone ==
    /\ pc[producer] = "offer"
    /\ ctxDone
    /\ \E c \in has[producer] : Uncount(producer, c, "close")

ProducerCloses == pc[producer] = "close" /\ CloseSocket(producer, "exit")

-----------------------------------------------------------------------------
(***************************************************************************)
(* startNewConnections, called by the constructor's goroutine and by       *)
(* spawnConnectionsIfNeeded.  It never looks at maxAlive.                  *)
(***************************************************************************)
\* Faulty variant: one iteration too many.
StartOneTooMany(g) ==
    /\ pc[g] = "create"
    /\ left[g] >= 0
    /\ left' = [left EXCEPT ![g] = @ - 1]
    /\ UNCHANGED <<pc, open, loose, has, idle, TotalCount, recvq, closing>>

StartOne(g) ==
    /\ pc[g] = "create"
    /\ left[g] > 0
    /\ left' = [left EXCEPT ![g] = @ - 1]
    /\ \/ /\ \E c \in Conns \ open :
                /\ open' = open \cup {c}
                /\ loose' = [loose EXCEPT ![g] = {c}]
          /\ Goto(g, "count")
       \/ UNCHANGED <<pc, open, loose>>
    /\ UNCHANGED <<has, idle, TotalCount, recvq, closing>>

StartCounts(g) ==
    /\ pc[g] = "count"
    /\ TotalCount' = TotalCount + 1
    /\ has' = [has EXCEPT ![g] = @ \cup loose[g]]
    /\ loose' = [loose EXCEPT ![g] = {}]
    /\ Goto(g, "create")
    /\ UNCHANGED <<idle, open, recvq, left, closing>>

StartPutsAll(g) ==
    /\ pc[g] = "create"
    /\ left[g] = 0
    /\ PutUnsafe(g, has[g], IF g = starter THEN "exit" ELSE "tick")

-----------------------------------------------------------------------------
(***************************************************************************)
(* closeOldIdleConnections.  A tick that finds no old idle connection      *)
(* changes nothing.                                                        *)
(***************************************************************************)
RecyclerCtxDone == ctxDone /\ Move(recycler, "tick", "exit")

\* getOldIdleConnections: the old connections leave the stack.
RecyclerTick ==
    /\ pc[recycler] = "tick"
    /\ \E S \in SUBSET idle \ {{}} :
          /\ idle' = idle \ S
          /\ has' = [has EXCEPT ![recycler] = S]
    /\ Goto(recycler, "recheck")
    /\ UNCHANGED <<loose, TotalCount, open, recvq, left, closing>>

\* recheckConnections: has[recycler] is the queue its workers drain.
WorkerReceives(w) ==
    /\ pc[recycler] = "recheck"
    /\ pc[w] = "ready"
    /\ \E c \in has[recycler] : has' = [has EXCEPT ![recycler] = @ \ {c}, ![w] = {c}]
    /\ Goto(w, "ping")
    /\ UNCHANGED <<loose, idle, TotalCount, open, recvq, left, closing>>

WorkerPingOk(w) == pc[w] = "ping" /\ \E c \in has[w] : Put(w, c, "ready")

WorkerPingFails(w) == pc[w] = "ping" /\ \E c \in has[w] : Uncount(w, c, "close")

WorkerCloses(w) == pc[w] = "close" /\ CloseSocket(w, "ready")

\* wg.Wait of recheckConnections
RecheckDone ==
    /\ has[recycler] = {}
    /\ \A w \in Workers : pc[w] = "ready"
    /\ Move(recycler, "recheck", "spawn")

spawnConnectionsIfNeeded ==
    /\ pc[recycler] = "spawn"
    /\ IF minAlive - TotalCount <= 0
       THEN Goto(recycler, "closeIdle") /\ UNCHANGED left
       ELSE /\ left' = [left EXCEPT ![recycler] = Least(minAlive - TotalCount, MaxNewConnectionAtOnce)]
            /\ Goto(recycler, "create")
    /\ UNCHANGED <<has, loose, idle, TotalCount, open, recvq, closing>>

\* How many idle connections may be closed now: a tenth of them, at least
\* one, and never below minAlive plus the one the producer offers.
canCloseCnt ==
    Least(TotalCount - minAlive - 1,
          IF Cardinality(idle) \div 10 = 0 THEN 1 ELSE Cardinality(idle) \div 10)

closeIdleConnectionsIfCan ==
    /\ pc[recycler] = "closeIdle"
    /\ IF canCloseCnt <= 0
       THEN Goto(recycler, "tick") /\ UNCHANGED <<idle, has>>
       ELSE /\ \E S \in SUBSET idle :
                  /\ Cardinality(S) = Least(canCloseCnt, Cardinality(idle))
                  /\ idle' = idle \ S
                  /\ has' = [has EXCEPT ![recycler] = S]
            /\ Goto(recycler, "closeList")
    /\ UNCHANGED <<loose, TotalCount, open, recvq, left, closing>>

RecyclerCloseNext ==
    /\ pc[recycler] = "closeList"
    /\ \/ \E c \in has[recycler] : Uncount(recycler, c, "close")
       \/ has[recycler] = {} /\ Move(recycler, "closeList", "tick")

RecyclerCloses == pc[recycler] = "close" /\ CloseSocket(recycler, "closeList")

-----------------------------------------------------------------------------
(***************************************************************************)
(* Close: cancel, wait for the producer and the recycler (the constructor's*)
(* startNewConnections is not in the WaitGroup), close what is idle.       *)
(***************************************************************************)
CloseCancels ==
    /\ closing = "no"
    /\ closing' = "waiting"
    /\ UNCHANGED <<pc, has, loose, idle, TotalCount, open, recvq, left>>

CloseFinishes ==
    /\ closing = "waiting"
    /\ pc[producer] = "exit"
    /\ pc[recycler] = "exit"
    /\ TotalCount' = TotalCount - Cardinality(idle)
    /\ open' = open \ idle
    /\ idle' = {}
    /\ closing' = "done"
    /\ UNCHANGED <<pc, has, loose, recvq, left>>

-----------------------------------------------------------------------------
ClientStep(p) ==
    \/ CheckPoolCtx(p) \/ GetIdle(p) \/ BlockOnReady(p)
    \/ GetConnReturns(p) \/ GetConnPingFails(p) \/ GetConnCloses(p)
    \/ PutConn(p) \/ DropConn(p) \/ DropConnCloses(p)

ProducerStep ==
    \/ ProducerTakes \/ ProducerConnects \/ ProducerConnectFails
    \/ ProducerBackoff \/ ProducerBackoffExit
    \/ ProducerHandsOver \/ ProducerCtxDone \/ ProducerCloses

StarterStep(g) == StartOne(g) \/ StartCounts(g) \/ StartPutsAll(g)

WorkerStep(w) == WorkerReceives(w) \/ WorkerPingOk(w) \/ WorkerPingFails(w) \/ WorkerCloses(w)

RecyclerStep ==
    \/ RecheckDone \/ spawnConnectionsIfNeeded \/ closeIdleConnectionsIfCan
    \/ RecyclerCloseNext \/ RecyclerCloses

Next ==
    \/ \E p \in Clients : StartGetConn(p) \/ CallerCtxDone(p) \/ ClientStep(p)
    \/ ProducerStep
    \/ \E g \in Starters : StarterStep(g)
    \/ \E w \in Workers : WorkerStep(w)
    \/ RecyclerCtxDone \/ RecyclerTick \/ RecyclerStep
    \/ CloseCancels \/ CloseFinishes

Spec == Init /\ [][Next]_vars

(***************************************************************************)
(* Fairness.  Every goroutine that can run eventually runs (Go scheduler). *)
(* A caller gives its connection back (the usage in pool.go defers         *)
(* PutConn).  Where a goroutine is offered a choice again and again, the   *)
(* outcome the property needs is taken sometime: connecting succeeds       *)
(* sometimes, a select whose ctx.Done case is ready picks it sometimes,    *)
(* pings do not fail for ever.  The producer polls every 10 ms and the     *)
(* recycler every 5 s, so the producer does not miss an idle connection    *)
(* again and again.                                                        *)
(***************************************************************************)
Fairness ==
    /\ \A p \in Clients : WF_vars(ClientStep(p)) /\ SF_vars(GetConnReturns(p))
    /\ WF_vars(ProducerStep)
    /\ SF_vars(ProducerTakes)
    /\ SF_vars(ProducerConnects)
    /\ SF_vars(ProducerCtxDone)
    /\ \A g \in Starters : WF_vars(StarterStep(g))
    /\ \A w \in Workers : WF_vars(WorkerStep(w))
    /\ WF_vars(RecyclerStep)
    /\ SF_vars(RecyclerCtxDone)
    /\ WF_vars(CloseFinishes)

FairSpec == Spec /\ Fairness

-----------------------------------------------------------------------------
(***************************************************************************)
(* Properties.                                                             *)
(***************************************************************************)
\* The values each variable ranges over.
TypeOK ==
    /\ pc \in [Procs -> ClientPC \cup WorkerPC \cup ProducerPC \cup RecyclerPC \cup StarterPC]
    /\ \A p \in Clients : pc[p] \in ClientPC
    /\ \A w \in Workers : pc[w] \in WorkerPC
    /\ pc[producer] \in ProducerPC
    /\ pc[recycler] \in RecyclerPC
    /\ pc[starter] \in StarterPC
    /\ has \in [Procs -> SUBSET Conns]
    /\ loose \in [Procs -> SUBSET Conns]
    /\ idle \in SUBSET Conns
    /\ TotalCount \in Int
    /\ open \in SUBSET Conns
    /\ recvq \in Seq(Clients)
    /\ left \in [Starters -> Nat]
    /\ closing \in {"no", "waiting", "done"}

\* The connections TotalCount stands for: the idle ones and those in the
\* local variables of some goroutine.
Counted == idle \cup UNION {has[g] : g \in Procs}

\* 1 while newConnectionProducer has "reserved" a connection it has not made.
Reserved == IF pc[producer] = "create" THEN 1 ELSE 0

\* TotalCount is exact: whatever the interleaving of callers, producer,
\* recycler and Close, it equals the number of connections that are idle, lent
\* or in some goroutine's hands, plus the producer's reservation.  The limit in
\* newConnectionProducer and the arithmetic of spawnConnectionsIfNeeded and
\* closeIdleConnectionsIfCan rest on it.
TotalCountExact == TotalCount = Cardinality(Counted) + Reserved

\* A connection is in one place only: never idle while lent, never in the
\* hands of two goroutines, never used while it is being closed.
OneOwner ==
    \A g \in Procs :
        /\ (has[g] \cup loose[g]) \cap idle = {}
        /\ has[g] \cap loose[g] = {}
        /\ \A h \in Procs \ {g} : (has[g] \cup loose[g]) \cap (has[h] \cup loose[h]) = {}

\* No connection leaks and no closed one is kept: the open sockets are exactly
\* the connections that are idle or in the hands of a goroutine that will put
\* them back or close them.  In particular GetConn never returns a closed one.
OpenAreOwned == open = Counted \cup UNION {loose[g] : g \in Procs}

\* The idle stack never outgrows its capacity, and after Close has returned
\* nothing that comes back late (PutConn, the constructor's
\* startNewConnections) is kept.
IdleWithinCap ==
    /\ Cardinality(idle) <= maxIdle
    /\ closing = "done" => idle = {}

\* startNewConnections ignores maxAlive, so the number of connections can
\* exceed it, but by no more than one batch of the constructor and one of
\* spawnConnectionsIfNeeded.
AliveBound == TotalCount <= maxAlive + 2 * minAlive

\* A caller blocked in GetConn on an open pool is served, gives up, or sees the
\* pool closed: no connection is parked where no waiter can reach it.
WaiterServed ==
    \A p \in Clients : pc[p] = "wait" ~> (pc[p] \in {"check", "out"} \/ ctxDone)

\* Close returns although the producer ignores the cancelled context while the
\* pool is at its limit, and then every connection ever handed out or still
\* being created ends up closed.
CloseDrains == ctxDone ~> [](closing = "done" /\ open = {} /\ TotalCount = 0)
=============================================================================
