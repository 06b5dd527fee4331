----------------------------- MODULE AppHerder -----------------------------
(***************************************************************************)
(* The application herder of cbft (src/unnamed/part_000, appHerder): the   *)
(* memory admission controller shared by index batch goroutines, query     *)
(* goroutines and the engines' lifecycle callbacks.                        *)
(*                                                                         *)
(* Every critical section of the Go code between a.m.Lock() and            *)
(* a.m.Unlock() with no suspension point inside is one atomic action       *)
(* guarded by LockFree.  The only place a goroutine keeps the mutex across *)
(* steps is the blocking send on overQuotaCh inside the gate loop (line    *)
(* 158), and between the two atomic loads of preIndexingMemoryLOCKED       *)
(* (lines 190-191), which other goroutines' batches may straddle: a worker *)
(* in pc "send" or "loaded" holds the mutex.  sync.Cond is modelled by its *)
(* notify list: the workers in pc "wait"; Broadcast moves them to "woken", *)
(* from where each reacquires the mutex on its own.                        *)
(***************************************************************************)
EXTENDS Integers, FiniteSets, FiniteSetsExt, GoInt

CONSTANTS
    Workers,        \* goroutines that run index batches (onBatchExecuteStart)
    Engines,        \* index handles: moss collections / scorch instances
    Unhooked,       \* moss collections whose LowerLevelUpdate is nil
    StatsMayFail,   \* moss collections whose Stats() may return an error
    Scorch,         \* scorch instances; every other engine is a moss collection
    Queriers,       \* goroutines that run queries (onQueryStart/onQueryEnd)
    MemQuota,       \* newAppHerder's memQuota (uint64)
    AppPercent,     \* appRatio * 100
    IndexPercent,   \* indexRatio * 100
    QueryPercent,   \* queryRatio * 100
    MemLevels,      \* values the RSS sampler may store in CurMemoryUsed
    QuerySizes,     \* estimated query sizes passed to onQueryStart
    Depths,         \* query depths passed to onQueryStart
    MaxEngineSize,  \* bound on an engine's in-memory bytes
    HasOverQuotaCh, \* overQuotaCh != nil
    ChCap,          \* buffer capacity of overQuotaCh
    CloseRacesBatch,\* an engine may close while a batch-start event for it
                    \* has not yet reached a.m.Lock()
    MaxEvents       \* bound on external events (batches, queries, samples, merges)

ASSUME /\ MemQuota \in 0..(2^WordBits - 1)
       /\ {AppPercent, IndexPercent, QueryPercent} \subseteq Int
       /\ ChCap \in Nat \ {0}
       /\ Unhooked \subseteq Engines /\ StatsMayFail \subseteq Engines
       /\ Scorch \subseteq Engines /\ Scorch \cap (Unhooked \cup StatsMayFail) = {}
       /\ {HasOverQuotaCh, CloseRacesBatch} \subseteq BOOLEAN

\* The value a dead per-call local (batchOn, qSize, qDepth) is reset to.
NoEngine == CHOOSE e \in Engines : TRUE

\* newAppHerder: the derived quotas, fixed for the herder's life.
appQuota   == ScaleQuota(ToInt64(MemQuota), AppPercent)
indexQuota == ScaleQuota(appQuota, IndexPercent)
queryQuota == ScaleQuota(appQuota, QueryPercent)

\* The configurations checked here keep every float conversion in range;
\* QuotaConfig covers the ones that leave it.
ASSUME \A q \in {appQuota, indexQuota, queryQuota} : Int64OfFloat(q) = {q}

VARIABLES
    pc,               \* [Workers -> program point in onBatchExecuteStart]
    batchOn,          \* [Workers -> engine of the worker's current batch]
    indexes,          \* a.indexes: registered engines (keys of the map)
    waiting,          \* a.waiting
    stats,            \* a.stats
    runningQueryUsed, \* a.runningQueryUsed (uint64)
    qpc,              \* [Queriers -> program point of the query]
    qSize, qDepth,    \* arguments of the querier's current onQueryStart
    engineSize,       \* [Engines -> bytes the size callback reports]
    open,             \* engines not yet closed
    persistPending,   \* engines whose persister has yet to call onPersisterProgress
    curMem,           \* cbft.CurMemoryUsed
    dropPending,      \* the sampler has yet to call onMemoryUsedDropped
    ch,               \* number of signals buffered in overQuotaCh
    budget,           \* external events left
    loads,            \* [Workers -> the loop test's locals between its loads]
    statsErr          \* collections whose Stats() currently returns an error

vars == <<pc, batchOn, indexes, waiting, stats, runningQueryUsed, qpc, qSize,
          qDepth, engineSize, open, persistPending, curMem, dropPending, ch,
          budget, loads, statsErr>>

-----------------------------------------------------------------------------
(* Shared state of the gate.                                               *)

\* Mutant: the counters are loaded after a.m is released, so a worker
\* between its loads no longer excludes the other goroutines.
LockFreeSendOnly == \A w \in Workers : pc[w] # "send"

\* Mutant: waitCond built on another mutex, so Wait keeps a.m held.
LockFreeHeldInWait == \A w \in Workers : pc[w] \notin {"send", "loaded", "wait"}

\* The only goroutines that hold a.m across steps are a worker blocked on
\* the overQuotaCh send and one between its two counter loads.
LockFree == \A w \in Workers : pc[w] \notin {"send", "loaded"}

\* Workers between the atomic add of line 138 and the one of line 177.
InGate == {w \in Workers : pc[w] \in {"enter", "loaded", "send", "wait", "woken",
                                      "exit"}}

\* Workers that have counted themselves in a.waiting (lines 150..163).
Waiters == {w \in Workers : pc[w] \in {"send", "wait", "woken"}}

\* What an engine's size callback answers: mossSize logs a Stats() error
\* and answers 0; otherwise it is the engine's in-memory bytes.
SizeFunc(e) == IF e \in statsErr THEN 0 ELSE engineSize[e]

\* indexingMemoryLOCKED: sum of the registered engines' size callbacks.
IndexingMemory(idx) == MapThenSumSet(SizeFunc, idx)

\* BatchBytesAdded - BatchBytesRemoved, i.e. the bytes of batches built by
\* the batching layer and not yet executed; one unit per outstanding batch.
PreIndexingMemory == Cardinality({w \in Workers : pc[w] # "idle"})

\* The locals of the loop test while it is between its loads: memUsed, the
\* int64 of CurMemoryUsed (line 206), and what line 190's subtraction will
\* give, BatchBytesAdded as loaded minus BatchBytesRemoved as it is now.
NoLoads == [memUsed |-> 0, pre |-> 0]

\* The quota tests of lines 213-220 on a computed memUsed.
OverQuota(memUsed) ==
    \/ indexQuota > 0 /\ memUsed > indexQuota
    \/ appQuota > 0 /\ memUsed > appQuota

\* memUsed += int64(preIndexingMemory) (line 211).
MemUsedWith(memUsed, pre) == ToInt64(memUsed + ToInt64(pre))

\* overMemQuotaForIndexingLOCKED over registry idx, were its loads one
\* snapshot of the current state.
OverMemQuotaForIndexing(idx) ==
    /\ IndexingMemory(idx) # 0
    /\ OverQuota(MemUsedWith(curMem, PreIndexingMemory))

\* Mutant: the waiting test off by one.
AwakeWaitersMissesOne ==
    IF waiting > 1
    THEN pc' = [w \in Workers |-> IF pc[w] = "wait" THEN "woken" ELSE pc[w]]
    ELSE UNCHANGED pc

\* awakeWaitersLOCKED: Broadcast if anyone is counted as waiting.
AwakeWaiters ==
    IF waiting > 0
    THEN pc' = [w \in Workers |-> IF pc[w] = "wait" THEN "woken" ELSE pc[w]]
    ELSE UNCHANGED pc

Bump(s, f) == [s EXCEPT ![f] = @ + 1]

\* Mutant: TotWaitingIn not counted on entering the wait.
GateLoopUncounted(w, over, waiting0, stats0) ==
    /\ loads' = [loads EXCEPT ![w] = NoLoads]
    /\ IF over
       THEN /\ waiting' = waiting0 + 1
            /\ stats' = stats0
            /\ pc' = [pc EXCEPT ![w] = IF HasOverQuotaCh THEN "send" ELSE "wait"]
       ELSE /\ waiting' = waiting0
            /\ stats' = stats0
            /\ pc' = [pc EXCEPT ![w] = "exit"]

\* The for-loop of onBatchExecuteStart once its condition has given the
\* verdict over, with the mutex held, waiting0 and stats0 being the values
\* at that point: enter the wait, or leave the loop.
GateLoop(w, over, waiting0, stats0) ==
    /\ loads' = [loads EXCEPT ![w] = NoLoads]
    /\ IF over
       THEN /\ waiting' = waiting0 + 1
            /\ stats' = Bump(stats0, "TotWaitingIn")
            /\ pc' = [pc EXCEPT ![w] = IF HasOverQuotaCh THEN "send" ELSE "wait"]
       ELSE /\ waiting' = waiting0
            /\ stats' = stats0
            /\ pc' = [pc EXCEPT ![w] = "exit"]

\* overMemQuotaForIndexingLOCKED up to its first counter load: with no
\* indexing memory it answers false at once (MB-29504); otherwise it loads
\* CurMemoryUsed and BatchBytesAdded, and the loop test pauses there.
BeginLoopTest(w, idx, waiting0, stats0) ==
    IF IndexingMemory(idx) = 0
    THEN GateLoop(w, FALSE, waiting0, stats0)
    ELSE /\ pc' = [pc EXCEPT ![w] = "loaded"]
         /\ waiting' = waiting0 /\ stats' = stats0
         /\ loads' = [loads EXCEPT ![w] = [memUsed |-> ToInt64(curMem),
                                           pre |-> PreIndexingMemory % Word]]

-----------------------------------------------------------------------------
(* Index batch goroutines (onBatchExecuteStart, via onMossEvent /          *)
(* onScorchEvent).                                                         *)

\* The engine emits batch-execute-start.  onMossEvent drops the event of
\* an unhooked collection (line 336) and onBatchExecuteStart returns at
\* once with indexQuota < 0; otherwise it counts TotOnBatchExecuteStartBeg.
BatchExecuteStart(w, e) ==
    /\ pc[w] = "idle" /\ e \in open /\ budget > 0
    /\ budget' = budget - 1
    /\ batchOn' = [batchOn EXCEPT ![w] = e]
    /\ IF e \in Unhooked \/ indexQuota < 0
       THEN /\ pc' = [pc EXCEPT ![w] = "execute"]
            /\ UNCHANGED stats
       ELSE /\ pc' = [pc EXCEPT ![w] = "enter"]
            /\ stats' = Bump(stats, "TotOnBatchExecuteStartBeg")
    /\ UNCHANGED <<statsErr, loads, indexes, waiting, runningQueryUsed, qpc, qSize, qDepth,
                   engineSize, open, persistPending, curMem, dropPending, ch>>

\* Lock, register the handle, first evaluation of the loop condition.
RegisterAndCheck(w) ==
    /\ pc[w] = "enter" /\ LockFree
    /\ indexes' = indexes \cup {batchOn[w]}
    /\ BeginLoopTest(w, indexes', waiting, stats)
    /\ UNCHANGED <<statsErr, batchOn, runningQueryUsed, qpc, qSize, qDepth, engineSize,
                   open, persistPending, curMem, dropPending, ch, budget>>

\* The blocking send on overQuotaCh with a.m held, then Wait.
SendOverQuota(w) ==
    /\ pc[w] = "send" /\ ch < ChCap
    /\ ch' = ch + 1
    /\ pc' = [pc EXCEPT ![w] = "wait"]
    /\ UNCHANGED <<statsErr, loads, batchOn, indexes, waiting, stats, runningQueryUsed, qpc,
                   qSize, qDepth, engineSize, open, persistPending, curMem,
                   dropPending, budget>>

\* Mutant: a.waiting-- after Wait forgotten.
WakeAndRecheckNoDecrement(w) ==
    /\ pc[w] = "woken" /\ LockFree
    /\ BeginLoopTest(w, indexes, waiting, Bump(stats, "TotWaitingOut"))
    /\ UNCHANGED <<statsErr, batchOn, indexes, runningQueryUsed, qpc, qSize, qDepth,
                   engineSize, open, persistPending, curMem, dropPending, ch,
                   budget>>

\* Mutant: the wait wrapped in an if instead of the for loop, so a woken
\* worker proceeds without re-checking.
WakeAndRecheckIf(w) ==
    /\ pc[w] = "woken" /\ LockFree
    /\ waiting' = waiting - 1
    /\ stats' = Bump(stats, "TotWaitingOut")
    /\ pc' = [pc EXCEPT ![w] = "exit"]
    /\ UNCHANGED <<statsErr, loads, batchOn, indexes, runningQueryUsed, qpc, qSize, qDepth,
                   engineSize, open, persistPending, curMem, dropPending, ch,
                   budget>>

\* Woken from Wait: reacquire a.m, leave the waiting count, re-check.
WakeAndRecheck(w) ==
    /\ pc[w] = "woken" /\ LockFree
    /\ BeginLoopTest(w, indexes, waiting - 1, Bump(stats, "TotWaitingOut"))
    /\ UNCHANGED <<statsErr, batchOn, indexes, runningQueryUsed, qpc, qSize, qDepth,
                   engineSize, open, persistPending, curMem, dropPending, ch,
                   budget>>

\* BatchBytesRemoved is loaded (line 191) and the test ends on the memUsed
\* that the loads give.
LoadRemovedAndCheck(w) ==
    /\ pc[w] = "loaded"
    /\ GateLoop(w, OverQuota(MemUsedWith(loads[w].memUsed, loads[w].pre)),
                waiting, stats)
    /\ UNCHANGED <<statsErr, batchOn, indexes, runningQueryUsed, qpc, qSize, qDepth,
                   engineSize, open, persistPending, curMem, dropPending, ch,
                   budget>>

\* After Unlock: count TotOnBatchExecuteStartEnd and return.
BatchExecuteStartEnd(w) ==
    /\ pc[w] = "exit"
    /\ pc' = [pc EXCEPT ![w] = "execute"]
    /\ stats' = Bump(stats, "TotOnBatchExecuteStartEnd")
    /\ UNCHANGED <<statsErr, loads, batchOn, indexes, waiting, runningQueryUsed, qpc, qSize,
                   qDepth, engineSize, open, persistPending, curMem,
                   dropPending, ch, budget>>

\* The engine executes the admitted batch: its dirty bytes grow, and the
\* batching layer counts the batch's bytes as removed, which a loop test
\* between its loads will see in its load of BatchBytesRemoved.
ExecuteBatch(w) ==
    LET e == batchOn[w] IN
    /\ pc[w] = "execute"
    /\ pc' = [pc EXCEPT ![w] = "idle"]
    /\ batchOn' = [batchOn EXCEPT ![w] = NoEngine]
    /\ engineSize' = IF e \in open
                     THEN [engineSize EXCEPT ![e] = IF @ < MaxEngineSize THEN @ + 1 ELSE @]
                     ELSE engineSize
    /\ loads' = [v \in Workers |->
                    IF pc[v] = "loaded" THEN [loads[v] EXCEPT !.pre = (@ - 1) % Word]
                                        ELSE loads[v]]
    /\ UNCHANGED <<statsErr, indexes, waiting, stats, runningQueryUsed, qpc,
                   qSize, qDepth, open, persistPending, curMem, dropPending,
                   ch, budget>>

-----------------------------------------------------------------------------
(* Engine lifecycle callbacks and the memory sampler.                      *)

\* The engine's persister flushes its dirty bytes and raises a
\* PersisterProgress event, which onMossEvent drops for a collection
\* without LowerLevelUpdate and otherwise dispatches to onPersisterProgress
\* (persistPending).  scorchSize's rule (0 once the root, merged and
\* persisted epochs agree) is taken as this flush leaving the size 0.
Persist(e) ==
    /\ e \in open /\ engineSize[e] > 0
    /\ engineSize' = [engineSize EXCEPT ![e] = 0]
    /\ persistPending' = IF e \in Unhooked THEN persistPending
                                          ELSE persistPending \cup {e}
    /\ UNCHANGED <<statsErr, loads, pc, batchOn, indexes, waiting, stats, runningQueryUsed, qpc,
                   qSize, qDepth, open, curMem, dropPending, ch, budget>>

\* onPersisterProgress -> awakeWaiters("persister progress").
OnPersisterProgress(e) ==
    /\ e \in persistPending /\ LockFree
    /\ persistPending' = persistPending \ {e}
    /\ AwakeWaiters
    /\ UNCHANGED <<statsErr, loads, batchOn, indexes, waiting, stats, runningQueryUsed, qpc,
                   qSize, qDepth, engineSize, open, curMem, dropPending, ch,
                   budget>>

\* onMergerProgress -> awakeWaiters("merger progress"); only onScorchEvent
\* has a merger case.
OnMergerProgress(e) ==
    /\ e \in open \cap Scorch /\ LockFree /\ budget > 0
    /\ budget' = budget - 1
    /\ AwakeWaiters
    /\ UNCHANGED <<statsErr, loads, batchOn, indexes, waiting, stats, runningQueryUsed, qpc,
                   qSize, qDepth, engineSize, open, persistPending, curMem,
                   dropPending, ch>>

\* Mutant: onClose deletes the handle without awakeWaitersLOCKED.
OnCloseSilent(e) ==
    /\ e \in open \ Unhooked /\ LockFree
    /\ CloseRacesBatch \/ \A w \in Workers : pc[w] = "enter" => batchOn[w] # e
    /\ open' = open \ {e}
    /\ indexes' = indexes \ {e}
    /\ UNCHANGED <<statsErr, loads, pc, batchOn, waiting, stats, runningQueryUsed, qpc, qSize,
                   qDepth, engineSize, persistPending, curMem, dropPending, ch,
                   budget>>

\* The engine closes: onClose deletes its handle and broadcasts.  Unless
\* CloseRacesBatch, no batch-start event of the engine is then in flight.
OnClose(e) ==
    /\ e \in open \ Unhooked /\ LockFree
    /\ CloseRacesBatch \/ \A w \in Workers : pc[w] = "enter" => batchOn[w] # e
    /\ open' = open \ {e}
    /\ indexes' = indexes \ {e}
    /\ AwakeWaiters
    /\ UNCHANGED <<statsErr, loads, batchOn, waiting, stats, runningQueryUsed, qpc, qSize,
                   qDepth, engineSize, persistPending, curMem, dropPending, ch,
                   budget>>

\* An unhooked collection closes; onMossEvent drops the event.
CloseUnhooked(e) ==
    /\ e \in open \cap Unhooked
    /\ open' = open \ {e}
    /\ UNCHANGED <<statsErr, loads, pc, batchOn, indexes, waiting, stats, runningQueryUsed,
                   qpc, qSize, qDepth, engineSize, persistPending, curMem,
                   dropPending, ch, budget>>

\* A moss collection's Stats() starts returning an error (spec 7: a
\* size-source failure), or stops doing so.  Nothing in the herder is
\* told: only the next size callback sees it.
StatsFail(e) ==
    /\ e \in (StatsMayFail \cap open) \ statsErr /\ budget > 0
    /\ budget' = budget - 1
    /\ statsErr' = statsErr \cup {e}
    /\ UNCHANGED <<loads, pc, batchOn, indexes, waiting, stats, runningQueryUsed,
                   qpc, qSize, qDepth, engineSize, open, persistPending, curMem,
                   dropPending, ch>>

StatsRecover(e) ==
    /\ e \in statsErr
    /\ statsErr' = statsErr \ {e}
    /\ UNCHANGED <<loads, pc, batchOn, indexes, waiting, stats, runningQueryUsed,
                   qpc, qSize, qDepth, engineSize, open, persistPending, curMem,
                   dropPending, ch, budget>>

\* The RSS sampler stores a new CurMemoryUsed; a drop is reported through
\* onMemoryUsedDropped.
SampleMemory(m) ==
    /\ m # curMem /\ budget > 0
    /\ budget' = budget - 1
    /\ curMem' = m
    /\ dropPending' = (dropPending \/ m < curMem)
    /\ UNCHANGED <<statsErr, loads, pc, batchOn, indexes, waiting, stats, runningQueryUsed, qpc,
                   qSize, qDepth, engineSize, open, persistPending, ch>>

\* onMemoryUsedDropped -> awakeWaiters("memory used dropped").
OnMemoryUsedDropped ==
    /\ dropPending /\ LockFree
    /\ dropPending' = FALSE
    /\ AwakeWaiters
    /\ UNCHANGED <<statsErr, loads, batchOn, indexes, waiting, stats, runningQueryUsed, qpc,
                   qSize, qDepth, engineSize, open, persistPending, curMem, ch,
                   budget>>

-----------------------------------------------------------------------------
(* Query goroutines (queryHerderOnEvent).                                  *)

\* Mutant: the MB-30954 escape hatch (runningQueryUsed > 0) dropped.
RejectQueryNoHatch(d, s) ==
    LET memUsed == curMem + s
    IN  /\ d = 0
        /\ \/ queryQuota > 0 /\ memUsed > queryQuota
           \/ appQuota > 0 /\ memUsed > appQuota

\* onQueryStart's rejection test, with a.m held (lines 265..301).
RejectQuery(d, s) ==
    LET memUsed == curMem + s
    IN  /\ d = 0 /\ runningQueryUsed > 0
        /\ \/ queryQuota > 0 /\ memUsed > queryQuota
           \/ appQuota > 0 /\ memUsed > appQuota

\* Mutant: only top-level queries recorded in runningQueryUsed (spec 9's
\* open question answered the other way), while onQueryEnd subtracts all.
OnQueryStartTopLevelOnly(q, d, s) ==
    /\ qpc[q] = "idle" /\ budget > 0
    /\ budget' = budget - 1
    /\ qSize' = [qSize EXCEPT ![q] = s]
    /\ qDepth' = [qDepth EXCEPT ![q] = d]
    /\ IF queryQuota < 0
       THEN /\ qpc' = [qpc EXCEPT ![q] = "running"]
            /\ UNCHANGED runningQueryUsed
       ELSE /\ LockFree
            /\ IF RejectQuery(d, s)
               THEN /\ qpc' = [qpc EXCEPT ![q] = "rejected"]
                    /\ UNCHANGED runningQueryUsed
               ELSE /\ qpc' = [qpc EXCEPT ![q] = "running"]
                    /\ runningQueryUsed' = IF d = 0 THEN (runningQueryUsed + s) % Word
                                                    ELSE runningQueryUsed
    /\ UNCHANGED <<statsErr, loads, pc, batchOn, indexes, waiting, stats, engineSize, open,
                   persistPending, curMem, dropPending, ch>>

\* onQueryStart(depth, size): a negative queryQuota admits without the
\* mutex and without accounting; otherwise reject or record the size.
OnQueryStart(q, d, s) ==
    /\ qpc[q] = "idle" /\ budget > 0
    /\ budget' = budget - 1
    /\ qSize' = [qSize EXCEPT ![q] = s]
    /\ qDepth' = [qDepth EXCEPT ![q] = d]
    /\ IF queryQuota < 0
       THEN /\ qpc' = [qpc EXCEPT ![q] = "running"]
            /\ UNCHANGED runningQueryUsed
       ELSE /\ LockFree
            /\ IF RejectQuery(d, s)
               THEN /\ qpc' = [qpc EXCEPT ![q] = "rejected"]
                    /\ UNCHANGED runningQueryUsed
               ELSE /\ qpc' = [qpc EXCEPT ![q] = "running"]
                    /\ runningQueryUsed' = (runningQueryUsed + s) % Word
    /\ UNCHANGED <<statsErr, loads, pc, batchOn, indexes, waiting, stats, engineSize, open,
                   persistPending, curMem, dropPending, ch>>

\* After the unlock of a rejection: the blocking send on overQuotaCh, if
\* configured, then return ErrorSearchReqRejected.
ReturnRejected(q) ==
    /\ qpc[q] = "rejected"
    /\ qpc' = [qpc EXCEPT ![q] = "idle"]
    /\ IF HasOverQuotaCh THEN ch < ChCap /\ ch' = ch + 1 ELSE UNCHANGED ch
    /\ qSize' = [qSize EXCEPT ![q] = 0]
    /\ qDepth' = [qDepth EXCEPT ![q] = 0]
    /\ UNCHANGED <<statsErr, loads, pc, batchOn, indexes, waiting, stats, runningQueryUsed,
                   engineSize, open, persistPending, curMem,
                   dropPending, budget>>

\* onQueryEnd(depth, size): subtract the size and broadcast.
OnQueryEnd(q) ==
    /\ qpc[q] = "running" /\ LockFree
    /\ qpc' = [qpc EXCEPT ![q] = "idle"]
    /\ runningQueryUsed' = (runningQueryUsed - qSize[q]) % Word
    /\ AwakeWaiters
    /\ qSize' = [qSize EXCEPT ![q] = 0]
    /\ qDepth' = [qDepth EXCEPT ![q] = 0]
    /\ UNCHANGED <<statsErr, loads, batchOn, indexes, waiting, stats, engineSize,
                   open, persistPending, curMem, dropPending, ch, budget>>

-----------------------------------------------------------------------------
(* The consumer of overQuotaCh (outside src/: modelled from spec 4.7).  A *)
(* consumer that forces a persister flush is in OverQuotaFlush.            *)

\* Receive one signal.
ReceiveOverQuota ==
    /\ ch > 0
    /\ ch' = ch - 1
    /\ UNCHANGED <<statsErr, loads, pc, batchOn, indexes, waiting, stats, runningQueryUsed, qpc,
                   qSize, qDepth, engineSize, open, persistPending, curMem,
                   dropPending, budget>>

\* queryHerderOnEvent: a query-start event runs onQueryStart (and, once
\* rejected, its return), a query-end event onQueryEnd.
QueryHerderOnEvent(q) ==
    \/ \E d \in Depths, s \in QuerySizes : OnQueryStart(q, d, s)
    \/ ReturnRejected(q)
    \/ OnQueryEnd(q)

-----------------------------------------------------------------------------
StatNames == {"TotWaitingIn", "TotWaitingOut",
              "TotOnBatchExecuteStartBeg", "TotOnBatchExecuteStartEnd"}

Init ==
    /\ pc = [w \in Workers |-> "idle"]
    /\ batchOn = [w \in Workers |-> NoEngine]
    /\ indexes = {}
    /\ waiting = 0
    /\ stats = [f \in StatNames |-> 0]
    /\ runningQueryUsed = 0
    /\ qpc = [q \in Queriers |-> "idle"]
    /\ qSize = [q \in Queriers |-> 0]
    /\ qDepth = [q \in Queriers |-> 0]
    /\ engineSize = [e \in Engines |-> 0]
    /\ open = Engines
    /\ persistPending = {}
    /\ curMem \in MemLevels
    /\ dropPending = FALSE
    /\ ch = 0
    /\ budget = MaxEvents
    /\ loads = [w \in Workers |-> NoLoads]
    /\ statsErr = {}

\* Every external event has been spent and every goroutine is back at rest.
Quiescent ==
    /\ budget = 0
    /\ \A w \in Workers : pc[w] = "idle"
    /\ \A q \in Queriers : qpc[q] = "idle"
    /\ persistPending = {} /\ ~dropPending /\ ch = 0
    /\ \A e \in open : engineSize[e] = 0

\* Every step but the overQuotaCh consumer's.
HerderNext ==
    \/ \E w \in Workers :
          \/ \E e \in Engines : BatchExecuteStart(w, e)
          \/ RegisterAndCheck(w) \/ LoadRemovedAndCheck(w)
          \/ SendOverQuota(w) \/ WakeAndRecheck(w)
          \/ BatchExecuteStartEnd(w) \/ ExecuteBatch(w)
    \/ \E e \in Engines :
          \/ Persist(e) \/ OnPersisterProgress(e) \/ OnMergerProgress(e)
          \/ OnClose(e) \/ CloseUnhooked(e)
          \/ StatsFail(e) \/ StatsRecover(e)
    \/ \E m \in MemLevels : SampleMemory(m)
    \/ OnMemoryUsedDropped
    \/ \E q \in Queriers : QueryHerderOnEvent(q)
    \/ Quiescent /\ UNCHANGED vars

Next == HerderNext \/ ReceiveOverQuota

(***************************************************************************)
(* Fairness.  Go's sync.Mutex hands the lock to a goroutine that has       *)
(* waited over 1ms (starvation mode), a runnable goroutine keeps running,  *)
(* persisters flush dirty engines in the background, callbacks follow      *)
(* their event, and the channel consumer loops on receive: weak fairness   *)
(* for each of these steps.  Acquiring a.m is only intermittently enabled, *)
(* but the external events are bounded by MaxEvents, so every behaviour    *)
(* ends in a suffix where each step stays enabled or disabled, and weak    *)
(* fairness there equals the strong fairness the mutex gives.  External    *)
(* events (batches, queries, samples, merges, closes) get no fairness.     *)
(***************************************************************************)
HerderFairness ==
    /\ \A w \in Workers :
          /\ WF_vars(RegisterAndCheck(w)) /\ WF_vars(WakeAndRecheck(w))
          /\ WF_vars(LoadRemovedAndCheck(w))
          /\ WF_vars(SendOverQuota(w))
          /\ WF_vars(BatchExecuteStartEnd(w)) /\ WF_vars(ExecuteBatch(w))
    /\ \A e \in Engines : WF_vars(Persist(e)) /\ WF_vars(OnPersisterProgress(e))
    /\ WF_vars(OnMemoryUsedDropped)
    /\ \A q \in Queriers : WF_vars(OnQueryEnd(q)) /\ WF_vars(ReturnRejected(q))

Spec == Init /\ [][Next]_vars /\ HerderFairness /\ WF_vars(ReceiveOverQuota)


-----------------------------------------------------------------------------
(* Properties.                                                             *)

TypeOK ==
    /\ pc \in [Workers -> {"idle", "enter", "loaded", "send", "wait", "woken",
                          "exit", "execute"}]
    /\ batchOn \in [Workers -> Engines]
    /\ indexes \subseteq Engines
    /\ waiting \in 0..Cardinality(Workers)
    /\ stats \in [StatNames -> Nat]
    /\ runningQueryUsed \in 0..(Word - 1)
    /\ qpc \in [Queriers -> {"idle", "running", "rejected"}]
    /\ qSize \in [Queriers -> QuerySizes \cup {0}]
    /\ qDepth \in [Queriers -> Depths \cup {0}]
    /\ engineSize \in [Engines -> 0..MaxEngineSize]
    /\ open \subseteq Engines /\ persistPending \subseteq Engines
    /\ curMem \in MemLevels /\ dropPending \in BOOLEAN
    /\ ch \in 0..ChCap
    /\ budget \in 0..MaxEvents
    /\ loads \in [Workers -> [memUsed : MinInt64..MaxInt64, pre : 0..(Word - 1)]]
    /\ statsErr \subseteq StatsMayFail

\* The gate's bookkeeping agrees with where the batch goroutines are:
\* a.waiting counts exactly the goroutines between a.waiting++ and
\* a.waiting-- (awakeWaitersLOCKED skips the Broadcast when it is 0), and
\* the four stats counters differ by exactly the goroutines inside the
\* gate and inside the wait loop (spec 8.6).
GateAccounting ==
    /\ waiting = Cardinality(Waiters)
    /\ stats.TotWaitingIn - stats.TotWaitingOut = waiting
    /\ stats.TotOnBatchExecuteStartBeg - stats.TotOnBatchExecuteStartEnd
          = Cardinality(InGate)

\* Sum of the sizes onQueryStart recorded for the queries still running.
RunningQuerySum == MapThenSumSet(LAMBDA q : qSize[q],
                                 {q \in Queriers : qpc[q] = "running"})

\* runningQueryUsed is the sum, modulo 2^64, of the estimated sizes of the
\* queries between an admitting onQueryStart and their onQueryEnd; in
\* particular it is 0 whenever no query is running (spec 3 and 8.4).
RunningQueryAccounting == runningQueryUsed = RunningQuerySum % Word

\* onQueryStart rejects only a top-level query, and only while another
\* admitted query with a nonzero estimated size is still running (the
\* MB-30954 escape hatch: a lone query always proceeds).
RejectOnlyWhenBusy ==
    [][\A q \in Queriers :
          (qpc[q] = "idle" /\ qpc'[q] = "rejected")
          => /\ qDepth'[q] = 0
             /\ \E r \in Queriers \ {q} : qpc[r] = "running" /\ qSize[r] > 0
      ]_vars

\* No lost wake-up: a batch goroutine parked in waitCond.Wait is
\* eventually woken by some Broadcast (persister progress, close, query
\* end, memory drop or forced flush).
WaiterEventuallyWoken == \A w \in Workers : pc[w] = "wait" ~> pc[w] # "wait"

\* Every call of onBatchExecuteStart eventually returns (spec 4.4: "a
\* blocked worker will eventually proceed").
BatchStartReturns == \A w \in Workers : pc[w] = "enter" ~> pc[w] = "execute"

\* Every query that reaches the herder returns from it: onQueryEnd gets
\* a.m, which a batch goroutine may hold across its overQuotaCh send, and
\* a rejected query gets past its own send on overQuotaCh (line 282).
QueryEventuallyReturns == \A q \in Queriers : qpc[q] # "idle" ~> qpc[q] = "idle"

\* Once no query is running, runningQueryUsed is back to 0: matched
\* onQueryStart/onQueryEnd pairs cancel out (spec 8.4).
IdleQueriesLeaveNoUsage ==
    (\A q \in Queriers : qpc[q] # "running") => runningQueryUsed = 0

\* The gate as its callers see it: where each batch goroutine is in
\* onBatchExecuteStart.
GateStatus(w) ==
    CASE pc[w] = "idle"                  -> "idle"
      [] pc[w] = "execute" /\ batchOn[w] \in Unhooked -> "idle"
      [] pc[w] \in {"enter", "loaded", "woken"} -> "checking"
      [] pc[w] \in {"send", "wait"}      -> "parked"
      [] pc[w] \in {"exit", "execute"}   -> "admitted"

\* The verdict the loop test under way will reach on the loads it has
\* made, or, when none is under way, the one a test would reach now.
GateVerdict ==
    IF \E w \in Workers : pc[w] = "loaded"
    THEN LET w == CHOOSE w \in Workers : pc[w] = "loaded"
         IN  OverQuota(MemUsedWith(loads[w].memUsed, loads[w].pre))
    ELSE OverMemQuotaForIndexing(indexes)

Gate == INSTANCE AdmissionGate
            WITH status <- [w \in Workers |-> GateStatus(w)],
                 overQuota <- GateVerdict,
                 Bypass <- indexQuota < 0

\* onBatchExecuteStart implements AdmissionGate: the lock, the condition
\* variable and the blocking channel send only ever admit a batch through a
\* loop test that finds memory under quota (or the indexQuota < 0 bypass),
\* and park it only through one that finds it over quota.
GateRefinement == Gate!Spec

\* preIndexingMemoryLOCKED loads BatchBytesAdded and then
\* BatchBytesRemoved as two separate atomic reads (lines 190-191), and
\* batches execute and are counted as removed without a.m.  Still, the
\* difference a loop test computes always includes its own batch's bytes,
\* so it never wraps: a batch counted as removed between the loads must
\* have been counted as added before the first, because a new batch cannot
\* pass the gate while the testing worker holds a.m.
PreIndexingCountsOwnBatch ==
    \A w \in Workers : pc[w] = "loaded" => ToInt64(loads[w].pre) >= 1

\* An engine's handle is in a.indexes only while the engine is open
\* (spec 3: the entry is destroyed on close).
RegistryHoldsOnlyOpenEngines == indexes \subseteq open

=============================================================================
