# TLA+ models of cbft's application herder and gRPC client

This directory holds TLA+ models of the two source files of this repository:

- `src/unnamed/part_000`: the **application herder** (`appHerder`, package
  `main`). It is the memory admission controller shared by index batches,
  queries and the search engines' lifecycle events.
- `src/grpc_client.go`: the **gRPC remote partition client** (`GrpcClient`).
  It is the scatter-gather client that runs a search on a remote node.

`spec.md` describes the herder as the core. The gRPC client is in the source
but the spec leaves it out.

## 1. Inventory

### Components, their state and operations

| Component | Code | State | Operations |
|---|---|---|---|
| Quota configuration | `newAppHerder` (56-90) | `memQuota`, `appQuota`, `indexQuota`, `queryQuota` (int64), fixed after construction | construction only |
| Index registry | `indexes` map (40), `indexingMemoryLOCKED` (180-186) | engine handle to size callback | insert in `onBatchExecuteStart` (142), delete in `onClose` (105), sum |
| Memory accounting | `preIndexingMemoryLOCKED`, `overMemQuotaForIndexingLOCKED` (188-221) | reads `cbft.CurMemoryUsed`, `BatchBytesAdded`, `BatchBytesRemoved` (atomics kept outside src/) | predicate only |
| Index admission gate | `onBatchExecuteStart` (129-178) | `m`, `waitCond`, `waiting`, stats | bypass; Beg counter; lock; register; loop { waiting++, send on `overQuotaCh`, `Wait`, waiting-- }; unlock; End counter |
| Query admission | `onQueryStart`, `onQueryEnd`, `queryHerderOnEvent` (233-317) | `runningQueryUsed` (uint64) | admit, reject (and send on `overQuotaCh` after unlock), release and broadcast |
| Progress notifier | `onClose`, `onPersisterProgress`, `onMergerProgress`, `onMemoryUsedDropped`, `awakeWaiters*` (103-127, 223-229) | none of its own | lock, Broadcast if `waiting > 0`, unlock |
| Overquota signal and stats | `overQuotaCh`, `appHerderStats`, `Stats()` | channel buffer, four counters | send; atomic adds; atomic loads |
| Engine adapters | `onMossEvent`, `mossSize`, `onScorchEvent`, `scorchSize` (319-392) | none | map engine events to the hooks; size callbacks |
| gRPC search client | `SearchInContext`, `Query`, `SearchRPC` (grpc_client.go 109-327) | `lastSearchStatus`/`lastErrBody` (read only here), per call: result channel, stream | spawn a goroutine, wait for it or for ctx.Done; marshal the request; receive the stream and write hits |
| gRPC client construction | `addGrpcClients`, `getPortFromNodeDefs`, `GroupGrpcClientsByHostPort` (357-479) | none kept | filter remote pindexes, choose the port, build clients, group by host/index |

### How the parts interact

Engine goroutines call the herder through the adapters. A batch calls
`onBatchExecuteStart`. The persister and the merger call `onPersisterProgress`
and `onMergerProgress`, and `Close` calls `onClose`. Query goroutines call
`onQueryStart` and `onQueryEnd` through `queryHerderOnEvent`. The RSS sampler
stores `CurMemoryUsed` and calls `onMemoryUsedDropped`. All of them share one
mutex `a.m` and one condition variable. Only the gate ever waits. Every other
hook broadcasts. The herder also sends on `overQuotaCh`, which is read by a
consumer outside src/. The gRPC client shares no state with the herder.

### What is hard

- **Interleavings on one mutex and one condition variable.** Workers park,
  broadcasts wake all of them, and each re-checks the predicate against
  whatever the others did in between. `waiting` decides whether a broadcast
  happens at all, so a miscount loses a wake-up.
- **The send with the lock held.** The gate sends on `overQuotaCh` at line 158
  while holding `a.m`. If the channel is full, every hook waits behind the
  channel's consumer.
- **Events that cross.** A batch-start event emitted before `Close` can reach
  `a.m.Lock()` after `onClose` has run.
- **Counters at their width.** `runningQueryUsed` is a uint64 that
  `onQueryEnd` decrements unconditionally. The conversions `int64(memQuota)`
  and `int64(float64 * ratio)` can change sign or fall outside int64.
  `BatchBytesAdded - BatchBytesRemoved` is read with two separate loads.
- **Escape hatches.** The gate admits when `indexingMemory == 0` (MB-29504).
  A query is admitted when `runningQueryUsed == 0` (MB-30954). Each hatch is
  only as good as the state it reads.
- **gRPC client.** The caller selects on `ctx.Done()` and an unbuffered result
  channel, and the stream loop handles a write error with a `break` inside a
  `switch`.

### Properties that make each component correct

- Gate: `waiting` and the stats match the goroutines inside the gate. No
  parked worker misses its wake-up. Every call returns. A closed engine is
  never in the registry.
- Query admission: the accumulator equals the sum of the running queries'
  sizes, and is 0 at rest. Only a top-level query is rejected, and only while
  another estimated query runs.
- Signal: no herder hook waits for ever behind the channel.
- Quota configuration: the sign conventions of spec 3 and 8.1 hold for every
  quota and ratio (`QuotaConfig`).
- gRPC client: the caller always returns, the search goroutine always
  terminates, and a stream failure is reported (`GrpcSearch`). Every
  selected pindex is served once, by one client per node (`GrpcGrouping`).

## 2. Modules

### `AppHerder.tla` (herder core)

It is parameterised by the sets `Workers` (index batch goroutines), `Engines`
and `Queriers`, by `Unhooked \subseteq Engines` (moss collections whose
`LowerLevelUpdate` is nil, whose events `onMossEvent` drops at line 335), by
`StatsMayFail \subseteq Engines` (moss collections whose `Stats()` may
return an error), by `Scorch \subseteq Engines` (the scorch instances;
the rest are moss collections), by the quota inputs (`MemQuota`, and `AppPercent`,
`IndexPercent`, `QueryPercent` as ratio x 100), by `WordBits` (the width at
which uint64/int64 arithmetic is done, declared in `GoInt`) and by the
bounds below. It EXTENDS `GoInt` for the conversions of `newAppHerder`. An
ASSUME keeps its configurations within the range of the float conversion.

The model's state and how it maps to the code:

- `pc[w]`: where each batch goroutine is in `onBatchExecuteStart`. The values
  are `idle`, `enter` (after the Beg add, before `Lock`), `loaded` (in a loop
  test, between the loads of `BatchBytesAdded` and `BatchBytesRemoved`,
  **holding `a.m`**), `send` (blocked on `overQuotaCh`, **holding `a.m`**), `wait` (in the cond's notify list),
  `woken` (broadcast, not yet relocked), `exit` (unlocked, before the End add)
  and `execute`.
- `indexes`, `waiting`, `stats`, `runningQueryUsed`: the fields of the same
  name.
- `qpc`, `qSize`, `qDepth`: each query goroutine and the arguments of its
  current call.
- `loads[w]`: what a worker in `loaded` has read so far: `memUsed`
  (`int64(CurMemoryUsed)`) and `pre`, the uint64 difference its second load
  will give. Every batch executed meanwhile lowers `pre` by one, modulo
  2^`WordBits`.
- The environment: `engineSize` (the engine's in-memory bytes), `statsErr`
  (the collections whose `Stats()` currently fails; `SizeFunc` is then 0,
  as `mossSize` answers at line 329), `open`,
  `persistPending`/`dropPending` (a callback is due), `curMem`
  (`CurMemoryUsed`) and `ch` (the signals buffered in `overQuotaCh`).

A critical section with no suspension inside is one action guarded by
`LockFree`. The mutex is held across steps only by a worker in `send` or
`loaded`, so `LockFree` is derived from `pc`. A loop test is two steps:
`BeginLoopTest` takes the MB-29504 shortcut when the registry's size is 0,
and otherwise does the first loads; `LoadRemovedAndCheck` does the last load
and decides. `sync.Cond` is its notify list:
`AwakeWaiters` moves every `wait` worker to `woken`, and each then reacquires
the mutex in `WakeAndRecheck`, which runs the loop body's tail and the
condition again (`GateLoop`). Actions:

- Gate: `BatchExecuteStart`, `RegisterAndCheck`, `LoadRemovedAndCheck`, `SendOverQuota`,
  `WakeAndRecheck`, `BatchExecuteStartEnd`, plus `ExecuteBatch` (the engine
  runs the admitted batch).
- Hooks: `Persist` followed by `OnPersisterProgress`; `OnMergerProgress`
  (scorch engines only: `onMossEvent` has no merger case);
  `OnClose`; `SampleMemory` followed by `OnMemoryUsedDropped`. For an
  `Unhooked` collection, a batch start goes straight to `execute`, a
  persist raises no callback, and a close is
  `CloseUnhooked`, which leaves the registry alone. `StatsFail` and
  `StatsRecover` are the size-source failure of spec 7: no hook is called,
  and only the next size callback sees it.
- Queries: `QueryHerderOnEvent`, the dispatch of `queryHerderOnEvent`, to
  `OnQueryStart`, `ReturnRejected` (the send after unlock, then the
  return) and `OnQueryEnd`.
- Consumer: `ReceiveOverQuota`.

Abstractions:

- Pre-indexing memory is one unit per batch that has been built and not yet
  executed, counted for the batches of every collection, the unhooked ones
  included (the batching layer, outside this repository, counts them all).
- Engine sizes are 0..`MaxEngineSize`.
- `Persist` is the persister's flush and its PersisterProgress event
  (lines 345-346 and 383-384). It also stands for `scorchSize`'s rule (size
  0 once the root, merged and persisted epochs agree) by leaving the size 0;
  the epochs, the scorch engine's own counters, are not modelled.
- Query sizes and RSS values come from small sets.
- Log lines are left out.

### `AdmissionGate.tla` (what the gate promises)

`AdmissionGate.tla` is the abstract contract of `onBatchExecuteStart`. Each
batch goroutine is `idle`, `checking`, `parked` or `admitted`. `overQuota`
is the verdict the memory predicate would give now.

- A `Check` parks the batch when the predicate says over quota, and admits
  it otherwise.
- With `Bypass` (indexQuota < 0), `Arrive` admits at once.
- A `Wake` sends any parked batches back to check.
- Every step except `Check` may change `overQuota`, because RSS, engine
  sizes and batches in flight are not the gate's to control.

`AppHerder` instantiates it (`Gate`) with this mapping:

| `pc` | status |
|---|---|
| idle | idle |
| enter, loaded, woken | checking |
| send, wait | parked |
| exit, execute | admitted |
| execute of an unhooked batch | idle |

`overQuota` maps to `GateVerdict`: the verdict a loaded worker's loads will
give, or else `OverMemQuotaForIndexing(indexes)`. `Check` decides on the
verdict of the state before it. `GateRefinement` (`Gate!Spec`) is a
PROPERTY of herder_liveness. It holds because at most one worker is loaded
(it holds `a.m`), and because the shortcut's "size 0" cannot change to
nonzero inside the step that registers the engine. Its mutant replaces the `for` around `Wait` by an
`if`. A worker then proceeds after a Broadcast without re-checking, and TLC
finds a batch admitted while over quota.

### `OverQuotaFlush.tla` (herder with a flushing consumer)

It EXTENDS `AppHerder` and adds the channel consumer of spec 4.7: on each
signal it forces a persister flush and waits for it. The flush ends with the
persister's `onPersisterProgress`, which takes `a.m`. This consumer is
modelled from the spec because it is not under src/.

### `StatsObserver.tla` (a caller of `Stats()` beside the herder)

It EXTENDS `AppHerder` and adds one caller of `Stats()` (lines 92-99).
The map literal's four `atomic.LoadUint64` calls are evaluated in order
(`LoadOrder`); each is a `StatsLoad` step, so the herder's actions can run
between any two. `StatsCall` starts the next call once one has returned.

### `GoInt.tla` (Go's integer conversions)

This module holds the operators that both herder modules share.

- The int64 bounds at `WordBits` bits.
- `ToInt64`, the two's complement reinterpretation done by `int64(x)` of a
  uint64 (line 59).
- `ScaleQuota`, the truncating `int64(float64(x) * ratio)` of lines 64-66.
- `Int64OfFloat`, the set of results of a float to int64 conversion. Out of
  range, Go leaves the result to the implementation: amd64 yields
  `MinInt64`, and arm64 saturates. The set holds both.

### `QuotaConfig.tla` (newAppHerder's quotas)

`NewAppHerder(m, r)` is one action: the constructor called with memQuota
`m` and ratios `r` (percentages), choosing among the builds' conversion
results. The model then stutters in the configured state, so the reachable
states are the constructor's possible results.

The module also defines what the quota signs mean to the two admission
paths, as the code tests them:

- `IndexingGated`: the bypass test of line 134, and the `> 0` tests of
  `overMemQuotaForIndexingLOCKED`.
- `QueryingGated`: line 253, and the two tests of `onQueryStart`.

The model takes float64 products as exact. The ratios used (-1, 0, 0.5, 1, 1.5) are exact binary
fractions. Rounding of products above 2^53 is not modelled.

### `GrpcGrouping.tla` (building the remote clients)

`addGrpcClients` and `GroupGrpcClientsByHostPort` are recursive operators.
`AddOne` is the loop body and `GroupOne` one grouping iteration. A step of
the model is one call (`Call`) on arguments fixed in `Init`, followed by
at most one `DocCount` (or `Count`, which calls it) on a returned client.
`counted` records what that call did: returned the RPC's count or error
(which the model does not tell apart), or panicked on an empty
`PIndexNames`.

Strings are abstracted to the forms the code tells apart:
- A HostPort with or without a port after its last colon.
- A port extra that is missing (`err`), carries no port, or carries one.

A node's host is the node itself. The index name and UUID are the same for
every client of one call, so the grouping key reduces to HostPort. The
reference (`Selected`, `RefError`, `RefServed`) states the outcome as sets
over the input.

With encryption on, a node without a `bindGRPCSSL` extra is reached on its
plain port without a certificate. The model exposes this. Nothing in the
code or the spec says whether it is intended, so it is listed as a hazard
and not as a property.

### `GrpcSearch.tla` (one search through the gRPC client)

One call of `SearchInContext`, with two program counters: `cpc` for the
caller and `gpc` for the goroutine it spawns.

- `SearchInContext` covers lines 114-152. It rejects a nil request and
  refuses an expired deadline (`DeadlineExceeded`). Otherwise it computes
  `Ctl.Timeout` (`RemoteTimeout`) and starts the goroutine.
- `SelectCtxDone` and `SelectResult` are the two cases of the select. The
  result channel is unbuffered, so the goroutine's send and the caller's
  receive are one step.
- `QueryAndSearch` covers `Query` and the `GrpcCli.Search` call of
  `SearchRPC`. The three `MarshalJSON` calls can fail (`MarshalMayFail`).
  The RPC fails once the context is done, or at will (`RpcMayFail`).
  `QueryFails` is the goroutine's error path: it sends
  `makeSearchResultErr`.
- `RecvLoop` is one iteration of `SearchRPC`'s receive loop. The server's
  stream is a sequence over {hits, result, badResult, recvErr}, chosen in
  `Init`. `RecvError` is the loop's treatment of `io.EOF` versus other
  errors; a Recv after cancellation returns an error.
- `CtxDone` is the environment cancelling the context or reaching its
  deadline. It has no fairness.
- The ghost variable `failed` records every failure met, whatever the code
  then does with it. `err` and `gres` are the code's own view.

A remaining time in [0, 1 ms) after the overhead passes the `remaining < 0`
test and is sent as `Ctl.Timeout = 0`; the model reaches it. What the
remote node makes of 0 is decided in cbgt, outside this repository, so it
is listed as a hazard and not as a property.

Time is counted in ticks of half a millisecond, and `RemoteRequestOverhead`
is one tick. Not modelled: `SearchRPC` returning `nil, nil` on a nil
response with a nil error, which gRPC does not produce.

### MC modules

`MCGrpcGrouping.tla` declares two nodes. `MCQuotaConfig.tla` gives the constructor's inputs: every memQuota of
0..15 and the ratio set. `MCStatsObserver.tla` declares one worker, one
engine and one querier. `MCAppHerder.tla` and `MCOverQuotaFlush.tla` declare the model values and the
negative ratio (cfg files have no negative literals). `MCGrpcSearch.tla`
gives the deadlines left: 0, 1, 2, 3 and 5 ticks.

## 3. Runs

| Run | cfg | Expect | Checks |
|---|---|---|---|
| herder_safety | MCAppHerder.cfg | pass | `TypeOK`, `GateAccounting`, `RunningQueryAccounting`, `RejectOnlyWhenBusy`, `PreIndexingCountsOwnBatch` |
| herder_liveness | MCAppHerderLive.cfg | pass | `WaiterEventuallyWoken`, `BatchStartReturns`, `QueryEventuallyReturns`, `GateRefinement` |
| overquota_send_deadlock | MCOverQuotaFlush.cfg | violation | `BatchStartReturns` |
| query_bypass_accounting | MCQueryBypass.cfg | violation | `IdleQueriesLeaveNoUsage` |
| close_race_reregister | MCCloseRace.cfg | violation | `RegistryHoldsOnlyOpenEngines` |
| grpc_search_safety | MCGrpcSearch.cfg | pass | `TypeOK`, `ReadFailureReported`, `CallerReturns` |
| grpc_write_error_lost | MCGrpcWriteLost.cfg | violation | `WriteFailureReported` |
| grpc_goroutine_leak | MCGrpcLeak.cfg | violation | `GoroutineTerminates` |
| grpc_grouping | MCGrpcGrouping.cfg | pass | `TypeOK`, `ClientsServeSelectedOnce`, `GroupsDistinctAndOrdered`, `DocCountNeverPanics` |
| quota_sign_conventions | MCQuotaSigns.cfg | violation | `QuotaSignsAsSpecified` |
| unhooked_split_load | MCUnhookedSplitLoad.cfg | violation | `PreIndexingCountsOwnBatch` |
| stats_read_skew | MCStatsObserver.cfg | violation | `StatsSnapshotOrdered` |

Every passing property has a mutant in PROJECT.json: a plausible bug of the
mapped code that TLC must catch under the same cfg.

What the runs show:

- **herder_safety.** `GateAccounting` ties `waiting` and the four counters to
  the goroutines actually in the gate (spec 8.6). `RunningQueryAccounting`
  ties `runningQueryUsed` to the sizes of the running queries (spec 8.4).
  `RejectOnlyWhenBusy` says a rejection happens only for depth 0 and only
  while another admitted query with a nonzero size runs (MB-30954).
  `PreIndexingCountsOwnBatch` says a worker between its two counter loads
  still counts its own batch: with every engine hooked, `a.m` keeps every
  other batch from being built and executed in between. Its mutant lets a
  worker keep the lock only in `send`, and TLC finds a batch overtaking the
  test. All hold over 1.3 million distinct states of three workers under
  symmetry (about 2.5 minutes), with deadlock
  checked and `Unhooked` empty.
- **herder_liveness.** With three batch goroutines, a consumer that only receives, engine `e2` an
  unhooked moss collection, and engine `e1`'s `Stats()` allowed to fail and
  recover:
  - No wake-up is lost.
  - Every `onBatchExecuteStart` returns.
  - Every query returns (`QueryEventuallyReturns`), including a rejected
    one, whose send at line 282 comes after the unlock. Its mutant keeps
    `a.m` held in `wait`, and a query's `onQueryEnd` then never gets it.
  - `GateRefinement` holds: `AppHerder` implements `AdmissionGate`.

  The refinement is checked here and not in herder_safety only because of
  time.
- **overquota_send_deadlock.** TLC finds this 20-step trace:
  1. A worker waits and signals. The consumer takes the signal and starts a
     flush.
  2. The worker is woken, is still over quota, and blocks on the now-full
     channel while holding `a.m`.
  3. The flush, and the persister's callback, both wait for `a.m`.

  This is the hazard spec 4.7 and 9 warn about, and the code has it at
  line 158.
- **query_bypass_accounting.** With `queryQuota < 0`, start returns before
  counting but end subtracts, so the accumulator wraps to 2^W - size.
- **close_race_reregister.** A batch event that takes the lock after
  `onClose` re-registers the closed engine, so the registry holds an engine
  that is no longer open. The run checks only that; what a stale entry then
  does to waiters (its size is still summed by the MB-29504 test) is not
  checked.

- **grpc_search_safety.** This run uses a stream handler.
  - Every failure other than the handler's write reaches the caller as an
    error result: marshalling, the RPC, a Recv error (including one caused
    by cancellation), or the unmarshal.
  - The caller always returns, with or without cancellation, because every
    path of the goroutine ends in a send.

  Both hold over every server stream of length at most 3 and every point of
  cancellation, in about 7.3k states.
- **grpc_write_error_lost.** The stream is one hits message. The write
  fails, and the `break` at line 273 leaves only the `switch`. Recv then
  returns EOF and `err` becomes nil, so the caller gets a success.
- **grpc_goroutine_leak.** The context is cancelled during `Query`. The
  caller returns through `ctx.Done()`, and the goroutine's send on the
  unbuffered `resultCh` never completes. This is also why the gRPC cfgs set
  `CHECK_DEADLOCK FALSE`: the blocked goroutine is a real stop.
- **grpc_grouping.** This run checks every call of `addGrpcClients` over
  two nodes. Each node has every form of HostPort, `bindGRPC` and
  `bindGRPCSSL`; plans have up to three pindexes; `onlyPIndexes` is nil or
  {1, 3}; encryption, `getRpcClient` failures and `groupByNode` each take
  both values. That is 311k states. The checks are against a set-based
  reference:
  - the call fails exactly when a selected pindex's node has no usable port;
  - otherwise each selected pindex with a client is served exactly once, by
    its own node;
  - grouping leaves one client per node, in first-seen order;
  - `DocCount` or `Count` on any returned client never panics on
    `g.PIndexNames[0]` (line 100) (`DocCountNeverPanics`). Its mutant
    creates a group without the first client's names, and TLC finds a
    grouped client with none.
- **quota_sign_conventions.** `QuotaSignsAsSpecified` states both sign
  rules of spec section 3: non-negative ratios give non-negative index and
  query quotas, and a negative `appQuota` bypasses both classes. TLC finds
  ratios (-1, -1, -1) with memQuota 1: `appQuota = -1`, but
  `indexQuota = queryQuota = 1`, so the code enforces both classes. The
  same property fails the other way too: with `Percents` restricted to
  non-negative values, `memQuota = 2^(W-1)` and ratios (0.5, 0, 0.5) wrap
  `int64(memQuota)` (line 59), `queryQuota` is negative, and queries bypass
  the herder with no negative ratio; ratio 1.5 also overflows the float
  conversion to `MinInt64` on amd64.
- **unhooked_split_load.** `preIndexingMemoryLOCKED` loads
  `BatchBytesAdded` and `BatchBytesRemoved` separately, relying on `a.m`
  to keep batches out. An unhooked moss collection's batches never take
  `a.m`. TLC finds a 9-step trace: worker 1 loads `BatchBytesAdded` for its
  own batch, a batch of the unhooked collection is built, executes and is
  counted as removed, and worker 1's difference no longer includes its own
  batch. One more such batch wraps the uint64 difference, and `int64()`
  makes it negative, which admits a batch over quota. This contradicts spec
  invariant 4 (a consistent snapshot under the lock).

- **stats_read_skew.** `StatsSnapshotOrdered` is spec 8.6's "End <= Beg"
  (and "Out <= In") read through what `Stats()` returns. TLC finds an
  8-step trace: `Stats()` loads In, Out and Beg (all 0), a batch begins
  and ends, and `Stats()` loads End = 1. Spec line 169 promises only that
  each value is a current atomic load, so 8.6 cannot be tested through
  `Stats()` while indexing runs, and a reader's Beg - End wraps as uint64.

### Bounds and why they suffice

- 2 engines and 2 queriers, and 3 workers in herder_safety and
  herder_liveness (1 or 2 in the violation runs). Workers and queriers are
  interchangeable model values, so herder_safety uses symmetry over their
  permutations; the liveness run does not, since symmetry is unsound for
  liveness checking. 2 workers, 2 engines and 2 queriers are the least that has one
  goroutine overtake another, one engine stay dirty while another is clean,
  and a query rejected because another runs. With 3
  workers (`MCWorkers3`) a Broadcast also wakes two waiters while a third
  goroutine is testing or holds `a.m` between its loads (spec 8.5).
- `WordBits = 4`.
- `MemQuota = 4` with ratios (1.0, 0.5, 0.5) gives `appQuota 4`,
  `indexQuota 2` and `queryQuota 2`.
- `MemLevels {0, 2}`: RSS is either clearly under or over `indexQuota` once a
  batch is pending.
- `QuerySizes {1, 2}` and `Depths {0, 1}`.
- `MaxEngineSize 1`, since only "zero or not" matters to the hatch.
- `ChCap 1`, as in spec 4.7.
- `MaxEvents` bounds the external events: batch starts, query starts, RSS
  samples, merger progress and `Stats()` failures. It is 5 in herder_safety
  (three workers, 1.3M states under symmetry, about 2.5 minutes) and 3 in the liveness run (three workers,
  26k states, about 40 s; with 4 events that run takes 5.5 minutes). Every behaviour therefore ends, and the
  liveness properties say what happens once the outside world stops.
  Starvation by an endless stream of other batches is outside these runs.
- gRPC: server streams of at most 3 responses over all 4 kinds. That is
  enough for a failure followed by another message and then EOF. The
  deadlines left cover refused, under 1 ms, and whole milliseconds.

### Fairness

Weak fairness applies to every step a goroutine takes once it can run:

- acquiring the lock, the send, the re-check and the End add;
- executing the admitted batch;
- the persister flushing a dirty open engine, and each callback following its
  event;
- the consumer's receive, and `onQueryEnd` and the rejected return.

Go's `sync.Mutex` switches to starvation mode after 1 ms and then hands the
lock to the longest waiter. Lock acquisition is intermittently enabled, but
with the external events bounded every behaviour ends in a suffix where
nothing flickers, so weak fairness gives the same result as the strong
fairness the mutex provides. Batches, queries, samples, merges and closes are
the outside world's choices and get no fairness, and so do `Stats()` failures
and recoveries.

In `GrpcSearch`, the caller's call, the goroutine's steps and a ready select
case are weakly fair: the Go scheduler runs every runnable goroutine. The
context's cancellation gets no fairness, since it may never happen.

## 4. Not modelled (yet) and the plan

In order of priority for the next sittings:

1. Starvation of a waiter by an unbounded stream of batches (the runs bound
   external events).

Not modelled:

- The `GrpcClient` methods that only return `indexClientUnimplementedErr` or
  nil. They change no state.
- `GetLast()`, a pure read.
- `scorchSize`'s three epoch loads: the epochs are the scorch engine's,
  outside this repository. `Persist` stands for the quiescent result.
- `QuotaConfig` is checked only against spec section 3's sign conventions
  (quota_sign_conventions); the quotas' modes follow from `ScaleQuota` by
  construction and are not a separate check.
- The rest of `grpc_client.go` (about 200 lines): the stub methods and
  `clientInterceptor` below change no state, which is why the map covers
  only part of that file.
- Logging, and `clientInterceptor`, which is timing and logging only.
- `SetStreamHandler` and `SetName`, field writes made before a client is
  used (`HasStreamHandler` is a constant of `GrpcSearch`), and `GetLast`,
  whose fields nothing in `grpc_client.go` writes.
- The remote end of `Ctl.Timeout`: a deadline less than 1 ms past the
  overhead is sent as `Timeout 0`, and what the remote makes of 0 is
  decided in cbgt, outside this repository.
