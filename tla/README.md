# A TLA+ model of the local recommendation daemon

The daemon keeps a bounded inventory of items in memory, answers requests over a
Unix socket, ranks items for a client and enforces, per item, how often it may be
shown. This directory holds TLA+ modules for its parts, TLC configurations that
check them on small instances, and proofs checked by TLAPS. Paths below are
relative to the repository root.

## The system

| Part | Source | Model |
|---|---|---|
| Exposure store: lifetime caps and frequency limits | `src/policy/`, `include/lrd/policy/` | `ExposureStore` |
| Recommend path: one clock reading, scan, greedy selection through the policy | `src/daemon/handler.cpp` | `RecommendGate`, `Handler`, `Ranking` |
| Scoring and shortlist | `src/rank/scorer.cpp` | `Ranking` |
| Handler: get, put, delete, statistics | `src/daemon/handler.cpp` | `Handler` |
| LRU, locked and sharded cache | `include/lrd/cache/` | `LruCache`, abstractly `CacheSpec` |
| Noise on published statistics | `src/privacy/noise.cpp` | `Noise` |
| Thread pool | `src/concurrency/`, `include/lrd/concurrency/` | `ThreadPool` |
| Server, connection registry, stop pipe, entry point | `src/daemon/` | `Server` |
| Listener: stale-socket probe, bind, close | `src/net/unix_socket.cpp` | `UnixListener`, part of `Server` |
| Framing and stream I/O | `src/proto/framing.cpp`, `src/net/io.cpp` | `Wire` |
| Codecs and wire helpers | `src/proto/` | `Codec` |
| Client connection | `src/client/connection.cpp` | `Wire`, abstractly in `SdkClient` |
| SDK client: pool, timeouts, retries | `src/sdk/client.cpp` | `SdkClient` |
| Command line, logging, task wrapper, benchmarks, example | `src/client/main.cpp`, `src/common/`, `bench/`, `examples/` | not modelled |

How the modules fit together:

* `RecommendGate` EXTENDS `ExposureStore` and adds the callers: it is the store
  together with the requests that use it.
* `Server` EXTENDS `UnixListener`: the process that binds the path and the calls
  of the listener are one state machine.
* `Handler` EXTENDS `LruCache` and `Noise`, both of them operators on values, and
  INSTANCEs `CacheSpec`, which it implements.
* `Wire` EXTENDS `Codec`: both ends of a connection run the real encoders and
  decoders on the bytes that travel.
* A module `MCx` instantiates `x` for TLC, `xProofs` holds its theorems.

The server accepts connections and posts one task per connection to the thread
pool. Each task reads frames, decodes a request, calls the shared `Handler` and
writes the answer. `Handler` owns the sharded cache and the exposure store. A
recommend request reads the clock once, scans the cache shard by shard, and asks
the store about each candidate in turn: `reserve()` for a live request, `check()`
for a dry run. Pool threads run handlers concurrently, so the store sees calls
whose `now` values are in no particular order.

## ExposureStore

Every public operation holds one shard mutex from its first read to its last
write, so it is one atomic step; `clear()` is one step per shard.

| State | Code |
|---|---|
| `tracked`, `entries` | the shards' `entries` maps; `NoEntry` where untracked |
| `recency` | each shard's list with its index, most recently granted first |
| `clear_at` | how far a `clear()` in progress has come |
| `metrics` | the atomic counters |
| `shown`, `shownIn`, `dropped`, `late`, `grantedAt` | history, read by no action's guard |

`reserve()` has one action per return: `StoreFull`, `ExposureCapReached`,
`FrequencyLimited`, `Allowed`. Eviction is part of whichever of them is taken.
`Check` is a value, since `check()` changes nothing. `Forget` and `ClearShard`
complete the interface. The daemon itself never calls `forget()` or `clear()`;
they are modelled because the class offers them.

Abstractions:

* Time is any member of `Times` on every call: the class does not order the values
  it is given. `RecommendGate` supplies the values the daemon supplies.
* The estimate `previous * (1 - elapsed/window) + current` is compared with the
  limit as an exact fraction. The code uses doubles. Every term is exact when the
  window is a power of two; otherwise rounding can decide only exact ties of the
  estimate with the limit.
* The hash is any function from ids to shards, given as the constant `ShardFor`.
* 32- and 64-bit counters are naturals: `current` and `previous` never exceed the
  32-bit limit, and 2^64 shows are out of reach.

What is stated of it:

* `CapRespected`: at most `ExposureCap` grants for each life of an item's entry.
* `WindowRespected`: at most `FrequencyLimit` grants stamped with one aligned
  window, plus one allowance for each time the entry was dropped or a late call
  moved its window back.
* `RollingRespected`: two adjacent windows hold fewer than twice the limit, for an
  item whose calls came in window order. This is what the sliding estimate adds
  over a counter per window.
* `CapacityRespected`, `RecencyMatches`, `EvictsLeastRecentlyGranted`: the memory
  bound and the eviction order.
* `CheckPredicts`: on the same state and time `check()` returns what `reserve()`
  would, although the roll-forward is written twice in the code.

## RecommendGate

`Handler::on_recommend` on pool threads over one exposure store. A request is a
record of its locals: the `now` it read, what is left of its shortlist, what it
has chosen. `Begin` is everything up to `select()`; `Consult` and `ConsultDry` are
one round of the greedy loop with the live and the dry-run callback; `Finish` is
the return. Any set of items may be the shortlist and any remaining member the
next best, so the results hold for every ranking. The clock only moves forward.

* `ChargedIsReturned`: recorded shows equal the live slates holding the item.
* `NeverOverCap`: the cap as clients see it, under fail-closed.
* `LateBounded`: how often late calls can move an item's window back.
* `RequestsEnd`: the selection loop ends.

`FrequencyLimitHolds`, the limit as `include/lrd/policy/policy.hpp` words it, is
violated (run `recommend_late_calls`). A request reads the clock in window 0.
Another shows an item twice in window 1, which is the limit. The first request
then reserves with its old `now`. `advance_and_estimate` takes any window that is
neither the same nor the next for a long gap and clears both counters. A further
request in window 1 finds a fresh allowance. `WindowRespected` says exactly how
much this can cost, and `LateBounded` how often it can happen. The lifetime cap is
not affected.

## ThreadPool

What a thread does under the mutex is one step; the signals, the run of a task and
the joins are steps of their own. A wait ends by a signal or spuriously, and the
predicate is then tested again. The constructor spawns workers one by one and may
fail at any of them. Tasks are distinct and each is posted at most once. Callers
of `shutdown()` are threads outside the pool, as the header demands.

* `FifoOnce`: started, queued and cleared tasks, in this order, are the accepted
  tasks; the queue keeps to its bound.
* `RunOnce`: a started task is on exactly one worker or is over.
* `NoLostWakeup`: while some worker waits, every queued task has an awake worker
  or a signal on its way; after a stop, waiting means the `notify_all` is to come.
* `ShutdownSettles`: once the workers have exited, nothing accepted is left over
  and the counters agree.
* `AcceptedSettles`, `StopEnds`: accepted tasks are run or cleared; every stop,
  including the one of a failed constructor, ends.

A second caller of `shutdown()` returns at once while the first is still joining,
and the model has both. In the daemon the second call comes from the destructor
after `run()` has returned, or when `run()` has thrown and nothing has stopped the
pool, so nothing there depends on it.

## Ranking

`CandidateSelector` for one request. `Consider` is `consider()` for one item of
the scan, in any order; `Accept` and `Reject` are one round of the loop in
`select()`, with either answer of the policy. The heap is the set of what it
holds, since only its root is ever read and the root is its weakest element. The
weights are exact integers in a common scale: tenths for affinities, powers of two
for recency, the two repeat factors 0.5 and 0.3 as fractions.

* `ShortlistIsBest`: at every moment the heap holds the best of what was offered,
  whatever the order of the scan. Hash and shard order do not show in a slate.
* `AskedBestFirst`: the policy is asked about a candidate at most once and in
  descending order of adjusted score. This needs repeat factors of at most one,
  which the defaults are and nothing enforces.
* `SlateIsGreedy`: each pick has the score its predecessors leave it, refused
  candidates not counting, and beats everything else that was left.

## CacheSpec, LruCache, Noise and Handler

`CacheSpec` is the promise: shards that are bounded maps and forget the key unused
for longest. `LruCache` has the code's data: a list of nodes, an index from key to
node, and the metrics; `splice`, eviction and update work on nodes, so a stale
index would show. `Noise` is the arithmetic of `NoisyCounters` in halves, which is
what `llround` tells apart; the draw is a function of metric and epoch.

`Handler` runs `handle()` on concurrent threads. A critical section of a shard is
one step, and so is each load or increment of an atomic counter.

| Action | Code |
|---|---|
| `Receive`, `Visit` | the count of the request, then the visitor's own count and its validation |
| `OnGet`, `Tally` | the cache's `get`, and the increment of hits or misses after it |
| `OnPut`, `OnDelete` | one critical section of the key's shard |
| `ScanShard`, `Select`, `Recommended` | the scan, one shard lock at a time, the choice, and the reply |
| `LoadNext`, `PublishStats`, `Published` | `stats()`: the loads one by one, then the noise, then the reply |
| `Tick` | the clock |

* `ShardsAreCaches`: every behaviour of the threads implements `CacheSpec`, with
  the map read through the index and the recency through the list.
* `ScanIsFair`: a scan misses nothing that was there throughout, invents nothing,
  and meets no key twice, though each shard is read at a different moment.
* `CountersSettle`: at rest the counters and the shards' metrics agree. An answer
  to a stats request that runs beside others is no snapshot, and nothing is stated
  of its figures but the two properties that follow.
* `PublishedNeverFalls`, `PublishedIsCoarse`: within an epoch a published figure
  does not fall, and it is zero or a rounded value above the threshold.

## UnixListener and Server

`UnixListener` has one step per system call of `bind()` and `close()` (access,
probe, unlink, bind, listen, and the undoing of a failed listen), because another
process may act on the path in between. `bind()` may throw at each of them
(`ProbeThrows`, `UnlinkThrows`, `BindThrows`, `ListenFails`): the probe finds no
descriptor, a live daemon or another error, `unlink` is not permitted, `bind`
collides. A process is taken to be able to remove the file it has itself bound.

`NobodyInvisible`, the outcome that the comment on `socket_file_is_stale()`
excludes, is violated (run `unix_listener_race`): a daemon that has bound and not
yet listened refuses a probe exactly as debris does, so a second daemon started at
that moment unlinks its file. Between one daemon and its own restarts this cannot
happen, which is what `PathIsTrue` of `Server` shows.

`Server` is one daemon process: the main thread, the workers inside
`serve_connection()`, the kernel's descriptors and backlog, the peers, signals and
kills.

| State | Code |
|---|---|
| `main`, `pipe`, `starts`, `leftover` | where `main()` and `run()` are, the stop pipe, the starts, and whether the path still names what a killed process left |
| `client`, `inbox`, `backlog` | the peers and what the kernel holds for them |
| `fd`, `shut` | descriptor numbers, the lowest free one first, and shut-down streams |
| `queue`, `worker` | the pool: waiting connections, and where each worker is |
| `registry`, `stopping` | `ConnectionRegistry` |
| `stats`, `unserved` | the three counters, and a history of what shutdown dropped |

The main thread's actions are construction with its failures, the signal handlers,
`poll`, `accept` with its transient and exhaustion errors and the back-off, and the
shutdown order: listener, `stop_all`, `shutdown(Discard)`, join. The workers'
actions are the guard's registration, read, reply, deregistration and close. The
pool is its promise here (FIFO queue, refusal when full, discard, join);
`ThreadPool` has the threads that keep it.

* `ConnectionsAccounted`: every open descriptor has one owner, the registry never
  names a number that was closed and reused, and the counters add up.
* `NobodyMissed`: after `stop_all` nobody reads or writes on a live stream, also
  the worker that registers late.
* `PathIsTrue`: the path leads to the daemon while it serves. Once it is down the
  path is gone, whichever call of `bind()` or the constructor threw, unless it
  still names what a killed process left there.
* `StopReturns`: a stop request ends the process, whatever idle peers do.

## SdkClient

`invoke()` of threads that share a pool of connections. What it does under the
mutex is one step; the wait on `available`, opening, sending, receiving and the
release are steps of their own. A connection is two byte streams between two ends
that close separately, so a request the caller gave up on can still be carried out
(`orphans`), by a daemon that may be slow, drop connections, die and restart. The
daemon carries a request out (`Execute`) and writes its answer (`Reply`) in two
steps: between them `answer` holds what the caller does not know yet, and a timeout,
a dropped connection or a death loses it. The daemon may also stop accepting until
its queue is full (`QueueFills`); `connect()` then waits, because
`open_connection()` sets the timeouts of a socket only once it is connected.
`lookup` stands for all operations the SDK retries, `recommend` for the recording
recommendation, which it retries only when told to.

* `PoolAccounted`: `total` is the idle connections plus the calls that hold one,
  within the limit, and no connection is in two hands.
* `IdleIsClean`: a pooled connection is between two messages, so a reply cannot
  reach the wrong caller.
* `NobodyStranded`: no caller sleeps while a connection or slot is free and no
  woken thread is on its way to it.
* `AtMostOnce`: a recording recommendation is carried out at most once, and once
  if reported as done, unless the retry was asked for, also when the answer is lost
  after the daemon has carried it out.
* `CallsEnd`: every call returns, though the daemon may never answer, unless it
  comes to a `connect()` that waits on a full queue.
* `EveryWaitIsBounded`, what `docs/sdk.md` says of the client, is violated (run
  `sdk_connect_blocks`): a caller whose connection broke reopens it, and stays in
  `connect()` for as long as the daemon does not accept.

## Codec and Wire

`Codec` has both codecs over one table of fields (`Fields`). The binary codec is
byte for byte: `ByteReader`'s bounds checks, counts, the header's checks in their
order, limits, and the leftover check of `Finish`. Protobuf is modelled to the
field, since varints and nested lengths belong to the library. A double is the
number whose bits it has; numbers stay below 2^31.

`Wire` is one connection: `Connection::call` at one end, `serve_connection` at the
other, `write_message`, `read_frame` and the loops of `net/io` in between, over a
socket that takes and gives any number of bytes. Either end may hang up anywhere or
be a peer that frames, encodes, counts or numbers its messages differently. A request
too large for a frame is refused before a byte is written and costs the connection.

* `EndToEnd`: with two ends of ours the handler gets the request that was asked,
  within its limits, and the caller gets the answer to it; a request over a limit
  is told so and never becomes a protocol error.
* `BoundariesKept`: a clean hang-up and a truncated frame are never confused.
* `AcceptedIsCanonical`: a body the binary decoder accepts is the one encoding of
  what it yields, apart from the byte of `dry_run`.

## Runs

| Run | Instance | Result |
|---|---|---|
| `exposure_fail_closed` | 3 items, 2 shards, 3 slots, cap 3, limit 2, window 2, 4 reserves | passes |
| `exposure_fail_open` | 3 items, 1 shard, 2 slots, no cap, limit 2, window 2, 5 reserves | passes |
| `recommend_gate` | 2 items, 2 threads, cap 2, limit 2, window 2, clock to 3, 3 reserves | passes |
| `recommend_late_calls` | 1 item, 2 threads, limit 2, window 2, 4 reserves | `FrequencyLimitHolds` violated |
| `thread_pool` | 2 workers, 2 posters, 2 stoppers, 3 tasks, queue of 2 | passes |
| `unix_listener_race` | 2 daemons on one path, empty or with debris at first | `NobodyInvisible` violated |
| `server` | 1 daemon started twice, 2 workers, 2 peers, 2 descriptors, 1 queue slot, a pipe of 1 byte | passes |
| `ranking` | every inventory of 4 items from 7 kinds, 2 signals, slates of 1 to 3, overfetch 2 | passes |
| `handler` | 2 threads, 3 requests after 3 preloaded entries, 2 shards of 2, epochs of 2, rounding 2, threshold 2 | passes |
| `sdk_client` | 3 callers with 1 call each, 1 connection, 1 retry, 1 fault | passes |
| `sdk_connect_blocks` | 1 caller, 1 connection, 1 retry, 1 fault | `EveryWaitIsBounded` violated |
| `wire` | 2 calls, 13 requests and their answers, both codecs, up to 24 and 6 foreign variants, frames to 140, a socket of 3 | passes |

Why the bounds suffice:

* Store and gate. The times 0, 1, 2 and 5 give two positions in one window, the
  next window and a gap of more than one, so every branch of the roll-forward is
  taken, and their reverse order gives late calls. Four and five reserves exceed
  the cap of an item, fill a shard, evict, and leave a call after it. Items are
  interchangeable within a shard, which is the symmetry used. Two threads suffice
  for a late call.
* Pool. Three tasks for two workers and a queue of two make the queue overflow and
  a signal find nobody waiting.
* Server. Two peers and one queue slot make `post()` refuse; a descriptor closed
  by one connection is taken by the next; two starts give a restart on the debris
  of a kill; one byte makes a second stop request find the pipe full.
* Ranking. Four items and a shortlist of two make the heap reject and replace; the
  kinds include ties, an old, a future, an expired and a disabled item, repeated
  categories and advertisers, and an affinity list that names a category twice.
* Handler. Three of the four keys share a shard that starts full, so each put of a
  new key evicts; one request can be a scan while others change both shards, or a
  second read of the statistics on either side of an epoch.
* SDK. Three callers for one connection give a waiter, a holder and a thread that
  overtakes the woken one; one fault breaks a connection at any point, also between
  a request and its answer, restarts the daemon or fills its queue. The limits are
  lifted by the proofs.
* Wire. A socket of three bytes splits the prefix, the header and the body; the
  requests lie on both sides of each limit, which are all 1; one has exactly the
  length of a frame and one a byte more. The foreign variants change a byte of the
  header, cut or extend the body, and give a count or length as nothing, as all that
  is left, as a byte more and as more than any frame. A second call shows what the
  first left behind.

Deadlock is checked in the store, gate and pool runs: the pool's `Gone` step
stands for a pool no longer used, and the store can always be cleared. `server`,
`ranking`, `handler`, `sdk_client` and `wire` end when their bounded requests,
starts or calls are used up, so there it is not.

Fairness:

* The store, `UnixListener`, `Ranking`, `Handler` and `Wire` have none: what is
  stated of them is safety.
* `RecommendGate`: a pool thread inside a handler keeps running, since each mutex
  it takes is held for one operation. Nothing makes clients send or the clock tick.
* `ThreadPool`: a thread inside one of the pool's functions keeps running and tasks
  end. Nobody has to post or stop, and spurious wakeups are never relied on.
* `Server`: the main thread and the workers move when they can, weakly fair for
  each thread. Nothing is asked of peers, signals or faults: a reply to a peer that
  never reads may block for as long as its connection lives.
* `SdkClient`: a caller that can go on does, and its timeouts expire, since both
  are given to the kernel. The daemon owes nothing: not to answer, not to accept.

## Proofs

Seven modules hold theorems, each for every value of the constants that the named
assumptions admit. The assumptions are the constructors' checks and the types and
finiteness of what a process has.

| Module | Theorems | Assumptions |
|---|---|---|
| `ExposureStoreProofs` | `TypeCorrect`, `CapacityAlwaysRespected`, `RecencyAlwaysMatches`, `CapAlwaysRespected` | `ConfigAssumption` |
| `ExposureWindowProofs` | `WindowAlwaysRespected`, `RollingAlwaysRespected`, `CheckAlwaysPredicts` | `ConfigAssumption` |
| `RecommendGateProofs` | `GateUsesStore`, `GateTypeCorrect`, `ChargedAlwaysReturned`, `CapNeverExceeded` | `ConfigAssumption`, `GateAssumption` |
| `ThreadPoolProofs` | `PoolTypeCorrect`, `FifoAlways`, `RunOnceAlways`, `NoWakeupLost`, `ShutdownAlwaysSettles` | `PoolAssumption` |
| `SdkPoolProofs` | lemmas only: callers, connections and the idle list | `SdkAssumption` |
| `SdkClientProofs` | `PoolAlwaysAccounted`, `IdleAlwaysClean`, `NobodyEverStranded` | `SdkAssumption` |
| `SdkOnceProofs` | `RecordedAtMostOnce` | `SdkAssumption` |

**Exposure store.** `StoreInv` carries types, capacity and recency together. They
need each other: a slot is free after an eviction only because the evicted id had
an entry, which is what the recency list's exactness says; and the list stays exact
only because a new entry is always granted (`NewEntryGranted`), since a refused new
entry would never be listed. `CapInv` relates `shown` to `lifetime_shows` and to
the lives of the entry. `WindowInv` bounds the grants of every window by the
allowances used up, and those of the entry's own window by its counter; the weight
of the previous window is not needed for that. `RollingInv` says the counters are
exact while no entry was dropped and no call was late; the estimate's inequality
then bounds two adjacent windows. A step does one of four things to an item: it
keeps the counters, drops them, rolls them forward on a refusal, or charges a show
(`StepOnItem`), and each invariance proof has a case for each.

**Recommend path.** `GateUsesStore` is the refinement `GateSpec => Spec`: seen
through the store's variables, concurrent requests are a behaviour of the store, so
every theorem about the store holds of the daemon. `ChargedIsReturned` is inductive
next to `RequestInv`, which says that a candidate once taken is off the shortlist,
so that nothing is charged twice for one slate. `NeverOverCap` follows from it,
`CapRespected`, and `NothingDropped`: under fail-closed no entry is ever lost.

**Thread pool.** `FifoInv` adds to `FifoOnce` that the accepted tasks are distinct
and that nothing is cleared before the stop. `NoLostWakeup` and `RunOnce` are
inductive next to the types. `SettleInv` says that a worker exits only from an
empty queue that stays empty, that only a discard clears anything, and that what
was started and is not over is running.

**SDK client.** `SdkInv` is the conjunction of four. `CallerInv` types the callers
and says who holds a connection; `OwnInv` is the pool's accounts, with connections
in one hand only; `LinkInv` says for each place of a call what its connection
carries (nothing, the request, the answer the daemon has yet to write, or the
reply), and that an idle one carries nothing;
`NobodyStranded` is inductive next to these. `OnceInv` adds the history: a request
the client has given up on has not been carried out and is the only one of its
call; no call before its request is sent has left anything behind; and a call whose
answer is on its way has been carried out once, whether or not the answer arrives.
`RecordedAtMostOnce` is stated for `~RetryRecording`, the default; with the option
set the header itself warns of repeated exposures.

Model-checked only: `EvictsLeastRecentlyGranted`, `LateBounded`, everything about
`Server`, `UnixListener`, `Ranking`, `Handler` and `Wire`, the refinement of
`CacheSpec`, and all liveness. Liveness under fairness is out of the prover's
reach, and so is induction over data: what the folds of `Codec`'s readers compute
for every input.

## Observed while modelling

Three statements of the repository are contradicted by runs: `recommend_late_calls`,
`unix_listener_race` and `sdk_connect_blocks`, described above. These smaller ones
were met while reading and have no run:

* `thread_pool.hpp:119` says of `shutdown()` that it "stops accepting work and joins
  every worker". The call that finds `stopping_` set returns at once
  (`thread_pool.cpp:88`), so of two concurrent callers the second may return while
  workers still run.
* `noise.hpp` and `docs/privacy.md` say that a noisy value at or below the
  suppression threshold is published as zero. `publish` rounds to a multiple before
  it compares: with the default threshold of 5 and rounding of 10 a noisy 5 is
  published as 10, and suppression changes nothing that rounding left. The `handler`
  run has a threshold equal to the rounding, where suppression acts.
* The header of the codecs says the field limits are enforced by encoder and
  decoder; the encoders enforce none. `EndToEnd` shows the decoder's check is
  enough.
* The binary decoder takes any status byte; the protobuf one maps an unknown status
  to `Internal`.
* The timeout of a call is a timeout of each read. An answer that arrives in pieces
  may take longer than the bound that `include/lrd/sdk/client.hpp` gives for a call.
* After a restart of the daemon every pooled connection is dead, so the first
  recording recommendation on each fails, as its at-most-once rule demands.
* A put that timed out may be carried out after a later put of the same item.
* The shortlist is cut before the policy is asked, so a slate may be short although
  eligible items remain. Ties are cut in favour of the higher id and selected in
  favour of the lower.
* With seed 0, the default, the seed comes from the random device at each start, so
  the noise of an epoch differs between two starts of the daemon. `docs/privacy.md`
  calls it identical across restarts within an epoch.

## Not modelled

* The move-only task wrapper, the command-line client, argument parsing, logging,
  error texts, the version string, the benchmarks and the example: no state that a
  property could be about.
* `peek()`, `contains()`, `clear()` and the exclusive `for_each()` of the cache: the
  daemon does not call them. The mixed hash is a constant function.
* The distribution of the Laplace draw and the generator behind it; the five policy
  figures of the statistics, which `ExposureStore` has as `metrics`.
* The rounding of doubles in scores and in the window estimate.
* Varints and nested lengths of protobuf, and numbers of 2^31 and more on the wire.
* Real time: a timeout may fire whenever a wait is on, and none is measured.
* The length check of the socket path. Signals that interrupt a system call, which
  is issued again and makes no step.
