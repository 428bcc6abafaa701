------------------------------ MODULE Handler -------------------------------
(***************************************************************************)
(* daemon::Handler: worker threads that run handle() over the one sharded  *)
(* cache and the one set of atomic counters.                               *)
(*                                                                         *)
(* A critical section of a shard is one step, and so is one access to an   *)
(* atomic counter.  A recommendation is followed as far as the candidates  *)
(* its scan collects: Ranking models what select() makes of them and       *)
(* RecommendGate what the policy answers, so here a slate is any few of    *)
(* the candidates.  The policy's five figures in Stats are left out.       *)
(***************************************************************************)
EXTENDS LruCache, Noise

CONSTANTS
    Threads,        \* the workers
    Operations,     \* requests a peer may send: records [op, ...]
    Preload,        \* the <<key, value>> pairs put before the model starts
    MaxCount,       \* kMaxRecommendCount
    MaxRequests,    \* bound: requests handled
    MaxTime         \* bound: the clock

VARIABLES
    cache,      \* shard -> its LruCache
    counters,   \* requests_, gets_, puts_, deletes_, recommends_, hits_, misses_
    now,        \* what clock_() returns
    thread,     \* thread -> where in handle() it is, and its locals
    \* History
    erased,     \* entries removed by a delete
    seen,       \* thread -> entries in the cache at some moment of its request
    steady,     \* thread -> entries in the cache at every moment of its request
    answered    \* StatsResults sent: records [epoch, stats]

vars == <<cache, counters, now, thread, erased, seen, steady, answered>>

\* In the order stats() loads them.
CounterNames == <<"requests", "gets", "puts", "deletes", "recommends", "hits", "misses">>
CounterOf == [get |-> "gets", put |-> "puts", delete |-> "deletes", recommend |-> "recommends"]
Noised == {"requests", "gets", "recommends", "hits", "misses"}

Contents == UNION {Snapshot(cache[s]) : s \in Shards}
Idle == [at |-> "idle"]
Bump(name) == counters' = [counters EXCEPT ![name] = @ + 1]
Become(t, local) == thread' = [thread EXCEPT ![t] = local]
At(t, place) == thread[t].at = place

\* What the two histories make of the cache after the step.
Watch(present) ==
    /\ seen' = [t \in Threads |-> IF At(t, "idle") THEN {} ELSE seen[t] \cup present]
    /\ steady' = [t \in Threads |-> IF At(t, "idle") THEN {} ELSE steady[t] \cap present]

OnShard(s, c) ==
    /\ cache' = [cache EXCEPT ![s] = c]
    /\ Watch(UNION {Snapshot(cache'[x]) : x \in Shards})

-----------------------------------------------------------------------------
(* handle(): the count, then the visitor *)

Receive(t, operation) ==
    /\ At(t, "idle") /\ counters.requests < MaxRequests
    /\ Bump("requests")
    /\ Become(t, [at |-> "visit", req |-> operation, earlier |-> answered])
    /\ seen' = [seen EXCEPT ![t] = Contents]
    /\ steady' = [steady EXCEPT ![t] = Contents]
    /\ UNCHANGED <<cache, now, erased, answered>>

Refused(req) ==
    \/ req.op = "put" /\ (req.key = 0 \/ req.value = "")
    \/ req.op = "recommend" /\ (req.count = 0 \/ req.count > MaxCount)

\* Each handler counts itself first, then validates.  on_stats() counts nothing.
Visit(t) ==
    LET req == thread[t].req IN
    /\ At(t, "visit")
    /\ IF req.op = "stats" THEN UNCHANGED counters ELSE Bump(CounterOf[req.op])
    /\ Become(t, IF Refused(req) THEN Idle
                 ELSE IF req.op = "recommend"
                      THEN [at |-> "recommend", req |-> req, shard |-> 0, batch |-> {}]
                 ELSE IF req.op = "stats"
                      THEN [at |-> "load", earlier |-> thread[t].earlier, stats |-> <<>>]
                 ELSE [at |-> req.op, req |-> req])
    /\ UNCHANGED <<cache, now, erased, seen, steady, answered>>

-----------------------------------------------------------------------------
(* on_get, on_put, on_delete *)

OnGet(t) ==
    LET k == thread[t].req.key
        s == ShardIndex(k) IN
    /\ At(t, "get")
    /\ OnShard(s, Get(cache[s], k))
    /\ Become(t, [at |-> IF Found(cache[s], k) THEN "hits" ELSE "misses"])
    /\ UNCHANGED <<counters, now, erased, answered>>

\* Mutant: a miss returns before it is counted.
TallyHitsOnly(t) ==
    /\ thread[t].at \in {"hits", "misses"}
    /\ IF At(t, "hits") THEN Bump("hits") ELSE UNCHANGED counters
    /\ Become(t, Idle)
    /\ UNCHANGED <<cache, now, erased, seen, steady, answered>>

Tally(t) ==
    /\ thread[t].at \in {"hits", "misses"}
    /\ Bump(thread[t].at)
    /\ Become(t, Idle)
    /\ UNCHANGED <<cache, now, erased, seen, steady, answered>>

OnPut(t) ==
    LET req == thread[t].req
        s == ShardIndex(req.key) IN
    /\ At(t, "put")
    /\ OnShard(s, PutPtr(cache[s], req.key, req.value))
    /\ Become(t, Idle)
    /\ UNCHANGED <<counters, now, erased, answered>>

OnDelete(t) ==
    LET k == thread[t].req.key
        s == ShardIndex(k) IN
    /\ At(t, "delete")
    /\ OnShard(s, Erase(cache[s], k))
    /\ erased' = IF Found(cache[s], k) THEN erased + 1 ELSE erased
    /\ Become(t, Idle)
    /\ UNCHANGED <<counters, now, answered>>

-----------------------------------------------------------------------------
(* on_recommend: one snapshot per shard, then selection *)

\* Mutant: the loop ends one shard early.
LastShardMissed(local) == local.shard + 1 >= ShardCount

ScanOver(local) == local.shard >= ShardCount

ScanShard(t) ==
    LET local == thread[t] IN
    /\ At(t, "recommend") /\ ~ScanOver(local)
    /\ Become(t, [local EXCEPT !.shard = @ + 1, !.batch = @ \cup Snapshot(cache[local.shard])])
    /\ UNCHANGED <<cache, counters, now, erased, seen, steady, answered>>

Select(t) ==
    /\ At(t, "recommend") /\ ScanOver(thread[t])
    /\ \E slate \in SUBSET thread[t].batch :
        /\ Cardinality(slate) <= thread[t].req.count
        /\ Become(t, [at |-> "recommended", req |-> thread[t].req, batch |-> thread[t].batch,
                      slate |-> slate])
    /\ UNCHANGED <<cache, counters, now, erased, seen, steady, answered>>

Recommended(t) ==
    /\ At(t, "recommended")
    /\ Become(t, Idle)
    /\ UNCHANGED <<cache, counters, now, erased, seen, steady, answered>>

-----------------------------------------------------------------------------
(* on_stats: stats(), then published_stats() *)

\* The atomics are loaded one by one, then the evictions shard by shard, then the
\* sizes shard by shard.
LoadNext(t) ==
    LET local == thread[t]
        n == Len(local.stats)
        c == Len(CounterNames)
        figure == IF n < c THEN counters[CounterNames[n + 1]]
                  ELSE IF n < c + ShardCount THEN cache[n - c].metrics.evictions
                  ELSE Size(cache[n - c - ShardCount])
    IN  /\ At(t, "load") /\ n < c + 2 * ShardCount
        /\ Become(t, [local EXCEPT !.stats = Append(@, figure)])
        /\ UNCHANGED <<cache, counters, now, erased, seen, steady, answered>>

Total(figures, from) == FoldSeq(LAMBDA x, y : x + y, 0, SubSeq(figures, from + 1, from + ShardCount))

ExactStats(figures) ==
    [name \in Range(CounterNames) |->
        figures[CHOOSE i \in DOMAIN CounterNames : CounterNames[i] = name]]
    @@ [evictions |-> Total(figures, Len(CounterNames)),
        entries |-> Total(figures, Len(CounterNames) + ShardCount),
        capacity |-> CacheCapacity]

\* published_stats reads the clock once, after stats() has returned.
PublishStats(t) ==
    LET exact == ExactStats(thread[t].stats)
        out == [name \in DOMAIN exact |->
                   IF name \in Noised THEN Publish(name, exact[name], now) ELSE exact[name]]
    IN  /\ At(t, "load") /\ Len(thread[t].stats) = Len(CounterNames) + 2 * ShardCount
        /\ Become(t, [at |-> "published", exact |-> exact, stats |-> out,
                      epoch |-> EpochIndex(now), earlier |-> thread[t].earlier])
        /\ UNCHANGED <<cache, counters, now, erased, seen, steady, answered>>

Published(t) ==
    /\ At(t, "published")
    /\ answered' = answered \cup {[epoch |-> thread[t].epoch, stats |-> thread[t].stats]}
    /\ Become(t, Idle)
    /\ UNCHANGED <<cache, counters, now, erased, seen, steady>>

-----------------------------------------------------------------------------
Tick ==
    /\ now < MaxTime
    /\ now' = now + 1
    /\ UNCHANGED <<cache, counters, thread, erased, seen, steady, answered>>

Loaded(s) ==
    FoldLeft(LAMBDA c, kv : IF ShardIndex(kv[1]) = s THEN PutPtr(c, kv[1], kv[2]) ELSE c,
             EmptyShard, Preload)

Init ==
    /\ cache = [s \in Shards |-> Loaded(s)]
    /\ counters = [name \in Range(CounterNames) |->
                      IF name \in {"requests", "puts"} THEN Len(Preload) ELSE 0]
    /\ now = 0
    /\ thread = [t \in Threads |-> Idle]
    /\ erased = 0
    /\ seen = [t \in Threads |-> {}] /\ steady = [t \in Threads |-> {}]
    /\ answered = {}

ThreadStep(t) ==
    \/ (\E operation \in Operations : Receive(t, operation))
    \/ Visit(t)
    \/ OnGet(t) \/ Tally(t) \/ OnPut(t) \/ OnDelete(t)
    \/ ScanShard(t) \/ Select(t) \/ Recommended(t)
    \/ LoadNext(t) \/ PublishStats(t) \/ Published(t)

Next == Tick \/ \E t \in Threads : ThreadStep(t)

Spec == Init /\ [][Next]_vars

-----------------------------------------------------------------------------
\* The abstract cache, its maps seen through the indexes and its recency through the lists.
Abstract == INSTANCE CacheSpec WITH
    Home <- [s \in Shards |-> {k \in Keys : ShardIndex(k) = s}],
    Capacity <- PerShard,
    store <- [s \in Shards |-> [k \in DOMAIN cache[s].index |-> Deref(cache[s], k).value]],
    recent <- [s \in Shards |-> KeysMruToLru(cache[s])]

\* Whatever the threads do at once, the shards behave as the bounded maps of
\* CacheSpec: list and index never disagree, the victim of an eviction is the key
\* unused for longest, and a recommendation's scan is not a use of anything.
ShardsAreCaches == Abstract!Spec

\* A recommendation's candidates are entries that were in the cache at some moment
\* of the request, each key at most once, and no entry that was there all along is
\* missed, though the shards are read at different moments.
ScanIsFair ==
    \A t \in Threads : At(t, "recommended") =>
        /\ steady[t] \subseteq thread[t].batch
        /\ thread[t].batch \subseteq seen[t]
        /\ \A a, b \in thread[t].batch : a[1] = b[1] => a = b

\* When no request is in progress the handler's counters and the shards' metrics
\* tell one story: nothing is counted twice or lost, whatever the interleaving was.
CountersSettle ==
    LET Sum(name) == MapThenSumSet(LAMBDA s : cache[s].metrics[name], Shards) IN
    (\A t \in Threads : At(t, "idle")) =>
        /\ counters.hits = Sum("hits") /\ counters.misses = Sum("misses")
        /\ counters.gets = counters.hits + counters.misses
        /\ Sum("insertions") = Sum("evictions") + erased + MapThenSumSet(LAMBDA s : Size(cache[s]), Shards)
        /\ Sum("insertions") + Sum("updates") <= counters.puts

\* A StatsResult is never below one that was sent, in the same epoch, before its
\* request arrived: noise does not make a growing counter fall between two reads.
PublishedNeverFalls ==
    \A t \in Threads : At(t, "published") =>
        \A before \in thread[t].earlier :
            before.epoch = thread[t].epoch =>
                \A name \in Noised \cup {"puts", "deletes", "evictions"} :
                    before.stats[name] <= thread[t].stats[name]

\* A noised figure is zero or a multiple of the rounding above the threshold, and
\* the two roundings, to an integer and to a multiple, move it by no more than half
\* a step each.
PublishedIsCoarse ==
    \A t \in Threads : At(t, "published") =>
        \A name \in Noised :
            LET p == thread[t].stats[name]
                noised == 2 * thread[t].exact[name] + Draw[<<name, thread[t].epoch>>]
            IN  p = 0 \/ /\ p % Rounding = 0 /\ p > Threshold
                         /\ 2 * p - noised \in -(Rounding + 1) .. Rounding + 1
=============================================================================
