------------------------------ MODULE LruCache ------------------------------
(***************************************************************************)
(* cache::LruCache as operators on one shard: entries_, a list of nodes    *)
(* with the most recently used in front, index_, which maps a key to its   *)
(* node, and metrics_.  A node keeps its identity while it is spliced.     *)
(* LockedCache makes each operator one critical section, and ShardedCache  *)
(* sends a key to the shard its hash selects.                              *)
(***************************************************************************)
EXTENDS Integers, Sequences, SequencesExt, Functions, FiniteSetsExt

CONSTANTS
    Keys,           \* item ids, none of them zero
    Values,         \* item payloads
    ShardCount,     \* a power of two
    CacheCapacity,  \* capacity_ of the ShardedCache
    Hash            \* key -> its mixed hash

\* The throws of the two constructors.
ASSUME CacheAssumption ==
    /\ \E n \in 0 .. ShardCount : ShardCount = 2 ^ n
    /\ CacheCapacity >= ShardCount
    /\ Hash \in [Keys -> Nat]

Shards == 0 .. ShardCount - 1
ShardIndex(k) == Hash[k] % ShardCount       \* & mask_
PerShard == CacheCapacity \div ShardCount

NoMetrics == [hits |-> 0, misses |-> 0, insertions |-> 0, updates |-> 0, evictions |-> 0]
EmptyShard == [entries |-> <<>>, index |-> <<>>, metrics |-> NoMetrics]

Counted(c, name) == [c EXCEPT !.metrics[name] = @ + 1]
Bound(f, k, v) == [x \in DOMAIN f \cup {k} |-> IF x = k THEN v ELSE f[x]]
Unbound(f, k) == Restrict(f, DOMAIN f \ {k})

Found(c, k) == k \in DOMAIN c.index
Place(c, k) == CHOOSE i \in DOMAIN c.entries : c.entries[i].node = c.index[k]
Deref(c, k) == c.entries[Place(c, k)]

\* entries_.splice(entries_.begin(), entries_, index_[k])
Splice(c, k) == [c EXCEPT !.entries = <<Deref(c, k)>> \o RemoveAt(c.entries, Place(c, k))]

\* A node nothing points to.
FreshNode(c) == Min((1 .. PerShard + 1) \ {c.entries[i].node : i \in DOMAIN c.entries})

Get(c, k) == IF Found(c, k) THEN Splice(Counted(c, "hits"), k) ELSE Counted(c, "misses")

EvictLru(c) ==
    IF c.entries = <<>> THEN c
    ELSE Counted([c EXCEPT !.index = Unbound(@, Last(c.entries).key),
                           !.entries = Front(@)], "evictions")

\* Mutant: an update leaves the entry where it is in the list.
PutInPlace(c, k, v) ==
    IF Found(c, k)
    THEN Counted([c EXCEPT !.entries[Place(c, k)].value = v], "updates")
    ELSE LET room == IF Cardinality(DOMAIN c.index) >= PerShard THEN EvictLru(c) ELSE c
         IN  Counted([room EXCEPT !.index = Bound(@, k, FreshNode(room)),
                                  !.entries = <<[node |-> FreshNode(room), key |-> k,
                                                 value |-> v]>> \o @], "insertions")

PutPtr(c, k, v) ==
    IF Found(c, k)
    THEN Splice(Counted([c EXCEPT !.entries[Place(c, k)].value = v], "updates"), k)
    ELSE LET room == IF Cardinality(DOMAIN c.index) >= PerShard THEN EvictLru(c) ELSE c
         IN  Counted([room EXCEPT !.index = Bound(@, k, FreshNode(room)),
                                  !.entries = <<[node |-> FreshNode(room), key |-> k,
                                                 value |-> v]>> \o @], "insertions")

Erase(c, k) ==
    IF Found(c, k)
    THEN [c EXCEPT !.entries = RemoveAt(@, Place(c, k)), !.index = Unbound(@, k)]
    ELSE c

\* LockedCache::snapshot, through for_each: no recency changes.
Snapshot(c) == {<<c.entries[i].key, c.entries[i].value>> : i \in DOMAIN c.entries}

Size(c) == Cardinality(DOMAIN c.index)
KeysMruToLru(c) == [i \in DOMAIN c.entries |-> c.entries[i].key]
=============================================================================
