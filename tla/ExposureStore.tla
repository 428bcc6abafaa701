--------------------------- MODULE ExposureStore ---------------------------
(***************************************************************************)
(* policy::ExposureStore: the sharded table of per-item counters that      *)
(* decides whether an item may be returned.                                *)
(*                                                                         *)
(* Every public operation holds exactly one shard mutex from its first     *)
(* read to its last write (clear() one mutex after the other), so each     *)
(* operation, or each shard of a clear(), is one atomic step here.  The    *)
(* caller supplies `now`; nothing in the class orders the values it sees,  *)
(* so Next lets every call carry any member of Times.                      *)
(***************************************************************************)
EXTENDS Integers, FiniteSets, SequencesExt

CONSTANTS
    Items,              \* item ids
    NumShards,          \* shard_count
    ShardFor,           \* hash_mix(id) & mask_, as a function of the id
    MaxTrackedItems,    \* config_.max_tracked_items
    ExposureCap,        \* config_.exposure_cap, 0 disables
    FrequencyLimit,     \* config_.frequency_limit, 0 disables
    FrequencyWindow,    \* config_.frequency_window in milliseconds
    FailOpen,           \* config_.fail_open_when_full
    Times,              \* the epoch milliseconds a caller may pass
    MaxReserves         \* bound on the calls of reserve() in a behaviour

Shards == 0 .. NumShards - 1

\* What the constructor's two throws leave: NumShards >= 1 (the code also wants
\* a power of two, for the mask), and room for one entry in every shard.
ASSUME ConfigAssumption ==
    /\ NumShards \in Nat \ {0}
    /\ ShardFor \in [Items -> Shards]
    /\ MaxTrackedItems \in Nat
    /\ MaxTrackedItems >= NumShards
    /\ ExposureCap \in Nat
    /\ FrequencyLimit \in Nat
    /\ FrequencyWindow \in Nat
    /\ FailOpen \in BOOLEAN
    /\ Times \subseteq Nat
    /\ MaxReserves \in Nat

VARIABLES
    tracked,    \* the ids present in some shard's `entries`
    entries,    \* id -> Entry, NoEntry where untracked
    recency,    \* shard -> the recency list, most recently granted first
    clear_at,   \* the shard the next step of clear() empties
    metrics,    \* the relaxed atomic counters
    \* History: what was granted, whatever the counters have since forgotten.
    shown,      \* id -> grants so far
    shownIn,    \* id -> aligned window -> grants with `now` in that window
    dropped,    \* id -> times its entry was evicted, forgotten or cleared
    late,       \* id -> times reserve() moved its window backwards
    grantedAt   \* id -> position of its last grant among all grants

store   == <<tracked, entries, recency, clear_at, metrics>>
history == <<shown, shownIn, dropped, late, grantedAt>>
vars    == <<store, history>>

-----------------------------------------------------------------------------
(* Entries and the two-window estimate *)

Entry == [lifetime_shows : Nat, window_index : Nat, current : Nat, previous : Nat]

NoEntry == [lifetime_shows |-> 0, window_index |-> 0, current |-> 0, previous |-> 0]

PolicyMetrics == [allowed : Nat, exposure_blocked : Nat, frequency_blocked : Nat,
                  store_full_blocked : Nat, evicted : Nat]

PerShardCapacity == MaxTrackedItems \div NumShards

WindowOf(now) == IF FrequencyWindow > 0 THEN now \div FrequencyWindow ELSE 0

Windows == {WindowOf(now) : now \in Times}

NewEntry(now) == [NoEntry EXCEPT !.window_index = WindowOf(now)]

\* Mutant: the previous window is forgotten at every boundary.
AdvanceForgetting(e, now) ==
    IF WindowOf(now) # e.window_index
    THEN [e EXCEPT !.previous = 0, !.current = 0, !.window_index = WindowOf(now)]
    ELSE e

\* advance_and_estimate(): what it does to the entry.
Advance(e, now) ==
    CASE FrequencyWindow = 0 -> e
      [] FrequencyWindow > 0 /\ WindowOf(now) = e.window_index + 1 ->
            [e EXCEPT !.previous = e.current, !.current = 0,
                      !.window_index = WindowOf(now)]
      [] FrequencyWindow > 0 /\ WindowOf(now) = e.window_index -> e
      [] OTHER ->
            [e EXCEPT !.previous = 0, !.current = 0, !.window_index = WindowOf(now)]

\* Mutant: refuses only once the estimate itself exceeds the limit.
OverLimitOffByOne(previous, current, now) ==
    /\ FrequencyWindow > 0
    /\ previous * (FrequencyWindow - (now % FrequencyWindow))
         + current * FrequencyWindow
         > FrequencyLimit * FrequencyWindow

\* estimate + 1.0 > limit, with both sides multiplied by the window: the
\* estimate is previous * (1 - elapsed / window) + current, and 0 when the
\* window is 0.
OverLimit(previous, current, now) ==
    /\ FrequencyWindow > 0
    /\ previous * (FrequencyWindow - (now % FrequencyWindow))
         + current * FrequencyWindow + FrequencyWindow
         > FrequencyLimit * FrequencyWindow

\* Mutant: the dry run rolls a stale window forward as if it were the last one.
RolledKeepingStale(e, now) ==
    IF WindowOf(now) = e.window_index
    THEN [previous |-> e.previous, current |-> e.current]
    ELSE [previous |-> e.current, current |-> 0]

\* estimate_without_advancing(): the same roll-forward into two locals.
Rolled(e, now) ==
    CASE WindowOf(now) = e.window_index + 1 -> [previous |-> e.current, current |-> 0]
      [] WindowOf(now) = e.window_index -> [previous |-> e.previous, current |-> e.current]
      [] OTHER -> [previous |-> 0, current |-> 0]

\* Mutant: one show too many.
AtCapOffByOne(e) == ExposureCap > 0 /\ e.lifetime_shows > ExposureCap

AtCap(e) == ExposureCap > 0 /\ e.lifetime_shows >= ExposureCap

-----------------------------------------------------------------------------
(* One shard *)

InShard(s) == {id \in tracked : ShardFor[id] = s}

\* Mutant: room for one entry more.
FullOffByOne(s) == Cardinality(InShard(s)) > PerShardCapacity

Full(s) == Cardinality(InShard(s)) >= PerShardCapacity

\* evict_one(): the least recently granted id gives up its slot.
Evicted(id) ==
    LET list == recency[ShardFor[id]]
    IN  IF id \notin tracked /\ Full(ShardFor[id]) /\ FailOpen /\ list # <<>>
        THEN {Last(list)}
        ELSE {}

\* What evict_one() leaves of the recency list.
Remaining(id) ==
    LET list == recency[ShardFor[id]]
    IN  IF Evicted(id) = {} THEN list ELSE Front(list)

\* Mutant: an id that is already listed is not moved to the front.
TouchWithoutMove(list, id) ==
    IF FailOpen /\ ~Contains(list, id) THEN Cons(id, list) ELSE list

\* Mutant: push_front without looking the id up first.
TouchDuplicating(list, id) == IF FailOpen THEN Cons(id, list) ELSE list

\* touch_recency(): splice to the front, or push_front when not yet listed.
Touch(list, id) == IF FailOpen THEN Cons(id, RemoveFirst(list, id)) ELSE list

\* reserve() has no slot for an untracked id, and evict_one() does not make one.
NoRoom(id) ==
    /\ id \notin tracked
    /\ Full(ShardFor[id])
    /\ ~FailOpen \/ recency[ShardFor[id]] = <<>>

\* The entry reserve() works on: the one found, or the one just emplaced.
Found(id, now) == IF id \in tracked THEN entries[id] ELSE NewEntry(now)

-----------------------------------------------------------------------------
(* reserve(): one action per return statement *)

\* The entry of id becomes e and an evicted entry is gone.
Save(id, e) ==
    /\ tracked' = (tracked \ Evicted(id)) \cup {id}
    /\ entries' = [x \in Items |-> IF x = id THEN e
                                   ELSE IF x \in Evicted(id) THEN NoEntry
                                   ELSE entries[x]]
    /\ dropped' = [x \in Items |-> IF x \in Evicted(id) THEN dropped[x] + 1
                                   ELSE dropped[x]]

\* evicted_ as evict_one() leaves it.
EvictedCount(id) == metrics.evicted + (IF Evicted(id) = {} THEN 0 ELSE 1)

StoreFull(id) ==
    /\ NoRoom(id)
    /\ metrics' = [metrics EXCEPT !.store_full_blocked = @ + 1]
    /\ UNCHANGED <<tracked, entries, recency, clear_at, history>>

ExposureCapReached(id, now) ==
    /\ ~NoRoom(id)
    /\ AtCap(Found(id, now))
    /\ Save(id, Found(id, now))
    /\ recency' = [recency EXCEPT ![ShardFor[id]] = Remaining(id)]
    /\ metrics' = [metrics EXCEPT !.exposure_blocked = @ + 1, !.evicted = EvictedCount(id)]
    /\ UNCHANGED <<clear_at, shown, shownIn, late, grantedAt>>

\* The roll-forward is kept even when the show is refused.
Rolls(id, now) ==
    late' = [late EXCEPT ![id] =
                IF FrequencyLimit > 0 /\ WindowOf(now) < Found(id, now).window_index
                THEN @ + 1 ELSE @]

FrequencyLimited(id, now) ==
    LET e == Advance(Found(id, now), now)
    IN  /\ ~NoRoom(id)
        /\ ~AtCap(Found(id, now))
        /\ FrequencyLimit > 0
        /\ OverLimit(e.previous, e.current, now)
        /\ Save(id, e)
        /\ recency' = [recency EXCEPT ![ShardFor[id]] = Remaining(id)]
        /\ metrics' = [metrics EXCEPT !.frequency_blocked = @ + 1, !.evicted = EvictedCount(id)]
        /\ Rolls(id, now)
        /\ UNCHANGED <<clear_at, shown, shownIn, grantedAt>>

\* The entry as an admitted show leaves it.
Charged(e, now) ==
    IF FrequencyLimit > 0
    THEN LET a == Advance(e, now)
         IN  [a EXCEPT !.current = a.current + 1,
                       !.lifetime_shows = a.lifetime_shows + 1]
    ELSE [e EXCEPT !.lifetime_shows = @ + 1]

Allowed(id, now) ==
    LET e == Advance(Found(id, now), now)
    IN  /\ ~NoRoom(id)
        /\ ~AtCap(Found(id, now))
        /\ FrequencyLimit > 0 => ~OverLimit(e.previous, e.current, now)
        /\ Save(id, Charged(Found(id, now), now))
        /\ recency' = [recency EXCEPT ![ShardFor[id]] = Touch(Remaining(id), id)]
        /\ metrics' = [metrics EXCEPT !.allowed = @ + 1, !.evicted = EvictedCount(id)]
        /\ Rolls(id, now)
        /\ shown' = [shown EXCEPT ![id] = @ + 1]
        /\ shownIn' = [shownIn EXCEPT ![id][WindowOf(now)] = @ + 1]
        /\ grantedAt' = [grantedAt EXCEPT ![id] = metrics.allowed + 1]
        /\ UNCHANGED clear_at

Reserves == metrics.allowed + metrics.exposure_blocked
              + metrics.frequency_blocked + metrics.store_full_blocked

Reserve(id, now) ==
    /\ Reserves < MaxReserves
    /\ \/ StoreFull(id)
       \/ ExposureCapReached(id, now)
       \/ FrequencyLimited(id, now)
       \/ Allowed(id, now)

-----------------------------------------------------------------------------
(* check(), forget() and clear() *)

\* check() changes nothing; its value is the decision it returns.
Check(id, now) ==
    IF id \notin tracked
    THEN IF Full(ShardFor[id]) /\ ~FailOpen THEN "StoreFull" ELSE "Allowed"
    ELSE LET r == Rolled(entries[id], now)
         IN  CASE AtCap(entries[id]) -> "ExposureCapReached"
               [] /\ ~AtCap(entries[id])
                  /\ FrequencyLimit > 0
                  /\ OverLimit(r.previous, r.current, now) -> "FrequencyLimited"
               [] OTHER -> "Allowed"

\* Entries of gone are erased; recency and clear_at are the caller's to set.
Erase(gone) ==
    /\ tracked' = tracked \ gone
    /\ entries' = [x \in Items |-> IF x \in gone THEN NoEntry ELSE entries[x]]
    /\ dropped' = [x \in Items |-> IF x \in gone THEN dropped[x] + 1 ELSE dropped[x]]
    /\ UNCHANGED <<metrics, shown, shownIn, late, grantedAt>>

Forget(id) ==
    /\ Erase({id} \cap tracked)
    /\ recency' = [recency EXCEPT ![ShardFor[id]] = RemoveFirst(@, id)]
    /\ UNCHANGED clear_at

\* Mutant: the loop does not stop at the last shard.
ClearShardPastEnd ==
    /\ Erase(InShard(clear_at))
    /\ recency' = [recency EXCEPT ![clear_at] = <<>>]
    /\ clear_at' = clear_at + 1

\* One iteration of clear(); clear_at = 0 both before the first and after the
\* last, so a clear() begins whenever this step is taken from 0.
ClearShard ==
    /\ Erase(InShard(clear_at))
    /\ recency' = [recency EXCEPT ![clear_at] = <<>>]
    /\ clear_at' = (clear_at + 1) % NumShards

-----------------------------------------------------------------------------

Init ==
    /\ tracked = {}
    /\ entries = [id \in Items |-> NoEntry]
    /\ recency = [s \in Shards |-> <<>>]
    /\ clear_at = 0
    /\ metrics = [allowed |-> 0, exposure_blocked |-> 0, frequency_blocked |-> 0,
                  store_full_blocked |-> 0, evicted |-> 0]
    /\ shown = [id \in Items |-> 0]
    /\ shownIn = [id \in Items |-> [w \in Windows |-> 0]]
    /\ dropped = [id \in Items |-> 0]
    /\ late = [id \in Items |-> 0]
    /\ grantedAt = [id \in Items |-> 0]

Next ==
    \/ \E id \in Items, now \in Times : Reserve(id, now)
    \/ \E id \in Items : Forget(id)
    \/ ClearShard

Spec == Init /\ [][Next]_vars

-----------------------------------------------------------------------------
(* Properties *)

\* The variables hold the kinds of values the class's members hold.
TypeOK ==
    /\ tracked \subseteq Items
    /\ entries \in [Items -> Entry]
    /\ recency \in [Shards -> Seq(Items)]
    /\ clear_at \in Shards
    /\ metrics \in PolicyMetrics
    /\ shown \in [Items -> Nat]
    /\ shownIn \in [Items -> [Windows -> Nat]]
    /\ dropped \in [Items -> Nat]
    /\ late \in [Items -> Nat]
    /\ grantedAt \in [Items -> Nat]

\* The lifetime cap: whatever the order of calls and whatever `now` each carries,
\* reserve() grants an item at most ExposureCap shows for every life of its
\* entry, so never more than the cap while nothing drops the entry.
CapRespected ==
    ExposureCap > 0 =>
        \A id \in Items : shown[id] <= ExposureCap * (1 + dropped[id])

\* The frequency limit, per aligned window: reserve() grants at most
\* FrequencyLimit shows stamped with one window, plus one more allowance for
\* each time the entry was dropped or a late `now` moved its window backwards.
WindowRespected ==
    FrequencyLimit > 0 /\ FrequencyWindow > 0 =>
        \A id \in Items, w \in Windows :
            shownIn[id][w] <= FrequencyLimit * (1 + dropped[id] + late[id])

\* The sliding estimate: two adjacent aligned windows, and so any interval of one
\* window's length, hold fewer than twice the limit of reserve()'s grants,
\* provided calls arrived in window order and the entry was never dropped.
RollingRespected ==
    FrequencyLimit > 0 /\ FrequencyWindow > 0 =>
        \A id \in Items : \A w \in Windows :
            (w + 1 \in Windows /\ dropped[id] = 0 /\ late[id] = 0)
                => shownIn[id][w] + shownIn[id][w + 1] < 2 * FrequencyLimit

\* The bound on memory: no shard ever holds more than per_shard_capacity_ entries.
CapacityRespected ==
    \A s \in Shards : Cardinality(InShard(s)) <= PerShardCapacity

\* The recency list is exact: under fail-open it holds the ids of its shard's
\* entries, each once, so evict_one() on a full shard always finds a victim
\* whose entry exists; under fail-closed it stays empty.
RecencyMatches ==
    \A s \in Shards :
        /\ IsInjective(recency[s])
        /\ ToSet(recency[s]) = IF FailOpen THEN InShard(s) ELSE {}

\* A dry run tells the truth: whenever reserve() returns a decision, check() on
\* the same state, id and time would have returned that decision.
CheckPredicts ==
    [][\A id \in Items, now \in Times :
         /\ StoreFull(id) => Check(id, now) = "StoreFull"
         /\ ExposureCapReached(id, now) => Check(id, now) = "ExposureCapReached"
         /\ FrequencyLimited(id, now) => Check(id, now) = "FrequencyLimited"
         /\ Allowed(id, now) => Check(id, now) = "Allowed"]_vars

\* evict_one() drops the entry of the shard whose last grant is the oldest.
EvictsLeastRecentlyGranted ==
    [][metrics'.evicted > metrics.evicted =>
         \A v \in tracked \ tracked' : \A id \in InShard(ShardFor[v]) :
            grantedAt[v] <= grantedAt[id]]_vars
=============================================================================
