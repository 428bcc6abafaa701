------------------------ MODULE ExposureStoreProofs ------------------------
(* Theorems about ExposureStore, for every value of its constants. *)
EXTENDS ExposureStore, SequenceTheorems, FiniteSetTheorems, TLAPS

-----------------------------------------------------------------------------
(* Lists: what the recency operations do to a list without duplicates *)

\* Removing position i of a duplicate-free list removes exactly that element.
LEMMA RemoveAtProperties ==
    ASSUME NEW S, NEW list \in Seq(S), IsInjective(list), NEW i \in 1 .. Len(list)
    PROVE  /\ RemoveAt(list, i) \in Seq(S)
           /\ IsInjective(RemoveAt(list, i))
           /\ ToSet(RemoveAt(list, i)) = ToSet(list) \ {list[i]}
<1> DEFINE a == SubSeq(list, 1, i - 1)
           b == SubSeq(list, i + 1, Len(list))
           r == RemoveAt(list, i)
<1>0. Len(list) \in Nat /\ DOMAIN list = 1 .. Len(list) /\ \A j \in 1 .. Len(list) : list[j] \in S
  BY LenProperties, ElementOfSeq
<1>1. /\ a \in Seq(S)
      /\ Len(a) = i - 1
      /\ \A j \in 1 .. i - 1 : a[j] = list[j]
  BY <1>0, SubSeqProperties
<1>2. /\ b \in Seq(S)
      /\ Len(b) = Len(list) - i
      /\ \A j \in 1 .. Len(list) - i : b[j] = list[i + j]
  <2> DEFINE m == i + 1
             n == Len(list)
  <2>1. m \in Int /\ n \in Int /\ \A j \in m .. n : list[j] \in S
    BY <1>0
  <2>2. b = SubSeq(list, m, n)
    OBVIOUS
  <2>3. i \in 1 .. n /\ m = i + 1 /\ n \in Nat
    BY <1>0
  <2> HIDE DEF b, m, n
  <2>4. /\ b \in Seq(S)
        /\ Len(b) = IF m <= n THEN n - m + 1 ELSE 0
        /\ \A j \in 1 .. n - m + 1 : b[j] = list[m + j - 1]
    BY <2>1, <2>2, SubSeqProperties
  <2>5. Len(b) = n - i /\ \A j \in 1 .. n - i : b[j] = list[i + j]
    <3>1. Len(b) = n - i
      BY <2>3, <2>4
    <3>2. ASSUME NEW j \in 1 .. n - i PROVE b[j] = list[i + j]
      <4>1. j \in 1 .. n - m + 1 /\ m + j - 1 = i + j
        BY <2>3
      <4>2. QED
        BY <4>1, <2>4
    <3>3. QED
      BY <3>1, <3>2
  <2>6. QED
    BY <2>4, <2>5 DEF n
<1>3. /\ r \in Seq(S)
      /\ Len(r) = Len(list) - 1
      /\ \A j \in 1 .. Len(list) - 1 : r[j] = IF j < i THEN list[j] ELSE list[j + 1]
  <2>1. r = a \o b
    BY DEF RemoveAt
  <2> HIDE DEF a, b, r
  <2>2. /\ a \o b \in Seq(S)
        /\ Len(a \o b) = Len(a) + Len(b)
        /\ \A j \in 1 .. Len(a) + Len(b) :
              (a \o b)[j] = IF j <= Len(a) THEN a[j] ELSE b[j - Len(a)]
    BY <1>1, <1>2, ConcatProperties, Zenon
  <2>3. QED
    BY <1>0, <1>1, <1>2, <2>1, <2>2
<1> HIDE DEF r
<1>4. DOMAIN r = 1 .. Len(list) - 1
  BY <1>3, LenProperties
<1>5. IsInjective(r)
  BY <1>0, <1>3, <1>4, SMTT(60) DEF IsInjective
<1>6. ToSet(r) = ToSet(list) \ {list[i]}
  <2>1. ASSUME NEW x \in ToSet(r) PROVE x \in ToSet(list) \ {list[i]}
    BY <1>0, <1>3, <1>4, <2>1 DEF ToSet, IsInjective
  <2>2. ASSUME NEW x \in ToSet(list), x # list[i] PROVE x \in ToSet(r)
    <3>1. PICK k \in 1 .. Len(list) : x = list[k]
      BY <1>0 DEF ToSet
    <3>2. CASE k < i
      BY <1>0, <1>3, <1>4, <3>1, <3>2 DEF ToSet
    <3>3. CASE k > i
      <4>1. k - 1 \in DOMAIN r /\ r[k - 1] = x
        BY <1>0, <1>3, <1>4, <3>1, <3>3
      <4>2. QED
        BY <4>1 DEF ToSet
    <3>4. QED
      BY <1>0, <2>2, <3>1, <3>2, <3>3
  <2>3. QED
    BY <2>1, <2>2
<1>7. QED
  BY <1>3, <1>5, <1>6 DEF r

\* forget() and splice(): RemoveFirst takes one id out of a duplicate-free list.
LEMMA RemoveFirstProperties ==
    ASSUME NEW S, NEW list \in Seq(S), IsInjective(list), NEW e
    PROVE  /\ RemoveFirst(list, e) \in Seq(S)
           /\ IsInjective(RemoveFirst(list, e))
           /\ ToSet(RemoveFirst(list, e)) = ToSet(list) \ {e}
<1> DEFINE I == {i \in 1 .. Len(list) : list[i] = e}
<1>0. DOMAIN list = 1 .. Len(list)
  BY LenProperties
<1>1. CASE I = {}
  <2>1. RemoveFirst(list, e) = list
    BY <1>1 DEF RemoveFirst
  <2>2. e \notin ToSet(list)
    BY <1>0, <1>1 DEF ToSet
  <2>3. QED
    BY <2>1, <2>2
<1>2. CASE I # {}
  <2> DEFINE k == Min(I)
  <2>1. PICK i \in I : TRUE
    BY <1>2
  <2>2. I = {i}
    BY <1>0, <2>1 DEF IsInjective
  <2>3. k = i
    <3>1. i \in Int
      OBVIOUS
    <3> HIDE DEF I
    <3>2. QED
      BY <2>2, <3>1 DEF Min
  <2>4. RemoveFirst(list, e) = RemoveAt(list, i)
    BY <1>2, <2>3 DEF RemoveFirst, SelectInSeq
  <2>5. i \in 1 .. Len(list) /\ list[i] = e
    BY <2>1
  <2> HIDE DEF I
  <2>6. QED
    BY <2>4, <2>5, RemoveAtProperties
<1>3. QED
  BY <1>1, <1>2

\* evict_one(): pop_back takes the last id out of a duplicate-free list.
LEMMA FrontProperties ==
    ASSUME NEW S, NEW list \in Seq(S), IsInjective(list), list # <<>>
    PROVE  /\ Last(list) \in ToSet(list)
           /\ Front(list) \in Seq(S)
           /\ IsInjective(Front(list))
           /\ ToSet(Front(list)) = ToSet(list) \ {Last(list)}
<1> DEFINE n == Len(list)
<1>1. /\ n \in Nat /\ n >= 1 /\ DOMAIN list = 1 .. n
      /\ \A j \in 1 .. n : list[j] \in S
  BY LenProperties, ElementOfSeq, EmptySeq
<1>2. Last(list) = list[n] /\ Last(list) \in ToSet(list)
  BY <1>1 DEF Last, ToSet
<1>3. /\ Front(list) \in Seq(S)
      /\ Len(Front(list)) = n - 1
      /\ \A j \in 1 .. n - 1 : Front(list)[j] = list[j]
  BY <1>1, SubSeqProperties DEF Front
<1>4. DOMAIN Front(list) = 1 .. n - 1
  BY <1>3, LenProperties
<1> HIDE DEF n
<1>5. IsInjective(Front(list))
  BY <1>1, <1>3, <1>4 DEF IsInjective
<1>6. ToSet(Front(list)) = ToSet(list) \ {Last(list)}
  BY <1>1, <1>2, <1>3, <1>4 DEF ToSet, IsInjective
<1>7. QED
  BY <1>2, <1>3, <1>5, <1>6

\* push_front of an id that is not listed.
LEMMA ConsProperties ==
    ASSUME NEW S, NEW list \in Seq(S), IsInjective(list), NEW e \in S, e \notin ToSet(list)
    PROVE  /\ Cons(e, list) \in Seq(S)
           /\ IsInjective(Cons(e, list))
           /\ ToSet(Cons(e, list)) = ToSet(list) \cup {e}
<1> DEFINE n == Len(list)
           c == Cons(e, list)
<1>1. n \in Nat /\ DOMAIN list = 1 .. n
  BY LenProperties
<1>2. <<e>> \in Seq(S) /\ Len(<<e>>) = 1 /\ <<e>>[1] = e
  OBVIOUS
<1>3. /\ c \in Seq(S)
      /\ Len(c) = n + 1
      /\ c[1] = e
      /\ \A j \in 2 .. n + 1 : c[j] = list[j - 1]
  BY <1>1, <1>2, ConcatProperties DEF Cons
<1>4. DOMAIN c = 1 .. n + 1
  BY <1>3, LenProperties
<1> HIDE DEF c, n
<1>5. IsInjective(c)
  BY <1>1, <1>3, <1>4 DEF IsInjective, ToSet
<1>6. ToSet(c) = ToSet(list) \cup {e}
  <2>1. ASSUME NEW j \in 1 .. n PROVE list[j] \in ToSet(c)
    <3>1. j + 1 \in DOMAIN c /\ c[j + 1] = list[j]
      BY <1>1, <1>3, <1>4
    <3>2. QED
      BY <3>1 DEF ToSet
  <2>2. e \in ToSet(c)
    BY <1>1, <1>3, <1>4 DEF ToSet
  <2>3. ASSUME NEW x \in ToSet(c) PROVE x \in ToSet(list) \cup {e}
    <3>1. PICK k \in 1 .. n + 1 : x = c[k]
      BY <1>4 DEF ToSet
    <3>2. k = 1 \/ (k \in 2 .. n + 1 /\ k - 1 \in 1 .. n)
      BY <1>1
    <3>3. QED
      BY <1>1, <1>3, <3>1, <3>2, Zenon DEF ToSet
  <2>4. QED
    BY <1>1, <2>1, <2>2, <2>3 DEF ToSet
<1>7. QED
  BY <1>3, <1>5, <1>6 DEF c

-----------------------------------------------------------------------------
(* Entries: the window arithmetic keeps entries well typed *)

\* Every `now` a caller passes falls in one of the windows the history counts.
LEMMA WindowType ==
    ASSUME NEW now \in Times
    PROVE  WindowOf(now) \in Windows /\ WindowOf(now) \in Nat
<1>1. WindowOf(now) \in Windows
  BY DEF Windows
<1>2. WindowOf(now) \in Nat
  BY ConfigAssumption DEF WindowOf
<1>3. QED
  BY <1>1, <1>2

\* advance_and_estimate() and the charge of an admitted show keep an Entry an Entry.
LEMMA EntryType ==
    ASSUME NEW now \in Times, NEW e \in Entry
    PROVE  /\ NoEntry \in Entry
           /\ NewEntry(now) \in Entry
           /\ Advance(e, now) \in Entry
           /\ Charged(e, now) \in Entry
<1>1. NoEntry \in Entry /\ NewEntry(now) \in Entry
  BY WindowType DEF NoEntry, NewEntry, Entry
<1>2. Advance(e, now) \in Entry
  <2>1. /\ [e EXCEPT !.previous = e.current, !.current = 0, !.window_index = WindowOf(now)] \in Entry
        /\ [e EXCEPT !.previous = 0, !.current = 0, !.window_index = WindowOf(now)] \in Entry
    BY WindowType, Zenon DEF Entry
  <2>2. FrequencyWindow = 0 \/ FrequencyWindow > 0
    BY ConfigAssumption
  <2>3. QED
    BY <2>1, <2>2 DEF Advance
<1>3. Charged(e, now) \in Entry
  <2> DEFINE a == Advance(e, now)
  <2>1. \/ Charged(e, now) = [a EXCEPT !.current = a.current + 1,
                                       !.lifetime_shows = a.lifetime_shows + 1]
        \/ Charged(e, now) = [e EXCEPT !.lifetime_shows = @ + 1]
    BY DEF Charged
  <2>2. a \in Entry
    BY <1>2
  <2> HIDE DEF a
  <2>3. [a EXCEPT !.current = a.current + 1,
                  !.lifetime_shows = a.lifetime_shows + 1] \in Entry
    <3>1. a.current + 1 \in Nat /\ a.lifetime_shows + 1 \in Nat
      BY <2>2 DEF Entry
    <3>2. \A m, n \in Nat : [a EXCEPT !.current = m, !.lifetime_shows = n] \in Entry
      BY <2>2, Zenon DEF Entry
    <3>3. QED
      BY <3>1, <3>2, Zenon
  <2>4. [e EXCEPT !.lifetime_shows = @ + 1] \in Entry
    BY DEF Entry
  <2>5. QED
    BY <2>1, <2>3, <2>4, Zenon
<1>4. QED
  BY <1>1, <1>2, <1>3

\* A newly emplaced entry is never refused: it has no shows, and a limit of at
\* least one admits the first.
LEMMA NewEntryGranted ==
    ASSUME NEW now \in Times
    PROVE  /\ ~AtCap(NewEntry(now))
           /\ FrequencyLimit > 0 =>
                LET e == Advance(NewEntry(now), now)
                IN  ~OverLimit(e.previous, e.current, now)
<1> DEFINE n == NewEntry(now)
<1>1. n.lifetime_shows = 0 /\ n.previous = 0 /\ n.current = 0 /\ n.window_index = WindowOf(now)
  BY DEF NewEntry, NoEntry
<1>2. ~AtCap(n)
  BY <1>1, ConfigAssumption DEF AtCap
<1>3. Advance(n, now) = n
  BY <1>1, WindowType, ConfigAssumption DEF Advance
<1>4. FrequencyLimit > 0 => ~OverLimit(0, 0, now)
  <2> SUFFICES ASSUME FrequencyLimit > 0, FrequencyWindow > 0
               PROVE  ~(0 * (FrequencyWindow - (now % FrequencyWindow))
                          + 0 * FrequencyWindow + FrequencyWindow
                          > FrequencyLimit * FrequencyWindow)
    BY DEF OverLimit
  <2>1. now % FrequencyWindow \in Int
    BY ConfigAssumption
  <2>2. FrequencyLimit * FrequencyWindow >= FrequencyWindow
    BY ConfigAssumption
  <2>3. QED
    BY <2>1, <2>2, ConfigAssumption
<1>5. QED
  BY <1>1, <1>2, <1>3, <1>4

-----------------------------------------------------------------------------
(* The store's own invariant *)

\* What every operation of the class leaves true of its tables: types, exact
\* recency lists, no more entries than slots, blank entries where untracked.
StoreInv ==
    /\ TypeOK
    /\ RecencyMatches
    /\ CapacityRespected
    /\ IsFiniteSet(tracked)
    /\ \A id \in Items \ tracked : entries[id] = NoEntry

\* Making a slot: what evict_one() removes, and the room that it leaves.
LEMMA SlotProperties ==
    ASSUME StoreInv, NEW id \in Items, ~NoRoom(id)
    PROVE  /\ Evicted(id) \subseteq InShard(ShardFor[id]) \ {id}
           /\ id \in tracked => Evicted(id) = {}
           /\ Remaining(id) \in Seq(Items)
           /\ IsInjective(Remaining(id))
           /\ ToSet(Remaining(id)) =
                IF FailOpen THEN InShard(ShardFor[id]) \ Evicted(id) ELSE {}
<1> DEFINE list == recency[ShardFor[id]]
<1>1. ShardFor[id] \in Shards
  BY ConfigAssumption
<1>2. /\ list \in Seq(Items)
      /\ IsInjective(list)
      /\ ToSet(list) = IF FailOpen THEN InShard(ShardFor[id]) ELSE {}
  BY <1>1, Zenon DEF StoreInv, TypeOK, RecencyMatches
<1>3. CASE Evicted(id) = {}
  BY <1>2, <1>3 DEF Remaining
<1>4. CASE Evicted(id) # {}
  <2>1. FailOpen /\ list # <<>> /\ id \notin tracked /\ Evicted(id) = {Last(list)}
    BY <1>4 DEF Evicted
  <2>2. Remaining(id) = Front(list)
    BY <1>4 DEF Remaining
  <2> HIDE DEF list
  <2>3. /\ Last(list) \in ToSet(list)
        /\ Front(list) \in Seq(Items)
        /\ IsInjective(Front(list))
        /\ ToSet(Front(list)) = ToSet(list) \ {Last(list)}
    BY <1>2, <2>1, FrontProperties
  <2>4. QED
    BY <1>2, <2>1, <2>2, <2>3 DEF InShard
<1>5. QED
  BY <1>3, <1>4

\* The constructor's checks give every shard at least one slot.
LEMMA CapacityType == PerShardCapacity \in Nat /\ PerShardCapacity >= 1
BY ConfigAssumption DEF PerShardCapacity

\* Storing an entry, after the eviction it may need, fits the shard and touches
\* no other shard.
LEMMA SaveProperties ==
    ASSUME StoreInv, NEW id \in Items, ~NoRoom(id), NEW e \in Entry, Save(id, e)
    PROVE  /\ tracked' \subseteq Items
           /\ IsFiniteSet(tracked')
           /\ entries' \in [Items -> Entry]
           /\ dropped' \in [Items -> Nat]
           /\ \A x \in Items \ tracked' : entries'[x] = NoEntry
           /\ \A t \in Shards : InShard(t)' = IF t = ShardFor[id]
                                               THEN (InShard(t) \ Evicted(id)) \cup {id}
                                               ELSE InShard(t)
           /\ CapacityRespected'
<1> DEFINE s == ShardFor[id]
           old == InShard(s)
<1>1. /\ tracked \subseteq Items /\ IsFiniteSet(tracked) /\ entries \in [Items -> Entry]
      /\ dropped \in [Items -> Nat] /\ \A x \in Items \ tracked : entries[x] = NoEntry
  BY DEF StoreInv, TypeOK
<1>2. /\ Evicted(id) \subseteq old \ {id}
      /\ id \in tracked => Evicted(id) = {}
  BY SlotProperties
<1>3. tracked' = (tracked \ Evicted(id)) \cup {id}
  BY DEF Save
<1>4. tracked' \subseteq Items
  BY <1>1, <1>3
<1>5. IsFiniteSet(tracked')
  <2>1. IsFiniteSet(tracked \ Evicted(id))
    BY <1>1, FS_Subset
  <2>2. QED
    BY <1>3, <2>1, FS_AddElement
<1>6. entries' \in [Items -> Entry] /\ dropped' \in [Items -> Nat]
  <2>1. NoEntry \in Entry
    BY DEF NoEntry, Entry
  <2> HIDE DEF s, old
  <2>2. QED
    BY <1>1, <2>1 DEF Save
<1>7. \A x \in Items \ tracked' : entries'[x] = NoEntry
  BY <1>1, <1>3 DEF Save
<1>8. \A t \in Shards : InShard(t)' = IF t = s THEN (InShard(t) \ Evicted(id)) \cup {id}
                                               ELSE InShard(t)
  <2>1. \A t : InShard(t)' = {x \in tracked' : ShardFor[x] = t}
    BY DEF InShard
  <2>2. \A t : InShard(t) = {x \in tracked : ShardFor[x] = t}
    BY DEF InShard
  <2> HIDE DEF old
  <2>3. \A x \in Evicted(id) : ShardFor[x] = s
    BY <1>2, <2>2 DEF old
  <2>4. QED
    BY <1>3, <2>1, <2>2, <2>3
<1>9. CapacityRespected'
  <2>1. SUFFICES Cardinality((old \ Evicted(id)) \cup {id}) <= PerShardCapacity
    BY <1>8 DEF CapacityRespected, StoreInv
  <2>2. IsFiniteSet(old) /\ Cardinality(old) \in Nat /\ Cardinality(old) <= PerShardCapacity
    <3>1. old \subseteq tracked /\ s \in Shards
      BY ConfigAssumption DEF InShard
    <3>2. QED
      BY <1>1, <3>1, FS_Subset, FS_CardinalityType DEF StoreInv, CapacityRespected
  <2>3. CASE id \in tracked
    <3>1. (old \ Evicted(id)) \cup {id} = old
      BY <1>2, <2>3 DEF InShard
    <3>2. QED
      BY <2>2, <3>1
  <2>4. CASE id \notin tracked /\ ~Full(s)
    <3>1. Evicted(id) = {} /\ id \notin old
      BY <2>4 DEF Evicted, InShard
    <3>2. Cardinality(old) < PerShardCapacity
      BY <2>2, <2>4, CapacityType DEF Full
    <3> HIDE DEF old
    <3>3. Cardinality(old \cup {id}) = Cardinality(old) + 1
      <4>1. IsFiniteSet(old) /\ id \notin old
        BY <2>2, <3>1
      <4>2. QED
        BY <4>1, FS_AddElement, Zenon
    <3>4. old \ Evicted(id) = old
      BY <3>1
    <3>5. QED
      BY <2>2, <3>2, <3>3, <3>4, CapacityType
  <2>5. CASE id \notin tracked /\ Full(s)
    <3>1. Evicted(id) = {Last(recency[s])}
      BY <2>5 DEF NoRoom, Evicted
    <3>2. PICK v : Evicted(id) = {v} /\ v \in old
      BY <1>2, <3>1
    <3>3. id \notin old
      BY <2>5 DEF InShard
    <3>4. IsFiniteSet(old \ {v}) /\ Cardinality(old \ {v}) = Cardinality(old) - 1
      BY <2>2, <3>2, FS_RemoveElement
    <3>5. Cardinality((old \ {v}) \cup {id}) = Cardinality(old \ {v}) + 1
      BY <3>3, <3>4, FS_AddElement
    <3> HIDE DEF old
    <3>6. QED
      BY <2>2, <3>2, <3>4, <3>5, CapacityType
  <2>6. QED
    BY <2>3, <2>4, <2>5
<1>10. QED
  BY <1>4, <1>5, <1>6, <1>7, <1>8, <1>9

\* Erasing entries leaves the other entries, and every shard, within bounds.
LEMMA EraseProperties ==
    ASSUME StoreInv, NEW gone \in SUBSET tracked, Erase(gone)
    PROVE  /\ tracked' \subseteq Items
           /\ IsFiniteSet(tracked')
           /\ entries' \in [Items -> Entry]
           /\ dropped' \in [Items -> Nat]
           /\ \A x \in Items \ tracked' : entries'[x] = NoEntry
           /\ \A t \in Shards : InShard(t)' = InShard(t) \ gone
           /\ CapacityRespected'
<1>1. /\ tracked \subseteq Items /\ IsFiniteSet(tracked) /\ entries \in [Items -> Entry]
      /\ dropped \in [Items -> Nat] /\ \A x \in Items \ tracked : entries[x] = NoEntry
  BY DEF StoreInv, TypeOK
<1>2. tracked' = tracked \ gone
  BY DEF Erase
<1>3. tracked' \subseteq Items /\ IsFiniteSet(tracked')
  BY <1>1, <1>2, FS_Subset
<1>4. entries' \in [Items -> Entry] /\ dropped' \in [Items -> Nat]
  <2>1. NoEntry \in Entry
    BY DEF NoEntry, Entry
  <2>2. QED
    BY <1>1, <2>1 DEF Erase
<1>5. \A x \in Items \ tracked' : entries'[x] = NoEntry
  BY <1>1, <1>2 DEF Erase
<1>6. \A t \in Shards : InShard(t)' = InShard(t) \ gone
  BY <1>2 DEF InShard
<1>7. CapacityRespected'
  <2> SUFFICES ASSUME NEW t \in Shards
               PROVE  Cardinality(InShard(t)') <= PerShardCapacity
    BY DEF CapacityRespected
  <2>1. InShard(t)' \in SUBSET InShard(t) /\ InShard(t) \in SUBSET tracked
    BY <1>6 DEF InShard
  <2>2. IsFiniteSet(InShard(t)) /\ Cardinality(InShard(t)) <= PerShardCapacity
    BY <1>1, <2>1, FS_Subset DEF StoreInv, CapacityRespected
  <2>3. /\ Cardinality(InShard(t)') <= Cardinality(InShard(t))
        /\ Cardinality(InShard(t)) \in Nat
        /\ Cardinality(InShard(t)') \in Nat
    BY <2>1, <2>2, FS_Subset, FS_CardinalityType
  <2>4. QED
    BY <2>2, <2>3, CapacityType
<1>8. QED
  BY <1>3, <1>4, <1>5, <1>6, <1>7

\* The counters stay numbers whichever decision is counted.
LEMMA CountType ==
    ASSUME metrics \in PolicyMetrics, NEW id
    PROVE  /\ [metrics EXCEPT !.store_full_blocked = @ + 1] \in PolicyMetrics
           /\ [metrics EXCEPT !.exposure_blocked = @ + 1, !.evicted = EvictedCount(id)]
                \in PolicyMetrics
           /\ [metrics EXCEPT !.frequency_blocked = @ + 1, !.evicted = EvictedCount(id)]
                \in PolicyMetrics
           /\ [metrics EXCEPT !.allowed = @ + 1, !.evicted = EvictedCount(id)]
                \in PolicyMetrics
<1>1. EvictedCount(id) \in Nat
  BY DEF EvictedCount, PolicyMetrics
<1>2. /\ metrics.allowed + 1 \in Nat
      /\ metrics.exposure_blocked + 1 \in Nat
      /\ metrics.frequency_blocked + 1 \in Nat
  BY DEF PolicyMetrics
<1>3. ASSUME NEW m \in Nat, NEW n \in Nat
      PROVE  /\ [metrics EXCEPT !.exposure_blocked = m, !.evicted = n] \in PolicyMetrics
             /\ [metrics EXCEPT !.frequency_blocked = m, !.evicted = n] \in PolicyMetrics
             /\ [metrics EXCEPT !.allowed = m, !.evicted = n] \in PolicyMetrics
  BY Zenon DEF PolicyMetrics
<1>4. [metrics EXCEPT !.store_full_blocked = @ + 1] \in PolicyMetrics
  BY DEF PolicyMetrics
<1>5. QED
  BY <1>1, <1>2, <1>3, <1>4, Zenon

\* A refusal other than StoreFull concerns an id that already has an entry, so it
\* evicts nothing and leaves the recency list alone.
LEMMA RefusalProperties ==
    ASSUME StoreInv, NEW id \in Items, NEW now \in Times,
           ExposureCapReached(id, now) \/ FrequencyLimited(id, now)
    PROVE  /\ id \in tracked
           /\ Found(id, now) = entries[id]
           /\ Evicted(id) = {}
           /\ tracked' = tracked
           /\ dropped' = dropped
           /\ recency' = recency
           /\ \E e \in Entry : Save(id, e)
<1>1. ~NoRoom(id)
  BY DEF ExposureCapReached, FrequencyLimited
<1>2. id \in tracked
  BY NewEntryGranted DEF ExposureCapReached, FrequencyLimited, Found
<1>3. Found(id, now) = entries[id] /\ entries[id] \in Entry
  BY <1>2 DEF Found, StoreInv, TypeOK
<1>4. Evicted(id) = {}
  BY <1>1, <1>2, SlotProperties
<1>5. \E e \in Entry : Save(id, e)
  BY <1>3, EntryType DEF ExposureCapReached, FrequencyLimited
<1>6. tracked' = tracked /\ dropped' = dropped
  BY <1>2, <1>4, <1>5 DEF Save, StoreInv, TypeOK
<1>7. recency' = recency
  <2>1. recency' = [recency EXCEPT ![ShardFor[id]] = Remaining(id)]
    BY DEF ExposureCapReached, FrequencyLimited
  <2>2. Remaining(id) = recency[ShardFor[id]]
    BY <1>4 DEF Remaining
  <2>3. recency \in [Shards -> Seq(Items)]
    BY DEF StoreInv, TypeOK
  <2>4. QED
    BY <2>1, <2>2, <2>3
<1>8. QED
  BY <1>2, <1>3, <1>4, <1>5, <1>6, <1>7

\* The recency list after a grant, and the shard it belongs to.
LEMMA TouchProperties ==
    ASSUME StoreInv, NEW id \in Items, ~NoRoom(id)
    PROVE  /\ Touch(Remaining(id), id) \in Seq(Items)
           /\ IsInjective(Touch(Remaining(id), id))
           /\ ToSet(Touch(Remaining(id), id)) =
                IF FailOpen THEN (InShard(ShardFor[id]) \ Evicted(id)) \cup {id} ELSE {}
<1> DEFINE list == Remaining(id)
<1>1. /\ list \in Seq(Items) /\ IsInjective(list)
      /\ ToSet(list) = IF FailOpen THEN InShard(ShardFor[id]) \ Evicted(id) ELSE {}
  BY SlotProperties
<1> HIDE DEF list
<1>2. CASE ~FailOpen
  BY <1>1, <1>2 DEF Touch, list
<1>3. CASE FailOpen
  <2> DEFINE rest == RemoveFirst(list, id)
  <2>1. /\ rest \in Seq(Items) /\ IsInjective(rest)
        /\ ToSet(rest) = ToSet(list) \ {id}
    BY <1>1, RemoveFirstProperties
  <2>2. Touch(list, id) = Cons(id, rest)
    BY <1>3 DEF Touch
  <2> HIDE DEF rest
  <2>3. id \notin ToSet(rest)
    BY <2>1
  <2>4. /\ Cons(id, rest) \in Seq(Items)
        /\ IsInjective(Cons(id, rest))
        /\ ToSet(Cons(id, rest)) = ToSet(rest) \cup {id}
    BY <2>1, <2>3, ConsProperties
  <2>5. QED
    BY <1>1, <1>3, <2>1, <2>2, <2>4 DEF list
<1>4. QED
  BY <1>2, <1>3

\* The constructor's state satisfies the invariant.
LEMMA StoreInvInit == Init => StoreInv
<1> SUFFICES ASSUME Init PROVE StoreInv
  OBVIOUS
<1>1. NoEntry \in Entry
  BY DEF NoEntry, Entry
<1>2. TypeOK
  BY <1>1, ConfigAssumption DEF Init, TypeOK, PolicyMetrics, Shards
<1>3. \A s \in Shards : InShard(s) = {}
  BY DEF Init, InShard
<1>4. RecencyMatches
  BY <1>3 DEF Init, RecencyMatches, IsInjective, ToSet
<1>5. CapacityRespected
  BY <1>3, FS_EmptySet, CapacityType DEF CapacityRespected
<1>6. IsFiniteSet(tracked) /\ \A id \in Items \ tracked : entries[id] = NoEntry
  BY FS_EmptySet DEF Init
<1>7. QED
  BY <1>2, <1>4, <1>5, <1>6 DEF StoreInv

\* reserve(), forget() and each step of clear() keep the invariant.
LEMMA StoreInvStep == StoreInv /\ [Next]_vars => StoreInv'
<1> SUFFICES ASSUME StoreInv, [Next]_vars PROVE StoreInv'
  OBVIOUS
<1>0. /\ tracked \subseteq Items /\ entries \in [Items -> Entry]
      /\ recency \in [Shards -> Seq(Items)] /\ clear_at \in Shards
      /\ metrics \in PolicyMetrics /\ shown \in [Items -> Nat]
      /\ shownIn \in [Items -> [Windows -> Nat]] /\ dropped \in [Items -> Nat]
      /\ late \in [Items -> Nat] /\ grantedAt \in [Items -> Nat]
  BY DEF StoreInv, TypeOK
<1>1. ASSUME NEW id \in Items, StoreFull(id) PROVE StoreInv'
  <2>1. metrics' \in PolicyMetrics
    BY <1>0, <1>1, CountType, Zenon DEF StoreFull
  <2>2. UNCHANGED <<tracked, entries, recency, clear_at, shown, shownIn, dropped, late, grantedAt>>
    BY <1>1 DEF StoreFull, history
  <2>3. QED
    BY <2>1, <2>2 DEF StoreInv, TypeOK, RecencyMatches, CapacityRespected, InShard
<1>2. ASSUME NEW id \in Items, NEW now \in Times,
             ExposureCapReached(id, now) \/ FrequencyLimited(id, now)
      PROVE  StoreInv'
  <2>1. /\ tracked' = tracked /\ dropped' = dropped /\ recency' = recency
        /\ \E e \in Entry : Save(id, e)
    BY <1>2, RefusalProperties
  <2>2. entries' \in [Items -> Entry] /\ \A x \in Items \ tracked' : entries'[x] = NoEntry
    <3>1. ~NoRoom(id)
      BY <1>2 DEF ExposureCapReached, FrequencyLimited
    <3>2. QED
      BY <2>1, <3>1, SaveProperties
  <2>3. metrics' \in PolicyMetrics
    BY <1>0, <1>2, CountType, Zenon DEF ExposureCapReached, FrequencyLimited
  <2>4. late' \in [Items -> Nat]
    <3>1. late' = late \/ Rolls(id, now)
      BY <1>2, Zenon DEF ExposureCapReached, FrequencyLimited
    <3>2. ASSUME Rolls(id, now) PROVE late' \in [Items -> Nat]
      BY <1>0, <3>2 DEF Rolls
    <3>3. QED
      BY <1>0, <3>1, <3>2, Zenon
  <2>5. UNCHANGED <<clear_at, shown, shownIn, grantedAt>>
    BY <1>2 DEF ExposureCapReached, FrequencyLimited
  <2>6. QED
    BY <2>1, <2>2, <2>3, <2>4, <2>5
    DEF StoreInv, TypeOK, RecencyMatches, CapacityRespected, InShard
<1>3. ASSUME NEW id \in Items, NEW now \in Times, Allowed(id, now) PROVE StoreInv'
  <2> DEFINE e == Charged(Found(id, now), now)
             s == ShardFor[id]
  <2>1. ~NoRoom(id) /\ Save(id, e)
    BY <1>3 DEF Allowed
  <2>2. e \in Entry
    <3>1. NewEntry(now) \in Entry
      BY WindowType DEF NewEntry, NoEntry, Entry
    <3>2. Found(id, now) \in Entry
      BY <1>0, <3>1 DEF Found
    <3>3. QED
      BY <3>2, EntryType
  <2>3. /\ tracked' \subseteq Items /\ IsFiniteSet(tracked')
        /\ entries' \in [Items -> Entry] /\ dropped' \in [Items -> Nat]
        /\ \A x \in Items \ tracked' : entries'[x] = NoEntry
        /\ \A t \in Shards : InShard(t)' = IF t = s THEN (InShard(t) \ Evicted(id)) \cup {id}
                                                    ELSE InShard(t)
        /\ CapacityRespected'
    BY <2>1, <2>2, SaveProperties
  <2>4. recency' = [recency EXCEPT ![s] = Touch(Remaining(id), id)] /\ s \in Shards
    BY <1>3, ConfigAssumption DEF Allowed
  <2>5. recency' \in [Shards -> Seq(Items)] /\ RecencyMatches'
    <3>1. /\ Touch(Remaining(id), id) \in Seq(Items)
          /\ IsInjective(Touch(Remaining(id), id))
          /\ ToSet(Touch(Remaining(id), id)) =
               IF FailOpen THEN (InShard(s) \ Evicted(id)) \cup {id} ELSE {}
      BY <2>1, TouchProperties
    <3> HIDE DEF s
    <3>2. recency' \in [Shards -> Seq(Items)]
      BY <1>0, <2>4, <3>1
    <3>3. ASSUME NEW t \in Shards
          PROVE  /\ IsInjective(recency'[t])
                 /\ ToSet(recency'[t]) = IF FailOpen THEN InShard(t)' ELSE {}
      <4>1. CASE t = s
        <5>1. recency'[t] = Touch(Remaining(id), id)
          BY <1>0, <2>4, <4>1
        <5>2. InShard(t)' = (InShard(s) \ Evicted(id)) \cup {id}
          BY <2>3, <4>1
        <5>3. QED
          BY <3>1, <5>1, <5>2, Zenon
      <4>2. CASE t # s
        BY <1>0, <2>3, <2>4, <4>2 DEF StoreInv, RecencyMatches
      <4>3. QED
        BY <4>1, <4>2
    <3>4. QED
      BY <3>2, <3>3 DEF RecencyMatches
  <2>6. metrics' \in PolicyMetrics
    BY <1>0, <1>3, CountType, Zenon DEF Allowed
  <2>7. /\ shown' \in [Items -> Nat] /\ late' \in [Items -> Nat]
        /\ grantedAt' \in [Items -> Nat] /\ clear_at' \in Shards
    <3>1. /\ shown' = [shown EXCEPT ![id] = @ + 1] /\ Rolls(id, now)
          /\ grantedAt' = [grantedAt EXCEPT ![id] = metrics.allowed + 1]
          /\ clear_at' = clear_at
      BY <1>3 DEF Allowed
    <3>2. shown' \in [Items -> Nat] /\ clear_at' \in Shards
      BY <1>0, <3>1
    <3>3. late' \in [Items -> Nat]
      BY <1>0, <3>1 DEF Rolls
    <3>4. metrics.allowed + 1 \in Nat
      BY <1>0 DEF PolicyMetrics
    <3>5. grantedAt' \in [Items -> Nat]
      BY <1>0, <3>1, <3>4
    <3>6. QED
      BY <3>2, <3>3, <3>5
  <2>8. shownIn' \in [Items -> [Windows -> Nat]]
    BY <1>0, <1>3, WindowType DEF Allowed
  <2>9. QED
    BY <2>3, <2>5, <2>6, <2>7, <2>8 DEF StoreInv, TypeOK
<1>4. ASSUME NEW id \in Items, Forget(id) PROVE StoreInv'
  <2> DEFINE s == ShardFor[id]
             gone == {id} \cap tracked
  <2>1. Erase(gone) /\ gone \in SUBSET tracked
    BY <1>4 DEF Forget
  <2>2. /\ tracked' \subseteq Items /\ IsFiniteSet(tracked')
        /\ entries' \in [Items -> Entry] /\ dropped' \in [Items -> Nat]
        /\ \A x \in Items \ tracked' : entries'[x] = NoEntry
        /\ \A t \in Shards : InShard(t)' = InShard(t) \ gone
        /\ CapacityRespected'
    BY <2>1, EraseProperties
  <2>3. recency' = [recency EXCEPT ![s] = RemoveFirst(recency[s], id)] /\ s \in Shards
    BY <1>4, ConfigAssumption DEF Forget
  <2>4. recency' \in [Shards -> Seq(Items)] /\ RecencyMatches'
    <3>1. recency[s] \in Seq(Items) /\ IsInjective(recency[s])
      BY <1>0, <2>3 DEF StoreInv, RecencyMatches
    <3>2. /\ RemoveFirst(recency[s], id) \in Seq(Items)
          /\ IsInjective(RemoveFirst(recency[s], id))
          /\ ToSet(RemoveFirst(recency[s], id)) = ToSet(recency[s]) \ {id}
      BY <3>1, RemoveFirstProperties
    <3>3. recency' \in [Shards -> Seq(Items)]
      BY <1>0, <2>3, <3>2
    <3>4. ASSUME NEW t \in Shards
          PROVE  /\ IsInjective(recency'[t])
                 /\ ToSet(recency'[t]) = IF FailOpen THEN InShard(t)' ELSE {}
      <4>1. CASE t = s
        <5>1. recency'[t] = RemoveFirst(recency[s], id)
          BY <1>0, <2>3, <4>1
        <5>2. InShard(t)' = InShard(t) \ {id}
          BY <2>2 DEF InShard
        <5>3. ToSet(recency[s]) = IF FailOpen THEN InShard(s) ELSE {}
          BY <2>3 DEF StoreInv, RecencyMatches
        <5>4. CASE FailOpen
          BY <3>2, <4>1, <5>1, <5>2, <5>3, <5>4
        <5>5. CASE ~FailOpen
          BY <3>2, <4>1, <5>1, <5>3, <5>5
        <5>6. QED
          BY <5>4, <5>5
      <4>2. CASE t # s
        <5>1. recency'[t] = recency[t]
          BY <1>0, <2>3, <4>2
        <5>2. InShard(t)' = InShard(t)
          BY <2>2, <4>2 DEF InShard
        <5>3. QED
          BY <5>1, <5>2 DEF StoreInv, RecencyMatches
      <4>3. QED
        BY <4>1, <4>2
    <3>5. QED
      BY <3>3, <3>4 DEF RecencyMatches
  <2>5. UNCHANGED <<clear_at, metrics, shown, shownIn, late, grantedAt>>
    BY <1>4 DEF Forget, Erase
  <2>6. QED
    BY <2>2, <2>4, <2>5 DEF StoreInv, TypeOK
<1>5. ASSUME ClearShard PROVE StoreInv'
  <2> DEFINE gone == InShard(clear_at)
  <2>1. Erase(gone) /\ gone \in SUBSET tracked
    BY <1>5 DEF ClearShard, InShard
  <2>2. /\ tracked' \subseteq Items /\ IsFiniteSet(tracked')
        /\ entries' \in [Items -> Entry] /\ dropped' \in [Items -> Nat]
        /\ \A x \in Items \ tracked' : entries'[x] = NoEntry
        /\ \A t \in Shards : InShard(t)' = InShard(t) \ gone
        /\ CapacityRespected'
    BY <2>1, EraseProperties
  <2>3. recency' = [recency EXCEPT ![clear_at] = <<>>]
    BY <1>5 DEF ClearShard
  <2>4. recency' \in [Shards -> Seq(Items)]
    BY <1>0, <2>3
  <2>5. ASSUME NEW t \in Shards
        PROVE  /\ IsInjective(recency'[t])
               /\ ToSet(recency'[t]) = IF FailOpen THEN InShard(t)' ELSE {}
    <3>1. CASE t = clear_at
      <4>1. recency'[t] = <<>> /\ InShard(t)' = {}
        BY <1>0, <2>2, <2>3, <3>1
      <4>2. QED
        BY <4>1 DEF IsInjective, ToSet
    <3>2. CASE t # clear_at
      <4>1. recency'[t] = recency[t]
        BY <1>0, <2>3, <3>2
      <4>2. InShard(t)' = InShard(t)
        BY <2>2, <3>2 DEF InShard
      <4>3. QED
        BY <4>1, <4>2 DEF StoreInv, RecencyMatches
    <3>3. QED
      BY <3>1, <3>2
  <2>6. clear_at' \in Shards
    <3>1. clear_at' = (clear_at + 1) % NumShards
      BY <1>5 DEF ClearShard
    <3>2. QED
      BY <1>0, <3>1, ConfigAssumption DEF Shards
  <2>7. UNCHANGED <<metrics, shown, shownIn, late, grantedAt>>
    BY <1>5 DEF ClearShard, Erase
  <2>8. QED
    BY <2>2, <2>4, <2>5, <2>6, <2>7 DEF StoreInv, TypeOK, RecencyMatches
<1>6. CASE UNCHANGED vars
  BY <1>6 DEF vars, store, history, StoreInv, TypeOK, RecencyMatches, CapacityRespected, InShard
<1>7. QED
  BY <1>1, <1>2, <1>3, <1>4, <1>5, <1>6 DEF Next, Reserve

\* Type correctness: every operation of the store keeps its members well typed.
THEOREM TypeCorrect == Spec => []TypeOK
<1>1. StoreInv => TypeOK
  BY DEF StoreInv
<1>2. QED
  BY StoreInvInit, StoreInvStep, <1>1, PTL DEF Spec

\* The memory bound: for every shard count, capacity and sequence of calls no
\* shard holds more entries than per_shard_capacity_.
THEOREM CapacityAlwaysRespected == Spec => []CapacityRespected
<1>1. StoreInv => CapacityRespected
  BY DEF StoreInv
<1>2. QED
  BY StoreInvInit, StoreInvStep, <1>1, PTL DEF Spec

\* The recency lists of touch_recency(), evict_one(), forget() and clear() list
\* exactly the tracked ids of their shard under fail-open, and nothing otherwise.
THEOREM RecencyAlwaysMatches == Spec => []RecencyMatches
<1>1. StoreInv => RecencyMatches
  BY DEF StoreInv
<1>2. QED
  BY StoreInvInit, StoreInvStep, <1>1, PTL DEF Spec

-----------------------------------------------------------------------------
(* What a step can do to one item: the four cases of every later proof *)

HistoryKept(x) == shown'[x] = shown[x] /\ shownIn'[x] = shownIn[x]

Kept(x) ==
    /\ x \in tracked' <=> x \in tracked
    /\ entries'[x] = entries[x]
    /\ HistoryKept(x)
    /\ dropped'[x] = dropped[x]
    /\ late'[x] = late[x]

Dropped(x) ==
    /\ x \notin tracked'
    /\ entries'[x] = NoEntry
    /\ HistoryKept(x)
    /\ dropped'[x] = dropped[x] + 1
    /\ late'[x] = late[x]

LateBy(x, now) ==
    late'[x] = IF FrequencyLimit > 0 /\ WindowOf(now) < Found(x, now).window_index
               THEN late[x] + 1 ELSE late[x]

Limited(x, now) ==
    /\ FrequencyLimit > 0
    /\ x \in tracked /\ x \in tracked'
    /\ entries'[x] = Advance(entries[x], now)
    /\ HistoryKept(x)
    /\ dropped'[x] = dropped[x]
    /\ LateBy(x, now)

Granted(x, now) ==
    LET e == Advance(Found(x, now), now)
    IN  /\ ~AtCap(Found(x, now))
        /\ FrequencyLimit > 0 => ~OverLimit(e.previous, e.current, now)
        /\ x \in tracked'
        /\ entries'[x] = Charged(Found(x, now), now)
        /\ shown'[x] = shown[x] + 1
        /\ shownIn'[x] = [shownIn[x] EXCEPT ![WindowOf(now)] = @ + 1]
        /\ dropped'[x] = dropped[x]
        /\ LateBy(x, now)

\* A step keeps an item's counters, drops them, rolls them forward on a refusal,
\* or charges them for a show; an eviction for one item drops another's.
LEMMA StepOnItem ==
    ASSUME StoreInv, [Next]_vars, NEW x \in Items
    PROVE  \/ Kept(x)
           \/ Dropped(x)
           \/ \E now \in Times : Limited(x, now)
           \/ \E now \in Times : Granted(x, now)
<1>0. /\ tracked \subseteq Items /\ entries \in [Items -> Entry]
      /\ shown \in [Items -> Nat]
      /\ shownIn \in [Items -> [Windows -> Nat]] /\ dropped \in [Items -> Nat]
      /\ late \in [Items -> Nat]
  BY DEF StoreInv, TypeOK
<1>1. ASSUME NEW id \in Items, StoreFull(id) PROVE Kept(x)
  BY <1>1 DEF StoreFull, history, Kept, HistoryKept
<1>2. ASSUME NEW id \in Items, NEW now \in Times, ExposureCapReached(id, now) PROVE Kept(x)
  <2>1. /\ tracked' = tracked /\ dropped' = dropped /\ Evicted(id) = {}
        /\ Found(id, now) = entries[id]
    BY <1>2, RefusalProperties
  <2>2. entries'[x] = entries[x]
    BY <1>2, <2>1 DEF ExposureCapReached, Save
  <2>3. UNCHANGED <<shown, shownIn, late>>
    BY <1>2 DEF ExposureCapReached
  <2>4. QED
    BY <2>1, <2>2, <2>3 DEF Kept, HistoryKept
<1>3. ASSUME NEW id \in Items, NEW now \in Times, FrequencyLimited(id, now)
      PROVE  Kept(x) \/ Limited(x, now)
  <2>1. /\ tracked' = tracked /\ dropped' = dropped /\ Evicted(id) = {}
        /\ Found(id, now) = entries[id] /\ id \in tracked
    BY <1>3, RefusalProperties
  <2>2. entries'[x] = IF x = id THEN Advance(entries[id], now) ELSE entries[x]
    BY <1>3, <2>1 DEF FrequencyLimited, Save
  <2>3. UNCHANGED <<shown, shownIn>> /\ Rolls(id, now) /\ FrequencyLimit > 0
    BY <1>3 DEF FrequencyLimited
  <2>4. CASE x = id
    BY <1>0, <2>1, <2>2, <2>3, <2>4 DEF Limited, HistoryKept, LateBy, Rolls
  <2>5. CASE x # id
    BY <1>0, <2>1, <2>2, <2>3, <2>5 DEF Kept, HistoryKept, Rolls
  <2>6. QED
    BY <2>4, <2>5
<1>4. ASSUME NEW id \in Items, NEW now \in Times, Allowed(id, now)
      PROVE  Kept(x) \/ Dropped(x) \/ Granted(x, now)
  <2>1. /\ ~NoRoom(id) /\ Save(id, Charged(Found(id, now), now)) /\ Rolls(id, now)
        /\ shown' = [shown EXCEPT ![id] = @ + 1]
        /\ shownIn' = [shownIn EXCEPT ![id][WindowOf(now)] = @ + 1]
    BY <1>4 DEF Allowed
  <2>2. id \notin Evicted(id)
    BY <2>1, SlotProperties
  <2>3. CASE x = id
    <3>1. dropped'[x] = dropped[x] /\ x \in tracked'
      BY <1>0, <2>1, <2>2, <2>3 DEF Save
    <3>2. shown'[x] = shown[x] + 1 /\ LateBy(x, now)
      BY <1>0, <2>1, <2>3 DEF Rolls, LateBy
    <3>3. shownIn'[x] = [shownIn[x] EXCEPT ![WindowOf(now)] = @ + 1]
      BY <1>0, <2>1, <2>3
    <3>4. entries'[x] = Charged(Found(x, now), now)
      BY <2>1, <2>3 DEF Save
    <3>5. QED
      BY <1>4, <2>3, <3>1, <3>2, <3>3, <3>4 DEF Allowed, Granted
  <2>4. CASE x # id
    <3>1. HistoryKept(x) /\ late'[x] = late[x]
      BY <1>0, <2>1, <2>4 DEF HistoryKept, Rolls
    <3>2. CASE x \in Evicted(id)
      BY <1>0, <2>1, <2>4, <3>1, <3>2 DEF Dropped, Save
    <3>3. CASE x \notin Evicted(id)
      BY <1>0, <2>1, <2>4, <3>1, <3>3 DEF Kept, Save
    <3>4. QED
      BY <3>2, <3>3
  <2>5. QED
    BY <2>3, <2>4
<1>5. ASSUME NEW gone \in SUBSET tracked, Erase(gone) PROVE Kept(x) \/ Dropped(x)
  BY <1>0, <1>5 DEF Erase, Kept, Dropped, HistoryKept
<1>6. CASE UNCHANGED vars
  BY <1>6 DEF vars, store, history, Kept, HistoryKept
<1>7. ASSUME NEW id \in Items, Forget(id) PROVE Kept(x) \/ Dropped(x)
  BY <1>5, <1>7 DEF Forget
<1>8. ASSUME ClearShard PROVE Kept(x) \/ Dropped(x)
  BY <1>5, <1>8 DEF ClearShard, InShard
<1>9. QED
  BY <1>1, <1>2, <1>3, <1>4, <1>6, <1>7, <1>8 DEF Next, Reserve

-----------------------------------------------------------------------------
(* The lifetime cap *)

\* CapRespected is not inductive: it says nothing of the counter that reserve()
\* tests.  The shows of an item are those its live entry counts, plus at most a
\* full cap for every entry it has lost.
CapInv ==
    ExposureCap > 0 =>
        \A id \in Items :
            /\ entries[id].lifetime_shows <= ExposureCap
            /\ shown[id] <= ExposureCap * dropped[id] + entries[id].lifetime_shows

\* A charge adds one to lifetime_shows, whatever window the entry is in.
LEMMA ChargedShows ==
    ASSUME NEW e \in Entry, NEW now \in Times
    PROVE  /\ Advance(e, now).lifetime_shows = e.lifetime_shows
           /\ Charged(e, now).lifetime_shows = e.lifetime_shows + 1
<1>1. Advance(e, now).lifetime_shows = e.lifetime_shows
  BY ConfigAssumption DEF Advance, Entry
<1>2. Advance(e, now) \in Entry
  BY EntryType
<1>3. Charged(e, now).lifetime_shows = e.lifetime_shows + 1
  BY <1>1, <1>2 DEF Charged, Entry
<1>4. QED
  BY <1>1, <1>3

\* The entry reserve() works on is well typed and counts the item's shows.
LEMMA FoundProperties ==
    ASSUME StoreInv, NEW x \in Items, NEW now \in Times
    PROVE  /\ Found(x, now) \in Entry
           /\ Found(x, now).lifetime_shows = entries[x].lifetime_shows
<1>1. CASE x \in tracked
  BY <1>1 DEF Found, StoreInv, TypeOK
<1>2. CASE x \notin tracked
  <2>1. Found(x, now) = NewEntry(now) /\ entries[x] = NoEntry
    BY <1>2 DEF Found, StoreInv
  <2>2. NewEntry(now) \in Entry /\ NewEntry(now).lifetime_shows = 0
    BY WindowType DEF NewEntry, NoEntry, Entry
  <2>3. QED
    BY <2>1, <2>2 DEF NoEntry
<1>3. QED
  BY <1>1, <1>2

\* Each of the four things a step can do to an item keeps the cap's invariant.
LEMMA CapInvStep == StoreInv /\ CapInv /\ [Next]_vars => CapInv'
<1> SUFFICES ASSUME StoreInv, CapInv, [Next]_vars, ExposureCap > 0, NEW x \in Items
             PROVE  /\ entries'[x].lifetime_shows <= ExposureCap
                    /\ shown'[x] <= ExposureCap * dropped'[x] + entries'[x].lifetime_shows
  BY DEF CapInv
<1>1. /\ entries[x] \in Entry /\ entries[x].lifetime_shows \in Nat
      /\ shown[x] \in Nat /\ dropped[x] \in Nat
      /\ ExposureCap \in Nat /\ ExposureCap * dropped[x] \in Nat
      /\ ExposureCap * (dropped[x] + 1) = ExposureCap * dropped[x] + ExposureCap
  BY ConfigAssumption DEF StoreInv, TypeOK, Entry
<1>2. /\ entries[x].lifetime_shows <= ExposureCap
      /\ shown[x] <= ExposureCap * dropped[x] + entries[x].lifetime_shows
  BY DEF CapInv
<1>3. CASE Kept(x)
  BY <1>2, <1>3 DEF Kept, HistoryKept
<1>4. CASE Dropped(x)
  BY <1>1, <1>2, <1>4 DEF Dropped, HistoryKept, NoEntry
<1>5. ASSUME NEW now \in Times, Limited(x, now)
      PROVE  /\ entries'[x].lifetime_shows <= ExposureCap
             /\ shown'[x] <= ExposureCap * dropped'[x] + entries'[x].lifetime_shows
  <2>1. entries'[x].lifetime_shows = entries[x].lifetime_shows
    BY <1>1, <1>5, ChargedShows, Zenon DEF Limited
  <2>2. QED
    BY <1>2, <1>5, <2>1 DEF Limited, HistoryKept
<1>6. ASSUME NEW now \in Times, Granted(x, now)
      PROVE  /\ entries'[x].lifetime_shows <= ExposureCap
             /\ shown'[x] <= ExposureCap * dropped'[x] + entries'[x].lifetime_shows
  <2>1. /\ Found(x, now) \in Entry
        /\ Found(x, now).lifetime_shows = entries[x].lifetime_shows
    BY FoundProperties
  <2>2. entries'[x].lifetime_shows = entries[x].lifetime_shows + 1
    BY <1>6, <2>1, ChargedShows, Zenon DEF Granted
  <2>3. ~(entries[x].lifetime_shows >= ExposureCap)
    BY <1>6, <2>1 DEF Granted, AtCap
  <2>4. shown'[x] = shown[x] + 1 /\ dropped'[x] = dropped[x]
    BY <1>6 DEF Granted
  <2>5. entries'[x].lifetime_shows <= ExposureCap
    BY <1>1, <2>2, <2>3
  <2>6. ExposureCap * dropped'[x] = ExposureCap * dropped[x]
    BY <2>4, Zenon
  <2>7. shown'[x] <= ExposureCap * dropped'[x] + entries'[x].lifetime_shows
    <3> DEFINE p == ExposureCap * dropped[x]
               m == entries[x].lifetime_shows
    <3>1. p \in Nat /\ m \in Nat /\ shown[x] \in Nat /\ shown[x] <= p + m
      BY <1>1, <1>2
    <3>2. ExposureCap * dropped'[x] = p /\ entries'[x].lifetime_shows = m + 1
      BY <2>2, <2>6, Zenon
    <3> HIDE DEF p, m
    <3>3. QED
      BY <3>1, <3>2, <2>4
  <2>8. QED
    BY <2>5, <2>7, Zenon
<1>7. QED
  BY <1>3, <1>4, <1>5, <1>6, StepOnItem

\* The cap: reserve()'s check and increment under one lock keep every item within
\* ExposureCap shows per life of its entry, for every cap, every number of shards
\* and every order of concurrent calls, whatever the clock does.
THEOREM CapAlwaysRespected == Spec => []CapRespected
<1>1. Init => CapInv
  BY ConfigAssumption DEF Init, CapInv, NoEntry
<1>2. StoreInv /\ CapInv => CapRespected
  <2> SUFFICES ASSUME StoreInv, CapInv, ExposureCap > 0, NEW id \in Items
               PROVE  shown[id] <= ExposureCap * (1 + dropped[id])
    BY DEF CapRespected
  <2>1. /\ entries[id].lifetime_shows \in Nat /\ shown[id] \in Nat /\ dropped[id] \in Nat
        /\ ExposureCap \in Nat /\ ExposureCap * dropped[id] \in Nat
        /\ ExposureCap * (1 + dropped[id]) = ExposureCap * dropped[id] + ExposureCap
    BY ConfigAssumption DEF StoreInv, TypeOK, Entry
  <2>2. QED
    BY <2>1 DEF CapInv
<1>3. QED
  BY StoreInvInit, StoreInvStep, CapInvStep, <1>1, <1>2, PTL DEF Spec
=============================================================================
