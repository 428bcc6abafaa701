------------------------ MODULE ExposureWindowProofs ------------------------
(* The frequency limits and the dry run of ExposureStore, for every value of its *)
(* constants.                                                                   *)
EXTENDS ExposureStoreProofs

-----------------------------------------------------------------------------
(* The frequency limit *)

\* Multiplication by a natural number is monotone; the provers need to be told.
LEMMA TimesMonotone ==
    ASSUME NEW a \in Nat, NEW b \in Nat, NEW c \in Nat, a <= b
    PROVE  a * c <= b * c
<1>1. PICK d \in Nat : b = a + d
  <2>1. b - a \in Nat /\ b = a + (b - a)
    OBVIOUS
  <2>2. QED
    BY <2>1
<1>2. b * c = a * c + d * c /\ d * c >= 0
  BY <1>1
<1>3. QED
  BY <1>2

\* What passing the test `estimate + 1 > limit` says of the two counters: the
\* current window has room for this show, and one fewer if the previous window
\* still weighs in.
LEMMA RoomLeft ==
    ASSUME FrequencyLimit > 0, FrequencyWindow > 0, NEW now \in Times,
           NEW p \in Nat, NEW c \in Nat, ~OverLimit(p, c, now)
    PROVE  /\ c + 1 <= FrequencyLimit
           /\ p > 0 => c + 1 < FrequencyLimit
<1> DEFINE W == FrequencyWindow
           L == FrequencyLimit
           rest == W - (now % W)
<1>1. W \in Nat /\ L \in Nat /\ W > 0 /\ rest \in Nat /\ rest >= 1
  BY ConfigAssumption
<1>2. p * rest + c * W + W <= L * W
  BY <1>1 DEF OverLimit
<1> HIDE DEF W, L, rest
<1>3. p * rest >= p /\ p * rest \in Nat
  BY <1>1
<1>4. (c + 1) * W = c * W + W /\ c * W \in Nat /\ L * W \in Nat
  BY <1>1
<1>5. c + 1 <= L
  <2> SUFFICES ASSUME L + 1 <= c + 1 PROVE FALSE
    BY <1>1
  <2>1. (L + 1) * W <= (c + 1) * W
    BY <1>1, TimesMonotone
  <2>2. (L + 1) * W = L * W + W
    BY <1>1
  <2>3. QED
    BY <1>1, <1>2, <1>3, <1>4, <2>1, <2>2
<1>6. p > 0 => c + 1 < L
  <2> SUFFICES ASSUME p > 0, L <= c + 1 PROVE FALSE
    BY <1>1
  <2>1. L * W <= (c + 1) * W
    BY <1>1, TimesMonotone
  <2>2. QED
    BY <1>1, <1>2, <1>3, <1>4, <2>1
<1>7. QED
  BY <1>5, <1>6 DEF L

\* f counts the shows of an item per window and r its resets.  A window the entry
\* has left is within r + 1 allowances, the one it is in within r of them and what
\* `current` says, and one it has not reached within r.
Within(e, r, f) ==
    /\ e.current <= FrequencyLimit
    /\ \A w \in Windows :
          /\ w < e.window_index => f[w] <= FrequencyLimit * (r + 1)
          /\ w = e.window_index => f[w] <= FrequencyLimit * r + e.current
          /\ w > e.window_index => f[w] <= FrequencyLimit * r

\* The windows before the entry's own are in no counter, so WindowRespected is not
\* inductive without Within.
WindowInv ==
    FrequencyLimit > 0 /\ FrequencyWindow > 0 =>
        \A id \in Items :
            /\ id \in tracked => Within(entries[id], dropped[id] + late[id], shownIn[id])
            /\ id \notin tracked => \A w \in Windows :
                  shownIn[id][w] <= FrequencyLimit * (dropped[id] + late[id])

\* The fields after the roll-forward, by where `now` falls.
LEMMA AdvanceFields ==
    ASSUME FrequencyWindow > 0, NEW now \in Times, NEW e \in Entry
    PROVE  LET a == Advance(e, now)
               i == WindowOf(now)
           IN  /\ a.window_index = i
               /\ i = e.window_index => a.current = e.current /\ a.previous = e.previous
               /\ i = e.window_index + 1 => a.current = 0 /\ a.previous = e.current
               /\ i # e.window_index /\ i # e.window_index + 1 => a.current = 0 /\ a.previous = 0
<1>1. e.window_index \in Nat /\ WindowOf(now) \in Nat
  BY WindowType DEF Entry
<1>2. CASE WindowOf(now) = e.window_index
  BY <1>1, <1>2, ConfigAssumption DEF Advance
<1>3. CASE WindowOf(now) = e.window_index + 1
  BY <1>1, <1>3, ConfigAssumption DEF Advance, Entry
<1>4. CASE WindowOf(now) # e.window_index /\ WindowOf(now) # e.window_index + 1
  BY <1>1, <1>4, ConfigAssumption DEF Advance, Entry
<1>5. QED
  BY <1>2, <1>3, <1>4

\* Rolling forward keeps Within; rolling backwards costs one more allowance.
LEMMA AdvanceWithin ==
    ASSUME FrequencyLimit > 0, FrequencyWindow > 0, NEW now \in Times, NEW e \in Entry,
           NEW r \in Nat, NEW f \in [Windows -> Nat], Within(e, r, f)
    PROVE  Within(Advance(e, now), IF WindowOf(now) < e.window_index THEN r + 1 ELSE r, f)
<1> DEFINE a == Advance(e, now)
           i == WindowOf(now)
           L == FrequencyLimit
           q == IF i < e.window_index THEN r + 1 ELSE r
<1>1. /\ i \in Nat /\ e.window_index \in Nat /\ e.current \in Nat /\ L \in Nat
      /\ \A w \in Windows : w \in Nat /\ f[w] \in Nat
  BY WindowType, ConfigAssumption DEF Entry, Windows
<1>2. /\ a.window_index = i
      /\ i = e.window_index => a.current = e.current
      /\ i # e.window_index => a.current = 0
  BY <1>1, AdvanceFields
<1>3. /\ L * r \in Nat
      /\ L * (r + 1) = L * r + L
      /\ L * ((r + 1) + 1) = L * r + L + L
  BY <1>1
<1>4. /\ e.current <= L
      /\ \A w \in Windows : /\ w < e.window_index => f[w] <= L * (r + 1)
                            /\ w = e.window_index => f[w] <= L * r + e.current
                            /\ w > e.window_index => f[w] <= L * r
  BY DEF Within
<1> HIDE DEF a, i, L
<1>5. CASE i = e.window_index
  BY <1>1, <1>2, <1>4, <1>5 DEF Within, a, i, L
<1>6. CASE i > e.window_index
  <2>1. \A w \in Windows : /\ w < i => f[w] <= L * (r + 1)
                           /\ w = i => f[w] <= L * r + 0
                           /\ w > i => f[w] <= L * r
    BY <1>1, <1>3, <1>4, <1>6
  <2>2. q = r /\ a.current = 0
    BY <1>1, <1>2, <1>6
  <2>3. QED
    BY <1>1, <1>2, <2>1, <2>2 DEF Within, a, i, L
<1>7. CASE i < e.window_index
  <2>1. \A w \in Windows : /\ w < i => f[w] <= L * ((r + 1) + 1)
                           /\ w = i => f[w] <= L * (r + 1) + 0
                           /\ w > i => f[w] <= L * (r + 1)
    BY <1>1, <1>3, <1>4, <1>7
  <2>2. q = r + 1 /\ a.current = 0
    BY <1>1, <1>2, <1>7
  <2>3. QED
    BY <1>1, <1>2, <2>1, <2>2 DEF Within, a, i, L
<1>8. QED
  BY <1>1, <1>5, <1>6, <1>7

\* The fields of a charged entry.
LEMMA ChargedFields ==
    ASSUME FrequencyLimit > 0, NEW now \in Times, NEW e \in Entry
    PROVE  /\ Charged(e, now).window_index = Advance(e, now).window_index
           /\ Charged(e, now).current = Advance(e, now).current + 1
           /\ Charged(e, now).previous = Advance(e, now).previous
<1> DEFINE a == Advance(e, now)
<1>1. a \in Entry
  BY EntryType
<1>2. Charged(e, now) = [a EXCEPT !.current = a.current + 1,
                                  !.lifetime_shows = a.lifetime_shows + 1]
  BY DEF Charged
<1> HIDE DEF a
<1>3. QED
  BY <1>1, <1>2 DEF Entry, a

\* Charging a show that passed the test keeps Within.
LEMMA ChargeWithin ==
    ASSUME FrequencyLimit > 0, FrequencyWindow > 0, NEW now \in Times, NEW e \in Entry,
           NEW r \in Nat, NEW f \in [Windows -> Nat],
           Within(Advance(e, now), r, f),
           ~OverLimit(Advance(e, now).previous, Advance(e, now).current, now)
    PROVE  Within(Charged(e, now), r, [f EXCEPT ![WindowOf(now)] = @ + 1])
<1> DEFINE a == Advance(e, now)
           b == Charged(e, now)
           i == WindowOf(now)
           L == FrequencyLimit
           g == [f EXCEPT ![i] = @ + 1]
<1>1. a \in Entry /\ a.current \in Nat /\ a.previous \in Nat
  BY EntryType DEF Entry
<1>2. a.window_index = i /\ i \in Nat
  BY AdvanceFields, WindowType
<1>3. b.window_index = i /\ b.current = a.current + 1
  BY <1>2, ChargedFields
<1>4. a.current + 1 <= L
  BY <1>1, RoomLeft
<1>5. /\ L \in Nat /\ L * r \in Nat
      /\ \A w \in Windows : w \in Nat /\ f[w] \in Nat /\ g[w] = IF w = i THEN f[w] + 1 ELSE f[w]
  BY WindowType, ConfigAssumption DEF Windows
<1>6. \A w \in Windows : /\ w < i => f[w] <= L * (r + 1)
                         /\ w = i => f[w] <= L * r + a.current
                         /\ w > i => f[w] <= L * r
  BY <1>2 DEF Within
<1> HIDE DEF a, b, i, L, g
<1>7. \A w \in Windows : /\ w < i => g[w] <= L * (r + 1)
                         /\ w = i => g[w] <= L * r + (a.current + 1)
                         /\ w > i => g[w] <= L * r
  BY <1>1, <1>2, <1>5, <1>6
<1>8. QED
  BY <1>3, <1>4, <1>7 DEF Within, b, i, L, g

\* An entry just emplaced in the window of `now` is Within what its item had.
LEMMA NewWithin ==
    ASSUME FrequencyLimit > 0, FrequencyWindow > 0, NEW now \in Times,
           NEW r \in Nat, NEW f \in [Windows -> Nat],
           \A w \in Windows : f[w] <= FrequencyLimit * r
    PROVE  Within(NewEntry(now), r, f)
<1>1. NewEntry(now).current = 0 /\ NewEntry(now).window_index = WindowOf(now)
  BY DEF NewEntry, NoEntry
<1>2. FrequencyLimit \in Nat /\ FrequencyLimit * r \in Nat
      /\ FrequencyLimit * (r + 1) = FrequencyLimit * r + FrequencyLimit
  BY ConfigAssumption
<1>3. \A w \in Windows : f[w] \in Nat /\ f[w] <= FrequencyLimit * (r + 1)
  BY <1>2
<1>4. QED
  BY <1>1, <1>2, <1>3 DEF Within

\* A reset turns what Within allows into one more allowance for every window.
LEMMA WithinBound ==
    ASSUME FrequencyLimit > 0, NEW e \in Entry, NEW r \in Nat,
           NEW f \in [Windows -> Nat], Within(e, r, f), NEW w \in Windows
    PROVE  f[w] <= FrequencyLimit * (r + 1)
<1>1. /\ FrequencyLimit \in Nat /\ FrequencyLimit * r \in Nat
      /\ FrequencyLimit * (r + 1) = FrequencyLimit * r + FrequencyLimit
      /\ e.current \in Nat /\ e.window_index \in Nat /\ w \in Nat /\ f[w] \in Nat
  BY ConfigAssumption, WindowType DEF Entry, Windows
<1>2. /\ e.current <= FrequencyLimit
      /\ w < e.window_index => f[w] <= FrequencyLimit * (r + 1)
      /\ w = e.window_index => f[w] <= FrequencyLimit * r + e.current
      /\ w > e.window_index => f[w] <= FrequencyLimit * r
  BY DEF Within
<1>3. QED
  BY <1>1, <1>2

\* Each of the four things a step can do to an item keeps its windows within bounds.
LEMMA WindowInvStep == StoreInv /\ WindowInv /\ [Next]_vars => WindowInv'
<1> DEFINE Ok(x) ==
       /\ x \in tracked => Within(entries[x], dropped[x] + late[x], shownIn[x])
       /\ x \notin tracked => \A w \in Windows :
             shownIn[x][w] <= FrequencyLimit * (dropped[x] + late[x])
<1> SUFFICES ASSUME StoreInv, WindowInv, [Next]_vars,
                    FrequencyLimit > 0, FrequencyWindow > 0, NEW x \in Items
             PROVE  Ok(x)'
  BY Zenon DEF WindowInv
<1> DEFINE r == dropped[x] + late[x]
<1>1. /\ entries[x] \in Entry /\ dropped[x] \in Nat /\ late[x] \in Nat
      /\ shownIn[x] \in [Windows -> Nat] /\ r \in Nat
      /\ x \notin tracked => entries[x] = NoEntry
  BY DEF StoreInv, TypeOK
<1>2. Ok(x)
  BY DEF WindowInv
<1>3. CASE Kept(x)
  BY <1>2, <1>3 DEF Kept, HistoryKept
<1>4. CASE Dropped(x)
  <2>1. dropped'[x] + late'[x] = r + 1 /\ x \notin tracked' /\ shownIn'[x] = shownIn[x]
    BY <1>1, <1>4 DEF Dropped, HistoryKept
  <2>2. \A w \in Windows : shownIn[x][w] <= FrequencyLimit * (r + 1)
    <3>1. CASE x \in tracked
      BY <1>1, <1>2, <3>1, WithinBound
    <3>2. CASE x \notin tracked
      <4>1. /\ FrequencyLimit * r \in Nat /\ FrequencyLimit \in Nat
            /\ FrequencyLimit * (r + 1) = FrequencyLimit * r + FrequencyLimit
        BY <1>1, ConfigAssumption
      <4>2. QED
        BY <1>1, <1>2, <3>2, <4>1
    <3>3. QED
      BY <3>1, <3>2
  <2>3. QED
    BY <2>1, <2>2
<1>5. ASSUME NEW now \in Times, Limited(x, now) PROVE Ok(x)'
  <2>1. /\ x \in tracked /\ x \in tracked' /\ entries'[x] = Advance(entries[x], now)
        /\ shownIn'[x] = shownIn[x]
    BY <1>5 DEF Limited, HistoryKept
  <2>2. dropped'[x] + late'[x] =
           IF WindowOf(now) < entries[x].window_index THEN r + 1 ELSE r
    BY <1>1, <1>5, <2>1 DEF Limited, LateBy, Found
  <2>3. Within(Advance(entries[x], now),
               IF WindowOf(now) < entries[x].window_index THEN r + 1 ELSE r, shownIn[x])
    BY <1>1, <1>2, <2>1, AdvanceWithin
  <2>4. QED
    BY <2>1, <2>2, <2>3
<1>6. ASSUME NEW now \in Times, Granted(x, now) PROVE Ok(x)'
  <2> DEFINE e == Found(x, now)
             q == IF WindowOf(now) < e.window_index THEN r + 1 ELSE r
  <2>1. e \in Entry /\ q \in Nat
    BY <1>1, FoundProperties
  <2>2. /\ x \in tracked' /\ entries'[x] = Charged(e, now)
        /\ shownIn'[x] = [shownIn[x] EXCEPT ![WindowOf(now)] = @ + 1]
        /\ ~OverLimit(Advance(e, now).previous, Advance(e, now).current, now)
    BY <1>6 DEF Granted
  <2>3. dropped'[x] + late'[x] = q
    BY <1>1, <1>6 DEF Granted, LateBy
  <2>4. Within(e, r, shownIn[x])
    BY <1>1, <1>2, NewWithin DEF Found
  <2>5. Within(Advance(e, now), q, shownIn[x])
    BY <1>1, <2>1, <2>4, AdvanceWithin
  <2> HIDE DEF e, q
  <2>6. Within(Charged(e, now), q, [shownIn[x] EXCEPT ![WindowOf(now)] = @ + 1])
    BY <1>1, <2>1, <2>2, <2>5, ChargeWithin
  <2>7. QED
    BY <2>2, <2>3, <2>6
<1>7. QED
  BY <1>3, <1>4, <1>5, <1>6, StepOnItem

\* The frequency limit: reserve() stamps at most FrequencyLimit shows of an item
\* with one window, plus one allowance per dropped entry and per late call, for
\* every limit, window and order of calls.
THEOREM WindowAlwaysRespected == Spec => []WindowRespected
<1>1. Init => WindowInv
  BY ConfigAssumption DEF Init, WindowInv
<1>2. StoreInv /\ WindowInv => WindowRespected
  <2> SUFFICES ASSUME StoreInv, WindowInv, FrequencyLimit > 0, FrequencyWindow > 0,
                      NEW id \in Items, NEW w \in Windows
               PROVE  shownIn[id][w] <= FrequencyLimit * (1 + dropped[id] + late[id])
    BY DEF WindowRespected
  <2> DEFINE r == dropped[id] + late[id]
  <2>1. /\ entries[id] \in Entry /\ r \in Nat /\ shownIn[id] \in [Windows -> Nat]
        /\ 1 + dropped[id] + late[id] = r + 1
    BY DEF StoreInv, TypeOK
  <2>2. CASE id \in tracked
    BY <2>1, <2>2, WithinBound DEF WindowInv
  <2>3. CASE id \notin tracked
    <3>1. shownIn[id][w] <= FrequencyLimit * r
      BY <2>3 DEF WindowInv
    <3>2. /\ FrequencyLimit * r \in Nat /\ FrequencyLimit \in Nat /\ shownIn[id][w] \in Nat
          /\ FrequencyLimit * (r + 1) = FrequencyLimit * r + FrequencyLimit
      BY <2>1, ConfigAssumption
    <3>3. QED
      BY <2>1, <3>1, <3>2
  <2>4. QED
    BY <2>2, <2>3
<1>3. QED
  BY StoreInvInit, StoreInvStep, WindowInvStep, <1>1, <1>2, PTL DEF Spec

-----------------------------------------------------------------------------
(* The sliding estimate *)

\* While an entry has never been reset its two counters are the exact number of
\* shows in its window and the one before it.
Exact(e, f) ==
    /\ e.previous <= FrequencyLimit
    /\ e.current <= FrequencyLimit
    /\ e.previous + e.current < 2 * FrequencyLimit
    /\ \A w \in Windows :
          /\ w = e.window_index => f[w] = e.current
          /\ w + 1 = e.window_index => f[w] = e.previous
          /\ w > e.window_index => f[w] = 0
          /\ w + 1 \in Windows => f[w] + f[w + 1] < 2 * FrequencyLimit

RollingInv ==
    FrequencyLimit > 0 /\ FrequencyWindow > 0 =>
        \A id \in Items :
            dropped[id] = 0 /\ late[id] = 0 =>
                /\ id \in tracked => Exact(entries[id], shownIn[id])
                /\ id \notin tracked => \A w \in Windows : shownIn[id][w] = 0

\* Rolling forward keeps the counters exact.
LEMMA AdvanceExact ==
    ASSUME FrequencyLimit > 0, FrequencyWindow > 0, NEW now \in Times, NEW e \in Entry,
           NEW f \in [Windows -> Nat], Exact(e, f), ~(WindowOf(now) < e.window_index)
    PROVE  Exact(Advance(e, now), f)
<1> DEFINE a == Advance(e, now)
           i == WindowOf(now)
           L == FrequencyLimit
<1>1. /\ i \in Nat /\ e.window_index \in Nat /\ e.current \in Nat /\ e.previous \in Nat
      /\ L \in Nat /\ L > 0 /\ i >= e.window_index
      /\ \A w \in Windows : w \in Nat /\ f[w] \in Nat
  BY WindowType, ConfigAssumption DEF Entry, Windows
<1>2. /\ a.window_index = i
      /\ i = e.window_index => a.current = e.current /\ a.previous = e.previous
      /\ i = e.window_index + 1 => a.current = 0 /\ a.previous = e.current
      /\ i # e.window_index /\ i # e.window_index + 1 => a.current = 0 /\ a.previous = 0
  BY AdvanceFields
<1>3. /\ e.previous <= L /\ e.current <= L /\ e.previous + e.current < 2 * L
      /\ \A w \in Windows : /\ w = e.window_index => f[w] = e.current
                            /\ w + 1 = e.window_index => f[w] = e.previous
                            /\ w > e.window_index => f[w] = 0
                            /\ w + 1 \in Windows => f[w] + f[w + 1] < 2 * L
  BY DEF Exact
<1> HIDE DEF a, i, L
<1>4. a.previous <= L /\ a.current <= L /\ a.previous + a.current < 2 * L
  BY <1>1, <1>2, <1>3
<1>5. \A w \in Windows : /\ w = i => f[w] = a.current
                         /\ w + 1 = i => f[w] = a.previous
                         /\ w > i => f[w] = 0
  <2>1. CASE i = e.window_index
    BY <1>1, <1>2, <1>3, <2>1
  <2>2. CASE i = e.window_index + 1
    BY <1>1, <1>2, <1>3, <2>2
  <2>3. CASE i > e.window_index + 1
    BY <1>1, <1>2, <1>3, <2>3
  <2>4. QED
    BY <1>1, <2>1, <2>2, <2>3
<1>6. QED
  BY <1>2, <1>3, <1>4, <1>5 DEF Exact, a, i, L

\* Charging a show that passed the test keeps the counters exact and two adjacent
\* windows under twice the limit: a previous window that still weighs in has
\* already cost the current one a show.
LEMMA ChargeExact ==
    ASSUME FrequencyLimit > 0, FrequencyWindow > 0, NEW now \in Times, NEW e \in Entry,
           NEW f \in [Windows -> Nat], Exact(Advance(e, now), f),
           ~OverLimit(Advance(e, now).previous, Advance(e, now).current, now)
    PROVE  Exact(Charged(e, now), [f EXCEPT ![WindowOf(now)] = @ + 1])
<1> DEFINE a == Advance(e, now)
           b == Charged(e, now)
           i == WindowOf(now)
           L == FrequencyLimit
           g == [f EXCEPT ![i] = @ + 1]
<1>1. a \in Entry /\ a.current \in Nat /\ a.previous \in Nat
  BY EntryType DEF Entry
<1>2. a.window_index = i /\ i \in Nat
  BY AdvanceFields, WindowType
<1>3. b.window_index = i /\ b.current = a.current + 1 /\ b.previous = a.previous
  BY <1>2, ChargedFields
<1>4. a.current + 1 <= L /\ (a.previous > 0 => a.current + 1 < L)
  BY <1>1, RoomLeft
<1>5. /\ L \in Nat /\ L > 0
      /\ \A w \in Windows : w \in Nat /\ f[w] \in Nat /\ g[w] = IF w = i THEN f[w] + 1 ELSE f[w]
  BY WindowType, ConfigAssumption DEF Windows
<1>6. /\ a.previous <= L
      /\ \A w \in Windows : /\ w = i => f[w] = a.current
                            /\ w + 1 = i => f[w] = a.previous
                            /\ w > i => f[w] = 0
                            /\ w + 1 \in Windows => f[w] + f[w + 1] < 2 * L
  BY <1>2 DEF Exact
<1> HIDE DEF a, b, i, L, g
<1>7. b.previous <= L /\ b.current <= L /\ b.previous + b.current < 2 * L
  BY <1>1, <1>3, <1>4, <1>5, <1>6
<1>8. ASSUME NEW w \in Windows
      PROVE  /\ w = i => g[w] = b.current
             /\ w + 1 = i => g[w] = b.previous
             /\ w > i => g[w] = 0
             /\ w + 1 \in Windows => g[w] + g[w + 1] < 2 * L
  <2>1. /\ w = i => g[w] = b.current
        /\ w + 1 = i => g[w] = b.previous
        /\ w > i => g[w] = 0
    BY <1>1, <1>2, <1>3, <1>5, <1>6
  <2>2. ASSUME w + 1 \in Windows PROVE g[w] + g[w + 1] < 2 * L
    <3>1. /\ f[w] + f[w + 1] < 2 * L /\ f[w] \in Nat /\ f[w + 1] \in Nat /\ w \in Nat
          /\ g[w] = IF w = i THEN f[w] + 1 ELSE f[w]
          /\ g[w + 1] = IF w + 1 = i THEN f[w + 1] + 1 ELSE f[w + 1]
      BY <1>5, <1>6, <2>2
    <3>2. CASE w = i
      <4>1. f[w] = a.current /\ f[w + 1] = 0
        BY <1>2, <1>6, <2>2, <3>2
      <4>2. QED
        BY <1>1, <1>4, <1>5, <3>1, <3>2, <4>1
    <3>3. CASE w + 1 = i
      <4>1. f[w] = a.previous /\ f[w + 1] = a.current
        BY <1>2, <1>6, <2>2, <3>3
      <4>2. QED
        BY <1>1, <1>4, <1>5, <1>6, <3>1, <3>3, <4>1
    <3>4. CASE w # i /\ w + 1 # i
      BY <3>1, <3>4
    <3>5. QED
      BY <3>2, <3>3, <3>4
  <2>3. QED
    BY <2>1, <2>2
<1>9. QED
  BY <1>3, <1>7, <1>8 DEF Exact, b, i, L, g

\* A new entry for an item never shown counts exactly.
LEMMA NewExact ==
    ASSUME FrequencyLimit > 0, FrequencyWindow > 0, NEW now \in Times,
           NEW f \in [Windows -> Nat], \A w \in Windows : f[w] = 0
    PROVE  Exact(NewEntry(now), f)
<1>1. /\ NewEntry(now).current = 0 /\ NewEntry(now).previous = 0
      /\ NewEntry(now).window_index = WindowOf(now)
  BY DEF NewEntry, NoEntry
<1>2. FrequencyLimit \in Nat
  BY ConfigAssumption
<1>3. QED
  BY <1>1, <1>2 DEF Exact

\* Each of the four things a step can do to an item keeps its counters exact.
LEMMA RollingInvStep == StoreInv /\ RollingInv /\ [Next]_vars => RollingInv'
<1> DEFINE Ok(x) ==
       dropped[x] = 0 /\ late[x] = 0 =>
          /\ x \in tracked => Exact(entries[x], shownIn[x])
          /\ x \notin tracked => \A w \in Windows : shownIn[x][w] = 0
<1> SUFFICES ASSUME StoreInv, RollingInv, [Next]_vars,
                    FrequencyLimit > 0, FrequencyWindow > 0, NEW x \in Items
             PROVE  Ok(x)'
  BY DEF RollingInv
<1>1. /\ entries[x] \in Entry /\ dropped[x] \in Nat /\ late[x] \in Nat
      /\ shownIn[x] \in [Windows -> Nat]
      /\ x \notin tracked => entries[x] = NoEntry
  BY DEF StoreInv, TypeOK
<1>2. Ok(x)
  BY DEF RollingInv
<1>3. CASE Kept(x)
  BY <1>2, <1>3 DEF Kept, HistoryKept
<1>4. CASE Dropped(x)
  BY <1>1, <1>4 DEF Dropped
<1>5. ASSUME NEW now \in Times, Limited(x, now) PROVE Ok(x)'
  <2> SUFFICES ASSUME dropped'[x] = 0, late'[x] = 0
               PROVE  Exact(entries'[x], shownIn'[x]) /\ x \in tracked'
    OBVIOUS
  <2>1. /\ x \in tracked /\ x \in tracked' /\ entries'[x] = Advance(entries[x], now)
        /\ shownIn'[x] = shownIn[x] /\ dropped[x] = 0
    BY <1>5 DEF Limited, HistoryKept
  <2>2. late[x] = 0 /\ ~(WindowOf(now) < entries[x].window_index)
    BY <1>1, <1>5, <2>1 DEF Limited, LateBy, Found
  <2>3. QED
    BY <1>1, <1>2, <2>1, <2>2, AdvanceExact
<1>6. ASSUME NEW now \in Times, Granted(x, now) PROVE Ok(x)'
  <2> SUFFICES ASSUME dropped'[x] = 0, late'[x] = 0
               PROVE  Exact(entries'[x], shownIn'[x]) /\ x \in tracked'
    OBVIOUS
  <2> DEFINE e == Found(x, now)
  <2>1. e \in Entry
    BY FoundProperties
  <2>2. /\ x \in tracked' /\ entries'[x] = Charged(e, now) /\ dropped[x] = 0
        /\ shownIn'[x] = [shownIn[x] EXCEPT ![WindowOf(now)] = @ + 1]
        /\ ~OverLimit(Advance(e, now).previous, Advance(e, now).current, now)
    BY <1>6, Zenon DEF Granted
  <2>3. late[x] = 0 /\ ~(WindowOf(now) < e.window_index)
    <3>1. late'[x] = IF WindowOf(now) < e.window_index THEN late[x] + 1 ELSE late[x]
      BY <1>6, Zenon DEF Granted, LateBy
    <3> HIDE DEF Ok, e
    <3>2. QED
      BY <1>1, <3>1
  <2>4. Exact(e, shownIn[x])
    BY <1>1, <1>2, <2>2, <2>3, NewExact DEF Found
  <2> HIDE DEF e
  <2>5. Exact(Advance(e, now), shownIn[x])
    BY <1>1, <2>1, <2>3, <2>4, AdvanceExact
  <2>6. Exact(Charged(e, now), [shownIn[x] EXCEPT ![WindowOf(now)] = @ + 1])
    BY <1>1, <2>1, <2>2, <2>5, ChargeExact
  <2>7. QED
    BY <2>2, <2>6
<1>7. QED
  BY <1>3, <1>4, <1>5, <1>6, StepOnItem

\* The sliding estimate bounds a rolling window: an item whose calls arrived in
\* window order is shown fewer than 2 * FrequencyLimit times in any two adjacent
\* windows, for every limit and window length.
THEOREM RollingAlwaysRespected == Spec => []RollingRespected
<1>1. Init => RollingInv
  BY ConfigAssumption DEF Init, RollingInv
<1>2. RollingInv => RollingRespected
  <2> SUFFICES ASSUME RollingInv, FrequencyLimit > 0, FrequencyWindow > 0,
                      NEW id \in Items, NEW w \in Windows,
                      w + 1 \in Windows, dropped[id] = 0, late[id] = 0
               PROVE  shownIn[id][w] + shownIn[id][w + 1] < 2 * FrequencyLimit
    BY DEF RollingRespected
  <2>1. CASE id \in tracked
    BY <2>1 DEF RollingInv, Exact
  <2>2. CASE id \notin tracked
    <3>1. shownIn[id][w] = 0 /\ shownIn[id][w + 1] = 0
      BY <2>2 DEF RollingInv
    <3>2. QED
      BY <3>1, ConfigAssumption
  <2>3. QED
    BY <2>1, <2>2
<1>3. QED
  BY StoreInvInit, StoreInvStep, RollingInvStep, <1>1, <1>2, PTL DEF Spec

-----------------------------------------------------------------------------
(* The dry run *)

\* The roll-forward that check() computes into locals is the one reserve() stores.
LEMMA RolledAgrees ==
    ASSUME NEW now \in Times, NEW e \in Entry
    PROVE  OverLimit(Rolled(e, now).previous, Rolled(e, now).current, now)
             <=> OverLimit(Advance(e, now).previous, Advance(e, now).current, now)
<1>1. CASE FrequencyWindow > 0
  <2>1. e.window_index \in Nat /\ WindowOf(now) \in Nat
    BY WindowType DEF Entry
  <2>2. /\ Rolled(e, now).previous = Advance(e, now).previous
        /\ Rolled(e, now).current = Advance(e, now).current
    BY <1>1, <2>1, AdvanceFields DEF Rolled
  <2>3. QED
    BY <2>2
<1>2. CASE ~(FrequencyWindow > 0)
  BY <1>2 DEF OverLimit
<1>3. QED
  BY <1>1, <1>2, Zenon

\* Under fail-open a full shard always has a victim, so reserve() never reports
\* StoreFull.
LEMMA FullHasVictim ==
    ASSUME StoreInv, NEW id \in Items, NoRoom(id)
    PROVE  ~FailOpen
<1> SUFFICES ASSUME FailOpen PROVE FALSE
  OBVIOUS
<1> DEFINE s == ShardFor[id]
<1>1. recency[s] = <<>> /\ Cardinality(InShard(s)) >= PerShardCapacity
  BY DEF NoRoom, Full
<1>2. s \in Shards
  BY ConfigAssumption
<1>3. InShard(s) = ToSet(recency[s])
  BY <1>2 DEF StoreInv, RecencyMatches
<1>4. InShard(s) = {}
  BY <1>1, <1>3 DEF ToSet
<1>5. QED
  BY <1>1, <1>4, FS_EmptySet, CapacityType

\* The dry run: for every configuration, check() returns what reserve() returns in
\* the same state.
THEOREM CheckAlwaysPredicts == Spec => CheckPredicts
<1> DEFINE Agrees(id, now) ==
       /\ StoreFull(id) => Check(id, now) = "StoreFull"
       /\ ExposureCapReached(id, now) => Check(id, now) = "ExposureCapReached"
       /\ FrequencyLimited(id, now) => Check(id, now) = "FrequencyLimited"
       /\ Allowed(id, now) => Check(id, now) = "Allowed"
<1>1. ASSUME StoreInv, NEW id \in Items, NEW now \in Times PROVE Agrees(id, now)
  <2>0. entries[id] \in Entry
    BY <1>1 DEF StoreInv, TypeOK
  <2>1. ASSUME StoreFull(id) PROVE Check(id, now) = "StoreFull"
    BY <1>1, <2>1, FullHasVictim DEF StoreFull, NoRoom, Check
  <2>2. ASSUME ExposureCapReached(id, now) PROVE Check(id, now) = "ExposureCapReached"
    <3>1. id \in tracked /\ AtCap(entries[id])
      <4>1. id \in tracked /\ Found(id, now) = entries[id]
        BY <1>1, <2>2, RefusalProperties
      <4>2. QED
        BY <2>2, <4>1 DEF ExposureCapReached
    <3>2. QED
      BY <3>1 DEF Check
  <2>3. ASSUME FrequencyLimited(id, now) PROVE Check(id, now) = "FrequencyLimited"
    <3>1. /\ id \in tracked /\ ~AtCap(entries[id]) /\ FrequencyLimit > 0
          /\ OverLimit(Advance(entries[id], now).previous,
                       Advance(entries[id], now).current, now)
      <4>1. id \in tracked /\ Found(id, now) = entries[id]
        BY <1>1, <2>3, RefusalProperties
      <4>2. QED
        BY <2>3, <4>1 DEF FrequencyLimited
    <3>2. OverLimit(Rolled(entries[id], now).previous, Rolled(entries[id], now).current, now)
      BY <2>0, <3>1, RolledAgrees
    <3>3. QED
      BY <3>1, <3>2 DEF Check
  <2>4. ASSUME Allowed(id, now) PROVE Check(id, now) = "Allowed"
    <3>1. CASE id \in tracked
      <4>1. /\ ~AtCap(entries[id])
            /\ FrequencyLimit > 0 => ~OverLimit(Advance(entries[id], now).previous,
                                                Advance(entries[id], now).current, now)
        BY <2>4, <3>1 DEF Allowed, Found
      <4>2. FrequencyLimit > 0 =>
               ~OverLimit(Rolled(entries[id], now).previous,
                          Rolled(entries[id], now).current, now)
        BY <2>0, <4>1, RolledAgrees
      <4>3. QED
        BY <3>1, <4>1, <4>2 DEF Check
    <3>2. CASE id \notin tracked
      BY <2>4, <3>2 DEF Allowed, NoRoom, Check
    <3>3. QED
      BY <3>1, <3>2
  <2>5. QED
    BY <2>1, <2>2, <2>3, <2>4
<1>2. StoreInv /\ [Next]_vars => [\A id \in Items, now \in Times : Agrees(id, now)]_vars
  BY <1>1
<1>3. QED
  BY StoreInvInit, StoreInvStep, <1>2, PTL DEF Spec, CheckPredicts
=============================================================================
