------------------------ MODULE RecommendGateProofs -------------------------
(* Theorems about RecommendGate, for every value of its constants. *)
EXTENDS RecommendGate, ExposureStoreProofs

Requests == [active : BOOLEAN, now : 0 .. MaxTime, dry_run : BOOLEAN, count : 0 .. MaxCount,
             shortlist : SUBSET Items, chosen : SUBSET Items]

Holders(id) == {t \in Threads : Live(t) /\ id \in request[t].chosen}

\* The gate's part of the type invariant, and what select()'s locals satisfy: a
\* candidate that was taken is no longer on the shortlist.
RequestInv ==
    /\ clock \in 0 .. MaxTime
    /\ request \in [Threads -> Requests]
    /\ returned \in [Items -> Nat]
    /\ \A t \in Threads :
         /\ IsFiniteSet(request[t].chosen)
         /\ Cardinality(request[t].chosen) <= request[t].count
         /\ request[t].chosen \cap request[t].shortlist = {}
         /\ ~request[t].active => request[t].chosen = {}

\* Under fail-closed the daemon never loses an entry.
NothingDropped == ~FailOpen => \A id \in Items : dropped[id] = 0

-----------------------------------------------------------------------------
(* The gate uses the store only through its interface *)

\* A step of the gate is a step of the store, or leaves the store alone.
LEMMA StoreStep == RequestInv /\ [GateNext]_gateVars => [Next]_vars
<1> SUFFICES ASSUME RequestInv, [GateNext]_gateVars PROVE [Next]_vars
  OBVIOUS
<1>1. CASE Tick
  BY <1>1 DEF Tick
<1>2. ASSUME NEW t \in Threads, NEW id \in Items, Consult(t, id) PROVE [Next]_vars
  <2>1. request[t].now \in Times
    BY GateAssumption DEF RequestInv, Requests
  <2>2. QED
    BY <1>2, <2>1 DEF Consult, Next
<1>3. ASSUME NEW t \in Threads, NEW id \in Items, ConsultDry(t, id) PROVE [Next]_vars
  BY <1>3 DEF ConsultDry
<1>4. ASSUME NEW t \in Threads, Finish(t) PROVE [Next]_vars
  BY <1>4 DEF Finish
<1>5. ASSUME NEW t \in Threads, NEW n, NEW d, NEW s, Begin(t, n, d, s) PROVE [Next]_vars
  BY <1>5 DEF Begin
<1>6. CASE UNCHANGED gateVars
  BY <1>6 DEF gateVars
<1>7. QED
  BY <1>1, <1>2, <1>3, <1>4, <1>5, <1>6 DEF GateNext

\* What one round of select() with a live callback learns from reserve().
LEMMA ReserveAnswers ==
    ASSUME StoreInv, NEW id \in Items, NEW now \in Times, Reserve(id, now)
    PROVE  /\ \/ ~(metrics'.allowed > metrics.allowed) /\ shown' = shown
              \/ /\ metrics'.allowed > metrics.allowed
                 /\ shown' = [shown EXCEPT ![id] = @ + 1]
           /\ ~FailOpen => dropped' = dropped
<1>0. /\ metrics \in PolicyMetrics /\ metrics.allowed \in Nat /\ dropped \in [Items -> Nat]
  BY DEF StoreInv, TypeOK, PolicyMetrics
<1>1. CASE StoreFull(id)
  BY <1>0, <1>1 DEF StoreFull, history, PolicyMetrics
<1>2. CASE ExposureCapReached(id, now) \/ FrequencyLimited(id, now)
  <2>1. dropped' = dropped
    BY <1>2, RefusalProperties
  <2>2. shown' = shown /\ metrics'.allowed = metrics.allowed
    BY <1>0, <1>2, Zenon DEF ExposureCapReached, FrequencyLimited, PolicyMetrics
  <2>3. QED
    BY <1>0, <2>1, <2>2
<1>3. CASE Allowed(id, now)
  <2>1. ~FailOpen => dropped' = dropped
    <3>1. ~FailOpen => Evicted(id) = {}
      BY DEF Evicted
    <3>2. Save(id, Charged(Found(id, now), now))
      BY <1>3 DEF Allowed
    <3>3. QED
      BY <1>0, <3>1, <3>2 DEF Save
  <2>2. shown' = [shown EXCEPT ![id] = @ + 1] /\ metrics'.allowed = metrics.allowed + 1
    BY <1>0, <1>3 DEF Allowed, PolicyMetrics
  <2>3. QED
    BY <1>0, <2>1, <2>2
<1>4. QED
  BY <1>1, <1>2, <1>3 DEF Reserve

-----------------------------------------------------------------------------
(* Requests *)

Taken(t, id, ok) ==
    /\ request' \in [Threads -> Requests]
    /\ \A u \in Threads \ {t} : request'[u] = request[u]
    /\ request'[t].active /\ request'[t].dry_run = request[t].dry_run
    /\ request'[t].count = request[t].count
    /\ request'[t].chosen = IF ok THEN request[t].chosen \cup {id} ELSE request[t].chosen
    /\ request'[t].shortlist = request[t].shortlist \ {id}
    /\ IsFiniteSet(request'[t].chosen)
    /\ Cardinality(request'[t].chosen) <= request'[t].count

\* One round of select(): what taking a candidate does to the request.
LEMMA TakeProperties ==
    ASSUME RequestInv, NEW t \in Threads, NEW id \in request[t].shortlist, Selecting(t),
           NEW ok \in BOOLEAN, Take(t, id, ok)
    PROVE  Taken(t, id, ok)
<1> DEFINE r == request[t]
           c == IF ok THEN r.chosen \cup {id} ELSE r.chosen
           n == [r EXCEPT !.shortlist = r.shortlist \ {id}, !.chosen = c]
<1>1. request \in [Threads -> Requests] /\ r \in Requests
  BY DEF RequestInv
<1>2. /\ r.active \in BOOLEAN /\ r.now \in 0 .. MaxTime /\ r.dry_run \in BOOLEAN
      /\ r.count \in 0 .. MaxCount /\ r.shortlist \in SUBSET Items /\ r.chosen \in SUBSET Items
  BY <1>1 DEF Requests
<1>3. c \in SUBSET Items
  BY <1>2
<1>4. n \in Requests
  <2>1. r.shortlist \ {id} \in SUBSET Items
    BY <1>2
  <2> HIDE DEF r, c
  <2>2. QED
    BY <1>1, <1>3, <2>1, Zenon DEF Requests
<1>5. request' = [request EXCEPT ![t] = n]
  <2>1. request' = [request EXCEPT ![t].shortlist = @ \ {id},
                                   ![t].chosen = IF ok THEN @ \cup {id} ELSE @]
    BY DEF Take
  <2>2. QED
    BY <1>1, <2>1, Zenon DEF Requests
<1>6. IsFiniteSet(c) /\ Cardinality(c) <= r.count
  <2>1. IsFiniteSet(r.chosen) /\ Cardinality(r.chosen) < r.count /\ Cardinality(r.chosen) \in Nat
    BY FS_CardinalityType DEF RequestInv, Selecting
  <2>2. id \notin r.chosen
    BY DEF RequestInv
  <2>3. /\ IsFiniteSet(r.chosen \cup {id})
        /\ Cardinality(r.chosen \cup {id}) = Cardinality(r.chosen) + 1
    BY <2>1, <2>2, FS_AddElement, Zenon
  <2>4. r.count \in Int
    BY <1>2
  <2> HIDE DEF r
  <2>5. QED
    BY <2>1, <2>3, <2>4
<1>7. r.active
  BY DEF Selecting
<1>8. /\ n.active /\ n.dry_run = r.dry_run /\ n.count = r.count
      /\ n.chosen = c /\ n.shortlist = r.shortlist \ {id}
  <2> HIDE DEF r, c
  <2>1. QED
    BY <1>1, <1>7 DEF Requests
<1> HIDE DEF c, n
<1>9. request'[t] = n /\ request' \in [Threads -> Requests]
      /\ \A u \in Threads \ {t} : request'[u] = request[u]
  BY <1>1, <1>4, <1>5
<1>10. QED
  BY <1>6, <1>8, <1>9 DEF c, Taken

\* Whatever round it is, the candidate's answer is a Boolean.
LEMMA Rounds ==
    ASSUME StoreInv, RequestInv, NEW t \in Threads, NEW id \in Items,
           ConsultDry(t, id) \/ Consult(t, id)
    PROVE  /\ Selecting(t) /\ id \in request[t].shortlist /\ UNCHANGED <<clock, returned>>
           /\ \E ok \in BOOLEAN : Take(t, id, ok)
<1>1. CASE ConsultDry(t, id)
  <2>1. (Check(id, request[t].now) = "Allowed") \in BOOLEAN
    OBVIOUS
  <2>2. QED
    BY <1>1, <2>1, Zenon DEF ConsultDry
<1>2. CASE Consult(t, id)
  <2>1. (metrics'.allowed > metrics.allowed) \in BOOLEAN
    <3>1. request[t].now \in Times
      BY GateAssumption DEF RequestInv, Requests
    <3>2. metrics.allowed \in Nat /\ metrics'.allowed \in Nat
      <4>1. [Next]_vars
        BY <1>2, <3>1 DEF Consult, Next
      <4>2. StoreInv'
        BY <4>1, StoreInvStep
      <4>3. QED
        BY <4>2 DEF StoreInv, TypeOK, PolicyMetrics
    <3>3. QED
      BY <3>2
  <2>2. QED
    BY <1>2, <2>1, Zenon DEF Consult
<1>3. QED
  BY <1>1, <1>2

\* A slate never grows past what was asked for, and holds no candidate twice.
LEMMA RequestStep == StoreInv /\ RequestInv /\ [GateNext]_gateVars => RequestInv'
<1> SUFFICES ASSUME StoreInv, RequestInv, [GateNext]_gateVars PROVE RequestInv'
  OBVIOUS
<1>0. /\ clock \in 0 .. MaxTime /\ request \in [Threads -> Requests] /\ returned \in [Items -> Nat]
      /\ MaxTime \in Nat /\ MaxCount \in Nat
  BY GateAssumption DEF RequestInv
<1>1. CASE Tick
  BY <1>0, <1>1 DEF Tick, RequestInv
<1>2. ASSUME NEW t \in Threads, NEW n \in 1 .. MaxCount, NEW d \in BOOLEAN, NEW s \in SUBSET Items,
             Begin(t, n, d, s)
      PROVE  RequestInv'
  <2> DEFINE r == [active |-> TRUE, now |-> clock, dry_run |-> d, count |-> n,
                   shortlist |-> s, chosen |-> {}]
  <2>1. r \in Requests
    BY <1>0 DEF Requests
  <2>2. r.active /\ r.chosen = {} /\ r.count = n /\ IsFiniteSet({}) /\ Cardinality({}) = 0
    BY FS_EmptySet
  <2>3. request' = [request EXCEPT ![t] = r] /\ UNCHANGED <<clock, returned>>
    BY <1>2 DEF Begin
  <2> HIDE DEF r
  <2>4. request' \in [Threads -> Requests] /\ request'[t] = r
        /\ \A u \in Threads \ {t} : request'[u] = request[u]
    BY <1>0, <2>1, <2>3
  <2>5. IsFiniteSet(r.chosen) /\ Cardinality(r.chosen) <= r.count /\ r.chosen \cap r.shortlist = {}
    BY <1>0, <2>2
  <2>6. QED
    BY <2>2, <2>3, <2>4, <2>5, Zenon DEF RequestInv
<1>3. ASSUME NEW t \in Threads, NEW id \in Items, ConsultDry(t, id) \/ Consult(t, id)
      PROVE  RequestInv'
  <2>1. PICK ok \in BOOLEAN : Take(t, id, ok)
    BY <1>3, Rounds
  <2>2. Selecting(t) /\ id \in request[t].shortlist /\ UNCHANGED <<clock, returned>>
    BY <1>3, Rounds
  <2>3. Taken(t, id, ok)
    BY <2>1, <2>2, TakeProperties, Zenon
  <2>4. request'[t].chosen \cap request'[t].shortlist = {}
    BY <2>3 DEF Taken, RequestInv
  <2>5. QED
    BY <2>2, <2>3, <2>4 DEF Taken, RequestInv
<1>4. ASSUME NEW t \in Threads, Finish(t) PROVE RequestInv'
  <2>1. NoRequest \in Requests
    BY <1>0 DEF NoRequest, Requests
  <2>2. /\ NoRequest.chosen = {} /\ NoRequest.count = 0
        /\ IsFiniteSet(NoRequest.chosen) /\ Cardinality(NoRequest.chosen) = 0
    BY FS_EmptySet DEF NoRequest
  <2>3. request' = [request EXCEPT ![t] = NoRequest] /\ UNCHANGED clock
    BY <1>4 DEF Finish
  <2>4. request' \in [Threads -> Requests] /\ request'[t] = NoRequest
        /\ \A u \in Threads \ {t} : request'[u] = request[u]
    BY <1>0, <2>1, <2>3
  <2>5. returned' \in [Items -> Nat]
    BY <1>0, <1>4 DEF Finish
  <2>6. /\ Cardinality(NoRequest.chosen) <= NoRequest.count
        /\ NoRequest.chosen \cap NoRequest.shortlist = {}
    BY <2>2
  <2>7. QED
    BY <2>2, <2>3, <2>4, <2>5, <2>6, Zenon DEF RequestInv
<1>5. CASE UNCHANGED gateVars
  BY <1>5 DEF gateVars, RequestInv
<1>6. QED
  BY <1>1, <1>2, <1>3, <1>4, <1>5 DEF GateNext

\* A daemon that starts has an empty store and no request.
LEMMA GateStarts == GateInit => Init /\ StoreInv /\ RequestInv /\ NothingDropped /\ ChargedIsReturned
<1> SUFFICES ASSUME GateInit PROVE StoreInv /\ RequestInv /\ NothingDropped /\ ChargedIsReturned
  BY DEF GateInit
<1>1. StoreInv /\ NothingDropped
  BY StoreInvInit DEF GateInit, Init, NothingDropped
<1>2. MaxTime \in Nat /\ MaxCount \in Nat
  BY GateAssumption
<1>3. NoRequest \in Requests
  BY <1>2 DEF NoRequest, Requests
<1>4. /\ NoRequest.chosen = {} /\ NoRequest.count = 0
      /\ IsFiniteSet(NoRequest.chosen) /\ Cardinality(NoRequest.chosen) = 0
  BY FS_EmptySet DEF NoRequest
<1>5. RequestInv
  BY <1>2, <1>3, <1>4 DEF GateInit, RequestInv
<1>6. ChargedIsReturned
  <2> SUFFICES ASSUME NEW id \in Items PROVE shown[id] = Slates(id)
    BY DEF ChargedIsReturned
  <2>1. {t \in Threads : Live(t) /\ id \in request[t].chosen} = {}
    BY <1>4 DEF GateInit
  <2>2. returned[id] = 0 /\ shown[id] = 0
    BY DEF GateInit, Init
  <2>3. Cardinality({t \in Threads : Live(t) /\ id \in request[t].chosen}) = 0
    BY <2>1, FS_EmptySet, Zenon
  <2>4. Slates(id) = 0 + 0
    BY <2>2, <2>3, Zenon DEF Slates
  <2>5. QED
    BY <2>2, <2>4
<1>7. QED
  BY <1>1, <1>5, <1>6

\* The gate keeps to the store's interface: seen through the store's variables, a
\* behaviour of concurrent on_recommend() calls is a behaviour of the store, so
\* each theorem about the store holds of the daemon.
THEOREM GateUsesStore == GateSpec => Spec
BY GateStarts, StoreStep, StoreInvStep, RequestStep, PTL DEF GateSpec, Spec

\* Type correctness, with the bound of a slate: select() puts at most request.count
\* items into it, for any number of threads and any ranking.
THEOREM GateTypeCorrect == GateSpec => []GateTypeOK
<1>1. StoreInv /\ RequestInv => GateTypeOK
  BY DEF StoreInv, RequestInv, Requests, GateTypeOK
<1>2. QED
  BY <1>1, GateStarts, StoreStep, StoreInvStep, RequestStep, PTL DEF GateSpec

-----------------------------------------------------------------------------
(* Charging *)

\* An item's slates and their number.
LEMMA SlatesCounted ==
    ASSUME RequestInv, NEW x \in Items
    PROVE  /\ IsFiniteSet(Holders(x)) /\ Cardinality(Holders(x)) \in Nat /\ returned[x] \in Nat
           /\ Slates(x) = returned[x] + Cardinality(Holders(x))
<1>1. Holders(x) \subseteq Threads
  BY DEF Holders
<1>2. IsFiniteSet(Holders(x)) /\ Cardinality(Holders(x)) \in Nat
  BY <1>1, GateAssumption, FS_Subset, FS_CardinalityType
<1>3. QED
  BY <1>2 DEF RequestInv, Slates, Holders

\* A step charges an item exactly when it adds it to a live slate, and returning
\* a slate only moves it from the requests to the history.
LEMMA ChargedStep ==
    StoreInv /\ RequestInv /\ ChargedIsReturned /\ [GateNext]_gateVars => ChargedIsReturned'
<1> SUFFICES ASSUME StoreInv, RequestInv, ChargedIsReturned, [GateNext]_gateVars, NEW x \in Items
             PROVE  shown'[x] = Slates(x)'
  BY DEF ChargedIsReturned
<1>0. /\ request \in [Threads -> Requests] /\ returned \in [Items -> Nat]
      /\ shown \in [Items -> Nat] /\ shown[x] = returned[x] + Cardinality(Holders(x))
      /\ IsFiniteSet(Holders(x)) /\ Cardinality(Holders(x)) \in Nat /\ returned[x] \in Nat
  BY SlatesCounted, Zenon DEF RequestInv, StoreInv, TypeOK, ChargedIsReturned
<1>00. Slates(x)' = returned'[x] + Cardinality(Holders(x)')
  BY DEF Slates, Holders, Live
<1>1. ASSUME Holders(x)' = Holders(x), shown'[x] = shown[x], returned'[x] = returned[x]
      PROVE  shown'[x] = Slates(x)'
  BY <1>0, <1>00, <1>1
<1>2. CASE Tick \/ UNCHANGED gateVars
  BY <1>1, <1>2 DEF Tick, gateVars, vars, history, Holders, Live
<1>3. ASSUME NEW t \in Threads, NEW n \in 1 .. MaxCount, NEW d \in BOOLEAN, NEW s \in SUBSET Items,
             Begin(t, n, d, s)
      PROVE  shown'[x] = Slates(x)'
  <2>1. /\ request'[t].chosen = {} /\ \A u \in Threads \ {t} : request'[u] = request[u]
        /\ UNCHANGED <<shown, returned>> /\ ~request[t].active
    BY <1>0, <1>3 DEF Begin, vars, history
  <2>2. \A u \in Threads : u \in Holders(x)' <=> u \in Holders(x)
    BY <2>1 DEF Holders, Live
  <2>3. Holders(x)' = Holders(x)
    BY <2>2 DEF Holders
  <2>4. QED
    BY <1>1, <2>1, <2>3
<1>4. ASSUME NEW t \in Threads, NEW id \in Items, ConsultDry(t, id) PROVE shown'[x] = Slates(x)'
  <2>1. PICK ok \in BOOLEAN : Take(t, id, ok)
    BY <1>4, Rounds
  <2>2. /\ Selecting(t) /\ id \in request[t].shortlist /\ UNCHANGED <<shown, returned>>
        /\ request[t].dry_run
    BY <1>4 DEF ConsultDry, vars, history
  <2>3. Taken(t, id, ok)
    BY <2>1, <2>2, TakeProperties, Zenon
  <2>4. \A u \in Threads : u \in Holders(x)' <=> u \in Holders(x)
    BY <2>2, <2>3, Zenon DEF Taken, Holders, Live
  <2>5. Holders(x)' = Holders(x)
    BY <2>4 DEF Holders
  <2>6. QED
    BY <1>1, <2>2, <2>5
<1>5. ASSUME NEW t \in Threads, NEW id \in Items, Consult(t, id) PROVE shown'[x] = Slates(x)'
  <2> DEFINE ok == metrics'.allowed > metrics.allowed
  <2>1. /\ Selecting(t) /\ id \in request[t].shortlist /\ UNCHANGED returned
        /\ ~request[t].dry_run /\ Reserve(id, request[t].now) /\ Take(t, id, ok)
        /\ request[t].now \in Times
    BY <1>5, GateAssumption DEF Consult, RequestInv, Requests
  <2>2. \/ ~ok /\ shown' = shown
        \/ ok /\ shown' = [shown EXCEPT ![id] = @ + 1]
    BY <2>1, ReserveAnswers
  <2>3. request[t].active /\ id \notin request[t].chosen
    BY <2>1, Zenon DEF Selecting, RequestInv
  <2> HIDE DEF ok
  <2>4. CASE ~ok \/ x # id
    <3>1. PICK b \in BOOLEAN : Take(t, id, b) /\ (b <=> ok)
      <4>1. CASE ok
        <5>1. Take(t, id, TRUE)
          BY <2>1, <4>1 DEF Take
        <5>2. QED
          BY <4>1, <5>1, Zenon
      <4>2. CASE ~ok
        <5>1. Take(t, id, FALSE)
          BY <2>1, <4>2 DEF Take
        <5>2. QED
          BY <4>2, <5>1, Zenon
      <4>3. QED
        BY <4>1, <4>2
    <3>2. Taken(t, id, b)
      BY <2>1, <3>1, TakeProperties, Zenon
    <3>3. \A u \in Threads : u \in Holders(x)' <=> u \in Holders(x)
      BY <2>1, <2>3, <2>4, <3>1, <3>2, Zenon DEF Taken, Holders, Live
    <3>4. Holders(x)' = Holders(x)
      BY <3>3 DEF Holders
    <3>5. shown'[x] = shown[x]
      BY <1>0, <2>2, <2>4
    <3>6. QED
      BY <1>1, <2>1, <3>4, <3>5
  <2>5. CASE ok /\ x = id
    <3>1. Take(t, id, TRUE)
      BY <2>1, <2>5 DEF Take
    <3>2. Taken(t, id, TRUE)
      BY <2>1, <3>1, TakeProperties, Zenon
    <3>3. \A u \in Threads : u \in Holders(x)' <=> u \in Holders(x) \/ u = t
      BY <2>1, <2>3, <2>5, <3>2, Zenon DEF Taken, Holders, Live
    <3>4. Holders(x)' = Holders(x) \cup {t} /\ t \notin Holders(x)
      BY <2>3, <2>5, <3>3, Zenon DEF Holders
    <3>5. Cardinality(Holders(x)') = Cardinality(Holders(x)) + 1
      BY <1>0, <3>4, FS_AddElement, Zenon
    <3>6. shown'[x] = shown[x] + 1 /\ returned'[x] = returned[x]
      BY <1>0, <2>1, <2>2, <2>5, Zenon
    <3>7. QED
      BY <1>0, <1>00, <3>5, <3>6
  <2>6. QED
    BY <2>4, <2>5
<1>6. ASSUME NEW t \in Threads, Finish(t) PROVE shown'[x] = Slates(x)'
  <2>1. /\ request'[t].chosen = {} /\ \A u \in Threads \ {t} : request'[u] = request[u]
        /\ UNCHANGED shown /\ request[t].active
        /\ returned' = IF request[t].dry_run THEN returned
                       ELSE [id \in Items |-> IF id \in request[t].chosen
                                              THEN returned[id] + 1 ELSE returned[id]]
    BY <1>0, <1>6, Zenon DEF Finish, NoRequest, vars, history
  <2>2. \A u \in Threads : u \in Holders(x)' <=> u \in Holders(x) /\ u # t
    BY <2>1, Zenon DEF Holders, Live
  <2>3. Holders(x)' = Holders(x) \ {t}
    BY <2>2 DEF Holders
  <2>4. CASE t \notin Holders(x)
    <3>1. Holders(x)' = Holders(x)
      BY <2>3, <2>4
    <3>2. returned'[x] = returned[x]
      BY <2>1, <2>4 DEF Holders, Live
    <3>3. QED
      BY <1>1, <2>1, <3>1, <3>2, Zenon
  <2>5. CASE t \in Holders(x)
    <3>1. Cardinality(Holders(x)') = Cardinality(Holders(x)) - 1
      <4>1. Cardinality(Holders(x) \ {t}) = Cardinality(Holders(x)) - 1
        BY <1>0, <2>5, FS_RemoveElement, Zenon
      <4>2. QED
        BY <2>3, <4>1, Zenon
    <3>2. returned'[x] = returned[x] + 1
      BY <2>1, <2>5, Zenon DEF Holders, Live
    <3>3. QED
      BY <1>0, <1>00, <2>1, <3>1, <3>2, SMTT(20)
  <2>6. QED
    BY <2>4, <2>5
<1>7. QED
  BY <1>2, <1>3, <1>4, <1>5, <1>6 DEF GateNext

\* The daemon calls neither forget() nor clear(), and evicts only under fail-open.
LEMMA DropStep ==
    StoreInv /\ RequestInv /\ NothingDropped /\ [GateNext]_gateVars => NothingDropped'
<1> SUFFICES ASSUME StoreInv, RequestInv, NothingDropped, [GateNext]_gateVars, ~FailOpen
             PROVE  dropped' = dropped
  BY DEF NothingDropped
<1>1. CASE Tick \/ UNCHANGED gateVars
  BY <1>1 DEF Tick, gateVars, vars, history
<1>2. ASSUME NEW t \in Threads, NEW id \in Items, Consult(t, id) PROVE dropped' = dropped
  <2>1. request[t].now \in Times
    BY GateAssumption DEF RequestInv, Requests
  <2>2. QED
    BY <1>2, <2>1, ReserveAnswers, Zenon DEF Consult
<1>3. ASSUME NEW t \in Threads, NEW id \in Items, ConsultDry(t, id) PROVE dropped' = dropped
  BY <1>3 DEF ConsultDry, vars, history
<1>4. ASSUME NEW t \in Threads, Finish(t) PROVE dropped' = dropped
  BY <1>4, Zenon DEF Finish, vars, history
<1>5. ASSUME NEW t \in Threads, NEW n, NEW d, NEW s, Begin(t, n, d, s) PROVE dropped' = dropped
  BY <1>5, Zenon DEF Begin, vars, history
<1>6. QED
  BY <1>1, <1>2, <1>3, <1>4, <1>5 DEF GateNext

\* Charging is exact: however requests interleave, whichever candidates are passed
\* over and however many of the requests are dry runs, reserve() has recorded
\* exactly the shows that live slates hold.
THEOREM ChargedAlwaysReturned == GateSpec => []ChargedIsReturned
BY GateStarts, StoreStep, StoreInvStep, RequestStep, ChargedStep, PTL DEF GateSpec

\* The cap as clients see it: under fail-closed no item is ever in more than
\* ExposureCap live slates, for any number of threads, items and shards.
THEOREM CapNeverExceeded == GateSpec => []NeverOverCap
<1>1. /\ StoreInv /\ RequestInv /\ ChargedIsReturned /\ NothingDropped /\ CapRespected
      => NeverOverCap
  <2> SUFFICES ASSUME StoreInv, ChargedIsReturned, NothingDropped, CapRespected,
                      ~FailOpen, ExposureCap > 0, NEW id \in Items
               PROVE  Slates(id) <= ExposureCap
    BY DEF NeverOverCap
  <2>1. shown[id] = Slates(id) /\ dropped[id] = 0 /\ shown[id] <= ExposureCap * (1 + dropped[id])
    BY Zenon DEF ChargedIsReturned, NothingDropped, CapRespected
  <2>2. shown[id] <= ExposureCap * 1
    BY <2>1
  <2>3. QED
    BY <2>1, <2>2, ConfigAssumption, SMTT(20)
<1>2. QED
  BY <1>1, GateStarts, StoreStep, StoreInvStep, RequestStep, ChargedStep, DropStep, GateUsesStore,
     CapAlwaysRespected, PTL DEF GateSpec
=============================================================================
