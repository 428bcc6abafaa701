-------------------------- MODULE ThreadPoolProofs --------------------------
(* Theorems about ThreadPool, for any workers, posters, stoppers and tasks. *)
EXTENDS ThreadPool, SequenceTheorems, FiniteSetTheorems, TLAPS

-----------------------------------------------------------------------------
(* Types *)

\* A counter of the pool is a record field, and stays one when it is bumped.
LEMMA Bumped ==
    ASSUME NEW m \in PoolMetrics, NEW c \in {"posted", "completed", "rejected", "exceptions"}
    PROVE  [m EXCEPT ![c] = @ + 1] \in PoolMetrics
<1>1. CASE c = "posted"
  BY <1>1 DEF PoolMetrics
<1>2. CASE c = "completed"
  BY <1>2 DEF PoolMetrics
<1>3. CASE c = "rejected"
  BY <1>3 DEF PoolMetrics
<1>4. CASE c = "exceptions"
  BY <1>4 DEF PoolMetrics
<1>5. QED
  BY <1>1, <1>2, <1>3, <1>4

\* Every step of the pool keeps the types, and a worker holds a task exactly
\* while it runs one.
LEMMA TypeStep == PoolTypeOK /\ [Next]_vars => PoolTypeOK'
<1> SUFFICES ASSUME PoolTypeOK, [Next]_vars PROVE PoolTypeOK'
  OBVIOUS
<1> USE DEF PoolTypeOK, history
<1>1. ASSUME NEW w \in Workers, Spawn(w) PROVE PoolTypeOK'
  BY <1>1 DEF Spawn
<1>2. ASSUME NEW w \in Workers, SpuriousWake(w) PROVE PoolTypeOK'
  BY <1>2 DEF SpuriousWake
<1>3. ASSUME NEW w \in Workers, Wait(w) PROVE PoolTypeOK'
  BY <1>3 DEF Wait
<1>4. ASSUME NEW w \in Workers, Take(w) PROVE PoolTypeOK'
  BY <1>4 DEF Take
<1>5. ASSUME NEW w \in Workers, Exit(w) PROVE PoolTypeOK'
  BY <1>5 DEF Exit
<1>6. ASSUME NEW w \in Workers, NEW c \in {"completed", "exceptions"}, Finish(w, c) PROVE PoolTypeOK'
  <2>1. metrics' \in PoolMetrics
    BY <1>6, Bumped, Zenon DEF Finish
  <2>2. QED
    BY <1>6, <2>1 DEF Finish
<1>7. CASE SpawnFails \/ SpawnFailedNotify \/ Unwound
  <2>1. CASE SpawnFails
    BY <2>1 DEF SpawnFails
  <2>2. CASE SpawnFailedNotify
    BY <2>2 DEF SpawnFailedNotify, WakeAll, Waiting
  <2>3. CASE Unwound
    BY <2>3 DEF Unwound
  <2>4. QED
    BY <1>7, <2>1, <2>2, <2>3
<1>8. ASSUME NEW p \in Posters, NotifyOne(p) PROVE PoolTypeOK'
  BY <1>8, Zenon DEF NotifyOne, Waiting
<1>9. ASSUME NEW p \in Posters, NEW k \in Tasks, Reject(p, k) \/ Accept(p, k) PROVE PoolTypeOK'
  <2>1. metrics' \in PoolMetrics
    BY <1>9, Bumped, Zenon DEF Reject, Accept
  <2>2. CASE Reject(p, k)
    BY <2>1, <2>2 DEF Reject
  <2>3. CASE Accept(p, k)
    BY <2>1, <2>3 DEF Accept
  <2>4. QED
    BY <1>9, <2>2, <2>3
<1>10. ASSUME NEW s \in Stoppers, Shutdown(s) \/ ShutdownAgain(s) PROVE PoolTypeOK'
  <2>1. CASE ShutdownNotify(s)
    BY <2>1 DEF ShutdownNotify, WakeAll, Waiting
  <2>2. CASE ShutdownJoin(s)
    BY <2>2 DEF ShutdownJoin
  <2>3. CASE ShutdownAgain(s)
    BY <2>3 DEF ShutdownAgain
  <2>4. QED
    BY <1>10, <2>1, <2>2, <2>3 DEF Shutdown
<1>11. ASSUME NEW s \in Stoppers, NEW pol \in {"Drain", "Discard"}, ShutdownFirst(s, pol)
       PROVE  PoolTypeOK'
  <2>1. CASE pol = "Discard"
    BY <1>11, <2>1 DEF ShutdownFirst
  <2>2. CASE pol # "Discard"
    BY <1>11, <2>2 DEF ShutdownFirst
  <2>3. QED
    BY <2>1, <2>2
<1>12. CASE UNCHANGED vars
  BY <1>12 DEF vars
<1>13. QED
  BY <1>1, <1>2, <1>3, <1>4, <1>5, <1>6, <1>7, <1>8, <1>9, <1>10, <1>11, <1>12
     DEF Next, Worker, Gone

\* The pool's members and its threads' positions keep their types.
THEOREM PoolTypeCorrect == Spec => []PoolTypeOK
<1>1. Init => PoolTypeOK
  <2> SUFFICES ASSUME Init PROVE PoolTypeOK
    OBVIOUS
  <2>1. metrics \in PoolMetrics
    BY DEF Init, PoolMetrics
  <2>2. /\ <<>> \in Seq(Tasks)
        /\ \A w \in Workers : worker[w] = "running" <=> running[w] # {}
    BY DEF Init
  <2>3. /\ ctor \in {"spawning", "open", "failing", "unwinding", "failed"}
        /\ worker \in [Workers -> {"unborn", "loop", "waiting", "running", "exited"}]
        /\ running \in [Workers -> SUBSET Tasks]
        /\ poster \in [Posters -> {"idle", "notify"}]
        /\ stopper \in [Stoppers -> {"idle", "notify", "joining", "returned"}]
        /\ policy \in [Stoppers -> {"Drain", "Discard"}]
    BY DEF Init
  <2>4. QED
    BY <2>1, <2>2, <2>3, Zenon DEF Init, PoolTypeOK
<1>2. QED
  BY <1>1, TypeStep, PTL DEF Spec

-----------------------------------------------------------------------------
(* The order of tasks *)

Distinct(q) == \A i, j \in 1 .. Len(q) : q[i] = q[j] => i = j

\* FifoOnce is not inductive by itself: that what was accepted is distinct makes
\* "each once" mean something, and a task can be accepted behind the queue only
\* because nothing has been cleared before the stop.
FifoInv ==
    /\ FifoOnce
    /\ Distinct(accepted)
    /\ ~stopping => dropped = <<>>

\* Only three steps move tasks: an accepting post(), a worker's take and a
\* shutdown that discards.
LEMMA StepOnQueue ==
    ASSUME [Next]_vars
    PROVE  \/ UNCHANGED <<queue, accepted, started, dropped>> /\ (stopping => stopping')
           \/ \E p \in Posters, k \in Tasks : Accept(p, k)
           \/ \E w \in Workers : Take(w)
           \/ \E s \in Stoppers : ShutdownFirst(s, "Discard")
<1> USE DEF history
<1> DEFINE Still == UNCHANGED <<queue, accepted, started, dropped>> /\ (stopping => stopping')
<1>1. ASSUME NEW w \in Workers, Spawn(w) \/ SpuriousWake(w) \/ Wait(w) \/ Exit(w) PROVE Still
  BY <1>1 DEF Spawn, SpuriousWake, Wait, Exit
<1>2. ASSUME NEW w \in Workers, NEW c \in {"completed", "exceptions"}, Finish(w, c) PROVE Still
  BY <1>2 DEF Finish
<1>3. CASE SpawnFails \/ SpawnFailedNotify \/ Unwound
  BY <1>3 DEF SpawnFails, SpawnFailedNotify, Unwound
<1>4. ASSUME NEW p \in Posters, NotifyOne(p) PROVE Still
  BY <1>4 DEF NotifyOne
<1>5. ASSUME NEW p \in Posters, NEW k \in Tasks, Reject(p, k) PROVE Still
  BY <1>5 DEF Reject
<1>6. ASSUME NEW s \in Stoppers, Shutdown(s) \/ ShutdownAgain(s) \/ ShutdownFirst(s, "Drain")
      PROVE  Still
  BY <1>6 DEF Shutdown, ShutdownNotify, ShutdownJoin, ShutdownAgain, ShutdownFirst
<1>7. CASE UNCHANGED vars
  BY <1>7 DEF vars
<1> HIDE DEF Still
<1>8. QED
  BY <1>1, <1>2, <1>3, <1>4, <1>5, <1>6, <1>7 DEF Next, Worker, Gone, Still

\* Accepting a task that nobody has posted keeps the accepted tasks distinct.
LEMMA AppendDistinct ==
    ASSUME NEW q \in Seq(Tasks), Distinct(q), NEW k \in Tasks, k \notin InSeq(q)
    PROVE  Distinct(Append(q, k))
<1>1. /\ Len(Append(q, k)) = Len(q) + 1
      /\ \A i \in 1 .. Len(q) : Append(q, k)[i] = q[i] /\ q[i] # k
      /\ Append(q, k)[Len(q) + 1] = k
  BY DEF InSeq
<1>2. QED
  BY <1>1 DEF Distinct

\* Three lists put one behind the other.
LEMMA Regroup ==
    ASSUME NEW s \in Seq(Tasks), NEW q \in Seq(Tasks), NEW r \in Seq(Tasks)
    PROVE  (s \o q) \o r = s \o (q \o r)
  BY SMTT(30)

\* A task posted behind the queue is posted behind all that came before it.
LEMMA AppendMoves ==
    ASSUME NEW s \in Seq(Tasks), NEW q \in Seq(Tasks), NEW k \in Tasks
    PROVE  Append(s \o q, k) = s \o Append(q, k)
<1> DEFINE u == <<k>>
<1>1. u \in Seq(Tasks) /\ s \o q \in Seq(Tasks)
  BY ConcatProperties
<1>2. Append(q, k) = q \o u /\ Append(s \o q, k) = (s \o q) \o u
  BY <1>1, AppendIsConcat, Zenon
<1> HIDE DEF u
<1>3. (s \o q) \o u = s \o (q \o u)
  BY <1>1, Regroup
<1>4. QED
  BY <1>2, <1>3, Zenon

\* Moving the head of the queue behind what was started keeps the order.
LEMMA HeadMoves ==
    ASSUME NEW s \in Seq(Tasks), NEW q \in Seq(Tasks), q # <<>>
    PROVE  Append(s, Head(q)) \o Tail(q) = s \o q
<1> DEFINE h == Head(q)
           r == Tail(q)
           u == <<h>>
<1>1. h \in Tasks /\ r \in Seq(Tasks)
  BY HeadTailProperties, Zenon
<1>2. u \o r = q
  <2>1. Len(q) \in Nat /\ Len(q) >= 1 /\ h = q[1]
    BY EmptySeq
  <2>2. 1 \in 1 .. Len(q) /\ Len(q) \in 1 .. Len(q) /\ 1 + 1 = 2
    BY <2>1
  <2>3. SubSeq(q, 1, Len(q)) = <<q[1]>> \o SubSeq(q, 1 + 1, Len(q))
    BY <2>2, SubSeqRecursiveFirst, Zenon
  <2>4. SubSeq(q, 1, Len(q)) = q /\ r = SubSeq(q, 2, Len(q))
    BY SubSeqFull, TailIsSubSeq, Zenon
  <2>5. QED
    BY <2>1, <2>2, <2>3, <2>4, Zenon
<1>3. u \in Seq(Tasks)
  BY <1>1
<1>4. Append(s, h) = s \o u
  BY <1>1, AppendIsConcat, Zenon
<1> HIDE DEF u, h, r
<1>5. (s \o u) \o r = s \o (u \o r)
  BY <1>1, <1>3, Regroup
<1>6. QED
  BY <1>2, <1>4, <1>5, Zenon DEF h, r

\* Each step keeps the order.
LEMMA FifoStep == PoolTypeOK /\ FifoInv /\ [Next]_vars => FifoInv'
<1> SUFFICES ASSUME PoolTypeOK, FifoInv, [Next]_vars PROVE FifoInv'
  OBVIOUS
<1>0. /\ queue \in Seq(Tasks) /\ accepted \in Seq(Tasks)
      /\ started \in Seq(Tasks) /\ dropped \in Seq(Tasks)
      /\ accepted = started \o queue \o dropped
      /\ Len(queue) <= MaxQueued /\ MaxQueued \in Nat
  BY PoolAssumption DEF PoolTypeOK, FifoInv, FifoOnce
<1>1. CASE UNCHANGED <<queue, accepted, started, dropped>> /\ (stopping => stopping')
  BY <1>1 DEF FifoInv, FifoOnce, Distinct
<1>2. ASSUME NEW p \in Posters, NEW k \in Tasks, Accept(p, k) PROVE FifoInv'
  <2>1. /\ queue' = Append(queue, k) /\ accepted' = Append(accepted, k)
        /\ started' = started /\ dropped' = dropped /\ dropped = <<>> /\ ~stopping'
        /\ k \notin InSeq(accepted) /\ Len(queue) < MaxQueued
    BY <1>0, <1>2 DEF Accept, FifoInv, Fresh, QueueFull
  <2>2. Append(started \o queue, k) = started \o Append(queue, k)
    BY <1>0, AppendMoves, Zenon
  <2>3. accepted = started \o queue
    <3>1. started \o queue \in Seq(Tasks)
      BY <1>0, ConcatProperties, Zenon
    <3>2. (started \o queue) \o <<>> = started \o queue
      BY <3>1, ConcatEmptySeq, Zenon
    <3>3. QED
      BY <1>0, <2>1, <3>2, Zenon
  <2>7. accepted' = started' \o queue' \o dropped'
    <3>1. started \o Append(queue, k) \in Seq(Tasks)
      BY <1>0
    <3>2. QED
      BY <2>1, <2>2, <2>3, <3>1, ConcatEmptySeq, Zenon
  <2>4. Distinct(accepted')
    BY <1>0, <2>1, AppendDistinct, Zenon DEF FifoInv
  <2>5. Len(queue') <= MaxQueued
    BY <1>0, <2>1
  <2>6. QED
    BY <2>1, <2>7, <2>4, <2>5, Zenon DEF FifoInv, FifoOnce, Distinct
<1>3. ASSUME NEW w \in Workers, Take(w) PROVE FifoInv'
  <2>1. /\ queue # <<>> /\ queue' = Tail(queue) /\ started' = Append(started, Head(queue))
        /\ UNCHANGED <<accepted, dropped, stopping>>
    BY <1>3 DEF Take
  <2>2. Append(started, Head(queue)) \o Tail(queue) = started \o queue
    BY <1>0, <2>1, HeadMoves, Zenon
  <2>3. Len(queue') <= MaxQueued
    BY <1>0, <2>1
  <2>4. QED
    BY <1>0, <2>1, <2>2, <2>3, Zenon DEF FifoInv, FifoOnce, Distinct
<1>4. ASSUME NEW s \in Stoppers, ShutdownFirst(s, "Discard") PROVE FifoInv'
  <2>1. /\ queue' = <<>> /\ dropped' = queue /\ stopping' /\ dropped = <<>>
        /\ UNCHANGED <<accepted, started>>
    BY <1>4 DEF ShutdownFirst, FifoInv
  <2>2. started \o queue \o <<>> = started \o <<>> \o queue
    <3>1. started \o queue \in Seq(Tasks)
      BY <1>0
    <3>2. QED
      BY <1>0, <3>1, ConcatEmptySeq, Zenon
  <2>3. Len(queue') <= MaxQueued
    BY <1>0, <2>1
  <2>4. QED
    BY <1>0, <2>1, <2>2, <2>3 DEF FifoInv, FifoOnce, Distinct
<1>5. QED
  BY <1>1, <1>2, <1>3, <1>4, StepOnQueue

\* Nothing has been posted at first.
LEMMA FifoInit == Init => FifoInv
<1> SUFFICES ASSUME Init PROVE FifoInv
  OBVIOUS
<1>1. <<>> = <<>> \o <<>> \o <<>> /\ Len(<<>>) = 0
  OBVIOUS
<1>2. QED
  BY <1>1, PoolAssumption DEF Init, FifoInv, FifoOnce, Distinct

\* Tasks leave the queue in the order they were accepted, each once, and the queue
\* keeps to its bound, for any number of threads and any bound.
THEOREM FifoAlways == Spec => []FifoOnce
<1>1. FifoInv => FifoOnce
  BY DEF FifoInv
<1>2. QED
  BY <1>1, PoolTypeCorrect, FifoInit, FifoStep, PTL DEF Spec

-----------------------------------------------------------------------------
(* Who runs what *)

\* The task a worker takes is one nobody has started.
LEMMA HeadIsNew ==
    ASSUME PoolTypeOK, FifoInv, queue # <<>>
    PROVE  Head(queue) \in Tasks /\ Head(queue) \notin InSeq(started)
<1> DEFINE m == Len(started)
           q == queue \o dropped
<1>1. /\ queue \in Seq(Tasks) /\ started \in Seq(Tasks) /\ dropped \in Seq(Tasks)
      /\ accepted = started \o queue \o dropped /\ Distinct(accepted)
  BY DEF PoolTypeOK, FifoInv, FifoOnce
<1>2. accepted = started \o q /\ q \in Seq(Tasks)
  <2>1. q \in Seq(Tasks)
    BY <1>1, ConcatProperties
  <2>2. (started \o queue) \o dropped = started \o (queue \o dropped)
    BY <1>1, Regroup, Zenon
  <2>3. QED
    BY <1>1, <2>1, <2>2, Zenon
<1>3. Len(queue) \in Nat \ {0} /\ Head(queue) = queue[1] /\ Head(queue) \in Tasks
  BY <1>1
<1>4. q[1] = queue[1] /\ Len(q) >= 1 /\ m \in Nat
  <2>1. m \in Nat /\ Len(dropped) \in Nat
    BY <1>1, LenProperties
  <2>2. /\ Len(q) = Len(queue) + Len(dropped)
        /\ \A i \in 1 .. Len(queue) + Len(dropped) :
              q[i] = IF i <= Len(queue) THEN queue[i] ELSE dropped[i - Len(queue)]
    BY <1>1, ConcatProperties
  <2> HIDE DEF m, q
  <2>3. QED
    BY <1>3, <2>1, <2>2
<1> HIDE DEF q
<1>5. /\ Len(accepted) = m + Len(q) /\ Len(q) \in Nat
      /\ \A i \in 1 .. m : accepted[i] = started[i]
      /\ accepted[m + 1] = q[1]
  <2>1. Len(q) \in Nat
    BY <1>2, LenProperties
  <2>2. /\ Len(accepted) = m + Len(q)
        /\ \A i \in 1 .. m + Len(q) : accepted[i] = IF i <= m THEN started[i] ELSE q[i - m]
    BY <1>1, <1>2, ConcatProperties
  <2> HIDE DEF m
  <2>3. QED
    BY <1>4, <2>1, <2>2
<1>6. ASSUME NEW i \in 1 .. m PROVE started[i] # Head(queue)
  <2>1. i \in 1 .. Len(accepted) /\ m + 1 \in 1 .. Len(accepted) /\ i # m + 1
    BY <1>4, <1>5
  <2>2. accepted[i] # accepted[m + 1]
    BY <1>1, <2>1 DEF Distinct
  <2>3. QED
    BY <1>3, <1>4, <1>5, <2>2
<1>7. QED
  BY <1>3, <1>6 DEF InSeq

\* A task is held by some worker.
LEMMA InUnion ==
    ASSUME NEW f, NEW x
    PROVE  x \in UNION {f[v] : v \in Workers} <=> \E v \in Workers : x \in f[v]
  OBVIOUS

\* A started task is on one worker or over, after every step.
LEMMA RunStep == PoolTypeOK /\ FifoInv /\ RunOnce /\ [Next]_vars => RunOnce'
<1> SUFFICES ASSUME PoolTypeOK, FifoInv, RunOnce, [Next]_vars PROVE RunOnce'
  OBVIOUS
<1> USE DEF history
<1>0. running \in [Workers -> SUBSET Tasks] /\ started \in Seq(Tasks)
  BY DEF PoolTypeOK
<1>1. ASSUME NEW w \in Workers, Take(w) PROVE RunOnce'
  <2> DEFINE k == Head(queue)
  <2>1. /\ queue # <<>> /\ worker[w] # "running"
        /\ running' = [running EXCEPT ![w] = {k}] /\ started' = Append(started, k)
        /\ finished' = finished
    BY <1>1 DEF Take
  <2>2. k \in Tasks /\ k \notin InSeq(started)
    BY <2>1, HeadIsNew
  <2>3. running[w] = {}
    BY <2>1 DEF PoolTypeOK
  <2> HIDE DEF k
  <2>4. InSeq(started') = InSeq(started) \cup {k}
    BY <1>0, <2>1, <2>2 DEF InSeq
  <2>5. \A v \in Workers : running'[v] = IF v = w THEN {k} ELSE running[v]
    BY <1>0, <2>1
  <2>6. k \notin finished /\ \A v \in Workers : k \notin running[v]
    BY <2>2 DEF RunOnce
  <2>7. UNION {running'[v] : v \in Workers} = (UNION {running[v] : v \in Workers}) \cup {k}
    <3>1. \A x : (\E v \in Workers : x \in running'[v])
                 <=> (\E v \in Workers : x \in running[v]) \/ x = k
      BY <2>3, <2>5
    <3>2. QED
      BY <3>1, InUnion
  <2>8. QED
    BY <2>1, <2>4, <2>5, <2>6, <2>7 DEF RunOnce
<1>2. ASSUME NEW w \in Workers, NEW c \in {"completed", "exceptions"}, Finish(w, c) PROVE RunOnce'
  <2>1. /\ \A v \in Workers : running'[v] = IF v = w THEN {} ELSE running[v]
        /\ finished' = finished \cup running[w] /\ started' = started
    BY <1>0, <1>2 DEF Finish
  <2>2. UNION {running[v] : v \in Workers} = (UNION {running'[v] : v \in Workers}) \cup running[w]
    <3>1. \A x : (\E v \in Workers : x \in running[v])
                 <=> (\E v \in Workers : x \in running'[v]) \/ x \in running[w]
      BY <2>1
    <3>2. QED
      BY <3>1, InUnion
  <2>3. running[w] \cap UNION {running'[v] : v \in Workers} = {}
    BY <2>1 DEF RunOnce
  <2>4. QED
    BY <2>1, <2>2, <2>3 DEF RunOnce
<1>3. CASE UNCHANGED <<running, started, finished>>
  BY <1>3 DEF RunOnce, InSeq
<1>4. ASSUME NEW w \in Workers, Spawn(w) \/ SpuriousWake(w) \/ Wait(w) \/ Exit(w)
      PROVE  UNCHANGED <<running, started, finished>>
  BY <1>4 DEF Spawn, SpuriousWake, Wait, Exit
<1>5. CASE SpawnFails \/ SpawnFailedNotify \/ Unwound \/ UNCHANGED vars
  BY <1>3, <1>5 DEF SpawnFails, SpawnFailedNotify, Unwound, vars
<1>6. ASSUME NEW p \in Posters, NEW k \in Tasks, NotifyOne(p) \/ Reject(p, k) \/ Accept(p, k)
      PROVE  UNCHANGED <<running, started, finished>>
  BY <1>6 DEF NotifyOne, Reject, Accept
<1>7. ASSUME NEW p \in Posters, NotifyOne(p) PROVE UNCHANGED <<running, started, finished>>
  BY <1>7 DEF NotifyOne
<1>8. ASSUME NEW s \in Stoppers, NEW pol \in {"Drain", "Discard"},
             Shutdown(s) \/ ShutdownAgain(s) \/ ShutdownFirst(s, pol)
      PROVE  UNCHANGED <<running, started, finished>>
  BY <1>8 DEF Shutdown, ShutdownNotify, ShutdownJoin, ShutdownAgain, ShutdownFirst
<1>9. QED
  BY <1>1, <1>2, <1>3, <1>4, <1>5, <1>6, <1>7, <1>8 DEF Next, Worker, Gone

\* No task is run by two workers, lost, or run again once it is over.
THEOREM RunOnceAlways == Spec => []RunOnce
<1>1. Init => RunOnce
  BY DEF Init, RunOnce, InSeq
<1>2. QED
  BY <1>1, PoolTypeCorrect, FifoInit, FifoStep, RunStep, PTL DEF Spec

-----------------------------------------------------------------------------
(* Wakeups *)

\* There are finitely many threads, so they can be counted.
LEMMA Counts ==
    /\ IsFiniteSet(Ready) /\ Cardinality(Ready) \in Nat
    /\ IsFiniteSet(Notifying) /\ Cardinality(Notifying) \in Nat
<1>1. Ready \subseteq Workers /\ Notifying \subseteq Posters
  BY DEF Ready, Notifying
<1>2. IsFiniteSet(Ready) /\ IsFiniteSet(Notifying)
  BY <1>1, PoolAssumption, FS_Subset
<1>3. QED
  BY <1>2, FS_CardinalityType

\* One thread more.
LEMMA OneMore ==
    ASSUME NEW S, IsFiniteSet(S), NEW x, x \notin S
    PROVE  Cardinality(S \cup {x}) = Cardinality(S) + 1
  BY FS_AddElement

\* One thread less.
LEMMA OneLess ==
    ASSUME NEW S, IsFiniteSet(S), NEW x \in S
    PROVE  Cardinality(S \ {x}) = Cardinality(S) - 1
  BY FS_RemoveElement

\* What the workers' steps do to the number of awake workers.
LEMMA StepOfWorker ==
    ASSUME PoolTypeOK, NEW w \in Workers,
           Spawn(w) \/ SpuriousWake(w) \/ (\E c \in {"completed", "exceptions"} : Finish(w, c))
    PROVE  /\ Cardinality(Ready') = Cardinality(Ready) + 1
           /\ Waiting' \subseteq Waiting
           /\ UNCHANGED <<queue, poster, stopping, stopper>> /\ (ctor = "failing" => ctor' = "failing")
<1>1. /\ worker[w] # "loop" /\ worker' = [worker EXCEPT ![w] = "loop"]
      /\ UNCHANGED <<queue, poster, stopping, stopper>> /\ (ctor = "failing" => ctor' = "failing")
  BY DEF Spawn, SpuriousWake, Finish, history
<1>2. Ready' = Ready \cup {w} /\ w \notin Ready /\ Waiting' \subseteq Waiting
  BY <1>1 DEF Ready, Waiting, PoolTypeOK
<1>3. QED
  BY <1>1, <1>2, OneMore, Counts

\* No step loses a wakeup.
LEMMA WakeStep == PoolTypeOK /\ NoLostWakeup /\ [Next]_vars => NoLostWakeup'
<1> SUFFICES ASSUME PoolTypeOK, NoLostWakeup, [Next]_vars, Waiting' # {}
             PROVE  /\ Len(queue') <= Cardinality(Ready') + Cardinality(Notifying')
                    /\ stopping' => ctor' = "failing" \/ \E s \in Stoppers : stopper'[s] = "notify"
  BY DEF NoLostWakeup
<1> DEFINE Goal == /\ Len(queue') <= Cardinality(Ready') + Cardinality(Notifying')
                   /\ stopping' => ctor' = "failing" \/ \E s \in Stoppers : stopper'[s] = "notify"
<1> USE DEF history
<1>0. /\ queue \in Seq(Tasks) /\ Len(queue) \in Nat
      /\ worker \in [Workers -> {"unborn", "loop", "waiting", "running", "exited"}]
      /\ poster \in [Posters -> {"idle", "notify"}]
      /\ stopper \in [Stoppers -> {"idle", "notify", "joining", "returned"}]
      /\ Cardinality(Ready) \in Nat /\ Cardinality(Notifying) \in Nat
  BY Counts DEF PoolTypeOK
<1>1. ASSUME NEW w \in Workers,
             Spawn(w) \/ SpuriousWake(w) \/ (\E c \in {"completed", "exceptions"} : Finish(w, c))
      PROVE  Goal
  <2>1. /\ Cardinality(Ready') = Cardinality(Ready) + 1 /\ Waiting # {}
        /\ UNCHANGED <<queue, poster, stopping, stopper>> /\ (ctor = "failing" => ctor' = "failing")
    BY <1>1, StepOfWorker
  <2>2. Notifying' = Notifying
    BY <2>1 DEF Notifying
  <2>3. QED
    BY <1>0, <2>1, <2>2 DEF NoLostWakeup
<1>2. ASSUME NEW w \in Workers, Wait(w) PROVE Goal
  <2>1. Len(queue') = 0 /\ ~stopping'
    BY <1>2 DEF Wait
  <2>2. Cardinality(Ready') \in Nat /\ Notifying' = Notifying
    <3>1. Ready' \subseteq Workers
      BY DEF Ready
    <3>2. QED
      BY <1>2, <3>1, PoolAssumption, FS_Subset, FS_CardinalityType DEF Wait, Notifying
  <2>3. QED
    BY <1>0, <2>1, <2>2
<1>3. ASSUME NEW w \in Workers, Take(w) PROVE Goal
  <2>1. /\ Ready' = Ready \ {w} /\ w \in Ready /\ Waiting' = Waiting /\ Notifying' = Notifying
        /\ UNCHANGED <<ctor, stopping, stopper>>
    BY <1>0, <1>3 DEF Take, Ready, Waiting, Notifying
  <2>2. Len(queue') = Len(queue) - 1
    BY <1>0, <1>3 DEF Take
  <2>3. Cardinality(Ready') = Cardinality(Ready) - 1
    BY <2>1, Counts, OneLess
  <2>4. QED
    BY <1>0, <2>1, <2>2, <2>3 DEF NoLostWakeup
<1>4. ASSUME NEW w \in Workers, Exit(w) PROVE Goal
  <2>1. /\ Len(queue') = 0 /\ Waiting' = Waiting /\ Notifying' = Notifying
        /\ UNCHANGED <<ctor, stopping, stopper>>
    BY <1>0, <1>4 DEF Exit, Waiting, Notifying
  <2>2. Cardinality(Ready') \in Nat
    <3>1. Ready' \subseteq Workers
      BY DEF Ready
    <3>2. QED
      BY <3>1, PoolAssumption, FS_Subset, FS_CardinalityType
  <2>3. QED
    BY <1>0, <2>1, <2>2 DEF NoLostWakeup
<1>5. ASSUME NEW p \in Posters, NotifyOne(p) PROVE Goal
  <2>1. Waiting # {}
    BY <1>5 DEF NotifyOne, Waiting
  <2>2. PICK v \in Waiting : worker' = [worker EXCEPT ![v] = "loop"]
    BY <1>5, <2>1 DEF NotifyOne
  <2>3. /\ Ready' = Ready \cup {v} /\ v \notin Ready
        /\ Notifying' = Notifying \ {p} /\ p \in Notifying
        /\ UNCHANGED <<ctor, stopping, stopper, queue>>
    BY <1>0, <1>5, <2>2 DEF NotifyOne, Ready, Waiting, Notifying
  <2>4. /\ Cardinality(Ready') = Cardinality(Ready) + 1
        /\ Cardinality(Notifying') = Cardinality(Notifying) - 1
    BY <2>3, Counts, OneMore, OneLess
  <2>5. QED
    BY <1>0, <2>1, <2>3, <2>4 DEF NoLostWakeup
<1>6. ASSUME NEW p \in Posters, NEW k \in Tasks, Accept(p, k) PROVE Goal
  <2>1. /\ Notifying' = Notifying \cup {p} /\ p \notin Notifying
        /\ Ready' = Ready /\ Waiting' = Waiting /\ ~stopping'
    BY <1>0, <1>6 DEF Accept, Ready, Waiting, Notifying
  <2>2. Len(queue') = Len(queue) + 1
    BY <1>0, <1>6 DEF Accept
  <2>3. Cardinality(Notifying') = Cardinality(Notifying) + 1
    BY <2>1, Counts, OneMore
  <2>4. QED
    BY <1>0, <2>1, <2>2, <2>3 DEF NoLostWakeup
<1>7. ASSUME UNCHANGED <<worker, poster, queue>>,
             stopping' => ((stopping /\ UNCHANGED ctor) \/ ctor' = "failing"),
             \A s \in Stoppers : stopper[s] = "notify" => stopper'[s] = "notify"
      PROVE  Goal
  <2>1. Ready' = Ready /\ Waiting' = Waiting /\ Notifying' = Notifying
    BY <1>7 DEF Ready, Waiting, Notifying
  <2>2. QED
    BY <1>7, <2>1 DEF NoLostWakeup
<1>8. ASSUME NEW p \in Posters, NEW k \in Tasks, Reject(p, k) PROVE Goal
  BY <1>7, <1>8 DEF Reject
<1>9. ASSUME SpawnFails \/ UNCHANGED vars PROVE Goal
  BY <1>7, <1>9 DEF SpawnFails, vars
<1>10. ASSUME Unwound PROVE Goal
  <2>1. Ready' = Ready /\ Waiting' = Waiting /\ Notifying' = Notifying
    BY <1>10 DEF Unwound, Ready, Waiting, Notifying
  <2>2. QED
    BY <1>10, <2>1 DEF NoLostWakeup, Unwound
<1>11. ASSUME WakeAll PROVE Goal
  <2>1. Waiting' = {}
    BY <1>11 DEF WakeAll, Waiting
  <2>2. QED
    BY <2>1
<1>12. ASSUME NEW s \in Stoppers, Shutdown(s) \/ ShutdownAgain(s) PROVE Goal
  <2>1. CASE ShutdownNotify(s)
    BY <1>11, <2>1 DEF ShutdownNotify
  <2>2. CASE ShutdownJoin(s) \/ ShutdownAgain(s)
    <3>1. UNCHANGED <<worker, poster, queue, stopping, ctor>>
      BY <2>2 DEF ShutdownJoin, ShutdownAgain
    <3>2. \A t \in Stoppers : stopper[t] = "notify" => stopper'[t] = "notify"
      BY <1>0, <2>2 DEF ShutdownJoin, ShutdownAgain
    <3>3. QED
      BY <1>7, <3>1, <3>2
  <2>3. QED
    BY <1>12, <2>1, <2>2 DEF Shutdown
<1>13. ASSUME NEW s \in Stoppers, NEW pol \in {"Drain", "Discard"}, ShutdownFirst(s, pol) PROVE Goal
  <2>1. /\ stopper'[s] = "notify" /\ UNCHANGED <<worker, poster>>
        /\ queue' = queue \/ queue' = <<>>
    BY <1>0, <1>13 DEF ShutdownFirst
  <2>2. Ready' = Ready /\ Waiting' = Waiting /\ Notifying' = Notifying
    BY <2>1 DEF Ready, Waiting, Notifying
  <2>3. Len(queue') <= Len(queue)
    BY <1>0, <2>1
  <2>4. QED
    BY <1>0, <2>1, <2>2, <2>3 DEF NoLostWakeup
<1>14. ASSUME SpawnFailedNotify PROVE Goal
  BY <1>11, <1>14 DEF SpawnFailedNotify
<1> HIDE DEF Goal
<1>15. Goal
  BY <1>1, <1>2, <1>3, <1>4, <1>5, <1>6, <1>8, <1>9, <1>10, <1>12, <1>13, <1>14
     DEF Next, Worker, Gone
<1>16. QED
  BY <1>15 DEF Goal

\* Whatever the interleaving of unlocks and signals, a queued task never lacks both
\* an awake worker and a signal while somebody waits, nor does a stop.
THEOREM NoWakeupLost == Spec => []NoLostWakeup
<1>1. Init => NoLostWakeup
  BY DEF Init, NoLostWakeup, Waiting
<1>2. QED
  BY <1>1, PoolTypeCorrect, WakeStep, PTL DEF Spec

-----------------------------------------------------------------------------
(* The end of a pool *)

Busy == {w \in Workers : worker[w] = "running"}

\* Why the books balance at the end: a worker exits only from an empty queue that
\* stays empty, only a Discard clears anything, and what was started and is not
\* counted as over is running.
SettleInv ==
    /\ (\E w \in Workers : worker[w] = "exited") => stopping /\ queue = <<>>
    /\ dropped # <<>> => \E s \in Stoppers : policy[s] = "Discard"
    /\ metrics.posted = Len(accepted)
    /\ metrics.completed + metrics.exceptions + Cardinality(Busy) = Len(started)

\* A step that moves no task, ends none, stops nothing and sends nobody home.
Quiet ==
    /\ UNCHANGED <<queue, accepted, started, dropped, policy>>
    /\ metrics'.posted = metrics.posted
    /\ metrics'.completed = metrics.completed /\ metrics'.exceptions = metrics.exceptions
    /\ stopping => stopping'
    /\ Busy' = Busy
    /\ \A w \in Workers : worker'[w] = "exited" => worker[w] = "exited"

\* All other steps are the six named here.
LEMMA StepOnBooks ==
    ASSUME PoolTypeOK, [Next]_vars
    PROVE  \/ Quiet
           \/ \E p \in Posters, k \in Tasks : Accept(p, k)
           \/ \E w \in Workers : Take(w)
           \/ \E w \in Workers : Exit(w)
           \/ \E w \in Workers, c \in {"completed", "exceptions"} : Finish(w, c)
           \/ \E s \in Stoppers, pol \in {"Drain", "Discard"} : ShutdownFirst(s, pol)
<1> USE DEF history
<1>0. /\ worker \in [Workers -> {"unborn", "loop", "waiting", "running", "exited"}]
      /\ metrics \in PoolMetrics
  BY DEF PoolTypeOK
<1>1. ASSUME NEW w \in Workers, Spawn(w) \/ SpuriousWake(w) \/ Wait(w) PROVE Quiet
  <2>1. /\ UNCHANGED <<queue, accepted, started, dropped, policy, metrics, stopping>>
        /\ worker[w] \in {"unborn", "waiting", "loop"}
        /\ worker' = [worker EXCEPT ![w] = "loop"] \/ worker' = [worker EXCEPT ![w] = "waiting"]
    BY <1>1 DEF Spawn, SpuriousWake, Wait
  <2>2. \A v \in Workers : /\ worker'[v] = "exited" <=> worker[v] = "exited"
                           /\ worker'[v] = "running" <=> worker[v] = "running"
    BY <1>0, <2>1
  <2>3. Busy' = Busy
    BY <2>2 DEF Busy
  <2>4. QED
    BY <2>1, <2>2, <2>3 DEF Quiet
<1>2. ASSUME WakeAll, UNCHANGED <<queue, accepted, started, dropped, policy, metrics, stopping>>
      PROVE  Quiet
  <2>1. \A v \in Workers : /\ worker'[v] = "exited" <=> worker[v] = "exited"
                           /\ worker'[v] = "running" <=> worker[v] = "running"
    BY <1>0, <1>2 DEF WakeAll, Waiting
  <2>2. Busy' = Busy
    BY <2>1 DEF Busy
  <2>3. QED
    BY <1>2, <2>1, <2>2 DEF Quiet
<1>3. ASSUME UNCHANGED <<worker, queue, accepted, started, dropped, policy>>, stopping => stopping',
             \/ UNCHANGED metrics
             \/ metrics' = [metrics EXCEPT !.rejected = @ + 1]
      PROVE  Quiet
  <2>1. /\ metrics'.posted = metrics.posted
        /\ metrics'.completed = metrics.completed /\ metrics'.exceptions = metrics.exceptions
    BY <1>0, <1>3 DEF PoolMetrics
  <2>2. Busy' = Busy
    BY <1>3 DEF Busy
  <2>3. QED
    BY <1>3, <2>1, <2>2 DEF Quiet
<1>4. ASSUME SpawnFails \/ Unwound \/ UNCHANGED vars PROVE Quiet
  BY <1>3, <1>4 DEF SpawnFails, Unwound, vars
<1>5. ASSUME SpawnFailedNotify PROVE Quiet
  BY <1>2, <1>5 DEF SpawnFailedNotify
<1>6. ASSUME NEW p \in Posters, NotifyOne(p) PROVE Quiet
  <2>1. CASE UNCHANGED worker
    BY <1>3, <1>6, <2>1 DEF NotifyOne
  <2>2. ASSUME NEW v \in Waiting, worker' = [worker EXCEPT ![v] = "loop"] PROVE Quiet
    <3>1. \A w \in Workers : /\ worker'[w] = "exited" <=> worker[w] = "exited"
                             /\ worker'[w] = "running" <=> worker[w] = "running"
      BY <1>0, <2>2 DEF Waiting
    <3>2. Busy' = Busy
      BY <3>1 DEF Busy
    <3>3. QED
      BY <1>6, <3>1, <3>2 DEF Quiet, NotifyOne
  <2>3. QED
    BY <1>6, <2>1, <2>2 DEF NotifyOne
<1>7. ASSUME NEW p \in Posters, NEW k \in Tasks, Reject(p, k) PROVE Quiet
  BY <1>3, <1>7 DEF Reject
<1>8. ASSUME NEW s \in Stoppers, Shutdown(s) \/ ShutdownAgain(s) PROVE Quiet
  <2>1. CASE ShutdownNotify(s)
    BY <1>2, <2>1 DEF ShutdownNotify
  <2>2. CASE ShutdownJoin(s) \/ ShutdownAgain(s)
    BY <1>3, <2>2 DEF ShutdownJoin, ShutdownAgain
  <2>3. QED
    BY <1>8, <2>1, <2>2 DEF Shutdown
<1>9. QED
  BY <1>1, <1>4, <1>5, <1>6, <1>7, <1>8 DEF Next, Worker, Gone

\* Each of them keeps the books.
LEMMA SettleStep == PoolTypeOK /\ FifoInv /\ SettleInv /\ [Next]_vars => SettleInv'
<1> SUFFICES ASSUME PoolTypeOK, FifoInv, SettleInv, [Next]_vars PROVE SettleInv'
  OBVIOUS
<1> USE DEF history
<1>0. /\ worker \in [Workers -> {"unborn", "loop", "waiting", "running", "exited"}]
      /\ metrics \in PoolMetrics /\ policy \in [Stoppers -> {"Drain", "Discard"}]
      /\ accepted \in Seq(Tasks) /\ started \in Seq(Tasks) /\ queue \in Seq(Tasks)
      /\ Len(accepted) \in Nat /\ Len(started) \in Nat
  BY DEF PoolTypeOK
<1>00. IsFiniteSet(Busy) /\ Cardinality(Busy) \in Nat
  <2>1. Busy \subseteq Workers
    BY DEF Busy
  <2>2. QED
    BY <2>1, PoolAssumption, FS_Subset, FS_CardinalityType
<1>1. CASE Quiet
  BY <1>1 DEF Quiet, SettleInv
<1>2. ASSUME NEW p \in Posters, NEW k \in Tasks, Accept(p, k) PROVE SettleInv'
  <2>1. /\ ~stopping /\ UNCHANGED <<worker, started, dropped, policy, stopping>>
        /\ accepted' = Append(accepted, k)
        /\ metrics' = [metrics EXCEPT !.posted = @ + 1]
    BY <1>2 DEF Accept
  <2>2. /\ metrics'.posted = metrics.posted + 1
        /\ metrics'.completed = metrics.completed /\ metrics'.exceptions = metrics.exceptions
    BY <1>0, <2>1 DEF PoolMetrics
  <2>3. Len(accepted') = Len(accepted) + 1 /\ Busy' = Busy
    BY <1>0, <2>1 DEF Busy
  <2>4. QED
    BY <2>1, <2>2, <2>3 DEF SettleInv
<1>3. ASSUME NEW w \in Workers, Take(w) PROVE SettleInv'
  <2>1. /\ queue # <<>> /\ worker[w] = "loop" /\ worker' = [worker EXCEPT ![w] = "running"]
        /\ started' = Append(started, Head(queue)) /\ Head(queue) \in Tasks
        /\ UNCHANGED <<accepted, dropped, policy, metrics, stopping>>
    BY <1>0, <1>3, HeadIsNew DEF Take
  <2>2. \A v \in Workers : worker'[v] # "exited"
    BY <1>0, <2>1 DEF SettleInv
  <2>3. Busy' = Busy \cup {w} /\ w \notin Busy
    BY <1>0, <2>1 DEF Busy
  <2>4. Cardinality(Busy') = Cardinality(Busy) + 1 /\ Len(started') = Len(started) + 1
    BY <1>0, <1>00, <2>1, <2>3, OneMore
  <2>5. metrics.completed \in Nat /\ metrics.exceptions \in Nat
    BY <1>0 DEF PoolMetrics
  <2>6. metrics.completed + metrics.exceptions + Cardinality(Busy) = Len(started)
    BY DEF SettleInv
  <2>7. metrics.completed + metrics.exceptions + (Cardinality(Busy) + 1) = Len(started) + 1
    BY <1>0, <1>00, <2>5, <2>6
  <2>8. metrics'.completed + metrics'.exceptions + Cardinality(Busy') = Len(started')
    BY <2>1, <2>4, <2>7
  <2>9. QED
    BY <2>1, <2>2, <2>8 DEF SettleInv
<1>4. ASSUME NEW w \in Workers, Exit(w) PROVE SettleInv'
  <2>1. /\ stopping' /\ queue' = <<>> /\ UNCHANGED <<accepted, started, dropped, policy, metrics>>
        /\ worker[w] = "loop" /\ worker' = [worker EXCEPT ![w] = "exited"]
    BY <1>4 DEF Exit
  <2>2. Busy' = Busy
    BY <1>0, <2>1 DEF Busy
  <2>3. QED
    BY <2>1, <2>2 DEF SettleInv
<1>5. ASSUME NEW w \in Workers, NEW c \in {"completed", "exceptions"}, Finish(w, c) PROVE SettleInv'
  <2>1. /\ worker[w] = "running" /\ worker' = [worker EXCEPT ![w] = "loop"]
        /\ UNCHANGED <<queue, accepted, started, dropped, policy, stopping>>
        /\ metrics' = [metrics EXCEPT ![c] = @ + 1]
    BY <1>5 DEF Finish
  <2>2. Busy' = Busy \ {w} /\ w \in Busy
    BY <1>0, <2>1 DEF Busy
  <2>3. Cardinality(Busy') = Cardinality(Busy) - 1
    BY <1>00, <2>2, OneLess
  <2>4. /\ metrics'.posted = metrics.posted
        /\ metrics'.completed + metrics'.exceptions = metrics.completed + metrics.exceptions + 1
        /\ metrics.completed \in Nat /\ metrics.exceptions \in Nat
        /\ metrics'.completed \in Nat /\ metrics'.exceptions \in Nat
    <3>1. CASE c = "completed"
      BY <1>0, <2>1, <3>1 DEF PoolMetrics
    <3>2. CASE c = "exceptions"
      BY <1>0, <2>1, <3>2 DEF PoolMetrics
    <3>3. QED
      BY <3>1, <3>2
  <2>5. (\E v \in Workers : worker'[v] = "exited") => stopping' /\ queue' = <<>>
    BY <1>0, <2>1 DEF SettleInv
  <2>6. metrics'.completed + metrics'.exceptions + Cardinality(Busy') = Len(started')
    <3>1. metrics.completed + metrics.exceptions + Cardinality(Busy) = Len(started)
      BY DEF SettleInv
    <3>2. metrics.completed + metrics.exceptions + 1 + (Cardinality(Busy) - 1) = Len(started)
      BY <1>0, <1>00, <2>4, <3>1
    <3>3. QED
      BY <2>1, <2>3, <2>4, <3>2
  <2>7. QED
    BY <2>1, <2>4, <2>5, <2>6 DEF SettleInv
<1>6. ASSUME NEW s \in Stoppers, NEW pol \in {"Drain", "Discard"}, ShutdownFirst(s, pol)
      PROVE  SettleInv'
  <2>1. /\ ~stopping /\ stopping' /\ UNCHANGED <<worker, metrics, accepted, started>>
        /\ policy' = [policy EXCEPT ![s] = pol] /\ dropped = <<>>
        /\ pol = "Discard" \/ UNCHANGED dropped
    BY <1>6 DEF ShutdownFirst, FifoInv
  <2>2. Busy' = Busy /\ \A w \in Workers : worker'[w] # "exited"
    BY <2>1 DEF Busy, SettleInv
  <2>3. dropped' # <<>> => policy'[s] = "Discard"
    BY <1>0, <2>1
  <2>4. QED
    BY <2>1, <2>2, <2>3 DEF SettleInv
<1>7. QED
  BY <1>1, <1>2, <1>3, <1>4, <1>5, <1>6, StepOnBooks

\* When all workers have exited, every accepted task has been run or cleared, only a
\* Discard has cleared any, and the counters account for each.
THEOREM ShutdownAlwaysSettles == Spec => []ShutdownSettles
<1>1. Init => SettleInv
  <2> SUFFICES ASSUME Init PROVE SettleInv
    OBVIOUS
  <2>1. Busy = {} /\ Cardinality(Busy) = 0
    BY FS_EmptySet, Zenon DEF Init, Busy
  <2>2. Len(<<>>) = 0
    OBVIOUS
  <2>3. QED
    BY <2>1, <2>2 DEF Init, SettleInv
<1>2. PoolTypeOK /\ FifoInv /\ RunOnce /\ SettleInv => ShutdownSettles
  <2> SUFFICES ASSUME PoolTypeOK, FifoInv, RunOnce, SettleInv,
                      \A w \in Workers : worker[w] = "exited"
               PROVE  /\ queue = <<>>
                      /\ InSeq(started) = finished
                      /\ (\A s \in Stoppers : policy[s] = "Drain") => dropped = <<>>
                      /\ metrics.posted = metrics.completed + metrics.exceptions + Len(dropped)
    BY DEF ShutdownSettles
  <2>1. queue = <<>>
    BY PoolAssumption DEF SettleInv
  <2>2. InSeq(started) = finished
    <3>1. \A w \in Workers : running[w] = {}
      BY DEF PoolTypeOK
    <3>2. UNION {running[w] : w \in Workers} = {}
      BY <3>1
    <3>3. QED
      BY <3>2 DEF RunOnce
  <2>3. (\A s \in Stoppers : policy[s] = "Drain") => dropped = <<>>
    BY DEF SettleInv
  <2>4. Cardinality(Busy) = 0
    <3>1. Busy = {}
      BY DEF Busy
    <3>2. QED
      BY <3>1, FS_EmptySet
  <2>5. Len(accepted) = Len(started) + Len(dropped)
    <3>1. /\ started \in Seq(Tasks) /\ dropped \in Seq(Tasks)
          /\ accepted = started \o <<>> \o dropped
      BY <2>1 DEF PoolTypeOK, FifoInv, FifoOnce
    <3>2. started \o <<>> = started
      BY <3>1, ConcatEmptySeq
    <3>3. QED
      BY <3>1, <3>2, ConcatProperties
  <2>6. metrics.completed \in Nat /\ metrics.exceptions \in Nat
    BY DEF PoolTypeOK, PoolMetrics
  <2>7. metrics.posted = metrics.completed + metrics.exceptions + Len(dropped)
    BY <2>4, <2>5, <2>6 DEF SettleInv
  <2>8. QED
    BY <2>1, <2>2, <2>3, <2>7
<1>3. Init => RunOnce
  BY DEF Init, RunOnce, InSeq
<1>4. QED
  BY <1>1, <1>2, <1>3, PoolTypeCorrect, FifoInit, FifoStep, RunStep, SettleStep, PTL DEF Spec
=============================================================================
