----------------------------- MODULE ThreadPool -----------------------------
(***************************************************************************)
(* concurrency::ThreadPool: workers over one bounded queue, one mutex and  *)
(* one condition variable.                                                 *)
(*                                                                         *)
(* What a thread does between taking and releasing the mutex is one step.  *)
(* Everything done without it is a step of its own: the notifications, the *)
(* run of a task, the joins.  A worker waiting on work_available_ leaves   *)
(* the wait when notified, or for no reason at all, and then tests the     *)
(* predicate again under the mutex.                                        *)
(***************************************************************************)
EXTENDS Integers, FiniteSets, Sequences

CONSTANTS
    Workers,        \* the jthreads of workers_
    Posters,        \* threads that call post()
    Stoppers,       \* threads that call shutdown()
    Tasks,          \* the tasks there are to post, each once
    MaxQueued       \* max_queued_tasks_

\* The constructor's two throws.
ASSUME PoolAssumption ==
    /\ Workers # {}
    /\ IsFiniteSet(Workers) /\ IsFiniteSet(Posters)
    /\ MaxQueued \in Nat \ {0}

VARIABLES
    ctor,       \* how far the constructor is
    worker,     \* worker -> where in worker_loop() it is
    running,    \* worker -> the task it holds, as a set of at most one
    queue,      \* queue_
    stopping,   \* stopping_
    poster,     \* poster -> where in post() it is
    stopper,    \* stopper -> where in shutdown() it is
    policy,     \* stopper -> the ShutdownPolicy it began the stop with
    metrics,    \* the four atomic counters
    \* History
    accepted,   \* tasks accepted by post(), in order
    started,    \* tasks taken by a worker, in order
    dropped,    \* tasks a Discard shutdown cleared, in order
    finished,   \* tasks that ran to their end or threw
    refused     \* tasks post() rejected

history == <<accepted, started, dropped, finished, refused>>
vars == <<ctor, worker, running, queue, stopping, poster, stopper, policy, metrics, history>>

Waiting == {w \in Workers : worker[w] = "waiting"}

InSeq(q) == {q[i] : i \in 1 .. Len(q)}

\* Tasks nobody has tried to post.
Fresh == Tasks \ (InSeq(accepted) \cup refused)

\* notify_all: every waiter leaves the wait.
WakeAll == worker' = [w \in Workers |-> IF w \in Waiting THEN "loop" ELSE worker[w]]

-----------------------------------------------------------------------------
(* The constructor *)

Spawn(w) ==
    /\ ctor = "spawning"
    /\ worker[w] = "unborn"
    /\ worker' = [worker EXCEPT ![w] = "loop"]
    /\ ctor' = IF \E v \in Workers \ {w} : worker[v] = "unborn" THEN "spawning" ELSE "open"
    /\ UNCHANGED <<running, queue, stopping, poster, stopper, policy, metrics, history>>

\* Mutant: the exception propagates without releasing the workers.
SpawnFailsSilently ==
    /\ ctor = "spawning"
    /\ ctor' = "failing"
    /\ UNCHANGED <<worker, running, queue, stopping, poster, stopper, policy, metrics, history>>

\* A jthread cannot be created: the catch block sets stopping_ under the mutex.
SpawnFails ==
    /\ ctor = "spawning"
    /\ ctor' = "failing"
    /\ stopping' = TRUE
    /\ UNCHANGED <<worker, running, queue, poster, stopper, policy, metrics, history>>

\* It then wakes the workers there are and rethrows.
SpawnFailedNotify ==
    /\ ctor = "failing"
    /\ ctor' = "unwinding"
    /\ WakeAll
    /\ UNCHANGED <<running, queue, stopping, poster, stopper, policy, metrics, history>>

\* The jthread destructors join them.
Unwound ==
    /\ ctor = "unwinding"
    /\ \A w \in Workers : worker[w] \in {"unborn", "exited"}
    /\ ctor' = "failed"
    /\ UNCHANGED <<worker, running, queue, stopping, poster, stopper, policy, metrics, history>>

-----------------------------------------------------------------------------
(* post() *)

QueueFull == Len(queue) >= MaxQueued

Reject(p, k) ==
    /\ ctor = "open"
    /\ poster[p] = "idle"
    /\ k \in Fresh
    /\ stopping \/ QueueFull
    /\ refused' = refused \cup {k}
    /\ metrics' = [metrics EXCEPT !.rejected = @ + 1]
    /\ UNCHANGED <<ctor, worker, running, queue, stopping, poster, stopper, policy,
                   accepted, started, dropped, finished>>

\* Mutant: signal only when the queue was empty, as if one waiter were enough.
AcceptSignallingOnce(p, k) ==
    /\ ctor = "open"
    /\ poster[p] = "idle"
    /\ k \in Fresh
    /\ ~stopping /\ ~QueueFull
    /\ queue' = Append(queue, k)
    /\ metrics' = [metrics EXCEPT !.posted = @ + 1]
    /\ poster' = [poster EXCEPT ![p] = IF queue = <<>> THEN "notify" ELSE "idle"]
    /\ accepted' = Append(accepted, k)
    /\ UNCHANGED <<ctor, worker, running, stopping, stopper, policy,
                   started, dropped, finished, refused>>

Accept(p, k) ==
    /\ ctor = "open"
    /\ poster[p] = "idle"
    /\ k \in Fresh
    /\ ~stopping /\ ~QueueFull
    /\ queue' = Append(queue, k)
    /\ metrics' = [metrics EXCEPT !.posted = @ + 1]
    /\ poster' = [poster EXCEPT ![p] = "notify"]
    /\ accepted' = Append(accepted, k)
    /\ UNCHANGED <<ctor, worker, running, stopping, stopper, policy,
                   started, dropped, finished, refused>>

\* notify_one, with the mutex released: some waiter leaves the wait, if there is one.
NotifyOne(p) ==
    /\ poster[p] = "notify"
    /\ poster' = [poster EXCEPT ![p] = "idle"]
    /\ \/ Waiting = {} /\ UNCHANGED worker
       \/ \E w \in Waiting : worker' = [worker EXCEPT ![w] = "loop"]
    /\ UNCHANGED <<ctor, running, queue, stopping, stopper, policy, metrics, history>>

-----------------------------------------------------------------------------
(* shutdown() *)

\* The early return when somebody has already begun.
ShutdownAgain(s) ==
    /\ ctor = "open"
    /\ stopper[s] = "idle"
    /\ stopping
    /\ stopper' = [stopper EXCEPT ![s] = "returned"]
    /\ UNCHANGED <<ctor, worker, running, queue, stopping, poster, policy, metrics, history>>

ShutdownFirst(s, pol) ==
    /\ ctor = "open"
    /\ stopper[s] = "idle"
    /\ ~stopping
    /\ stopping' = TRUE
    /\ stopper' = [stopper EXCEPT ![s] = "notify"]
    /\ policy' = [policy EXCEPT ![s] = pol]
    /\ IF pol = "Discard"
       THEN queue' = <<>> /\ dropped' = queue
       ELSE UNCHANGED <<queue, dropped>>
    /\ UNCHANGED <<ctor, worker, running, poster, metrics, accepted, started, finished, refused>>

ShutdownNotify(s) ==
    /\ stopper[s] = "notify"
    /\ stopper' = [stopper EXCEPT ![s] = "joining"]
    /\ WakeAll
    /\ UNCHANGED <<ctor, running, queue, stopping, poster, policy, metrics, history>>

\* join() on every worker.
ShutdownJoin(s) ==
    /\ stopper[s] = "joining"
    /\ \A w \in Workers : worker[w] = "exited"
    /\ stopper' = [stopper EXCEPT ![s] = "returned"]
    /\ UNCHANGED <<ctor, worker, running, queue, stopping, poster, policy, metrics, history>>

-----------------------------------------------------------------------------
(* worker_loop() *)

\* The predicate is false under the mutex: wait, releasing it.
Wait(w) ==
    /\ worker[w] = "loop"
    /\ ~stopping /\ queue = <<>>
    /\ worker' = [worker EXCEPT ![w] = "waiting"]
    /\ UNCHANGED <<ctor, running, queue, stopping, poster, stopper, policy, metrics, history>>

SpuriousWake(w) ==
    /\ worker[w] = "waiting"
    /\ worker' = [worker EXCEPT ![w] = "loop"]
    /\ UNCHANGED <<ctor, running, queue, stopping, poster, stopper, policy, metrics, history>>

\* Mutant: the newest task first.
TakeNewest(w) ==
    /\ worker[w] = "loop"
    /\ queue # <<>>
    /\ worker' = [worker EXCEPT ![w] = "running"]
    /\ running' = [running EXCEPT ![w] = {queue[Len(queue)]}]
    /\ queue' = SubSeq(queue, 1, Len(queue) - 1)
    /\ started' = Append(started, queue[Len(queue)])
    /\ UNCHANGED <<ctor, stopping, poster, stopper, policy, metrics,
                   accepted, dropped, finished, refused>>

\* Mutant: the front is read, and popped only if the queue is longer.
TakeKeepingLast(w) ==
    /\ worker[w] = "loop"
    /\ queue # <<>>
    /\ worker' = [worker EXCEPT ![w] = "running"]
    /\ running' = [running EXCEPT ![w] = {Head(queue)}]
    /\ queue' = IF Len(queue) > 1 THEN Tail(queue) ELSE queue
    /\ started' = Append(started, Head(queue))
    /\ UNCHANGED <<ctor, stopping, poster, stopper, policy, metrics,
                   accepted, dropped, finished, refused>>

Take(w) ==
    /\ worker[w] = "loop"
    /\ queue # <<>>
    /\ worker' = [worker EXCEPT ![w] = "running"]
    /\ running' = [running EXCEPT ![w] = {Head(queue)}]
    /\ queue' = Tail(queue)
    /\ started' = Append(started, Head(queue))
    /\ UNCHANGED <<ctor, stopping, poster, stopper, policy, metrics,
                   accepted, dropped, finished, refused>>

\* Mutant: stopping_ alone sends the worker home, whatever is queued.
ExitWhenStopping(w) ==
    /\ worker[w] = "loop"
    /\ stopping
    /\ worker' = [worker EXCEPT ![w] = "exited"]
    /\ UNCHANGED <<ctor, running, queue, stopping, poster, stopper, policy, metrics, history>>

Exit(w) ==
    /\ worker[w] = "loop"
    /\ stopping /\ queue = <<>>
    /\ worker' = [worker EXCEPT ![w] = "exited"]
    /\ UNCHANGED <<ctor, running, queue, stopping, poster, stopper, policy, metrics, history>>

\* Mutant: the worker still holds the task when it goes back.
FinishKeepingTask(w, counter) ==
    /\ worker[w] = "running"
    /\ worker' = [worker EXCEPT ![w] = "loop"]
    /\ finished' = finished \cup running[w]
    /\ metrics' = [metrics EXCEPT ![counter] = @ + 1]
    /\ UNCHANGED <<ctor, running, queue, stopping, poster, stopper, policy,
                   accepted, started, dropped, refused>>

\* Mutant: an exception is not caught, and takes the worker with it.
FinishUncaught(w, counter) ==
    /\ worker[w] = "running"
    /\ worker' = [worker EXCEPT ![w] = IF counter = "exceptions" THEN "exited" ELSE "loop"]
    /\ running' = [running EXCEPT ![w] = {}]
    /\ finished' = finished \cup running[w]
    /\ metrics' = [metrics EXCEPT ![counter] = @ + 1]
    /\ UNCHANGED <<ctor, queue, stopping, poster, stopper, policy,
                   accepted, started, dropped, refused>>

\* The task returns or throws; either way the worker goes back for more.
Finish(w, counter) ==
    /\ worker[w] = "running"
    /\ worker' = [worker EXCEPT ![w] = "loop"]
    /\ running' = [running EXCEPT ![w] = {}]
    /\ finished' = finished \cup running[w]
    /\ metrics' = [metrics EXCEPT ![counter] = @ + 1]
    /\ UNCHANGED <<ctor, queue, stopping, poster, stopper, policy,
                   accepted, started, dropped, refused>>

-----------------------------------------------------------------------------
Init ==
    /\ ctor = "spawning"
    /\ worker = [w \in Workers |-> "unborn"]
    /\ running = [w \in Workers |-> {}]
    /\ queue = <<>>
    /\ stopping = FALSE
    /\ poster = [p \in Posters |-> "idle"]
    /\ stopper = [s \in Stoppers |-> "idle"]
    /\ policy = [s \in Stoppers |-> "Drain"]
    /\ metrics = [posted |-> 0, completed |-> 0, rejected |-> 0, exceptions |-> 0]
    /\ accepted = <<>> /\ started = <<>> /\ dropped = <<>>
    /\ finished = {} /\ refused = {}

Worker(w) == Wait(w) \/ Take(w) \/ Exit(w) \/ \E c \in {"completed", "exceptions"} : Finish(w, c)
Shutdown(s) == ShutdownNotify(s) \/ ShutdownJoin(s)

\* Nobody is left: the pool failed to start, or every caller is done with it.
Gone ==
    /\ ctor = "failed" \/ \A s \in Stoppers : stopper[s] = "returned"
    /\ UNCHANGED vars

Next ==
    \/ \E w \in Workers : Spawn(w) \/ SpuriousWake(w) \/ Worker(w)
    \/ SpawnFails \/ SpawnFailedNotify \/ Unwound
    \/ \E p \in Posters : NotifyOne(p) \/ \E k \in Tasks : Reject(p, k) \/ Accept(p, k)
    \/ \E s \in Stoppers :
          \/ Shutdown(s) \/ ShutdownAgain(s)
          \/ \E pol \in {"Drain", "Discard"} : ShutdownFirst(s, pol)
    \/ Gone

\* A thread inside one of the pool's functions keeps running, and a task ends.
\* Nothing obliges anyone to call post() or shutdown(), nor a wait to end by itself.
Fairness ==
    /\ \A w \in Workers : WF_vars(Worker(w))
    /\ \A p \in Posters : WF_vars(NotifyOne(p))
    /\ \A s \in Stoppers : WF_vars(Shutdown(s))
    /\ WF_vars(SpawnFailedNotify) /\ WF_vars(Unwound)

Spec == Init /\ [][Next]_vars /\ Fairness

-----------------------------------------------------------------------------
Ready == {w \in Workers : worker[w] = "loop"}
Notifying == {p \in Posters : poster[p] = "notify"}

PoolMetrics == [posted : Nat, completed : Nat, rejected : Nat, exceptions : Nat]

\* Types of the pool's members and of the threads' positions; a worker holds a
\* task exactly while it is running one.
PoolTypeOK ==
    /\ ctor \in {"spawning", "open", "failing", "unwinding", "failed"}
    /\ worker \in [Workers -> {"unborn", "loop", "waiting", "running", "exited"}]
    /\ running \in [Workers -> SUBSET Tasks]
    /\ queue \in Seq(Tasks)
    /\ stopping \in BOOLEAN
    /\ poster \in [Posters -> {"idle", "notify"}]
    /\ stopper \in [Stoppers -> {"idle", "notify", "joining", "returned"}]
    /\ policy \in [Stoppers -> {"Drain", "Discard"}]
    /\ metrics \in PoolMetrics
    /\ accepted \in Seq(Tasks) /\ started \in Seq(Tasks) /\ dropped \in Seq(Tasks)
    /\ finished \subseteq Tasks /\ refused \subseteq Tasks
    /\ \A w \in Workers : worker[w] = "running" <=> running[w] # {}

\* Tasks leave the queue in the order post() accepted them, each once, whatever
\* the workers do: what has started, what is queued and what a Discard shutdown
\* cleared are together exactly what was accepted, and the queue keeps to its bound.
FifoOnce ==
    /\ accepted = started \o queue \o dropped
    /\ Len(queue) <= MaxQueued

\* A task that has started is on exactly one worker or is over: none is run by two
\* workers, lost by one, or taken up again once it is over.
RunOnce ==
    /\ \A v, w \in Workers : v # w => running[v] \cap running[w] = {}
    /\ finished \cap UNION {running[w] : w \in Workers} = {}
    /\ InSeq(started) = finished \cup UNION {running[w] : w \in Workers}

\* No wakeup is lost between post()'s unlock and its notify_one: while a worker
\* waits, every queued task has an awake worker or a signal on its way; and once
\* stopping_ is set a worker waits only while the notify_all is still to come.
NoLostWakeup ==
    Waiting # {} =>
        /\ Len(queue) <= Cardinality(Ready) + Cardinality(Notifying)
        /\ stopping => ctor = "failing" \/ \E s \in Stoppers : stopper[s] = "notify"

\* When every worker has exited, which is when the shutdown() that began the stop
\* returns, no accepted task is left: Drain has run them all, Discard ran what it
\* did not clear, and the counters, exact once the pool is stopped, account for each.
ShutdownSettles ==
    (\A w \in Workers : worker[w] = "exited") =>
        /\ queue = <<>>
        /\ InSeq(started) = finished
        /\ (\A s \in Stoppers : policy[s] = "Drain") => dropped = <<>>
        /\ metrics.posted = metrics.completed + metrics.exceptions + Len(dropped)

\* An accepted task is eventually run or cleared by a Discard, even if nobody
\* posts again or shuts the pool down.
AcceptedSettles ==
    \A k \in Tasks : k \in InSeq(accepted) ~> k \in finished \cup InSeq(dropped)

\* After shutdown() begins, or when the constructor cannot spawn every thread, every
\* worker there is exits, so the joins end.
StopEnds ==
    (stopping \/ ctor = "failing") ~> \A w \in Workers : worker[w] \in {"unborn", "exited"}
=============================================================================
