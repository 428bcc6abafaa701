----------------------------- MODULE SdkClient ------------------------------
(***************************************************************************)
(* sdk::Client: threads sharing a bounded pool of client::Connections to a *)
(* daemon that may be slow, drop a connection, or die and come back.       *)
(*                                                                         *)
(* What invoke() does under impl.mutex is one step.  A connection is two   *)
(* byte streams: a request the client gave up on is still there for the    *)
(* daemon to read, and a reply for the client, until an end is closed.     *)
(* The daemon carries a request out and answers it in two steps: between   *)
(* them the caller may give up, the connection break or the daemon die.    *)
(***************************************************************************)
EXTENDS Integers, Sequences, FiniteSets

CONSTANTS
    Threads,            \* callers
    Conns,              \* connection objects, one per slot of the pool
    MaxConnections,     \* ClientConfig::max_connections
    MaxRetries,         \* ClientConfig::max_retries
    RetryRecording,     \* ClientConfig::retry_recording_recommendations
    ReplyCodes,         \* what the daemon answers: "Ok", "NotFound", "InvalidArgument"
    MaxCalls,           \* bound: calls of one thread
    MaxFaults,          \* bound: connections the daemon drops, its deaths and its stalls
    Nil

ASSUME SdkAssumption ==
    /\ MaxConnections \in Nat \ {0} /\ MaxRetries \in Nat
    /\ Cardinality(Conns) = MaxConnections /\ Nil \notin Conns
    /\ IsFiniteSet(Threads) /\ MaxCalls \in Nat

VARIABLES
    idle,       \* Impl::idle, newest first
    total,      \* Impl::total
    conn,       \* connection -> [client, daemon, next, out, answer, in]
    orphans,    \* recommendations sent on a connection the client has closed since, which
                \* the daemon has yet to read
    thread,     \* thread -> [at, op, attempt, conn, code]
    running,    \* the daemon listens
    full,       \* its accept queue is full: connect() blocks
    faults,     \* faults so far
    calls,      \* history: thread -> calls begun
    executed    \* history: <<thread, call>> -> times the daemon recorded its exposures

links == <<conn, orphans>>
pool == <<idle, total>>
daemon == <<running, full, faults>>
history == <<calls, executed>>
vars == <<pool, links, thread, daemon, history>>

\* "lookup" stands for every operation the SDK retries, "recommend" for the
\* recording recommendation.
Ops == {"lookup", "recommend"}

Closed == [client |-> FALSE, daemon |-> FALSE, next |-> 1,
           out |-> <<>>, answer |-> <<>>, in |-> <<>>]
Fresh == [Closed EXCEPT !.client = TRUE, !.daemon = TRUE]
Resting == [at |-> "rest", op |-> "lookup", attempt |-> 0, conn |-> Nil, code |-> "none"]

At(t, places) == thread[t].at \in places
Goto(t, place) == [thread EXCEPT ![t].at = place]
Available == idle # <<>> \/ total < MaxConnections
InSeq(q) == {q[i] : i \in 1 .. Len(q)}

\* The client closes its end: what it has not read is gone, what it has sent is not.
CloseEnd(c) ==
    /\ conn' = [conn EXCEPT ![c] = Closed]
    /\ orphans' = orphans \cup {r \in InSeq(conn[c].out) : r.op = "recommend"}

\* notify_one on `available`, and where it leaves the threads.
Notified(threads) ==
    LET waiting == {t \in Threads : threads[t].at = "wait"} IN
    IF waiting = {} THEN {threads} ELSE {[threads EXCEPT ![t].at = "woken"] : t \in waiting}

-----------------------------------------------------------------------------
(* invoke: acquire *)

Attempts(op) == IF op = "lookup" \/ RetryRecording THEN MaxRetries + 1 ELSE 1

Begin(t, op) ==
    /\ At(t, {"rest"}) /\ calls[t] < MaxCalls
    /\ thread' = [thread EXCEPT ![t] = [Resting EXCEPT !.at = "acquire", !.op = op]]
    /\ calls' = [calls EXCEPT ![t] = @ + 1]
    /\ UNCHANGED <<pool, links, daemon, executed>>

\* Takes the newest idle connection, or reserves the slot for a new one.
CheckOut(t) ==
    /\ Available
    /\ IF idle # <<>>
       THEN /\ thread' = [thread EXCEPT ![t].at = "send", ![t].conn = Head(idle)]
            /\ idle' = Tail(idle)
            /\ UNCHANGED total
       ELSE /\ thread' = Goto(t, "open")
            /\ total' = total + 1
            /\ UNCHANGED idle
    /\ UNCHANGED <<links, daemon, history>>

\* wait_for tests the predicate on entry and whenever it is woken.
Acquire(t) == At(t, {"acquire", "woken"}) /\ CheckOut(t)

AcquireWaits(t) ==
    /\ At(t, {"acquire", "woken"}) /\ ~Available
    /\ thread' = Goto(t, "wait")
    /\ UNCHANGED <<pool, links, daemon, history>>

\* An attempt failed with Unavailable: back off and try again, or give up.
Retry(t, threads) ==
    IF threads[t].attempt + 1 < Attempts(threads[t].op)
    THEN [threads EXCEPT ![t].at = "acquire", ![t].attempt = @ + 1, ![t].conn = Nil]
    ELSE [threads EXCEPT ![t] = [Resting EXCEPT !.code = "Unavailable"]]

\* acquire_timeout: the predicate has the last word.
AcquireTimesOut(t) ==
    /\ At(t, {"wait", "woken"})
    /\ \/ CheckOut(t)
       \/ /\ ~Available
          /\ thread' = Retry(t, thread)
          /\ UNCHANGED <<pool, links, daemon, history>>

-----------------------------------------------------------------------------
(* invoke: open_connection *)

\* connect() is called before any timeout is set on the socket: it waits for as long
\* as the accept queue is full.
Open(t) ==
    /\ At(t, {"open"}) /\ running /\ ~full
    /\ \E c \in Conns :
        /\ conn[c] = Closed /\ c \notin InSeq(idle)
        /\ \A u \in Threads : thread[u].conn # c
        /\ conn' = [conn EXCEPT ![c] = Fresh]
        /\ thread' = [thread EXCEPT ![t].at = "send", ![t].conn = c]
    /\ UNCHANGED <<pool, orphans, daemon, history>>

\* Mutant: the reserved slot is not given back.
OpenFailsKeepingSlot(t) ==
    /\ At(t, {"open"})
    /\ thread' \in Notified(Retry(t, thread))
    /\ UNCHANGED <<pool, links, daemon, history>>

\* socket() finds no descriptor, connect() is refused or a timeout cannot be set.
OpenFails(t) ==
    /\ At(t, {"open"})
    /\ total' = total - 1
    /\ thread' \in Notified(Retry(t, thread))
    /\ UNCHANGED <<idle, links, daemon, history>>

OpenRefused(t) == ~running /\ OpenFails(t)

-----------------------------------------------------------------------------
(* Connection::call, and map_status *)

\* The call is over with this status; the PooledConnection is still held.
Result(t, code) == [thread EXCEPT ![t].at = "release", ![t].code = code]

\* put_item and recommend check their arguments before they send anything.
RefusedLocally(t) ==
    /\ At(t, {"send"})
    /\ thread' = Result(t, "InvalidArgument")
    /\ UNCHANGED <<pool, links, daemon, history>>

Send(t) ==
    LET c == thread[t].conn IN
    /\ At(t, {"send"}) /\ conn[c].daemon
    /\ conn' = [conn EXCEPT ![c].next = @ + 1,
                            ![c].out = Append(@, [id |-> conn[c].next, op |-> thread[t].op,
                                                  call |-> <<t, calls[t]>>,
                                                  attempt |-> thread[t].attempt])]
    /\ thread' = Goto(t, "receive")
    /\ UNCHANGED <<pool, orphans, daemon, history>>

\* EPIPE, or a send that times out with the frame half written: the daemon makes
\* nothing of half a frame.
SendFails(t) ==
    /\ At(t, {"send"})
    /\ CloseEnd(thread[t].conn)
    /\ thread' = Result(t, "Unavailable")
    /\ UNCHANGED <<pool, daemon, history>>

Receive(t) ==
    LET c == thread[t].conn
        reply == Head(conn[c].in)
        matches == reply.id = conn[c].next - 1 IN
    /\ At(t, {"receive"}) /\ conn[c].in # <<>>
    /\ IF matches THEN conn' = [conn EXCEPT ![c].in = Tail(@)] /\ UNCHANGED orphans
                  ELSE CloseEnd(c)
    /\ thread' = Result(t, IF matches THEN reply.code ELSE "ProtocolError")
    /\ UNCHANGED <<pool, daemon, history>>

\* Mutant: a lost connection costs no attempt.
ReceiveEndsUncounted(t) ==
    LET c == thread[t].conn IN
    /\ At(t, {"receive"}) /\ conn[c].in = <<>> /\ ~conn[c].daemon
    /\ CloseEnd(c)
    /\ thread' = [Result(t, "Unavailable") EXCEPT ![t].attempt = @ - 1]
    /\ UNCHANGED <<pool, daemon, history>>

ReceiveEnds(t) ==
    LET c == thread[t].conn IN
    /\ At(t, {"receive"}) /\ conn[c].in = <<>> /\ ~conn[c].daemon
    /\ CloseEnd(c)
    /\ thread' = Result(t, "Unavailable")
    /\ UNCHANGED <<pool, daemon, history>>

\* Mutant: a socket without SO_RCVTIMEO gives up only once the daemon is gone.
ReceiveTimesOutLate(t) ==
    LET c == thread[t].conn IN
    /\ At(t, {"receive"}) /\ conn[c].in = <<>> /\ ~running
    /\ CloseEnd(c)
    /\ thread' = Result(t, "Unavailable")
    /\ UNCHANGED <<pool, daemon, history>>

\* Mutant: a call that timed out leaves its connection fit for reuse.
ReceiveTimesOutOpen(t) ==
    /\ At(t, {"receive"}) /\ conn[thread[t].conn].in = <<>>
    /\ thread' = Result(t, "InvalidArgument")
    /\ UNCHANGED <<pool, links, daemon, history>>

ReceiveTimesOut(t) ==
    LET c == thread[t].conn IN
    /\ At(t, {"receive"}) /\ conn[c].in = <<>>
    /\ CloseEnd(c)
    /\ thread' = Result(t, "Unavailable")
    /\ UNCHANGED <<pool, daemon, history>>

\* Mutant: only a connection that goes back to the pool wakes a waiter.
ReleaseSilently(t) ==
    LET c == thread[t].conn
        next == IF thread[t].code = "Unavailable" THEN Retry(t, thread)
                ELSE [thread EXCEPT ![t] = [Resting EXCEPT !.code = thread[t].code]] IN
    /\ At(t, {"release"})
    /\ IF thread[t].code \notin {"Unavailable", "ProtocolError"} /\ conn[c].client
       THEN idle' = <<c>> \o idle /\ thread' \in Notified(next) /\ UNCHANGED total
       ELSE total' = total - 1 /\ thread' = next /\ UNCHANGED idle
    /\ UNCHANGED <<links, daemon, history>>

\* ~PooledConnection, on the way out of the attempt: recycle or drop, notify_one.
Release(t) ==
    LET c == thread[t].conn
        next == IF thread[t].code = "Unavailable" THEN Retry(t, thread)
                ELSE [thread EXCEPT ![t] = [Resting EXCEPT !.code = thread[t].code]] IN
    /\ At(t, {"release"})
    /\ IF thread[t].code \notin {"Unavailable", "ProtocolError"} /\ conn[c].client
       THEN idle' = <<c>> \o idle /\ UNCHANGED total
       ELSE total' = total - 1 /\ UNCHANGED idle
    /\ thread' \in Notified(next)
    /\ UNCHANGED <<links, daemon, history>>

-----------------------------------------------------------------------------
(* The daemon *)

\* Reads one request and carries it out.
Execute(c) ==
    LET r == Head(conn[c].out) IN
    /\ conn[c].daemon /\ conn[c].out # <<>> /\ conn[c].answer = <<>>
    /\ executed' = IF r.op = "recommend" THEN [executed EXCEPT ![r.call] = @ + 1] ELSE executed
    /\ \E code \in ReplyCodes :
        conn' = [conn EXCEPT ![c].out = Tail(@), ![c].answer = <<[id |-> r.id, code |-> code]>>]
    /\ UNCHANGED <<pool, orphans, thread, daemon, calls>>

\* Writes the answer.  A write that fails is a Drop, or finds the client gone.
Reply(c) ==
    /\ conn[c].answer # <<>>
    /\ conn' = [conn EXCEPT ![c].answer = <<>>, ![c].in = @ \o conn[c].answer]
    /\ UNCHANGED <<pool, orphans, thread, daemon, history>>

\* A request of a client that has hung up is carried out all the same.
ExecuteOrphan(r) ==
    /\ executed' = [executed EXCEPT ![r.call] = @ + 1]
    /\ orphans' = orphans \ {r}
    /\ UNCHANGED <<pool, conn, thread, daemon, calls>>

Cut(c) == [conn[c] EXCEPT !.daemon = FALSE, !.out = <<>>, !.answer = <<>>]

\* A refused connection, or an error that ends one at any point of a request.
Drop(c) ==
    /\ faults < MaxFaults /\ conn[c].daemon
    /\ conn' = [conn EXCEPT ![c] = Cut(c)]
    /\ faults' = faults + 1
    /\ UNCHANGED <<pool, orphans, thread, running, full, history>>

Die ==
    /\ faults < MaxFaults /\ running
    /\ running' = FALSE /\ full' = FALSE
    /\ conn' = [c \in Conns |-> Cut(c)]
    /\ orphans' = {}
    /\ faults' = faults + 1
    /\ UNCHANGED <<pool, thread, history>>

Restart ==
    /\ ~running
    /\ running' = TRUE
    /\ UNCHANGED <<pool, links, thread, full, faults, history>>

\* The daemon has stopped accepting, out of descriptors or hung, and connections pile
\* up; or it takes them off the queue.
QueueFills ==
    /\ faults < MaxFaults /\ running /\ ~full
    /\ full' = TRUE
    /\ faults' = faults + 1
    /\ UNCHANGED <<pool, links, thread, running, history>>

QueueDrains ==
    /\ full
    /\ full' = FALSE
    /\ UNCHANGED <<pool, links, thread, running, faults, history>>

-----------------------------------------------------------------------------
\* Client::connect has opened the first connection.
Init ==
    \E first \in Conns :
        /\ idle = <<first>> /\ total = 1
        /\ conn = [c \in Conns |-> IF c = first THEN Fresh ELSE Closed]
        /\ orphans = {}
        /\ thread = [t \in Threads |-> Resting]
        /\ running = TRUE /\ full = FALSE /\ faults = 0
        /\ calls = [t \in Threads |-> 0]
        /\ executed = [call \in Threads \X (1 .. MaxCalls) |-> 0]

CallStep(t) ==
    \/ Acquire(t) \/ AcquireWaits(t) \/ Open(t) \/ OpenRefused(t)
    \/ RefusedLocally(t) \/ Send(t) \/ Receive(t) \/ ReceiveEnds(t) \/ ReceiveTimesOut(t)
    \/ Release(t)

Next ==
    \/ \E t \in Threads :
        \/ \E op \in Ops : Begin(t, op)
        \/ CallStep(t) \/ AcquireTimesOut(t) \/ OpenFails(t) \/ SendFails(t)
    \/ \E c \in Conns : Execute(c) \/ Reply(c) \/ Drop(c)
    \/ \E r \in orphans : ExecuteOrphan(r)
    \/ Die \/ Restart \/ QueueFills \/ QueueDrains

\* A caller that can go on does, and its two timeouts expire.  The daemon owes
\* nothing: it may never answer, and never take a connection off its queue.
Fairness ==
    \A t \in Threads : WF_vars(CallStep(t) \/ SendFails(t)) /\ WF_vars(AcquireTimesOut(t))

Spec == Init /\ [][Next]_vars /\ Fairness

-----------------------------------------------------------------------------
Holding == {t \in Threads : At(t, {"open", "send", "receive", "release"})}

\* The pool never opens more than max_connections, every unit of `total` is an
\* idle connection or a call that holds one, and no connection is in two hands.
PoolAccounted ==
    /\ total = Len(idle) + Cardinality(Holding)
    /\ total <= MaxConnections
    /\ Cardinality(InSeq(idle)) = Len(idle)
    /\ \A t \in Holding : thread[t].conn # Nil =>
        /\ thread[t].conn \notin InSeq(idle)
        /\ \A u \in Holding : u # t => thread[u].conn # thread[t].conn

\* A connection that goes back to the pool is between two messages: nothing it was
\* asked is unanswered and no reply is unread, so the next caller's reply is its own.
IdleIsClean ==
    \A c \in InSeq(idle) :
        conn[c].client /\ conn[c].out = <<>> /\ conn[c].answer = <<>> /\ conn[c].in = <<>>

\* No caller sleeps through a free connection or a free slot: for each there is a
\* woken thread on its way to it.
NobodyStranded ==
    (\E t \in Threads : At(t, {"wait"})) =>
        Len(idle) + MaxConnections - total <= Cardinality({t \in Threads : At(t, {"woken"})})

\* A recording recommendation is carried out at most once, and exactly once when it
\* is reported as done, though its reply, its connection or the daemon may be lost.
AtMostOnce ==
    /\ \A call \in DOMAIN executed : executed[call] <= 1
    /\ \A t \in Threads :
        At(t, {"release"}) /\ thread[t].op = "recommend" /\ thread[t].code = "Ok"
            => executed[<<t, calls[t]>>] = 1

\* connect() waits for a daemon that takes no connection off its full queue.
Blocked(t) == At(t, {"open"}) /\ full

\* Every call returns, though the daemon may never answer or stay down, unless it
\* comes to a connect() that blocks: the one wait that no timeout bounds.
CallsEnd == \A t \in Threads : ~At(t, {"rest"}) ~> At(t, {"rest"}) \/ Blocked(t)

\* What docs/sdk.md says of the client, that every wait is bounded: a call returns
\* whatever the daemon does.
EveryWaitIsBounded == \A t \in Threads : ~At(t, {"rest"}) ~> At(t, {"rest"})
=============================================================================
