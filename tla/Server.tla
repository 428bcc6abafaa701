------------------------------- MODULE Server -------------------------------
(***************************************************************************)
(* daemon::Server with its listener, its ConnectionRegistry and the pool   *)
(* that serves connections: one daemon process that starts, accepts,       *)
(* serves, stops, fails or is leftover, and is started again.                *)
(*                                                                         *)
(* The kernel hands out the lowest free descriptor number, so a number is  *)
(* reused as soon as it is closed.  The pool is its promise (FIFO queue,   *)
(* refuse when full, Discard, join); ThreadPool models it in full.         *)
(***************************************************************************)
EXTENDS UnixListener, Integers, Sequences, Functions, FiniteSetsExt

CONSTANTS
    Lrdd,           \* the daemon
    Workers,        \* threads of pool_
    Clients,        \* peers, each connecting once
    Fds,            \* descriptor numbers the process may have open for streams
    MaxQueued,      \* max_queued_connections
    PipeCapacity,   \* bytes the stop pipe holds
    MaxStarts,      \* bound: times the daemon is started
    Nil

ASSUME ServerAssumption == Daemons = {Lrdd} /\ MaxQueued \in Nat \ {0} /\ PipeCapacity \in Nat \ {0}

VARIABLES
    main,       \* where the main thread is
    pipe,       \* bytes in the stop pipe
    starts,     \* starts so far
    leftover,   \* history: the path names what a killed process left there
    client,     \* client -> its end of the connection
    inbox,      \* client -> the request it has sent and the daemon has not read
    backlog,    \* connections the kernel queued for accept(), in order
    fd,         \* client -> the descriptor of the accepted stream
    shut,       \* clients whose connection was shut down with SHUT_RDWR
    queue,      \* pool_: connections waiting for a worker
    worker,     \* worker -> [at, conn]: where in serve_connection() it is
    registry,   \* fds_: the entry of each registered connection
    stopping,   \* the registry's stopping_
    stats,      \* accepted_, rejected_, completed_
    unserved    \* history: accepted connections dropped before their loop ended

listener == listenerVars
proc == <<main, pipe, starts, leftover>>
peers == <<client, inbox, backlog>>
streams == <<fd, shut>>
pool == <<queue, worker>>
latched == <<registry, stopping>>
counts == <<stats, unserved>>
vars == <<listener, proc, peers, streams, pool, latched, counts>>

\* A frame that is answered (handled, or FieldTooLarge), and one that does not decode.
Requests == {"answerable", "bad"}
FreeFds == Fds \ Range(fd)
InSeq(q) == {q[i] : i \in 1 .. Len(q)}
At(w, places) == worker[w].at \in places
Gone(c) == c \in shut \/ client[c] = "closed"

\* The daemon's end of these connections is closed: they are over, and what they
\* had not delivered is lost.
Hung(cs) ==
    /\ client' = [c \in Clients |-> IF c \in cs THEN "closed" ELSE client[c]]
    /\ inbox' = [c \in Clients |-> IF c \in cs THEN Nil ELSE inbox[c]]

Close(cs) ==
    /\ fd' = [c \in Clients |-> IF c \in cs THEN Nil ELSE fd[c]]
    /\ shut' = shut \ cs
    /\ Hung(cs)

\* What a process that ends takes with it: every descriptor is closed.
NoProcess ==
    /\ pipe' = 0
    /\ backlog' = <<>>
    /\ Close({c \in Clients : client[c] # "new"})
    /\ queue' = <<>>
    /\ worker' = [w \in Workers |-> [at |-> "none", conn |-> Nil]]
    /\ registry' = <<>>
    /\ stopping' = FALSE
    /\ stats' = [accepted |-> 0, rejected |-> 0, completed |-> 0]
    /\ unserved' = 0

-----------------------------------------------------------------------------
(* Starting: the constructor, then install_signal_handlers *)

Launch ==
    /\ main = "down" /\ starts < MaxStarts
    /\ Start(Lrdd)
    /\ main' = "bind"
    /\ starts' = starts + 1
    /\ UNCHANGED <<pipe, leftover, peers, streams, pool, latched, counts>>

\* listener_ is the first member: nothing else exists yet, and when bind() throws
\* the process is over.
BindListener ==
    /\ main = "bind"
    /\ BindStep(Lrdd) \/ BindFails(Lrdd)
    /\ leftover' = (leftover /\ file' = file)
    /\ main' = CASE step'[Lrdd] = "up" -> "construct"
                 [] step'[Lrdd] = "down" -> "down"
                 [] OTHER -> "bind"
    /\ UNCHANGED <<pipe, starts, peers, streams, pool, latched, counts>>

Construct ==
    /\ main = "construct"
    /\ main' = "install"
    /\ worker' = [w \in Workers |-> [at |-> "idle", conn |-> Nil]]
    /\ UNCHANGED <<listener, pipe, starts, leftover, peers, streams, queue, latched, counts>>

\* handler_, the stop pipe or pool_ throws, or the codec is unknown: the members
\* built so far are destroyed, listener_ last.
ConstructThrows ==
    /\ main = "construct"
    /\ main' = "close"
    /\ UNCHANGED <<listener, pipe, starts, leftover, peers, streams, pool, latched, counts>>

InstallSignalHandlers ==
    /\ main = "install"
    /\ main' = "poll"
    /\ UNCHANGED <<listener, pipe, starts, leftover, peers, streams, pool, latched, counts>>

-----------------------------------------------------------------------------
(* Stop requests *)

\* SIGTERM or SIGINT once the handlers are in place; a full pipe drops the byte.
RequestStop ==
    /\ main \notin {"down", "bind", "construct", "install"}
    /\ pipe < PipeCapacity
    /\ Range(worker) # {[at |-> "none", conn |-> Nil]}
    /\ pipe' = pipe + 1
    /\ UNCHANGED <<listener, main, starts, leftover, peers, streams, pool, latched, counts>>

\* SIGKILL at any time, or a stop signal before the handlers are in place.
Kill ==
    /\ main # "down"
    /\ IF step[Lrdd] = "down" THEN UNCHANGED listener ELSE Killed(Lrdd)
    /\ main' = "down"
    /\ leftover' = (file' = Debris)
    /\ NoProcess
    /\ UNCHANGED starts

-----------------------------------------------------------------------------
(* Server::run *)

\* poll() reports the pipe: it is looked at before the listener.
PollStop ==
    /\ main = "poll" /\ pipe > 0
    /\ pipe' = 0                                    \* drain_stop_pipe
    /\ main' = "close"
    /\ UNCHANGED <<listener, starts, leftover, peers, streams, pool, latched, counts>>

ListenerReady == main = "poll" /\ pipe = 0 /\ backlog # <<>>

\* accept_one: the pool takes the stream, or the Task's destructor closes it.
AcceptOne ==
    /\ ListenerReady
    /\ FreeFds # {}
    /\ backlog' = Tail(backlog)
    /\ IF Len(queue) < MaxQueued
       THEN /\ fd' = [fd EXCEPT ![Head(backlog)] = Min(FreeFds)]
            /\ queue' = Append(queue, Head(backlog))
            /\ stats' = [stats EXCEPT !.accepted = @ + 1]
            /\ UNCHANGED <<client, inbox>>
       ELSE /\ stats' = [stats EXCEPT !.accepted = @ + 1, !.rejected = @ + 1]
            /\ Hung({Head(backlog)})
            /\ UNCHANGED <<fd, queue>>
    /\ UNCHANGED <<listener, proc, shut, worker, latched, unserved>>

\* ECONNABORTED: the client vanished while it was queued.
AcceptAborted ==
    /\ ListenerReady /\ client[Head(backlog)] = "closed"
    /\ backlog' = Tail(backlog)
    /\ Hung({Head(backlog)})
    /\ UNCHANGED <<listener, proc, streams, pool, latched, counts>>

\* EMFILE, ENFILE (which the rest of the system can cause): sleep, then poll again.
AcceptExhausted ==
    /\ ListenerReady
    /\ main' = "backoff"
    /\ UNCHANGED <<listener, pipe, starts, leftover, peers, streams, pool, latched, counts>>

BackoffEnds ==
    /\ main = "backoff"
    /\ main' = "poll"
    /\ UNCHANGED <<listener, pipe, starts, leftover, peers, streams, pool, latched, counts>>

\* Any other error of poll() or accept(): run() throws into ~Server, which stops
\* the connections and the pool before listener_ is destroyed.
RunThrows ==
    /\ main = "poll"
    /\ main' = "stop_all"
    /\ UNCHANGED <<listener, pipe, starts, leftover, peers, streams, pool, latched, counts>>

\* Mutant: the pool is joined before the connections are broken.
CloseThenDiscard ==
    /\ main = "close"
    /\ CloseFd(Lrdd) \/ CloseUnlink(Lrdd)
    /\ main' = IF step'[Lrdd] = "down" THEN "discard" ELSE "close"
    /\ UNCHANGED <<pipe, starts, leftover, peers, streams, pool, latched, counts>>

\* listener_.close(): step 1 of the shutdown, or the last destructor to run when
\* the workers are gone or never were.  The kernel resets what it had queued.
CloseListener ==
    /\ main = "close"
    /\ CloseFd(Lrdd) \/ CloseUnlink(Lrdd)
    /\ IF step'[Lrdd] = "down" /\ \A w \in Workers : At(w, {"none", "exited"})
       THEN main' = "down" /\ NoProcess
       ELSE /\ main' = IF step'[Lrdd] = "down" THEN "stop_all" ELSE "close"
            /\ backlog' = <<>> /\ Hung(InSeq(backlog))
            /\ UNCHANGED <<pipe, streams, pool, latched, counts>>
    /\ UNCHANGED <<starts, leftover>>

\* ConnectionRegistry::stop_all: shuts down whatever holds the registered numbers.
StopAll ==
    /\ main = "stop_all"
    /\ main' = "discard"
    /\ stopping' = TRUE
    /\ shut' = shut \cup {c \in Clients : fd[c] \in Range(registry)}
    /\ UNCHANGED <<listener, pipe, starts, leftover, peers, fd, pool, registry, counts>>

\* pool_.shutdown(Discard): the queued tasks are destroyed with their streams.
Discard ==
    /\ main = "discard"
    /\ main' = "join"
    /\ queue' = <<>>
    /\ Close(InSeq(queue))
    /\ unserved' = unserved + Len(queue)
    /\ UNCHANGED <<listener, pipe, starts, leftover, backlog, worker, latched, stats>>

\* Every worker is joined; what is left of ~Server changes nothing more.
Join ==
    /\ main = "join"
    /\ \A w \in Workers : At(w, {"exited"})
    /\ IF step[Lrdd] = "up"
       THEN /\ main' = "close"
            /\ UNCHANGED <<pipe, peers, streams, pool, latched, counts>>
       ELSE main' = "down" /\ NoProcess
    /\ UNCHANGED <<listener, starts, leftover>>

-----------------------------------------------------------------------------
(* Server::serve_connection, one worker *)

Go(w, place) == worker' = [worker EXCEPT ![w].at = place]

Take(w) ==
    /\ At(w, {"idle"}) /\ queue # <<>>
    /\ worker' = [worker EXCEPT ![w] = [at |-> "guard", conn |-> Head(queue)]]
    /\ queue' = Tail(queue)
    /\ UNCHANGED <<listener, proc, peers, streams, latched, counts>>

\* Mutant: the registry accepts an entry after stop_all.
RegisterUnlatched(w) ==
    LET c == worker[w].conn IN
    /\ At(w, {"guard"})
    /\ registry' = [x \in DOMAIN registry \cup {c} |-> IF x = c THEN fd[c] ELSE registry[x]]
    /\ Go(w, "read")
    /\ UNCHANGED <<listener, proc, peers, streams, queue, stopping, counts>>

\* ConnectionGuard and ConnectionRegistry::add.
Register(w) ==
    LET c == worker[w].conn IN
    /\ At(w, {"guard"})
    /\ IF stopping
       THEN Go(w, "close") /\ unserved' = unserved + 1 /\ UNCHANGED registry
       ELSE /\ registry' = [x \in DOMAIN registry \cup {c} |-> IF x = c THEN fd[c] ELSE registry[x]]
            /\ Go(w, "read")
            /\ UNCHANGED unserved
    /\ UNCHANGED <<listener, proc, peers, streams, queue, stopping, stats>>

\* A whole frame.  Bytes that arrived before the shutdown can still be read.
ReadFrame(w) ==
    LET c == worker[w].conn IN
    /\ At(w, {"read"}) /\ inbox[c] # Nil
    /\ inbox' = [inbox EXCEPT ![c] = Nil]
    /\ Go(w, IF inbox[c] = "bad" THEN "leave" ELSE "reply")
    /\ UNCHANGED <<listener, proc, client, backlog, streams, queue, latched, counts>>

\* PeerClosed, or Truncated inside a frame: the peer hung up or stop_all shut it.
ReadEnds(w) ==
    LET c == worker[w].conn IN
    /\ At(w, {"read"}) /\ inbox[c] = Nil /\ Gone(c)
    /\ Go(w, "leave")
    /\ UNCHANGED <<listener, proc, peers, streams, queue, latched, counts>>

\* The request is handled and its answer written, which takes a peer that reads.
WriteReply(w) ==
    /\ At(w, {"reply"}) /\ ~Gone(worker[w].conn)
    /\ Go(w, "read")
    /\ UNCHANGED <<listener, proc, peers, streams, queue, latched, counts>>

\* EPIPE, also for a write that was blocked when the connection was shut down.
WriteFails(w) ==
    /\ At(w, {"reply"}) /\ Gone(worker[w].conn)
    /\ Go(w, "leave")
    /\ UNCHANGED <<listener, proc, peers, streams, queue, latched, counts>>

\* Mutant: a guard whose destructor does not remove its entry.
LeaveRegistered(w) ==
    /\ At(w, {"leave"})
    /\ Go(w, "close")
    /\ stats' = [stats EXCEPT !.completed = @ + 1]
    /\ UNCHANGED <<listener, proc, peers, streams, queue, latched, unserved>>

\* The loop is over: the count, then the guard removes its entry.
Leave(w) ==
    /\ At(w, {"leave"})
    /\ Go(w, "close")
    /\ stats' = [stats EXCEPT !.completed = @ + 1]
    /\ registry' = Restrict(registry, DOMAIN registry \ {worker[w].conn})
    /\ UNCHANGED <<listener, proc, peers, streams, queue, stopping, unserved>>

\* Handling or answering throws: the pool catches it above serve_connection().
ServeThrows(w) ==
    /\ At(w, {"reply"})
    /\ Go(w, "close")
    /\ unserved' = unserved + 1
    /\ registry' = Restrict(registry, DOMAIN registry \ {worker[w].conn})
    /\ UNCHANGED <<listener, proc, peers, streams, queue, stopping, stats>>

\* The stream parameter is destroyed after the guard.
CloseStream(w) ==
    /\ At(w, {"close"})
    /\ Close({worker[w].conn})
    /\ worker' = [worker EXCEPT ![w] = [at |-> "idle", conn |-> Nil]]
    /\ UNCHANGED <<listener, proc, backlog, queue, latched, counts>>

WorkerExits(w) ==
    /\ At(w, {"idle"}) /\ main = "join"
    /\ Go(w, "exited")
    /\ UNCHANGED <<listener, proc, peers, streams, queue, latched, counts>>

-----------------------------------------------------------------------------
(* The peers *)

Connect(c) ==
    /\ client[c] = "new" /\ Answers
    /\ client' = [client EXCEPT ![c] = "open"]
    /\ backlog' = Append(backlog, c)
    /\ UNCHANGED <<listener, proc, inbox, streams, pool, latched, counts>>

Send(c, request) ==
    /\ client[c] = "open" /\ inbox[c] = Nil /\ c \notin shut
    /\ inbox' = [inbox EXCEPT ![c] = request]
    /\ UNCHANGED <<listener, proc, client, backlog, streams, pool, latched, counts>>

HangUp(c) ==
    /\ client[c] = "open"
    /\ client' = [client EXCEPT ![c] = "closed"]
    /\ UNCHANGED <<listener, proc, inbox, backlog, streams, pool, latched, counts>>

-----------------------------------------------------------------------------
Init ==
    /\ ListenerInit
    /\ main = "down" /\ pipe = 0 /\ starts = 0
    /\ leftover = (file = Debris)
    /\ client = [c \in Clients |-> "new"]
    /\ inbox = [c \in Clients |-> Nil]
    /\ fd = [c \in Clients |-> Nil]
    /\ backlog = <<>> /\ queue = <<>> /\ shut = {}
    /\ worker = [w \in Workers |-> [at |-> "none", conn |-> Nil]]
    /\ registry = <<>> /\ stopping = FALSE
    /\ stats = [accepted |-> 0, rejected |-> 0, completed |-> 0]
    /\ unserved = 0

MainStep ==
    \/ BindListener \/ Construct \/ InstallSignalHandlers
    \/ PollStop \/ AcceptOne \/ AcceptAborted \/ AcceptExhausted \/ BackoffEnds
    \/ CloseListener \/ StopAll \/ Discard \/ Join

WorkerStep(w) ==
    \/ Take(w) \/ Register(w) \/ ReadFrame(w) \/ ReadEnds(w) \/ WriteFails(w)
    \/ Leave(w) \/ CloseStream(w) \/ WorkerExits(w)

Environment ==
    \/ Launch \/ ConstructThrows \/ RunThrows \/ RequestStop \/ Kill
    \/ \E w \in Workers : WriteReply(w) \/ ServeThrows(w)
    \/ \E c \in Clients :
        Connect(c) \/ HangUp(c) \/ \E request \in Requests : Send(c, request)

Next == MainStep \/ Environment \/ \E w \in Workers : WorkerStep(w)

\* Threads that can run do.  Nothing is asked of peers, signals or faults: a peer
\* that never reads may block a write for as long as the connection lives.
Fairness == WF_vars(MainStep) /\ \A w \in Workers : WF_vars(WorkerStep(w))

Spec == Init /\ [][Next]_vars /\ Fairness

-----------------------------------------------------------------------------
\* Every open descriptor has exactly one owner, a queued task or a worker, no two
\* streams share a number, an entry of the registry names the number its own
\* connection still holds (so stop_all never shuts down a stranger that got the
\* number next), and the three counters account for every connection accepted.
ConnectionsAccounted ==
    /\ \A c \in Clients :
        fd[c] # Nil <=> c \in InSeq(queue) \/ \E w \in Workers : worker[w].conn = c
    /\ \A c, e \in Clients : c # e /\ fd[c] # Nil => fd[c] # fd[e]
    /\ \A c \in DOMAIN registry : fd[c] = registry[c]
    /\ stats.accepted = stats.rejected + stats.completed + unserved + Len(queue)
          + Cardinality({w \in Workers : At(w, {"guard", "read", "reply", "leave"})})

\* Once stop_all has latched the registry no worker is left, or arrives later,
\* in a read or a write on a connection that was not shut down.
NobodyMissed ==
    stopping => \A w \in Workers : At(w, {"read", "reply"}) => worker[w].conn \in shut

\* The path leads to the daemon from the moment it listens until it closes.  While
\* no daemon runs a socket file there can only be one that a killed process left:
\* whichever way a process ends short of that, a bind(), a constructor or a run()
\* that throws included, no file of its making stays behind.
PathIsTrue ==
    /\ main \in {"construct", "install", "poll", "backoff", "stop_all", "discard", "join"}
          /\ step[Lrdd] = "up" => file = Lrdd
    /\ main = "down" => file = NoFile \/ leftover

\* A stop request ends the process, however many peers keep their connection open
\* without ever sending or reading a byte.
StopReturns == pipe > 0 ~> main = "down"
=============================================================================
