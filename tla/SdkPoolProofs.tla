--------------------------- MODULE SdkPoolProofs ----------------------------
(* How a step of SdkClient moves the callers and the pool, for any number of *)
(* callers and connections: what the other two modules of proofs rest on.   *)
EXTENDS SdkClient, FiniteSetTheorems, TLAPS

-----------------------------------------------------------------------------
(* Types *)

Places == {"rest", "acquire", "wait", "woken", "open", "send", "receive", "release"}
Connected == {"send", "receive", "release"}
Seeking == {"acquire", "wait", "woken"}
Codes == ReplyCodes \cup {"none", "InvalidArgument", "Unavailable", "ProtocolError"}
Callers == [at : Places, op : Ops, attempt : Nat, conn : Conns \cup {Nil}, code : Codes]

CallerInv ==
    /\ thread \in [Threads -> Callers]
    /\ calls \in [Threads -> 0 .. MaxCalls]
    /\ idle \in Seq(Conns) /\ total \in Int
    /\ \A t \in Threads : thread[t].conn \in Conns <=> At(t, Connected)
    /\ \A t \in Threads : ~At(t, {"rest"}) => calls[t] > 0

\* Another thread's step leaves a caller where it is, or wakes it.
Alike(u) ==
    /\ thread'[u].op = thread[u].op /\ thread'[u].attempt = thread[u].attempt
    /\ thread'[u].conn = thread[u].conn /\ thread'[u].code = thread[u].code
    /\ \/ thread'[u].at = thread[u].at
       \/ thread[u].at = "wait" /\ thread'[u].at = "woken"

\* A step of t moves it to a place, and the others at most wake.
Moves(t, place, link) ==
    /\ thread' \in [Threads -> Callers]
    /\ thread'[t].at = place /\ thread'[t].conn = link
    /\ thread'[t].op = thread[t].op /\ thread'[t].attempt = thread[t].attempt
    /\ \A u \in Threads \ {t} : thread'[u] = thread[u]

\* The three ways a caller moves within an attempt.
LEMMA GotoMoves ==
    ASSUME CallerInv, NEW t \in Threads, NEW place \in Places, thread' = Goto(t, place)
    PROVE  Moves(t, place, thread[t].conn)
<1> DEFINE n == [thread[t] EXCEPT !.at = place]
<1>1. thread \in [Threads -> Callers] /\ thread[t] \in Callers
  BY DEF CallerInv
<1>2. n \in Callers
  BY <1>1, Zenon DEF Callers
<1>3. thread' = [thread EXCEPT ![t] = n]
  BY <1>1, Zenon DEF Goto
<1>4. n.at = place /\ n.conn = thread[t].conn /\ n.op = thread[t].op /\ n.attempt = thread[t].attempt
  BY <1>1 DEF Callers
<1> HIDE DEF n
<1>5. QED
  BY <1>1, <1>2, <1>3, <1>4 DEF Moves

\* It takes or opens a connection.
LEMMA LinkMoves ==
    ASSUME CallerInv, NEW t \in Threads, NEW link \in Conns,
           thread' = [thread EXCEPT ![t].at = "send", ![t].conn = link]
    PROVE  Moves(t, "send", link)
<1> DEFINE n == [thread[t] EXCEPT !.at = "send", !.conn = link]
<1>1. thread \in [Threads -> Callers] /\ thread[t] \in Callers
  BY DEF CallerInv
<1>2. n \in Callers
  <2>1. "send" \in Places /\ link \in Conns \cup {Nil}
    BY DEF Places
  <2>2. QED
    BY <1>1, <2>1, Zenon DEF Callers
<1>3. thread' = [thread EXCEPT ![t] = n]
  BY <1>1, Zenon
<1>4. n.at = "send" /\ n.conn = link /\ n.op = thread[t].op /\ n.attempt = thread[t].attempt
  BY <1>1 DEF Callers
<1> HIDE DEF n
<1>5. QED
  BY <1>1, <1>2, <1>3, <1>4, Zenon DEF Moves

\* Its call has a result.
LEMMA ResultMoves ==
    ASSUME CallerInv, NEW t \in Threads, NEW k \in Codes, thread' = Result(t, k)
    PROVE  Moves(t, "release", thread[t].conn) /\ thread'[t].code = k
<1> DEFINE n == [thread[t] EXCEPT !.at = "release", !.code = k]
<1>1. thread \in [Threads -> Callers] /\ thread[t] \in Callers
  BY DEF CallerInv
<1>2. n \in Callers
  <2>1. "release" \in Places
    BY DEF Places
  <2>2. QED
    BY <1>1, <2>1, Zenon DEF Callers
<1>3. thread' = [thread EXCEPT ![t] = n]
  BY <1>1, Zenon DEF Result
<1>4. /\ n.at = "release" /\ n.conn = thread[t].conn /\ n.op = thread[t].op
      /\ n.attempt = thread[t].attempt /\ n.code = k
  BY <1>1 DEF Callers
<1> HIDE DEF n
<1>5. QED
  BY <1>1, <1>2, <1>3, <1>4 DEF Moves

\* notify_one wakes one waiter, if there is one, and touches nobody else.
WakesOne(t) ==
    \/ \A u \in Threads \ {t} : thread'[u] = thread[u] /\ thread[u].at # "wait"
    \/ \E w \in Threads \ {t} :
         /\ thread[w].at = "wait" /\ thread'[w].at = "woken"
         /\ \A u \in Threads \ {t, w} : thread'[u] = thread[u]

\* ... and leaves the record of the notifying thread as it made it.
LEMMA NotifyWakes ==
    ASSUME CallerInv, NEW t \in Threads, NEW n \in Callers, n.at # "wait",
           thread' \in Notified([thread EXCEPT ![t] = n])
    PROVE  /\ thread' \in [Threads -> Callers] /\ thread'[t] = n
           /\ WakesOne(t) /\ \A u \in Threads \ {t} : Alike(u)
<1> DEFINE next == [thread EXCEPT ![t] = n]
           waiting == {u \in Threads : next[u].at = "wait"}
<1>1. /\ thread \in [Threads -> Callers] /\ next \in [Threads -> Callers] /\ next[t] = n
      /\ \A u \in Threads \ {t} : next[u] = thread[u]
  BY DEF CallerInv
<1>2. /\ waiting = {} => thread' = next
      /\ waiting # {} => \E w \in waiting : thread' = [next EXCEPT ![w].at = "woken"]
  BY DEF Notified
<1> HIDE DEF next
<1>3. CASE waiting = {}
  BY <1>1, <1>2, <1>3 DEF WakesOne, Alike
<1>4. ASSUME NEW w \in waiting, thread' = [next EXCEPT ![w].at = "woken"]
      PROVE  /\ thread' \in [Threads -> Callers] /\ thread'[t] = n
             /\ WakesOne(t) /\ \A u \in Threads \ {t} : Alike(u)
  <2> DEFINE m == [next[w] EXCEPT !.at = "woken"]
  <2>1. w \in Threads \ {t} /\ thread[w].at = "wait" /\ next[w] = thread[w] /\ thread[w] \in Callers
    BY <1>1
  <2>2. thread' = [next EXCEPT ![w] = m]
    BY <1>4, Zenon
  <2>3. m \in Callers
    <3>1. "woken" \in Places
      BY DEF Places
    <3>2. QED
      BY <2>1, <3>1, Zenon DEF Callers
  <2>4. /\ m.at = "woken" /\ m.op = thread[w].op /\ m.attempt = thread[w].attempt
        /\ m.conn = thread[w].conn /\ m.code = thread[w].code
    BY <2>1 DEF Callers
  <2> HIDE DEF m
  <2>5. /\ thread' \in [Threads -> Callers] /\ thread'[t] = n /\ thread'[w] = m
        /\ \A u \in Threads \ {t, w} : thread'[u] = thread[u]
    BY <1>1, <2>1, <2>2, <2>3
  <2>6. WakesOne(t)
    BY <2>1, <2>4, <2>5 DEF WakesOne
  <2>7. \A u \in Threads \ {t} : Alike(u)
    BY <2>1, <2>4, <2>5 DEF Alike
  <2>8. QED
    BY <2>5, <2>6, <2>7
<1>5. QED
  BY <1>2, <1>3, <1>4

\* What an attempt that is over makes of its caller's record.
Over(t, n) ==
    /\ n \in Callers /\ n.conn = Nil
    /\ \/ n.at = "rest"
       \/ n.at = "acquire" /\ n.op = thread[t].op /\ (thread[t].op = "lookup" \/ RetryRecording)

\* Only what may be retried is.
LEMMA RetryOver ==
    ASSUME CallerInv, NEW t \in Threads
    PROVE  \E n : Over(t, n) /\ Retry(t, thread) = [thread EXCEPT ![t] = n]
<1>0. thread \in [Threads -> Callers] /\ thread[t] \in Callers /\ thread[t].attempt \in Nat
  BY DEF CallerInv, Callers
<1>1. CASE thread[t].attempt + 1 < Attempts(thread[t].op)
  <2> DEFINE n == [thread[t] EXCEPT !.at = "acquire", !.attempt = thread[t].attempt + 1, !.conn = Nil]
  <2>1. Retry(t, thread) = [thread EXCEPT ![t] = n]
    BY <1>0, <1>1, Zenon DEF Retry
  <2>2. n \in Callers
    <3>1. "acquire" \in Places /\ thread[t].attempt + 1 \in Nat /\ Nil \in Conns \cup {Nil}
      BY <1>0 DEF Places
    <3>2. QED
      BY <1>0, <3>1, Zenon DEF Callers
  <2>3. n.at = "acquire" /\ n.conn = Nil /\ n.op = thread[t].op
    BY <1>0 DEF Callers
  <2>4. thread[t].op = "lookup" \/ RetryRecording
    BY <1>0, <1>1 DEF Attempts
  <2> HIDE DEF n
  <2>5. QED
    BY <2>1, <2>2, <2>3, <2>4, Zenon DEF Over
<1>2. CASE ~(thread[t].attempt + 1 < Attempts(thread[t].op))
  <2> DEFINE n == [Resting EXCEPT !.code = "Unavailable"]
  <2>1. Retry(t, thread) = [thread EXCEPT ![t] = n]
    BY <1>2 DEF Retry
  <2>2. n \in Callers /\ n.at = "rest" /\ n.conn = Nil
    BY DEF Resting, Callers, Places, Ops, Codes
  <2> HIDE DEF n
  <2>3. QED
    BY <2>1, <2>2, Zenon DEF Over
<1>3. QED
  BY <1>1, <1>2

-----------------------------------------------------------------------------
(* The kinds of steps *)

Same(t) == \A u \in Threads \ {t} : thread'[u] = thread[u]
Ends(t) == thread' \in [Threads -> Callers] /\ Over(t, thread'[t]) /\ \A u \in Threads \ {t} : Alike(u)

Begins(t) ==
    /\ At(t, {"rest"}) /\ calls[t] < MaxCalls
    /\ thread' \in [Threads -> Callers] /\ thread'[t].at = "acquire" /\ thread'[t].conn = Nil /\ Same(t)
    /\ calls' = [calls EXCEPT ![t] = @ + 1]
    /\ UNCHANGED <<pool, links, executed>>

Takes(t) ==
    /\ At(t, Seeking) /\ idle # <<>> /\ Moves(t, "send", Head(idle))
    /\ idle' = Tail(idle)
    /\ UNCHANGED <<total, links, history>>

ReservesSlot(t) ==
    /\ At(t, Seeking) /\ idle = <<>> /\ total < MaxConnections /\ Moves(t, "open", thread[t].conn)
    /\ total' = total + 1
    /\ UNCHANGED <<idle, links, history>>

Waits(t) ==
    /\ At(t, Seeking) /\ ~Available /\ Moves(t, "wait", thread[t].conn)
    /\ UNCHANGED <<pool, links, history>>

GivesUp(t) ==
    /\ At(t, Seeking) /\ ~Available /\ Ends(t) /\ Same(t)
    /\ UNCHANGED <<pool, links, history>>

Opens(t, c) ==
    /\ At(t, {"open"}) /\ Moves(t, "send", c)
    /\ conn[c] = Closed /\ c \notin InSeq(idle) /\ \A u \in Threads : thread[u].conn # c
    /\ conn' = [conn EXCEPT ![c] = Fresh]
    /\ UNCHANGED <<pool, orphans, history>>

FreesSlot(t) ==
    /\ At(t, {"open"}) /\ Ends(t) /\ WakesOne(t)
    /\ total' = total - 1
    /\ UNCHANGED <<idle, links, history>>

Completes(t) ==
    /\ At(t, {"send", "receive"}) /\ Moves(t, "release", thread[t].conn)
    /\ UNCHANGED <<pool, history>>

Releases(t) ==
    /\ At(t, {"release"}) /\ Ends(t) /\ WakesOne(t)
    /\ \/ /\ conn[thread[t].conn].client /\ thread[t].code # "Unavailable"
          /\ idle' = <<thread[t].conn>> \o idle /\ UNCHANGED total
       \/ total' = total - 1 /\ UNCHANGED idle
    /\ thread'[t].at = "acquire" => thread[t].code = "Unavailable"
    /\ UNCHANGED <<links, history>>

\* What the daemon does touches no caller and not the pool.
DaemonStep ==
    \/ \E c \in Conns : Execute(c) \/ Reply(c) \/ Drop(c)
    \/ \E r \in orphans : ExecuteOrphan(r)
    \/ Die \/ Restart \/ QueueFills \/ QueueDrains

\* Looking for a connection: one is taken, a slot is reserved, or there is neither.
LEMMA SeekingStep ==
    ASSUME CallerInv, NEW t \in Threads, Acquire(t) \/ AcquireWaits(t) \/ AcquireTimesOut(t)
    PROVE  Takes(t) \/ ReservesSlot(t) \/ Waits(t) \/ GivesUp(t)
<1>0. idle \in Seq(Conns) /\ idle # <<>> => Head(idle) \in Conns
  BY DEF CallerInv
<1>1. ASSUME At(t, Seeking), CheckOut(t) PROVE Takes(t) \/ ReservesSlot(t)
  <2>1. CASE idle # <<>>
    <3>1. Head(idle) \in Conns
      BY <2>1 DEF CallerInv
    <3>2. /\ thread' = [thread EXCEPT ![t].at = "send", ![t].conn = Head(idle)]
          /\ idle' = Tail(idle) /\ UNCHANGED <<total, links, history>>
      BY <1>1, <2>1 DEF CheckOut
    <3>3. QED
      BY <1>1, <2>1, <3>1, <3>2, LinkMoves, Zenon DEF Takes
  <2>2. CASE idle = <<>>
    <3>1. "open" \in Places
      BY DEF Places
    <3>2. /\ thread' = Goto(t, "open") /\ total < MaxConnections
          /\ total' = total + 1 /\ UNCHANGED <<idle, links, history>>
      BY <1>1, <2>2 DEF CheckOut, Available
    <3>3. QED
      BY <1>1, <2>2, <3>1, <3>2, GotoMoves DEF ReservesSlot
  <2>3. QED
    BY <2>1, <2>2
<1>2. CASE Acquire(t)
  BY <1>1, <1>2 DEF Acquire, At, Seeking
<1>3. CASE AcquireWaits(t)
  <2>1. "wait" \in Places
    BY DEF Places
  <2>2. QED
    BY <1>3, <2>1, GotoMoves DEF AcquireWaits, Waits, At, Seeking
<1>4. CASE AcquireTimesOut(t)
  <2>1. At(t, Seeking)
    BY <1>4 DEF AcquireTimesOut, At, Seeking
  <2>2. ASSUME ~Available, thread' = Retry(t, thread), UNCHANGED <<pool, links, history>>
        PROVE  GivesUp(t)
    <3>1. PICK n : Over(t, n) /\ thread' = [thread EXCEPT ![t] = n]
      BY <2>2, RetryOver
    <3>2. thread' \in [Threads -> Callers] /\ thread'[t] = n /\ Same(t)
      BY <3>1 DEF CallerInv, Over, Same
    <3>3. Ends(t)
      BY <3>1, <3>2 DEF Ends, Same, Alike
    <3>4. QED
      BY <2>1, <2>2, <3>2, <3>3 DEF GivesUp
  <2>3. QED
    BY <1>1, <1>4, <2>1, <2>2 DEF AcquireTimesOut
<1>5. QED
  BY <1>2, <1>3, <1>4

\* Giving a connection or a slot back.
LEMMA GivingStep ==
    ASSUME CallerInv, NEW t \in Threads, OpenFails(t) \/ Release(t)
    PROVE  FreesSlot(t) \/ Releases(t)
<1>0. thread \in [Threads -> Callers] /\ thread[t] \in Callers
  BY DEF CallerInv
<1>1. ASSUME NEW n, Over(t, n), thread' \in Notified([thread EXCEPT ![t] = n])
      PROVE  Ends(t) /\ WakesOne(t) /\ thread'[t] = n
  <2>1. n \in Callers /\ n.at # "wait"
    BY <1>1 DEF Over
  <2>2. QED
    BY <1>1, <2>1, NotifyWakes DEF Ends
<1>2. CASE OpenFails(t)
  <2>1. PICK n : Over(t, n) /\ Retry(t, thread) = [thread EXCEPT ![t] = n]
    BY RetryOver
  <2>2. thread' \in Notified([thread EXCEPT ![t] = n])
    BY <1>2, <2>1 DEF OpenFails
  <2>3. QED
    BY <1>1, <1>2, <2>1, <2>2, Zenon DEF OpenFails, FreesSlot
<1>3. CASE Release(t)
  <2> DEFINE next == IF thread[t].code = "Unavailable" THEN Retry(t, thread)
                     ELSE [thread EXCEPT ![t] = [Resting EXCEPT !.code = thread[t].code]]
  <2>1. \E n : /\ Over(t, n) /\ next = [thread EXCEPT ![t] = n]
               /\ n.at = "acquire" => thread[t].code = "Unavailable"
    <3>1. CASE thread[t].code = "Unavailable"
      BY <3>1, RetryOver
    <3>2. CASE thread[t].code # "Unavailable"
      <4> DEFINE n == [Resting EXCEPT !.code = thread[t].code]
      <4>1. thread[t].code \in Codes
        BY <1>0 DEF Callers
      <4>2. n \in Callers /\ n.at = "rest" /\ n.conn = Nil
        BY <4>1 DEF Resting, Callers, Places, Ops
      <4>3. next = [thread EXCEPT ![t] = n]
        BY <3>2
      <4> HIDE DEF n, next
      <4>4. QED
        BY <4>2, <4>3, Zenon DEF Over
    <3>3. QED
      BY <3>1, <3>2, Zenon
  <2>2. /\ thread' \in Notified(next) /\ At(t, {"release"}) /\ UNCHANGED <<links, history>>
        /\ \/ /\ conn[thread[t].conn].client /\ thread[t].code # "Unavailable"
              /\ idle' = <<thread[t].conn>> \o idle /\ UNCHANGED total
           \/ total' = total - 1 /\ UNCHANGED idle
    BY <1>3 DEF Release
  <2> HIDE DEF next
  <2>3. PICK n : /\ Over(t, n) /\ next = [thread EXCEPT ![t] = n]
                 /\ n.at = "acquire" => thread[t].code = "Unavailable"
    BY <2>1, Zenon
  <2>4. Ends(t) /\ WakesOne(t) /\ thread'[t] = n
    BY <1>1, <2>2, <2>3, Zenon
  <2>5. QED
    BY <2>2, <2>3, <2>4 DEF Releases
<1>4. QED
  BY <1>2, <1>3

\* Sending and receiving: how a call on a connection goes on.
Asks(t) == Send(t) /\ Moves(t, "receive", thread[t].conn)
Refuses(t) == RefusedLocally(t) /\ UNCHANGED links
Closes(t) == CloseEnd(thread[t].conn) /\ thread'[t].code \in {"Unavailable", "ProtocolError"}
Gets(t) ==
    /\ At(t, {"receive"}) /\ conn[thread[t].conn].in # <<>>
    /\ conn' = [conn EXCEPT ![thread[t].conn].in = Tail(@)] /\ UNCHANGED orphans
    /\ thread'[t].code = Head(conn[thread[t].conn].in).code

\* A reply carries one of the daemon's codes.
RepliesInv == \A c \in Conns : conn[c].in # <<>> => Head(conn[c].in).code \in ReplyCodes

\* A call is sent, refused, given up or answered.
LEMMA TalkingStep ==
    ASSUME CallerInv, RepliesInv, NEW t \in Threads,
           \/ RefusedLocally(t) \/ Send(t) \/ SendFails(t)
           \/ Receive(t) \/ ReceiveEnds(t) \/ ReceiveTimesOut(t)
    PROVE  \/ Asks(t) /\ UNCHANGED <<pool, history>>
           \/ Completes(t) /\ (Refuses(t) \/ Closes(t) \/ Gets(t))
<1>0. {"Unavailable", "ProtocolError", "InvalidArgument"} \subseteq Codes
  BY DEF Codes
<1>1. CASE Send(t)
  <2>1. "receive" \in Places
    BY DEF Places
  <2>2. QED
    BY <1>1, <2>1, GotoMoves DEF Send, Asks
<1>2. CASE RefusedLocally(t)
  <2>1. Moves(t, "release", thread[t].conn)
    BY <1>0, <1>2, ResultMoves DEF RefusedLocally
  <2>2. QED
    BY <1>2, <2>1 DEF RefusedLocally, Refuses, Completes, At
<1>3. ASSUME At(t, {"send", "receive"}), CloseEnd(thread[t].conn),
             NEW k \in {"Unavailable", "ProtocolError"}, thread' = Result(t, k),
             UNCHANGED <<pool, daemon, history>>
      PROVE  Completes(t) /\ Closes(t)
  <2>1. Moves(t, "release", thread[t].conn) /\ thread'[t].code = k
    BY <1>0, <1>3, ResultMoves
  <2>2. QED
    BY <1>3, <2>1 DEF Completes, Closes
<1>4. CASE SendFails(t) \/ ReceiveEnds(t) \/ ReceiveTimesOut(t)
  <2>1. /\ At(t, {"send", "receive"}) /\ CloseEnd(thread[t].conn)
        /\ thread' = Result(t, "Unavailable") /\ UNCHANGED <<pool, daemon, history>>
    BY <1>4 DEF SendFails, ReceiveEnds, ReceiveTimesOut, At
  <2>2. QED
    BY <1>3, <2>1
<1>5. CASE Receive(t)
  <2> DEFINE c == thread[t].conn
             matches == Head(conn[c].in).id = conn[c].next - 1
  <2>1. /\ At(t, {"receive"}) /\ conn[c].in # <<>> /\ UNCHANGED <<pool, daemon, history>>
        /\ IF matches THEN conn' = [conn EXCEPT ![c].in = Tail(@)] /\ UNCHANGED orphans
                      ELSE CloseEnd(c)
        /\ thread' = Result(t, IF matches THEN Head(conn[c].in).code ELSE "ProtocolError")
    BY <1>5, Zenon DEF Receive
  <2>2. At(t, {"send", "receive"})
    BY <2>1, Zenon DEF At
  <2>3. CASE ~matches
    <3>1. CloseEnd(thread[t].conn) /\ thread' = Result(t, "ProtocolError")
      BY <2>1, <2>3
    <3>2. QED
      BY <1>3, <2>1, <2>2, <3>1, Zenon
  <2>4. CASE matches
    <3>1. c \in Conns
      BY <2>1 DEF CallerInv, At, Connected
    <3>2. Head(conn[c].in).code \in Codes
      BY <2>1, <3>1, Zenon DEF RepliesInv, Codes
    <3>3. thread' = Result(t, Head(conn[c].in).code)
      BY <2>1, <2>4
    <3>4. Moves(t, "release", thread[t].conn) /\ thread'[t].code = Head(conn[c].in).code
      BY <3>2, <3>3, ResultMoves, Zenon
    <3>5. QED
      BY <2>1, <2>2, <2>4, <3>4, Zenon DEF Completes, Gets
  <2>5. QED
    BY <2>3, <2>4
<1>6. QED
  BY <1>1, <1>2, <1>4, <1>5

\* Every step is of one of these kinds.
LEMMA StepKinds ==
    ASSUME CallerInv, RepliesInv, [Next]_vars
    PROVE  \/ \E t \in Threads :
                \/ Begins(t) \/ Takes(t) \/ ReservesSlot(t) \/ Waits(t) \/ GivesUp(t)
                \/ FreesSlot(t) \/ Releases(t)
                \/ \E c \in Conns : Opens(t, c)
                \/ Asks(t) /\ UNCHANGED <<pool, history>>
                \/ Completes(t) /\ (Refuses(t) \/ Closes(t) \/ Gets(t))
           \/ DaemonStep
           \/ UNCHANGED vars
<1>1. ASSUME NEW t \in Threads, NEW op \in Ops, Begin(t, op) PROVE Begins(t)
  <2> DEFINE n == [Resting EXCEPT !.at = "acquire", !.op = op]
  <2>1. n \in Callers /\ n.at = "acquire" /\ n.conn = Nil
    BY Zenon DEF Resting, Callers, Places, Codes
  <2>2. thread' = [thread EXCEPT ![t] = n]
    BY <1>1 DEF Begin
  <2> HIDE DEF n
  <2>3. thread' \in [Threads -> Callers] /\ thread'[t] = n /\ Same(t)
    BY <2>1, <2>2 DEF CallerInv, Same
  <2>4. QED
    BY <1>1, <2>1, <2>3, Zenon DEF Begin, Begins
<1>2. ASSUME NEW t \in Threads, Open(t) PROVE \E c \in Conns : Opens(t, c)
  <2>1. PICK c \in Conns :
            /\ conn[c] = Closed /\ c \notin InSeq(idle)
            /\ \A u \in Threads : thread[u].conn # c
            /\ conn' = [conn EXCEPT ![c] = Fresh]
            /\ thread' = [thread EXCEPT ![t].at = "send", ![t].conn = c]
    BY <1>2, Zenon DEF Open
  <2>2. Moves(t, "send", c)
    BY <2>1, LinkMoves, Zenon
  <2>3. QED
    BY <1>2, <2>1, <2>2, Zenon DEF Open, Opens
<1>3. QED
  BY <1>1, <1>2, SeekingStep, GivingStep, TalkingStep DEF Next, CallStep, OpenRefused, DaemonStep

-----------------------------------------------------------------------------
(* The idle list *)

Distinct(q) == \A i, j \in 1 .. Len(q) : q[i] = q[j] => i = j

\* Taking the newest connection.
LEMMA TailOf ==
    ASSUME NEW q \in Seq(Conns), q # <<>>, Distinct(q)
    PROVE  /\ Head(q) \in Conns /\ Tail(q) \in Seq(Conns) /\ Len(Tail(q)) = Len(q) - 1
           /\ Distinct(Tail(q))
           /\ InSeq(Tail(q)) = InSeq(q) \ {Head(q)} /\ Head(q) \in InSeq(q)
<1>1. /\ Head(q) \in Conns /\ Tail(q) \in Seq(Conns) /\ Len(Tail(q)) = Len(q) - 1
      /\ \A i \in 1 .. Len(q) - 1 : Tail(q)[i] = q[i + 1]
      /\ Len(q) \in Nat /\ Len(q) > 0 /\ Head(q) = q[1]
  OBVIOUS
<1>2. Distinct(Tail(q))
  BY <1>1 DEF Distinct
<1>3. ASSUME NEW x PROVE x \in InSeq(Tail(q)) <=> x \in InSeq(q) \ {Head(q)}
  <2>1. ASSUME NEW i \in 1 .. Len(q) - 1
        PROVE  Tail(q)[i] \in InSeq(q) /\ Tail(q)[i] # Head(q)
    <3>1. i + 1 \in 1 .. Len(q) /\ 1 \in 1 .. Len(q) /\ i + 1 # 1 /\ Tail(q)[i] = q[i + 1]
      BY <1>1
    <3>2. QED
      BY <1>1, <3>1 DEF InSeq, Distinct
  <2>2. ASSUME NEW i \in 1 .. Len(q), q[i] # Head(q) PROVE q[i] \in InSeq(Tail(q))
    <3>1. i # 1
      BY <1>1, <2>2
    <3>2. i - 1 \in 1 .. Len(q) - 1 /\ (i - 1) + 1 = i
      BY <1>1, <3>1
    <3>3. Tail(q)[i - 1] = q[i]
      BY <1>1, <3>2
    <3>4. QED
      BY <1>1, <3>2, <3>3 DEF InSeq
  <2>3. QED
    BY <1>1, <2>1, <2>2, Zenon DEF InSeq
<1>4. Head(q) \in InSeq(q)
  BY <1>1 DEF InSeq
<1>5. QED
  BY <1>1, <1>2, <1>3, <1>4

\* What a sequence of one element holds.
LEMMA InOne == ASSUME NEW r PROVE InSeq(<<r>>) = {r}
<1>1. 1 .. Len(<<r>>) = {1} /\ <<r>>[1] = r
  OBVIOUS
<1>2. QED
  BY <1>1, Zenon DEF InSeq

\* What concatenation does to a sequence over S.
LEMMA ConcatIs ==
    ASSUME NEW S, NEW a \in Seq(S), NEW b \in Seq(S)
    PROVE  /\ a \o b \in Seq(S)
           /\ Len(a \o b) = Len(a) + Len(b)
           /\ \A j \in 1 .. Len(a) + Len(b) :
                 (a \o b)[j] = IF j <= Len(a) THEN a[j] ELSE b[j - Len(a)]
  OBVIOUS

\* Putting a connection in front.
LEMMA ConsOf ==
    ASSUME NEW q \in Seq(Conns), NEW c \in Conns, c \notin InSeq(q), Distinct(q)
    PROVE  /\ <<c>> \o q \in Seq(Conns) /\ Len(<<c>> \o q) = Len(q) + 1
           /\ Distinct(<<c>> \o q) /\ InSeq(<<c>> \o q) = InSeq(q) \cup {c}
<1> DEFINE one == <<c>>
           r == one \o q
<1>0. one \in Seq(Conns) /\ Len(one) = 1 /\ one[1] = c /\ Len(q) \in Nat
  OBVIOUS
<1> HIDE DEF one
<1>1. /\ r \in Seq(Conns) /\ Len(r) = 1 + Len(q)
      /\ \A i \in 1 .. 1 + Len(q) : r[i] = IF i <= 1 THEN one[i] ELSE q[i - 1]
  <2>1. /\ r \in Seq(Conns) /\ Len(r) = Len(one) + Len(q)
        /\ \A i \in 1 .. Len(one) + Len(q) : r[i] = IF i <= Len(one) THEN one[i] ELSE q[i - Len(one)]
    BY <1>0, ConcatIs, Zenon
  <2> HIDE DEF r
  <2>2. QED
    BY <1>0, <2>1
<1> HIDE DEF r
<1>2. /\ r[1] = c /\ \A i \in 1 .. Len(q) : r[i + 1] = q[i] /\ r[i + 1] # c
      /\ \A i \in 2 .. 1 + Len(q) : i - 1 \in 1 .. Len(q) /\ r[i] = q[i - 1] /\ r[i] # c
  BY <1>0, <1>1 DEF InSeq
<1>3. Distinct(r)
  <2> SUFFICES ASSUME NEW i \in 1 .. 1 + Len(q), NEW j \in 1 .. 1 + Len(q), r[i] = r[j] PROVE i = j
    BY <1>0, <1>1 DEF Distinct
  <2>1. CASE i = 1 \/ j = 1
    BY <1>0, <1>2, <2>1
  <2>2. CASE i # 1 /\ j # 1
    <3>1. i \in 2 .. 1 + Len(q) /\ j \in 2 .. 1 + Len(q)
      BY <1>0, <2>2
    <3>2. q[i - 1] = q[j - 1] /\ i - 1 \in 1 .. Len(q) /\ j - 1 \in 1 .. Len(q)
      BY <1>2, <3>1
    <3>3. i - 1 = j - 1
      BY <3>2 DEF Distinct
    <3>4. QED
      BY <3>1, <3>3, <1>0
  <2>3. QED
    BY <2>1, <2>2
<1>4. ASSUME NEW x PROVE x \in InSeq(r) <=> x \in InSeq(q) \cup {c}
  <2>1. ASSUME NEW i \in 1 .. 1 + Len(q) PROVE r[i] \in InSeq(q) \cup {c}
    <3>1. CASE i = 1
      BY <1>2, <3>1
    <3>2. CASE i # 1
      <4>1. i \in 2 .. 1 + Len(q)
        BY <1>0, <3>2
      <4>2. QED
        BY <1>2, <4>1 DEF InSeq
    <3>3. QED
      BY <3>1, <3>2
  <2>2. ASSUME NEW i \in 1 .. Len(q) PROVE q[i] \in InSeq(r)
    <3>1. i + 1 \in 1 .. Len(r) /\ r[i + 1] = q[i]
      BY <1>0, <1>1, <1>2
    <3>2. QED
      BY <3>1 DEF InSeq
  <2>3. c \in InSeq(r)
    BY <1>0, <1>1, <1>2 DEF InSeq
  <2>4. QED
    BY <1>1, <2>1, <2>2, <2>3, Zenon DEF InSeq
<1>5. QED
  BY <1>0, <1>1, <1>3, <1>4 DEF r, one

\* A list without repetitions has as many elements as it is long.
LEMMA DistinctCounts ==
    ASSUME NEW q \in Seq(Conns), Distinct(q)
    PROVE  Cardinality(InSeq(q)) = Len(q)
<1> DEFINE D == 1 .. Len(q)
<1>1. Len(q) \in Nat /\ q \in [D -> Conns]
  OBVIOUS
<1>2. IsFiniteSet(D) /\ Cardinality(D) = Len(q)
  BY <1>1, FS_Interval
<1>3. q \in [D -> InSeq(q)]
  BY <1>1 DEF InSeq
<1>4. q \in Surjection(D, InSeq(q))
  BY <1>3 DEF Surjection, InSeq
<1>5. q \in Injection(D, InSeq(q))
  BY <1>3 DEF Injection, IsInjective, Distinct
<1> HIDE DEF D
<1>6. QED
  BY <1>2, <1>4, <1>5, FS_Surjection

-----------------------------------------------------------------------------
(* The pool's books *)

OwnInv ==
    /\ Distinct(idle)
    /\ \A t \in Threads : At(t, Connected) =>
        /\ thread[t].conn \notin InSeq(idle)
        /\ \A u \in Threads \ {t} : thread[u].conn # thread[t].conn
    /\ total = Len(idle) + Cardinality(Holding) /\ total <= MaxConnections

\* A caller within an attempt keeps the types.
LEMMA MovesTyped ==
    ASSUME CallerInv, NEW t \in Threads, ~At(t, {"rest"}), NEW place, NEW link,
           Moves(t, place, link), link \in Conns <=> place \in Connected,
           idle' \in Seq(Conns), total' \in Int, UNCHANGED calls
    PROVE  CallerInv'
<1>1. thread' \in [Threads -> Callers] /\ calls' = calls /\ calls[t] > 0
  BY DEF Moves, CallerInv
<1>2. ASSUME NEW u \in Threads
      PROVE  /\ thread'[u].conn \in Conns <=> thread'[u].at \in Connected
             /\ thread'[u].at # "rest" => calls[u] > 0
  <2>1. CASE u = t
    BY <1>1, <2>1 DEF Moves
  <2>2. CASE u # t
    BY <2>2 DEF Moves, CallerInv, At
  <2>3. QED
    BY <2>1, <2>2
<1>3. QED
  BY <1>1, <1>2 DEF CallerInv, At

\* So does one whose attempt is over.
LEMMA EndsTyped ==
    ASSUME CallerInv, NEW t \in Threads, ~At(t, {"rest"}), Ends(t),
           idle' \in Seq(Conns), total' \in Int, UNCHANGED calls
    PROVE  CallerInv'
<1>1. thread' \in [Threads -> Callers] /\ calls' = calls /\ calls[t] > 0
  BY DEF Ends, CallerInv
<1>2. ASSUME NEW u \in Threads
      PROVE  /\ thread'[u].conn \in Conns <=> thread'[u].at \in Connected
             /\ thread'[u].at # "rest" => calls[u] > 0
  <2>1. CASE u = t
    BY <1>1, <2>1, SdkAssumption DEF Ends, Over, Connected
  <2>2. CASE u # t
    BY <2>2 DEF Ends, Alike, CallerInv, At, Connected
  <2>3. QED
    BY <2>1, <2>2
<1>3. QED
  BY <1>1, <1>2 DEF CallerInv, At

\* Every step keeps the types, and a caller has a connection exactly from the
\* moment it holds one to the moment it lets it go.
LEMMA CallerStep == CallerInv /\ OwnInv /\ RepliesInv /\ [Next]_vars => CallerInv'
<1> SUFFICES ASSUME CallerInv, OwnInv, RepliesInv, [Next]_vars PROVE CallerInv'
  OBVIOUS
<1> USE DEF pool, history
<1>0. /\ thread \in [Threads -> Callers] /\ calls \in [Threads -> 0 .. MaxCalls]
      /\ idle \in Seq(Conns) /\ total \in Int /\ MaxCalls \in Nat
      /\ \A t \in Threads : thread[t].conn \in Conns <=> thread[t].at \in Connected
  BY SdkAssumption DEF CallerInv, At
<1>1. ASSUME NEW t \in Threads, Begins(t) PROVE CallerInv'
  <2>1. /\ thread' \in [Threads -> Callers] /\ thread'[t].at = "acquire" /\ thread'[t].conn \notin Conns
        /\ \A u \in Threads \ {t} : thread'[u] = thread[u]
        /\ calls' = [calls EXCEPT ![t] = @ + 1] /\ calls[t] < MaxCalls /\ idle' = idle /\ total' = total
    BY <1>1, SdkAssumption DEF Begins, Same
  <2>2. calls' \in [Threads -> 0 .. MaxCalls] /\ calls'[t] > 0
        /\ \A u \in Threads \ {t} : calls'[u] = calls[u]
    BY <1>0, <2>1
  <2>3. ASSUME NEW u \in Threads
        PROVE  /\ thread'[u].conn \in Conns <=> thread'[u].at \in Connected
               /\ thread'[u].at # "rest" => calls'[u] > 0
    <3>1. CASE u = t
      BY <2>1, <2>2, <3>1 DEF Connected
    <3>2. CASE u # t
      BY <2>1, <2>2, <3>2 DEF CallerInv, At
    <3>3. QED
      BY <3>1, <3>2
  <2>4. QED
    BY <1>0, <2>1, <2>2, <2>3 DEF CallerInv, At
<1>2. ASSUME NEW t \in Threads, Takes(t) PROVE CallerInv'
  <2>1. /\ ~At(t, {"rest"}) /\ Moves(t, "send", Head(idle)) /\ idle # <<>>
        /\ idle' = Tail(idle) /\ total' = total /\ UNCHANGED calls
    BY <1>2 DEF Takes, At, Seeking
  <2>2. Head(idle) \in Conns /\ idle' \in Seq(Conns)
    BY <1>0, <2>1, TailOf DEF OwnInv
  <2>3. Head(idle) \in Conns <=> "send" \in Connected
    BY <2>2 DEF Connected
  <2>4. QED
    BY <1>0, <2>1, <2>2, <2>3, MovesTyped
<1>3. ASSUME NEW t \in Threads, ReservesSlot(t) \/ Waits(t) PROVE CallerInv'
  <2>1. PICK place \in {"open", "wait"} : Moves(t, place, thread[t].conn)
    BY <1>3 DEF ReservesSlot, Waits
  <2>2. ~At(t, {"rest"}) /\ thread[t].conn \notin Conns /\ place \notin Connected
    BY <1>0, <1>3 DEF ReservesSlot, Waits, At, Seeking, Connected
  <2>3. idle' = idle /\ total' \in Int /\ UNCHANGED calls
    BY <1>0, <1>3 DEF ReservesSlot, Waits
  <2>4. QED
    BY <1>0, <2>1, <2>2, <2>3, MovesTyped
<1>4. ASSUME NEW t \in Threads, GivesUp(t) \/ FreesSlot(t) \/ Releases(t) PROVE CallerInv'
  <2>1. ~At(t, {"rest"}) /\ Ends(t) /\ UNCHANGED calls
    BY <1>4 DEF GivesUp, FreesSlot, Releases, At, Seeking
  <2>2. total' \in Int
    BY <1>0, <1>4 DEF GivesUp, FreesSlot, Releases
  <2>3. idle' \in Seq(Conns)
    <3>1. CASE idle' = idle
      BY <1>0, <3>1
    <3>2. CASE Releases(t) /\ idle' = <<thread[t].conn>> \o idle
      <4>1. thread[t].conn \in Conns /\ thread[t].conn \notin InSeq(idle)
        BY <1>0, <3>2 DEF Releases, At, OwnInv, Connected
      <4>2. QED
        BY <1>0, <3>2, <4>1, ConsOf DEF OwnInv
    <3>3. QED
      BY <1>4, <3>1, <3>2 DEF GivesUp, FreesSlot, Releases
  <2>4. QED
    BY <2>1, <2>2, <2>3, EndsTyped
<1>5. ASSUME NEW t \in Threads, NEW c \in Conns, Opens(t, c) PROVE CallerInv'
  <2>1. ~At(t, {"rest"}) /\ Moves(t, "send", c) /\ UNCHANGED <<idle, total, calls>>
    BY <1>5 DEF Opens, At
  <2>2. c \in Conns <=> "send" \in Connected
    BY DEF Connected
  <2>3. QED
    BY <1>0, <2>1, <2>2, MovesTyped
<1>6. ASSUME NEW t \in Threads, \/ Asks(t) /\ UNCHANGED <<pool, history>>
                                \/ Completes(t)
      PROVE  CallerInv'
  <2>1. PICK place \in {"receive", "release"} : Moves(t, place, thread[t].conn)
    BY <1>6 DEF Asks, Completes
  <2>2. ~At(t, {"rest"}) /\ thread[t].conn \in Conns /\ place \in Connected
    BY <1>0, <1>6 DEF Asks, Send, Completes, At, Connected
  <2>3. UNCHANGED <<idle, total, calls>>
    BY <1>6 DEF Completes
  <2>4. QED
    BY <1>0, <2>1, <2>2, <2>3, MovesTyped
<1>7. CASE DaemonStep \/ UNCHANGED vars
  <2>1. UNCHANGED <<thread, calls, idle, total>>
    BY <1>7, Zenon DEF DaemonStep, Execute, Reply, Drop, ExecuteOrphan, Die, Restart,
      QueueFills, QueueDrains, vars
  <2>2. QED
    BY <2>1 DEF CallerInv, At
<1>8. QED
  BY <1>1, <1>2, <1>3, <1>4, <1>5, <1>6, <1>7, StepKinds

\* Who holds a connection or a slot, when only t's position counts.
LEMMA HoldingStep ==
    ASSUME CallerInv, NEW t \in Threads, \A u \in Threads \ {t} : Alike(u)
    PROVE  /\ IsFiniteSet(Holding) /\ Cardinality(Holding) \in Nat
           /\ At(t, {"open", "send", "receive", "release"})
                /\ thread'[t].at \in {"open", "send", "receive", "release"}
                => Cardinality(Holding') = Cardinality(Holding)
           /\ ~At(t, {"open", "send", "receive", "release"})
                /\ thread'[t].at \notin {"open", "send", "receive", "release"}
                => Cardinality(Holding') = Cardinality(Holding)
           /\ ~At(t, {"open", "send", "receive", "release"})
                /\ thread'[t].at \in {"open", "send", "receive", "release"}
                => Cardinality(Holding') = Cardinality(Holding) + 1
           /\ At(t, {"open", "send", "receive", "release"})
                /\ thread'[t].at \notin {"open", "send", "receive", "release"}
                => Cardinality(Holding') = Cardinality(Holding) - 1
<1> DEFINE H == {"open", "send", "receive", "release"}
<1>1. Holding \subseteq Threads
  BY DEF Holding
<1>2. IsFiniteSet(Holding) /\ Cardinality(Holding) \in Nat
  BY <1>1, SdkAssumption, FS_Subset, FS_CardinalityType
<1>3. \A u \in Threads \ {t} : thread'[u].at \in H <=> thread[u].at \in H
  BY DEF Alike
<1>4. Holding = {u \in Threads : thread[u].at \in H} /\ Holding' = {u \in Threads : thread'[u].at \in H}
  BY DEF Holding, At
<1> HIDE DEF H
<1>5. (thread[t].at \in H <=> thread'[t].at \in H) => Holding' = Holding
  BY <1>3, <1>4
<1>6. thread[t].at \notin H /\ thread'[t].at \in H => Holding' = Holding \cup {t} /\ t \notin Holding
  BY <1>3, <1>4
<1>7. thread[t].at \in H /\ thread'[t].at \notin H => Holding' = Holding \ {t} /\ t \in Holding
  BY <1>3, <1>4
<1>8. thread[t].at \notin H /\ thread'[t].at \in H => Cardinality(Holding') = Cardinality(Holding) + 1
  BY <1>2, <1>6, FS_AddElement
<1>9. thread[t].at \in H /\ thread'[t].at \notin H => Cardinality(Holding') = Cardinality(Holding) - 1
  BY <1>2, <1>7, FS_RemoveElement
<1>10. QED
  BY <1>2, <1>5, <1>8, <1>9 DEF H, At

\* A caller that takes over a connection nobody has, or lets go of its own.
Fair(t) ==
    /\ \A u \in Threads \ {t} : Alike(u)
    /\ thread'[t].conn \in Conns /\ thread'[t].conn # thread[t].conn =>
          \A u \in Threads : thread[u].conn # thread'[t].conn

\* No connection gets into two hands.
LEMMA OwnersApart ==
    ASSUME CallerInv, OwnInv, CallerInv', NEW t \in Threads, Fair(t),
           \A u \in Threads \ {t} : At(u, Connected) => thread[u].conn \notin InSeq(idle'),
           thread'[t].conn \in Conns => thread'[t].conn \notin InSeq(idle')
    PROVE  \A v \in Threads : At(v, Connected)' =>
              /\ thread'[v].conn \notin InSeq(idle')
              /\ \A u \in Threads \ {v} : thread'[u].conn # thread'[v].conn
<1> SUFFICES ASSUME NEW v \in Threads, thread'[v].conn \in Conns
             PROVE  /\ thread'[v].conn \notin InSeq(idle')
                    /\ \A u \in Threads \ {v} : thread'[u].conn # thread'[v].conn
  BY DEF CallerInv, At
<1>1. \A u \in Threads : thread[u].conn \in Conns <=> At(u, Connected)
  BY DEF CallerInv
<1>2. \A u \in Threads \ {t} : thread'[u].conn = thread[u].conn
  BY DEF Fair, Alike
<1>3. \A u \in Threads, w \in Threads : u # w /\ thread[u].conn \in Conns => thread[w].conn # thread[u].conn
  BY <1>1 DEF OwnInv
<1>4. thread'[v].conn \notin InSeq(idle')
  BY <1>1, <1>2
<1>5. ASSUME NEW u \in Threads \ {v} PROVE thread'[u].conn # thread'[v].conn
  <2>1. CASE v # t /\ u # t
    BY <1>2, <1>3, <2>1
  <2>2. CASE v = t
    BY <1>2, <1>3, <2>2 DEF Fair
  <2>3. CASE u = t
    BY <1>2, <1>3, <2>3 DEF Fair
  <2>4. QED
    BY <2>1, <2>2, <2>3
<1>6. QED
  BY <1>4, <1>5

\* Every step keeps the books.
LEMMA OwnStep == CallerInv /\ OwnInv /\ RepliesInv /\ [Next]_vars => OwnInv'
<1> SUFFICES ASSUME CallerInv, OwnInv, RepliesInv, [Next]_vars PROVE OwnInv'
  OBVIOUS
<1> USE DEF pool, history
<1>a. CallerInv'
  BY CallerStep
<1>0. /\ thread \in [Threads -> Callers] /\ idle \in Seq(Conns) /\ Len(idle) \in Nat /\ total \in Int
      /\ \A t \in Threads : thread[t].conn \in Conns <=> thread[t].at \in Connected
      /\ Distinct(idle) /\ MaxConnections \in Nat
      /\ \A t \in Threads : At(t, Connected) => thread[t].conn \notin InSeq(idle)
      /\ total = Len(idle) + Cardinality(Holding) /\ total <= MaxConnections
  BY SdkAssumption DEF CallerInv, OwnInv, At
<1>b. \A t \in Threads : \A place, link : Moves(t, place, link) =>
         /\ \A u \in Threads \ {t} : Alike(u)
         /\ thread'[t].at = place /\ thread'[t].conn = link
  BY DEF Moves, Alike
<1>c. \A t \in Threads : Ends(t) =>
         /\ Fair(t) /\ thread'[t].conn \notin Conns
         /\ thread'[t].at \notin {"open", "send", "receive", "release"}
  BY SdkAssumption DEF Ends, Over, Fair
<1>1. ASSUME NEW t \in Threads, Begins(t) \/ Waits(t) \/ GivesUp(t) PROVE OwnInv'
  <2>1. /\ \A u \in Threads \ {t} : Alike(u)
        /\ thread'[t].conn \notin Conns /\ idle' = idle /\ total' = total
        /\ ~At(t, {"open", "send", "receive", "release"})
        /\ thread'[t].at \notin {"open", "send", "receive", "release"}
    <3>1. CASE Begins(t)
      BY <3>1, SdkAssumption DEF Begins, Same, Alike, At
    <3>2. CASE Waits(t)
      BY <1>0, <1>b, <3>2 DEF Waits, At, Seeking, Connected
    <3>3. CASE GivesUp(t)
      BY <1>c, <3>3 DEF GivesUp, Fair, At, Seeking
    <3>4. QED
      BY <1>1, <3>1, <3>2, <3>3, Zenon
  <2>2. Fair(t)
    BY <2>1 DEF Fair
  <2>3. Cardinality(Holding') = Cardinality(Holding)
    BY <2>1, HoldingStep
  <2>4. QED
    BY <1>a, <1>0, <2>1, <2>2, <2>3, OwnersApart, Zenon DEF OwnInv
<1>2. ASSUME NEW t \in Threads, Takes(t) PROVE OwnInv'
  <2>1. /\ idle # <<>> /\ idle' = Tail(idle) /\ total' = total
        /\ \A u \in Threads \ {t} : Alike(u)
        /\ thread'[t].at = "send" /\ thread'[t].conn = Head(idle)
        /\ ~At(t, {"open", "send", "receive", "release"})
    BY <1>2, <1>b DEF Takes, At, Seeking
  <2>2. /\ Head(idle) \in Conns /\ Len(idle') = Len(idle) - 1 /\ Distinct(idle')
        /\ InSeq(idle') = InSeq(idle) \ {Head(idle)} /\ Head(idle) \in InSeq(idle)
    BY <1>0, <2>1, TailOf
  <2>3. Fair(t)
    BY <1>0, <2>1, <2>2 DEF Fair, At
  <2>4. Cardinality(Holding') = Cardinality(Holding) + 1 /\ Cardinality(Holding) \in Nat
    BY <2>1, HoldingStep
  <2>5. total' = Len(idle') + Cardinality(Holding')
    BY <1>0, <2>1, <2>2, <2>4
  <2>6. QED
    BY <1>a, <1>0, <2>1, <2>2, <2>3, <2>5, OwnersApart, Zenon DEF OwnInv
<1>3. ASSUME NEW t \in Threads, ReservesSlot(t) PROVE OwnInv'
  <2>1. /\ total < MaxConnections /\ idle' = idle /\ total' = total + 1
        /\ \A u \in Threads \ {t} : Alike(u)
        /\ thread'[t].at = "open" /\ thread'[t].conn = thread[t].conn
        /\ ~At(t, {"open", "send", "receive", "release"})
    BY <1>3, <1>b, Zenon DEF ReservesSlot, At, Seeking
  <2>2. Fair(t) /\ thread'[t].conn \notin Conns
    BY <1>0, <2>1, Zenon DEF Fair, At, Connected
  <2>3. Cardinality(Holding') = Cardinality(Holding) + 1 /\ Cardinality(Holding) \in Nat
    BY <2>1, HoldingStep
  <2>4. total' = Len(idle') + Cardinality(Holding') /\ total' <= MaxConnections
    BY <1>0, <2>1, <2>3
  <2>5. QED
    BY <1>a, <1>0, <2>1, <2>2, <2>4, OwnersApart, Zenon DEF OwnInv
<1>4. ASSUME NEW t \in Threads, FreesSlot(t) \/ Releases(t) PROVE OwnInv'
  <2>1. /\ Fair(t) /\ thread'[t].conn \notin Conns
        /\ thread'[t].at \notin {"open", "send", "receive", "release"}
        /\ At(t, {"open", "send", "receive", "release"})
    BY <1>4, <1>c DEF FreesSlot, Releases, At
  <2>2. Cardinality(Holding') = Cardinality(Holding) - 1 /\ Cardinality(Holding) \in Nat
    BY <2>1, HoldingStep DEF Fair
  <2>3. CASE total' = total - 1 /\ idle' = idle
    <3>1. total' = Len(idle') + Cardinality(Holding') /\ total' <= MaxConnections
      BY <1>0, <2>2, <2>3
    <3>2. QED
      BY <1>a, <1>0, <2>1, <2>3, <3>1, OwnersApart, Zenon DEF OwnInv
  <2>4. CASE Releases(t) /\ idle' = <<thread[t].conn>> \o idle /\ total' = total
    <3>1. thread[t].conn \in Conns /\ thread[t].conn \notin InSeq(idle)
      BY <1>0, <2>4, Zenon DEF Releases, At, Connected
    <3>2. /\ Len(idle') = Len(idle) + 1 /\ Distinct(idle')
          /\ InSeq(idle') = InSeq(idle) \cup {thread[t].conn}
      BY <1>0, <2>4, <3>1, ConsOf
    <3>3. total' = Len(idle') + Cardinality(Holding')
      BY <1>0, <2>2, <2>4, <3>2
    <3>4. \A u \in Threads \ {t} : At(u, Connected) => thread[u].conn \notin InSeq(idle')
      BY <3>1, <3>2 DEF OwnInv
    <3>5. QED
      BY <1>a, <1>0, <2>1, <2>4, <3>2, <3>3, <3>4, OwnersApart, Zenon DEF OwnInv
  <2>5. QED
    BY <1>4, <2>3, <2>4, Zenon DEF FreesSlot, Releases
<1>5. ASSUME NEW t \in Threads, NEW c \in Conns, Opens(t, c) PROVE OwnInv'
  <2>1. /\ UNCHANGED <<idle, total>> /\ c \notin InSeq(idle) /\ \A u \in Threads : thread[u].conn # c
        /\ \A u \in Threads \ {t} : Alike(u)
        /\ thread'[t].at = "send" /\ thread'[t].conn = c
        /\ At(t, {"open", "send", "receive", "release"})
    BY <1>5, <1>b, Zenon DEF Opens, At
  <2>2. Fair(t)
    BY <2>1 DEF Fair
  <2>3. Cardinality(Holding') = Cardinality(Holding)
    BY <2>1, HoldingStep, Zenon
  <2>4. QED
    BY <1>a, <1>0, <2>1, <2>2, <2>3, OwnersApart, Zenon DEF OwnInv
<1>6. ASSUME NEW t \in Threads, \/ Asks(t) /\ UNCHANGED <<pool, history>>
                                \/ Completes(t)
      PROVE  OwnInv'
  <2>1. /\ UNCHANGED <<idle, total>> /\ \A u \in Threads \ {t} : Alike(u)
        /\ thread'[t].at \in {"open", "send", "receive", "release"}
        /\ thread'[t].conn = thread[t].conn
        /\ At(t, {"open", "send", "receive", "release"}) /\ At(t, Connected)
    BY <1>6, <1>b, Zenon DEF Asks, Send, Completes, At, Connected
  <2>2. Fair(t)
    BY <2>1 DEF Fair
  <2>3. Cardinality(Holding') = Cardinality(Holding)
    BY <2>1, HoldingStep
  <2>4. QED
    BY <1>a, <1>0, <2>1, <2>2, <2>3, OwnersApart, Zenon DEF OwnInv
<1>7. CASE DaemonStep \/ UNCHANGED vars
  <2>1. UNCHANGED <<thread, calls, idle, total>>
    BY <1>7, Zenon DEF DaemonStep, Execute, Reply, Drop, ExecuteOrphan, Die, Restart,
      QueueFills, QueueDrains, vars
  <2>2. QED
    BY <2>1 DEF OwnInv, Holding, At, Distinct, InSeq
<1>8. QED
  BY <1>1, <1>2, <1>3, <1>4, <1>5, <1>6, <1>7, StepKinds
=============================================================================
