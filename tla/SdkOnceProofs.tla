--------------------------- MODULE SdkOnceProofs ----------------------------
(* SdkClient carries a recording recommendation out at most once. *)
EXTENDS SdkClientProofs

-----------------------------------------------------------------------------
(* How often a recommendation is carried out *)

AllCalls == Threads \X (1 .. MaxCalls)
Call(t) == <<t, calls[t]>>
Untouched(k) == executed[k] = 0 /\ \A r \in orphans : r.call # k

\* What has become of the recommendation t is in.
Settled(t) ==
    thread[t].op = "recommend" =>
        /\ At(t, Seeking \cup {"open", "send"}) => Untouched(Call(t))
        /\ At(t, {"receive"}) /\ conn[thread[t].conn].out # <<>> => Untouched(Call(t))
        /\ At(t, {"receive"}) /\ conn[thread[t].conn].answer # <<>> => executed[Call(t)] = 1
        /\ At(t, {"receive"}) /\ conn[thread[t].conn].in # <<>> => executed[Call(t)] = 1
        /\ At(t, {"release"}) /\ thread[t].code = "Ok" => executed[Call(t)] = 1

\* A request the client has given up on is one that was not carried out, the only
\* one of its call, and of a call that has begun.
OnceInv ==
    /\ executed \in [AllCalls -> Nat] /\ orphans \subseteq Requests
    /\ \A r \in orphans : executed[r.call] = 0
    /\ \A r, q \in orphans : r.call = q.call => r = q
    /\ \A t \in Threads : \A r \in orphans : \A n \in 1 .. MaxCalls : r.call = <<t, n>> => n <= calls[t]
    /\ \A k \in AllCalls : executed[k] <= 1
    /\ \A t \in Threads : \A n \in 1 .. MaxCalls : n > calls[t] => executed[<<t, n>>] = 0
    /\ \A t \in Threads : ~At(t, {"rest"}) => Settled(t)

\* A call that has begun is one of the calls.
LEMMA CallOf ==
    ASSUME CallerInv, NEW t \in Threads, ~At(t, {"rest"})
    PROVE  Call(t) \in AllCalls /\ calls[t] \in 1 .. MaxCalls
<1>1. calls[t] \in 1 .. MaxCalls
  BY SdkAssumption DEF CallerInv
<1>2. QED
  BY <1>1 DEF Call, AllCalls

\* A caller whose connection and call nobody touches stays settled.
LEMMA SettledKept ==
    ASSUME NEW u \in Threads, Settled(u), Alike(u), calls'[u] = calls[u],
           executed'[Call(u)] = executed[Call(u)],
           \A r \in orphans' : r \in orphans \/ r.call # Call(u),
           At(u, {"receive"}) =>
              \/ conn'[thread[u].conn] = conn[thread[u].conn]
              \/ Trimmed(conn[thread[u].conn], conn'[thread[u].conn])
    PROVE  Settled(u)'
<1>1. Call(u)' = Call(u)
  BY Zenon DEF Call
<1>2. Untouched(Call(u)) => Untouched(Call(u))'
  BY <1>1, Zenon DEF Untouched
<1>3. /\ thread'[u].op = thread[u].op /\ thread'[u].conn = thread[u].conn
      /\ thread'[u].code = thread[u].code
      /\ At(u, Seeking \cup {"open", "send"})' => At(u, Seeking \cup {"open", "send"})
      /\ At(u, {"receive"})' => At(u, {"receive"})
      /\ At(u, {"release"})' => At(u, {"release"})
  BY DEF Alike, At, Seeking
<1>4. At(u, {"receive"}) =>
        /\ conn'[thread[u].conn].out # <<>> => conn[thread[u].conn].out # <<>>
        /\ conn'[thread[u].conn].answer # <<>> => conn[thread[u].conn].answer # <<>>
        /\ conn'[thread[u].conn].in = conn[thread[u].conn].in
  BY Zenon DEF Trimmed, Busy
<1>5. QED
  BY <1>1, <1>2, <1>3, <1>4, Zenon DEF Settled

\* The same for a step that carries nothing out.
LEMMA NothingCarriedOut ==
    ASSUME OnceInv, UNCHANGED <<executed, calls>>, orphans' \subseteq orphans,
           \A t \in Threads : thread'[t].at # "rest" => Settled(t)'
    PROVE  OnceInv'
  BY DEF OnceInv, At

\* A step of t that closes no connection with a request on it.
LEMMA QuietStep ==
    ASSUME CallerInv, OwnInv, OnceInv, NEW t \in Threads,
           \A u \in Threads \ {t} : Alike(u),
           \A c \in Conns : c # thread[t].conn /\ (\E u \in Threads : thread[u].conn = c) =>
              conn'[c] = conn[c],
           UNCHANGED <<executed, calls>>, orphans' \subseteq orphans,
           thread'[t].at # "rest" => Settled(t)'
    PROVE  OnceInv'
<1>1. ASSUME NEW u \in Threads, thread'[u].at # "rest" PROVE Settled(u)'
  <2>1. CASE u = t
    BY <1>1, <2>1, Zenon
  <2>2. CASE u # t
    <3>1. ~At(u, {"rest"}) /\ Alike(u)
      BY <1>1, <2>2 DEF Alike, At
    <3>2. Settled(u)
      BY <3>1 DEF OnceInv
    <3>3. At(u, {"receive"}) => conn'[thread[u].conn] = conn[thread[u].conn]
      <4>1. At(u, {"receive"}) => thread[u].conn \in Conns /\ thread[u].conn # thread[t].conn
        BY <2>2 DEF CallerInv, OwnInv, At, Connected
      <4>2. QED
        BY <4>1
    <3>4. QED
      BY <3>1, <3>2, <3>3, SettledKept
  <2>3. QED
    BY <2>1, <2>2, Zenon
<1>2. QED
  BY <1>1, NothingCarriedOut

\* A new call has not been carried out, nor is there a request of it.
LEMMA BeginsOnce ==
    ASSUME CallerInv, OwnInv, OnceInv, NEW t \in Threads, Begins(t)
    PROVE  OnceInv'
<1> USE DEF links
<1>1. /\ executed' = executed /\ orphans' = orphans /\ conn' = conn /\ Same(t)
      /\ thread'[t].at = "acquire" /\ calls' = [calls EXCEPT ![t] = @ + 1] /\ calls[t] < MaxCalls
  BY DEF Begins
<1>2. /\ calls \in [Threads -> 0 .. MaxCalls] /\ MaxCalls \in Nat
      /\ executed \in [AllCalls -> Nat] /\ orphans \subseteq Requests
  BY SdkAssumption, Zenon DEF CallerInv, OnceInv
<1>3. /\ calls'[t] = calls[t] + 1 /\ calls'[t] \in 1 .. MaxCalls
      /\ \A u \in Threads \ {t} : calls'[u] = calls[u]
      /\ \A u \in Threads : calls[u] \in Nat /\ calls'[u] \in Nat /\ calls[u] <= calls'[u]
  BY <1>1, <1>2
<1>4. Settled(t)'
  <2>1. executed[<<t, calls'[t]>>] = 0
    BY <1>2, <1>3 DEF OnceInv
  <2>2. \A r \in orphans : r.call # <<t, calls'[t]>>
    BY <1>2, <1>3 DEF OnceInv
  <2>3. Untouched(Call(t))'
    BY <1>1, <2>1, <2>2 DEF Untouched, Call
  <2>4. QED
    BY <1>1, <2>3, Zenon DEF Settled, At
<1>5. ASSUME NEW u \in Threads, thread'[u].at # "rest" PROVE Settled(u)'
  <2>1. CASE u = t
    BY <1>4, <2>1
  <2>2. CASE u # t
    <3>1. Alike(u) /\ Settled(u)
      BY <1>1, <1>5, <2>2 DEF Alike, Same, OnceInv, At
    <3>2. QED
      BY <1>1, <1>3, <2>2, <3>1, SettledKept, Zenon
  <2>3. QED
    BY <2>1, <2>2
<1>6. /\ \A u \in Threads : \A r \in orphans : \A n \in 1 .. MaxCalls : r.call = <<u, n>> => n <= calls'[u]
      /\ \A u \in Threads : \A n \in 1 .. MaxCalls : n > calls'[u] => executed[<<u, n>>] = 0
  <2>1. ASSUME NEW u \in Threads, NEW n \in 1 .. MaxCalls
        PROVE  (n <= calls[u] => n <= calls'[u]) /\ (n > calls'[u] => n > calls[u])
    BY <1>2, <1>3
  <2>2. QED
    BY <2>1 DEF OnceInv
<1>7. QED
  BY <1>1, <1>5, <1>6, Zenon DEF OnceInv, At

\* Seeking, opening, sending, giving up and releasing carry nothing out.
LEMMA CallerOnce ==
    ASSUME CallerInv, OwnInv, LinkInv, OnceInv, ~RetryRecording, NEW t \in Threads,
           \/ Takes(t) \/ ReservesSlot(t) \/ Waits(t) \/ GivesUp(t) \/ FreesSlot(t) \/ Releases(t)
           \/ \E c \in Conns : Opens(t, c)
           \/ Asks(t) /\ UNCHANGED <<pool, history>>
    PROVE  OnceInv'
<1> USE DEF links, history
<1>1. CASE GivesUp(t) \/ FreesSlot(t) \/ Releases(t)
  <2>1. Ends(t) /\ UNCHANGED <<conn, orphans, executed, calls>>
    BY <1>1, Zenon DEF GivesUp, FreesSlot, Releases
  <2>2. ~At(t, {"rest"})
    BY <1>1, Zenon DEF GivesUp, FreesSlot, Releases, At, Seeking
  <2>3. thread'[t].at # "rest" => thread'[t].op = "lookup"
    BY <2>1, Zenon DEF Ends, Over
  <2>4. thread'[t].at # "rest" => Settled(t)'
    BY <2>3, Zenon DEF Settled
  <2>5. QED
    BY <2>1, <2>4, QuietStep, Zenon DEF Ends
<1>2. ASSUME NEW place \in {"send", "open", "wait"}, NEW link, Moves(t, place, link),
             At(t, Seeking \cup {"open"}), UNCHANGED <<orphans, executed, calls>>,
             \A c \in Conns : c # thread[t].conn /\ (\E u \in Threads : thread[u].conn = c) =>
                conn'[c] = conn[c]
      PROVE  OnceInv'
  <2>1. /\ \A u \in Threads \ {t} : Alike(u)
        /\ thread'[t].at = place /\ thread'[t].op = thread[t].op
    BY <1>2, Zenon DEF Moves, Alike
  <2>2. Settled(t) /\ At(t, Seeking \cup {"open", "send"})
    BY <1>2, Zenon DEF OnceInv, At, Seeking
  <2>3. thread[t].op = "recommend" => Untouched(Call(t))'
    BY <1>2, <2>2, Zenon DEF Settled, Untouched, Call
  <2>4. Settled(t)'
    BY <2>1, <2>3, Zenon DEF Settled, At
  <2>5. QED
    BY <1>2, <2>1, <2>4, QuietStep, Zenon
<1>3. CASE Takes(t) \/ ReservesSlot(t) \/ Waits(t)
  <2>1. PICK place \in {"send", "open", "wait"} : \E link : Moves(t, place, link)
    BY <1>3 DEF Takes, ReservesSlot, Waits
  <2>2. At(t, Seeking \cup {"open"}) /\ UNCHANGED <<conn, orphans, executed, calls>>
    BY <1>3, Zenon DEF Takes, ReservesSlot, Waits, At
  <2>3. QED
    BY <1>2, <2>1, <2>2, Zenon
<1>4. ASSUME NEW c \in Conns, Opens(t, c) PROVE OnceInv'
  <2>1. /\ Moves(t, "send", c) /\ At(t, Seeking \cup {"open"})
        /\ UNCHANGED <<orphans, executed, calls>> /\ \A u \in Threads : thread[u].conn # c
        /\ conn' = [conn EXCEPT ![c] = Fresh] /\ conn \in [Conns -> Links]
    BY <1>4, Zenon DEF Opens, At, LinkInv
  <2>2. \A d \in Conns : (\E u \in Threads : thread[u].conn = d) => conn'[d] = conn[d]
    BY <2>1
  <2>3. QED
    BY <1>2, <2>1, <2>2
<1>5. CASE Asks(t) /\ UNCHANGED <<pool, history>>
  <2>1. /\ Moves(t, "receive", thread[t].conn) /\ At(t, {"send"}) /\ Send(t)
        /\ UNCHANGED <<orphans, executed, calls>>
    BY <1>5 DEF Asks, Send
  <2>2. thread[t].conn \in Conns /\ Clean(conn[thread[t].conn]) /\ conn \in [Conns -> Links]
    BY <2>1, Zenon DEF LinkInv, LinkOf, At, Connected, CallerInv
  <2>3. /\ Others(thread[t].conn)
        /\ conn'[thread[t].conn].answer = <<>> /\ conn'[thread[t].conn].in = <<>>
    BY <2>1, <2>2, SendWrites, Zenon DEF Asked
  <2>4. /\ \A u \in Threads \ {t} : Alike(u)
        /\ thread'[t].at = "receive" /\ thread'[t].op = thread[t].op /\ thread'[t].conn = thread[t].conn
    BY <2>1, Zenon DEF Moves, Alike
  <2>5. thread[t].op = "recommend" => Untouched(Call(t))'
    <3>1. Settled(t) /\ At(t, Seeking \cup {"open", "send"})
      BY <2>1, Zenon DEF OnceInv, At
    <3>2. QED
      BY <2>1, <3>1, Zenon DEF Settled, Untouched, Call
  <2>6. Settled(t)'
    BY <2>3, <2>4, <2>5, Zenon DEF Settled, At
  <2>7. QED
    BY <2>1, <2>3, <2>4, <2>6, QuietStep, Zenon DEF Others
<1>6. QED
  BY <1>1, <1>3, <1>4, <1>5

\* A call that ends in an error leaves at most its own request behind.
LEMMA CompletesOnce ==
    ASSUME CallerInv, OwnInv, LinkInv, OnceInv, NEW t \in Threads,
           Completes(t), Refuses(t) \/ Closes(t) \/ Gets(t)
    PROVE  OnceInv'
<1> USE DEF links, history
<1> DEFINE c == thread[t].conn
<1>0. /\ At(t, {"send", "receive"}) /\ UNCHANGED <<executed, calls>>
      /\ \A u \in Threads \ {t} : Alike(u)
      /\ thread'[t].at = "release" /\ thread'[t].op = thread[t].op
      /\ c \in Conns /\ conn \in [Conns -> Links] /\ Settled(t)
      /\ LinkOf(t, conn[c], thread[t].at, thread[t].op, calls[t])
  BY Zenon DEF Completes, Moves, Alike, CallerInv, LinkInv, OnceInv, At, Connected
<1>1. CASE Refuses(t)
  <2>1. thread'[t].code = "InvalidArgument"
    <3>1. "InvalidArgument" \in Codes
      BY DEF Codes
    <3>2. QED
      BY <1>1, <3>1, ResultMoves, Zenon DEF Refuses, RefusedLocally
  <2>2. Settled(t)'
    BY <1>0, <2>1, Zenon DEF Settled, At, Seeking
  <2>3. UNCHANGED <<conn, orphans>>
    BY <1>1 DEF Refuses
  <2>4. QED
    BY <1>0, <2>2, <2>3, QuietStep, Zenon
<1>2. CASE Gets(t)
  <2>1. Others(c) /\ orphans' = orphans
    BY <1>0, <1>2, GetReads, Zenon DEF Gets
  <2>2. thread[t].op = "recommend" => executed[Call(t)] = 1
    BY <1>0, <1>2 DEF Gets, Settled
  <2>3. Settled(t)'
    BY <1>0, <2>2, Zenon DEF Settled, At, Call, Seeking
  <2>4. QED
    BY <1>0, <2>1, <2>3, QuietStep, Zenon DEF Others
<1>3. CASE Closes(t)
  <2> DEFINE left == {r \in InSeq(conn[c].out) : r.op = "recommend"}
  <2>1. /\ orphans' = orphans \cup left /\ conn' = [conn EXCEPT ![c] = Closed]
        /\ thread'[t].code # "Ok"
    BY <1>3, Zenon DEF Closes, CloseEnd
  <2>2. Settled(t)'
    BY <1>0, <2>1, Zenon DEF Settled, At, Seeking
  <2>3. CASE left = {}
    <3>1. orphans' \subseteq orphans /\ \A d \in Conns : d # c => conn'[d] = conn[d]
      BY <1>0, <2>1, <2>3, Zenon
    <3>2. QED
      BY <1>0, <2>2, <3>1, QuietStep, Zenon
  <2>4. CASE left # {}
    <3>1. conn[c].out # <<>>
      BY <2>4 DEF InSeq
    <3>2. Asked(conn[c], t, thread[t].op, calls[t]) /\ thread[t].at = "receive"
      BY <1>0, <3>1, Zenon DEF LinkOf, At, Clean, CarriedOut, Answered, Busy
    <3>3. PICK r \in Requests : conn[c].out = <<r>> /\ r.op = thread[t].op /\ r.call = Call(t)
      BY <3>2, Zenon DEF Asked, Call
    <3>4. InSeq(conn[c].out) = {r}
      BY <3>3, InOne, Zenon
    <3>5. left = {r} /\ thread[t].op = "recommend"
      BY <2>4, <3>3, <3>4, Zenon
    <3>6. Untouched(Call(t))
      BY <1>0, <3>1, <3>2, <3>5, Zenon DEF Settled, At
    <3>7. /\ orphans' = orphans \cup {r} /\ executed[r.call] = 0
          /\ \A q \in orphans : q.call # r.call
      BY <2>1, <3>3, <3>5, <3>6, Zenon DEF Untouched
    <3>8. ASSUME NEW u \in Threads, thread'[u].at # "rest" PROVE Settled(u)'
      <4>1. CASE u = t
        BY <2>2, <4>1
      <4>2. CASE u # t
        <5>1. ~At(u, {"rest"}) /\ Alike(u)
          BY <1>0, <3>8, <4>2, Zenon DEF Alike, At
        <5>2. Settled(u) /\ Call(u) # Call(t)
          BY <4>2, <5>1, Zenon DEF OnceInv, Call
        <5>3. At(u, {"receive"}) => conn'[thread[u].conn] = conn[thread[u].conn]
          <6>1. At(u, {"receive"}) => thread[u].conn \in Conns /\ thread[u].conn # c
            BY <4>2 DEF CallerInv, OwnInv, At, Connected
          <6>2. QED
            BY <1>0, <2>1, <6>1, Zenon
        <5>4. QED
          BY <1>0, <3>3, <3>7, <5>1, <5>2, <5>3, SettledKept, Zenon
      <4>3. QED
        BY <4>1, <4>2
    <3>9. \A u \in Threads : \A n \in 1 .. MaxCalls : r.call = <<u, n>> => n <= calls[u]
      <4>1. calls[t] \in Nat
        BY DEF CallerInv
      <4>2. QED
        BY <3>3, <4>1 DEF Call
    <3>10. /\ orphans' \subseteq Requests /\ \A q \in orphans' : executed[q.call] = 0
           /\ \A q, p \in orphans' : q.call = p.call => q = p
      BY <3>3, <3>7, Zenon DEF OnceInv
    <3>11. \A u \in Threads : \A q \in orphans' : \A n \in 1 .. MaxCalls : q.call = <<u, n>> => n <= calls[u]
      BY <3>7, <3>9, Zenon DEF OnceInv
    <3>12. QED
      BY <1>0, <3>8, <3>10, <3>11, Zenon DEF OnceInv, At
  <2>5. QED
    BY <2>3, <2>4, Zenon
<1>4. QED
  BY <1>1, <1>2, <1>3

\* Carrying out a request that was not carried out before.
LEMMA CarriesOut ==
    ASSUME CallerInv, OnceInv, NEW t \in Threads, NEW n \in 1 .. MaxCalls, n <= calls[t],
           executed[<<t, n>>] = 0, \A r \in orphans' : r.call # <<t, n>>,
           executed' = [executed EXCEPT ![<<t, n>>] = @ + 1], calls' = calls,
           orphans' \subseteq orphans, \A u \in Threads : thread'[u].at # "rest" => Settled(u)'
    PROVE  OnceInv'
<1> DEFINE k == <<t, n>>
<1>1. k \in AllCalls /\ executed \in [AllCalls -> Nat] /\ orphans \subseteq Requests
  BY DEF AllCalls, OnceInv
<1>2. /\ executed' \in [AllCalls -> Nat] /\ executed'[k] = 1
      /\ \A j \in AllCalls \ {k} : executed'[j] = executed[j]
  BY <1>1
<1>3. \A r \in orphans' : r.call \in AllCalls /\ r.call # k /\ executed[r.call] = 0
  BY <1>1, Zenon DEF OnceInv, Requests, AllCalls
<1>4. \A j \in AllCalls : executed'[j] <= 1
  BY <1>1, <1>2 DEF OnceInv
<1>5. ASSUME NEW u \in Threads, NEW m \in 1 .. MaxCalls, m > calls[u] PROVE executed'[<<u, m>>] = 0
  <2>1. calls[u] \in Nat /\ MaxCalls \in Nat
    <3>1. calls[u] \in 0 .. MaxCalls /\ MaxCalls \in Nat
      BY SdkAssumption, Zenon DEF CallerInv
    <3>2. QED
      BY <3>1
  <2>2. <<u, m>> # k /\ <<u, m>> \in AllCalls
    BY <1>5, <2>1 DEF AllCalls
  <2>3. executed[<<u, m>>] = 0
    BY <1>5, Zenon DEF OnceInv
  <2>4. QED
    BY <1>2, <2>2, <2>3, Zenon
<1>6. \A r \in orphans' : executed'[r.call] = 0
  BY <1>2, <1>3
<1>7. QED
  BY <1>1, <1>2, <1>4, <1>5, <1>6, Zenon DEF OnceInv, At

\* The daemon carries out what it reads, once.
LEMMA DaemonOnce ==
    ASSUME CallerInv, OwnInv, LinkInv, OnceInv, DaemonStep
    PROVE  OnceInv'
<1> USE DEF links, history, pool
<1>0. /\ UNCHANGED <<thread, calls>> /\ conn \in [Conns -> Links]
      /\ \A u \in Threads : Alike(u)
      /\ \A u \in Threads : thread'[u].at # "rest" => Settled(u)
      /\ \A u \in Threads : At(u, {"receive"}) => thread[u].conn \in Conns
  <2>1. UNCHANGED <<thread, calls>>
    BY Zenon DEF DaemonStep, Execute, Reply, Drop, ExecuteOrphan, Die, Restart,
      QueueFills, QueueDrains
  <2>2. QED
    BY <2>1, Zenon DEF Alike, OnceInv, LinkInv, CallerInv, At, Connected
<1>1. ASSUME NEW c \in Conns, Execute(c) PROVE OnceInv'
  <2>1. /\ conn' \in [Conns -> Links] /\ Others(c) /\ conn[c].out # <<>>
        /\ \A t, op, k : Asked(conn[c], t, op, k) => CarriedOut(conn'[c])
    BY <1>0, <1>1, ExecuteReads, Zenon
  <2>2. PICK t \in Threads : At(t, {"receive"}) /\ thread[t].conn = c
    BY <2>1, Zenon DEF LinkInv, Busy
  <2>3. Asked(conn[c], t, thread[t].op, calls[t])
    <3>1. LinkOf(t, conn[c], thread[t].at, thread[t].op, calls[t]) /\ thread[t].at = "receive"
      BY <2>2 DEF LinkInv, At, Connected
    <3>2. QED
      BY <2>1, <3>1, Zenon DEF LinkOf, CarriedOut, Answered, Clean, Busy
  <2>4. PICK r \in Requests : conn[c].out = <<r>> /\ r.op = thread[t].op /\ r.call = Call(t)
    BY <2>3 DEF Asked, Call
  <2>5. Head(conn[c].out) = r
    BY <2>4
  <2>6. /\ executed' = IF r.op = "recommend" THEN [executed EXCEPT ![r.call] = @ + 1] ELSE executed
        /\ orphans' = orphans
    BY <1>1, <2>5, Zenon DEF Execute
  <2>7. conn'[c].out = <<>>
    BY <2>1, <2>3 DEF CarriedOut
  <2>8. Call(t) \in AllCalls /\ calls[t] \in 1 .. MaxCalls /\ ~At(t, {"rest"})
    BY <2>2, CallOf DEF At
  <2>9. ASSUME NEW u \in Threads \ {t}, thread'[u].at # "rest" PROVE Settled(u)'
    <3>1. Call(u) # Call(t) /\ Call(u) \in AllCalls
      BY <1>0, <2>9, CallOf, Zenon DEF Call, At
    <3>2. executed'[Call(u)] = executed[Call(u)]
      BY <2>4, <2>6, <2>8, <3>1, Zenon DEF OnceInv
    <3>3. At(u, {"receive"}) => conn'[thread[u].conn] = conn[thread[u].conn]
      BY <1>0, <2>1, <2>2, <2>9, Zenon DEF OwnInv, Others, At, Connected
    <3>4. QED
      BY <1>0, <2>6, <2>9, <3>2, <3>3, SettledKept, Zenon
  <2>10. CASE thread[t].op # "recommend"
    <3>1. Settled(t)'
      BY <1>0, <2>10, Zenon DEF Settled
    <3>2. executed' = executed
      BY <2>4, <2>6, <2>10
    <3>3. QED
      BY <1>0, <2>6, <2>9, <3>1, <3>2, NothingCarriedOut, Zenon
  <2>11. CASE thread[t].op = "recommend"
    <3>1. executed' = [executed EXCEPT ![<<t, calls[t]>>] = @ + 1]
      BY <2>4, <2>6, <2>11 DEF Call
    <3>2. Untouched(Call(t))
      BY <1>0, <2>1, <2>2, <2>11, Zenon DEF Settled, At
    <3>3. executed'[Call(t)] = 1
      <4>1. executed \in [AllCalls -> Nat] /\ executed[Call(t)] = 0
        BY <3>2 DEF OnceInv, Untouched
      <4>2. QED
        BY <2>8, <3>1, <4>1 DEF Call
    <3>4. Settled(t)'
      BY <1>0, <2>2, <2>7, <3>3, Zenon DEF Settled, At, Call, Seeking
    <3>5. executed[<<t, calls[t]>>] = 0 /\ \A q \in orphans' : q.call # <<t, calls[t]>>
      BY <2>6, <3>2 DEF Untouched, Call
    <3>6. calls[t] <= calls[t] /\ orphans' \subseteq orphans
      BY <2>6, <2>8, SdkAssumption
    <3>7. QED
      BY <1>0, <2>8, <2>9, <3>1, <3>4, <3>5, <3>6, CarriesOut, Zenon
  <2>12. QED
    BY <2>10, <2>11
<1>2. ASSUME NEW r \in orphans, ExecuteOrphan(r) PROVE OnceInv'
  <2>1. /\ executed' = [executed EXCEPT ![r.call] = @ + 1] /\ orphans' = orphans \ {r} /\ conn' = conn
    BY <1>2 DEF ExecuteOrphan
  <2>2. r \in Requests /\ executed \in [AllCalls -> Nat]
    BY DEF OnceInv
  <2>3. PICK t \in Threads, n \in 1 .. MaxCalls : r.call = <<t, n>>
    BY <2>2 DEF Requests
  <2>4. /\ n <= calls[t] /\ executed[<<t, n>>] = 0 /\ \A q \in orphans' : q.call # <<t, n>>
        /\ orphans' \subseteq orphans
    BY <2>1, <2>3 DEF OnceInv
  <2>5. ASSUME NEW u \in Threads, thread'[u].at # "rest" PROVE Settled(u)'
    <3>1. Settled(u) /\ Call(u) \in AllCalls
      BY <1>0, <2>5, CallOf, Zenon DEF At
    <3>2. CASE Call(u) # r.call
      <4>1. executed'[Call(u)] = executed[Call(u)]
        BY <2>1, <2>2, <3>1, <3>2
      <4>2. QED
        BY <1>0, <2>1, <3>1, <4>1, SettledKept, Zenon
    <3>3. CASE Call(u) = r.call
      <4>1. ~Untouched(Call(u)) /\ executed[Call(u)] # 1
        BY <2>3, <2>4, <3>3 DEF Untouched
      <4>2. thread[u].op = "recommend" =>
              /\ ~At(u, Seeking \cup {"open", "send"})
              /\ ~(At(u, {"receive"}) /\ conn[thread[u].conn].out # <<>>)
              /\ ~(At(u, {"receive"}) /\ conn[thread[u].conn].answer # <<>>)
              /\ ~(At(u, {"receive"}) /\ conn[thread[u].conn].in # <<>>)
              /\ ~(At(u, {"release"}) /\ thread[u].code = "Ok")
        BY <3>1, <4>1, Zenon DEF Settled
      <4>3. QED
        BY <1>0, <2>1, <4>2, Zenon DEF Settled, At
    <3>4. QED
      BY <3>2, <3>3
  <2>6. executed' = [executed EXCEPT ![<<t, n>>] = @ + 1]
    BY <2>1, <2>3
  <2>7. QED
    BY <1>0, <2>4, <2>5, <2>6, CarriesOut, Zenon
<1>3. CASE Die \/ \E c \in Conns : Drop(c)
  <2>1. Cuts
    BY <1>0, <1>3, FaultCuts
  <2>2. executed' = executed /\ orphans' \subseteq orphans
    BY <1>3 DEF Die, Drop
  <2>3. ASSUME NEW u \in Threads, thread'[u].at # "rest" PROVE Settled(u)'
    BY <1>0, <2>1, <2>2, <2>3, SettledKept, Zenon DEF Cuts
  <2>4. QED
    BY <1>0, <2>2, <2>3, NothingCarriedOut
<1>4. CASE Restart \/ QueueFills \/ QueueDrains
  <2>1. UNCHANGED <<conn, executed, orphans>>
    BY <1>4 DEF Restart, QueueFills, QueueDrains
  <2>2. ASSUME NEW u \in Threads, thread'[u].at # "rest" PROVE Settled(u)'
    BY <1>0, <2>1, <2>2, SettledKept, Zenon
  <2>3. QED
    BY <1>0, <2>1, <2>2, NothingCarriedOut
<1>5. ASSUME NEW c \in Conns, Reply(c) PROVE OnceInv'
  <2>1. Others(c) /\ conn[c].answer # <<>> /\ UNCHANGED <<executed, orphans>>
    BY <1>0, <1>5, ReplyWrites, Zenon DEF Reply
  <2>2. (CarriedOut(conn[c]) => Answered(conn'[c])) /\ Busy(conn[c])
    BY <1>0, <1>5, ReplyWrites, Zenon DEF Busy
  <2>3. PICK t \in Threads : At(t, {"receive"}) /\ thread[t].conn = c
    BY <2>2, Zenon DEF LinkInv
  <2>4. Answered(conn'[c])
    <3>1. LinkOf(t, conn[c], thread[t].at, thread[t].op, calls[t]) /\ thread[t].at = "receive"
      BY <2>3 DEF LinkInv, At, Connected
    <3>2. QED
      BY <2>1, <2>2, <3>1, Zenon DEF LinkOf, Asked, Answered, Clean, Busy
  <2>5. thread[t].op = "recommend" => executed[Call(t)] = 1
    BY <1>0, <2>1, <2>3, Zenon DEF Settled, At
  <2>6. Settled(t)'
    <3>1. conn'[c].out = <<>>
      BY <2>4, Zenon DEF Answered, Busy
    <3>2. QED
      BY <1>0, <2>1, <2>3, <2>5, <3>1, Zenon DEF Settled, At, Call, Seeking
  <2>7. ASSUME NEW u \in Threads \ {t}, thread'[u].at # "rest" PROVE Settled(u)'
    <3>1. At(u, {"receive"}) => conn'[thread[u].conn] = conn[thread[u].conn]
      BY <1>0, <2>1, <2>3, <2>7, Zenon DEF OwnInv, Others, At, Connected
    <3>2. QED
      BY <1>0, <2>1, <2>7, <3>1, SettledKept, Zenon
  <2>8. QED
    BY <1>0, <2>1, <2>6, <2>7, NothingCarriedOut, Zenon
<1>6. QED
  BY <1>1, <1>2, <1>3, <1>4, <1>5 DEF DaemonStep

\* Every step keeps the count, if the SDK may not repeat a recording recommendation.
LEMMA OnceStep ==
    ASSUME SdkInv, OnceInv, ~RetryRecording, [Next]_vars
    PROVE  OnceInv'
<1>1. CallerInv /\ OwnInv /\ LinkInv /\ RepliesInv
  BY LinkReplies DEF SdkInv
<1>2. CASE UNCHANGED vars
  <2>1. UNCHANGED <<thread, calls, conn, orphans, executed>>
    BY <1>2, Zenon DEF vars, links, history
  <2>2. QED
    BY <2>1, Zenon DEF OnceInv, Settled, Untouched, Call, At
<1>3. QED
  BY <1>1, <1>2, StepKinds, BeginsOnce, CallerOnce, CompletesOnce, DaemonOnce

-----------------------------------------------------------------------------
\* sdk::Client carries a recording recommendation out at most once, and exactly once
\* when it reports it done, though replies, connections and the daemon may be lost:
\* unless retry_recording_recommendations is set, for any number of callers,
\* connections, retries and faults.
THEOREM RecordedAtMostOnce == Spec => [](~RetryRecording => AtMostOnce)
<1>1. Init => OnceInv
  <2> SUFFICES ASSUME Init PROVE OnceInv
    OBVIOUS
  <2>1. /\ executed = [call \in AllCalls |-> 0] /\ orphans = {}
        /\ thread = [t \in Threads |-> Resting] /\ MaxCalls \in Nat
    BY SdkAssumption DEF Init, AllCalls
  <2>2. \A t \in Threads : thread[t].at = "rest"
    BY <2>1 DEF Resting
  <2>3. \A t \in Threads : \A n \in 1 .. MaxCalls : executed[<<t, n>>] = 0
    BY <2>1 DEF AllCalls
  <2>4. executed \in [AllCalls -> Nat] /\ \A k \in AllCalls : executed[k] <= 1
    BY <2>1
  <2>5. QED
    BY <2>1, <2>2, <2>3, <2>4, Zenon DEF OnceInv, At
<1>2. SdkInv /\ (~RetryRecording => OnceInv) /\ [Next]_vars => (~RetryRecording => OnceInv)'
  BY OnceStep
<1>3. SdkInv /\ (~RetryRecording => OnceInv) => (~RetryRecording => AtMostOnce)
  <2> SUFFICES ASSUME SdkInv, OnceInv PROVE AtMostOnce
    OBVIOUS
  <2>1. DOMAIN executed = AllCalls /\ \A k \in AllCalls : executed[k] <= 1
    BY DEF OnceInv
  <2>2. QED
    BY <2>1, Zenon DEF AtMostOnce, OnceInv, Settled, At, Call
<1>4. QED
  BY <1>1, <1>2, <1>3, SdkAlways, PTL DEF Spec
=============================================================================
