-------------------------- MODULE SdkClientProofs ---------------------------
(* Theorems about the pool of SdkClient, for any number of callers and connections. *)
EXTENDS SdkPoolProofs

-----------------------------------------------------------------------------
(* The streams of a connection *)

Requests == [id : Int, op : Ops, call : Threads \X (1 .. MaxCalls), attempt : Nat]
Replies == [id : Int, code : ReplyCodes]
Links == [client : BOOLEAN, daemon : BOOLEAN, next : Int,
          out : Seq(Requests), answer : Seq(Replies), in : Seq(Replies)]

Busy(l) == l.out # <<>> \/ l.answer # <<>>

Clean(l) == l.client /\ ~Busy(l) /\ l.in = <<>>
Dead(l) == ~l.client /\ ~Busy(l)
Asked(l, t, op, n) ==
    /\ l.client /\ l.answer = <<>> /\ l.in = <<>>
    /\ \E r \in Requests : l.out = <<r>> /\ r.op = op /\ r.call = <<t, n>>
CarriedOut(l) ==
    /\ l.client /\ l.out = <<>> /\ l.in = <<>>
    /\ \E m \in Replies : l.answer = <<m>>
Answered(l) == l.client /\ ~Busy(l) /\ \E m \in Replies : l.in = <<m>>

Others(c) == \A d \in Conns \ {c} : conn'[d] = conn[d]

\* A new connection is clean, a closed one dead.
LEMMA FreshLink == Fresh \in Links /\ Clean(Fresh) /\ Closed \in Links /\ Dead(Closed)
<1>1. /\ Closed \in Links /\ TRUE \in BOOLEAN /\ ~Closed.client
      /\ Closed.out = <<>> /\ Closed.answer = <<>> /\ Closed.in = <<>>
  BY DEF Closed, Links
<1>2. Fresh \in Links
  BY <1>1, Zenon DEF Fresh, Links
<1>3. /\ Fresh.client = TRUE /\ Fresh.out = Closed.out
      /\ Fresh.answer = Closed.answer /\ Fresh.in = Closed.in
  BY <1>1 DEF Fresh, Links
<1>4. QED
  BY <1>1, <1>2, <1>3 DEF Clean, Dead, Busy

\* A request is written.
LEMMA SendWrites ==
    ASSUME CallerInv, conn \in [Conns -> Links], NEW t \in Threads, Send(t), Clean(conn[thread[t].conn])
    PROVE  /\ conn' \in [Conns -> Links] /\ Others(thread[t].conn)
           /\ Asked(conn'[thread[t].conn], t, thread[t].op, calls[t])
<1> DEFINE c == thread[t].conn
           r == [id |-> conn[c].next, op |-> thread[t].op, call |-> <<t, calls[t]>>,
                 attempt |-> thread[t].attempt]
           n == [conn[c] EXCEPT !.next = conn[c].next + 1, !.out = Append(conn[c].out, r)]
<1>1. /\ c \in Conns /\ thread[t] \in Callers /\ calls[t] \in 1 .. MaxCalls
      /\ conn[c] \in Links /\ MaxCalls \in Nat
  BY SdkAssumption DEF CallerInv, Send, At, Connected
<1>2. r \in Requests
  BY <1>1 DEF Requests, Callers, Links
<1>3. r.op = thread[t].op /\ r.call = <<t, calls[t]>>
  OBVIOUS
<1>4. conn' = [conn EXCEPT ![c] = n]
  BY Zenon DEF Send
<1> HIDE DEF r
<1>5. Append(conn[c].out, r) = <<r>> /\ <<r>> \in Seq(Requests) /\ conn[c].next + 1 \in Int
  <2>1. conn[c].out = <<>>
    BY Zenon DEF Clean, Busy
  <2>2. Append(<<>>, r) = <<r>> /\ <<r>> \in Seq(Requests)
    BY <1>2
  <2>3. conn[c].next + 1 \in Int
    BY <1>1 DEF Links
  <2>4. QED
    BY <2>1, <2>2, <2>3
<1>6. n \in Links
  BY <1>1, <1>5, Zenon DEF Links
<1>7. /\ n.client = conn[c].client /\ n.out = Append(conn[c].out, r)
      /\ n.answer = conn[c].answer /\ n.in = conn[c].in
  BY <1>1, Zenon DEF Links
<1> HIDE DEF n
<1>8. conn' \in [Conns -> Links] /\ conn'[c] = n /\ Others(c)
  BY <1>1, <1>4, <1>6 DEF Others
<1>9. Asked(n, t, thread[t].op, calls[t])
  BY <1>2, <1>3, <1>5, <1>7 DEF Asked, Clean, Busy
<1>10. QED
  BY <1>8, <1>9

\* A reply is read.
LEMMA GetReads ==
    ASSUME CallerInv, conn \in [Conns -> Links], NEW t \in Threads, Gets(t)
    PROVE  LET c == thread[t].conn IN
           /\ conn' \in [Conns -> Links] /\ Others(c)
           /\ conn'[c].client = conn[c].client /\ (Busy(conn'[c]) => Busy(conn[c]))
           /\ conn'[c].in = Tail(conn[c].in)
<1> DEFINE c == thread[t].conn
           n == [conn[c] EXCEPT !.in = Tail(conn[c].in)]
<1>1. c \in Conns /\ conn[c] \in Links /\ conn[c].in # <<>>
  BY DEF CallerInv, Gets, At, Connected
<1>2. conn' = [conn EXCEPT ![c] = n]
  BY Zenon DEF Gets
<1>3. Tail(conn[c].in) \in Seq(Replies)
  BY <1>1 DEF Links
<1>4. n \in Links
  BY <1>1, <1>3, Zenon DEF Links
<1>5. n.client = conn[c].client /\ (Busy(n) => Busy(conn[c])) /\ n.in = Tail(conn[c].in)
  BY <1>1 DEF Links, Busy
<1> HIDE DEF n
<1>6. QED
  BY <1>1, <1>2, <1>4, <1>5 DEF Others

\* The daemon reads a request and carries it out.
LEMMA ExecuteReads ==
    ASSUME conn \in [Conns -> Links], NEW c \in Conns, Execute(c)
    PROVE  /\ conn' \in [Conns -> Links] /\ Others(c) /\ conn[c].out # <<>>
           /\ \A t, op, k : Asked(conn[c], t, op, k) => CarriedOut(conn'[c])
<1> DEFINE r == Head(conn[c].out)
<1>1. conn[c] \in Links /\ conn[c].out \in Seq(Requests) /\ conn[c].out # <<>>
  BY DEF Execute, Links
<1>2. r \in Requests /\ Tail(conn[c].out) \in Seq(Requests) /\ r.id \in Int
  <2>1. r \in Requests /\ Tail(conn[c].out) \in Seq(Requests)
    BY <1>1
  <2>2. QED
    BY <2>1 DEF Requests
<1>3. PICK code \in ReplyCodes :
        conn' = [conn EXCEPT ![c].out = Tail(@), ![c].answer = <<[id |-> r.id, code |-> code]>>]
  BY Zenon DEF Execute
<1> DEFINE m == [id |-> r.id, code |-> code]
           n == [conn[c] EXCEPT !.out = Tail(conn[c].out), !.answer = <<m>>]
<1>4. conn' = [conn EXCEPT ![c] = n]
  BY <1>3, Zenon
<1>5. m \in Replies
  BY <1>2 DEF Replies
<1> HIDE DEF m
<1>6. <<m>> \in Seq(Replies)
  BY <1>5
<1>7. n \in Links
  BY <1>1, <1>2, <1>6, Zenon DEF Links
<1>8. /\ n.client = conn[c].client /\ n.out = Tail(conn[c].out)
      /\ n.answer = <<m>> /\ n.in = conn[c].in
  BY <1>1, Zenon DEF Links
<1> HIDE DEF n
<1>9. conn' \in [Conns -> Links] /\ conn'[c] = n /\ Others(c)
  BY <1>4, <1>7 DEF Others
<1>10. ASSUME NEW t, NEW op, NEW k, Asked(conn[c], t, op, k) PROVE CarriedOut(n)
  <2>1. PICK q \in Requests : conn[c].out = <<q>>
    BY <1>10 DEF Asked
  <2>2. n.out = <<>>
    BY <1>8, <2>1
  <2>3. QED
    BY <1>5, <1>8, <1>10, <2>2, Zenon DEF CarriedOut, Asked
<1>11. QED
  BY <1>1, <1>9, <1>10

\* The daemon writes an answer.
LEMMA ReplyWrites ==
    ASSUME conn \in [Conns -> Links], NEW c \in Conns, Reply(c)
    PROVE  /\ conn' \in [Conns -> Links] /\ Others(c) /\ conn[c].answer # <<>>
           /\ CarriedOut(conn[c]) => Answered(conn'[c])
<1> DEFINE n == [conn[c] EXCEPT !.answer = <<>>, !.in = conn[c].in \o conn[c].answer]
<1>1. /\ conn[c] \in Links /\ conn[c].answer # <<>>
      /\ conn[c].in \in Seq(Replies) /\ conn[c].answer \in Seq(Replies)
  BY DEF Reply, Links
<1>2. conn' = [conn EXCEPT ![c] = n]
  BY Zenon DEF Reply
<1>3. conn[c].in \o conn[c].answer \in Seq(Replies) /\ <<>> \in Seq(Replies)
  BY <1>1
<1>4. n \in Links
  BY <1>1, <1>3, Zenon DEF Links
<1>5. /\ n.client = conn[c].client /\ n.out = conn[c].out
      /\ n.answer = <<>> /\ n.in = conn[c].in \o conn[c].answer
  BY <1>1, Zenon DEF Links
<1> HIDE DEF n
<1>6. conn' \in [Conns -> Links] /\ conn'[c] = n /\ Others(c)
  BY <1>2, <1>4 DEF Others
<1>7. ASSUME CarriedOut(conn[c]) PROVE Answered(n)
  <2>1. PICK m \in Replies : conn[c].answer = <<m>>
    BY <1>7 DEF CarriedOut
  <2>2. conn[c].client /\ conn[c].out = <<>> /\ conn[c].in = <<>>
    BY <1>7 DEF CarriedOut
  <2>3. <<>> \o <<m>> = <<m>>
    OBVIOUS
  <2>4. n.in = <<m>>
    BY <1>5, <2>1, <2>2, <2>3, Zenon
  <2>5. QED
    BY <1>5, <2>2, <2>4, Zenon DEF Answered, Busy
<1>8. QED
  BY <1>1, <1>6, <1>7

\* The daemon's end of some connections goes: what it had not read, and what
\* it had not answered, is lost.
Trimmed(l, k) == k.client = l.client /\ k.in = l.in /\ ~Busy(k)
Cuts == conn' \in [Conns -> Links] /\ \A c \in Conns : conn'[c] = conn[c] \/ Trimmed(conn[c], conn'[c])

\* A dropped connection is one such, and so is the daemon's death.
LEMMA FaultCuts ==
    ASSUME conn \in [Conns -> Links], Die \/ \E c \in Conns : Drop(c)
    PROVE  Cuts
<1>1. ASSUME NEW c \in Conns PROVE Cut(c) \in Links /\ Trimmed(conn[c], Cut(c))
  <2>1. /\ conn[c] \in Links /\ FALSE \in BOOLEAN
        /\ <<>> \in Seq(Requests) /\ <<>> \in Seq(Replies)
    OBVIOUS
  <2>2. Cut(c) \in Links
    BY <2>1, Zenon DEF Cut, Links
  <2>3. QED
    BY <2>1, <2>2 DEF Cut, Links, Trimmed, Busy
<1>2. CASE Die
  BY <1>1, <1>2 DEF Die, Cuts
<1>3. ASSUME NEW c \in Conns, Drop(c) PROVE Cuts
  BY <1>1, <1>3 DEF Drop, Cuts
<1>4. QED
  BY <1>2, <1>3

\* What is on a connection, by who has it: nothing between calls, and within a
\* call the request, what came of it or its reply, unless the daemon or the caller hung up.
LinkOf(t, l, place, op, n) ==
    /\ place = "send" => Clean(l)
    /\ place = "receive" => Asked(l, t, op, n) \/ CarriedOut(l) \/ Answered(l) \/ Clean(l)
    /\ place = "release" => Clean(l) \/ Dead(l)

LinkInv ==
    /\ conn \in [Conns -> Links]
    /\ \A c \in InSeq(idle) : Clean(conn[c])
    /\ \A t \in Threads : At(t, Connected) =>
          LinkOf(t, conn[thread[t].conn], thread[t].at, thread[t].op, calls[t])
    /\ \A c \in Conns : Busy(conn[c]) =>
          \E t \in Threads : At(t, {"receive"}) /\ thread[t].conn = c

\* The daemon's codes are the only ones on the wire.
LEMMA LinkReplies == LinkInv => RepliesInv
<1> SUFFICES ASSUME LinkInv, NEW c \in Conns, conn[c].in # <<>>
             PROVE  Head(conn[c].in).code \in ReplyCodes
  BY DEF RepliesInv
<1>1. conn[c].in \in Seq(Replies)
  BY DEF LinkInv, Links
<1>2. Head(conn[c].in) \in Replies
  BY <1>1
<1>3. QED
  BY <1>2 DEF Replies

\* A step of t that only touches t's connection leaves the others' as they were.
LEMMA OneLink ==
    ASSUME CallerInv, OwnInv, LinkInv, CallerInv', NEW t \in Threads,
           \A u \in Threads \ {t} : Alike(u) /\ calls'[u] = calls[u],
           conn' \in [Conns -> Links],
           \A d \in Conns : d # thread[t].conn /\ d # thread'[t].conn => conn'[d] = conn[d],
           \A u \in Threads : thread'[t].conn \in Conns /\ thread'[t].conn # thread[t].conn =>
              thread[u].conn # thread'[t].conn,
           thread'[t].at \in Connected =>
              LinkOf(t, conn'[thread'[t].conn], thread'[t].at, thread'[t].op, calls'[t]),
           \A c \in InSeq(idle') : Clean(conn'[c]),
           thread[t].conn \in Conns /\ Busy(conn'[thread[t].conn]) =>
              thread'[t].at = "receive" /\ thread'[t].conn = thread[t].conn,
           thread'[t].conn \in Conns /\ Busy(conn'[thread'[t].conn]) => thread'[t].at = "receive"
    PROVE  LinkInv'
<1>1. ASSUME NEW u \in Threads, thread'[u].at \in Connected
      PROVE  LinkOf(u, conn'[thread'[u].conn], thread'[u].at, thread'[u].op, calls'[u])
  <2>1. CASE u = t
    BY <1>1, <2>1
  <2>2. CASE u # t
    <3>1. /\ thread'[u].at = thread[u].at /\ thread'[u].conn = thread[u].conn
          /\ thread'[u].op = thread[u].op /\ calls'[u] = calls[u] /\ At(u, Connected)
      BY <1>1, <2>2, Zenon DEF Alike, Connected, At
    <3>2. thread[u].conn \in Conns /\ thread[u].conn # thread[t].conn
      BY <2>2, <3>1, Zenon DEF CallerInv, OwnInv
    <3>3. thread[u].conn # thread'[t].conn
      BY <3>2
    <3>4. conn'[thread[u].conn] = conn[thread[u].conn]
      BY <3>2, <3>3
    <3>5. LinkOf(u, conn[thread[u].conn], thread[u].at, thread[u].op, calls[u])
      BY <3>1, Zenon DEF LinkInv
    <3>6. QED
      BY <3>1, <3>4, <3>5, Zenon
  <2>3. QED
    BY <2>1, <2>2, Zenon
<1>2. ASSUME NEW c \in Conns, Busy(conn'[c])
      PROVE  \E u \in Threads : thread'[u].at = "receive" /\ thread'[u].conn = c
  <2>1. CASE c = thread[t].conn \/ c = thread'[t].conn
    BY <1>2, <2>1
  <2>2. CASE c # thread[t].conn /\ c # thread'[t].conn
    <3>1. PICK u \in Threads : thread[u].at = "receive" /\ thread[u].conn = c
      BY <1>2, <2>2, Zenon DEF LinkInv, At
    <3>2. QED
      BY <2>2, <3>1, Zenon DEF Alike
  <2>3. QED
    BY <2>1, <2>2, Zenon
<1>3. QED
  BY <1>1, <1>2, Zenon DEF LinkInv, At

\* What the daemon does to a connection a caller has.
LEMMA DaemonLinks ==
    ASSUME CallerInv, OwnInv, LinkInv, DaemonStep
    PROVE  LinkInv'
<1> USE DEF pool, history
<1>0. /\ UNCHANGED <<thread, calls, idle>> /\ conn \in [Conns -> Links]
      /\ \A t \in Threads : At(t, Connected) => thread[t].conn \in Conns
      /\ idle \in Seq(Conns) /\ InSeq(idle) \subseteq Conns
  <2>1. UNCHANGED <<thread, calls, idle>>
    BY Zenon DEF DaemonStep, Execute, Reply, Drop, ExecuteOrphan, Die, Restart,
      QueueFills, QueueDrains
  <2>2. idle \in Seq(Conns) /\ InSeq(idle) \subseteq Conns
    BY DEF CallerInv, InSeq
  <2>3. QED
    BY <2>1, <2>2 DEF CallerInv, LinkInv
<1>1. ASSUME NEW c \in Conns, Execute(c) \/ Reply(c) PROVE LinkInv'
  <2>1. /\ conn' \in [Conns -> Links] /\ Others(c) /\ Busy(conn[c])
        /\ Execute(c) => conn[c].out # <<>>
        /\ Reply(c) => conn[c].answer # <<>>
    BY <1>0, <1>1, ExecuteReads, ReplyWrites, Zenon DEF Busy
  <2>2. PICK t \in Threads : At(t, {"receive"}) /\ thread[t].conn = c
    BY <2>1, Zenon DEF LinkInv
  <2>3. CarriedOut(conn'[c]) \/ Answered(conn'[c])
    <3>1. LinkOf(t, conn[c], thread[t].at, thread[t].op, calls[t]) /\ thread[t].at = "receive"
      BY <2>2 DEF LinkInv, At, Connected
    <3>2. CASE Execute(c)
      <4>1. Asked(conn[c], t, thread[t].op, calls[t])
        BY <2>1, <3>1, <3>2, Zenon DEF LinkOf, CarriedOut, Answered, Clean, Busy
      <4>2. QED
        BY <1>0, <3>2, <4>1, ExecuteReads, Zenon
    <3>3. CASE Reply(c)
      <4>1. CarriedOut(conn[c])
        BY <2>1, <3>1, <3>3, Zenon DEF LinkOf, Asked, Answered, Clean, Busy
      <4>2. QED
        BY <1>0, <3>3, <4>1, ReplyWrites, Zenon
    <3>4. QED
      BY <1>1, <3>2, <3>3
  <2>4. ~Clean(conn[c])
    BY <2>1, Zenon DEF Clean
  <2>5. \A d \in InSeq(idle) : Clean(conn'[d])
    BY <1>0, <2>1, <2>4, Zenon DEF LinkInv, Others
  <2>6. ASSUME NEW u \in Threads, At(u, Connected)
        PROVE  LinkOf(u, conn'[thread[u].conn], thread[u].at, thread[u].op, calls[u])
    <3>1. CASE u = t
      BY <2>2, <2>3, <3>1 DEF LinkOf, At
    <3>2. CASE u # t
      <4>1. thread[u].conn \in Conns \ {c}
        BY <1>0, <2>2, <2>6, <3>2 DEF OwnInv
      <4>2. QED
        BY <2>1, <2>6, <4>1 DEF LinkInv, Others
    <3>3. QED
      BY <3>1, <3>2
  <2>7. \A d \in Conns : Busy(conn'[d]) => \E u \in Threads : At(u, {"receive"}) /\ thread[u].conn = d
    BY <2>1, <2>2, Zenon DEF LinkInv, Others
  <2>8. QED
    BY <1>0, <2>1, <2>5, <2>6, <2>7, Zenon DEF LinkInv, At
<1>2. CASE Die \/ \E c \in Conns : Drop(c)
  <2>1. Cuts
    BY <1>0, <1>2, FaultCuts
  <2>2. \A c \in Conns : Clean(conn[c]) => Clean(conn'[c])
    BY <2>1 DEF Cuts, Trimmed, Clean
  <2>3. ASSUME NEW u \in Threads, At(u, Connected)
        PROVE  LinkOf(u, conn'[thread[u].conn], thread[u].at, thread[u].op, calls[u])
    <3> DEFINE l == conn[thread[u].conn]
               k == conn'[thread[u].conn]
    <3>1. /\ thread[u].conn \in Conns /\ (k = l \/ Trimmed(l, k)) /\ (Clean(l) => Clean(k))
          /\ LinkOf(u, l, thread[u].at, thread[u].op, calls[u])
      BY <1>0, <2>1, <2>2, <2>3, Zenon DEF Cuts, LinkInv
    <3> HIDE DEF l, k
    <3>2. LinkOf(u, k, thread[u].at, thread[u].op, calls[u])
      BY <3>1, Zenon DEF LinkOf, Trimmed, Asked, CarriedOut, Answered, Clean, Dead
    <3>3. QED
      BY <3>2 DEF k
  <2>4. \A c \in Conns : Busy(conn'[c]) => Busy(conn[c])
    BY <2>1 DEF Cuts, Trimmed
  <2>5. QED
    BY <1>0, <2>1, <2>2, <2>3, <2>4, Zenon DEF LinkInv, At, Cuts
<1>3. CASE Restart \/ QueueFills \/ QueueDrains \/ \E r \in orphans : ExecuteOrphan(r)
  <2>1. UNCHANGED <<thread, calls, idle, conn>>
    BY <1>3 DEF Restart, QueueFills, QueueDrains, ExecuteOrphan, links
  <2>2. QED
    BY <2>1, Zenon DEF LinkInv, At, InSeq
<1>4. QED
  BY <1>1, <1>2, <1>3 DEF DaemonStep

\* Every step keeps a connection between calls clean.
LEMMA LinkStep == CallerInv /\ OwnInv /\ LinkInv /\ [Next]_vars => LinkInv'
<1> SUFFICES ASSUME CallerInv, OwnInv, LinkInv, [Next]_vars PROVE LinkInv'
  OBVIOUS
<1> USE DEF pool, history, links
<1>a. RepliesInv
  BY LinkReplies
<1>b. CallerInv'
  BY <1>a, CallerStep
<1>0. /\ conn \in [Conns -> Links] /\ idle \in Seq(Conns) /\ Distinct(idle)
      /\ \A t \in Threads : thread[t].conn \in Conns <=> thread[t].at \in Connected
      /\ \A t \in Threads : thread'[t].conn \in Conns <=> thread'[t].at \in Connected
      /\ \A c \in InSeq(idle) : Clean(conn[c])
      /\ \A t \in Threads : thread[t].at \in Connected =>
           LinkOf(t, conn[thread[t].conn], thread[t].at, thread[t].op, calls[t])
  BY <1>b, Zenon DEF CallerInv, OwnInv, LinkInv, At
<1>c. \A t \in Threads : Same(t) => \A u \in Threads \ {t} : Alike(u)
  BY DEF Same, Alike
<1>d. \A t \in Threads : \A place, link : Moves(t, place, link) =>
         /\ \A u \in Threads \ {t} : Alike(u)
         /\ thread'[t].at = place /\ thread'[t].conn = link /\ thread'[t].op = thread[t].op
  BY DEF Moves, Alike
<1>1. ASSUME NEW t \in Threads,
             Begins(t) \/ Waits(t) \/ GivesUp(t) \/ ReservesSlot(t) \/ FreesSlot(t)
      PROVE  LinkInv'
  <2>1. /\ \A u \in Threads \ {t} : Alike(u) /\ calls'[u] = calls[u]
        /\ thread[t].at \notin Connected /\ thread'[t].at \notin Connected
        /\ conn' = conn /\ idle' = idle
    <3>1. CASE Begins(t)
      BY <1>c, <3>1 DEF Begins, CallerInv, At, Connected
    <3>2. CASE Waits(t) \/ ReservesSlot(t)
      BY <1>d, <3>2 DEF Waits, ReservesSlot, At, Connected, Seeking
    <3>3. CASE GivesUp(t) \/ FreesSlot(t)
      BY <3>3 DEF GivesUp, FreesSlot, Ends, Over, At, Connected, Seeking
    <3>4. QED
      BY <1>1, <3>1, <3>2, <3>3, Zenon
  <2>2. thread[t].conn \notin Conns /\ thread'[t].conn \notin Conns
    BY <1>0, <2>1, Zenon
  <2>3. QED
    BY <1>0, <1>b, <2>1, <2>2, OneLink, Zenon
<1>2. ASSUME NEW t \in Threads, Takes(t) PROVE LinkInv'
  <2>1. /\ \A u \in Threads \ {t} : Alike(u) /\ calls'[u] = calls[u]
        /\ thread[t].at \notin Connected /\ thread'[t].at = "send" /\ thread'[t].conn = Head(idle)
        /\ conn' = conn /\ idle # <<>> /\ idle' = Tail(idle)
    BY <1>2, <1>d DEF Takes, At, Seeking, Connected
  <2>2. /\ Head(idle) \in InSeq(idle) /\ Head(idle) \in Conns
        /\ InSeq(idle') \subseteq InSeq(idle)
    BY <1>0, <2>1, TailOf
  <2>3. Clean(conn[Head(idle)]) /\ \A c \in InSeq(idle') : Clean(conn'[c])
    BY <1>0, <2>1, <2>2
  <2>4. LinkOf(t, conn'[thread'[t].conn], thread'[t].at, thread'[t].op, calls'[t])
    BY <2>1, <2>3 DEF LinkOf
  <2>5. \A u \in Threads : thread[u].conn # Head(idle)
    BY <1>0, <2>2 DEF OwnInv, At
  <2>6. ~Busy(conn[Head(idle)])
    BY <2>3 DEF Clean
  <2>7. thread[t].conn \notin Conns
    BY <1>0, <2>1, Zenon
  <2>8. QED
    BY <1>0, <1>b, <2>1, <2>3, <2>4, <2>5, <2>6, <2>7, OneLink, Zenon
<1>3. ASSUME NEW t \in Threads, Releases(t) PROVE LinkInv'
  <2>1. /\ \A u \in Threads \ {t} : Alike(u) /\ calls'[u] = calls[u]
        /\ thread[t].at = "release" /\ thread'[t].at \notin Connected
        /\ thread[t].conn \in Conns /\ conn' = conn
    BY <1>0, <1>3, Zenon DEF Releases, Ends, Over, At, Connected
  <2>2. Clean(conn[thread[t].conn]) \/ Dead(conn[thread[t].conn])
    BY <1>0, <2>1, Zenon DEF LinkOf, Connected
  <2>3. \A c \in InSeq(idle') : Clean(conn'[c])
    <3>1. CASE idle' = idle
      BY <1>0, <2>1, <3>1
    <3>2. CASE idle' = <<thread[t].conn>> \o idle /\ conn[thread[t].conn].client
      <4>1. Clean(conn[thread[t].conn])
        BY <2>2, <3>2 DEF Dead
      <4>2. thread[t].conn \notin InSeq(idle)
        BY <2>1 DEF OwnInv, At, Connected
      <4>3. InSeq(idle') = InSeq(idle) \cup {thread[t].conn}
        BY <1>0, <2>1, <3>2, <4>2, ConsOf, Zenon
      <4>4. QED
        BY <1>0, <2>1, <4>1, <4>3
    <3>3. QED
      BY <1>3, <3>1, <3>2, Zenon DEF Releases
  <2>4. ~Busy(conn[thread[t].conn])
    BY <2>2 DEF Clean, Dead
  <2>5. thread'[t].conn \notin Conns
    BY <1>0, <2>1, Zenon
  <2>6. QED
    BY <1>0, <1>b, <2>1, <2>3, <2>4, <2>5, OneLink, Zenon
<1>4. ASSUME NEW t \in Threads, NEW c \in Conns, Opens(t, c) PROVE LinkInv'
  <2>1. /\ \A u \in Threads \ {t} : Alike(u) /\ calls'[u] = calls[u]
        /\ thread[t].at \notin Connected /\ thread'[t].at = "send" /\ thread'[t].conn = c
        /\ c \notin InSeq(idle) /\ \A u \in Threads : thread[u].conn # c
        /\ conn' = [conn EXCEPT ![c] = Fresh] /\ idle' = idle
    BY <1>4, <1>d DEF Opens, At, Connected
  <2>2. Fresh \in Links /\ Clean(Fresh)
    BY FreshLink
  <2>3. conn' \in [Conns -> Links] /\ conn'[c] = Fresh /\ \A d \in Conns \ {c} : conn'[d] = conn[d]
    BY <1>0, <2>1, <2>2, Zenon
  <2>4. \A d \in InSeq(idle') : Clean(conn'[d])
    <3>1. InSeq(idle) \subseteq Conns
      BY <1>0 DEF InSeq
    <3>2. QED
      BY <1>0, <2>1, <2>3, <3>1, Zenon
  <2>5. LinkOf(t, conn'[c], thread'[t].at, thread'[t].op, calls'[t]) /\ ~Busy(conn'[c])
    BY <2>1, <2>2, <2>3, Zenon DEF LinkOf, Clean
  <2>6. thread[t].conn \notin Conns
    BY <1>0, <2>1
  <2>7. QED
    BY <1>b, <2>1, <2>3, <2>4, <2>5, <2>6, OneLink, Zenon
<1>5. ASSUME NEW t \in Threads, Asks(t), UNCHANGED <<pool, history>> PROVE LinkInv'
  <2>1. /\ \A u \in Threads \ {t} : Alike(u) /\ calls'[u] = calls[u]
        /\ thread[t].at = "send" /\ thread'[t].at = "receive" /\ thread'[t].conn = thread[t].conn
        /\ thread'[t].op = thread[t].op /\ calls' = calls /\ idle' = idle /\ Send(t)
    BY <1>5, <1>d DEF Asks, Send, At
  <2>2. thread[t].conn \in Conns /\ Clean(conn[thread[t].conn])
    BY <1>0, <2>1, Zenon DEF LinkOf, Connected
  <2>3. /\ conn' \in [Conns -> Links] /\ Others(thread[t].conn)
        /\ Asked(conn'[thread[t].conn], t, thread[t].op, calls[t])
    BY <1>0, <2>1, <2>2, SendWrites, Zenon
  <2>4. \A c \in InSeq(idle') : Clean(conn'[c])
    <3>1. idle \in Seq(Conns) /\ At(t, Connected)
      BY <1>0, <2>1, Zenon DEF At, Connected
    <3>2. InSeq(idle) \subseteq Conns
      BY <3>1 DEF InSeq
    <3>3. thread[t].conn \notin InSeq(idle)
      BY <1>0, <3>1, Zenon DEF OwnInv
    <3>4. QED
      BY <1>0, <2>1, <2>3, <3>2, <3>3, Zenon DEF Others
  <2>5. LinkOf(t, conn'[thread[t].conn], thread'[t].at, thread'[t].op, calls'[t])
    BY <2>1, <2>3, Zenon DEF LinkOf
  <2>6. QED
    BY <1>b, <2>1, <2>2, <2>3, <2>4, <2>5, OneLink, Zenon DEF Others
<1>6. ASSUME NEW t \in Threads, Completes(t), Refuses(t) \/ Closes(t) \/ Gets(t) PROVE LinkInv'
  <2>1. /\ \A u \in Threads \ {t} : Alike(u) /\ calls'[u] = calls[u]
        /\ thread[t].at \in {"send", "receive"} /\ thread'[t].at = "release"
        /\ thread'[t].conn = thread[t].conn /\ thread[t].conn \in Conns /\ idle' = idle
    <3>1. /\ thread[t].at \in {"send", "receive"} /\ Moves(t, "release", thread[t].conn)
          /\ calls' = calls /\ idle' = idle
      BY <1>6 DEF Completes, At
    <3>2. thread[t].conn \in Conns
      BY <1>0, <3>1 DEF Connected
    <3>3. QED
      BY <1>d, <3>1, <3>2, Zenon
  <2>2. LinkOf(t, conn[thread[t].conn], thread[t].at, thread[t].op, calls[t])
    BY <1>0, <2>1, Zenon DEF Connected
  <2>3. /\ conn' \in [Conns -> Links] /\ Others(thread[t].conn)
        /\ Clean(conn'[thread[t].conn]) \/ Dead(conn'[thread[t].conn])
    <3>1. CASE Refuses(t)
      BY <1>0, <2>2, <3>1, Zenon DEF Refuses, RefusedLocally, At, LinkOf, Others
    <3>2. CASE Closes(t)
      BY <1>0, <2>1, <3>2, FreshLink, Zenon DEF Closes, CloseEnd, Others
    <3>3. CASE Gets(t)
      <4> DEFINE l == conn[thread[t].conn]
                 k == conn'[thread[t].conn]
      <4>1. /\ conn' \in [Conns -> Links] /\ Others(thread[t].conn)
            /\ k.client = l.client /\ (Busy(k) => Busy(l)) /\ k.in = Tail(l.in)
        BY <1>0, <3>3, GetReads, Zenon
      <4>2. l.in # <<>> /\ thread[t].at = "receive"
        BY <3>3 DEF Gets, At
      <4>3. Answered(l)
        BY <2>2, <4>2, Zenon DEF LinkOf, Asked, CarriedOut, Clean
      <4> HIDE DEF l, k
      <4>4. PICK m \in Replies : l.in = <<m>>
        BY <4>3 DEF Answered
      <4>5. k.in = <<>>
        BY <4>1, <4>4
      <4>6. Clean(k)
        BY <4>1, <4>3, <4>5 DEF Answered, Clean
      <4>7. QED
        BY <4>1, <4>6 DEF k
    <3>4. QED
      BY <1>6, <3>1, <3>2, <3>3
  <2>4. \A c \in InSeq(idle') : Clean(conn'[c])
    <3>1. idle \in Seq(Conns) /\ At(t, Connected)
      BY <1>0, <2>1, Zenon DEF At, Connected
    <3>2. InSeq(idle) \subseteq Conns
      BY <3>1 DEF InSeq
    <3>3. thread[t].conn \notin InSeq(idle)
      BY <1>0, <3>1, Zenon DEF OwnInv
    <3>4. QED
      BY <1>0, <2>1, <2>3, <3>2, <3>3, Zenon DEF Others
  <2>5. ~Busy(conn'[thread[t].conn])
    BY <2>3 DEF Clean, Dead
  <2>6. LinkOf(t, conn'[thread[t].conn], thread'[t].at, thread'[t].op, calls'[t])
    BY <2>1, <2>3, Zenon DEF LinkOf
  <2>7. QED
    BY <1>b, <2>1, <2>3, <2>4, <2>5, <2>6, OneLink, Zenon DEF Others
<1>7. CASE UNCHANGED vars
  BY <1>7, Zenon DEF vars, LinkInv, At, InSeq
<1>8. QED
  BY <1>a, <1>1, <1>2, <1>3, <1>4, <1>5, <1>6, <1>7, StepKinds, DaemonLinks

-----------------------------------------------------------------------------
(* Waiting callers *)

Woken == {t \in Threads : At(t, {"woken"})}
Free == Len(idle) + MaxConnections - total

\* The woken callers, when t and at most one that it wakes move.
LEMMA WokenStep ==
    ASSUME CallerInv, CallerInv', NEW t \in Threads, thread'[t].at # "woken"
    PROVE  /\ Cardinality(Woken) \in Nat
           /\ Same(t) => Cardinality(Woken') \in {Cardinality(Woken), Cardinality(Woken) - 1}
           /\ Same(t) /\ thread[t].at # "woken" => Cardinality(Woken') = Cardinality(Woken)
           /\ thread[t].at # "woken" /\ WakesOne(t) =>
                \/ \A u \in Threads \ {t} : thread'[u].at # "wait"
                \/ /\ Cardinality(Woken') = Cardinality(Woken) + 1
                   /\ \E u \in Threads : thread[u].at = "wait"
<1>1. Woken \subseteq Threads
  BY DEF Woken
<1>2. IsFiniteSet(Woken) /\ Cardinality(Woken) \in Nat
  BY <1>1, SdkAssumption, FS_Subset, FS_CardinalityType
<1>3. /\ Woken = {u \in Threads : thread[u].at = "woken"}
      /\ Woken' = {u \in Threads : thread'[u].at = "woken"}
  BY DEF Woken, At
<1>4. Same(t) => Woken' = Woken \ {t}
  BY <1>3 DEF Same
<1>5. Cardinality(Woken \ {t}) = IF t \in Woken THEN Cardinality(Woken) - 1 ELSE Cardinality(Woken)
  BY <1>2, FS_RemoveElement, Zenon
<1>6. thread[t].at # "woken" => t \notin Woken
  BY <1>3
<1>7. ASSUME thread[t].at # "woken", NEW w \in Threads \ {t},
             thread[w].at = "wait", thread'[w].at = "woken",
             \A u \in Threads \ {t, w} : thread'[u] = thread[u]
      PROVE  Cardinality(Woken') = Cardinality(Woken) + 1
  <2>1. Woken' = Woken \cup {w} /\ w \notin Woken
    BY <1>3, <1>7
  <2>2. QED
    BY <1>2, <2>1, FS_AddElement
<1>8. thread[t].at # "woken" /\ WakesOne(t) =>
        \/ \A u \in Threads \ {t} : thread'[u].at # "wait"
        \/ /\ Cardinality(Woken') = Cardinality(Woken) + 1
           /\ \E u \in Threads : thread[u].at = "wait"
  BY <1>7 DEF WakesOne
<1>9. QED
  BY <1>2, <1>4, <1>5, <1>6, <1>8, Zenon

\* Every step keeps a woken caller on its way to each free connection or slot.
LEMMA WakeStep ==
    CallerInv /\ OwnInv /\ RepliesInv /\ NobodyStranded /\ [Next]_vars => NobodyStranded'
<1> SUFFICES ASSUME CallerInv, OwnInv, RepliesInv, NobodyStranded, [Next]_vars PROVE NobodyStranded'
  OBVIOUS
<1> USE DEF pool, history
<1>a. CallerInv' /\ OwnInv'
  BY CallerStep, OwnStep
<1>0. /\ idle \in Seq(Conns) /\ Len(idle) \in Nat /\ total \in Int /\ MaxConnections \in Nat
      /\ Distinct(idle)
      /\ (\E u \in Threads : thread[u].at = "wait") => Free <= Cardinality(Woken)
  BY SdkAssumption DEF CallerInv, OwnInv, NobodyStranded, Free, Woken, At
<1>b. SUFFICES (\E u \in Threads : thread'[u].at = "wait") => Free' <= Cardinality(Woken')
  BY DEF NobodyStranded, Free, Woken, At
<1>c. \A t \in Threads : \A place, link : Moves(t, place, link) => Same(t) /\ thread'[t].at = place
  BY DEF Moves, Same
<1>d. Free \in Int
  BY <1>0 DEF Free
<1>1. ASSUME NEW t \in Threads, Takes(t) \/ ReservesSlot(t)
      PROVE  (\E u \in Threads : thread'[u].at = "wait") => Free' <= Cardinality(Woken')
  <2>1. Same(t) /\ thread'[t].at \notin {"wait", "woken"}
    BY <1>1, <1>c DEF Takes, ReservesSlot
  <2>2. Cardinality(Woken) \in Nat /\ Cardinality(Woken') \in {Cardinality(Woken), Cardinality(Woken) - 1}
    BY <1>a, <2>1, WokenStep
  <2>3. Free' = Free - 1
    <3>1. CASE Takes(t)
      <4>1. idle # <<>> /\ idle' = Tail(idle) /\ total' = total
        BY <3>1 DEF Takes
      <4>2. Len(idle') = Len(idle) - 1
        BY <1>0, <4>1, TailOf
      <4>3. QED
        BY <1>0, <4>1, <4>2 DEF Free
    <3>2. CASE ReservesSlot(t)
      BY <1>0, <3>2 DEF ReservesSlot, Free
    <3>3. QED
      BY <1>1, <3>1, <3>2
  <2>4. (\E u \in Threads : thread'[u].at = "wait") => \E u \in Threads : thread[u].at = "wait"
    BY <2>1 DEF Same
  <2>5. QED
    BY <1>0, <1>d, <2>2, <2>3, <2>4
<1>2. ASSUME NEW t \in Threads, Waits(t) \/ GivesUp(t)
      PROVE  (\E u \in Threads : thread'[u].at = "wait") => Free' <= Cardinality(Woken')
  <2>1. idle = <<>> /\ ~(total < MaxConnections) /\ idle' = idle /\ total' = total
    BY <1>2 DEF Waits, GivesUp, Available
  <2>2. Free' <= 0
    BY <1>0, <2>1 DEF Free
  <2>3. Cardinality(Woken') \in Nat /\ Free' \in Int
    <3>1. Woken' \subseteq Threads
      BY DEF Woken
    <3>2. QED
      BY <1>0, <2>1, <3>1, SdkAssumption, FS_Subset, FS_CardinalityType DEF Free
  <2>4. QED
    BY <2>2, <2>3
<1>3. ASSUME NEW t \in Threads, FreesSlot(t) \/ Releases(t)
      PROVE  (\E u \in Threads : thread'[u].at = "wait") => Free' <= Cardinality(Woken')
  <2>1. WakesOne(t) /\ thread[t].at # "woken" /\ thread'[t].at \notin {"wait", "woken"}
    BY <1>3 DEF FreesSlot, Releases, Ends, Over, At
  <2>2. /\ Cardinality(Woken) \in Nat
        /\ \/ \A u \in Threads \ {t} : thread'[u].at # "wait"
           \/ /\ Cardinality(Woken') = Cardinality(Woken) + 1
              /\ \E u \in Threads : thread[u].at = "wait"
    BY <1>a, <2>1, WokenStep
  <2>3. Free' = Free + 1
    <3>1. CASE total' = total - 1 /\ idle' = idle
      BY <1>0, <3>1 DEF Free
    <3>2. CASE Releases(t) /\ idle' = <<thread[t].conn>> \o idle /\ total' = total
      <4>1. thread[t].conn \in Conns /\ thread[t].conn \notin InSeq(idle)
        BY <3>2 DEF Releases, CallerInv, OwnInv, At, Connected
      <4>2. Len(idle') = Len(idle) + 1
        BY <1>0, <3>2, <4>1, ConsOf
      <4>3. QED
        BY <1>0, <3>2, <4>2 DEF Free
    <3>3. QED
      BY <1>3, <3>1, <3>2 DEF FreesSlot, Releases
  <2>4. CASE \A u \in Threads \ {t} : thread'[u].at # "wait"
    BY <2>1, <2>4, Zenon
  <2>5. CASE Cardinality(Woken') = Cardinality(Woken) + 1 /\ \E u \in Threads : thread[u].at = "wait"
    <3>1. Free <= Cardinality(Woken)
      BY <1>0, <2>5, Zenon
    <3>2. Free' <= Cardinality(Woken')
      BY <1>d, <2>2, <2>3, <2>5, <3>1
    <3>3. QED
      BY <3>2, Zenon
  <2>6. QED
    BY <2>2, <2>4, <2>5, Zenon
<1>4. ASSUME NEW t \in Threads, \/ Begins(t) \/ Completes(t) \/ (\E c \in Conns : Opens(t, c))
                                \/ Asks(t) /\ UNCHANGED <<pool, history>>
      PROVE  (\E u \in Threads : thread'[u].at = "wait") => Free' <= Cardinality(Woken')
  <2>1. /\ Same(t) /\ thread[t].at # "woken" /\ thread'[t].at \notin {"wait", "woken"}
        /\ idle' = idle /\ total' = total
    BY <1>4, <1>c DEF Begins, Completes, Opens, Asks, Send, At
  <2>2. Cardinality(Woken') = Cardinality(Woken)
    BY <1>a, <2>1, WokenStep
  <2>3. Free' = Free
    BY <2>1 DEF Free
  <2>4. (\E u \in Threads : thread'[u].at = "wait") => \E u \in Threads : thread[u].at = "wait"
    BY <2>1 DEF Same
  <2>5. QED
    BY <1>0, <2>2, <2>3, <2>4
<1>5. CASE DaemonStep \/ UNCHANGED vars
  <2>1. UNCHANGED <<thread, idle, total>>
    BY <1>5, Zenon DEF DaemonStep, Execute, Reply, Drop, ExecuteOrphan, Die, Restart,
      QueueFills, QueueDrains, vars
  <2>2. QED
    BY <1>0, <2>1 DEF Free, Woken, At
<1>6. QED
  BY <1>1, <1>2, <1>3, <1>4, <1>5, StepKinds, Zenon

\* The inductive invariant.
SdkInv == CallerInv /\ OwnInv /\ LinkInv /\ NobodyStranded

-----------------------------------------------------------------------------
(* The theorems *)

\* Client::connect leaves one clean connection in the pool and nobody waiting.
LEMMA SdkStarts == Init => SdkInv
<1> SUFFICES ASSUME Init PROVE SdkInv
  OBVIOUS
<1>1. PICK first \in Conns :
        /\ idle = <<first>> /\ total = 1
        /\ conn = [c \in Conns |-> IF c = first THEN Fresh ELSE Closed]
        /\ thread = [t \in Threads |-> Resting]
        /\ calls = [t \in Threads |-> 0]
  BY DEF Init
<1>2. /\ idle \in Seq(Conns) /\ Len(idle) = 1 /\ idle[1] = first /\ InSeq(idle) = {first}
      /\ total = 1 /\ MaxConnections >= 1
  BY <1>1, SdkAssumption DEF InSeq
<1>3. Resting \in Callers /\ Resting.at = "rest" /\ Resting.conn = Nil
  BY DEF Resting, Callers, Places, Ops, Codes
<1>4. /\ thread \in [Threads -> Callers]
      /\ \A t \in Threads : thread[t].at = "rest" /\ thread[t].conn = Nil
  BY <1>1, <1>3
<1>5. CallerInv
  <2>1. calls \in [Threads -> 0 .. MaxCalls]
    BY <1>1, SdkAssumption
  <2>2. QED
    BY <1>2, <1>4, <2>1, SdkAssumption DEF CallerInv, At, Connected
<1>6. OwnInv
  <2>1. Holding = {}
    BY <1>4 DEF Holding, At
  <2>2. Cardinality(Holding) = 0
    BY <2>1, FS_EmptySet
  <2>3. Distinct(idle)
    BY <1>2 DEF Distinct
  <2>4. total = Len(idle) + Cardinality(Holding) /\ total <= MaxConnections
    BY <1>2, <2>2, SdkAssumption
  <2>5. QED
    BY <1>4, <2>3, <2>4 DEF OwnInv, At, Connected
<1>7. LinkInv
  <2>1. conn \in [Conns -> Links] /\ Clean(conn[first]) /\ \A c \in Conns : ~Busy(conn[c])
    BY <1>1, FreshLink DEF Clean, Dead
  <2>2. QED
    BY <1>2, <1>4, <2>1 DEF LinkInv, At, Connected
<1>8. NobodyStranded
  BY <1>4 DEF NobodyStranded, At
<1>9. QED
  BY <1>5, <1>6, <1>7, <1>8 DEF SdkInv

\* SdkInv is inductive.
LEMMA SdkKeeps == SdkInv /\ [Next]_vars => SdkInv'
  BY LinkReplies, CallerStep, OwnStep, LinkStep, WakeStep DEF SdkInv

\* It always holds.
LEMMA SdkAlways == Spec => []SdkInv
  BY SdkStarts, SdkKeeps, PTL DEF Spec

\* The pool of sdk::Client never opens more than max_connections, loses no slot
\* when an open or a call fails, and never hands a connection to two callers, for
\* any number of callers and connections.
THEOREM PoolAlwaysAccounted == Spec => []PoolAccounted
<1>1. SdkInv => PoolAccounted
  <2> SUFFICES ASSUME CallerInv, OwnInv PROVE PoolAccounted
    BY DEF SdkInv
  <2>1. Cardinality(InSeq(idle)) = Len(idle)
    BY DistinctCounts DEF CallerInv, OwnInv
  <2>2. ASSUME NEW t \in Holding, thread[t].conn # Nil
        PROVE  /\ thread[t].conn \notin InSeq(idle)
               /\ \A u \in Holding : u # t => thread[u].conn # thread[t].conn
    <3>1. t \in Threads /\ thread[t] \in Callers /\ Holding \subseteq Threads
      BY DEF Holding, CallerInv
    <3>2. thread[t].conn \in Conns
      BY <2>2, <3>1 DEF Callers
    <3>3. QED
      BY <3>1, <3>2 DEF CallerInv, OwnInv
  <2>3. QED
    BY <2>1, <2>2 DEF PoolAccounted, OwnInv
<1>2. QED
  BY <1>1, SdkAlways, PTL

\* ~PooledConnection only ever recycles a connection that is between two messages,
\* whatever timed out, was refused or was cut before.
THEOREM IdleAlwaysClean == Spec => []IdleIsClean
<1>1. SdkInv => IdleIsClean
  BY Zenon DEF SdkInv, LinkInv, IdleIsClean, Clean, Busy
<1>2. QED
  BY <1>1, SdkAlways, PTL

\* One notify_one for each connection or slot given back is enough: no caller waits
\* in invoke() while something is free that no woken caller is on its way to.
THEOREM NobodyEverStranded == Spec => []NobodyStranded
<1>1. SdkInv => NobodyStranded
  BY DEF SdkInv
<1>2. QED
  BY <1>1, SdkAlways, PTL
=============================================================================
