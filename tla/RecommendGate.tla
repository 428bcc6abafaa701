--------------------------- MODULE RecommendGate ---------------------------
(***************************************************************************)
(* Handler::on_recommend on several pool threads over one ExposureStore.   *)
(*                                                                         *)
(* A request reads the clock once, before it scans the cache, and hands    *)
(* that one `now` to every call of reserve() or check() it makes while it  *)
(* selects its slate.  Nothing orders the calls of two requests by their   *)
(* `now`.  The ranking is abstracted: the shortlist is any set of items    *)
(* and the next best candidate is any member that is left.                 *)
(***************************************************************************)
EXTENDS ExposureStore

CONSTANTS
    Threads,    \* the pool threads that run handlers
    MaxCount,   \* bound on request.count
    MaxTime     \* bound on the clock

ASSUME GateAssumption ==
    /\ IsFiniteSet(Threads)
    /\ MaxCount \in Nat \ {0}
    /\ MaxTime \in Nat
    /\ Times = 0 .. MaxTime

VARIABLES
    clock,      \* what clock_() returns; it does not run backwards here
    request,    \* thread -> the on_recommend() call it is in
    returned    \* history: id -> live slates returned with it

gateVars == <<vars, clock, request, returned>>

NoRequest == [active |-> FALSE, now |-> 0, dry_run |-> FALSE, count |-> 0,
              shortlist |-> {}, chosen |-> {}]

\* reserve() calls the requests in progress may still make.
Outstanding ==
    SumFunction([t \in Threads |->
        IF request[t].dry_run THEN 0 ELSE Cardinality(request[t].shortlist)])

-----------------------------------------------------------------------------

Tick ==
    /\ clock < MaxTime
    /\ clock' = clock + 1
    /\ UNCHANGED <<vars, request, returned>>

\* Mutant: threads read clocks of their own, one of them a tick ahead.
BeginWithSkewedClock(t, count, dry_run, shortlist) ==
    /\ ~request[t].active
    /\ dry_run \/ Reserves + Outstanding + Cardinality(shortlist) <= MaxReserves
    /\ \E now \in {clock, clock + 1} \cap Times :
         request' = [request EXCEPT ![t] =
                       [active |-> TRUE, now |-> now, dry_run |-> dry_run, count |-> count,
                        shortlist |-> shortlist, chosen |-> {}]]
    /\ UNCHANGED <<vars, clock, returned>>

\* on_recommend() up to select(): the clock is read and the shortlist built.  A
\* live request starts only if the bound on reserve() calls covers it.
Begin(t, count, dry_run, shortlist) ==
    /\ ~request[t].active
    /\ dry_run \/ Reserves + Outstanding + Cardinality(shortlist) <= MaxReserves
    /\ request' = [request EXCEPT ![t] =
                     [active |-> TRUE, now |-> clock, dry_run |-> dry_run, count |-> count,
                      shortlist |-> shortlist, chosen |-> {}]]
    /\ UNCHANGED <<vars, clock, returned>>

\* Mutant: one more round once the slate is full.
SelectingOffByOne(t) ==
    /\ request[t].active
    /\ Cardinality(request[t].chosen) <= request[t].count

Selecting(t) ==
    /\ request[t].active
    /\ Cardinality(request[t].chosen) < request[t].count

\* The winner is marked taken whether or not it is accepted.
Take(t, id, accepted) ==
    request' = [request EXCEPT ![t].shortlist = @ \ {id},
                               ![t].chosen = IF accepted THEN @ \cup {id} ELSE @]

\* Mutant: a dry run reserves.
ConsultDryReserving(t, id) ==
    /\ Selecting(t)
    /\ request[t].dry_run
    /\ id \in request[t].shortlist
    /\ Reserve(id, request[t].now)
    /\ Take(t, id, metrics'.allowed > metrics.allowed)
    /\ UNCHANGED <<clock, returned>>

\* Mutant: a refused candidate stays on the shortlist.
ConsultDryRetrying(t, id) ==
    /\ Selecting(t)
    /\ request[t].dry_run
    /\ id \in request[t].shortlist
    /\ IF Check(id, request[t].now) = "Allowed"
       THEN Take(t, id, TRUE)
       ELSE UNCHANGED request
    /\ UNCHANGED <<vars, clock, returned>>

\* One round of select() with the accept callback of a dry run.
ConsultDry(t, id) ==
    /\ Selecting(t)
    /\ request[t].dry_run
    /\ id \in request[t].shortlist
    /\ Take(t, id, Check(id, request[t].now) = "Allowed")
    /\ UNCHANGED <<vars, clock, returned>>

\* One round of select() with the accept callback of a live request.
Consult(t, id) ==
    /\ Selecting(t)
    /\ ~request[t].dry_run
    /\ id \in request[t].shortlist
    /\ Reserve(id, request[t].now)
    /\ Take(t, id, metrics'.allowed > metrics.allowed)
    /\ UNCHANGED <<clock, returned>>

\* select() returns: the slate is full, or nothing is left.
Finish(t) ==
    /\ request[t].active
    /\ ~Selecting(t) \/ request[t].shortlist = {}
    /\ returned' = IF request[t].dry_run THEN returned
                   ELSE [id \in Items |-> IF id \in request[t].chosen
                                          THEN returned[id] + 1 ELSE returned[id]]
    /\ request' = [request EXCEPT ![t] = NoRequest]
    /\ UNCHANGED <<vars, clock>>

-----------------------------------------------------------------------------

GateInit ==
    /\ Init
    /\ clock = 0
    /\ request = [t \in Threads |-> NoRequest]
    /\ returned = [id \in Items |-> 0]

GateNext ==
    \/ Tick
    \/ \E t \in Threads :
         \/ \E count \in 1 .. MaxCount, dry_run \in BOOLEAN, shortlist \in SUBSET Items :
                Begin(t, count, dry_run, shortlist)
         \/ \E id \in Items : ConsultDry(t, id)
         \/ \E id \in Items : Consult(t, id)
         \/ Finish(t)

\* A pool thread runs its handler to the end; the mutexes it takes are held for
\* the length of one store operation.  Nothing makes clients send requests, nor
\* the clock tick.
GateFairness ==
    \A t \in Threads :
        WF_gateVars((\E id \in Items : ConsultDry(t, id) \/ Consult(t, id)) \/ Finish(t))

GateSpec == GateInit /\ [][GateNext]_gateVars /\ GateFairness

-----------------------------------------------------------------------------
(* Properties *)

Live(t) == request[t].active /\ ~request[t].dry_run

\* The slates a live request has accepted an item into, returned or not.
Slates(id) == returned[id] + Cardinality({t \in Threads : Live(t) /\ id \in request[t].chosen})

\* The gate's variables hold what the handler's locals hold, and select() never
\* puts more items into a slate than the request asks for.
GateTypeOK ==
    /\ TypeOK
    /\ clock \in 0 .. MaxTime
    /\ request \in [Threads -> [active : BOOLEAN, now : 0 .. MaxTime, dry_run : BOOLEAN,
                                count : 0 .. MaxCount, shortlist : SUBSET Items,
                                chosen : SUBSET Items]]
    /\ returned \in [Items -> Nat]
    /\ \A t \in Threads : Cardinality(request[t].chosen) <= request[t].count

\* Only what is returned is charged, and all of it is: the shows reserve() has
\* recorded are exactly the live slates that hold the item, so neither a dry run
\* nor a candidate passed over is charged.
ChargedIsReturned == \A id \in Items : shown[id] = Slates(id)

\* The cap as a client sees it: under fail-closed no item is in more than
\* ExposureCap live slates, however requests interleave.
NeverOverCap ==
    ~FailOpen /\ ExposureCap > 0 => \A id \in Items : Slates(id) <= ExposureCap

\* How late calls can come: of the requests that read the clock in one window, all
\* but the first thread to leave it can each move an item's window backwards once.
\* One worker alone never does.
LateBounded ==
    \A id \in Items : late[id] <= (Cardinality(Threads) - 1) * WindowOf(clock)

\* select() ends: a refused candidate is not considered again.
RequestsEnd == \A t \in Threads : request[t].active ~> ~request[t].active

\* The frequency limit as the configuration states it: no more than
\* FrequencyLimit shows of an item are stamped with one window.
FrequencyLimitHolds ==
    FrequencyLimit > 0 => \A id \in Items, w \in Windows : shownIn[id][w] <= FrequencyLimit
=============================================================================
