----------------------------- MODULE CacheSpec ------------------------------
(***************************************************************************)
(* What the item cache promises its callers.  Each shard is a map of at    *)
(* most Capacity entries, over keys of its own, that forgets the key       *)
(* unused for longest when it has to make room, and nothing else.  Readers *)
(* that are not uses do not show.                                          *)
(***************************************************************************)
EXTENDS Naturals, Sequences, SequencesExt, Functions

CONSTANTS
    Values,
    Home,       \* shard -> the keys it is responsible for
    Capacity    \* entries of one shard

VARIABLES
    store,      \* shard -> its map, a function on the keys present
    recent      \* shard -> the keys present, the one used last first

Present(s) == DOMAIN store[s]
UsedLast(s, k) == recent' = [recent EXCEPT ![s] = <<k>> \o Remove(@, k)]
Holding(s, keys, k, v) ==
    store' = [store EXCEPT ![s] = [x \in keys \cup {k} |-> IF x = k THEN v ELSE store[s][x]]]

Init ==
    /\ DOMAIN store = DOMAIN Home /\ DOMAIN recent = DOMAIN Home
    /\ \A s \in DOMAIN Home :
        /\ Present(s) \subseteq Home[s] /\ Range(store[s]) \subseteq Values
        /\ Len(recent[s]) <= Capacity
        /\ IsInjective(recent[s]) /\ Range(recent[s]) = Present(s)

Use(s, k) == k \in Present(s) /\ UsedLast(s, k) /\ UNCHANGED store

Write(s, k, v) ==
    /\ k \in Present(s) \/ Len(recent[s]) < Capacity
    /\ UsedLast(s, k)
    /\ Holding(s, Present(s), k, v)

WriteForgetting(s, k, v) ==
    /\ k \notin Present(s) /\ Len(recent[s]) = Capacity
    /\ recent' = [recent EXCEPT ![s] = <<k>> \o Front(@)]
    /\ Holding(s, Present(s) \ {Last(recent[s])}, k, v)

Delete(s, k) ==
    /\ k \in Present(s)
    /\ recent' = [recent EXCEPT ![s] = Remove(@, k)]
    /\ store' = [store EXCEPT ![s] = Restrict(@, Present(s) \ {k})]

Next ==
    \E s \in DOMAIN Home : \E k \in Home[s] :
        \/ Use(s, k) \/ Delete(s, k)
        \/ \E v \in Values : Write(s, k, v) \/ WriteForgetting(s, k, v)

Spec == Init /\ [][Next]_<<store, recent>>
=============================================================================
