\* Every inventory of four items from seven kinds, in every scan order.
CONSTANTS
    Inventories <- MCInventories
    Signals <- MCSignals
    Counts = {1, 2, 3}
    Overfetch = 2
    DefaultAffinity = 1
    HalfLife = 1
    MaxHalvings = 2
    MinScore = 4
    Now = 2
    Never = 0

SPECIFICATION Spec

\* A request ends.
CHECK_DEADLOCK FALSE

INVARIANTS
    ShortlistIsBest
    AskedBestFirst
    SlateIsGreedy
