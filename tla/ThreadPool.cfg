SPECIFICATION Spec
CONSTANTS
    w1 = w1 w2 = w2 p1 = p1 p2 = p2 s1 = s1 s2 = s2 k1 = k1 k2 = k2 k3 = k3
    Workers = {w1, w2}
    Posters = {p1, p2}
    Stoppers = {s1, s2}
    Tasks = {k1, k2, k3}
    MaxQueued = 2
INVARIANTS
    PoolTypeOK
    FifoOnce
    RunOnce
    NoLostWakeup
    ShutdownSettles
PROPERTIES
    AcceptedSettles
    StopEnds
