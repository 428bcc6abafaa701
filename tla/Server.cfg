\* Two starts, two workers, one queue slot, two descriptors and two peers.
CONSTANTS
    Daemons = {lrdd}
    Lrdd = lrdd
    NoFile = NoFile
    Debris = Debris
    Nil = Nil
    Workers = {w1, w2}
    Clients = {c1, c2}
    Fds = {4, 5}
    MaxQueued = 1
    PipeCapacity = 1
    MaxStarts = 2

SPECIFICATION Spec

CHECK_DEADLOCK FALSE

INVARIANTS
    ConnectionsAccounted
    NobodyMissed
    PathIsTrue

PROPERTIES
    StopReturns
