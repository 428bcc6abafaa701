\* Three callers, one pooled connection, one retry, one fault of the daemon.
CONSTANTS
    Threads = {t1, t2, t3}
    Conns = {c1}
    MaxConnections = 1
    MaxRetries = 1
    RetryRecording = FALSE
    ReplyCodes = {"Ok", "InvalidArgument"}
    MaxCalls = 1
    MaxFaults = 1
    Nil = Nil

SPECIFICATION Spec

\* The calls are bounded.
CHECK_DEADLOCK FALSE

INVARIANTS
    PoolAccounted
    IdleIsClean
    NobodyStranded
    AtMostOnce

PROPERTIES
    CallsEnd
