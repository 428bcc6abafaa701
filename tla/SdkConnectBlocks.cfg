\* One caller, one pooled connection, one fault of the daemon.
CONSTANTS
    Threads = {t1}
    Conns = {c1}
    MaxConnections = 1
    MaxRetries = 1
    RetryRecording = FALSE
    ReplyCodes = {"Ok", "InvalidArgument"}
    MaxCalls = 1
    MaxFaults = 1
    Nil = Nil

SPECIFICATION Spec

\* The calls are bounded.
CHECK_DEADLOCK FALSE

PROPERTY EveryWaitIsBounded
