SPECIFICATION GateSpec
CONSTANTS
    i1 = i1
    i2 = i2
    Items = {i1, i2}
    NumShards = 1
    ShardFor <- MCShardFor
    MaxTrackedItems = 2
    ExposureCap = 2
    FrequencyLimit = 2
    FrequencyWindow = 2
    FailOpen = FALSE
    MaxTime = 3
    Times <- MCTimes
    MaxReserves = 3
    MaxCount = 2
    t1 = t1
    t2 = t2
    Threads = {t1, t2}
INVARIANTS
    GateTypeOK
    ChargedIsReturned
    NeverOverCap
    LateBounded
PROPERTIES
    RequestsEnd
