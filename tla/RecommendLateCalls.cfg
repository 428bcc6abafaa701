SPECIFICATION GateSpec
CONSTANTS
    i1 = i1
    i2 = i2
    Items = {i1}
    NumShards = 1
    ShardFor <- MCShardFor
    MaxTrackedItems = 2
    ExposureCap = 0
    FrequencyLimit = 2
    FrequencyWindow = 2
    FailOpen = FALSE
    MaxTime = 3
    Times <- MCTimes
    MaxReserves = 4
    MaxCount = 1
    t1 = t1
    t2 = t2
    Threads = {t1, t2}
INVARIANTS
    FrequencyLimitHolds
