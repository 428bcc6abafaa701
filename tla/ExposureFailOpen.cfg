SPECIFICATION Spec
CONSTANTS
    i1 = i1
    i2 = i2
    i3 = i3
    Items = {i1, i2, i3}
    NumShards = 1
    ShardFor <- MCShardFor
    MaxTrackedItems = 2
    ExposureCap = 0
    FrequencyLimit = 2
    FrequencyWindow = 2
    FailOpen = TRUE
    Times <- MCTimes
    MaxReserves = 5
SYMMETRY OneShardSymmetry
INVARIANTS
    TypeOK
    RollingRespected
    RecencyMatches
PROPERTIES
    EvictsLeastRecentlyGranted
