SPECIFICATION Spec
CONSTANTS
    i1 = i1
    i2 = i2
    i3 = i3
    Items = {i1, i2, i3}
    NumShards = 2
    ShardFor <- MCShardFor
    MaxTrackedItems = 3
    ExposureCap = 3
    FrequencyLimit = 2
    FrequencyWindow = 2
    FailOpen = FALSE
    Times <- MCTimes
    MaxReserves = 4
SYMMETRY TwoShardSymmetry
INVARIANTS
    CapRespected
    WindowRespected
    CapacityRespected
PROPERTIES
    CheckPredicts
