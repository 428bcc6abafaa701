\* Two threads, three requests after the preload, two shards of two entries.
CONSTANTS
    Threads = {t1, t2}
    Keys = {1, 2, 3, 5}
    Values = {"v", "w"}
    ShardCount = 2
    CacheCapacity = 4
    Hash <- MCHash
    Operations <- MCOperations
    Preload <- MCPreload
    MaxCount = 1
    MaxRequests = 6
    MaxTime = 2
    NoiseEnabled = TRUE
    EpochLength = 2
    Rounding = 2
    Threshold = 2
    Draw <- MCDraw

SPECIFICATION Spec

\* The requests are bounded.
CHECK_DEADLOCK FALSE

INVARIANTS
    ScanIsFair
    CountersSettle
    PublishedNeverFalls
    PublishedIsCoarse

PROPERTIES
    ShardsAreCaches
