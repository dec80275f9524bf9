CONSTANTS
    w1 = w1
    w2 = w2
    Workers <- WorkerSet
    MaxInflight = 2
    FetchSize = 2
    NumPages = 1
    BatchSizes = {1}
    FlushThreshold = 2
    StrictGrouping = TRUE
    MaxExplode = 1
    RecordErrors = FALSE
    MayKill = FALSE
SPECIFICATION FairSpec
PROPERTY
    EveryRangeEnds
CHECK_DEADLOCK FALSE
