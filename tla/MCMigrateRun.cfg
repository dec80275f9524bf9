CONSTANTS
    w1 = w1
    w2 = w2
    Workers <- WorkerSet
    MaxInflight = 3
    FetchSize = 2
    NumPages = 1
    BatchSizes = {1, 2}
    FlushThreshold = 2
    StrictGrouping = TRUE
    MaxExplode = 2
    RecordErrors = TRUE
    MayKill = TRUE
SPECIFICATION FairSpec
INVARIANTS
    PermitsConserved
    WriteIsLanded
    BufferBounded
    RowsBalance
PROPERTY
    EveryRangeEnds
