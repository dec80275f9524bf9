CONSTANTS
    a = a
    b = b
    Ranges <- RangeSet
    RowsIn <- RowsOf
    MaxLookups <- LookupsOf
    FetchSize = 2
    MaxInflight = 2
    MaxExplode = 2
    Settings <- SettingSet
SPECIFICATION FairSpec
INVARIANTS
    PermitsConserved
    SettledRangesConverged
    NothingInvented
    RowsBalance
    ReportMatchesCounters
PROPERTY
    EveryRangeEnds
