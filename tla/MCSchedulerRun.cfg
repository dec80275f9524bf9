CONSTANTS
    w1 = w1
    w2 = w2
    Workers <- WorkerSet
    NumRanges = 2
    ErrorLimit = 1
    RangeErrors = {0, 2}
    Verdicts = {"PASS"}
    MaxSignals = 1
    MaxOperatorCalls = 1
SPECIFICATION Spec
SYMMETRY WorkerSymmetry
INVARIANTS
    ExclusiveClaims
    CountersMatchOutcomes
    ErrorLimitEnforced
    LateClaimsBounded
    ReportPartitionsPlan
    StopIsExplained
PROPERTY
    ImplementsPlan
