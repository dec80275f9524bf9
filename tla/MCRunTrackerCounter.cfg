CONSTANTS
    r1 = r1
    r2 = r2
    Ranges <- OneRange
    Verdicts = {"PASS", "FAIL"}
    QueueCapacity = 1
    BatchSize = 1
    MaxRuns = 3
    Job = "migrate"
    CounterTable = TRUE
    Correcting = FALSE
    MayCrash = TRUE
    MayFailWrites = FALSE
    Cancellable = {1}
    MayNameOld = TRUE
SPECIFICATION FairSpec
INVARIANTS
    NeverReplayed
PROPERTY
    FinishReturns
