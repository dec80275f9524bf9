CONSTANTS
    r1 = r1
    r2 = r2
    Ranges <- RangeSet
    Verdicts = {"PASS", "FAIL"}
    QueueCapacity = 1
    BatchSize = 1
    MaxRuns = 2
    Job = "migrate"
    CounterTable = FALSE
    Correcting = FALSE
    MayCrash = TRUE
    MayFailWrites = TRUE
    Cancellable = {}
    MayNameOld = TRUE
SPECIFICATION Spec
SYMMETRY RangeSymmetry
INVARIANTS
    NothingForgotten
    DeclinedRunIsDone
    TerminalRowsAreExact
