CONSTANTS
    w1 = w1
    w2 = w2
    Workers <- WorkerSet
    NumRanges = 1
    ErrorLimit = 0
    RangeErrors = {0}
    Verdicts = {"PASS"}
    MaxSignals = 1
    MaxOperatorCalls = 1
SPECIFICATION FairSpec
PROPERTIES
    StopTerminates
