CONSTANTS
    n1 = n1
    n2 = n2
    r1 = r1
    Nodes <- NodeSet
    Ranges <- RangeSet
    LeaseDuration = 2
    Heartbeat = 1
    MaxAttempts = 2
    Skews = {0, 1}
    MayFail = TRUE
    MaxTime = 5
SPECIFICATION Spec
SYMMETRY NodeSymmetry
INVARIANTS
    OneHolder
    RefuseGrantsOnce
    PunctualKeepsLease
    AbandonedWasTried
