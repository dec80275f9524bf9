CONSTANTS
    w1 = w1
    w2 = w2
    Workers <- WorkerSet
    Ceilings = {0, 3}
    MinPercent = 25
    Second = 6
    MaxCatchup = 3
    MaxAttempts = 2
    Tick = 9
    MaxTime = 18
SPECIFICATION Spec
SYMMETRY WorkerSymmetry
INVARIANTS
    RateInForce
    PacedAtCeiling
    RateFollowsWindows
