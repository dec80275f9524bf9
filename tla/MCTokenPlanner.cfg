CONSTANTS
    IMax = 7
    BigMax = 3
    FullRings <- Rings
    Bounds <- ConfiguredBounds
    NumParts = {0, 1, 3, 4, 9}
    Coverages = {0, 40, 100}
    NodeTokens <- Nodes
    SizeRows <- SizeTables
    MaxRows = 2
    Multipliers = {1, 2, 3, 5}
    Fallback = 4
    MaxRanges = 4
    MaxResumes = 2
SPECIFICATION Spec
INVARIANTS
    PlanCoversOnce
    ResumeKeepsEveryToken
    NoRangeStraddles
