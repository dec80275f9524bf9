CONSTANTS
    a = a
    b = b
    Ranges <- RangeSet
    MaxReads = 1
    MaxAttempts = 3
    Threshold = 2
    Tables <- TableSet
SPECIFICATION Spec
INVARIANTS
    SlotsConserved
    NoPageTwice
    StatusTellsTheTruth
