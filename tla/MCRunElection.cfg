CONSTANTS
    n1 = n1
    n2 = n2
    n3 = n3
    r1 = r1
    r2 = r2
    Nodes <- NodeSet
    Ranges <- RangeSet
    Hashes = {"ours", "theirs"}
    LeaseDuration = 2
    Heartbeat = 1
    MaxAttempts = 2
SPECIFICATION JoinFairSpec
INVARIANTS
    JoinedSeesEveryRange
    JoinedAgree
PROPERTY
    JoinSettles
