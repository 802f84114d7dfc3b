SPECIFICATION FairSpec
CONSTANTS
    Conns = {c1, c2}
    Partitions = {p1, p2}
    Msgs = {m1}
    Ups = {}
    OtherCmds = {}
    MaxRetryCnt = 2
    MaxAttempts = 1
    MaxDeliveries = 2
    MaxQueue = 1
    MaxSends = 0
INVARIANT
    CopiesBounded

    
