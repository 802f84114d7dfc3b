SPECIFICATION Spec
CONSTANTS
    Conns = {c1, c2}
    Partitions = {p1}
    Msgs = {}
    Ups = {u1}
    OtherCmds = {"heartbeat", "invalid"}
    MaxRetryCnt = 2
    MaxAttempts = 2
    MaxDeliveries = 0
    MaxQueue = 1
    MaxSends = 2
INVARIANTS
    ForwardedPerKey
    AckTruthful
