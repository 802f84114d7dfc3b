SPECIFICATION FairSpec
CONSTANTS
    g1 = g1  g2 = g2
    m1 = m1  m2 = m2
    None = None
    Gateways = {g1, g2}
    Members = {m1, m2}
    Partitions = {1}
    GatewayOf <- OneEach
    ChanSize = 1
    StartOffset = "newest"
    Size = 3
    MaxAssigns = 2
    MaxEnds = 1
INVARIANTS
    CommittedAccounted
    HandledPerAssignment
PROPERTIES
    MembersArePipes
    EveryMessageHandled
    WindsDown
CHECK_DEADLOCK FALSE
