SPECIFICATION FairSpec
CONSTANTS
    t1 = t1  t2 = t2
    k1 = k1
    c1 = c1
    None = None
    Tasks = {t1, t2}
    Stoppers = {s1, s2}
    Keys = {k1}
    Conns = {c1}
    KeyOf <- Redelivered
    ConnOf <- OneConn
    MaxRetryCnt = 3
INVARIANTS
    TypeOK
    RetransmitBound
    TotalExact
    LatePushesBounded
PROPERTIES
    TasksDrain
    TimersEnd
