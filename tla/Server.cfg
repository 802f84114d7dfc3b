SPECIFICATION FairSpec
CONSTANTS
    Clients = {c1, c2, c3}
    InitCapacity = 2
    DirectShutdown = TRUE
INVARIANTS
    TypeOK
    TokenConservation
    OpenSocketsBounded
PROPERTIES
    UsesLimiter
    LoopStops
    HandlersDrain
