SPECIFICATION FairSpec
CONSTANTS
    Clients = {c1, c2}
    InitCapacity = 1
    DirectShutdown = FALSE
PROPERTY
    GracefulReturns
