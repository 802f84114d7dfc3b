SPECIFICATION FairSpec
CONSTANTS
    Pushers = {p1}
    Frames = 3
    SendBuffer = 1
    ReceiveBuffer = 1
    MaxRetryCount = 1
    None = None
INVARIANTS
    TypeOK
    StreamIntact
PROPERTIES
    StreamsArePipes
    NothingStuck
    TearsDown
