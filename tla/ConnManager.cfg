SPECIFICATION FairSpec
CONSTANTS
    h1 = h1  h2 = h2  h3 = h3  h4 = h4
    u1 = u1  u2 = u2
    phone = phone  pc1 = pc1
    None = None
    Handlers = {h1, h2, h3, h4}
    Users = {u1, u2}
    Devices = {phone, pc1}
    UserOf <- Account
    DevOf <- Device
    Arrivals <- Threes
INVARIANTS
    TypeOK
    Isolation
    NoDeadEntry
    NoTableLeak
    NoSessionLeak
PROPERTY
    ClosedHandlerEnds
