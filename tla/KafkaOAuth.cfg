SPECIFICATION FairSpec
CONSTANTS
    Callers = {c1, c2, c3}
    Lifetimes = {0, 6}
    HttpTimeout = 2
    Margin = 3
    MaxTime = 7
    None = None
INVARIANTS
    TypeOK
    CachedTokenLasts
PROPERTIES
    ReplacedOnlyExpired
    EveryCallReturns
