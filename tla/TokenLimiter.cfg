SPECIFICATION FairSpec
CONSTANTS
    InitCapacity = 3
    MaxCapacity = 8
    IncreaseStep = 2
INVARIANTS
    TypeOK
    CapacityBound
    AdmissionBound
PROPERTY
    GrowthUnderDemand
