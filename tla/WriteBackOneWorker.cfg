SPECIFICATION Spec
CONSTANTS
    k1 = k1
    k2 = k2
    Keys = {k1, k2}
    Clients = {c1, c2}
    Workers = {w1}
    ShardCount = 1
    ShardOf <- OneShard
    TotalCapacity = 1
    QueueMaxSize = 2
    RetryCount = 1
    EvictsNewest = FALSE
    MaxWrites <- TwoEach
    MaxFaults = 2
    NoJob = NoJob
SYMMETRY Symmetry
INVARIANTS
    TypeOK
    MetadataBounded
    PendingExact
    StaleIffSuperseded
    CapacityHeld
    CleanMeansPersisted
    NoSilentLoss
PROPERTIES
    SourceNeverRegresses
