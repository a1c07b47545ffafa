SPECIFICATION LifeFairSpec
CONSTANTS
    Keys = {k1, k2}
    Callers = {c1}
    Workers = {w1}
    Clients = {c1, w1}
    ShardCount = 1
    ShardOf <- OneShard
    TotalCapacity = 1
    QueueMaxSize = 1
    RetryCount = 0
    EvictsNewest = FALSE
    MaxWrites <- TwoEach
    MaxFaults = 1
    NoJob = NoJob
    ActiveExpiration = TRUE
    MaxCalls = 2
INVARIANTS
    MetadataBounded
    CloseAccountsForWrites
    NoDirtyEntryLeft
PROPERTIES
    CloseReturns
    WorkersEnd
