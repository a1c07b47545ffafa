SPECIFICATION LifeSpec
CONSTANTS
    Keys = {k1, k2}
    Callers = {c1}
    Workers = {}
    Clients = {c1}
    ShardCount = 1
    ShardOf <- OneShard
    TotalCapacity = 1
    QueueMaxSize = 2
    RetryCount = 0
    EvictsNewest = FALSE
    MaxWrites <- TwoEach
    MaxFaults = 0
    NoJob = NoJob
    ActiveExpiration = FALSE
    MaxCalls = 2
INVARIANT
    CloseFlushesEverything
