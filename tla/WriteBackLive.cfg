SPECIFICATION FairSpec
CONSTANTS
    k1 = k1
    k2 = k2
    Keys = {k1, k2}
    Clients = {c1}
    Workers = {w1}
    ShardCount = 2
    ShardOf <- TwoShards
    TotalCapacity = 2
    QueueMaxSize = 1
    RetryCount = 1
    EvictsNewest = FALSE
    MaxWrites <- OneEach
    MaxFaults = 2
    NoJob = NoJob
PROPERTIES
    FlushesSettle
    WritesReachSource
