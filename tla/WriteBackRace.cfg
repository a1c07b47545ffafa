SPECIFICATION Spec
CONSTANTS
    k1 = k1
    k2 = k2
    Keys = {k1, k2}
    Clients = {c1}
    Workers = {w1, w2}
    ShardCount = 1
    ShardOf <- OneShard
    TotalCapacity = 1
    QueueMaxSize = 2
    RetryCount = 1
    EvictsNewest = FALSE
    MaxWrites <- TwoEach
    MaxFaults = 1
    NoJob = NoJob
SYMMETRY Symmetry
INVARIANT
    CleanMeansPersisted
