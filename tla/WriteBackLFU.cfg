SPECIFICATION PolicySpec
CONSTANTS
    k1 = k1
    Keys = {k1, k2}
    Clients = {c1}
    Workers = {w1}
    ShardCount = 1
    ShardOf <- OneShard
    TotalCapacity = 1
    QueueMaxSize = 1
    RetryCount = 0
    EvictsNewest = TRUE
    MaxWrites <- TwoEach
    MaxFaults = 0
    NoJob = NoJob
    None = None
    Policies = {"lfu"}
SYMMETRY MCSymmetry
INVARIANT
    NoSilentLoss
