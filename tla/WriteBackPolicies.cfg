SPECIFICATION PolicySpec
CONSTANTS
    k1 = k1
    Keys = {k1, k2, k3}
    Clients = {c1}
    Workers = {w1}
    ShardCount = 1
    ShardOf <- OneShard
    TotalCapacity = 2
    QueueMaxSize = 1
    RetryCount = 0
    EvictsNewest = FALSE
    MaxWrites <- TwoOfFirst
    MaxFaults = 0
    NoJob = NoJob
    None = None
    Policies = {"lru", "fifo"}
SYMMETRY MCSymmetry
INVARIANTS
    PolicyTracksEntries
PROPERTIES
    ImplementsWriteBack
