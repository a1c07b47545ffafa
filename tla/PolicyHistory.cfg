SPECIFICATION Spec
CONSTANTS
    Keys = {k1, k2, k3}
    None = None
    MaxCalls = 9
INVARIANTS
    TypeOK
    LruEvictsLeastRecent
    FifoEvictsOldest
    LfuEvictsLeastFrequent
    LfuBucketsPartition
