SPECIFICATION Spec
CONSTANTS
    Keys = {k1, k2, k3}
    Values = {v1, v2}
    Ttls = {1}
    DefaultTtl = 2
    Unset = Unset
    Absent = Absent
    Capacity = 2
    WriteThrough = TRUE
    SourceDelay = 1
    MaxCalls = 4
    MaxTime = 3
    MaxFaults = 1
SYMMETRY Symmetry
INVARIANTS
    TypeOK
    MarksMatchEntries
    CapacityHeld
    StatsBalance
    SourceAgrees
PROPERTIES
    ImplementsTtlMap
