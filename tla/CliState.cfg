SPECIFICATION CliFairSpec
CONSTANTS
    Processes = {p1, p2}
    StaleSeconds = 2
    Timeout = 1
    MaxTime = 3
    NoFile = NoFile
    Keys = {k1, k2, k3}
    k1 = k1
    k2 = k2
    k3 = k3
    Capacity = 2
    DefaultTtl = 1
    Ttls = {2}
    InitialFiles <- Files
    Nobody = Nobody
INVARIANTS
    ExclusiveUnlessBroken
    FileWellFormed
PROPERTIES
    NoLostUpdate
    OtherKeysSurvive
    CommandsEnd
