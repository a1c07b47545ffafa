SPECIFICATION FairFlightSpec
CONSTANTS
    Threads = {t1, t2, t3}
    MaxFlights = 4
    MaxDeletes = 2
INVARIANTS
    RegisteredIsLed
    NoOrphanedWaiter
    LeadersAreDistinct
    LoadersCollapse
PROPERTIES
    CallsReturn
