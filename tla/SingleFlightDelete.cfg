SPECIFICATION FlightSpec
CONSTANTS
    Threads = {t1, t2, t3}
    MaxFlights = 4
    MaxDeletes = 2
INVARIANT
    OneLoaderSinceDelete
