SPECIFICATION FairSpec
CONSTANTS
    Requests = {"r1", "r2"}
    Homes <- OneProcess
    PoolSize = 2
    Jobs <- UnitAndWriter
    Backends = {"sqlite"}
    Overlapping = {"sqlite"}
    MaxFaults = 0
    None = None
CHECK_DEADLOCK FALSE
PROPERTY UnitsAreAtomic
