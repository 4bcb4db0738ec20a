SPECIFICATION ClipSpec
CONSTANTS
    Callers = {t1, t2}
    Helpers = {h1}
    Nodes <- MCDeviceNodes
    CacheLimit = 2
    Computers = 2
    Copiers = 1
    Stores <- MCStores
    FaultSets <- MCNoFaults
    Budget = 3
SYMMETRY Symmetric
INVARIANT DownloadsKept
CHECK_DEADLOCK FALSE
