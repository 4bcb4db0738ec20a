SPECIFICATION ClipSpec
CONSTANTS
    Callers = {t1, t2}
    Helpers = {h1}
    Nodes <- MCHostNodes
    CacheLimit = 2
    Computers = 2
    Copiers = 1
    Stores <- MCStores
    FaultSets <- MCCollectFaults
    Budget = 4
SYMMETRY Symmetric
INVARIANT ClaimsHeld
CHECK_DEADLOCK FALSE
