SPECIFICATION FairDSpec
CONSTANTS
    Threads = {t1, t2, t3}
    Starts = {0, 8}
    Blocks = {b1, b2, b3}
    None = None
    CacheSize = 1
    CacheCap = 1
    Requests = 4
    Chunk = 8
    StagingSets = 1
    PlanWindow = 1
INVARIANTS ResourcesHeld
PROPERTIES RequestsServed
