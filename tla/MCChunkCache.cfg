SPECIFICATION Spec
CONSTANTS
    Threads = {t1, t2, t3}
    Starts = {0, 8, 16}
    Blocks = {b1, b2, b3, b4, b5}
    None = None
    CacheSize = 1
    CacheCap = 2
    Requests = 5
SYMMETRY Symmetric
INVARIANTS
    TypeOK SingleFlight HitsStayCached FilledAlone OverSizeOnlyWaiting StoresAccounted WakerAhead
