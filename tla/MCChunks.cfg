SPECIFICATION MCSpec
CONSTANTS
    PlaneNodes <- MCPlaneNodes
    Columns = 4
    Rows = 2
    Distances = 3
    MatchFrames = 3
    Shapes <- MCShapes
    Lanes = 3
    Parts = 2
    SortSize = 8
    Digit = 4
    Rounds = 4
    Queue = 2
    Near = 1
    Survivors = 5
    Roundings <- MCRoundings
    Inputs <- MCInputs
    Planes <- MCPlanes
    Side = 5
    RowThreads = 3
    PerBlock = 4
    WarpRefs = 4
    Callers = {t1, t2}
    Helpers = {h1}
    Nodes <- MCNodes
    CacheLimit = 1
    Computers = 1
    Copiers = 1
    Stores <- MCStores
    FaultSets <- MCFaultSets
    Budget = 3
SYMMETRY Symmetric
INVARIANTS PlanAgrees ReadersWait FramesRight SpatialListsAgree SearchesAgree ReferencesOnce ClipChunksRight RequestsGoOn
CHECK_DEADLOCK FALSE
