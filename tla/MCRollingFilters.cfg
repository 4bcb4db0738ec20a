SPECIFICATION MCSpec
CONSTANTS
    Threads = {t1, t2, t3}
    Nodes <- MCNodes
    Budget = 3
    ImageThreads = {i1, i2, i3}
    ImageNodes <- MCImageNodes
    CarryBacklog = 2
SYMMETRY Symmetric
INVARIANTS CentersComplete StoresKept SleepersAwaited ImagesRight TurnsGoOn
CHECK_DEADLOCK FALSE
