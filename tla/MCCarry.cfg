SPECIFICATION MCSpec
CONSTANTS
    Threads = {t1, t2, t3}
    Slots <- MCSlots
    Planes <- MCPlanes
    Chunks = {0, 1, 2}
    CarryBacklog = 3
    Budget = 3
    Requesters = {t1, t2, t3}
    Frames = {0, 1, 2}
    Sets <- MCSets
    FaultSets <- MCFaultSets
    WeightBudget = 3
SYMMETRY Symmetric
INVARIANTS CarriesOnFromPrevious TurnsKept SomeoneRuns WeightsKept SetsHoldWhatTheySay
CHECK_DEADLOCK FALSE
