SPECIFICATION WeightSpec
CONSTANTS
    Requesters = {t1, t2}
    Frames = {0, 1, 2}
    Sets <- MCSets
    FaultSets <- MCFaultSets
    WeightBudget = 3
INVARIANT SetsUnshared
CHECK_DEADLOCK FALSE
