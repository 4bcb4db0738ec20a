SPECIFICATION MCSpec
CONSTANTS
    Threads = {t1, t2}
    Slots <- MCSlots
    Layouts <- MCLayouts
    Frames <- MCFrames
    Budget = 2
    PoolThreads = {p1, p2, p3, p4}
    Orders = {0, 1}
    Modes = {"fifo", "ordered", "lifo"}
    PoolBudget = 5
INVARIANTS WorkUndisturbed PublishedWritten
PROPERTIES PoolTakesTurns QueuesDrain
CHECK_DEADLOCK FALSE
