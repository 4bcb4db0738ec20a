SPECIFICATION Spec
CONSTANTS
    Nodes <- MCUnfiltered
INVARIANTS ReadersWait
CHECK_DEADLOCK FALSE
