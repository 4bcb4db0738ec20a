SPECIFICATION MCSpec
CONSTANTS
    Threads = {t1, t2, t3}
    Requesters = {t1, t2, t3}
    Nodes <- MCNodes
    Clip <- MCClip
    Radius = 1
    Regions <- MCRegions
    Slots = 2
    Permits = 2
    Budget = 3
SYMMETRY Symmetric
INVARIANTS RingHoldsWindows StoresWhole RecordingAgrees WindowsKept SomeoneGoesOn
CHECK_DEADLOCK FALSE
