SPECIFICATION MCSpec
CONSTANTS
    Accounts <- MCAccounts
    FirstKind <- MCFirstKind
    Limit = 6
    SizeMax = 15
    Threads = {t1, t2}
    Floats = {0, 2}
    MinBytes = 1
    Outputs = {o1}
    Inputs = {in1, in2}
    FrameBytes <- MCFrameBytes
    Buffers = {b1, b2}
    BufferBytes = {2, 12}
    Paddings = {0, 1}
    ChunkBytes = 2
    MostLeaked = 3
    d1 = d1
    d2 = d2
    i1 = i1
    i2 = i2
    i3 = i3
    Users = {t1, t2}
    Blocks = {k1, k2}
    Domains <- MCDomains
    Instances <- MCInstances
    DomainOf <- MCDomainOf
    Cap = 2
SYMMETRY Symmetric
INVARIANTS Reckoned ChargesCoverMemory LocksKept
PROPERTY AccountsWellUsed
CHECK_DEADLOCK FALSE
