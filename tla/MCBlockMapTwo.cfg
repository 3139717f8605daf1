SPECIFICATION Spec
CONSTANTS
    p1 = p1
    p2 = p2
    i1 = i1
    i2 = i2
    Procs = {p1, p2}
    Inodes = {i1, i2}
    NDIRECT = 0
    NINDIRECT = 1
    NBLOCKS = 5
    MAXWRITE = 1
    LOGOPS = 2
SYMMETRY Interchangeable
INVARIANTS
    BlocksOwnedOnce
    NoPanic
