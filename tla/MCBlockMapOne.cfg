SPECIFICATION Spec
CONSTANTS
    p1 = p1
    p2 = p2
    i1 = i1
    i2 = i2
    Procs = {p1}
    Inodes = {i1}
    NDIRECT = 1
    NINDIRECT = 2
    NBLOCKS = 11
    MAXWRITE = 2
    LOGOPS = 2
SYMMETRY Interchangeable
INVARIANTS
    
    NoHoles
