SPECIFICATION Spec
CONSTANTS
    p1 = p1
    p2 = p2
    f1 = f1
    f2 = f2
    None = None
    Procs = {p1}
    initproc = p1
    NOFILE = 1
    VMASIZE = 2
    Files = {f1}
    NFRAMES = 2
    TOP = 4
    MaxLen = 3
    MaxFile = 0
    Modes = {"O_RDONLY", "O_RDWR"}
    Prots = {"READ|WRITE"}
    Flags = {"MAP_SHARED", "MAP_PRIVATE"}
    Offsets = {FALSE}
SYMMETRY Interchangeable
INVARIANTS
    VmasDisjoint
