SPECIFICATION Spec
CONSTANTS
    p1 = p1
    p2 = p2
    f1 = f1
    f2 = f2
    None = None
    Procs = {p1, p2}
    initproc = p1
    NOFILE = 2
    VMASIZE = 1
    Files = {f1}
    NFRAMES = 1
    TOP = 1
    MaxLen = 1
    MaxFile = 1
    Modes = {"O_RDONLY", "O_WRONLY", "O_RDWR"}
    Prots = {"READ", "READ|WRITE"}
    Flags = {"MAP_SHARED", "MAP_PRIVATE"}
    Offsets = {TRUE, FALSE}
SYMMETRY Interchangeable
INVARIANTS
    FileRefs
 
