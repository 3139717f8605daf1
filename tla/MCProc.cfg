SPECIFICATION Spec
CONSTANTS
    None = None
    p0 = p0
    p1 = p1
    p2 = p2
    p3 = p3
    c1 = c1
    c2 = c2
    Procs = {p0, p1, p2, p3}
    CPUs = {c1, c2}
    initproc = p0
    Victims = {p1, p2, p3}
SYMMETRY Interchangeable
INVARIANTS
    OneCpuPerProc
    NoLostWakeup
    NoOrphan
PROPERTIES
    ImplementsTree
