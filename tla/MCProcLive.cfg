SPECIFICATION FairSpec
CONSTANTS
    None = None
    p0 = p0
    p1 = p1
    p2 = p2
    c1 = c1
    Procs = {p0, p1, p2}
    CPUs = {c1}
    initproc = p0
    Victims = {p1, p2}
PROPERTIES
    
    InitReaps
