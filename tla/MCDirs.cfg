SPECIFICATION Spec
CONSTANTS
    p1 = p1
    p2 = p2
    None = None
    a = a
    Procs = {p1, p2}
    Names = {a}
    NINODES = 3
    Paths <- TreePaths
SYMMETRY Interchangeable
INVARIANTS
    Tree
    LinkCounts
    NoDeadlock
PROPERTY ImplementsDirTree
ACTION_CONSTRAINT NoCallAfterStraying
CHECK_DEADLOCK FALSE
