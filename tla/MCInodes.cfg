SPECIFICATION FairSpec
CONSTANTS
    p1 = p1
    p2 = p2
    None = None
    NoName = NoName
    short = short
    long = long
    Procs = {p1, p2}
    Names = {short, long}
    namelen <- Lengths
    NINODES = 1
    MAXLINKS = 2
    Calls = {"O_CREATE", "symlink", "open", "close", "link", "unlink"}
INVARIANTS
    RefCounts
    LinkCounts
    CacheCoherent
    IputDoesNotBlock
    NoUseAfterFree
PROPERTY CallsReturn
