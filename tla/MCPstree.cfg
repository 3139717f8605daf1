SPECIFICATION PstreeSpec
CONSTANTS
    Ids = {1, 2, 3, 4}
    FIRST = 3
    Names = {1, 2}
    Spaced = {2}
    OptionSets <- Options
    MAX_PROCESSES = 6
    MAX_CHILDREN = 3
    Recycle = FALSE
    MaxEvents = 3
INVARIANTS
    
    CompactionCounts
CHECK_DEADLOCK FALSE
