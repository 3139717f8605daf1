SPECIFICATION FairSpec
CONSTANTS
    ExitCodes = {0, 1, 100}
    TermSignals = {6, 9, 14, 34}
    CoreSignals = {6}
    StopSignals = {19}
    MaxStops = 2
INVARIANTS
    
    SigchldFirst
    DoneMeansReaped
PROPERTY LaunchEnds
CHECK_DEADLOCK FALSE
