SPECIFICATION FairSpec
CONSTANTS
    ROW = 5
    COLUMN = 5
    WALL_LEN = 2
    NUM_WALLS = 1
    NUM_GOLD = 1
    wall_rows <- WallRows
    gold_rows <- GoldRows
    START_X = 3
    START_Y = 2
INVARIANTS
    TypeOK
    MutualExclusion
    ShardsAccounting
    WonMeansAll
    NoFrozenShard
    FrameConsistent
    ContactEndsGame
    CleanExit
PROPERTIES
    GameOverReported
