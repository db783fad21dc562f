SPECIFICATION Spec
CHECK_DEADLOCK FALSE
CONSTANTS
    AreasNo = 5
    BlocksPerArea = 2
    PagesPerBlock = 3
    SuperPages = 2
    MinFree = 0
    Roots = 1
    Position <- Shifted
    MaxLog = 5
    Spared = {"overflow", "torn", "release", "previous"}
INVARIANTS
    ChecksPass
