SPECIFICATION Spec
CHECK_DEADLOCK FALSE
CONSTANTS
    AreasNo = 5
    BlocksPerArea = 2
    PagesPerBlock = 2
    SuperPages = 1
    MinFree = 0
    Roots = 1
    Position <- Shifted
    MaxLog = 5
    Spared = {"release", "previous"}
INVARIANTS
    Mountable
