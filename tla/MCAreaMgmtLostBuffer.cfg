SPECIFICATION Spec
CONSTANTS
    AreasNo = 4
    MinFreeAreas = 1
    PagesPerArea = 2
    BlocksPerArea = 1
    NoOfFilePages = 1
    MaxOps = 7
    MaxCrashes = 0
    MaxBad = 1
    Spared = {}
INVARIANT SuperblockStays
CHECK_DEADLOCK FALSE
