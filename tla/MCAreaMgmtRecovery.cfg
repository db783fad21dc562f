SPECIFICATION Spec
CONSTANTS
    AreasNo = 4
    MinFreeAreas = 1
    PagesPerArea = 2
    BlocksPerArea = 1
    NoOfFilePages = 1
    MaxOps = 5
    MaxCrashes = 2
    MaxBad = 0
    Spared = {"flush", "gcErase"}
INVARIANT NoPageLeaks
CHECK_DEADLOCK FALSE
