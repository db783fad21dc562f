SPECIFICATION Spec
CONSTANTS
    AreasNo = 4
    MinFreeAreas = 1
    PagesPerArea = 2
    BlocksPerArea = 1
    NoOfFilePages = 1
    MaxOps = 4
    MaxCrashes = 1
    MaxBad = 0
    Spared = {"gcErase", "recovery"}
INVARIANT FilesIntact
CHECK_DEADLOCK FALSE
