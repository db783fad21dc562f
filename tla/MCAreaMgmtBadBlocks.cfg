SPECIFICATION Spec
CONSTANTS
    AreasNo = 5
    MinFreeAreas = 1
    PagesPerArea = 2
    BlocksPerArea = 2
    NoOfFilePages = 2
    MaxOps = 5
    MaxCrashes = 1
    MaxBad = 1
    Spared = {"flush", "gcErase", "recovery"}
INVARIANTS NoPageLeaks MapPlausible
CHECK_DEADLOCK FALSE
