SPECIFICATION Spec
CONSTANTS
    AreasNo = 4
    MinFreeAreas = 1
    PagesPerArea = 2
    BlocksPerArea = 1
    NoOfFilePages = 1
    MaxOps = 6
    MaxCrashes = 2
    MaxBad = 0
    Spared = {"flush", "gcErase"}
INVARIANTS TypeOK WritesHitErasedPages FilesIntact GarbageBufferErased ActiveAreaUsable
PROPERTIES KeepsFiles
CHECK_DEADLOCK FALSE
