SPECIFICATION LiveSpec
CONSTANTS
    Numbers = {0, 1, 2}
    Names = {"a", "b"}
    MaxPath = 2
    MaxOpen = 1
    MaxLosses = 2
    MaxLog = 1
    Calls = {"mkDir", "createFile", "remove", "truncate", "chmod", "write", "open"}
    Spared = {"refused", "unlisted", "noSpace", "belowFile"}
INVARIANTS NoOrphans OpenIsKept
PROPERTIES ImplementsTree RemovalEnds
CHECK_DEADLOCK FALSE
