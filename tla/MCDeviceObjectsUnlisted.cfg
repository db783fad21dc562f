SPECIFICATION Spec
CONSTANTS
    Numbers = {0, 1, 2, 3}
    Names = {"a", "b"}
    MaxPath = 2
    MaxOpen = 1
    MaxLosses = 1
    MaxLog = 1
    Calls = {"mkDir", "createFile", "remove", "truncate", "chmod", "write", "open"}
    Spared = {"refused", "noSpace", "belowFile"}
INVARIANTS NoOrphans
CHECK_DEADLOCK FALSE
