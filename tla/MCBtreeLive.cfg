SPECIFICATION LiveSpec
CONSTANTS
    treeNodeCacheSize = 3
    Addrs <- FewPages
    Levels = 2
    WithLog = TRUE
    Keys = {0, 1, 2}
    Vals = {1}
    leafOrder = 2
    branchOrder = 3
    Narrow = 65536
    Ops = {"insert", "update", "remove", "get", "firstFree", "commit"}
    Again = {0, 1, 2}
    Touched = {0, 1, 2}
    MinFree = 5
    MaxLog = 1
    MaxLosses = 1
PROPERTIES CallsEnd
CHECK_DEADLOCK FALSE
