SPECIFICATION Spec
CONSTANTS
    treeNodeCacheSize = 4
    Addrs <- SomePages
    Levels = 2
    WithLog = FALSE
    Keys = {0, 1, 2, 3, 4, 5, 6, 7}
    Vals = {1}
    leafOrder = 3
    branchOrder = 3
    Narrow = 65536
    Ops = {"insert", "update", "remove", "get", "firstFree", "commit"}
    Again = {1}
    Touched = {1}
    MinFree = 6
    MaxLog = 4
    MaxLosses = 0
INVARIANTS ReservedIsEnough
PROPERTIES ImplementsTable
CHECK_DEADLOCK FALSE
