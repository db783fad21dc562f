SPECIFICATION Spec
CONSTANTS
    treeNodeCacheSize = 12
    Addrs <- ManyPages
    Levels = 4
    WithLog = FALSE
    Keys = {0, 1, 2, 3, 4, 5, 6}
    Vals = {1}
    leafOrder = 2
    branchOrder = 3
    Narrow = 4
    Ops = {"insert"}
    Again = {}
    Touched = {0, 1, 2, 3, 4, 5, 6}
    MinFree = 13
    MaxLog = 4
    MaxLosses = 0
PROPERTIES ImplementsTable
CHECK_DEADLOCK FALSE
