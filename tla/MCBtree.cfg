SPECIFICATION Spec
CONSTANTS
    treeNodeCacheSize = 5
    Addrs <- FewPages
    Levels = 3
    WithLog = TRUE
    Keys = {0, 1, 2, 3, 4, 5}
    Vals = {1}
    leafOrder = 2
    branchOrder = 3
    Narrow = 65536
    Ops = {"insert", "remove"}
    Again = {}
    Touched = {0, 1, 2, 3, 4, 5}
    MinFree = 7
    MaxLog = 3
    MaxLosses = 1
INVARIANTS WellFormed CacheValid CommittedIsUsed NoTreePageLeaks LocksReleased NoBug
PROPERTIES ImplementsTable
CHECK_DEADLOCK FALSE
