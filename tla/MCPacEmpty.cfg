SPECIFICATION Spec
CONSTANTS
    Inodes = {1}
    Slots = 1
    directAddrCount = 1
    addrsPerPage = 2
    Pages = {0, 1}
    Data = {101}
    IndexPages = {11, 12, 13, 14, 15, 16, 17, 18, 19, 20}
    maxPages = 7
    MinFree = 5
    MaxSets = 3
    MaxWrite = 1
    MaxLosses = 0
    Allowed = {"superblock"}
INVARIANTS NoBug
CHECK_DEADLOCK FALSE
