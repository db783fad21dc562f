SPECIFICATION Spec
CONSTANTS
    Inodes = {1}
    Slots = 1
    directAddrCount = 1
    addrsPerPage = 2
    Pages = {3, 5}
    Data = {101}
    IndexPages = {11, 12, 13, 14, 15, 16, 17, 18, 19, 20}
    maxPages = 7
    MinFree = 5
    MaxSets = 5
    MaxWrite = 1
    MaxLosses = 1
    Allowed = {"erase"}
INVARIANTS ReadsBack
CHECK_DEADLOCK FALSE
