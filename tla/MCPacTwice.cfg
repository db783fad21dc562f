SPECIFICATION Spec
CONSTANTS
    Inodes = {1, 2}
    Slots = 2
    directAddrCount = 1
    addrsPerPage = 2
    Pages = {4, 5}
    Data = {101}
    IndexPages = {11, 12, 13, 14, 15, 16, 17, 18}
    maxPages = 6
    MinFree = 5
    MaxSets = 3
    MaxWrite = 2
    MaxLosses = 2
    Allowed = {}
INVARIANTS ReadsBack
CHECK_DEADLOCK FALSE
