SPECIFICATION FairSpec
CONSTANTS
    NoOfTopics = 2
    LogCapacity = 4
    Listens <- MCListens
INVARIANTS SuppressionIsSafe ReplayIsExact PreScanIsComplete
PROPERTIES KeepsLogContract MountCompletes
