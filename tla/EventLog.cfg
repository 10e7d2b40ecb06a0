SPECIFICATION FairSpec
CONSTANTS
    Records = {r1, r2, r3}
    NoRecord = none
    Late = {r2}
    Capacity = 2
    MaxDiskFaults = 1
INVARIANTS
    FilesInOrder
    NothingLost
    CleanShutdownLosesNothing
PROPERTIES
    FlushCovers
    FlushTargetIsReached
CHECK_DEADLOCK FALSE
