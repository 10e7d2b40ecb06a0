SPECIFICATION Spec
CONSTANTS
    Records = {r1, r2}
    NoRecord = none
    Late = {}
    Capacity = 2
    MaxDiskFaults = 0
PROPERTY FlushWaitsForAll
CHECK_DEADLOCK FALSE
