SPECIFICATION Spec
CONSTANTS
    Records = {r1, r2}
    NoRecord = none
    Late = {}
    Capacity = 2
    MaxDiskFaults = 1
INVARIANT NeverTakesSearchDown
CHECK_DEADLOCK FALSE
