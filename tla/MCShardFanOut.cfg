SPECIFICATION Spec
CONSTANTS
    Requests = {q1, q2}
    N = 2
    IntMax = 7
    Scale = 2
    PerPrimary = 1
    Cap = 2
    HedgingEnabled = TRUE
    FailFastWhenSliceDown = TRUE
    FailoverOnError = TRUE
    Probed = {1}
    DownAtStart = {1}
    FaultKinds = {"inject"}
    MaxFaults = 2
    Impatient = {}
SYMMETRY RequestSymmetry
INVARIANTS
    HedgeLoadBounded
    NoFalseSliceDown
PROPERTIES
    SlowPrimariesRecorded
CHECK_DEADLOCK FALSE
