\* Three replicas and a 4-bit int.
SPECIFICATION Spec
CONSTANTS
    N = 3
    IntMax = 7
INVARIANTS
    PicksAReplica
CHECK_DEADLOCK FALSE
