\* One request over three replicas: primary, hedge and failover together.
SPECIFICATION FairSpec
CONSTANTS
    Requests = {q1}
    N = 3
    IntMax = 7
    Scale = 1
    PerPrimary = 1
    Cap = 1
    HedgingEnabled = TRUE
    FailFastWhenSliceDown = TRUE
    FailoverOnError = TRUE
    Impatient = {q1}
    Probed = {0,1}
    DownAtStart = {}
    FaultKinds = {"crash", "hang", "inject"}
    MaxFaults = 1
INVARIANTS
    AttemptsOnDistinctReplicas
PROPERTIES
    OneReplicaCannotFailASlice
    RequestsReturn
    HealthConverges
CHECK_DEADLOCK FALSE
