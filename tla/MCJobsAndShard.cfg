\* Jobs: one encoder, one pipeline, killed or rebooted three times altogether.
\* They stop when both are through, or wait for a lock nobody will give back:
\* JobsEnd says which of the two it may be.  A search ends.
SPECIFICATION MCSpec
CONSTANTS
    Encoder = "encoder"
    Trainer = "trainer"
    N = 3
    CHUNK = 2
    Stride = 2
    MaxSteps = 3
    EvalEvery = 2
    SaveEvery = 2
    BatchGroups = 2
    GradAccum = 2
    Queries = {"q1", "q2", "q3"}
    Orders <- MCOrders
    Qualities <- MCQualities
    MaxCrashes = 3
    LexicalQueries <- MCLexicalQueries
    BlockSize = 2
    Searchers = {1, 2}
    IoThreads = {3}
    Workload <- MCWorkload
    Graph <- MCGraph
    Medoid = 1
    Cached = {1}
    BeamWidth = 3
    MaxReadErrors = 1
    ShardCalls <- MCShardCalls
    Faults <- MCFaults
    Recheck = 1
    Hold = 4
    Granule = 1
    MaxCalls = 2
    MaxWrites = 2
    MaxTicks = 6
INVARIANTS
    OneJobOnGpu
    MinedFromWholeFile
    ResumeReplaysBatches
    BestModelIsJudged
    PrunedSearchIsExact
    DiskSearchIsSequential
    AnswersInBudget
PROPERTIES
    JobsEnd
CHECK_DEADLOCK FALSE
