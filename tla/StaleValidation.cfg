\* As MCOfflineStudies.cfg; a study and one run of it with other inputs.
SPECIFICATION Spec
CONSTANTS
    Unit = 60
    RRF_KS <- MCKs
    DefaultK = 2
    ALPHAS <- MCAlphas
    DEPTH = 3
    OUT_K = 3
    Precision = 7
    Alpha <- MCAlpha
    Sigma <- MCSigma
    Gamma = 90
    PageLength = 2
    Topic <- MCTopic
    Sigmas <- MCSigmas
    Noise <- MCNoise
    Models <- MCModels
    ValidatedModels = {"pbm"}
    ValidatedSigma = 2
    OfflineSignificant <- MCSignificant
    TdiN80 <- MCTdiN80
    BestAB <- MCBestAB
    StudyInputs <- MCStudyInputs
    Studies <- MCStudies
    MaxReruns = 1
    Displayed = 3
    RandTopN = 2
    RunDepth = 3
    DenseDepth = 2
    ChunkRows = 3
    BlockRows = 2
    Grain = 2
    PoolDepth = 2
    NNeg = 2
    DenseMargin = 2
    BM25MarginTenths = 1
    MAX_BATCH = 3
    TOKEN_BUDGET = 4
    FusionInputs <- MCFusionInputs
    DraftInputs <- MCDraftInputs
    ExperimentInputs <- MCExperimentInputs
    LtrInputs <- MCLtrInputs
    MiningInputs <- MCMiningInputs
    Collection = {2, 9, 10}
    EvalQrels <- MCEvalQrels
    TrainQrels <- MCTrainQrels
    TrainQueries = {1, 2, 3}
    SubsetSize = 2
    NTune = 1
    NFifty = 1
    MaxDataRuns = 2
    Asks <- MCAsks
    Texts = {1, 3}
    EncodeStepSize = 1
    MaxFeatureRuns = 3
INVARIANTS
    ValidationsAreFresh
CHECK_DEADLOCK FALSE
