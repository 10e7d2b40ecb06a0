\* Searches: two slices; a deadline that the cheapest estimates just meet.  One
\* text in the box, asked in two modes; batches of two events at most, whatever
\* flushAt says.  Hedging: three tasks, half a token per primary, room for one and
\* a half; two tasks that record latencies and one that asks, over two
\* sub-windows and their reuse.  A served search is at its end.
SPECIFICATION MCSpec
CONSTANTS
    Slices = {s1, s2}
    Arms <- MCArms
    Estimates <- MCEstimates
    Deadline = 6
    MinFetch = 2
    Floor = 1
    Thresholds <- MCThresholds
    MaxInFlight = 4
    Texts = {"a"}
    NoText = ""
    Modes = {"hybrid", "lexical"}
    MaxQueries = 2
    FlushAt = 3
    MAX_BATCH = 2
    MaxConsents = 2
    MaxStory = 3
    Tasks = {t1, t2, t3}
    Scale = 2
    PerPrimary = 1
    Cap = 3
    MaxPrimaries = 7
    Recorders = {w1, w2}
    Readers = {a1}
    Slots = 2
    SlotTicks = 1
    CacheTicks = 1
    Levels = 2
    Asks <- MCAsks
    MaxSamples = 3
    MaxTicks = 2
    LinearBuckets = 64
    SubBucketBits = 5
    MaxExponent = 26
    Latencies <- MCLatencies
SYMMETRY RecorderSymmetry
INVARIANTS
    HonestReport
    LatenessBounded
    SamplesAreOfWhatRan
    PagesInOrder
    ShownIsNewest
    InteractionsAreTold
    ExtraLoadBounded
    WindowIsCounted
PROPERTIES
    ImplementsAtomicBudget
CHECK_DEADLOCK FALSE
