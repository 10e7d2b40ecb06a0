\* Two searches, load shedding from the second on, one change of regime: a
\* slow spell that begins or one that ends.
SPECIFICATION PlannerFairSpec
CONSTANTS
    Searches = {q1, q2}
    Regimes <- MCRegimes
    Priors <- MCPriors
    Deadline = 10
    Thresholds <- MCThresholds
    HasReranker = TRUE
    MaxShifts = 1
INVARIANTS
    LoadIsShed
PROPERTIES
    DenseComesBack
CHECK_DEADLOCK FALSE
