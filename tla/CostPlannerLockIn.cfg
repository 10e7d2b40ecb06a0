\* One search at a time, and a regime in which only the shrunk beam fits.
SPECIFICATION PlannerFairSpec
CONSTANTS
    Searches = {q1}
    Regimes <- MCRegimesCrowded
    Priors <- MCPriors
    Deadline = 10
    Thresholds <- MCThresholds
    HasReranker = FALSE
    MaxShifts = 1
PROPERTIES
    NeverLockedIn
CHECK_DEADLOCK FALSE
