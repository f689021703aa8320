\* Percentiles and sizes over all small VMs and loads.
SPECIFICATION Spec
CONSTANTS
    Cores = {0, 1, 2, 4}
    Memories = {0, 1, 4}
    Responses <- SmallResponses
    Policies <- ThreePolicies
    MinDataPoints = 1
    MaxRounds = 2
CHECK_DEADLOCK FALSE
INVARIANTS PercentileIsRanked   NoFlapping
