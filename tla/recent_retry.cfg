CONSTANTS
    NumActions = 2
    Requests <- TwoGapRequests
    Chains <- OneChain
    Shared = {}
    Limit = 3
    CacheEnabled = TRUE
    MinBlock = 4
    MaxBlock = 4
    MaxJobs = 3
SPECIFICATION Spec
INVARIANTS
    RetriedCoverageSound
CHECK_DEADLOCK FALSE
