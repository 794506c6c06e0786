CONSTANTS
    NumActions = 2
    Requests <- MCRequests
    Chains <- MCChains
    Shared = {2}
    Limit = 3
    CacheEnabled = TRUE
    MinBlock = 2
    MaxBlock = 3
    MaxJobs = 3
SPECIFICATION Spec
INVARIANTS
    TypeOK
    CoverageSound
    CheckpointsSound
    CountsHonest
PROPERTIES
    LimitStopsClaims
ACTION_CONSTRAINT SecondCutInTwoJobs
CHECK_DEADLOCK FALSE
