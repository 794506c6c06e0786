CONSTANTS
    Addresses = {a}
    NumActions = 2
    Starts = {1,3}
    Ends = {0,2}
    NeighborLimits = {0}
    QueueCap = 1
    CacheEnabled = TRUE
    Truncates = FALSE
    Splits = TRUE
    MinBlock = 2
    MaxBlock = 3
    MaxJobs = 2
SPECIFICATION Spec
INVARIANTS
    TypeOK
    CoverageSound
    CheckpointsSound
    SucceededMeansCovered
ACTION_CONSTRAINT GrowsForFollowers
CHECK_DEADLOCK FALSE
