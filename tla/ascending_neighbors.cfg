CONSTANTS
    Addresses = {a,b}
    NumActions = 1
    Starts = {1}
    Ends = {2}
    NeighborLimits = {0,1}
    QueueCap = 1
    CacheEnabled = TRUE
    Truncates = TRUE
    Splits = FALSE
    MinBlock = 2
    MaxBlock = 2
    MaxJobs = 2
SPECIFICATION Spec
INVARIANTS
    CoverageSound
    CheckpointsSound
CHECK_DEADLOCK FALSE
