SPECIFICATION Spec
CONSTANTS
    s = s
    a = a
    m = m
    c = c
    zero = zero
    Addresses = {s, a, m, c, zero}
    Seed = s
    Zero = zero
    Directions = {"in", "out"}
    Worlds <- MCWorlds
    Swaps <- MCSwaps
    WithInput <- MCWithInput
    Threshold <- MCThreshold
    Through = 5
    MaxNodes = 4
    RecordCap = 4
    ClientWindows <- MCWindows
    MaxSyncs = 1
    MaxExtensions = 2
INVARIANTS TypeOK GraphClosed WithinBudget TimeMonotone CutsAdmitted LedgerExplains
PROPERTY StopsLearn
ACTION_CONSTRAINT SyncsFindSomething
CHECK_DEADLOCK FALSE
