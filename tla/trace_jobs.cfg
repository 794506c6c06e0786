CONSTANTS
    Addresses = {a}
    Variants = {v, w}
    Other = w
    Windows = {b}
    Enqueuers = {caller}
    Stoppers = {stop}
    QueueSize = 1
    MaxTraces = 2
    MaxSyncs = 1
SPECIFICATION Spec
ACTION_CONSTRAINT OtherMeetsFullQueue
INVARIANTS
    TypeOK
    KeysMatch
    ExtensionsMerged
    SucceededMeansSynced
PROPERTIES
    OutcomesStand
    TracesEnd
