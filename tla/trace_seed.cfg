CONSTANTS
    Addresses = {a}
    Variants = {v}
    Other = none
    Windows = {}
    Enqueuers = {caller}
    Stoppers = {}
    QueueSize = 1
    MaxTraces = 1
    MaxSyncs = 3
SPECIFICATION Spec
PROPERTIES
    TracesEndWithoutProgress
