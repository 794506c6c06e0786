CONSTANTS
    Addresses = {a}
    Variants = {v}
    Other = none
    Windows = {}
    Enqueuers = {caller}
    Stoppers = {stop}
    QueueSize = 1
    MaxTraces = 2
    MaxSyncs = 1
SPECIFICATION Spec
PROPERTIES
    TracesEndAfterStops
