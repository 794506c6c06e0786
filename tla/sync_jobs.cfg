CONSTANTS
    Addresses = {a, b}
    Enqueuers = {caller}
    Stoppers = {stop}
    QueueSize = 1
    MaxJobs = 3
SPECIFICATION Spec
INVARIANTS
    TypeOK
    KeysMatch
PROPERTIES
    ResultsStand
    ImplementsService
    KeysReleased
    JobsEnd
