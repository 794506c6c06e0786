CONSTANTS
    Addresses = {a}
    Enqueuers = {caller}
    Stoppers = {stop}
    QueueSize = 1
    MaxJobs = 1
SPECIFICATION Spec
PROPERTIES
    StoppedJobsEnd
