SPECIFICATION FairSpec
CONSTANTS
    MaxJobs = 3
    Workers = {w1}
    QueueSize = 1
    MaxStored = 2
    MaxRetries = 1
    ClientSigned = {}
    Cancellable = {}
    SonameRebuild = TRUE
    MaxSubmitting = 2
    MaxRestarts = 0
CHECK_DEADLOCK FALSE
PROPERTIES
    EveryJobSettles
