SPECIFICATION Spec
CONSTANTS
    MaxJobs = 2
    Workers = {w1, w2}
    QueueSize = 1
    MaxStored = 1
    MaxRetries = 0
    ClientSigned = {1}
    Cancellable = {1}
    SonameRebuild = FALSE
    MaxSubmitting = 2
    MaxRestarts = 1
CHECK_DEADLOCK FALSE
SYMMETRY Symmetry
INVARIANTS
    TypeOK
    OneOwner
    NoStrandedJob
    LogWillClose
    CancelReachesBuild
    SuccessIsPublished
INVARIANTS
    ArtifactExists
PROPERTY
    RecordsHold
