CONSTANTS
    Arches <- TwoArches
    Declared <- TwoArches
    NewlyDeclared = {}
    AllowNewArch = FALSE
    Names = {"foo", "bar"}
    Versions = {1, 2}
    Listing <- ByNumber
    Builds = {1}
    Uploads = {"u1", "u2"}
    Batches <- Mixed
    Starts = {}
    Removals = {}
    Requests = {}
    Collections = {"g1"}
    Published <- AnyOrConcrete
    Leased = TRUE
    MaxFailures = 1
    MaxCrashes = 1
SPECIFICATION Spec
INVARIANTS AckedHolds NoDanglingEntry
PROPERTIES RollbackRestores EveryCallEnds
CHECK_DEADLOCK FALSE
