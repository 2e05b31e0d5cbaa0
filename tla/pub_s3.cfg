CONSTANTS
    Arches <- TwoArches
    Declared <- OneArch64
    NewlyDeclared <- TwoArches
    AllowNewArch = TRUE
    Names = {"foo", "bar"}
    Versions = {1, 2}
    Listing <- ByName
    Builds = {1, 2}
    Uploads = {"u1", "u2"}
    Batches <- Rebuilt
    Starts = {"s1"}
    Removals = {}
    Requests = {}
    Collections = {}
    Published <- AnyOrYoung
    Leased = FALSE
    MaxFailures = 1
    MaxCrashes = 0
SPECIFICATION Spec
INVARIANTS NoDanglingEntry
PROPERTIES NoDowngrade
CHECK_DEADLOCK FALSE
