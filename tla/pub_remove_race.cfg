CONSTANTS
    Arches <- TwoArches
    Declared <- TwoArches
    NewlyDeclared = {}
    AllowNewArch = FALSE
    Names = {"foo"}
    Versions = {1, 2}
    Listing <- ByNumber
    Builds = {1}
    Uploads = {"u1"}
    Batches <- AnyFoo
    Starts = {}
    Removals = {"r1"}
    Requests <- AnyRequest
    Collections = {}
    Published <- OnlyAny
    Leased = TRUE
    MaxFailures = 0
    MaxCrashes = 0
SPECIFICATION Spec
INVARIANTS NoDanglingEntry
CHECK_DEADLOCK FALSE
