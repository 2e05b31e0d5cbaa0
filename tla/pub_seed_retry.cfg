CONSTANTS
    Arches <- TwoArches
    Declared <- OneArch64
    NewlyDeclared = {}
    AllowNewArch = TRUE
    Names = {"foo", "bar"}
    Versions = {1, 2}
    Listing <- ByNumber
    Builds = {1}
    Uploads = {"u1", "u2"}
    Batches <- Growing
    Starts = {}
    Removals = {}
    Requests = {}
    Collections = {}
    Published <- OnlyYoung
    Leased = TRUE
    MaxFailures = 1
    MaxCrashes = 0
SPECIFICATION Spec
INVARIANTS NewArchHasAny
CHECK_DEADLOCK FALSE
