SPECIFICATION Spec
CONSTANTS
    h1 = h1  h2 = h2
    Handlers = {h1, h2}
    Names = {"admin", "ann"}
    NoName = ""
    Seed = "admin"
    RangeSets <- Requested
    Ttl = 0
    MaxTokens = 2
    MaxRequests = 3
    MaxOverlaps = 1
INVARIANTS
    NothingShared
    GroupsExist
    ActsAsItself
    AdministratorRemains
SYMMETRY Alike
CHECK_DEADLOCK FALSE
