CONSTANTS
    r1 = r1
    r2 = r2
    Request <- TwoRequests
    NumBackends = 2
    Model = {"m"}
    Fallback <- Tiers2
    MaxConn <- Limits2
    Aliases <- Aliases2
    Bearer = {"anyone"}
    ApiKey = {}
    Conv = {"c"}
    KeyMax <- NoLimit
    Allowed <- EveryModel
    BadHeader = {}
    RawModels <- ModelLists
    AlwaysUp = {}
SPECIFICATION HSpec
SYMMETRY RequestSymmetry
INVARIANTS
    UnavailableJustified
PROPERTIES
    AffinityFirst
    ContactOnce
    ImplementsBackendPools
