CONSTANTS
    r1 = r1
    r2 = r2
    r3 = r3
    Request <- ThreeRequests
    NumBackends = 1
    Model = {"m", "n"}
    Fallback <- OneTier
    MaxConn <- OneLimit
    Aliases <- NoAliases
    Bearer = {"limited", "open", "stranger"}
    ApiKey = {"limited", "open"}
    Conv = {"c"}
    KeyMax <- KeyLimits
    Allowed <- KeyModels
    BadHeader = {}
    RawModels <- ModelLists
    AlwaysUp = {}
SPECIFICATION Spec
SYMMETRY RequestSymmetry
INVARIANTS
    TypeOK
    SlotsExact
    KeyLimitsBackendUse
PROPERTIES
    ImplementsKeyPools
