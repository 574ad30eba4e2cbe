CONSTANTS
    r1 = r1
    r2 = r2
    Request <- TwoRequests
    NumBackends = 3
    Model = {"m"}
    Fallback <- Tiers3
    MaxConn <- Limits3
    Aliases <- NoAliases3
    Bearer = {"anyone"}
    ApiKey = {}
    Conv = {"c"}
    KeyMax <- NoLimit
    Allowed <- EveryModel
    BadHeader = {}
    RawModels <- OneModelList
    AlwaysUp = {1}
SPECIFICATION HSpec
SYMMETRY RequestSymmetry
INVARIANTS
    QuietOrder
    CandidatesInOrder
PROPERTIES
    FallbackDiscipline
