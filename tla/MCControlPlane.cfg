CONSTANTS
    NumBackends = 2
    Model = {"m", "n"}
    Fallback <- Tiers
    MaxConn <- Limits
    Aliases <- OneAliased
    Report <- Reports
    Failed = Failed
    Pending = Pending
SPECIFICATION FairSpec
INVARIANTS
    TypeOK
    ListedIsServed
PROPERTIES
    HealthFollows
    ModelsFollow
    CacheSurvives
