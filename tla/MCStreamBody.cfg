CONSTANTS
    IdleSecs <- IdleValues
    TotalSecs <- TotalValues
    HeaderTimeout = 3
    Window = 2
SPECIFICATION FairSpec
INVARIANTS
    TypeOK
    AtMostOneLate
    IdleMeansSilence
PROPERTIES
    HeaderWaitEnds
    DeadlineEnds
    SilenceEnds
