CONSTANTS
    IdleSecs <- IdleValues
    TotalSecs <- TotalValues
    HeaderTimeout = 3
    Window = 2
SPECIFICATION DSpec
INVARIANTS
    TotalAfterHeaders
