CONSTANTS
    c1 = c1
    c2 = c2
    c3 = c3
    Client <- ThreeClients
    MaxConnections = 2
    MaxU64 = 4
SPECIFICATION FairSpec
INVARIANTS
    TypeOK
    CountMatchesGuards
    NeverOversubscribed
PROPERTIES
    RefusalJustified
    ImplementsSlots
    LockFree
