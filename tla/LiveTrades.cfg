SPECIFICATION FairSpec
CONSTANTS
    Mint = {m1}
    Initial = {m1}
    Trade = {t1, t2}
    MintOf <- AllOfOne
    MaxFailovers = 1
    MaxMigrations = 1
    MaxJobs = 2
    Window = 1
INVARIANTS
    TypeOK
    WatchedIsCovered
    ClosedIsQuiet
    DeliveredOnce
PROPERTIES
    CloseEnds
CHECK_DEADLOCK FALSE
