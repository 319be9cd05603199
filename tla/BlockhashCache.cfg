SPECIFICATION FairSpec
CONSTANTS
    c1 = c1
    c2 = c2
    kA = kA
    kB = kB
    w1 = w1
    None = None
    Caller = {c1, c2}
    Connection = {kA, kB}
    Warmer = {w1}
    Request <- MCRequest
    MaxGeneration = 1
    TTL = 1
INVARIANTS
    TypeOK
    NotBeforeInvalidate
    PendingIsOpen
PROPERTIES
    GetReturns
