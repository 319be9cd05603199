SPECIFICATION Spec
CONSTANTS
    Call = {c1, c2}
    Process = {p1}
    ProcessOf <- OneProcess
    Fingerprint = {f1}
    FingerprintOf <- SameTrade
    MaxAttempts = 2
    MaxHeight = 4
    ValidFor = 1
    HashAge = 0
    ResumeWaits = TRUE
    OneNode = TRUE
    SendRetried = FALSE
    StoreMayFail = FALSE
    Resubmits = TRUE
    NoTx = NoTx
    NoIntent = NoIntent
SYMMETRY Symmetry
INVARIANTS
    TypeOK
    FailedIsFinal
    HeadIsPending
PROPERTIES
    ResolvedStays
    ReplacedOnlyWhenClosed
    TradesOnce
CHECK_DEADLOCK FALSE
