SPECIFICATION FairSpec
CONSTANTS
    Call = {c1}
    Process = {p1}
    ProcessOf <- OneProcess
    Fingerprint = {f1}
    FingerprintOf <- SameTrade
    MaxAttempts = 2
    MaxHeight = 3
    ValidFor = 1
    HashAge = 0
    ResumeWaits = TRUE
    OneNode = TRUE
    SendRetried = FALSE
    StoreMayFail = FALSE
    Resubmits = FALSE
    NoTx = NoTx
    NoIntent = NoIntent
PROPERTIES
    SubmittedIsResolved
CHECK_DEADLOCK FALSE
