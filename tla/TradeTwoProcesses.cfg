SPECIFICATION Spec
CONSTANTS
    Call = {c1, c2}
    Process = {c1, c2}
    ProcessOf <- OwnProcess
    Fingerprint = {f1}
    FingerprintOf <- SameTrade
    MaxAttempts = 2
    MaxHeight = 4
    ValidFor = 1
    HashAge = 0
    ResumeWaits = TRUE
    OneNode = TRUE
    SendRetried = FALSE
    StoreMayFail = FALSE
    Resubmits = FALSE
    NoTx = NoTx
    NoIntent = NoIntent
SYMMETRY Symmetry
INVARIANTS
    FailedIsFinal
CHECK_DEADLOCK FALSE
