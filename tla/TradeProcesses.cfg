SPECIFICATION Spec
CONSTANTS
    Call = {c1, c2}
    Process = {c1, c2}
    ProcessOf <- OwnProcess
    Fingerprint = {c1, c2}
    FingerprintOf <- OwnTrade
    MaxAttempts = 2
    MaxHeight = 4
    ValidFor = 1
    HashAge = 0
    ResumeWaits = FALSE
    OneNode = TRUE
    SendRetried = TRUE
    StoreMayFail = TRUE
    Resubmits = FALSE
    NoTx = NoTx
    NoIntent = NoIntent
SYMMETRY Symmetry
INVARIANTS
    OneTradeAlive
    JournaledBeforeBroadcast
    ConfirmedIsTrue
CHECK_DEADLOCK FALSE
