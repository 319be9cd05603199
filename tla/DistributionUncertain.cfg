SPECIFICATION CDFairSpec
CONSTANTS
    Tx <- Payment
    World <- OneWorld
    MaxHeight = 1
    Recipient = {1}
    MaxEntitled = 1
    MaxSigned = 2
    Entitlements <- OneAmount
    Caller = {c1}
    ValidFor = 0
    NoTx = NoTx
    NoRow = NoRow
PROPERTIES
    UncertainIsReconciled
CHECK_DEADLOCK FALSE
