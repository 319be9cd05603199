SPECIFICATION Spec
CONSTANTS
    Alloc = {1, 2}
    Input = {in1}
    Driver = {d1}
    MaxHeight = 2
    ValidFor = 1
    HashAge = 1
    Serial = TRUE
    FailedCanReland = TRUE
    NoTx = NoTx
    NoState = NoState
INVARIANTS
    PaidAtMostOnce
CHECK_DEADLOCK FALSE
