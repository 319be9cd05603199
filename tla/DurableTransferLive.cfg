SPECIFICATION FairSpec
CONSTANTS
    Alloc = {1, 2}
    Input = {in1}
    Driver = {d1}
    MaxHeight = 1
    ValidFor = 0
    HashAge = 0
    Serial = TRUE
    FailedCanReland = FALSE
    NoTx = NoTx
    NoState = NoState
PROPERTIES
    EveryIntentEnds
    LandedIsRecorded
CHECK_DEADLOCK FALSE
