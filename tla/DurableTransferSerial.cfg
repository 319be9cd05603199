SPECIFICATION Spec
CONSTANTS
    Alloc = {1, 2}
    Input = {in1}
    Driver = {d1, d2}
    MaxHeight = 2
    ValidFor = 1
    HashAge = 1
    Serial = TRUE
    FailedCanReland = FALSE
    NoTx = NoTx
    NoState = NoState
SYMMETRY Symmetry
INVARIANTS
    TypeOK
    NothingForgotten
    RecordMatchesChain
PROPERTIES
    ReplacedOnlyWhenDecided
    PaysOnce
CHECK_DEADLOCK FALSE
