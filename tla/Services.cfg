SPECIFICATION Spec
CONSTANTS
    Tx <- AllTx
    World <- Worlds
    MaxHeight = 1
    Recipient = {1, 2}
    MaxEntitled = 2
    MaxSigned = 2
    Entitlements <- Growing
    Caller = {c1, c2}
    ValidFor = 0
    NoTx = NoTx
    NoRow = NoRow
    Claimer = {c1, c2}
    ClaimTx <- Claims
    NoClaim = NoClaim
    NoneSigned = NoneSigned
    BuyTx <- Buys
    NoBuy = NoBuy
    Recorder = {"r1", "r2"}
    Confidence <- ProcessedAndConfirmed
    EventKey = {k1, k2, k3}
    RecordCall = {"first", "second"}
    MaxPending = 1
    BatchSize = 1
    Creation = {"a", "b"}
    MaxChain = 4
    MaxForks = 2
    Headers = 2
    Told = 2
    Rewind = 2
    From = 1
    NoHash = NoHash
    NoStream = NoStream
SYMMETRY Symmetry
INVARIANTS
    TypeOK
    PaidIsReceived
    WithinEntitlement
    ClaimMatchesChain
    SecondBuyHasCause
    RecordedIsKept
    QueueIsBounded
    NothingMissed
PROPERTIES
    ClaimsOnce
    PaysWhatIsOwed
CHECK_DEADLOCK FALSE
