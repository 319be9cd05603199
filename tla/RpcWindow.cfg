SPECIFICATION Spec
CONSTANTS
    c1 = c1
    c2 = c2
    Client = {c1, c2}
    MaxRequests = 2
    WindowMs = 3
    MaxSends = 1
    SendWindowMs = 4
    LockWait = 1
    Retries = 1
    Batch <- MCBatch
SYMMETRY MCSymmetry
INVARIANTS
    TypeOK
    BudgetPerWindow
    WaitIsRight
    ChunksFit
