CONSTANTS
    a = a
    b = b
    Hashes = {a, b}
    NoBatch = NoBatch
    MaxTransactions = 3
    MaxCells = 18
    MaxUnflushed = 8
    TornWrites = FALSE
    IoFaults = TRUE
    CleanupFaults = TRUE
    HeaderTears = FALSE
SPECIFICATION Spec
INVARIANT RecoveryAcceptsLog
