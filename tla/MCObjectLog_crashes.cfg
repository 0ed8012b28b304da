CONSTANTS
    a = a
    b = b
    Hashes = {a, b}
    NoBatch = NoBatch
    MaxTransactions = 3
    MaxCells = 20
    MaxUnflushed = 8
    TornWrites = TRUE
    IoFaults = TRUE
    CleanupFaults = FALSE
    HeaderTears = FALSE
SPECIFICATION Spec
SYMMETRY Symmetry
INVARIANTS TypeOK IndexMatchesLog RecoveryAcceptsLog
PROPERTY ImplementsTransactionalStore
