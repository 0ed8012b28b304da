SPECIFICATION Spec
CONSTANTS
    Hashes = {h1}
    NoHash = NoHash
    Writers = {w1, w2}
    Procs = {p1}
    ProcOf <- MCProcOf
    Pids = {1, 2}
    MaxSequence = 2
    IoFaults = TRUE
    PowerFails = TRUE
INVARIANTS
    TypeOK
    TempNamesUnique
    TempFileIsMine
PROPERTIES
    WritesNeverDamage
    ImplementsAtomicStore
