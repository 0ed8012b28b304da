\* A loose object store, one process, every fault, no orphan checked out.
CONSTANTS
    p1 = p1
    p2 = p2
    Procs = {p1}
    main = main
    Branches = {main, dev}
    dev = dev
    DefaultBranch = main
    Detached = Detached
    c1 = c1
    c2 = c2
    Coords = {c1, c2}
    x1 = x1
    x2 = x2
    Payloads = {x1, x2}
    NoChunk = NoChunk
    Keep = Keep
    t1 = t1
    Stamps = {t1}
    Snapshots <- Snapshot1
    ChangeSets <- Changes3
    MaxHistory = 2
    MaxCommits = 3
    Transactional = FALSE
    IoFaults = TRUE
    LockFaults = TRUE
    Crashes = TRUE
    OrphanCheckout = FALSE
SPECIFICATION Spec
INVARIANTS RootsComplete
PROPERTIES CollectionIsExact ImplementsVersionGraph
