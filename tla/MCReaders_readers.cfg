CONSTANTS
    p1 = p1
    Procs = {p1}
    main = main
    Branches = {main, dev}
    dev = dev
    DefaultBranch = main
    Detached = Detached
    Coords = {c1}
    x1 = x1
    x2 = x2
    Payloads = {x1, x2}
    NoChunk = NoChunk
    Keep = Keep
    t1 = t1
    Stamps = {t1}
    Snapshots <- Snapshot1
    ChangeSets <- Change1
    Readers = {r1}
    MaxHistory = 2
    MaxCommits = 2
    Transactional = FALSE
    IoFaults = FALSE
    LockFaults = FALSE
    Crashes = FALSE
    OrphanCheckout = FALSE
SPECIFICATION RSpec
INVARIANTS RTypeOK ReadersFindWhatIsReachable ListingShowsCommits
