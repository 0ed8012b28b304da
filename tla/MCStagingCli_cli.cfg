SPECIFICATION Spec
CONSTANTS
    Inits = {i1, i2}
    Clis = {c1, c2}
    Coords <- MCCoords
    Names <- MCNames
    CoordOf <- MCCoordOf
    Removals = Removals
    Payloads = {p1, p2}
    NoFile = NoFile
    NoChunk = NoChunk
    Keep = Keep
    MaxEdits = 3
    MaxOthers = 1
    LateInits = FALSE
SYMMETRY Symmetry
CHECK_DEADLOCK FALSE
INVARIANTS
    TypeOK
    OpenedIsComplete
    NoRequestIsLost
PROPERTIES
    LoneInitOverwritesNothing
    PatchIsWhole
