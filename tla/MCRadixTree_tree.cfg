SPECIFICATION Spec
CONSTANTS
    CoordBytes = 2
    MaxChildren = 4
    Coords <- MCCoords
    Payloads <- MCPayloads
    NoChunk = NoChunk
    Keep = Keep
    Snapshots <- MCSnapshots
    ChangeSets <- MCChangeSets
    Message <- MCMessage
INVARIANTS
    TypeOK
    ReadsBackTheWorld
    RootIsCanonical
    EncodingIsExact
PROPERTIES
    PublicationIsBounded
    DiffIsExact
