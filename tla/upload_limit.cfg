SPECIFICATION Spec

CONSTANTS
    DefaultChunkSize = 4
    DefaultOverlap = 2
    DefaultPageSize = 2
    MaxPageSize = 3
    DefaultTopK = 3
    LexicalTopK = 2
    MinReadable = 2
    MinHan = 2
    ChunkRunes = 3
    ChunkOverlap = 1
    SampleChunks = 2
    MaxExtracted = 6
    MaxUploadSize = 10
    MaxMessageSize = 4
    MaxLength = 8
    MaxDocs = 7
    MaxHits = 2

INVARIANTS
    AdvertisedSizeAccepted

\* One call, then the run is over.
CHECK_DEADLOCK FALSE
