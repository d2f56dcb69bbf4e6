SPECIFICATION Spec

\* One upload, one deletion; nothing fails.
CONSTANTS
    Uploads = {doc1}
    Deletes = {del1}
    Reads = {}
    Asks = {}
    Bobs = {}
    User <- MCUser
    Target <- MCTarget
    Garbled = {}
    VectorSearch = TRUE
    NoChunks = NoChunks
    MaxSaveFailures = 0
    MaxCrashes = 0
    MaxServed = 2

INVARIANTS
    DeletedStaysDeleted
