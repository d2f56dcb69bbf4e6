SPECIFICATION FairSpec

\* A restart while an upload runs; nobody asks or deletes.
CONSTANTS
    Uploads = {doc1}
    Deletes = {}
    Reads = {}
    Asks = {}
    Bobs = {}
    User <- MCUser
    Target <- MCTarget
    Garbled = {}
    VectorSearch = TRUE
    NoChunks = NoChunks
    MaxSaveFailures = 0
    MaxCrashes = 1
    MaxServed = 1

PROPERTIES
    IndexingResolved
