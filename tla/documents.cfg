SPECIFICATION Spec

\* One document, three deletions of it (one by another user), a download, a
\* question that may repair it, a failing save and a restart; any five of the
\* six requests are sent.
CONSTANTS
    Uploads = {doc1}
    Deletes = {del1, del2, delB}
    Reads = {read1}
    Asks = {ask1}
    Bobs = {delB}
    User <- MCUser
    Target <- MCTarget
    Garbled = {}
    VectorSearch = TRUE
    NoChunks = NoChunks
    MaxSaveFailures = 1
    MaxCrashes = 1
    MaxServed = 5

INVARIANTS
    TypeOK
    ReadyMeansChunked
    AckedUploadKept
    FileLostOnlyByOwner
    AuditedDeletionIsReal

PROPERTIES
    DeletionIsFinal
    KeepsPromise

\* The properties are all safety properties.
SYMMETRY Alike
CONSTRAINT Served
