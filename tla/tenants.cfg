SPECIFICATION FairSpec

\* Two users' documents, one a PDF that never looks readable, a deletion of it
\* and a question, and a failing save; the process is not restarted.
CONSTANTS
    Uploads = {doc1, docB}
    Deletes = {del1}
    Reads = {}
    Asks = {ask1}
    Bobs = {docB}
    User <- MCUser
    Target <- MCTarget
    Garbled = {doc1}
    VectorSearch = TRUE
    NoChunks = NoChunks
    MaxSaveFailures = 1
    MaxCrashes = 0
    MaxServed = 4

INVARIANTS
    CitationsInScope

PROPERTIES
    IndexingEnds
