SPECIFICATION FairSpec

CONSTANTS
    Calls = {"upload", "search", "delete"}
    Kind <- MCKind
    Doc <- MCDoc
    Sizes = {2, 3}
    NoCall = NoCall

INVARIANTS
    TypeOK
    ServesPrepared
    FailsWithReason

PROPERTIES
    KeepsIndexPromise
    CallsEnd

CHECK_DEADLOCK FALSE
