SPECIFICATION FairSpec

CONSTANTS
    Threads = {"chat1"}
    Turns = {"turn1", "turn2"}
    Streamed = {"turn1"}
    Changes = {}
    Wants <- MCWants
    DefaultProvider = "ollama"
    Retrying = {"ollama", "local"}
    Bobs = {}
    ThreadOf <- MCThreadOf
    User <- MCUser
    NoTurn = NoTurn
    MaxTokens = 2
    MaxSaveFailures = 1
    MaxCrashes = 1

INVARIANTS
    TypeOK
    StoredTurnsWhole

PROPERTIES
    KeepsTurnPromise
    StreamsEnd
