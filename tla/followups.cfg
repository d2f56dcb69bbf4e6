SPECIFICATION Spec

CONSTANTS
    Threads = {"chat1"}
    Turns = {turn1, turn2, turn3, turnB}
    Streamed = {}
    Changes = {"set1"}
    Wants <- MCWants
    DefaultProvider = "siliconflow"
    Retrying = {"ollama", "local"}
    Bobs = {turnB}
    ThreadOf <- MCThreadOf
    User <- MCUser
    NoTurn = NoTurn
    MaxTokens = 1
    MaxSaveFailures = 1
    MaxCrashes = 1

INVARIANTS
    HistoryStaysPrivate

PROPERTIES
    FollowUpKnowsAnswer
    ChangeHolds

SYMMETRY Alike
