SPECIFICATION Spec

CONSTANTS
    Thread = {"day1", "day2", "day3"}
    Question = {"old1", "old2", "new1", "new2"}
    OldThreads <- MCOldThreads
    OldTurns <- MCOldTurns
    OldThreadOf <- MCOldThreadOf
    NoThread = NoThread
    NoCache = NoCache
    CacheSize = 2
    MaxMoves = 4
    MaxFailures = 1

INVARIANTS
    TypeOK
    HistoryIsOfThread
    CacheMirrorsScreen
    ShownTurnsStored

PROPERTIES
    ShownTurnsStay

\* The user may stop.
CHECK_DEADLOCK FALSE
