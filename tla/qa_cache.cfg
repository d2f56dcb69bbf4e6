SPECIFICATION Spec

CONSTANTS
    Thread = {"day1", "day2"}
    Question = {"old1", "old2", "new1"}
    OldThreads <- MCOldThreads
    OldTurns <- MCOldTurns
    OldThreadOf <- MCOldThreadOf
    NoThread = NoThread
    NoCache = NoCache
    CacheSize = 2
    MaxMoves = 3
    MaxFailures = 0

INVARIANTS
    CacheIsOfThread

\* The user may stop.
CHECK_DEADLOCK FALSE
