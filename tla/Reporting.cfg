\* Three sessions; a window of two rows, a store of two sessions with two request threads.
SPECIFICATION FairSpec
CONSTANTS
    Threads = {t1, t2, t3}
    Workers = {w1, w2}
    NoReport = NoReport
    WindowSize = 2
    Home = "dashboard"
    MaxSessions = 2
    Backlog = 2
    MaxFaults = 2
CHECK_DEADLOCK FALSE
INVARIANTS
    TypeOK
    ReportsKept
    StoreKeepsNewest
    StatusIsConsistent
    ExplainedOnce
    SkippedForCause
PROPERTIES
    RowsExplained
