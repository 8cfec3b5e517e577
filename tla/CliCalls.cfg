SPECIFICATION FairSpec
CONSTANTS
    a = a
    b = b
    Calls = {a, b}
    SessionCap = 1
    WorkerCap = 1
    MaxRetries = 1
    MaxLines = 2
INVARIANTS TypeOK SlotsAccounted CapsButUnread OrphansWereUnread
PROPERTIES WatchedEnds
CHECK_DEADLOCK FALSE
