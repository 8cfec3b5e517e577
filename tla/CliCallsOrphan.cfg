SPECIFICATION FairSpec
CONSTANTS
    a = a
    b = b
    Calls = {a}
    SessionCap = 1
    WorkerCap = 1
    MaxRetries = 1
    MaxLines = 2
INVARIANTS NoOrphan
CHECK_DEADLOCK FALSE
