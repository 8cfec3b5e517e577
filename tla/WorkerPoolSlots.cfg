CONSTANTS
    t1 = t1
    t2 = t2
    Tasks = {t1, t2}
    MaxWorkers = 1
    QueueSize = 1
    MayStop = TRUE
SYMMETRY TaskSymmetry
SPECIFICATION Spec
INVARIANTS
    TypeOK
    SlotAccounting
    ConcurrencyCap
    StoresAgree
    CancelSticks
    OutcomeTold
    StopLeavesNothingRunning
CHECK_DEADLOCK FALSE
