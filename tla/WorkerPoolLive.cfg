CONSTANTS
    t1 = t1
    t2 = t2
    Tasks = {t1, t2}
    MaxWorkers = 1
    QueueSize = 1
    MayStop = FALSE
SPECIFICATION FairSpec
PROPERTIES
    EveryIntentSettles
    CancelReturns
CHECK_DEADLOCK FALSE
