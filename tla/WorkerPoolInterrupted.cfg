CONSTANTS
    t1 = t1
    Tasks = {t1}
    MaxWorkers = 1
    QueueSize = 1
    MayStop = FALSE
SPECIFICATION Spec
PROPERTIES
    InterruptionReported
CHECK_DEADLOCK FALSE
