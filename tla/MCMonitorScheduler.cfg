SPECIFICATION Spec
CONSTANTS
    w1 = w1  w2 = w2  t1 = t1
    NoTime = NoTime
    Watches <- TwoWatches
    Removable <- OnlyW1
    Checkable <- OnlyW1
    Threads <- OneThread
    MaxWorkers = 1
    Intervals <- UnitInterval
    Jitter = 0
    Backoffs <- SuccessOrBackoff
    MaxWakeups = 1
    MaxFailures = 1
PROPERTIES
    BackoffBypassed
    ImplementsPool
CHECK_DEADLOCK FALSE
