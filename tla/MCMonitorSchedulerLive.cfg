SPECIFICATION FairSpec
CONSTANTS
    w1 = w1  w2 = w2  t1 = t1
    NoTime = NoTime
    Watches <- TwoWatches
    Removable <- NoWatches
    Checkable <- NoWatches
    Threads <- NoThreads
    MaxWorkers = 1
    Intervals <- UnitInterval
    Jitter = 0
    Backoffs <- SuccessOrBackoff
    MaxWakeups = 1
    MaxFailures = 1
PROPERTIES
    NoStarvation
CHECK_DEADLOCK FALSE
