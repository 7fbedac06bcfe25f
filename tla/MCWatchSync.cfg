SPECIFICATION SyncFairSpec
CONSTANTS
    w1 = w1  w2 = w2  t1 = t1  t2 = t2
    NoWatch = NoWatch
    Deletable <- OneWatch
    Watches <- TwoWatches
    Threads <- TwoThreads
    MaxCommands = 2
    MaxWakeups = 1
PROPERTIES
    SettledNotDispatched
    Converges
CHECK_DEADLOCK FALSE
