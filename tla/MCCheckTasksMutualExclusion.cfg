SPECIFICATION Spec
CONSTANTS
    w1 = w1  w2 = w2  r1 = r1  r2 = r2
    NoTask = NoTask
    Watches <- OneWatch
    Requests <- TwoRequests
    Target <- AllForW1
    MaxWorkers = 1
INVARIANT MutualExclusion
CHECK_DEADLOCK FALSE
