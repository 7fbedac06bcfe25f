SPECIFICATION FairSpec
CONSTANTS
    w1 = w1  w2 = w2  r1 = r1  r2 = r2
    NoTask = NoTask
    Watches <- TwoWatches
    Requests <- TwoRequests
    Target <- AllForW1
    MaxWorkers = 1
INVARIANTS
    OverlapOnlyAfterRace
    StopCleans
PROPERTIES
    RequestAnswered
    SlotReleased
CHECK_DEADLOCK FALSE
