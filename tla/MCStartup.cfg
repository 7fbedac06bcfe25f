SPECIFICATION Spec
CONSTANTS
    p0 = p0  p1 = p1  p2 = p2
    None = None
    Torn = Torn
    Procs <- Starts
    Gone <- Earlier
    MaxKills = 1
    Initial <- Files
INVARIANTS
    LockLostOnlyToRival
    FileTellsTruth
    ReadyIsCurrent
CHECK_DEADLOCK FALSE
