SPECIFICATION FairSpec
CONSTANTS
    None = None
    OtherTabs = 2
    Fetches <- OneFetch
    Scenarios <- AllScenarios
    MaxTime = 7
INVARIANTS
    LogTellsControl
    LogTellsSnapshot
    BlockedShown
PROPERTIES
    OfferHasEffect
    CatchesUp
CHECK_DEADLOCK FALSE
