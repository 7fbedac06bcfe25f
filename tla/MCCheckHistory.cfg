SPECIFICATION HistorySpec
CONSTANTS
    None = None
    Prices <- ThreePrices
    Rules <- AllRules
    MaxFailures = 5
PROPERTIES
    RepeatSilent
    AlertAtThird
    AvailableOnce
    SamePriceOnce
    BackoffNeverShrinks
CHECK_DEADLOCK FALSE
