SPECIFICATION FairSpec
CONSTANTS
    c1 = c1  c2 = c2  t1 = t1  low = low
    None = None
    Checks <- TwoChecks
    Threads <- OneThread
    Prices <- OnePrice
    Rules <- OnePriceRules
    MaxCommands = 2
PROPERTIES
    GateHonoured
    
    KeepsRecording
CHECK_DEADLOCK FALSE
