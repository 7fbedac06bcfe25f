SPECIFICATION Spec
CONSTANTS
    c1 = c1  c2 = c2  k1 = k1  k2 = k2  here = here  there = there
    None = None
    Checks <- TwoChecks
    Keys <- OneKey
    Channels <- TwoChannels
    Cooldown <- Cooldowns
    Addresses <- OneAddress
    MaxTime = 2
    MaxSaves = 1
    MaxFaults = 1
SYMMETRY Symmetry
INVARIANTS
    OutcomeTrue
PROPERTIES
    CooldownKept
    SettingsHonoured
    DiesOnlyAfterSilence
CHECK_DEADLOCK FALSE
