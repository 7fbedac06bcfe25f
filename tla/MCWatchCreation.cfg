SPECIFICATION Spec
CONSTANTS
    h1 = h1  r1 = r1  p1 = p1  q1 = q1  q2 = q2
    None = None
    Malformed = Malformed
    Raised = Raised
    HotelIds <- Hotels
    Requests = {q1, q2}
    one = one  two = two
    NewTab = NewTab  Denied = Denied
    Url <- Named
    Visits <- Pages
    Opened = {two}
    Seeds <- Entered
    Samples <- Given
    Listing <- SitePage
    BlockedPage <- DeniedPage
    Wirings = {TRUE, FALSE}
    MaxSize = 1
    MinInterval = 1
    GenericFailure = 1
    BlockedCooldown = 2
    MaxTabs = 2
    MaxForms = 2
    MaxWatches = 2
    MaxTroubles = 1
SYMMETRY Symmetry
INVARIANTS
    OneWatchPerTarget
    WatchAsShown
    PricesOfStay
    TargetsIdentify
PROPERTIES
    GuardHeld
CHECK_DEADLOCK FALSE
