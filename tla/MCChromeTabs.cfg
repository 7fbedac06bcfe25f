SPECIFICATION FairSpec
CONSTANTS
    h1 = h1  h2 = h2  r1 = r1  r2 = r2  p1 = p1  p2 = p2  w1 = w1  w2 = w2
    None = None
    Malformed = Malformed
    Raised = Raised
    HotelIds <- Hotels
    Watches <- InOrder
    Target <- Targets
    Visits <- Pages
    Listing <- SitePage
    BlockedPage <- Denied
    MaxTabs = 5
    MaxTroubles = 1
INVARIANTS
    ClaimsDiffer
    PriceOfOwnStay
PROPERTIES
    NavigatesOnlyOwn
    Recovers
CHECK_DEADLOCK FALSE
