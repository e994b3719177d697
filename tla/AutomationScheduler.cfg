SPECIFICATION FairSpec
CONSTANTS
    Schedulers = {s1, s2}
    N = 2
    Anchor <- MCAnchor
    Interval <- MCInterval
    PageSize = 1
    MaxPages = 2
    CacheLimit = 1
    MaxClock = 2
    MaxDisturbances = 1
INVARIANTS TypeOK InvokedAtMostOnce RememberedIsCommitted
PROPERTY LatestIsInvoked
CHECK_DEADLOCK FALSE
