SPECIFICATION FairSpec
CONSTANTS
    d1 = d1
    d2 = d2
    d3 = d3
    s1 = s1
    s2 = s2
    Dispatchers = {d1, d2, d3}
    Stores = {s1, s2}
    StoreOf <- MCStoreOf
    MaxActive = 2
    MaxDeferred = 3
    MaxBatch = 2
    MaxCommits = 1
    MaxFaults = 1
INVARIANTS TypeOK SlotsMatchDrains HintIsHeld
PROPERTIES QuietAfterClose WorkIsDrained
CHECK_DEADLOCK FALSE
