SPECIFICATION FairSpec
CONSTANTS
    Clients = {"c1"}
    MaxEvents = 3
    MaxPending = 1
    PageSize = 2
    MaxFaults = 2
    MaxRefusals = 1
INVARIANTS TypeOK SettledWasPublished
PROPERTIES StreamSpec
CHECK_DEADLOCK FALSE
