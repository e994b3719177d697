SPECIFICATION Spec
CONSTANTS
    Clients = {"c1"}
    MaxEvents = 3
    MaxPending = 1
    PageSize = 2
    MaxFaults = 0
    MaxRefusals = 1
INVARIANTS SeenHasNoGap
CHECK_DEADLOCK FALSE
