SPECIFICATION Spec
CONSTANTS
    Items = {i1, i2}
    Owners = {o1, o2}
    NoOwner = NoOwner
    LeaseDuration = 2
    RetryDelays = {0, 2}
    ClaimOrder = "oldestReady"
    MaxNow = 3
    MaxEpoch = 2
INVARIANTS TypeOK LeaseInv WakeIsNotDelayed PassedAtMostOnce
PROPERTIES LostLeaseStaysLost FencedSpec
CHECK_DEADLOCK FALSE
