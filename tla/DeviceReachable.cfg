SPECIFICATION FairSpec
CONSTANTS
    N = 3
    Gateways = {g1}
    NoGateway = NoGateway
    MaxFaults = 0
PROPERTY ConnectedIsReachable
CHECK_DEADLOCK FALSE
