SPECIFICATION FairSpec
CONSTANTS
    N = 3
    Gateways = {g1, g2}
    NoGateway = NoGateway
    MaxFaults = 1
INVARIANTS TypeOK ReleasedStaysReleased RegisteredIsAttended
PROPERTIES RouteFenced SupersededCloses AcceptSettles
CHECK_DEADLOCK FALSE
