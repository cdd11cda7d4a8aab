CONSTANTS
    c1 = c1
    c2 = c2
    Conn = {c1, c2}
    NoConn = NoConn
    Limit = 2
    Backlog = 1
    MaxVersion = 2
    MaxFaults = 2
SPECIFICATION FairSpec
INVARIANTS
    TypeOK
    DeliveredWasSent
    LatestLoginHasSession
PROPERTIES
    EventuallyDelivered
