CONSTANTS
    c1 = c1
    c2 = c2
    Conn = {c1, c2}
    NoConn = NoConn
    Limit = 2
    Backlog = 0
    MaxVersion = 2
    MaxFaults = 0
SPECIFICATION Spec
INVARIANTS
    DeliveredIsShown
