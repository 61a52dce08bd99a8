CONSTANTS
    c1 = c1
    c2 = c2
    o1 = o1
    None = None
    Size = 2
    MaxTroubles = 1
    MaxRepeats = 1
    Clients <- MCClients
    Orders <- MCOrders
    Owner <- MCOwner

SPECIFICATION FairSpec

INVARIANTS TypeOK FillsCounted FilledOnce
PROPERTIES StopEnds

CHECK_DEADLOCK FALSE
