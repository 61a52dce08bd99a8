CONSTANTS
    r1 = r1
    r2 = r2
    c1 = c1
    Sentinel = Sentinel
    Token = Token
    NoItem = NoItem
    QueueSize = 1
    OnErrorRaises = TRUE
    Items <- MCItems
    CriticalItems <- MCCritical
    FailingItems <- MCFailing
    Policies <- AllPolicies

SPECIFICATION FairSpec

INVARIANTS TypeOK Conserved PriorityBound DrainHonoured
PROPERTIES KeepsPromise CriticalHandled ThreadStops

CHECK_DEADLOCK FALSE
