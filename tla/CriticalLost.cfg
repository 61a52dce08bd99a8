CONSTANTS
    r1 = r1
    r2 = r2
    c1 = c1
    Sentinel = Sentinel
    Token = Token
    NoItem = NoItem
    QueueSize = 1
    OnErrorRaises = FALSE
    Items <- MCItems
    CriticalItems <- MCCritical
    FailingItems <- MCFailing
    Policies <- AllPolicies

SPECIFICATION Spec

INVARIANT CriticalNeverLost

CHECK_DEADLOCK FALSE
