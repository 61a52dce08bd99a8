CONSTANTS
    c1 = c1
    c2 = c2
    MaxRetries = 1
    Limit = 1
    Second = 2
    MaxExpiries = 1
    Callers <- MCCallers
    Adapters <- Known

SYMMETRY MCSymmetry

SPECIFICATION Spec

INVARIANTS PlacedOnce Reported AttemptsBounded RateBounded

CHECK_DEADLOCK FALSE
