SPECIFICATION Spec
CONSTANTS
    r1 = r1
    r2 = r2
    e1 = e1
    nobody = nobody
    Results <- MCResults
    Events <- MCEvents
    Nobody <- nobody
    Attempts = 3
    MaxErrors = 3
SYMMETRY MCSymmetry
INVARIANTS TypeOK StoredOnce ResultsKept Finalised
CHECK_DEADLOCK FALSE
