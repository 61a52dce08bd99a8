CONSTANTS
    c1 = c1
    c2 = c2
    c3 = c3
    a1 = a1
    a2 = a2
    MaxBooks = 0
    MaxMessages = 5
    MaxFailures = 1
    MaxStalls = 0
    MaxCasts = 0
    Clients <- MCClients
    Assets <- MCAssets
    Modes <- MCModes

SPECIFICATION Spec
SYMMETRY MCSymmetry

INVARIANTS Covered

CHECK_DEADLOCK FALSE
