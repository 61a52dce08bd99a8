CONSTANTS
    c1 = c1
    c2 = c2
    c3 = c3
    a1 = a1
    a2 = a2
    MaxBooks = 2
    MaxMessages = 2
    MaxFailures = 0
    MaxStalls = 1
    MaxCasts = 3
    Clients <- MCPair
    Assets <- MCAsset
    Modes <- MCModes

SPECIFICATION Spec
SYMMETRY MCPairSymmetry

INVARIANTS NoGhosts InOrder UpToDate

CHECK_DEADLOCK FALSE
