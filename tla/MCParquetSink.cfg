CONSTANTS
    p1 = p1
    p2 = p2
    None = None
    FlushEvery = 2
    Attempts = 2
    MaxFinals = 1
    Paths <- MCPaths
    At <- MCAt

SPECIFICATION Spec

INVARIANTS LocksWork RowsKept Delivered

CHECK_DEADLOCK FALSE
