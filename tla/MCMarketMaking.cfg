CONSTANTS
    yes = yes
    no = no
    o1 = o1
    o2 = o2
    o3 = o3
    NoOutcome = NoOutcome
    Outcomes <- MCOutcomes
    Quoted <- MCQuoted
    Ids <- MCIds
    Books <- MCBooks
    OrderSize = 2
    MaxPosition = 2
    MaxDelta = 1
    MaxFailures = 1
    MaxWrites = 1
    Holdings <- MCHoldings
    MaxHeld = 3
    Found <- MCFound
    MaxFound = 1
    Lot = 2

SPECIFICATION Spec
SYMMETRY MCSymmetry

INVARIANTS TypeOK FewQuotes ExposureBound CleanupCovered

CHECK_DEADLOCK FALSE
