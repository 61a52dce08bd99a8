CONSTANTS
    m1 = m1
    m2 = m2
    c1 = c1
    c2 = c2
    Main = Main
    None = None
    MaxAttempts = 1
    MaxTroubles = 2
    Markets <- MCMarkets
    Callers <- MCCallers
    Sockets <- MCSockets

SPECIFICATION FairSpec

INVARIANTS TypeOK Replayed SoleConnection DisconnectCloses
PROPERTIES FeedReturns


CHECK_DEADLOCK FALSE
