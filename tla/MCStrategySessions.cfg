CONSTANTS
    s1 = s1
    s2 = s2
    NoSession = NoSession
    CacheMax = 1
    Sessions <- MCSessions

SPECIFICATION SessionsFairSpec

INVARIANTS SessionsTypeOK StopSticks RunningIsAlive
PROPERTIES StopHeard CleanupEnds

CHECK_DEADLOCK FALSE
