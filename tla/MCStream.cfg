SPECIFICATION FairStreamSpec
CONSTANTS
    QueueCap = 2
    WireCap = 2
    maxBackoff = 3
    rateLimit = 2
    Second = 1
    MaxEvents = 3
    MaxFaults = 2
    MaxTime = 1
INVARIANTS
    ResumedComesFirst
    NoSilentGap
    RateBudget
    LossNeedsFault
PROPERTIES
    ImplementsFeed
    EventsSettle
CHECK_DEADLOCK FALSE
