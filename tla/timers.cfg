SPECIFICATION MCSpec
CONSTANTS
    PingEvery = 4
    Timeout = 11
    Duration = {1, 2}
    MaxInbox = 2
    MaxReconnects = 3
    MaxRows = 4
    Window = 2
    Caller = {"anna", "boris"}
    Counter = {"anna", "boris", "address"}
    CountersOf <- MCCountersOf
    Limit = 2
    Period = 2
    MaxMissed = 1
    Attempt = {r1, r2, r3}
    Threshold = 3
    Lockout = 2
    MaxLost = 1
INVARIANTS
    
    CountCoversList
    RateBounded
    FailuresCount
PROPERTIES
    GoneIsClosed
    
    OneFeed
    FeedReturns
    GivesUp
    EventuallyPushed
    LockEnds
CHECK_DEADLOCK FALSE
