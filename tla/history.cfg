SPECIFICATION MCSpec
CONSTANTS
    Amount = {1, 2}
    MaxTime = 3
    MaxRows = 4
    PageSize = 2
    MaxMade = 4
INVARIANTS
    HistoryFollowsTotal
    
    PagesMissFew
    StatsAgree
CHECK_DEADLOCK FALSE
