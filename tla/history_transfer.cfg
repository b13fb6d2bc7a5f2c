SPECIFICATION Spec
CONSTANTS
    Amount = {1, 2}
    MaxTime = 3
    MaxRows = 4
INVARIANTS
    HistoryExact
CHECK_DEADLOCK FALSE
