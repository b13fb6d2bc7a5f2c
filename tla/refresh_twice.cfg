SPECIFICATION SessionsSpec
CONSTANTS
    Tab = {t1, t2}
    MaxGrants = 3
    MaxMisses = 0
INVARIANTS
    RefreshOnce
CHECK_DEADLOCK FALSE
