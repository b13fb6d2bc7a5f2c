SPECIFICATION MCSpec
CONSTANTS
    Account = {"anna", "boris", "clara"}
    Founder = {"anna", "boris"}
    Form = {f1, f2}
    Patch = {p1, p2}
    MaxUpdates = 3
    Tab = {t1, t2}
    MaxGrants = 3
    MaxMisses = 1
    Ticket = {k1, k2}
    Opener = {o1, o2}
SYMMETRY Alike
INVARIANTS
    BonusOnce
    AdminRemains
    StoreIsLive
    
    
CHECK_DEADLOCK FALSE
