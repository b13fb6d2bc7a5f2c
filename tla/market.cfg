SPECIFICATION MCSpec
CONSTANTS
    Levels = 4
    BestGap = 1
    Reach = 4
    Pull = 100
    Limit = 3
    Reader = {r1, r2}
    InnerTTL = 2
    OuterTTL = 1
    Patience = 1
    Delay = 0
    Pairs = 2
    Odd = {2}
SYMMETRY Alike
INVARIANTS
    LadderSized
    PrintsTakeBest
    
    AgeBounded
    
CHECK_DEADLOCK FALSE
