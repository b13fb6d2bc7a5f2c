SPECIFICATION PushSpec
CONSTANTS
    MaxRows = 2
    Window = 2
INVARIANTS
    ReadIsKept
CHECK_DEADLOCK FALSE
