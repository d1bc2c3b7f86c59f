SPECIFICATION FairSpec
CONSTANTS
    Requests = {r1, r2}
    MaxWindows = 2
    MaxTabs = 2
    MaxPanes = 3
    SwitchBack = TRUE
INVARIANTS
    TypeOK
    WindowsWellFormed
    MapsAgree
    NothingLeaks
PROPERTIES
    DeadIsPruned
CHECK_DEADLOCK FALSE
