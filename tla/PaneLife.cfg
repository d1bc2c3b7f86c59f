SPECIFICATION FairSpec
CONSTANTS
    Behaviors = {"Close", "CloseOnCleanExit", "Hold"}
    MaxActivities = 2
INVARIANTS
    TypeOK
    RemovedIsStopped
    HeldPaneStays
    HalfRemovedIsPending
PROPERTIES
    PaneReleased
CHECK_DEADLOCK FALSE
