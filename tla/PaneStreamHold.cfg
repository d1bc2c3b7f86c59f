SPECIFICATION FairSpec
CONSTANTS
    Kinds = {"text", "bsu"}
    MaxOut = 2
    ReadMax = 2
    SockCap = 2
    BufLen = 2
    HoldCap = 2
    HoldTimeout = TRUE
    UserCloses = FALSE
    PtyFails = FALSE
PROPERTIES
    HoldReleased
CHECK_DEADLOCK FALSE
