SPECIFICATION FairSpec
CONSTANTS
    Kinds = {"var", "bsu", "esu"}
    MaxOut = 2
    ReadMax = 2
    SockCap = 1
    BufLen = 2
    HoldCap = 1
    HoldTimeout = TRUE
    UserCloses = TRUE
    PtyFails = TRUE
INVARIANTS
    TypeOK
    InOrder
    NoStuckFrame
    CompleteAtHangup
    BufferBounded
PROPERTIES
    FrameAtomic
    AllDrawn
    ThreadsStop
CHECK_DEADLOCK FALSE
