SPECIFICATION FairSpec
CONSTANTS
    U16 = 4
    Retries = {0, 1}
    Initial = 3
    MaxDelay = 5
    Num = 3
    Den = 2
    Tokens = {"right", "wrong"}
    ServerToken = "right"
    Versions = {1, 2}
    ServerVersion = 1
    Skews = {0, 2}
    ClockWindow = 1
    PaddingMax = 1
    MaxFrames = 2
    MaxCount = 4
INVARIANTS TypeOK FramesInOrder BothEndsAgree RetriesAsConfigured
PROPERTY ClosedLeadsOn
CHECK_DEADLOCK FALSE
