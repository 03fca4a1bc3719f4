CONSTANTS
    m1 = m1
    m2 = m2
    u1 = u1
    u2 = u2
    None = None
    Modes <- BothModes
    Msgs <- TwoMsgs
    MsgLen = 3
    HighWaterMark = 2
    Users <- NoUsers
    Ops <- LoopOps
    UserOps <- NoOps
    OneLoop = TRUE
    Careful = TRUE
    CanDrop = TRUE
    CanDestroy = TRUE
    MaxPending = 2
    MaxTrace = 4
    MaxCalls = 2
SPECIFICATION FairSpec
INVARIANTS AssertsHold Lifecycle WritingWhileBuffered NoDanglingChannel PolledForSomething
PROPERTIES ShutdownCloses PeerCloseNoticed BufferedIsSent DownIsRemoved
CHECK_DEADLOCK FALSE
