CONSTANTS
    m1 = m1
    m2 = m2
    u1 = u1
    u2 = u2
    None = None
    Modes <- BothModes
    Msgs <- TwoMsgs
    MsgLen = 2
    HighWaterMark = 2
    Users <- NoUsers
    Ops <- SendingOps
    UserOps <- NoOps
    OneLoop = TRUE
    Careful = TRUE
    CanDrop = FALSE
    CanDestroy = FALSE
    MaxPending = 2
    MaxTrace = 4
    MaxCalls = 2
SPECIFICATION Spec
INVARIANTS NoMessageLost
