CONSTANTS
    m1 = m1
    m2 = m2
    u1 = u1
    u2 = u2
    None = None
    Modes <- LevelOnly
    Msgs <- TwoMsgs
    MsgLen = 3
    HighWaterMark = 3
    Users <- TwoUsers
    Ops <- ClosingOps
    UserOps <- AllOps
    OneLoop = FALSE
    Careful = TRUE
    CanDrop = TRUE
    CanDestroy = TRUE
    MaxPending = 1
    MaxTrace = 0
    MaxCalls = 2
SPECIFICATION Spec
INVARIANTS StreamIntegrity SendsAreSafe
SYMMETRY Interchangeable
CHECK_DEADLOCK FALSE
