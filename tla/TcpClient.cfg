CONSTANTS
    kInitRetryDelayMs = 1
    kMaxRetryDelayMs = 3
    SlowRounds = FALSE
SPECIFICATION FairSpec
INVARIANTS AssertsHold SocketsOwned OneEffort
PROPERTIES  GetsConnected
CHECK_DEADLOCK FALSE
