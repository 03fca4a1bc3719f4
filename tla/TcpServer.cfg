CONSTANTS
    MaxThreads = 2
    MaxConns = 3
    MaxFds = 2
    Patient = TRUE
SPECIFICATION FairSpec
INVARIANTS AssertsHold OneKeeper LoopsUsable MasksAgree
PROPERTIES PeersServed DownIsDestroyed DestructorReturns
CHECK_DEADLOCK FALSE
