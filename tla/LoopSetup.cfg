CONSTANTS
    MaxThreads = 1
    MaxConns = 1
    MaxFds = 1
    Patient = TRUE
SPECIFICATION Spec
INVARIANT LoopsListen
CHECK_DEADLOCK FALSE
