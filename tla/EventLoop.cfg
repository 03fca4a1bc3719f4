CONSTANTS
    t1 = t1
    t2 = t2
    f1 = f1
    f2 = f2
    Threads <- TwoThreads
    Functors <- TwoFunctors
SPECIFICATION FairSpec
INVARIANTS NoLostWakeup
PROPERTIES FunctorsRunInOrder QueuedFunctorRuns QuitStopsLoop
