CONSTANTS
    Timers <- ThreeTimers
    Interval <- LastRepeats
    LastWhen = 2
    EndOfTime = 3
    Careful = TRUE
SPECIFICATION FairSpec
INVARIANTS ArmedInTime OneOwner NoUseAfterDelete RunsOnSchedule
PROPERTIES TimerRuns
