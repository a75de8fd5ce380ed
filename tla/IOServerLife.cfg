\* Two user timers, one of which may throw.
SPECIFICATION FairSpec
CONSTANTS
    t1 = t1
    t2 = t2
    Timers <- TwoTimers
    PostTimer = post
    Throwing = {t2}
INVARIANTS
    Inv
    ServerAlive
    EarlyTimersEnded
PROPERTIES
    FiniIsFinal
    StopFinishes
    FiniedTimerEnds
\* The system stops when the server is released.
CHECK_DEADLOCK FALSE
