CONSTANTS
    N = 3
    MaxTime = 3
SPECIFICATION FairSpec
INVARIANTS
    TypeOK
    NoLostWakeup
    ExitsLast
PROPERTIES
    TimeIsStable
    ImplementsBarrier
    NextSlotReturns
    TimerTerminates
