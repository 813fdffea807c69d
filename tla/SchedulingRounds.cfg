CONSTANTS
    Threads = {0, 1, 2, 3}
    NoThread = 1000
    MaxUInt32 = 999
    SyncSets <- MCSyncSets
    MaxLocking = 2
    PastBarriers = FALSE
SPECIFICATION RSpec
INVARIANTS
    InactiveWaitsAtOneBarrier
    SomeThreadActive
    CurrentThreadCanRun
    NoInternalFailure
    SchedulerConsistent
    EveryRoundServesAll
PROPERTIES
    ReleasedTogether
    LockedScheduleStays
