SPECIFICATION DSpec
CONSTANTS
    Threads = {0, 1}
    NoThread = 1000
    MaxUInt32 = 999
    SyncSets <- MCSyncSets
    MaxLocking = 1
    MaxRequests = 2
    MaxNesting = 2
INVARIANTS
    ServesAlone
    NestedNeverWaits
    NoLostWakeup
    DispatchNeverFails
PROPERTIES
    TakesTurns
    AllThreadsFinish
