CONSTANTS
    Threads = {0, 1, 2}
    NoThread = 1000
    MaxUInt32 = 999
    SyncSets <- OnePair
    MaxLocking = 1
    PastBarriers = TRUE
SPECIFICATION RSpec
INVARIANTS
    EveryRoundServesAll
