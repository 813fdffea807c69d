SPECIFICATION ReSpec
CONSTANTS
    Harts = {h1, h2, h3}
    Counters = {1, 2, 5}
    Modulus = 4
    SCMayFail = TRUE
    MaxAcquire = 9
    MaxRelease = 7
    NoHart = NoHart
INVARIANTS CounterExact CriticalBounded
PROPERTIES OneRequestSuffices Progress
