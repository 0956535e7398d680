SPECIFICATION SpecTracker
CONSTANTS
    Callers = {c1, c2}
    Stats = {s1, s2, s3}
    windowTime = 2
    threshold = 2
    dialFailCacheTTL = 1
    blacklistTTL = 2
    maxAttempts = 1
    MaxTime = 5
    MaxCalls = 6
    nil = nil
SYMMETRY Symmetry
CHECK_DEADLOCK FALSE
INVARIANTS
    NeverWithoutFailures
    JustifiedOneByOne
