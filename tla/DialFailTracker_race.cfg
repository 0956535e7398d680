SPECIFICATION SpecTracker
CONSTANTS
    Callers = {c1, c2}
    Stats = {s1, s2, s3}
    windowTime = 2
    threshold = 2
    dialFailCacheTTL = 1
    blacklistTTL = 2
    maxAttempts = 10
    MaxTime = 4
    MaxCalls = 5
    nil = nil
SYMMETRY Symmetry
CHECK_DEADLOCK FALSE
INVARIANTS
    BlacklistJustified
