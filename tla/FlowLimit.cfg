SPECIFICATION FairSpec
CONSTANTS
    Readers = {r1, r2}
    LimitshareSize = 1
    BufSize = 2
    Params <- SmallRate
    MaxBytes = 4
    MaxSeconds = 1
    MaxUpdates = 1
    nil = nil
INVARIANTS
    RateBound
    DeliveredIsPrefix
PROPERTIES
    NoStall
    CancelEnds
