SPECIFICATION FairSpec
CONSTANTS
    Readers = {r1, r2}
    LimitshareSize = 1
    BufSize = 2
    Params <- EitherRate
    MaxBytes = 3
    MaxSeconds = 0
    MaxUpdates = 0
    nil = nil
INVARIANTS
    CopyWithinData
    DeliveredIsPrefix
PROPERTIES
    NoStall
    CancelEnds
