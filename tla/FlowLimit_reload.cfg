SPECIFICATION Spec
CONSTANTS
    Readers = {r1, r2}
    LimitshareSize = 2
    BufSize = 3
    Params <- TwoRates
    MaxBytes = 3
    MaxSeconds = 0
    MaxUpdates = 1
    nil = nil
INVARIANTS
    CopyWithinData
