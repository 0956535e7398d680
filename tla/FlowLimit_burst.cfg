SPECIFICATION Spec
CONSTANTS
    Readers = {r1, r2}
    LimitshareSize = 2
    BufSize = 2
    Params <- TinyBursts
    MaxBytes = 3
    MaxSeconds = 0
    MaxUpdates = 0
    nil = nil
SYMMETRY Symmetry
INVARIANTS
    BurstPerSecond
