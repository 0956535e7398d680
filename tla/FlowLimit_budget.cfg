SPECIFICATION Spec
CONSTANTS
    Readers = {r1, r2}
    LimitshareSize = 2
    BufSize = 2
    Params <- TinyBursts
    MaxBytes = 4
    MaxSeconds = 1
    MaxUpdates = 1
    nil = nil
SYMMETRY Symmetry
INVARIANTS
    RateBound
    DeliveredIsPrefix
