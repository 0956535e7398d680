SPECIFICATION FairSpec
CONSTANTS
    Values = {a, b}
    Nodes = {n1, n2, n3}
    Workers = {w1, w2}
    Waiters = {r1}
    MaxItems = 3
    nil = nil
INVARIANTS
    ExactlyOnceInOrder
    SleepsOnlyWhenIdle
    DrainedBeforeExit
PROPERTIES
    ImplementsFifo
    CloseTerminates
    EventuallyTaken
