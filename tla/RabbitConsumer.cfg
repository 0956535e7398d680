SPECIFICATION FairSpec
CONSTANTS
    Channels = 2
    MaxConn = 1
    Msgs = {m1}
    MaxReTry = 2
    Routed = FALSE
    MaxFaults = 1
    MaxGen = 2
    null = null
INVARIANTS
    ErrorsAreHeard
PROPERTIES
    ErrorReconnects
    EventuallyHandled
CHECK_DEADLOCK FALSE
