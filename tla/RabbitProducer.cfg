SPECIFICATION Spec
CONSTANTS
    Pushers = {p1, p2}
    Queues = {accessLog, blacklistLog}
    MaxConn = 2
    PushMaxTime = 3
    MaxFaults = 2
    none = none
INVARIANTS
    ChannelsOfConn
CHECK_DEADLOCK FALSE
