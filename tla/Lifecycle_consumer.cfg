SPECIFICATION FairServer
CONSTANTS
    Listeners = {l1}
    Tasks <- StartIpv6
    Count = 1
    Conns = {c1}
    Shares = 2
    Handlers = {h1}
    nothing = nothing
CHECK_DEADLOCK FALSE
PROPERTIES
    StopReturns
