SPECIFICATION FairServer
CONSTANTS
    Listeners = {l1}
    Tasks <- Stoppable
    Count = 1
    Conns = {c1, c2}
    Shares = 2
    Handlers = {h1, h2}
    nothing = nothing
CHECK_DEADLOCK FALSE
INVARIANTS
    QuietBeforeClose
    LogsPushedOnce
PROPERTIES
    StopEndsServing
