SPECIFICATION FairSpec
CONSTANTS
    MaxUp = 2
    MaxDown = 2
    Domains <- MCDomains
    Host = "host"
    none = none
INVARIANTS
    SendsAreSafe
    SniffCoversRequest
    ReportIsFinal
PROPERTIES
    TearDownEnds
    BlacklistCuts
CHECK_DEADLOCK FALSE
