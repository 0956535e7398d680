SPECIFICATION Spec
CONSTANTS
    Clients <- PlainClients
    Accounts <- MCAccounts
    Binds <- MCBinds
    MaxGreeting = 8
INVARIANTS
    ReportedUnderHost
CHECK_DEADLOCK FALSE
