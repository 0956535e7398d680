SPECIFICATION Spec
CONSTANTS
    Clients <- MCClients
    Accounts <- MCAccounts
    Binds <- MCBinds
    MaxGreeting = 8
INVARIANTS
    ServedAsAsked
    MisreadWithReason
    NameIsExact
CHECK_DEADLOCK FALSE
