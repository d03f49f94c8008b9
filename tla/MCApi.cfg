SPECIFICATION Spec
CONSTANTS
    Clients <- MCClients
    Accounts <- MCAccounts
    Scenarios <- MCScenarios
    MaxNew = 1
CHECK_DEADLOCK FALSE
INVARIANTS
    SdkMatchesServer
    ErrorsAreTyped
    CreatorCanRead
