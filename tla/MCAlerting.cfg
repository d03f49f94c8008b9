SPECIFICATION FairSpec
CONSTANTS
    RuleOrder <- MCRules
    Cycles <- MCCycles
    SloOrder <- MCSlos
    MaxCycles = 2
    Jobs = {"j1", "j2"}
    ListLimit = 50
    MaxIncidents = 6
    MaxRetries = 3
    Settings <- MCSettings
INVARIANTS
    OneOpenIncident
    NotifiedOnce
    FlappingSuppressed
    Reconciled
PROPERTIES
    Announced
    DuplicatesHeal
