CONSTANTS
    w1 = w1
    w2 = w2
    Threshold = 3
    HalfOpenTimeout = 2
    Workers <- MCWorkers
    MAX_ATTEMPTS = 2
    CacheTTL = 1
    Settings <- MCSettings
    Requests = {r1, r2}
    Capacity = 3
    TokenTicks = 3
    SecondTicks = 2
    MaxLag = 2
    RedisFaults = TRUE
SPECIFICATION GuardsSpec
INVARIANTS
    OpenIsEarned
    NeverOverdrawn
PROPERTIES
    Recovers
    ImplementsDocumentedMachine
    RetryAfterHonoured
