SPECIFICATION FairSpec
CONSTANTS
    EnableReplanLoop = TRUE
    QueuedExecution = {TRUE, FALSE}
    JobMaxRetries = 2
    FaultSets = {{"node", "timeout", "crash", "db", "redis", "expiry"}, {"node", "expiry"}}
INVARIANTS
    AnswerIsHonest
PROPERTIES
    Settles
    StatusIsTerminal
    ListenerHearsDone
CHECK_DEADLOCK FALSE
