SPECIFICATION Spec
CONSTANTS
    EnableReplanLoop = TRUE
    QueuedExecution = {TRUE}
    JobMaxRetries = 2
    FaultSets = {{"crash"}}
INVARIANTS
    CrashIsResumed
CHECK_DEADLOCK FALSE
