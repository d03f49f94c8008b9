SPECIFICATION Spec
CONSTANTS
    EnableReplanLoop = TRUE
    QueuedExecution = {TRUE}
    JobMaxRetries = 2
    FaultSets = {{"timeout"}}
INVARIANTS
    NeverStuck
CHECK_DEADLOCK FALSE
