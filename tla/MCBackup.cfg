SPECIFICATION Spec
CONSTANTS
    JobOrder <- BackupJobs
    MaxEntries = 2
    MaxBackups = 3
    MaxJobs = 3
    Retention = 0
    Versions = 3
    Alike = 2
    Runs = {r1, r2}
    Drills = {d1, d2}
    FaultSets <- EachFault
    Triggers = {"scheduler", "operator"}
INVARIANTS Restorable DrillSound
PROPERTIES RowOutlivesFile PurgeKeepsOne
SYMMETRY Symmetric
CHECK_DEADLOCK FALSE
