SPECIFICATION FairSpec
CONSTANTS
    JobOrder <- BackupJobs
    MaxEntries = 2
    MaxBackups = 1
    MaxJobs = 1
    Retention = 0
    Versions = 1
    Alike = 1
    Runs = {r1}
    Drills = {d1}
    FaultSets <- NoFault
    Triggers = {"scheduler"}
PROPERTIES BackupsHappen
CHECK_DEADLOCK FALSE
