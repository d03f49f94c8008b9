SPECIFICATION Spec
CONSTANTS
    Jobs = {j1, j2}
    Stations = {s1, s2}
    MaxDate = 3
    PageSize = 2
    SourceSets <- MCSourceSets
    Miners = {w1, w2}
    Kinds = {1, 2}
    MaxDay = 3
    Windows = {1, 2}
    MinSupport = 1
    MinConfidence = 20
    MaxRuns = 3
    MineSets <- MCMineSets
    Threads = {t1, t2}
    MaxVersion = 2
    MaxExports = 3
    MaxClock = 4
    MaxSamples = 4
    Depths = {1, 3}
    PoolSize = 1
    JobDuration = 3
    TargetWait = 4
    DepthThreshold = 1
    DepthSustained = 3
    BusySustained = 2
    MaxGap = 2
    Retention = 3
INVARIANTS
    CursorCovers
    StoredOnce
    CacheCoherent
    ParametersOnRecord
    ManifestSound
    VerdictIsRight
PROPERTIES
    LoneRunRepairs
CHECK_DEADLOCK FALSE
