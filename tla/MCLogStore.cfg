SPECIFICATION Spec
CONSTANTS
    Batches <- MCBatches
    OldLogs <- MCOldLogs
    OldOrphans <- MCOldOrphans
    OldCleared <- MCOldCleared
    MetaValues = {"m1", "m2", "m3"}
    ChunkValues = {"a", "b", "c"}
    NoMeta = "none"
    KeepCount = 1
    Retention = 1
    HourLength = 2
    ClearBatch = 1
    DeleteBatch = 1
    SweepBatch = 1
    ScanFactor = 2
    MigrateBatch = 1
    MaxNow = 4
    MaxLogs = 5
    MaxFaults = 1
INVARIANTS
    TypeOK
    ReadsBack
    TotalsAreExact
PROPERTIES
    NewestBodiesKept
    UnlistedChunksCollected
CHECK_DEADLOCK FALSE
