CONSTANTS
    r1 = r1
    r2 = r2
    t1 = t1
    t2 = t2
    Requests <- MCRequests
    Tokens = {t1}
    Costs <- MCCosts
    Limits <- MCLimits
    MaxUse = 3
    ProvisionalCost = 2
    QueueCapacity = 1
    BatchSize = 2
    MaxWriteAttempts = 2
    MaxLogs = 1
    MaxFaults = 2
    MaxEdits = 1
SPECIFICATION FairSpec
PROPERTIES
    WriterStops
    DebtIsStored
CHECK_DEADLOCK FALSE
