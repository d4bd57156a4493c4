CONSTANTS
    r1 = r1
    r2 = r2
    t1 = t1
    t2 = t2
    Requests <- MCRequests
    Tokens <- MCTokens
    Costs <- MCCosts
    Limits <- MCLimits
    MaxUse = 3
    ProvisionalCost = 2
    QueueCapacity = 1
    BatchSize = 2
    MaxWriteAttempts = 2
    MaxLogs = 1
    MaxFaults = 1
    MaxEdits = 1
SPECIFICATION Spec
INVARIANTS
    TypeOK
    HeldExactly
    ReservationsExact
    TrackedExactly
    NothingStranded
PROPERTIES
    AdmissionSound
    ImplementsLedger
CHECK_DEADLOCK FALSE
SYMMETRY Symmetry
