SPECIFICATION AuditLogSpec
CONSTANTS
    e1 = e1
    e2 = e2
    e3 = e3
    Events = {e1, e2, e3}
    LockedEvents = {e1, e2}
    MaxAttempts = 2
    BatchSize = 2
    MaxSeq = 6
INVARIANTS
    TypeOK
    ChainIntact
    RecordedOnce
    NoFalseAlarm
    VerdictIsGenuine
PROPERTIES
    RecordReturns
    RefinesAppendOnlyLog
CHECK_DEADLOCK FALSE
