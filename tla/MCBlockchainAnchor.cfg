SPECIFICATION FairSpec
CONSTANTS
    d1 = d1
    d2 = d2
    w1 = w1
    w2 = w2
    None = None
    Documents = {d1}
    Workers = {w1, w2}
    MaxRetry = 2
    MaxFaults = 3
INVARIANTS
    ConfirmedOnLedger
    LedgerVerdictJust
PROPERTIES
    OutboxDelivers
CHECK_DEADLOCK FALSE
