SPECIFICATION FairSpec
CONSTANTS
    v1 = v1
    c1 = c1
    c2 = c2
    w1 = w1
    w2 = w2
    r1 = r1
    None = None
    Jobs = {v1}
    Callers = {c1, c2}
    Workers = {w1, w2}
    Readers = {r1}
    MaxRetry = 1
    BatchSize = 2
    MaxLen = 3
INVARIANTS
    VerdictSound
PROPERTIES
    VerdictFinal
    ScannedOnce
    RunsSettle
CHECK_DEADLOCK FALSE
