SPECIFICATION Spec
CONSTANTS
    v1 = v1
    c1 = c1
    w1 = w1
    r1 = r1
    None = None
    Jobs = {v1}
    Callers = {c1}
    Workers = {w1}
    Readers = {r1}
    MaxRetry = 1
    BatchSize = 2
    MaxLen = 2
PROPERTIES
    TerminalOnce
CHECK_DEADLOCK FALSE
