SPECIFICATION PipelineSpec
CONSTANTS
    s1 = s1
    s2 = s2
    admin = admin
    officer = officer
    outsider = outsider
    Slots = {s1, s2}
    Accounts = {admin, officer, outsider}
    Admins = {admin}
    Granted <- MCGranted
    MaxConns = 2
    Limits <- MCLimits
    MaxRows = 4
    AskedSize = 1
    DefaultPageSize = 2
    MaxPageSize = 2
    IntMax = 7
    Traffic <- MCTraffic
INVARIANTS
    ServedWereAdmitted
    OutsiderLearnsNothing
    
    CountersExpire
    PagerMissesNothing
PROPERTY
    RequestsAnswered
CHECK_DEADLOCK FALSE
