SPECIFICATION Spec
CONSTANTS
    u1 = u1
    u2 = u2
    w1 = w1
    l2 = l2
    l1 = l1
    Users = {u1, u2}
    Watchers = {w1}
    Listeners = {l1, l2}
    UserOf <- MCUserOf
    Last = 2
    Buffer = 1
    MaxPerUser = 1
    MaxNotices = 1
    RedisLoses = FALSE
    TasksFail = TRUE
    Environments <- MCEnvironments
INVARIANTS
    CompletionNotMissed
    SlotsReturned
    SeenInOrder
    ReaderStopsFirst
    NothingLeftOpen
PROPERTY
    WatcherIsTold
