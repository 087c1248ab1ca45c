SPECIFICATION Spec
CONSTANTS
    t1 = t1
    t2 = t2
    Threads = {t1, t2}
    Awaiters = {t2}
    MaxTokens = 3
    MaxCompleted = 3
    Tags = 2
    Share = 1
CHECK_DEADLOCK FALSE
INVARIANTS ClientReady SessionInSync GoodTokenSent ReporterKept
PROPERTY EveryCallEnds
