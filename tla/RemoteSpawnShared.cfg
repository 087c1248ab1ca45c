SPECIFICATION Spec
CONSTANTS
    n1 = n1
    n2 = n2
    a = a
    b = b
    c = c
    t1 = t1
    t2 = t2
    t3 = t3
    t4 = t4
    Nodes = {n1, n2}
    Remotes = {a, b, c}
    Tags = {t1, t2, t3, t4}
    Forks <- MCForks
    TagOf <- SharedTags
    ForceRun = {}
    Detached = {}
    Delayed = {n1}
    LostReplies = {}
    LateRequests = {}
    MaxCrashes = 0
    MaxRuns = 8
CHECK_DEADLOCK FALSE
INVARIANT NoDuplicateRuns
