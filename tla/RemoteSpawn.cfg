SPECIFICATION Spec
CONSTANTS
    n1 = n1
    n2 = n2
    a = a
    b = b
    c = c
    t1 = t1
    t2 = t2
    t3 = t3
    t4 = t4
    Nodes = {n1, n2}
    Remotes = {a, b, c}
    Tags = {t1, t2, t3, t4}
    Forks <- MCForks
    TagOf <- OwnTags
    ForceRun = {b}
    Detached = {n2}
    Delayed = {n1}
    LostReplies = {b}
    LateRequests = {c}
    MaxCrashes = 2
    MaxRuns = 3
CHECK_DEADLOCK FALSE
INVARIANTS NoDuplicateRuns PayloadsHaveRuns AllForksScheduled TasksOfTheNode
PROPERTY NodesEnd
