SPECIFICATION Spec
CONSTANTS
    c1 = c1
    quiet = quiet
    Calls = {c1, quiet}
    Propagate = {c1}
    RetryCount = 3
    PoolSize = 1
    Troubles = {"createNetwork", "createRejected", "callback", "awaitNetwork", "awaitRejected"}
CHECK_DEADLOCK FALSE
INVARIANTS TypeOK AwaitedRescheduledOnlyOnFailure NothingLeftRunning ResultIsOfTheRun
PROPERTIES KeepsPolicy EveryCallEnds
