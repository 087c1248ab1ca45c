SPECIFICATION Spec
CONSTANTS
    plain = plain
    create = create
    acknowledge = acknowledge
    never = never
    NetworkError = NetworkError
    SchedulingError = SchedulingError
    NotCommitted = NotCommitted
    Timeout = Timeout
    ClientBuilder = ClientBuilder
    CancelledError = CancelledError
    RetryExhausted = RetryExhausted
    NoError = NoError
    Calls = {plain, create, acknowledge, never}
    Forking = {create, acknowledge}
    Quiet = {create}
    Errors <- MCErrors
    Extra <- MCExtra
    RetryCount <- MCRetryCount
    Bases <- MCBases
CHECK_DEADLOCK FALSE
INVARIANTS TypeOK RetriedAsAsked FateExplained
