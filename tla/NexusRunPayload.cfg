SPECIFICATION Spec
CONSTANTS
    MaxAttempts = 1
    AckTries = 2
    StartupFailures = {"payload"}
CHECK_DEADLOCK FALSE
INVARIANT FatalStartReported
