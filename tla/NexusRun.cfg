SPECIFICATION Spec
CONSTANTS
    MaxAttempts = 3
    AckTries = 2
    StartupFailures = {"config", "payload", "validation", "configuration", "httpFatal", "httpOther", "other"}
CHECK_DEADLOCK FALSE
INVARIANTS TypeOK ExitZeroRecorded SuccessHasResult FailureIsFatal HandledStartReported
PROPERTY RunComesToRest
