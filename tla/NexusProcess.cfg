SPECIFICATION Spec
CONSTANTS
    MaxAttempts = 2
    AckTries = 2
    i1 = i1
    i2 = i2
    r1 = r1
    r2 = r2
    Inputs = {i1, i2}
    Recorders = {r1, r2}
    Settings <- MCSettings
    Payloads <- MCPayloads
CHECK_DEADLOCK FALSE
INVARIANTS PayloadStoredFirst PayloadJudged TelemetryComplete TelemetryAfterReceipt
PROPERTY ImplementsRun
