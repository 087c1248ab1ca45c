SPECIFICATION Spec
CONSTANTS
    MaxAttempts = 1
    AckTries = 1
    i1 = i1
    i2 = i2
    r1 = r1
    r2 = r2
    Inputs = {}
    Recorders = {}
    Settings <- MCSettings
    Payloads <- MCPayloads
CHECK_DEADLOCK FALSE
INVARIANT DecompressedServed
