SPECIFICATION Spec
CONSTANTS
    alg = alg
    fork = fork
    lone = lone
    zzp = zzp
    xy = xy
    z = z
    zp = zp
    NoError = NoError
    FatalCachingError = FatalCachingError
    TransientCachingError = TransientCachingError
    GlobalError = GlobalError
    CassandraTimeout = CassandraTimeout
    Unauthorized = Unauthorized
    ValueError = ValueError
    Inputs <- MCInputs
    Deps <- MCDeps
    Clients <- MCClients
    Wants <- MCWants
    ErrorClass <- MCErrorClass
    Bases <- MCBases
    Remappings <- MCRemappings
    GlobalDefault = GlobalError
    Thrown <- MCThrown
    SlowClose = {z, zzp}
CHECK_DEADLOCK FALSE
INVARIANT TypeOK
INVARIANT ErrorRooted
INVARIANT ExecutedOnce
INVARIANT WaitsForWork
INVARIANT MissingIsSlow
PROPERTY OutcomeFinal
PROPERTY EveryCallAnswered
