SPECIFICATION Spec
CONSTANTS
    alg = alg
    fork = fork
    lone = lone
    zzp = zzp
    xy = xy
    z = z
    zp = zp
    NoError = NoError
    FatalCachingError = FatalCachingError
    TransientCachingError = TransientCachingError
    GlobalError = GlobalError
    CassandraTimeout = CassandraTimeout
    Unauthorized = Unauthorized
    ValueError = ValueError
    Inputs <- ChainInputs
    Deps <- ChainDeps
    Clients <- ChainClients
    Wants <- ChainWants
    ErrorClass <- MCErrorClass
    Bases <- MCBases
    Remappings <- MCRemappings
    GlobalDefault = GlobalError
    Thrown <- MCThrown
    SlowClose = {z, zzp}
CHECK_DEADLOCK FALSE
INVARIANT ResultsComplete
