------------------------------ MODULE ErrorMap ------------------------------
(***************************************************************************)
(* How the input cache decides the class of the error it raises: the       *)
(* configured list of remappings (exceptions/error_map.py) and the rule    *)
(* that caching errors keep their class (InputCache._resolve_exc_type).    *)
(* An exception is represented by its class.                               *)
(***************************************************************************)
EXTENDS Naturals, Sequences

CONSTANTS
    ErrorClass,             \* exception classes
    Bases,                  \* the classes an instance of each class is an instance of
    Remappings,             \* the entries scoped to InputCache, in configuration order
    GlobalDefault,          \* runtime.exceptions.defaults.global_default
    FatalCachingError,
    TransientCachingError

CachingErrors == {FatalCachingError, TransientCachingError}

IsInstance(e, class) == class \in Bases[e]

(* NexusErrorMap.map_exception: an empty list of errors matches anything. *)
Matches(entry, e) ==
    \/ entry.errors = {}
    \/ \E source \in entry.errors : IsInstance(e, source)

Matching(e) == {n \in 1 .. Len(Remappings) : Matches(Remappings[n], e)}

(* NexusErrorMapCollection.map_error: the first entry that matches decides. *)
MapError(e) ==
    IF Matching(e) = {}
    THEN GlobalDefault
    ELSE Remappings[CHOOSE n \in Matching(e) : \A m \in Matching(e) : n <= m].target

(* Mutant: caching errors are remapped like any other error. *)
RemapAlways(e) == MapError(e)

(* InputCache._resolve_exc_type *)
ResolveExcType(e) ==
    IF IsInstance(e, FatalCachingError) THEN FatalCachingError
    ELSE IF IsInstance(e, TransientCachingError) THEN TransientCachingError
    ELSE MapError(e)

(***************************************************************************)
(* Python's class hierarchy, and the configuration the SDK ships: every    *)
(* target is a caching error and the last entry, with an empty list,       *)
(* catches what the others leave (settings.toml, lines 71-112).            *)
(***************************************************************************)
ASSUME ErrorClassAssumption ==
    /\ CachingErrors \subseteq ErrorClass
    /\ FatalCachingError # TransientCachingError
    /\ Bases \in [ErrorClass -> SUBSET ErrorClass]
    /\ \A e \in ErrorClass : e \in Bases[e]
    /\ FatalCachingError \notin Bases[TransientCachingError]

ASSUME RemappingsAssumption ==
    /\ Remappings \in Seq([errors : SUBSET ErrorClass, target : CachingErrors])
    /\ \/ \E n \in 1 .. Len(Remappings) : Remappings[n].errors = {}
       \/ GlobalDefault \in CachingErrors
=============================================================================
