----------------------------- MODULE SdkResults -----------------------------
(***************************************************************************)
(* What the clients make of the structures that Go returns, and hand to    *)
(* it.  A char* field is NULL, empty or a text; the texts that matter are  *)
(* the names of Go error types, some of which Python does not know.        *)
(***************************************************************************)
EXTENDS Integers, Sequences, SequencesExt

Null == "NULL"
Empty == ""
Text == "text"
None == "None"

(* The Go error types that PySdkType.error() knows, by the Python class    *)
(* each becomes                                                            *)
KnownErrors ==
    [SdkErr |-> "SdkError",
     UnauthorizedError |-> "UnauthorizedError",
     BadRequestError |-> "BadRequestError",
     NotFoundError |-> "NotFoundError",
     NetworkError |-> "NetworkError"]

(* x.decode() if x else None: an empty text is lost. *)
Decode(x) == IF x \in {Null, Empty} THEN None ELSE x

(* An undecoded char* field: bytes, which equal no string. *)
Bytes(x) == IF x = Null THEN None ELSE "bytes"

(* PySdkType.error(): what it does not know is no error. *)
ErrorOf(type) ==
    IF type \in DOMAIN KnownErrors THEN KnownErrors[type] ELSE None
-----------------------------------------------------------------------------
(* Structures: the fields of a result, by name, its error message among    *)
(* them, and its error type                                                *)

DecodeAll(fields) == [f \in DOMAIN fields |-> Decode(fields[f])]

(* RunResult, AlgorithmRun and RequestMetadata: a structure is always      *)
(* there, so only emptiness makes a RunResult None.  So with StringResult, *)
(* whose text nobody reads.                                                *)
FromSdk(raw) == [fields |-> DecodeAll(raw.fields), error |-> ErrorOf(Decode(raw.errorType)),
                 type |-> Decode(raw.errorType)]

IsEmpty(result) ==
    /\ \A f \in DOMAIN result.fields : result.fields[f] = None
    /\ result.type = None

(* ErrorResponse and BoolResult keep the bytes they are given. *)
ReceiverError(raw) == ErrorOf(Bytes(raw.errorType))

(* BoolResult and has_succeeded: -1 stands for None *)
Truth(code) == IF code = -1 THEN None ELSE IF code = 0 THEN "False" ELSE "True"
-----------------------------------------------------------------------------
(* The methods: what the caller gets *)

Return(value) == [kind |-> "returns", value |-> value]
Raise(class) == [kind |-> "raises", value |-> class]

Answer(result) == IF result.error = None THEN Return(result.fields) ELSE Raise(result.error)

(* get_run_result, await_run: an empty result has no error() to ask for. *)
GetRunResult(raw) ==
    IF IsEmpty(FromSdk(raw)) THEN Raise("AttributeError") ELSE Answer(FromSdk(raw))

(* get_request_metadata: the error is compared with the class NotFoundError*)
(* of which it is an instance, so the branch that returns None is dead.    *)
GetRequestMetadata(raw) == Answer(FromSdk(raw))

CreateRun(raw) == Answer(FromSdk(raw))

(* A cancelled run has no result. *)
CancelRun(raw) == IF FromSdk(raw).error = None THEN Return(None) ELSE Raise(FromSdk(raw).error)

CompleteRun(raw) ==
    IF ReceiverError(raw) = None THEN Return(None) ELSE Raise(ReceiverError(raw))

CheckRun(raw) ==
    IF ReceiverError(raw) = None
    THEN Return(Truth(raw.result))
    ELSE Raise(ReceiverError(raw))

(* check_run_committed: anything but a plain yes is "not yet" *)
Committed(raw) == CheckRun(raw) = Return("True")

(* _iterate_results: one result after another until an empty one, which is *)
(* the end, or an error, which is raised when the caller asks for it.      *)
Iterate(raws) ==
    FoldLeft(LAMBDA seen, raw :
                 LET result == FromSdk(raw)
                 IN  IF seen.ending # "more" THEN seen
                     ELSE IF IsEmpty(result) THEN [seen EXCEPT !.ending = "end"]
                     ELSE IF result.error # None THEN [seen EXCEPT !.ending = result.error]
                     ELSE [seen EXCEPT !.yielded = Append(@, result.fields)],
             [yielded |-> << >>, ending |-> "more"],
             raws)
-----------------------------------------------------------------------------
(* SdkCustomRunConfiguration.create: what is passed on of an override, as  *)
(* the set of its values: {} if there is none.  A zero is taken for none.  *)

IsGiven(override) == ~(override \subseteq {0})
PassedDeadline(override) == IF IsGiven(override) THEN override ELSE {0}
PassedRetries(override) == IF IsGiven(override) THEN override ELSE {-1}
=============================================================================
