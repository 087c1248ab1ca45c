-------------------------- MODULE MCClientSession --------------------------
(***************************************************************************)
(* Two threads, one of which awaits tagged runs, and reference definitions *)
(* for SdkResults, over all structures with two fields and all sequences   *)
(* of up to two of them.                                                   *)
(***************************************************************************)
EXTENDS ClientSession, SdkResults

CONSTANTS t1, t2

Raws ==
    [fields : [{"request_id", "status"} -> {Null, Empty, Text}],
     errorType : {Null, Empty, "UnauthorizedError", "NotFoundError", "unheardOf"},
     result : {-1, 0, 1}]

Structures == {raw \in Raws : raw.result = 0 /\ raw.fields.status # Empty}

Stops(raws) == {i \in DOMAIN raws : IsEmpty(FromSdk(raws[i])) \/ FromSdk(raws[i]).error # None}

(* Iterating gives the results before the first that is empty or carries a *)
(* known error, and that error, NotFoundError not excepted.                *)
ASSUME IterateStopsAtFirst ==
    \A raws \in BoundedSeq(Structures, 2) :
        LET before == IF Stops(raws) = {} THEN Len(raws) ELSE Min(Stops(raws)) - 1
            seen == Iterate(raws)
        IN  /\ seen.yielded = [i \in 1 .. before |-> DecodeAll(raws[i].fields)]
            /\ seen.ending =
                  IF before = Len(raws) THEN "more"
                  ELSE IF FromSdk(raws[before + 1]).error = None THEN "end"
                  ELSE raws[before + 1].errorType

(* A known error of Go raises its own class from each method of the        *)
(* scheduler client, and none from those of the receiver client, where     *)
(* only a plain yes counts as a receipt.                                   *)
ASSUME ErrorsRaised ==
    \A raw \in Raws :
        /\ raw.errorType \in DOMAIN KnownErrors =>
              /\ GetRunResult(raw) = Raise(raw.errorType)
              /\ GetRequestMetadata(raw) = Raise(raw.errorType)
              /\ CreateRun(raw) = Raise(raw.errorType)
              /\ CancelRun(raw) = Raise(raw.errorType)
        /\ CompleteRun(raw) = Return(None)
        /\ CheckRun(raw).kind = "returns" /\ (Committed(raw) <=> raw.result = 1)

(* An override is passed on as it is, but for a zero. *)
ASSUME OverridesPassed ==
    \A n \in 0 .. 3 :
        /\ PassedRetries({n}) = {n} <=> n # 0
        /\ PassedDeadline({n}) = {n}
        /\ PassedRetries({}) \cap Nat = {}
=============================================================================
