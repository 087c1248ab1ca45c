--------------------------- MODULE MCRetryPolicy ---------------------------
(***************************************************************************)
(* A call as all methods of the clients make it, one as create_and_await   *)
(* makes it, without propagating errors, one as the wait for a receipt     *)
(* makes it, and one of a policy with no retries, which never executes.    *)
(* One class of errors is a base class of another.                         *)
(***************************************************************************)
EXTENDS RetryPolicy, TLC

CONSTANTS plain, create, acknowledge, never,
          SchedulingError, NotCommitted, Timeout

MCErrors == {NetworkError, SchedulingError, NotCommitted, Timeout}
MCExtra == (plain :> {}) @@ (create :> {SchedulingError}) @@ (acknowledge :> {NotCommitted})
           @@ (never :> {})
MCRetryCount == (plain :> 2) @@ (create :> 2) @@ (acknowledge :> 3) @@ (never :> 0)
MCBases == [e \in MCErrors |-> IF e = Timeout THEN {Timeout, NetworkError} ELSE {e}]
=============================================================================
