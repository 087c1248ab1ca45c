---------------------------- MODULE RetryPolicy ----------------------------
(***************************************************************************)
(* The retry policies of the clients (clients/fault_tolerance/,            *)
(* async_extensions/async_retry/) and the builder that makes them.  A      *)
(* client keeps one builder and builds a policy from it for every call;    *)
(* calls that need other settings fork the builder, extend its error types *)
(* and build from the fork.  A policy does not copy the list of error      *)
(* types: it shares the list of its builder, which the builder shares with *)
(* its default policy.  with_error_types extends that list in place.       *)
(*                                                                         *)
(* A call executes a function, and again after a delay if it raises one of *)
(* the error types.  Calls are coroutines: they interleave while functions *)
(* run in threads and while delays pass.  The synchronous policy takes the *)
(* same steps, without interleaving.                                       *)
(***************************************************************************)
EXTENDS Naturals, Sequences

CONSTANTS
    Calls,
    Forking,        \* calls that use a fork of the client's builder
    Extra,          \* Extra[c]: what call c gives to with_error_types
    RetryCount,     \* RetryCount[c]: with_retries, or the default
    Quiet,          \* calls without a retry_exhaust_error_type
    Errors,         \* classes the functions raise
    Bases,          \* Bases[e]: the classes an instance of e is an instance of
    NetworkError,   \* the error type of a default policy
    ClientBuilder, CancelledError, RetryExhausted, NoError

ASSUME PolicyAssumption ==
    /\ Forking \subseteq Calls /\ Quiet \subseteq Forking
    /\ Extra \in [Calls -> SUBSET Errors]
    /\ \A c \in Calls \ Forking : Extra[c] = {}
    /\ RetryCount \in [Calls -> Nat]
    /\ NetworkError \in Errors
    /\ Bases \in [Errors -> SUBSET Errors]
    /\ ClientBuilder \notin Calls
    /\ {CancelledError, RetryExhausted, NoError} \cap Errors = {}
    /\ CancelledError # RetryExhausted /\ NoError \notin {CancelledError, RetryExhausted}

VARIABLES
    errorTypes, \* errorTypes[b]: the list of builder b and of all its policies
    pc,         \* pc[c]: where call c is
    try,        \* try[c]: try_number
    error,      \* error[c]: what call c raised
    log         \* history: log[c], the errors of the function of c, in order

vars == <<errorTypes, pc, try, error, log>>

Builders == Calls \cup {ClientBuilder}

Over == {"returned", "empty", "raised"}

TypeOK ==
    /\ errorTypes \in [Builders -> SUBSET Errors]
    /\ pc \in [Calls -> {"idle", "executing", "sleeping"} \cup Over]
    /\ try \in [Calls -> Nat]
    /\ error \in [Calls -> Errors \cup {CancelledError, RetryExhausted, NoError}]
    /\ log \in [Calls -> Seq(Errors)]
    /\ \A c \in Calls : try[c] <= RetryCount[c] /\ Len(log[c]) <= RetryCount[c]

(* A fork has the list of a default policy of its own.  It is there from   *)
(* the start here, since nobody else can see it.                           *)
Init ==
    /\ errorTypes = [b \in Builders |-> {NetworkError}]
    /\ pc = [c \in Calls |-> "idle"]
    /\ try = [c \in Calls |-> 0]
    /\ error = [c \in Calls |-> NoError]
    /\ log = [c \in Calls |-> <<>>]

-----------------------------------------------------------------------------
(* Mutant: a fork keeps the default policy of the builder it comes from. *)
ClientsOwn(c) == ClientBuilder

(* The builder of c, by which its list of error types is known *)
BuilderOf(c) == IF c \in Forking THEN c ELSE ClientBuilder

End(c, fate, e) ==
    /\ pc' = [pc EXCEPT ![c] = fate]
    /\ error' = [error EXCEPT ![c] = e]

(* Mutant: one more execution than retry_count. *)
TryOnceMore(c, n) ==
    /\ try' = [try EXCEPT ![c] = n]
    /\ \/ n <= RetryCount[c] /\ pc' = [pc EXCEPT ![c] = "executing"] /\ UNCHANGED error
       \/ n > RetryCount[c] /\ End(c, "raised", RetryExhausted)

(* _execute(n), up to the call of the function: none is left after         *)
(* retry_count, and then the call raises, or returns None.                 *)
Try(c, n) ==
    /\ try' = [try EXCEPT ![c] = n]
    /\ \/ n < RetryCount[c] /\ pc' = [pc EXCEPT ![c] = "executing"] /\ UNCHANGED error
       \/ n >= RetryCount[c] /\ c \in Quiet /\ End(c, "empty", NoError)
       \/ n >= RetryCount[c] /\ c \notin Quiet /\ End(c, "raised", RetryExhausted)

(* The builder is forked and extended, the policy built and the function   *)
(* called, all before the coroutine suspends.                              *)
Execute(c) ==
    /\ pc[c] = "idle"
    /\ errorTypes' = [errorTypes EXCEPT ![BuilderOf(c)] = @ \cup Extra[c]]
    /\ Try(c, 0)
    /\ UNCHANGED log

FunctionReturns(c) ==
    /\ pc[c] = "executing"
    /\ End(c, "returned", NoError)
    /\ UNCHANGED <<errorTypes, try, log>>

(* isinstance(ex, err_type) for one of the error types, as they are now *)
IsTransient(c, e) == Bases[e] \cap errorTypes[BuilderOf(c)] # {}

FunctionRaises(c) ==
    /\ pc[c] = "executing"
    /\ \E e \in Errors :
          /\ log' = [log EXCEPT ![c] = Append(@, e)]
          /\ \/ IsTransient(c, e) /\ pc' = [pc EXCEPT ![c] = "sleeping"] /\ UNCHANGED error
             \/ ~IsTransient(c, e) /\ End(c, "raised", e)
    /\ UNCHANGED <<errorTypes, try>>

(* The delay after an error is over, also when no execution is left. *)
DelayOver(c) ==
    /\ pc[c] = "sleeping"
    /\ Try(c, try[c] + 1)
    /\ UNCHANGED <<errorTypes, log>>

(* Mutant: a cancellation is an error like any other. *)
CancelRetried(c) ==
    /\ pc[c] \in {"executing", "sleeping"}
    /\ pc' = [pc EXCEPT ![c] = "sleeping"]
    /\ UNCHANGED <<errorTypes, try, error, log>>

(* The task of the call is cancelled.  CancelledError is a BaseException,  *)
(* which the policy catches, but not one of its error types.               *)
Cancel(c) ==
    /\ pc[c] \in {"executing", "sleeping"}
    /\ End(c, "raised", CancelledError)
    /\ UNCHANGED <<errorTypes, try, log>>

Step(c) ==
    \/ FunctionReturns(c)
    \/ FunctionRaises(c)
    \/ DelayOver(c)

Next == \E c \in Calls : Execute(c) \/ Step(c) \/ Cancel(c)

Spec == Init /\ [][Next]_vars

-----------------------------------------------------------------------------
(* Safety *)

(* The error types call c asked for *)
Wanted(c) == {e \in Errors : Bases[e] \cap ({NetworkError} \cup Extra[c]) # {}}

(* A function is executed again only after an error that its own call asked*)
(* to retry: the types another call adds to its fork never reach the       *)
(* client's builder or another fork, though lists are extended in place    *)
(* while calls are under way.                                              *)
RetriedAsAsked ==
    \A c \in Calls : \A k \in 1 .. Len(log[c]) :
        k <= try[c] \/ pc[c] = "sleeping" => log[c][k] \in Wanted(c)

(* The fate of a call says what happened to it: an error of the function   *)
(* passes only if the call did not ask to retry it; a call is given up, by *)
(* an exception or by an empty result, after exactly retry_count           *)
(* executions, all of which failed with errors it asked to retry.          *)
GaveUp(c) == pc[c] = "empty" \/ (pc[c] = "raised" /\ error[c] = RetryExhausted)

FateExplained ==
    \A c \in Calls :
        /\ GaveUp(c) => Len(log[c]) = RetryCount[c] /\ \A k \in 1 .. Len(log[c]) : log[c][k] \in Wanted(c)
        /\ pc[c] = "empty" => c \in Quiet
        /\ error[c] \in Errors => log[c] # <<>> /\ error[c] = log[c][Len(log[c])] /\ error[c] \notin Wanted(c)
=============================================================================
