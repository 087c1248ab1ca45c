--------------------------- MODULE CreateAndAwait ---------------------------
(***************************************************************************)
(* NexusSchedulerAsyncClient.create_and_await                              *)
(* (async_extensions/nexus_scheduler_async_client.py): a call creates a    *)
(* run and awaits its result.  Both happen in one function, which holds a  *)
(* thread of the blocking pool for as long as the run lasts, and which the *)
(* retry policy (async_retry/async_retry_policy.py) executes again if it   *)
(* raises one of its error types: NetworkError or NexusSchedulingError.    *)
(*                                                                         *)
(* Outside the SDK is the scheduler, in which a run ends some time.  A run *)
(* is named by its call and the execution that created it.                 *)
(***************************************************************************)
EXTENDS Naturals, Sequences, FiniteSets

CONSTANTS
    Calls,          \* calls of create_and_await
    Propagate,      \* those with propagate_error
    RetryCount,     \* executions the policy allows
    PoolSize,       \* threading.blocking_pool_max_size
    Troubles        \* what may go wrong besides a failed scheduling

TroubleKinds == {"createNetwork", "createRejected", "callback",
                 "awaitNetwork", "awaitRejected"}

ASSUME CallAssumption ==
    /\ IsFiniteSet(Calls)
    /\ Propagate \subseteq Calls
    /\ RetryCount \in Nat \ {0}
    /\ PoolSize \in Nat \ {0}
    /\ Troubles \subseteq TroubleKinds
    /\ "ClientBuilder" \notin Calls   \* the name of the client's own builder

VARIABLES
    pc,         \* pc[c]: where call c is
    try,        \* try[c]: its execution, from 0 on
    stage,      \* stage[c][t]: the run created by execution t of call c
    abandoned,  \* history: the executions of c that raised with a run created
                \* before they knew how it ended
    raised      \* history: raised[c], the errors its executions raised, in order

vars == <<pc, try, stage, abandoned, raised>>

Tries == 0 .. RetryCount - 1

Working == {"creating", "created", "awaiting"}

Over == {"returned", "empty", "raised"}

(* "other" stands for what no error type is a base of: rejections, and     *)
(* whatever the callback raises.                                           *)
PolicyErrors == {"NetworkError", "NexusSchedulingError", "other"}

TypeOK ==
    /\ pc \in [Calls -> {"idle", "queued", "sleeping"} \cup Working \cup Over]
    /\ try \in [Calls -> 0 .. RetryCount]
    /\ stage \in [Calls -> [Tries -> {"absent", "live", "ended", "SCHEDULING_FAILED"}]]
    /\ abandoned \in [Calls -> SUBSET Tries]
    /\ raised \in [Calls -> Seq(PolicyErrors)]
    /\ \A c \in Calls : pc[c] \in Working => try[c] \in Tries
    /\ Cardinality({c \in Calls : pc[c] \in Working}) <= PoolSize

Init ==
    /\ pc = [c \in Calls |-> "idle"]
    /\ try = [c \in Calls |-> 0]
    /\ stage = [c \in Calls |-> [t \in Tries |-> "absent"]]
    /\ abandoned = [c \in Calls |-> {}]
    /\ raised = [c \in Calls |-> <<>>]

-----------------------------------------------------------------------------
Goto(c, there) == pc' = [pc EXCEPT ![c] = there]

(* The function goes to the queue of the blocking pool. *)
Call(c) ==
    /\ pc[c] = "idle"
    /\ Goto(c, "queued")
    /\ UNCHANGED <<try, stage, abandoned, raised>>

(* Mutant: one worker more than configured. *)
PoolHasThreadMore == Cardinality({c \in Calls : pc[c] \in Working}) <= PoolSize

PoolHasThread == Cardinality({c \in Calls : pc[c] \in Working}) < PoolSize

TakeThread(c) ==
    /\ pc[c] = "queued"
    /\ PoolHasThread
    /\ Goto(c, "creating")
    /\ UNCHANGED <<try, stage, abandoned, raised>>

CreateRun(c) ==
    /\ pc[c] = "creating"
    /\ stage' = [stage EXCEPT ![c][try[c]] = "live"]
    /\ Goto(c, "created")
    /\ UNCHANGED <<try, abandoned, raised>>

Raised(c, e) == raised' = [raised EXCEPT ![c] = Append(@, e)]

(* The error is one the policy retries: it sleeps, without a thread.       *)
Retried(c, e) == Raised(c, e) /\ Goto(c, "sleeping") /\ UNCHANGED <<try, stage>>

(* The error is one it does not know: it passes to the caller. *)
Passed(c) == Raised(c, "other") /\ Goto(c, "raised") /\ UNCHANGED <<try, stage>>

(* The scheduler cannot be reached, or it rejects the run. *)
CreateFails(c) ==
    /\ pc[c] = "creating"
    /\ \/ "createNetwork" \in Troubles /\ Retried(c, "NetworkError")
       \/ "createRejected" \in Troubles /\ Passed(c)
    /\ UNCHANGED abandoned

Abandon(c) == abandoned' = [abandoned EXCEPT ![c] = @ \cup {try[c]}]

(* Mutant: whatever the callback raises is retried. *)
CallbackRetried(c) ==
    /\ pc[c] = "created"
    /\ \/ Goto(c, "awaiting") /\ UNCHANGED <<try, stage, abandoned, raised>>
       \/ "callback" \in Troubles /\ Retried(c, "other") /\ Abandon(c)

(* post_create_callback returns or raises. *)
Callback(c) ==
    /\ pc[c] = "created"
    /\ \/ Goto(c, "awaiting") /\ UNCHANGED <<try, stage, abandoned, raised>>
       \/ "callback" \in Troubles /\ Passed(c) /\ Abandon(c)

AwaitFails(c) ==
    /\ pc[c] = "awaiting"
    /\ \/ "awaitNetwork" \in Troubles /\ Retried(c, "NetworkError")
       \/ "awaitRejected" \in Troubles /\ Passed(c)
    /\ Abandon(c)

Stage(c) == stage[c][try[c]]

(* Mutant: what is awaited is not checked to have ended. *)
AwaitPolls(c) ==
    /\ pc[c] = "awaiting"
    /\ \/ Stage(c) = "ended" /\ Goto(c, "returned") /\ UNCHANGED <<try, stage, abandoned, raised>>
       \/ Stage(c) # "ended" /\ Retried(c, "NexusSchedulingError") /\ UNCHANGED abandoned

(* Mutant: a run that was not scheduled is a result like any other. *)
AwaitAnything(c) ==
    /\ pc[c] = "awaiting"
    /\ Stage(c) \in {"ended", "SCHEDULING_FAILED"}
    /\ Goto(c, "returned")
    /\ UNCHANGED <<try, stage, abandoned, raised>>

(* Mutant: of the ways to end, one is not known to be an end. *)
AwaitEnded(c) ==
    /\ pc[c] = "awaiting"
    /\ Stage(c) = "ended"
    /\ Goto(c, "returned")
    /\ UNCHANGED <<try, stage, abandoned, raised>>

(* The run awaited is over; NexusSchedulingError is raised if it was not   *)
(* even scheduled.                                                         *)
AwaitRun(c) ==
    /\ pc[c] = "awaiting"
    /\ \/ Stage(c) = "ended" /\ Goto(c, "returned") /\ UNCHANGED <<try, stage, abandoned, raised>>
       \/ /\ Stage(c) = "SCHEDULING_FAILED"
          /\ Retried(c, "NexusSchedulingError")
          /\ UNCHANGED abandoned

(* What follows the last execution *)
Exhausted(c) == IF c \in Propagate THEN "raised" ELSE "empty"

(* The delay is over: the next execution, or none is left.  The delay is   *)
(* waited for in both cases.                                               *)
Wake(c) ==
    /\ pc[c] = "sleeping"
    /\ try' = [try EXCEPT ![c] = @ + 1]
    /\ Goto(c, IF try[c] + 1 < RetryCount THEN "queued"
               ELSE Exhausted(c))
    /\ UNCHANGED <<stage, abandoned, raised>>

-----------------------------------------------------------------------------
(* The scheduler *)

RunEnds(c, t) ==
    /\ stage[c][t] = "live"
    /\ \E end \in {"ended", "SCHEDULING_FAILED"} : stage' = [stage EXCEPT ![c][t] = end]
    /\ UNCHANGED <<pc, try, abandoned, raised>>

CallStep(c) ==
    \/ TakeThread(c) \/ CreateRun(c) \/ CreateFails(c) \/ Callback(c)
    \/ AwaitRun(c) \/ AwaitFails(c) \/ Wake(c)

Next ==
    \/ \E c \in Calls : Call(c) \/ CallStep(c)
    \/ \E c \in Calls, t \in Tries : RunEnds(c, t)

(* Threads run and answers come; runs end, if only by their deadline.      *)
(* Nothing forces the awaiting of a run to fail.                           *)
FairStep(c) ==
    \/ TakeThread(c) \/ CreateRun(c) \/ CreateFails(c) \/ Callback(c)
    \/ AwaitRun(c) \/ Wake(c)

Fairness ==
    /\ \A c \in Calls : WF_vars(FairStep(c))
    /\ \A c \in Calls, t \in Tries : WF_vars(RunEnds(c, t))

Spec == Init /\ [][Next]_vars /\ Fairness

-----------------------------------------------------------------------------
(* Safety *)

Awaited(c) == Tries \ abandoned[c]

(* Of the runs that were awaited without an error, all earlier ones have   *)
(* failed to be scheduled when a call creates another, so that no two do   *)
(* the same work: only one that was abandoned can still work, or have      *)
(* ended well, when another exists.                                        *)
AwaitedRescheduledOnlyOnFailure ==
    \A c \in Calls : \A t \in Awaited(c), u \in Tries :
        t < u /\ stage[c][u] # "absent" => stage[c][t] \in {"absent", "SCHEDULING_FAILED"}

(* A call that is over has left no run behind that still works, for which  *)
(* nobody waits any more, except those it abandoned.                       *)
NothingLeftRunning ==
    \A c \in Calls : pc[c] \in Over => \A t \in Awaited(c) : stage[c][t] # "live"

(* A call returns the end of the last run it created, and of those it      *)
(* awaited that one alone was scheduled; a call that raises, or answers    *)
(* nothing, has awaited no run that ended: no result is lost.              *)
ResultIsOfTheRun ==
    \A c \in Calls : pc[c] \in Over =>
        {t \in Awaited(c) : stage[c][t] = "ended"} =
            {t \in {try[c]} : pc[c] = "returned"}

-----------------------------------------------------------------------------
(* A call as one of RetryPolicy: it forks the client's builder, adds       *)
(* NexusSchedulingError to the fork, and without propagate_error has no    *)
(* retry_exhaust_error_type.  Executing is all from the queue of the pool  *)
(* to the end of the run.                                                  *)

(* Did an error pass to the caller? *)
PassedOn(c) == pc[c] = "raised" /\ try[c] < RetryCount

PolicyPc ==
    [c \in Calls |-> IF pc[c] \in {"queued"} \cup Working THEN "executing" ELSE pc[c]]

PolicyTypes ==
    [b \in Calls \cup {"ClientBuilder"} |->
        IF b \in Calls /\ pc[b] # "idle" THEN {"NetworkError", "NexusSchedulingError"}
        ELSE {"NetworkError"}]

PolicyError ==
    [c \in Calls |-> IF pc[c] # "raised" THEN "NoError"
                     ELSE IF PassedOn(c) THEN "other" ELSE "RetryExhausted"]

Policy == INSTANCE RetryPolicy WITH
    Forking <- Calls,
    Extra <- [c \in Calls |-> {"NexusSchedulingError"}],
    RetryCount <- [c \in Calls |-> RetryCount],
    Quiet <- Calls \ Propagate,
    Errors <- PolicyErrors,
    Bases <- [e \in PolicyErrors |-> {e}],
    NetworkError <- "NetworkError", ClientBuilder <- "ClientBuilder",
    CancelledError <- "CancelledError", RetryExhausted <- "RetryExhausted", NoError <- "NoError",
    errorTypes <- PolicyTypes, pc <- PolicyPc, error <- PolicyError, log <- raised

(* What is in between, the queue, the thread, the run and its callback,    *)
(* adds nothing that the policy does not allow: an execution follows only  *)
(* an error the call has asked to retry, so that an exception of the       *)
(* callback, or a rejection, after the run was created reaches the caller  *)
(* at once and does not create another run; and the executions of a call   *)
(* are counted however long it queues between them.                        *)
KeepsPolicy == Policy!Spec
-----------------------------------------------------------------------------
(* Liveness *)

(* Every call ends, also if there are more calls than threads and each of  *)
(* them keeps its thread while its run works.                              *)
EveryCallEnds == \A c \in Calls : pc[c] = "queued" ~> pc[c] \in Over
=============================================================================
