------------------------------ MODULE NexusRun ------------------------------
(***************************************************************************)
(* The life of one run: a process activates the Nexus (core/app_core.py),  *)
(* which bootstraps, runs the algorithm, saves the result, reports the run *)
(* to the receiver and records telemetry, or gives up with an exit code.   *)
(* The scheduler starts the process again unless it exits with 0.          *)
(*                                                                         *)
(* Outside the SDK, and modelled from how it is used: the supervisor that  *)
(* restarts the process, and the receiver, which takes what is submitted   *)
(* at some later time, or never, and keeps the record of the run.          *)
(***************************************************************************)
EXTENDS Naturals

CONSTANTS
    MaxAttempts,        \* times the supervisor starts the process
    AckTries,           \* polls for the receipt of a submission
    StartupFailures     \* the ways the start may fail that are explored

(* The ways a start fails, by the handler of activate() that they reach.   *)
(* "config": the static configuration does not validate, in __aenter__ of  *)
(* the bootstrapper; "payload": the payload does not parse, and there is   *)
(* no bootstrap payload type; the others are raised by bootstrap().        *)
StartupKinds == {"config", "payload", "validation", "configuration",
                 "httpFatal", "httpOther", "other"}

(* What the task of the algorithm ends with: no exception, or one that is  *)
(* an instance of TransientNexusError, of FatalNexusError, or of neither   *)
Endings == {"result", "TransientNexusError", "FatalNexusError", "Exception"}

ASSUME BoundsAssumption ==
    /\ MaxAttempts \in Nat \ {0}
    /\ AckTries \in Nat \ {0}
    /\ StartupFailures \subseteq StartupKinds

VARIABLES
    pc,         \* where activate() is
    attempt,    \* the process now running, or the last one
    exitCode,   \* of the last process: "zero", "one", or "none" while it runs
    killed,     \* did it stop by a signal?
    ending,     \* ending[n]: how the algorithm, or the start, of process n ended
    acks,       \* polls made for the receipt
    blobs,      \* processes that have saved a result
    sent,       \* history: submissions made
    mailbox,    \* submissions the receiver has yet to take
    record      \* what the receiver has recorded of the run

vars == <<pc, attempt, exitCode, killed, ending, acks, blobs, sent, mailbox, record>>

Submissions == [kind : {"success", "failure"}, by : 1 .. MaxAttempts]

TypeOK ==
    /\ pc \in {"down", "starting", "running", "saving", "submitting",
               "acking", "telemetry", "exited"}
    /\ attempt \in 0 .. MaxAttempts
    /\ exitCode \in {"none", "zero", "one"}
    /\ killed \in BOOLEAN
    /\ ending \in [1 .. MaxAttempts -> {"none"} \cup StartupKinds \cup Endings]
    /\ acks \in 0 .. AckTries
    /\ blobs \subseteq 1 .. MaxAttempts
    /\ sent \subseteq Submissions
    /\ mailbox \subseteq Submissions
    /\ record \in {"none", "success", "failure"}

Init ==
    /\ pc = "down"
    /\ attempt = 0
    /\ exitCode = "none"
    /\ killed = FALSE
    /\ ending = [n \in 1 .. MaxAttempts |-> "none"]
    /\ acks = 0
    /\ blobs = {}
    /\ sent = {}
    /\ mailbox = {}
    /\ record = "none"

-----------------------------------------------------------------------------
(* The supervisor *)

(* The first start, and a restart after any exit code but 0 *)
Start ==
    /\ pc = "down" \/ (pc = "exited" /\ exitCode = "one")
    /\ attempt < MaxAttempts
    /\ pc' = "starting"
    /\ attempt' = attempt + 1
    /\ exitCode' = "none"
    /\ killed' = FALSE
    /\ acks' = 0
    /\ UNCHANGED <<ending, blobs, sent, mailbox, record>>

Exit(code) ==
    /\ pc' = "exited"
    /\ exitCode' = code

(* SIGTERM: graceful_shutdown cancels the tasks and stops the loop, so the *)
(* main coroutine does not complete and the process exits with an error.   *)
(* The end of the machine has the same effect.                             *)
Kill ==
    /\ pc \notin {"down", "exited"}
    /\ Exit("one")
    /\ killed' = TRUE
    /\ UNCHANGED <<attempt, ending, acks, blobs, sent, mailbox, record>>

-----------------------------------------------------------------------------
(* The start: activate() up to the algorithm *)

(* Mutant: HTTP errors are all taken for retryable ones. *)
CompletesUnlessHttp(kind) == kind \in {"validation", "configuration"}

(* Failures after which the run is completed with the error and the        *)
(* process exits with 0; after any other it exits with 1.                  *)
CompletesRun(kind) == kind \in {"validation", "configuration", "httpFatal"}

StartFails ==
    /\ pc = "starting"
    /\ \E kind \in StartupFailures :
          /\ ending' = [ending EXCEPT ![attempt] = kind]
          /\ \/ CompletesRun(kind) /\ pc' = "submitting" /\ UNCHANGED exitCode
             \/ ~CompletesRun(kind) /\ Exit("one")
    /\ UNCHANGED <<attempt, killed, acks, blobs, sent, mailbox, record>>

StartSucceeds ==
    /\ pc = "starting"
    /\ pc' = "running"
    /\ UNCHANGED <<attempt, exitCode, killed, ending, acks, blobs, sent, mailbox, record>>

(* The algorithm cannot be constructed, or its context does not open:      *)
(* there is no handler, whatever the class of the exception.               *)
ActivationFails ==
    /\ pc = "running"
    /\ Exit("one")
    /\ UNCHANGED <<attempt, killed, ending, acks, blobs, sent, mailbox, record>>

-----------------------------------------------------------------------------
(* The algorithm, and _submit_result *)

(* Mutant: every error of the algorithm is final. *)
NeverTransient(end) == FALSE

(* is_transient_exception, where it is not None *)
IsTransient(end) == end = "TransientNexusError"

(* Mutant: the result is reported without having been saved. *)
AlgorithmEndsUnsaved ==
    /\ pc = "running"
    /\ \E end \in Endings :
          /\ ending' = [ending EXCEPT ![attempt] = end]
          /\ \/ ~IsTransient(end) /\ pc' = "submitting" /\ UNCHANGED exitCode
             \/ IsTransient(end) /\ Exit("one")
    /\ UNCHANGED <<attempt, killed, acks, blobs, sent, mailbox, record>>

AlgorithmEnds ==
    /\ pc = "running"
    /\ \E end \in Endings :
          /\ ending' = [ending EXCEPT ![attempt] = end]
          /\ \/ end = "result" /\ pc' = "saving" /\ UNCHANGED exitCode
             \/ end # "result" /\ IsTransient(end) /\ Exit("one")
             \/ end # "result" /\ ~IsTransient(end) /\ pc' = "submitting" /\ UNCHANGED exitCode
    /\ UNCHANGED <<attempt, killed, acks, blobs, sent, mailbox, record>>

Save ==
    /\ pc = "saving"
    /\ blobs' = blobs \cup {attempt}
    /\ pc' = "submitting"
    /\ UNCHANGED <<attempt, exitCode, killed, ending, acks, sent, mailbox, record>>

(* The storage still fails after 10 seconds of retries. *)
SaveFails ==
    /\ pc = "saving"
    /\ Exit("one")
    /\ UNCHANGED <<attempt, killed, ending, acks, blobs, sent, mailbox, record>>

Verdict == [kind |-> IF ending[attempt] = "result" THEN "success" ELSE "failure",
            by |-> attempt]

(* NexusReceiverClient.complete_run.  The error of a submission that does  *)
(* not arrive is not seen: client_error_type holds bytes, error() compares *)
(* it with strings and finds none, so nothing is raised and nothing is     *)
(* retried.  The next thing that is done is to poll for the receipt.       *)
Submit ==
    /\ pc = "submitting"
    /\ sent' = sent \cup {Verdict}
    /\ mailbox' \in {mailbox, mailbox \cup {Verdict}}
    /\ pc' = "acking"
    /\ UNCHANGED <<attempt, exitCode, killed, ending, acks, blobs, record>>

(* check_run_committed: the run is recorded.  After a failed start the     *)
(* process exits with 0, otherwise telemetry is still to do.               *)
Acknowledged ==
    /\ pc = "acking"
    /\ record # "none"
    /\ \/ ending[attempt] \in StartupKinds /\ Exit("zero")
       \/ ending[attempt] \notin StartupKinds /\ pc' = "telemetry" /\ UNCHANGED exitCode
    /\ UNCHANGED <<attempt, killed, ending, acks, blobs, sent, mailbox, record>>

(* Mutant: exhausted polls raise nothing, the process goes on. *)
NotAcknowledgedIgnored ==
    /\ pc = "acking"
    /\ acks' = acks + 1
    /\ \/ acks + 1 < AckTries /\ UNCHANGED pc
       \/ acks + 1 >= AckTries /\ pc' = "telemetry"
    /\ UNCHANGED <<attempt, exitCode, killed, ending, blobs, sent, mailbox, record>>

(* Mutant: the polls are not counted. *)
NotAcknowledgedForever ==
    /\ pc = "acking"
    /\ acks' = 1 - acks
    /\ UNCHANGED <<pc, attempt, exitCode, killed, ending, blobs, sent, mailbox, record>>

(* Mutant: one poll more than the policy allows. *)
NotAcknowledgedOnceMore ==
    /\ pc = "acking"
    /\ acks' = acks + 1
    /\ \/ acks + 1 <= AckTries /\ UNCHANGED <<pc, exitCode>>
       \/ acks + 1 > AckTries /\ Exit("one")
    /\ UNCHANGED <<attempt, killed, ending, blobs, sent, mailbox, record>>

(* The run is not recorded, or the receiver cannot be asked: the poll is   *)
(* repeated, and the last one raises NexusClientRuntimeError, which no     *)
(* handler of activate() is there to catch.                                *)
NotAcknowledged ==
    /\ pc = "acking"
    /\ acks' = acks + 1
    /\ \/ acks + 1 < AckTries /\ UNCHANGED <<pc, exitCode>>
       \/ acks + 1 >= AckTries /\ Exit("one")
    /\ UNCHANGED <<attempt, killed, ending, blobs, sent, mailbox, record>>

(* Telemetry, closing the stores and the loggers: what the tasks raise is  *)
(* logged; what setting them up or closing the stores raises is not caught.*)
Finish ==
    /\ pc = "telemetry"
    /\ \E code \in {"zero", "one"} : Exit(code)
    /\ UNCHANGED <<attempt, killed, ending, acks, blobs, sent, mailbox, record>>

-----------------------------------------------------------------------------
(* The receiver takes submissions in any order; of two that differ, either *)
(* may be the one that stays.                                              *)
Receive ==
    \E m \in mailbox :
        /\ mailbox' = mailbox \ {m}
        /\ record' \in {m.kind} \cup ({record} \ {"none"})
        /\ UNCHANGED <<pc, attempt, exitCode, killed, ending, acks, blobs, sent>>

ProcessStep ==
    \/ StartFails \/ StartSucceeds \/ ActivationFails \/ AlgorithmEnds
    \/ Save \/ SaveFails \/ Submit \/ Acknowledged \/ NotAcknowledged \/ Finish

Next == Start \/ Kill \/ ProcessStep \/ Receive

(* The code of the algorithm and the calls it makes come to an end; the    *)
(* supervisor restarts what it is to restart.                              *)
Spec == Init /\ [][Next]_vars /\ WF_vars(ProcessStep) /\ WF_vars(Start)
-----------------------------------------------------------------------------
(* Safety *)

(* A process that tells the scheduler to leave the run alone has seen the  *)
(* receiver record it: no run ends unaccounted for, whichever way the      *)
(* process takes to exit code 0 and whatever earlier processes left behind.*)
ExitZeroRecorded == exitCode = "zero" => record # "none"

(* A run recorded as a success has its result in the store: the result is  *)
(* saved before the success is submitted, in the same process.             *)
SuccessHasResult ==
    record = "success" => \E n \in blobs : ending[n] = "result"

(* Only a process that failed for good reports a failure: one that failed  *)
(* transiently leaves the run open for its next start, even if it is the   *)
(* last one, and one that has a result reports no failure.                 *)
FailureIsFatal ==
    \A m \in sent : m.kind = "failure" =>
        ending[m.by] \in {"FatalNexusError", "Exception", "validation", "configuration", "httpFatal"}

(* A failed start that a handler of activate() takes for final is reported *)
(* before the process exits, unless it was killed: the scheduler does not  *)
(* start it over and over.                                                 *)
HandledStartReported ==
    pc = "exited" /\ ~killed
        /\ ending[attempt] \in {"validation", "configuration", "httpFatal"} =>
            \E m \in sent : m.by = attempt /\ m.kind = "failure"

(* The same holds of every start that can never succeed. *)
FatalStartReported ==
    pc = "exited" /\ ~killed /\ ending[attempt] \in StartupKinds \ {"httpOther", "other"} =>
        \E m \in sent : m.by = attempt /\ m.kind = "failure"

-----------------------------------------------------------------------------
(* Liveness *)

(* No process polls for its receipt for ever, and the run comes to rest:   *)
(* it is left alone after exit code 0, or its restarts are used up.        *)
RunComesToRest ==
    <>[](pc = "exited" /\ (exitCode = "zero" \/ attempt = MaxAttempts))
=============================================================================
