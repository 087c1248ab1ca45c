---------------------------- MODULE NexusProcess ----------------------------
(***************************************************************************)
(* The process of a run in detail: how the bootstrapper (core/             *)
(* app_bootstrap.py) configures itself, reads and morphs the payload and   *)
(* loads the algorithm, and how activate() (core/app_core.py) records      *)
(* payload, inputs and user telemetry in tasks of its own.  Everything a   *)
(* process holds is lost when it stops; the supervisor starts it again as  *)
(* in NexusRun, which this module implements.                              *)
(***************************************************************************)
EXTENDS Naturals, Sequences

CONSTANTS
    MaxAttempts,    \* times the supervisor starts the process
    AckTries,       \* polls for the receipt of a submission
    Inputs,         \* the inputs the algorithm has read
    Recorders,      \* the user telemetry recorders given to on_complete()
    Settings,       \* the configurations that are explored
    Payloads        \* the documents at the payload URI that are explored

Modes == {"off", "on_failure", "always"}    \* [runtime.payload.serialization_mode]

Configurations ==
    [bootstrapType : BOOLEAN,   \* is there a bootstrap payload type?
     mode : Modes,
     customModel : BOOLEAN,     \* is there a configuration model of the user's?
     inputs : BOOLEAN,          \* [telemetry.input] enabled
     user : BOOLEAN]            \* [telemetry.user] enabled

PayloadTypes == {"bootstrap", "runtime"}

(* The document, by what CompressedPayload makes of it: not an envelope;   *)
(* an envelope that can be opened; one that names no function or is not in *)
(* base64; one whose decompression function raises.  data: the types that  *)
(* the payload itself fits; raw: those the document as it is fits.         *)
Forms == {"plain", "envelope", "badEnvelope", "corrupt"}
Documents == [form : Forms, data : SUBSET PayloadTypes, raw : SUBSET PayloadTypes]

ASSUME ProcessAssumption ==
    /\ MaxAttempts \in Nat \ {0}
    /\ AckTries \in Nat \ {0}
    /\ Settings \subseteq Configurations
    /\ Payloads \subseteq Documents
    /\ \A p \in Payloads : p.form = "plain" => p.raw = p.data

VARIABLES
    settings,       \* the configuration of the run
    payload,        \* the document at its payload URI
    pc,             \* where activate() is
    attempt, exitCode, killed, ending, acks, blobs, sent, mailbox, record,  \* as in NexusRun
    served,         \* what the bound payload was parsed from
    ready,          \* the tasks that wait for the event loop, the next one to run first
    payloadTask,    \* the task that records the payload
    inputTask,      \* inputTask[i]: the task that records input i
    recorderTask    \* recorderTask[r]: the task of user telemetry recorder r

runVars == <<attempt, killed, acks, blobs, sent, mailbox, record>>
startVars == <<settings, payload, ready, served>>
taskVars == <<payloadTask, inputTask, recorderTask>>
vars == <<pc, exitCode, ending, runVars, startVars, taskVars>>

Starting == {"entering", "binding", "fetching", "resolving", "injecting"}
Activating == {"activating", "opening", "waiting"}
Telemetry == {"inputs", "recording", "closing", "unwinding"}
Activated == {"running", "saving"} \cup Telemetry

(* The tasks of the process that the order of its start depends on: the    *)
(* one of activate(), the recorder's of the payload, the algorithm's.      *)
Tasks == {"main", "payload", "algorithm"}

StartupKinds == {"config", "payload", "validation", "configuration",
                 "httpFatal", "httpOther", "other"}
Endings == {"result", "TransientCachingError", "FatalCachingError",
            "TransientNexusError", "FatalNexusError", "Exception"}
TaskStates == {"none", "pending", "stored", "nothing", "failed", "cancelled"}

Submissions == [kind : {"success", "failure"}, by : 1 .. MaxAttempts]

TypeOK ==
    /\ settings \in Settings
    /\ payload \in Payloads
    /\ pc \in {"down", "submitting", "acking", "exited"} \cup Starting \cup Activating \cup Activated
    /\ attempt \in 0 .. MaxAttempts
    /\ exitCode \in {"none", "zero", "one"}
    /\ killed \in BOOLEAN
    /\ ending \in [1 .. MaxAttempts -> {"none"} \cup StartupKinds \cup Endings]
    /\ acks \in 0 .. AckTries
    /\ blobs \subseteq 1 .. MaxAttempts
    /\ sent \subseteq Submissions
    /\ mailbox \subseteq Submissions
    /\ record \in {"none", "success", "failure"}
    /\ ready \in Seq(Tasks)
    /\ served \in {"none", "data", "raw", "rejected"}
    /\ payloadTask \in TaskStates
    /\ inputTask \in [Inputs -> TaskStates]
    /\ recorderTask \in [Recorders -> TaskStates]

(* What a process holds before it begins *)
Fresh ==
    /\ ready' = <<>>
    /\ served' = "none"
    /\ payloadTask' = "none"
    /\ inputTask' = [i \in Inputs |-> "none"]
    /\ recorderTask' = [r \in Recorders |-> "none"]

Init ==
    /\ settings \in Settings
    /\ payload \in Payloads
    /\ pc = "down"
    /\ attempt = 0
    /\ exitCode = "none"
    /\ killed = FALSE
    /\ ending = [n \in 1 .. MaxAttempts |-> "none"]
    /\ acks = 0
    /\ blobs = {} /\ sent = {} /\ mailbox = {} /\ record = "none"
    /\ ready = <<>>
    /\ served = "none"
    /\ payloadTask = "none"
    /\ inputTask = [i \in Inputs |-> "none"]
    /\ recorderTask = [r \in Recorders |-> "none"]
-----------------------------------------------------------------------------
(* The supervisor, and the ends of a process *)

Start ==
    /\ pc = "down" \/ (pc = "exited" /\ exitCode = "one")
    /\ attempt < MaxAttempts
    /\ pc' = "entering"
    /\ attempt' = attempt + 1
    /\ exitCode' = "none"
    /\ killed' = FALSE
    /\ acks' = 0
    /\ Fresh
    /\ UNCHANGED <<settings, payload, ending, blobs, sent, mailbox, record>>

Cancelled(task) == IF task = "pending" THEN "cancelled" ELSE task

(* The event loop cancels the tasks that are left when the main coroutine  *)
(* ends, in whichever way.                                                 *)
Exit(code) ==
    /\ pc' = "exited"
    /\ exitCode' = code
    /\ payloadTask' = Cancelled(payloadTask)
    /\ inputTask' = [i \in Inputs |-> Cancelled(inputTask[i])]
    /\ recorderTask' = [r \in Recorders |-> Cancelled(recorderTask[r])]

Goto(label) ==
    /\ pc' = label
    /\ UNCHANGED exitCode

Kill ==
    /\ pc \notin {"down", "exited"}
    /\ Exit("one")
    /\ killed' = TRUE
    /\ UNCHANGED <<attempt, ending, acks, blobs, sent, mailbox, record, startVars>>
-----------------------------------------------------------------------------
(* The start: activate() up to the algorithm *)

CompletesRun(kind) == kind \in {"validation", "configuration", "httpFatal"}

(* The handlers of activate() around bootstrap(); "config" is raised       *)
(* before them.  The caller says what happens to "served".                 *)
FailStart(kind) ==
    /\ ending' = [ending EXCEPT ![attempt] = kind]
    /\ \/ CompletesRun(kind) /\ Goto("submitting") /\ UNCHANGED taskVars
       \/ ~CompletesRun(kind) /\ Exit("one")
    /\ UNCHANGED <<runVars, settings, payload, ready>>

FailWithin(label, kinds) ==
    /\ pc = label
    /\ \E kind \in kinds : FailStart(kind)
    /\ UNCHANGED served

(* load(), then __aenter__ of the bootstrapper: the shipped settings, those*)
(* of the project and the "provided" extension, then the validators.       *)
Enter ==
    /\ pc = "entering"
    /\ Goto("binding")
    /\ UNCHANGED <<ending, runVars, startVars, taskVars>>

(* The first part of bootstrap(): stores, serializers, the input cache,    *)
(* modules, enrichers and data sockets.                                    *)
BindServices ==
    /\ pc = "binding"
    /\ Goto("fetching")
    /\ UNCHANGED <<ending, runVars, startVars, taskVars>>

(* The type the payload is read into first *)
FirstType == IF settings.bootstrapType THEN "bootstrap" ELSE "runtime"

(* Mutant: the envelope is parsed. *)
ParsesDocument == FirstType \in payload.raw

(* _try_parse: what is parsed is the decompressed data. *)
Parses == FirstType \in payload.data

(* What decompress() raises of an envelope it cannot open: a startup error *)
(* of the SDK, or whatever the decompression function raises.              *)
OpeningFails ==
    /\ pc = "fetching"
    /\ \/ payload.form = "badEnvelope" /\ FailStart("configuration")
       \/ payload.form = "corrupt" /\ FailStart("other")
    /\ UNCHANGED served

(* The payload does not parse into the first type.  Without a bootstrap    *)
(* type, the message of the startup error cannot be made, and an           *)
(* AttributeError is raised in its place.                                  *)
ParsingFails ==
    /\ pc = "fetching"
    /\ payload.form \in {"plain", "envelope"}
    /\ ~Parses
    /\ FailStart(IF settings.bootstrapType THEN "configuration" ELSE "payload")
    /\ served' = "rejected"

(* AlgorithmPayloadReader.__aenter__; what it keeps for morph() is the     *)
(* document as it arrived.                                                 *)
Fetch ==
    /\ pc = "fetching"
    /\ payload.form \in {"plain", "envelope"}
    /\ Parses
    /\ served' = "data"
    /\ Goto("resolving")
    /\ UNCHANGED <<ending, runVars, settings, payload, ready, taskVars>>

(* morph(): the kept document is parsed into the type of the algorithm. *)
Morphs == "runtime" \in payload.raw

MorphFails ==
    /\ pc = "resolving"
    /\ settings.bootstrapType
    /\ ~Morphs
    /\ FailStart("configuration")
    /\ served' = "rejected"

(* Only successfully read payloads get as far as the recorder, so mode     *)
(* "on_failure" records nothing.                                           *)
RecordsPayload == settings.mode = "always"

(* The second part of bootstrap(): the class of the algorithm, the payload *)
(* morphed, the clients of the user's, and a task to record the payload.   *)
(* Nothing awaits that task; it stands at the end of the loop's queue.     *)
Resolve ==
    /\ pc = "resolving"
    /\ settings.bootstrapType => Morphs
    /\ served' = IF settings.bootstrapType THEN "raw" ELSE "data"
    /\ \/ RecordsPayload /\ payloadTask' = "pending" /\ ready' = Append(ready, "payload")
       \/ ~RecordsPayload /\ UNCHANGED <<payloadTask, ready>>
    /\ Goto("injecting")
    /\ UNCHANGED <<ending, runVars, settings, payload, inputTask, recorderTask>>

(* The rest of bootstrap(): the receiver and the scheduler client, and the *)
(* configuration model.                                                    *)
Inject ==
    /\ pc = "injecting"
    /\ Goto("activating")
    /\ UNCHANGED <<ending, runVars, startVars, taskVars>>

(* load() wraps whatever dynaconf raises, __aenter__ what the validators   *)
(* raise; nothing around them handles the startup error they raise.        *)
EnteringFails == FailWithin("entering", {"config"})

(* The factories of app_dependencies.py raise startup errors for what they *)
(* cannot locate or construct; settings that do not fit the model, and     *)
(* modules that cannot be imported, raise something else.                  *)
BindingFails == FailWithin("binding", {"configuration", "other"})

(* The request for the document, with the error of its status *)
FetchingFails == FailWithin("fetching", {"httpFatal", "httpOther", "other"})

(* The resolver and the factories are code of the user, which may raise    *)
(* anything; that of the factories becomes a startup error.                *)
ResolvingFails ==
    FailWithin("resolving", {"validation", "configuration", "httpFatal", "httpOther", "other"})

(* A configuration model of the user's may raise anything, when the task   *)
(* that records the payload exists already.                                *)
InjectingFails ==
    /\ settings.customModel
    /\ FailWithin("injecting", {"validation", "configuration", "httpFatal", "httpOther", "other"})

StartFails ==
    EnteringFails \/ BindingFails \/ FetchingFails \/ ResolvingFails \/ InjectingFails

-----------------------------------------------------------------------------
(* From the bootstrap to the algorithm.  The event loop runs one task at a *)
(* time, until it suspends; a task that is created or woken goes to the    *)
(* end of the queue, and the head is the next to run.                      *)

(* The task of activate() waits for something. *)
MainSuspended == pc \in {"opening", "waiting", "submitting", "acking"}

RunsNext(task) ==
    /\ MainSuspended
    /\ ready # <<>>
    /\ Head(ready) = task

(* Mutant: the recorder saves in a thread, and suspends while it does. *)
RecordPayloadInThread ==
    /\ \/ RunsNext("payload") /\ ready' = Tail(ready) /\ UNCHANGED payloadTask
       \/ /\ MainSuspended \/ pc \in Activated
          /\ payloadTask = "pending"
          /\ \A n \in 1 .. Len(ready) : ready[n] # "payload"
          /\ payloadTask' \in {"stored", "failed"}
          /\ UNCHANGED ready
    /\ UNCHANGED <<pc, exitCode, ending, runVars, settings, payload, served, inputTask, recorderTask>>

(* UserTelemetryRecorder.record, as PayloadTelemetry, which computes and   *)
(* saves without suspending.  What it raises is never looked at.           *)
RecordPayload ==
    /\ RunsNext("payload")
    /\ ready' = Tail(ready)
    /\ payloadTask' \in {"stored", "failed"}
    /\ UNCHANGED <<pc, exitCode, ending, runVars, settings, payload, served, inputTask, recorderTask>>

(* The task of the algorithm is created behind the tasks in queue, and     *)
(* activate() waits for it.                                                *)
CreateRunTask(queue) ==
    /\ ready' = Append(queue, "algorithm")
    /\ Goto("waiting")

(* The algorithm is constructed and its context opened, which is code of   *)
(* the user and may suspend: once or more often makes no difference.       *)
Activate ==
    /\ pc = "activating"
    /\ \/ CreateRunTask(ready)
       \/ Goto("opening") /\ UNCHANGED ready
    /\ UNCHANGED <<ending, runVars, settings, payload, served, taskVars>>

(* What the context waited for has come. *)
Wake ==
    /\ pc = "opening"
    /\ \A n \in 1 .. Len(ready) : ready[n] # "main"
    /\ ready' = Append(ready, "main")
    /\ UNCHANGED <<pc, exitCode, ending, runVars, settings, payload, served, taskVars>>

Opened ==
    /\ pc = "opening"
    /\ RunsNext("main")
    /\ CreateRunTask(Tail(ready))
    /\ UNCHANGED <<ending, runVars, settings, payload, served, taskVars>>

ActivationFails ==
    /\ pc = "activating" \/ (pc = "opening" /\ RunsNext("main"))
    /\ Exit("one")
    /\ UNCHANGED <<ending, runVars, startVars>>

(* The run method of the algorithm begins. *)
AlgorithmBegins ==
    /\ pc = "waiting"
    /\ RunsNext("algorithm")
    /\ ready' = Tail(ready)
    /\ Goto("running")
    /\ UNCHANGED <<ending, runVars, settings, payload, served, taskVars>>
-----------------------------------------------------------------------------
(* The algorithm, _submit_result, complete_run *)

(* Mutant: the class of the error is compared, not its bases. *)
IsTransientClass(end) == end = "TransientNexusError"

(* isinstance(exception, TransientNexusError) *)
IsTransient(end) == end \in {"TransientNexusError", "TransientCachingError"}

AlgorithmEnds ==
    /\ pc = "running"
    /\ \E end \in Endings :
          /\ ending' = [ending EXCEPT ![attempt] = end]
          /\ \/ end = "result" /\ Goto("saving") /\ UNCHANGED taskVars
             \/ IsTransient(end) /\ Exit("one")
             \/ end # "result" /\ ~IsTransient(end) /\ Goto("submitting") /\ UNCHANGED taskVars
    /\ UNCHANGED <<runVars, startVars>>

Save ==
    /\ pc = "saving"
    /\ \/ blobs' = blobs \cup {attempt} /\ Goto("submitting") /\ UNCHANGED taskVars
       \/ UNCHANGED blobs /\ Exit("one")
    /\ UNCHANGED <<ending, attempt, killed, acks, sent, mailbox, record, startVars>>

Verdict == [kind |-> IF ending[attempt] = "result" THEN "success" ELSE "failure",
            by |-> attempt]

Submit ==
    /\ pc = "submitting"
    /\ sent' = sent \cup {Verdict}
    /\ mailbox' \in {mailbox, mailbox \cup {Verdict}}
    /\ Goto("acking")
    /\ UNCHANGED <<ending, attempt, killed, acks, blobs, record, startVars, taskVars>>

(* After a failed start the process is done; otherwise the inputs are      *)
(* recorded, each in a task of its own, also those of a failed algorithm.  *)
Acknowledged ==
    /\ pc = "acking"
    /\ record # "none"
    /\ \/ ending[attempt] \in StartupKinds /\ Exit("zero")
       \/ /\ ending[attempt] \notin StartupKinds
          /\ Goto("inputs")
          /\ inputTask' = [i \in Inputs |-> IF settings.inputs THEN "pending" ELSE "none"]
          /\ UNCHANGED <<payloadTask, recorderTask>>
    /\ UNCHANGED <<ending, runVars, startVars>>

(* Mutant: exhausted polls raise nothing, the inputs are recorded. *)
NotAcknowledgedIgnored ==
    /\ pc = "acking"
    /\ acks' = acks + 1
    /\ \/ acks + 1 < AckTries /\ Goto("acking") /\ UNCHANGED inputTask
       \/ acks + 1 >= AckTries /\ Goto("inputs") /\ inputTask' = [i \in Inputs |-> "pending"]
    /\ UNCHANGED <<ending, attempt, killed, blobs, sent, mailbox, record, startVars,
                   payloadTask, recorderTask>>

NotAcknowledged ==
    /\ pc = "acking"
    /\ acks' = acks + 1
    /\ \/ acks + 1 < AckTries /\ Goto("acking") /\ UNCHANGED taskVars
       \/ acks + 1 >= AckTries /\ Exit("one")
    /\ UNCHANGED <<ending, attempt, killed, blobs, sent, mailbox, record, startVars>>
-----------------------------------------------------------------------------
(* Telemetry *)

(* TelemetryRecorder.record._record: stored, skipped because no serializer *)
(* knows the type, or failed; one step of the loop.                        *)
RecordInput(i) ==
    /\ pc = "inputs"
    /\ inputTask[i] = "pending"
    /\ \E outcome \in {"stored", "nothing", "failed"} :
          inputTask' = [inputTask EXCEPT ![i] = outcome]
    /\ UNCHANGED <<pc, exitCode, ending, runVars, startVars, payloadTask, recorderTask>>

InputsDone == \A i \in Inputs : inputTask[i] # "pending"

RecordsUser == ending[attempt] = "result" /\ settings.user

(* The recorders are constructed and their tasks created.  A constructor   *)
(* may raise when some of the tasks exist; the contexts close then.        *)
CreateRecorders ==
    /\ pc = "inputs"
    /\ InputsDone
    /\ \/ /\ RecordsUser
          /\ Goto("recording")
          /\ recorderTask' = [r \in Recorders |-> "pending"]
          /\ UNCHANGED <<payloadTask, inputTask>>
       \/ /\ RecordsUser
          /\ Goto("unwinding")
          /\ \E made \in (SUBSET Recorders) \ {Recorders} :
                recorderTask' = [r \in Recorders |-> IF r \in made THEN "pending" ELSE "none"]
          /\ UNCHANGED <<payloadTask, inputTask>>
       \/ ~RecordsUser /\ Goto("closing") /\ UNCHANGED taskVars
    /\ UNCHANGED <<ending, runVars, startVars>>

(* UserTelemetryRecorder.record: _compute may take its time; the chunks it *)
(* returns are then stored one after another without giving up the loop.   *)
RecorderEnds(r) ==
    /\ pc \in {"recording", "closing", "unwinding"}
    /\ recorderTask[r] = "pending"
    /\ \E outcome \in {"stored", "nothing", "failed"} :
          recorderTask' = [recorderTask EXCEPT ![r] = outcome]
    /\ UNCHANGED <<pc, exitCode, ending, runVars, startVars, payloadTask, inputTask>>

(* Mutant: the first recorder that is done ends the wait. *)
WaitFirst == \E r \in Recorders : recorderTask[r] # "pending"

(* asyncio.wait(on_complete_tasks, return_when=FIRST_EXCEPTION) *)
WaitOver ==
    \/ \A r \in Recorders : recorderTask[r] # "pending"
    \/ \E r \in Recorders : recorderTask[r] = "failed"

RecordersDone ==
    /\ pc = "recording"
    /\ WaitOver
    /\ Goto("closing")
    /\ UNCHANGED <<ending, runVars, startVars, taskVars>>

(* The contexts of the recorder and of the algorithm close, and so do the  *)
(* stores; what that raises is not caught.                                 *)
Close ==
    /\ \/ pc = "closing" /\ \E code \in {"zero", "one"} : Exit(code)
       \/ pc = "unwinding" /\ Exit("one")
    /\ UNCHANGED <<ending, runVars, startVars>>
-----------------------------------------------------------------------------
Receive ==
    \E m \in mailbox :
        /\ mailbox' = mailbox \ {m}
        /\ record' \in {m.kind} \cup ({record} \ {"none"})
        /\ UNCHANGED <<pc, exitCode, ending, attempt, killed, acks, blobs, sent, startVars, taskVars>>

Bootstrap ==
    \/ Enter \/ BindServices \/ OpeningFails \/ ParsingFails \/ Fetch
    \/ MorphFails \/ Resolve \/ Inject \/ StartFails

Execute ==
    \/ RecordPayload \/ Activate \/ Wake \/ Opened \/ ActivationFails \/ AlgorithmBegins
    \/ AlgorithmEnds \/ Save \/ Submit \/ Acknowledged \/ NotAcknowledged

Record ==
    \/ \E i \in Inputs : RecordInput(i)
    \/ CreateRecorders
    \/ \E r \in Recorders : RecorderEnds(r)
    \/ RecordersDone \/ Close

ProcessStep == Bootstrap \/ Execute \/ Record

Next == Start \/ Kill \/ ProcessStep \/ Receive

(* As in NexusRun; the tasks of the process come to an end as well. *)
Spec == Init /\ [][Next]_vars /\ WF_vars(ProcessStep) /\ WF_vars(Start)
-----------------------------------------------------------------------------
(* What NexusRun says of a run *)

AbstractPc(label) ==
    CASE label \in Starting -> "starting"
      [] label \in Activating \cup {"running"} -> "running"
      [] label \in Telemetry -> "telemetry"
      [] OTHER -> label

(* The class that is_transient_exception looks for *)
BaseClass(end) ==
    CASE end = "TransientCachingError" -> "TransientNexusError"
      [] end = "FatalCachingError" -> "FatalNexusError"
      [] OTHER -> end

Run == INSTANCE NexusRun WITH
    StartupFailures <- StartupKinds,
    pc <- AbstractPc(pc),
    ending <- [n \in 1 .. MaxAttempts |-> BaseClass(ending[n])]

(* The process with its payload, its configuration and its telemetry tasks *)
(* is one of the processes NexusRun describes: whatever the tasks do, the  *)
(* run is reported, retried and brought to rest as stated there.           *)
ImplementsRun == Run!Spec
-----------------------------------------------------------------------------
(* Safety *)

(* With mode "always", no algorithm begins before the payload it works on  *)
(* is in the store, or storing it has failed, whether its context suspends *)
(* or not: nothing awaits the task that stores the payload, which is first *)
(* only by its place in the queue of the loop and because it does not      *)
(* suspend.  What crashes an algorithm can be looked at.                   *)
PayloadStoredFirst ==
    pc \in Activated /\ settings.mode = "always" => payloadTask \in {"stored", "failed"}

(* The payload that is bound was parsed from the payload itself and not    *)
(* from the envelope it came in, and only a payload that does not fit is   *)
(* rejected.                                                               *)
DecompressedServed ==
    /\ served = "raw" => payload.form = "plain"
    /\ served = "rejected" => ~(PayloadTypes \subseteq payload.data)

(* The same for every payload that is not both compressed and morphed. *)
PayloadJudged ==
    ~(payload.form = "envelope" /\ settings.bootstrapType) => DecompressedServed

(* A process that leaves with 0 after its algorithm has tried to record    *)
(* each input, and each recorder of a successful run, except those that    *)
(* were cut off; none is cut off unless another recorder failed.           *)
TelemetryComplete ==
    exitCode = "zero" /\ ending[attempt] \in Endings =>
        /\ settings.inputs => \A i \in Inputs : inputTask[i] \in {"stored", "nothing", "failed"}
        /\ RecordsUser => \A r \in Recorders :
              \/ recorderTask[r] \in {"stored", "nothing", "failed"}
              \/ recorderTask[r] = "cancelled" /\ \E q \in Recorders : recorderTask[q] = "failed"

(* Telemetry of inputs and of recorders is stored for runs that the        *)
(* receiver has recorded, and user telemetry only by a process whose       *)
(* result is in the store.                                                 *)
TelemetryAfterReceipt ==
    /\ \A i \in Inputs : inputTask[i] = "stored" => record # "none"
    /\ \A r \in Recorders : recorderTask[r] = "stored" => record # "none" /\ attempt \in blobs
=============================================================================
