------------------------- MODULE NexusProcessProofs -------------------------
(***************************************************************************)
(* Proofs about NexusProcess, for every number of restarts and polls, and  *)
(* all sets of inputs, recorders, configurations and payloads.             *)
(***************************************************************************)
EXTENDS NexusProcess, SequenceTheorems, TLAPS

(* A queue of one task grows. *)
LEMMA AppendToOne ==
    ASSUME NEW S, NEW a \in S, NEW b \in S
    PROVE  Append(<<a>>, b) = <<a, b>>
<1>1. <<a>> \in Seq(S) /\ Len(<<a>>) = 1 /\ <<a>>[1] = a
  OBVIOUS
<1>2. Append(<<a>>, b) \in Seq(S) /\ Len(Append(<<a>>, b)) = 2
  BY <1>1
<1>3. Append(<<a>>, b)[1] = a /\ Append(<<a>>, b)[2] = b
  BY <1>1
<1>4. <<a, b>> \in Seq(S) /\ Len(<<a, b>>) = 2 /\ <<a, b>>[1] = a /\ <<a, b>>[2] = b
  OBVIOUS
<1>5. \A i \in 1 .. Len(Append(<<a>>, b)) : Append(<<a>>, b)[i] = <<a, b>>[i]
  <2>1. \A i \in 1 .. 2 : i = 1 \/ i = 2
    OBVIOUS
  <2> QED
    BY <1>2, <1>3, <1>4, <2>1, Zenon
<1> QED
  BY <1>2, <1>4, <1>5, SeqEqual

(* Queues of up to two tasks *)
LEMMA ShortQueues ==
    ASSUME NEW a \in Tasks, NEW b \in Tasks
    PROVE  /\ Append(<<>>, a) = <<a>>
           /\ Append(<<a>>, b) = <<a, b>>
           /\ <<a>> # <<>> /\ Head(<<a>>) = a /\ Tail(<<a>>) = <<>>
           /\ <<a, b>> # <<>> /\ Head(<<a, b>>) = a /\ Tail(<<a, b>>) = <<b>>
<1>1. <<a>> \in Seq(Tasks) /\ Len(<<a>>) = 1
  OBVIOUS
<1>2. Tail(<<a>>) \in Seq(Tasks) /\ Len(Tail(<<a>>)) = 0
  BY <1>1
<1>3. Tail(<<a>>) = <<>>
  BY <1>2
<1>4. Append(<<>>, a) = <<a>>
  OBVIOUS
<1>5. Append(<<a>>, b) = <<a, b>>
  BY AppendToOne
<1>6. <<a>> # <<>> /\ Head(<<a>>) = a
  OBVIOUS
<1>7. <<a, b>> # <<>> /\ Head(<<a, b>>) = a
  OBVIOUS
<1>8. Tail(<<a, b>>) = <<b>>
  OBVIOUS
<1> QED
  BY <1>3, <1>4, <1>5, <1>6, <1>7, <1>8, Zenon

USE ProcessAssumption DEF ProcessAssumption

(* A process is under way, or was, once the supervisor has started one. *)
Started == pc # "down" => attempt \in 1 .. MaxAttempts

(* A process with no poll left has exited. *)
PollsLeft == pc # "exited" => acks < AckTries

TypeInv == TypeOK /\ Started /\ PollsLeft

(* A cancelled task is in a state of tasks. *)
LEMMA CancelledType ==
    ASSUME NEW task \in TaskStates
    PROVE  Cancelled(task) \in TaskStates
BY DEF Cancelled, TaskStates

(* What a task that comes or goes leaves of the queue. *)
LEMMA QueueType ==
    ASSUME NEW queue \in Seq(Tasks)
    PROVE  /\ \A task \in Tasks : Append(queue, task) \in Seq(Tasks)
           /\ queue # <<>> => Tail(queue) \in Seq(Tasks)
OBVIOUS

(* What the end of a process leaves of its tasks. *)
LEMMA ExitType ==
    ASSUME TypeOK, NEW code \in {"zero", "one"}, Exit(code)
    PROVE  /\ pc' = "exited"
           /\ exitCode' \in {"zero", "one"}
           /\ payloadTask' \in TaskStates
           /\ inputTask' \in [Inputs -> TaskStates]
           /\ recorderTask' \in [Recorders -> TaskStates]
BY CancelledType DEF Exit, TypeOK

(* The failures of a start keep the types. *)
LEMMA FailType ==
    ASSUME TypeInv, pc \in Starting, NEW kind \in StartupKinds, FailStart(kind),
           served' \in {"none", "data", "raw", "rejected"}
    PROVE  TypeInv'
<1>1. CASE CompletesRun(kind)
  BY <1>1 DEF FailStart, Goto, TypeInv, TypeOK, Started, PollsLeft, Starting,
              runVars, taskVars, CompletesRun
<1>2. CASE ~CompletesRun(kind)
  <2>1. Exit("one")
    BY <1>2 DEF FailStart
  <2> QED
    BY <2>1, ExitType DEF FailStart, TypeInv, TypeOK, Started, PollsLeft, Starting, runVars
<1> QED
  BY <1>1, <1>2

LEMMA TypeInit == Init => TypeInv
<1> SUFFICES ASSUME Init
             PROVE  TypeInv
  OBVIOUS
<1> USE DEF Init
<1>1. attempt \in 0 .. MaxAttempts /\ acks \in 0 .. AckTries /\ acks < AckTries
  OBVIOUS
<1>2. killed \in BOOLEAN
  BY Zenon
<1>3. ready \in Seq(Tasks) /\ payloadTask \in TaskStates
  BY DEF TaskStates
<1>4. inputTask \in [Inputs -> TaskStates] /\ recorderTask \in [Recorders -> TaskStates]
  BY DEF TaskStates
<1> QED
  BY <1>1, <1>2, <1>3, <1>4 DEF TypeInv, TypeOK, Started, PollsLeft

LEMMA BootstrapType == TypeInv /\ Bootstrap => TypeInv'
<1> SUFFICES ASSUME TypeInv, Bootstrap
             PROVE  TypeInv'
  OBVIOUS
<1> USE DEF TypeInv, Started, PollsLeft, Starting
<1>1. CASE Enter
  BY <1>1 DEF Enter, TypeOK, Goto, runVars, startVars, taskVars
<1>2. CASE BindServices
  BY <1>2 DEF BindServices, TypeOK, Goto, runVars, startVars, taskVars
<1>3. CASE OpeningFails
  BY <1>3, FailType DEF OpeningFails, TypeOK, StartupKinds
<1>4. CASE ParsingFails
  <2>1. \E kind \in StartupKinds : FailStart(kind)
    BY <1>4 DEF ParsingFails, StartupKinds
  <2> QED
    BY <1>4, <2>1, FailType DEF ParsingFails
<1>5. CASE Fetch
  BY <1>5 DEF Fetch, TypeOK, Goto, runVars, taskVars
<1>6. CASE MorphFails
  BY <1>6, FailType DEF MorphFails, StartupKinds
<1>7. CASE Resolve
  <2>1. ready' \in Seq(Tasks)
    BY <1>7, QueueType DEF Resolve, TypeOK, Tasks
  <2>2. payloadTask' \in TaskStates /\ served' \in {"none", "data", "raw", "rejected"}
    BY <1>7 DEF Resolve, TaskStates, TypeOK
  <2> QED
    BY <1>7, <2>1, <2>2 DEF Resolve, TypeOK, Goto, runVars
<1>9. CASE Inject
  BY <1>9 DEF Inject, TypeOK, Goto, runVars, startVars, taskVars, Activating
<1>8. CASE StartFails
  <2>1. pc \in Starting /\ served' = served /\ \E kind \in StartupKinds : FailStart(kind)
    BY <1>8 DEF StartFails, EnteringFails, BindingFails, FetchingFails, ResolvingFails, InjectingFails,
                 FailWithin, StartupKinds
  <2> QED
    BY <2>1, FailType DEF TypeOK
<1> QED
  BY <1>1, <1>2, <1>3, <1>4, <1>5, <1>6, <1>7, <1>8, <1>9 DEF Bootstrap

LEMMA ExecuteType == TypeInv /\ Execute => TypeInv'
<1> SUFFICES ASSUME TypeInv, Execute
             PROVE  TypeInv'
  OBVIOUS
<1> USE DEF TypeInv, TypeOK, Started, PollsLeft, Goto, runVars, startVars, taskVars,
            Activating, Activated
<1>1. CASE RecordPayload
  <2>1. ready' \in Seq(Tasks)
    BY <1>1, QueueType DEF RecordPayload, RunsNext
  <2> QED
    BY <1>1, <2>1 DEF RecordPayload, TaskStates
<1>2. CASE Activate \/ Opened
  <2>1. ready' \in Seq(Tasks)
    BY <1>2, QueueType DEF Activate, Opened, RunsNext, CreateRunTask, Tasks
  <2> QED
    BY <1>2, <2>1 DEF Activate, Opened, CreateRunTask
<1>9. CASE Wake
  <2>1. ready' \in Seq(Tasks)
    BY <1>9, QueueType DEF Wake, Tasks
  <2> QED
    BY <1>9, <2>1 DEF Wake
<1>10. CASE AlgorithmBegins
  <2>1. ready' \in Seq(Tasks)
    BY <1>10, QueueType DEF AlgorithmBegins, RunsNext
  <2> QED
    BY <1>10, <2>1 DEF AlgorithmBegins
<1>3. CASE ActivationFails
  BY <1>3, ExitType DEF ActivationFails
<1>4. CASE AlgorithmEnds
  <2>1. ending' \in [1 .. MaxAttempts -> {"none"} \cup StartupKinds \cup Endings]
    BY <1>4 DEF AlgorithmEnds
  <2>2. CASE Exit("one")
    BY <1>4, <2>1, <2>2, ExitType DEF AlgorithmEnds
  <2>3. CASE UNCHANGED <<exitCode, taskVars>> /\ pc' \in {"saving", "submitting"}
    BY <1>4, <2>1, <2>3 DEF AlgorithmEnds
  <2> QED
    BY <1>4, <2>2, <2>3 DEF AlgorithmEnds
<1>5. CASE Save
  <2>1. CASE Exit("one")
    BY <1>5, <2>1, ExitType DEF Save
  <2>2. CASE ~Exit("one")
    BY <1>5, <2>2 DEF Save
  <2> QED
    BY <2>1, <2>2
<1>6. CASE Submit
  <2>1. Verdict \in Submissions
    BY <1>6 DEF Submit, Verdict, Submissions
  <2> QED
    BY <1>6, <2>1 DEF Submit
<1>7. CASE Acknowledged
  <2>1. CASE Exit("zero")
    BY <1>7, <2>1, ExitType DEF Acknowledged
  <2>2. CASE ~Exit("zero")
    <3>1. inputTask' \in [Inputs -> TaskStates]
      BY <1>7, <2>2 DEF Acknowledged, TaskStates
    <3> QED
      BY <1>7, <2>2, <3>1 DEF Acknowledged, Telemetry
  <2> QED
    BY <2>1, <2>2
<1>8. CASE NotAcknowledged
  <2>1. acks' \in 0 .. AckTries
    BY <1>8 DEF NotAcknowledged
  <2>2. CASE Exit("one")
    BY <1>8, <2>1, <2>2, ExitType DEF NotAcknowledged
  <2>3. CASE ~Exit("one")
    BY <1>8, <2>1, <2>3 DEF NotAcknowledged
  <2> QED
    BY <2>2, <2>3
<1> QED
  BY <1>1, <1>2, <1>3, <1>4, <1>5, <1>6, <1>7, <1>8, <1>9, <1>10 DEF Execute

LEMMA RecordType == TypeInv /\ Record => TypeInv'
<1> SUFFICES ASSUME TypeInv, Record
             PROVE  TypeInv'
  OBVIOUS
<1> USE DEF TypeInv, TypeOK, Started, PollsLeft, Goto, runVars, startVars, taskVars, Activated, Telemetry
<1>1. CASE \E i \in Inputs : RecordInput(i)
  BY <1>1 DEF RecordInput, TaskStates
<1>2. CASE CreateRecorders
  <2>1. recorderTask' \in [Recorders -> TaskStates]
    BY <1>2 DEF CreateRecorders, TaskStates
  <2> QED
    BY <1>2, <2>1 DEF CreateRecorders
<1>3. CASE \E r \in Recorders : RecorderEnds(r)
  BY <1>3 DEF RecorderEnds, TaskStates
<1>4. CASE RecordersDone
  BY <1>4 DEF RecordersDone
<1>5. CASE Close
  BY <1>5, ExitType DEF Close
<1> QED
  BY <1>1, <1>2, <1>3, <1>4, <1>5 DEF Record

LEMMA TypeStep == TypeInv /\ [Next]_vars => TypeInv'
<1> SUFFICES ASSUME TypeInv, [Next]_vars
             PROVE  TypeInv'
  OBVIOUS
<1> USE DEF TypeInv, TypeOK, Started, PollsLeft
<1>1. CASE Start
  <2>1. attempt' \in 1 .. MaxAttempts /\ acks' \in 0 .. AckTries /\ acks' < AckTries
    BY <1>1 DEF Start
  <2>2. killed' \in BOOLEAN
    BY <1>1, Zenon DEF Start
  <2>3. /\ ready' \in Seq(Tasks)
        /\ payloadTask' \in TaskStates
        /\ inputTask' \in [Inputs -> TaskStates]
        /\ recorderTask' \in [Recorders -> TaskStates]
    BY <1>1 DEF Start, Fresh, TaskStates
  <2> QED
    BY <1>1, <2>1, <2>2, <2>3 DEF Start, Fresh, Starting
<1>2. CASE Kill
  <2>1. killed' \in BOOLEAN
    BY <1>2, Zenon DEF Kill
  <2> QED
    BY <1>2, <2>1, ExitType DEF Kill, startVars
<1>3. CASE Receive
  BY <1>3 DEF Receive, Submissions, startVars, taskVars
<1>4. CASE UNCHANGED vars
  BY <1>4 DEF vars, runVars, startVars, taskVars
<1> QED
  BY <1>1, <1>2, <1>3, <1>4, BootstrapType, ExecuteType, RecordType DEF Next, ProcessStep

(* Types of the state of a process, of its tasks and of their queue.       *)
THEOREM TypeCorrect == Spec => []TypeOK
<1>1. TypeInv => TypeOK
  BY DEF TypeInv
<1> QED
  BY <1>1, TypeInit, TypeStep, PTL DEF Spec

-----------------------------------------------------------------------------
(* The start: the payload *)

(* What the bootstrapper has read so far, and from where.  Nothing of it   *)
(* changes once the payload is served or rejected.                         *)
StartInv ==
    /\ pc \in {"entering", "binding", "fetching"} => served = "none"
    /\ pc = "resolving" => served = "data"
    /\ served = "data" => payload.form \in {"plain", "envelope"} /\ FirstType \in payload.data
    /\ PayloadJudged

(* A failed start keeps them: what was rejected did not fit. *)
LEMMA StartFailure ==
    ASSUME TypeInv, pc \in Starting, StartInv, NEW kind \in StartupKinds, FailStart(kind),
           \/ served' = served
           \/ served' = "rejected" /\ PayloadJudged'
    PROVE  StartInv'
<1>1. pc' \in {"submitting", "exited"}
  BY DEF FailStart, Goto, Exit
<1>2. UNCHANGED <<settings, payload>>
  BY DEF FailStart
<1> QED
  BY <1>1, <1>2 DEF StartInv, PayloadJudged, DecompressedServed, FirstType

LEMMA StartInvStep == TypeInv /\ StartInv /\ [Next]_vars => StartInv'
<1> SUFFICES ASSUME TypeInv, StartInv, [Next]_vars
             PROVE  StartInv'
  OBVIOUS
<1> USE DEF StartInv, PayloadJudged, DecompressedServed, FirstType,
            Goto, Exit, Starting, runVars, startVars
<1>1. CASE Start
  BY <1>1 DEF Start, Fresh
<1>2. CASE Enter \/ BindServices \/ Inject
  BY <1>2 DEF Enter, BindServices, Inject
<1>3. CASE OpeningFails
  <2>1. served' = served /\ \E kind \in StartupKinds : FailStart(kind)
    BY <1>3 DEF OpeningFails, StartupKinds
  <2> QED
    BY <1>3, <2>1, StartFailure DEF OpeningFails
<1>4. CASE ParsingFails
  <2>1. \E kind \in StartupKinds : FailStart(kind)
    BY <1>4 DEF ParsingFails, StartupKinds
  <2>2. served' = "rejected" /\ ~(PayloadTypes \subseteq payload.data)
    BY <1>4 DEF ParsingFails, Parses, PayloadTypes
  <2> QED
    BY <1>4, <2>1, <2>2, StartFailure DEF ParsingFails, FailStart
<1>5. CASE Fetch
  BY <1>5 DEF Fetch, Parses
<1>6. CASE MorphFails
  <2>1. payload.form = "plain" => payload.raw = payload.data
    BY DEF TypeInv, TypeOK
  <2>2. served' = "rejected" /\ PayloadJudged'
    BY <1>6, <2>1 DEF MorphFails, Morphs, FailStart, PayloadTypes
  <2> QED
    BY <1>6, <2>2, StartFailure DEF MorphFails, StartupKinds
<1>7. CASE Resolve
  <2>1. served' # "rejected" /\ (served' = "raw" => settings.bootstrapType)
    BY <1>7 DEF Resolve
  <2> QED
    BY <1>7, <2>1 DEF Resolve
<1>8. CASE StartFails
  <2>1. pc \in Starting /\ served' = served /\ \E kind \in StartupKinds : FailStart(kind)
    BY <1>8 DEF StartFails, EnteringFails, BindingFails, FetchingFails, ResolvingFails, InjectingFails,
                 FailWithin, StartupKinds
  <2> QED
    BY <2>1, StartFailure
<1>9. CASE Execute
  <2>1. UNCHANGED <<settings, payload, served>>
    BY <1>9 DEF Execute, RecordPayload, Activate, Wake, Opened, CreateRunTask, ActivationFails,
                AlgorithmBegins, AlgorithmEnds, Save, Submit, Acknowledged, NotAcknowledged
  <2>2. pc' \notin {"entering", "binding", "fetching", "resolving"}
    BY <1>9 DEF Execute, RecordPayload, RunsNext, MainSuspended, Activate, Wake, Opened,
                CreateRunTask, ActivationFails, AlgorithmBegins, AlgorithmEnds, Save, Submit,
                Acknowledged, NotAcknowledged
  <2> QED
    BY <2>1, <2>2
<1>10. CASE Record \/ Kill \/ Receive \/ UNCHANGED vars
  BY <1>10 DEF Record, RecordInput, CreateRecorders, RecorderEnds, RecordersDone, Close, Kill,
               Receive, vars
<1> QED
  BY <1>1, <1>2, <1>3, <1>4, <1>5, <1>6, <1>7, <1>8, <1>9, <1>10 DEF Next, ProcessStep, Bootstrap

LEMMA StartInvInit == Init => StartInv
BY DEF Init, StartInv, PayloadJudged, DecompressedServed

(* What the algorithm is given, and what is rejected, is judged by the     *)
(* decompressed payload, for every payload not both compressed and morphed.*)
THEOREM PayloadsAreJudged == Spec => []PayloadJudged
<1>1. StartInv => PayloadJudged
  BY DEF StartInv
<1> QED
  BY <1>1, TypeInit, TypeStep, StartInvInit, StartInvStep, PTL DEF Spec

-----------------------------------------------------------------------------
(* The task that records the payload *)

(* The bootstrapper of the process has succeeded and its algorithm begun. *)
Begun ==
    \/ pc \in Activated
    \/ pc \in {"submitting", "acking"} /\ ending[attempt] \notin StartupKinds

Recorded == payloadTask \in {"stored", "failed"}

(* The task is created at the end of an empty queue, and the algorithm's   *)
(* behind it, whether activate() suspends in between or not: what is first *)
(* in the queue is begun first, and the task ends when it is begun.        *)
QueueInv ==
    /\ pc \in Starting \ {"injecting"} => ready = <<>>
    /\ settings.mode = "always" =>
          /\ pc \in {"injecting", "activating"} => payloadTask = "pending" /\ ready = <<"payload">>
          /\ pc = "opening" =>
                \/ payloadTask = "pending" /\ ready \in {<<"payload">>, <<"payload", "main">>}
                \/ Recorded /\ ready \in {<<>>, <<"main">>}
          /\ pc = "waiting" =>
                \/ payloadTask = "pending" /\ ready = <<"payload", "algorithm">>
                \/ Recorded /\ ready = <<"algorithm">>
          /\ Begun => Recorded

(* The start: the task of the payload is the first in the queue. *)
LEMMA QueueBootstrap == TypeInv /\ QueueInv /\ Bootstrap => QueueInv'
<1> SUFFICES ASSUME TypeInv, QueueInv, Bootstrap
             PROVE  QueueInv'
  OBVIOUS
<1> USE DEF QueueInv, Begun, Recorded, Goto, Exit, Starting, Activated, Telemetry
<1>1. CASE Resolve
  BY <1>1, ShortQueues DEF Tasks, Resolve, RecordsPayload
<1>2. CASE Enter \/ BindServices \/ Fetch \/ Inject
  BY <1>2 DEF Enter, BindServices, Fetch, Inject, runVars, startVars, taskVars
<1>3. ASSUME NEW kind \in StartupKinds, pc \in Starting, FailStart(kind)
      PROVE  QueueInv'
  <2>1. pc' \in {"submitting", "exited"} /\ ending'[attempt'] = kind
    BY <1>3 DEF FailStart, TypeInv, TypeOK, Started, runVars
  <2> QED
    BY <2>1
<1>4. CASE OpeningFails \/ ParsingFails \/ MorphFails \/ StartFails
  <2>1. \E kind \in StartupKinds : pc \in Starting /\ FailStart(kind)
    BY <1>4 DEF OpeningFails, ParsingFails, MorphFails, StartFails, EnteringFails, BindingFails,
                FetchingFails, ResolvingFails, InjectingFails, FailWithin, StartupKinds
  <2> QED
    BY <2>1, <1>3
<1> QED
  BY <1>1, <1>2, <1>4 DEF Bootstrap

(* The activation: the queue is served in its order. *)
LEMMA QueueExecute == TypeInv /\ QueueInv /\ Execute => QueueInv'
<1> SUFFICES ASSUME TypeInv, QueueInv, Execute
             PROVE  QueueInv'
  OBVIOUS
<1> USE DEF QueueInv, Begun, Recorded, Goto, Exit, Starting, Activated, Telemetry
<1>1. CASE RecordPayload
  BY <1>1, ShortQueues DEF Tasks, RecordPayload, RunsNext, MainSuspended, runVars
<1>2. CASE Activate
  BY <1>2, ShortQueues DEF Tasks, Activate, CreateRunTask, taskVars
<1>3. CASE Wake
  <2>1. ASSUME ready = <<"payload", "main">>
        PROVE  FALSE
    <3>1. 2 \in 1 .. Len(ready) /\ ready[2] = "main"
      BY <2>1
    <3> QED
      BY <1>3, <3>1 DEF Wake
  <2>2. ASSUME ready = <<"main">>
        PROVE  FALSE
    <3>1. 1 \in 1 .. Len(ready) /\ ready[1] = "main"
      BY <2>2
    <3> QED
      BY <1>3, <3>1 DEF Wake
  <2> QED
    BY <1>3, <2>1, <2>2, ShortQueues DEF Tasks, Wake, taskVars
<1>4. CASE Opened
  BY <1>4, ShortQueues DEF Tasks, Opened, RunsNext, CreateRunTask, taskVars
<1>5. CASE AlgorithmBegins
  BY <1>5, ShortQueues DEF Tasks, AlgorithmBegins, RunsNext, taskVars
<1>6. CASE ActivationFails
  BY <1>6 DEF ActivationFails
<1>7. CASE AlgorithmEnds \/ Save \/ Submit \/ Acknowledged \/ NotAcknowledged
  <2>1. settings' = settings /\ (Begun' => Begun)
    BY <1>7 DEF AlgorithmEnds, Save, Submit, Acknowledged, NotAcknowledged,
                TypeInv, TypeOK, Started, runVars, startVars
  <2>2. pc' = "exited" \/ payloadTask' = payloadTask
    BY <1>7 DEF AlgorithmEnds, Save, Submit, Acknowledged, NotAcknowledged, taskVars
  <2>3. pc' \notin Starting \cup Activating
    BY <1>7 DEF AlgorithmEnds, Save, Submit, Acknowledged, NotAcknowledged, Activating
  <2> QED
    BY <2>1, <2>2, <2>3 DEF Activating
<1> QED
  BY <1>1, <1>2, <1>3, <1>4, <1>5, <1>6, <1>7 DEF Execute

LEMMA QueueStep == TypeInv /\ QueueInv /\ [Next]_vars => QueueInv'
<1> SUFFICES ASSUME TypeInv, QueueInv, [Next]_vars
             PROVE  QueueInv'
  OBVIOUS
<1> USE DEF QueueInv, Begun, Recorded, Goto, Exit, Starting, Activated, Telemetry,
            runVars, startVars, taskVars
<1>1. CASE Record
  BY <1>1 DEF Record, RecordInput, CreateRecorders, RecorderEnds, RecordersDone, Close
<1>2. CASE Start \/ Kill \/ Receive \/ UNCHANGED vars
  BY <1>2 DEF Start, Fresh, Kill, Receive, vars
<1> QED
  BY <1>1, <1>2, QueueBootstrap, QueueExecute DEF Next, ProcessStep

(* With mode "always" every algorithm begins after its payload is stored,  *)
(* or storing it has failed: the task that stores it is awaited by nobody, *)
(* but begins first, however often the context of the algorithm suspends   *)
(* (activate(), record_user_telemetry).                                    *)
THEOREM PayloadsAreStoredFirst == Spec => []PayloadStoredFirst
<1>1. Init => QueueInv
  BY DEF Init, QueueInv, Begun, Starting, Activated, Telemetry
<1>2. QueueInv => PayloadStoredFirst
  BY DEF QueueInv, PayloadStoredFirst, Begun, Recorded
<1> QED
  BY <1>1, <1>2, TypeInit, TypeStep, QueueStep, PTL DEF Spec

-----------------------------------------------------------------------------
(* Telemetry and the receipt *)

Done == {"stored", "nothing", "failed"}

(* A process with a result has stored it before it goes on to telemetry.   *)
BlobInv ==
    /\ pc = "saving" => ending[attempt] = "result"
    /\ pc \in {"submitting", "acking"} \cup Telemetry =>
          (ending[attempt] = "result" => attempt \in blobs)

(* Tasks of telemetry exist once the run is recorded. *)
ReceiptInv ==
    /\ pc \in Telemetry => record # "none"
    /\ \A i \in Inputs : inputTask[i] \in {"pending", "stored"} => record # "none"
    /\ \A r \in Recorders :
          recorderTask[r] \in {"pending", "stored"} => record # "none" /\ attempt \in blobs

LEMMA BlobStep == TypeInv /\ BlobInv /\ [Next]_vars => BlobInv'
<1> SUFFICES ASSUME TypeInv, BlobInv, [Next]_vars
             PROVE  BlobInv'
  OBVIOUS
<1> USE DEF TypeInv, TypeOK, Started, BlobInv, Goto, Exit, Telemetry, runVars, startVars, taskVars
<1>1. CASE Bootstrap
  <2>1. CASE Enter \/ BindServices \/ Fetch \/ Resolve \/ Inject
    BY <2>1 DEF Enter, BindServices, Fetch, Resolve, Inject
  <2>2. CASE OpeningFails \/ ParsingFails \/ MorphFails \/ StartFails
    <3>1. \E kind \in StartupKinds : pc \in Starting /\ FailStart(kind)
      BY <2>2 DEF OpeningFails, ParsingFails, MorphFails, StartFails,
                  EnteringFails, BindingFails, FetchingFails, ResolvingFails, InjectingFails, FailWithin,
                  StartupKinds, Starting
    <3>2. pc' \in {"submitting", "exited"} /\ ending'[attempt'] \in StartupKinds
      BY <3>1 DEF FailStart, Starting
    <3> QED
      BY <3>2 DEF StartupKinds
  <2> QED
    BY <1>1, <2>1, <2>2 DEF Bootstrap
<1>2. CASE Execute
  BY <1>2 DEF Execute, RecordPayload, RunsNext, MainSuspended, Activate, Wake, Opened, CreateRunTask,
              ActivationFails, AlgorithmBegins, AlgorithmEnds, Save, Submit,
              Acknowledged, NotAcknowledged
<1>3. CASE Record
  BY <1>3 DEF Record, RecordInput, CreateRecorders, RecorderEnds, RecordersDone, Close
<1>4. CASE Start \/ Kill \/ Receive \/ UNCHANGED vars
  BY <1>4 DEF Start, Kill, Receive, vars
<1> QED
  BY <1>1, <1>2, <1>3, <1>4 DEF Next, ProcessStep

LEMMA ReceiptStep == TypeInv /\ BlobInv /\ ReceiptInv /\ [Next]_vars => ReceiptInv'
<1> SUFFICES ASSUME TypeInv, BlobInv, ReceiptInv, [Next]_vars
             PROVE  ReceiptInv'
  OBVIOUS
<1> USE DEF TypeInv, TypeOK, ReceiptInv, Goto, Exit, Cancelled, Telemetry,
            runVars, startVars, taskVars
<1>1. CASE Bootstrap
  <2>1. CASE Enter \/ BindServices \/ Fetch \/ Resolve \/ Inject
    BY <2>1 DEF Enter, BindServices, Fetch, Resolve, Inject
  <2>2. CASE OpeningFails \/ ParsingFails \/ MorphFails \/ StartFails
    <3>1. \E kind \in StartupKinds : FailStart(kind)
      BY <2>2 DEF OpeningFails, ParsingFails, MorphFails, StartFails,
                  EnteringFails, BindingFails, FetchingFails, ResolvingFails, InjectingFails, FailWithin, StartupKinds
    <3> QED
      BY <3>1 DEF FailStart
  <2> QED
    BY <1>1, <2>1, <2>2 DEF Bootstrap
<1>2. CASE Execute
  <2>1. CASE ActivationFails \/ AlgorithmEnds
    BY <2>1 DEF ActivationFails, AlgorithmEnds
  <2>4. CASE RecordPayload \/ Activate \/ Wake \/ Opened \/ AlgorithmBegins
    BY <2>4 DEF RecordPayload, RunsNext, MainSuspended, Activate, Wake, Opened, CreateRunTask,
                AlgorithmBegins
  <2>2. CASE Save \/ Submit \/ NotAcknowledged
    BY <2>2 DEF Save, Submit, NotAcknowledged
  <2>3. CASE Acknowledged
    BY <2>3 DEF Acknowledged
  <2> QED
    BY <1>2, <2>1, <2>2, <2>3, <2>4 DEF Execute
<1>3. CASE Record
  <2>1. CASE CreateRecorders
    BY <2>1 DEF CreateRecorders, BlobInv, RecordsUser
  <2>2. CASE \/ \E i \in Inputs : RecordInput(i)
             \/ \E r \in Recorders : RecorderEnds(r)
    BY <2>2 DEF RecordInput, RecorderEnds
  <2>3. CASE RecordersDone \/ Close
    BY <2>3 DEF RecordersDone, Close
  <2> QED
    BY <1>3, <2>1, <2>2, <2>3 DEF Record
<1>4. CASE Start
  BY <1>4 DEF Start, Fresh
<1>5. CASE Receive
  BY <1>5 DEF Receive, Submissions
<1>6. CASE Kill \/ UNCHANGED vars
  BY <1>6 DEF Kill, vars
<1> QED
  BY <1>1, <1>2, <1>3, <1>4, <1>5, <1>6 DEF Next, ProcessStep

LEMMA ReceiptInit == Init => BlobInv /\ ReceiptInv
BY DEF Init, BlobInv, ReceiptInv, Telemetry

(* No telemetry is stored of a run that is not recorded, and no user       *)
(* telemetry without the result it was computed from.                      *)
THEOREM TelemetryIsAfterReceipt == Spec => []TelemetryAfterReceipt
<1>1. ReceiptInv => TelemetryAfterReceipt
  BY DEF ReceiptInv, TelemetryAfterReceipt
<1> QED
  BY <1>1, TypeInit, TypeStep, ReceiptInit, BlobStep, ReceiptStep, PTL DEF Spec

-----------------------------------------------------------------------------
(* Nothing is forgotten *)

InputsTried == settings.inputs => \A i \in Inputs : inputTask[i] \in Done

(* Each recorder is done, or it is still to end after another has failed.  *)
RecordersTried ==
    RecordsUser =>
        \A r \in Recorders :
            \/ recorderTask[r] \in Done
            \/ recorderTask[r] \in {"pending", "cancelled"} /\ \E q \in Recorders : recorderTask[q] = "failed"

CompleteInv ==
    /\ pc = "inputs" => (settings.inputs => \A i \in Inputs : inputTask[i] \in {"pending"} \cup Done)
    /\ pc \in {"recording", "closing"} => InputsTried
    /\ pc = "recording" => \A r \in Recorders : recorderTask[r] \in {"pending"} \cup Done
    /\ pc = "closing" => RecordersTried
    /\ exitCode = "zero" => pc = "exited"
    /\ exitCode = "zero" /\ ending[attempt] \in Endings =>
          /\ InputsTried
          /\ RecordersTried
          /\ \A r \in Recorders : recorderTask[r] # "pending"

LEMMA CompleteStep == TypeInv /\ CompleteInv /\ [Next]_vars => CompleteInv'
<1> SUFFICES ASSUME TypeInv, CompleteInv, [Next]_vars
             PROVE  CompleteInv'
  OBVIOUS
<1> USE DEF TypeInv, TypeOK, CompleteInv, InputsTried, RecordersTried, RecordsUser, Goto, Exit,
            Cancelled, Done, TaskStates, runVars, startVars, taskVars
<1>1. CASE Bootstrap
  <2>1. CASE Enter \/ BindServices \/ Fetch \/ Resolve \/ Inject
    BY <2>1 DEF Enter, BindServices, Fetch, Resolve, Inject
  <2>2. CASE OpeningFails \/ ParsingFails \/ MorphFails \/ StartFails
    <3>1. \E kind \in StartupKinds : pc \in Starting /\ FailStart(kind)
      BY <2>2 DEF OpeningFails, ParsingFails, MorphFails, StartFails,
                  EnteringFails, BindingFails, FetchingFails, ResolvingFails, InjectingFails, FailWithin,
                  StartupKinds, Starting
    <3>2. pc' \in {"submitting", "exited"} /\ exitCode' # "zero"
      BY <3>1 DEF FailStart, Starting
    <3> QED
      BY <3>2
  <2> QED
    BY <1>1, <2>1, <2>2 DEF Bootstrap
<1>2. CASE Execute
  <2>1. CASE ActivationFails \/ AlgorithmEnds
    BY <2>1 DEF ActivationFails, AlgorithmEnds
  <2>4. CASE RecordPayload \/ Activate \/ Wake \/ Opened \/ AlgorithmBegins
    BY <2>4 DEF RecordPayload, RunsNext, MainSuspended, Activate, Wake, Opened, CreateRunTask,
                AlgorithmBegins
  <2>2. CASE Save \/ Submit \/ NotAcknowledged
    BY <2>2 DEF Save, Submit, NotAcknowledged
  <2>3. CASE Acknowledged
    BY <2>3 DEF Acknowledged, StartupKinds, Endings
  <2> QED
    BY <1>2, <2>1, <2>2, <2>3, <2>4 DEF Execute
<1>3. CASE \E i \in Inputs : RecordInput(i)
  BY <1>3 DEF RecordInput
<1>4. CASE CreateRecorders
  BY <1>4 DEF CreateRecorders, InputsDone
<1>5. CASE \E r \in Recorders : RecorderEnds(r)
  BY <1>5 DEF RecorderEnds
<1>6. CASE RecordersDone
  BY <1>6 DEF RecordersDone, WaitOver
<1>7. CASE Close
  BY <1>7 DEF Close
<1>8. CASE Start
  BY <1>8 DEF Start, Fresh
<1>9. CASE Kill \/ Receive \/ UNCHANGED vars
  BY <1>9 DEF Kill, Receive, vars
<1> QED
  BY <1>1, <1>2, <1>3, <1>4, <1>5, <1>6, <1>7, <1>8, <1>9 DEF Next, ProcessStep, Record

(* A process that leaves the run alone has tried all of its telemetry; a   *)
(* recorder is cut off only when another one has failed.                   *)
THEOREM TelemetryIsComplete == Spec => []TelemetryComplete
<1>1. Init => CompleteInv
  BY DEF Init, CompleteInv, InputsTried, RecordersTried
<1>2. CompleteInv => TelemetryComplete
  BY DEF CompleteInv, TelemetryComplete, InputsTried, RecordersTried, Done
<1> QED
  BY <1>1, <1>2, TypeInit, TypeStep, CompleteStep, PTL DEF Spec

-----------------------------------------------------------------------------
(* The process implements NexusRun *)

(* Where NexusRun sees the process *)
LEMMA AbstractPcs ==
    ASSUME NEW label
    PROVE  /\ label \in Starting => AbstractPc(label) = "starting"
           /\ label \in Activating \cup {"running"} => AbstractPc(label) = "running"
           /\ label \in Telemetry => AbstractPc(label) = "telemetry"
           /\ label \in {"down", "saving", "submitting", "acking", "exited"} => AbstractPc(label) = label
BY DEF AbstractPc, Starting, Activating, Telemetry

LEMMA BaseClasses ==
    /\ \A kind \in StartupKinds : BaseClass(kind) = kind
    /\ BaseClass("none") = "none" /\ BaseClass("result") = "result"
    /\ \A end \in Endings : BaseClass(end) \in Run!Endings
    /\ \A end \in Endings : IsTransient(end) <=> BaseClass(end) = "TransientNexusError"
    /\ \A end \in Endings : end = "result" <=> BaseClass(end) = "result"
    /\ \A end : end \in {"none"} \cup StartupKinds \cup Endings =>
          (BaseClass(end) \in StartupKinds <=> end \in StartupKinds)
BY DEF BaseClass, StartupKinds, Endings, Run!Endings, IsTransient

(* The endings that NexusRun sees *)
Ended == [n \in 1 .. MaxAttempts |-> BaseClass(ending[n])]

LEMMA EndedUpdate ==
    ASSUME TypeInv, attempt \in 1 .. MaxAttempts, NEW end,
           ending' = [ending EXCEPT ![attempt] = end]
    PROVE  Ended' = [Ended EXCEPT ![attempt] = BaseClass(end)]
BY DEF Ended, TypeInv, TypeOK

LEMMA SimulationInit == Init => Run!Init
BY AbstractPcs, BaseClasses DEF Init, Run!Init

(* The start *)
LEMMA FailureSimulated ==
    ASSUME TypeInv, pc \in Starting, NEW kind \in StartupKinds, FailStart(kind)
    PROVE  Run!StartFails
<1>1. attempt \in 1 .. MaxAttempts
  BY DEF TypeInv, Started, Starting
<1>2. Ended' = [Ended EXCEPT ![attempt] = kind]
  BY <1>1, EndedUpdate, BaseClasses DEF FailStart
<1>3. Run!CompletesRun(kind) <=> CompletesRun(kind)
  BY DEF CompletesRun, Run!CompletesRun
<1>4. AbstractPc(pc) = "starting"
  BY AbstractPcs
<1>5. CASE CompletesRun(kind)
  <2>1. pc' = "submitting" /\ UNCHANGED exitCode
    BY <1>5 DEF FailStart, Goto
  <2>2. AbstractPc(pc') = "submitting"
    BY <2>1, AbstractPcs
  <2> QED
    BY <1>2, <1>3, <1>4, <1>5, <2>1, <2>2 DEF Run!StartFails, FailStart, Ended, runVars
<1>6. CASE ~CompletesRun(kind)
  <2>1. pc' = "exited" /\ exitCode' = "one"
    BY <1>6 DEF FailStart, Exit
  <2>2. AbstractPc(pc') = "exited"
    BY <2>1, AbstractPcs
  <2> QED
    BY <1>2, <1>3, <1>4, <1>6, <2>1, <2>2 DEF Run!StartFails, Run!Exit, FailStart, Ended, runVars
<1> QED
  BY <1>5, <1>6

LEMMA BootstrapSimulated == TypeInv /\ Bootstrap => [Run!Next]_(Run!vars)
<1> SUFFICES ASSUME TypeInv, Bootstrap
             PROVE  [Run!Next]_(Run!vars)
  OBVIOUS
<1>1. CASE Enter \/ BindServices \/ Fetch \/ Resolve
  <2>1. AbstractPc(pc') = AbstractPc(pc)
    BY <1>1, AbstractPcs DEF Enter, BindServices, Fetch, Resolve, Goto, Starting
  <2> QED
    BY <1>1, <2>1 DEF Enter, BindServices, Fetch, Resolve, Goto, runVars, Run!vars
<1>2. CASE Inject
  <2>1. AbstractPc(pc) = "starting" /\ AbstractPc(pc') = "running"
    BY <1>2, AbstractPcs DEF Inject, Goto, Starting, Activating
  <2>2. Run!StartSucceeds
    BY <1>2, <2>1 DEF Inject, Goto, runVars, Run!StartSucceeds
  <2> QED
    BY <2>2 DEF Run!Next, Run!ProcessStep
<1>3. CASE OpeningFails \/ ParsingFails \/ MorphFails \/ StartFails
  <2>1. \E kind \in StartupKinds : pc \in Starting /\ FailStart(kind)
    BY <1>3 DEF OpeningFails, ParsingFails, MorphFails, StartFails,
                EnteringFails, BindingFails, FetchingFails, ResolvingFails, InjectingFails, FailWithin,
                StartupKinds, Starting
  <2>2. Run!StartFails
    BY <2>1, FailureSimulated
  <2> QED
    BY <2>2 DEF Run!Next, Run!ProcessStep
<1> QED
  BY <1>1, <1>2, <1>3 DEF Bootstrap

(* The algorithm, its result and the receipt *)
LEMMA ExecuteSimulated == TypeInv /\ Execute => [Run!Next]_(Run!vars)
<1> SUFFICES ASSUME TypeInv, Execute
             PROVE  [Run!Next]_(Run!vars)
  OBVIOUS
<1> USE DEF runVars, startVars, taskVars, Goto, Exit, Run!Exit
<1>1. CASE RecordPayload
  BY <1>1 DEF RecordPayload, Run!vars
<1>2. CASE Activate \/ Wake \/ Opened \/ AlgorithmBegins
  <2>1. AbstractPc(pc') = AbstractPc(pc)
    BY <1>2, AbstractPcs DEF Activate, Wake, Opened, AlgorithmBegins, CreateRunTask, Activating
  <2> QED
    BY <1>2, <2>1 DEF Activate, Wake, Opened, AlgorithmBegins, CreateRunTask, Run!vars
<1>3. CASE ActivationFails
  <2>1. AbstractPc(pc) = "running" /\ AbstractPc(pc') = "exited"
    BY <1>3, AbstractPcs DEF ActivationFails, Activating
  <2>2. Run!ActivationFails
    BY <1>3, <2>1 DEF ActivationFails, Run!ActivationFails
  <2> QED
    BY <2>2 DEF Run!Next, Run!ProcessStep
<1>4. CASE AlgorithmEnds
  <2>1. attempt \in 1 .. MaxAttempts
    BY <1>4 DEF AlgorithmEnds, TypeInv, Started
  <2>2. PICK end \in Endings :
           /\ ending' = [ending EXCEPT ![attempt] = end]
           /\ \/ end = "result" /\ pc' = "saving" /\ UNCHANGED exitCode
              \/ IsTransient(end) /\ pc' = "exited" /\ exitCode' = "one"
              \/ end # "result" /\ ~IsTransient(end) /\ pc' = "submitting" /\ UNCHANGED exitCode
    BY <1>4 DEF AlgorithmEnds
  <2>3. Ended' = [Ended EXCEPT ![attempt] = BaseClass(end)]
    BY <2>1, <2>2, EndedUpdate
  <2>4. AbstractPc(pc) = "running" /\ AbstractPc(pc') = pc'
    BY <1>4, <2>2, AbstractPcs DEF AlgorithmEnds
  <2>5. /\ BaseClass(end) \in Run!Endings
        /\ Run!IsTransient(BaseClass(end)) <=> IsTransient(end)
        /\ BaseClass(end) = "result" <=> end = "result"
    BY BaseClasses DEF Run!IsTransient
  <2>6. IsTransient(end) => end # "result"
    BY DEF IsTransient
  <2>7. Run!AlgorithmEnds
    BY <1>4, <2>2, <2>3, <2>4, <2>5, <2>6 DEF AlgorithmEnds, Run!AlgorithmEnds, Ended
  <2> QED
    BY <2>7 DEF Run!Next, Run!ProcessStep
<1>5. CASE Save
  <2>1. AbstractPc(pc) = "saving" /\ AbstractPc(pc') = pc'
    BY <1>5, AbstractPcs DEF Save
  <2>2. Run!Save \/ Run!SaveFails
    BY <1>5, <2>1 DEF Save, Run!Save, Run!SaveFails
  <2> QED
    BY <2>2 DEF Run!Next, Run!ProcessStep
<1>6. CASE Submit
  <2>1. AbstractPc(pc) = "submitting" /\ AbstractPc(pc') = "acking"
    BY <1>6, AbstractPcs DEF Submit
  <2>2. attempt \in 1 .. MaxAttempts
    BY <1>6 DEF Submit, TypeInv, Started
  <2>3. Verdict = Run!Verdict
    BY <2>2, BaseClasses DEF Verdict, Run!Verdict, TypeInv, TypeOK, BaseClass
  <2>4. Run!Submit
    BY <1>6, <2>1, <2>3 DEF Submit, Run!Submit
  <2> QED
    BY <2>4 DEF Run!Next, Run!ProcessStep
<1>7. CASE Acknowledged
  <2>1. AbstractPc(pc) = "acking"
    BY <1>7, AbstractPcs DEF Acknowledged
  <2>2. attempt \in 1 .. MaxAttempts
    BY <1>7 DEF Acknowledged, TypeInv, Started
  <2>3. BaseClass(ending[attempt]) \in Run!StartupKinds <=> ending[attempt] \in StartupKinds
    BY <2>2, BaseClasses DEF Run!StartupKinds, StartupKinds, TypeInv, TypeOK
  <2>4. \/ ending[attempt] \in StartupKinds /\ pc' = "exited" /\ exitCode' = "zero"
        \/ ending[attempt] \notin StartupKinds /\ pc' = "inputs" /\ UNCHANGED exitCode
    BY <1>7 DEF Acknowledged
  <2>5. \/ ending[attempt] \in StartupKinds /\ AbstractPc(pc') = "exited" /\ exitCode' = "zero"
        \/ ending[attempt] \notin StartupKinds /\ AbstractPc(pc') = "telemetry" /\ UNCHANGED exitCode
    BY <2>4, AbstractPcs DEF Telemetry
  <2>6. Run!Acknowledged
    BY <1>7, <2>1, <2>2, <2>3, <2>5 DEF Acknowledged, Run!Acknowledged
  <2> QED
    BY <2>6 DEF Run!Next, Run!ProcessStep
<1>8. CASE NotAcknowledged
  <2>1. AbstractPc(pc) = "acking" /\ AbstractPc(pc') = pc'
    BY <1>8, AbstractPcs DEF NotAcknowledged
  <2>2. Run!NotAcknowledged
    BY <1>8, <2>1 DEF NotAcknowledged, Run!NotAcknowledged
  <2> QED
    BY <2>2 DEF Run!Next, Run!ProcessStep
<1> QED
  BY <1>1, <1>2, <1>3, <1>4, <1>5, <1>6, <1>7, <1>8 DEF Execute

(* Telemetry *)
LEMMA RecordSimulated == TypeInv /\ Record => [Run!Next]_(Run!vars)
<1> SUFFICES ASSUME TypeInv, Record
             PROVE  [Run!Next]_(Run!vars)
  OBVIOUS
<1> USE DEF runVars, startVars, taskVars, Goto, Exit, Run!Exit
<1>1. CASE Close
  <2>1. AbstractPc(pc) = "telemetry" /\ AbstractPc(pc') = "exited"
    BY <1>1, AbstractPcs DEF Close, Telemetry
  <2>2. Run!Finish
    BY <1>1, <2>1 DEF Close, Run!Finish
  <2> QED
    BY <2>2 DEF Run!Next, Run!ProcessStep
<1>2. CASE ~Close
  <2>1. AbstractPc(pc') = AbstractPc(pc)
    BY <1>2, AbstractPcs DEF Record, RecordInput, CreateRecorders, RecorderEnds, RecordersDone, Telemetry
  <2> QED
    BY <1>2, <2>1 DEF Record, RecordInput, CreateRecorders, RecorderEnds, RecordersDone, Run!vars
<1> QED
  BY <1>1, <1>2

LEMMA Simulation == TypeInv /\ [Next]_vars => [Run!Next]_(Run!vars)
<1> SUFFICES ASSUME TypeInv, [Next]_vars
             PROVE  [Run!Next]_(Run!vars)
  OBVIOUS
<1>1. CASE Start
  <2>1. /\ AbstractPc(pc') = "starting"
        /\ AbstractPc(pc) = pc
    BY <1>1, AbstractPcs DEF Start, Starting
  <2>2. Run!Start
    BY <1>1, <2>1 DEF Start, Run!Start
  <2> QED
    BY <2>2 DEF Run!Next
<1>2. CASE Kill
  <2>1. AbstractPc(pc) \notin {"down", "exited"}
    BY <1>2, AbstractPcs DEF Kill, TypeInv, TypeOK, Activating, Activated
  <2>2. AbstractPc(pc') = "exited"
    BY <1>2, AbstractPcs DEF Kill, Exit
  <2>3. Run!Kill
    BY <1>2, <2>1, <2>2 DEF Kill, Run!Kill, Exit, Run!Exit
  <2> QED
    BY <2>3 DEF Run!Next
<1>3. CASE Receive
  <2>1. Run!Receive
    BY <1>3 DEF Receive, Run!Receive
  <2> QED
    BY <2>1 DEF Run!Next
<1>4. CASE UNCHANGED vars
  BY <1>4 DEF vars, runVars, Run!vars
<1> QED
  BY <1>1, <1>2, <1>3, <1>4, BootstrapSimulated, ExecuteSimulated, RecordSimulated
     DEF Next, ProcessStep

(* Every behaviour of the process is one of NexusRun, as far as safety     *)
(* goes: what is true of the steps and states there is true here.          *)
THEOREM ProcessesAreRuns == Spec => Run!Init /\ [][Run!Next]_(Run!vars)
BY TypeInit, TypeStep, SimulationInit, Simulation, PTL DEF Spec

-----------------------------------------------------------------------------
(* What is proved of NexusRun holds of the process *)

RunP == INSTANCE NexusRunProofs WITH
    StartupFailures <- StartupKinds,
    pc <- AbstractPc(pc),
    ending <- [n \in 1 .. MaxAttempts |-> BaseClass(ending[n])]

LEMMA RunBounds == RunP!BoundsAssumption
BY ProcessAssumption DEF RunP!BoundsAssumption, RunP!StartupKinds, StartupKinds

(* The two instances of NexusRun are the same. *)
LEMMA SameInit == Run!Init => RunP!Init
BY DEF Run!Init, RunP!Init

LEMMA SameStep == [Run!Next]_(Run!vars) => [RunP!Next]_(RunP!vars)
BY DEF Run!vars, RunP!vars, Run!Next, RunP!Next, Run!ProcessStep, RunP!ProcessStep,
       Run!Exit, RunP!Exit, Run!Start, RunP!Start, Run!Kill, RunP!Kill,
       Run!CompletesRun, RunP!CompletesRun, Run!StartFails, RunP!StartFails,
       Run!StartSucceeds, RunP!StartSucceeds, Run!ActivationFails, RunP!ActivationFails,
       Run!Endings, RunP!Endings, Run!IsTransient, RunP!IsTransient,
       Run!AlgorithmEnds, RunP!AlgorithmEnds, Run!Save, RunP!Save,
       Run!SaveFails, RunP!SaveFails, Run!Verdict, RunP!Verdict, Run!Submit, RunP!Submit,
       Run!StartupKinds, RunP!StartupKinds, Run!Acknowledged, RunP!Acknowledged,
       Run!NotAcknowledged, RunP!NotAcknowledged, Run!Finish, RunP!Finish,
       Run!Receive, RunP!Receive

LEMMA ProcessRunInit == Init => RunP!RunInv
BY RunBounds, SimulationInit, SameInit, RunP!RunInit

LEMMA ProcessRunStep == TypeInv /\ RunP!RunInv /\ [Next]_vars => RunP!RunInv'
BY RunBounds, Simulation, SameStep, RunP!RunStep

(* What NexusRun promises, of a process with a payload, a configuration    *)
(* and telemetry tasks of its own: exit code 0 only once the run is on     *)
(* record, a success only with its result, a failure only of a process     *)
(* that failed for good, and no handled failure of a start unreported.     *)
THEOREM ProcessesAreSafe ==
    Spec => [](Run!ExitZeroRecorded /\ Run!SuccessHasResult /\ Run!FailureIsFatal
               /\ Run!HandledStartReported)
<1>1. RunP!RunInv => /\ Run!ExitZeroRecorded /\ Run!SuccessHasResult
                     /\ Run!FailureIsFatal /\ Run!HandledStartReported
  <2>1. RunP!RunInv => /\ RunP!ExitZeroRecorded /\ RunP!SuccessHasResult
                       /\ RunP!FailureIsFatal /\ RunP!HandledStartReported
    BY RunBounds, RunP!RunSafe
  <2> QED
    BY <2>1 DEF Run!ExitZeroRecorded, RunP!ExitZeroRecorded, Run!SuccessHasResult,
                RunP!SuccessHasResult, Run!FailureIsFatal, RunP!FailureIsFatal,
                Run!HandledStartReported, RunP!HandledStartReported
<1> QED
  BY <1>1, TypeInit, TypeStep, ProcessRunInit, ProcessRunStep, PTL DEF Spec
=============================================================================
