--------------------------- MODULE NexusRunProofs ---------------------------
(***************************************************************************)
(* Proofs about NexusRun, for every number of restarts and of polls.       *)
(***************************************************************************)
EXTENDS NexusRun, TLAPS

USE BoundsAssumption DEF BoundsAssumption

Fatal == {"FatalNexusError", "Exception", "validation", "configuration", "httpFatal"}

(* A process is under way, or was, once the supervisor has started one. *)
Started == pc # "down" => attempt \in 1 .. MaxAttempts

(* A process with no poll left has exited. *)
PollsLeft == pc # "exited" => acks < AckTries

TypeInv == TypeOK /\ Started /\ PollsLeft

LEMMA TypeInit == Init => TypeInv
<1> SUFFICES ASSUME Init
             PROVE  TypeInv
  OBVIOUS
<1> USE DEF Init
<1>1. attempt \in 0 .. MaxAttempts /\ acks \in 0 .. AckTries
  OBVIOUS
<1>2. killed \in BOOLEAN
  BY Zenon
<1> QED
  BY <1>1, <1>2 DEF TypeInv, TypeOK, Started, PollsLeft

LEMMA TypeStep == TypeInv /\ [Next]_vars => TypeInv'
<1> SUFFICES ASSUME TypeInv, [Next]_vars
             PROVE  TypeInv'
  OBVIOUS
<1> USE DEF TypeInv, TypeOK, Started, PollsLeft, Exit
<1>1. CASE Start
  <2>1. attempt' \in 1 .. MaxAttempts /\ acks' \in 0 .. AckTries
    BY <1>1 DEF Start
  <2>2. killed' \in BOOLEAN
    BY <1>1, Zenon DEF Start
  <2> QED
    BY <1>1, <2>1, <2>2 DEF Start
<1>2. CASE Kill
  BY <1>2 DEF Kill
<1>3. CASE StartFails
  BY <1>3 DEF StartFails
<1>4. CASE StartSucceeds \/ ActivationFails
  BY <1>4 DEF StartSucceeds, ActivationFails
<1>5. CASE AlgorithmEnds
  BY <1>5 DEF AlgorithmEnds
<1>6. CASE Save \/ SaveFails
  BY <1>6 DEF Save, SaveFails
<1>7. CASE Submit
  <2>1. Verdict \in Submissions
    BY <1>7 DEF Submit, Verdict, Submissions
  <2> QED
    BY <1>7, <2>1 DEF Submit
<1>8. CASE Acknowledged
  BY <1>8 DEF Acknowledged
<1>9. CASE NotAcknowledged
  <2>1. acks + 1 <= AckTries
    BY <1>9 DEF NotAcknowledged
  <2> QED
    BY <1>9, <2>1 DEF NotAcknowledged
<1>10. CASE Finish
  BY <1>10 DEF Finish
<1>11. CASE Receive
  BY <1>11 DEF Receive, Submissions
<1>12. CASE UNCHANGED vars
  BY <1>12 DEF vars
<1> QED
  BY <1>1, <1>2, <1>3, <1>4, <1>5, <1>6, <1>7, <1>8, <1>9, <1>10, <1>11, <1>12
     DEF Next, ProcessStep

(* Types of the state of a run, and of what is submitted about it. *)
THEOREM TypeCorrect == Spec => []TypeOK
<1>1. TypeInv => TypeOK
  BY DEF TypeInv
<1> QED
  BY <1>1, TypeInit, TypeStep, PTL DEF Spec

-----------------------------------------------------------------------------
(* The receipt *)

(* Telemetry starts after the receipt, and a record is never taken back. *)
ReceiptInv ==
    /\ exitCode = "zero" => record # "none"
    /\ pc = "telemetry" => record # "none"

LEMMA ReceiptStep == TypeInv /\ ReceiptInv /\ [Next]_vars => ReceiptInv'
<1> SUFFICES ASSUME TypeInv, ReceiptInv, [Next]_vars
             PROVE  ReceiptInv'
  OBVIOUS
<1> USE DEF ReceiptInv, Exit
<1>1. CASE Receive
  BY <1>1 DEF Receive, TypeInv, TypeOK, Submissions
<1>2. CASE Acknowledged \/ Finish
  BY <1>2 DEF Acknowledged, Finish
<1>3. CASE Start \/ Kill \/ StartFails \/ StartSucceeds \/ ActivationFails \/ AlgorithmEnds
  BY <1>3 DEF Start, Kill, StartFails, StartSucceeds, ActivationFails, AlgorithmEnds
<1>4. CASE Save \/ SaveFails \/ Submit \/ NotAcknowledged
  BY <1>4 DEF Save, SaveFails, Submit, NotAcknowledged
<1>5. CASE UNCHANGED vars
  BY <1>5 DEF vars
<1> QED
  BY <1>1, <1>2, <1>3, <1>4, <1>5 DEF Next, ProcessStep

LEMMA ReceiptInit == Init => ReceiptInv
BY DEF Init, ReceiptInv

LEMMA ReceiptSafe == ReceiptInv => ExitZeroRecorded
BY DEF ReceiptInv, ExitZeroRecorded

(* Exit code 0 is only ever given for a run the receiver has recorded.     *)
THEOREM ExitZeroIsRecorded == Spec => []ExitZeroRecorded
BY ReceiptSafe, TypeInit, TypeStep, ReceiptInit, ReceiptStep, PTL DEF Spec

-----------------------------------------------------------------------------
(* What is submitted is true *)

(* A submission says how its process ended, and that cannot change: the    *)
(* process that made it is past the point where its ending is decided.     *)
Truthful(m) ==
    /\ m.by <= attempt
    /\ m.by = attempt => pc \in {"acking", "telemetry", "exited"}
    /\ m.kind = "success" => m.by \in blobs /\ ending[m.by] = "result"
    /\ m.kind = "failure" => ending[m.by] \in Fatal

VerdictInv ==
    /\ \A m \in sent : Truthful(m)
    /\ mailbox \subseteq sent
    /\ record = "success" => \E m \in sent : m.kind = "success"
    /\ pc = "saving" => ending[attempt] = "result"
    /\ pc = "submitting" => \/ ending[attempt] = "result" /\ attempt \in blobs
                            \/ ending[attempt] \in Fatal

LEMMA VerdictInit == Init => VerdictInv
BY DEF Init, VerdictInv

LEMMA VerdictStep == TypeInv /\ VerdictInv /\ [Next]_vars => VerdictInv'
<1> SUFFICES ASSUME TypeInv, VerdictInv, [Next]_vars
             PROVE  VerdictInv'
  OBVIOUS
<1> USE DEF TypeInv, TypeOK, Started, PollsLeft, VerdictInv, Truthful, Exit, Submissions
<1>1. CASE Start
  BY <1>1 DEF Start
<1>2. CASE Kill \/ StartSucceeds \/ ActivationFails \/ SaveFails
  BY <1>2 DEF Kill, StartSucceeds, ActivationFails, SaveFails
<1>3. CASE StartFails
  BY <1>3 DEF StartFails, CompletesRun, Fatal
<1>4. CASE AlgorithmEnds
  BY <1>4 DEF AlgorithmEnds, IsTransient, Endings, Fatal
<1>5. CASE Save
  BY <1>5 DEF Save
<1>6. CASE Submit
  <2>1. /\ Verdict.by = attempt
        /\ Verdict.kind = "success" => attempt \in blobs /\ ending[attempt] = "result"
        /\ Verdict.kind = "failure" => ending[attempt] \in Fatal
    BY <1>6 DEF Submit, Verdict, Fatal
  <2> QED
    BY <1>6, <2>1 DEF Submit
<1>7. CASE Acknowledged \/ NotAcknowledged \/ Finish
  BY <1>7 DEF Acknowledged, NotAcknowledged, Finish
<1>8. CASE Receive
  BY <1>8 DEF Receive
<1>9. CASE UNCHANGED vars
  BY <1>9 DEF vars
<1> QED
  BY <1>1, <1>2, <1>3, <1>4, <1>5, <1>6, <1>7, <1>8, <1>9 DEF Next, ProcessStep

LEMMA VerdictSafe == VerdictInv => SuccessHasResult /\ FailureIsFatal
BY DEF VerdictInv, Truthful, SuccessHasResult, FailureIsFatal, Fatal

(* A success on record has a saved result behind it. *)
THEOREM SuccessesHaveResults == Spec => []SuccessHasResult
BY VerdictSafe, TypeInit, TypeStep, VerdictInit, VerdictStep, PTL DEF Spec

(* A failure is only reported by a process that failed for good: never by  *)
(* one that failed transiently, however many restarts there are.           *)
THEOREM FailuresAreFatal == Spec => []FailureIsFatal
BY VerdictSafe, TypeInit, TypeStep, VerdictInit, VerdictStep, PTL DEF Spec

-----------------------------------------------------------------------------
(* Failed starts *)

Handled == {"validation", "configuration", "httpFatal"}

Reported == \E m \in sent : m.by = attempt /\ m.kind = "failure"

(* How a process ended is unknown before it ends; once it is a failed      *)
(* start with a handler, the process goes on to report it, or is killed.   *)
StartInv ==
    /\ \A n \in 1 .. MaxAttempts : n > attempt => ending[n] = "none"
    /\ pc \in {"starting", "running"} => ending[attempt] = "none"
    /\ pc # "down" /\ ending[attempt] \in Handled =>
          pc = "submitting" \/ (pc = "exited" /\ killed) \/ Reported

LEMMA StartInvStep == TypeInv /\ StartInv /\ [Next]_vars => StartInv'
<1> SUFFICES ASSUME TypeInv, StartInv, [Next]_vars
             PROVE  StartInv'
  OBVIOUS
<1> USE DEF TypeInv, TypeOK, Started, PollsLeft, StartInv, Reported, Handled, Exit
<1>1. CASE Start
  <2>1. attempt' = attempt + 1 /\ attempt' \in 1 .. MaxAttempts
    BY <1>1 DEF Start
  <2>2. ending'[attempt'] = "none" /\ \A n \in 1 .. MaxAttempts : n > attempt' => ending'[n] = "none"
    BY <1>1, <2>1 DEF Start
  <2> QED
    BY <2>2
<1>2. CASE Kill \/ StartSucceeds \/ ActivationFails \/ SaveFails \/ Save
  BY <1>2 DEF Kill, StartSucceeds, ActivationFails, SaveFails, Save
<1>3. CASE StartFails
  <2>1. PICK kind \in StartupFailures :
           /\ ending' = [ending EXCEPT ![attempt] = kind]
           /\ CompletesRun(kind) => pc' = "submitting"
           /\ pc' \in {"submitting", "exited"}
    BY <1>3 DEF StartFails
  <2> QED
    BY <1>3, <2>1 DEF StartFails, CompletesRun
<1>4. CASE AlgorithmEnds
  BY <1>4 DEF AlgorithmEnds, IsTransient, Endings
<1>5. CASE Submit
  <2>1. ending[attempt] \in Handled => Verdict.by = attempt /\ Verdict.kind = "failure"
    BY DEF Verdict
  <2> QED
    BY <1>5, <2>1 DEF Submit
<1>6. CASE Acknowledged \/ NotAcknowledged \/ Finish
  BY <1>6 DEF Acknowledged, NotAcknowledged, Finish
<1>7. CASE Receive
  BY <1>7 DEF Receive
<1>8. CASE UNCHANGED vars
  BY <1>8 DEF vars
<1> QED
  BY <1>1, <1>2, <1>3, <1>4, <1>5, <1>6, <1>7, <1>8 DEF Next, ProcessStep

LEMMA StartInvInit == Init => StartInv
BY DEF Init, StartInv

LEMMA StartSafe == StartInv => HandledStartReported
BY DEF StartInv, HandledStartReported, Reported, Handled

(* A failed start with a handler of its own is reported by the process     *)
(* that failed, unless it is killed, for every number of restarts.         *)
THEOREM HandledStartsAreReported == Spec => []HandledStartReported
BY StartSafe, TypeInit, TypeStep, StartInvInit, StartInvStep, PTL DEF Spec

-----------------------------------------------------------------------------
(* The run comes to rest: what can be said of it without fairness *)

(* No process takes more steps than this from where it is. *)
StepsLeft ==
    CASE pc = "starting"   -> AckTries + 5
      [] pc = "running"    -> AckTries + 4
      [] pc = "saving"     -> AckTries + 3
      [] pc = "submitting" -> AckTries + 2
      [] pc = "acking"     -> AckTries - acks + 1
      [] pc = "telemetry"  -> 1
      [] OTHER             -> 0

(* The polls are counted from 0 when the submission is made. *)
Unpolled == pc \in {"starting", "running", "saving", "submitting"} => acks = 0

LEMMA UnpolledStep == TypeInv /\ Unpolled /\ [Next]_vars => Unpolled'
<1> SUFFICES ASSUME TypeInv, Unpolled, [Next]_vars
             PROVE  Unpolled'
  OBVIOUS
<1> USE DEF Unpolled, Exit
<1>1. CASE Start \/ Kill \/ StartFails \/ StartSucceeds \/ ActivationFails \/ AlgorithmEnds
  BY <1>1 DEF Start, Kill, StartFails, StartSucceeds, ActivationFails, AlgorithmEnds
<1>2. CASE Save \/ SaveFails \/ Submit \/ Acknowledged \/ NotAcknowledged \/ Finish
  BY <1>2 DEF Save, SaveFails, Submit, Acknowledged, NotAcknowledged, Finish
<1>3. CASE Receive \/ UNCHANGED vars
  BY <1>3 DEF Receive, vars
<1> QED
  BY <1>1, <1>2, <1>3 DEF Next, ProcessStep

(* Steps of the process, and its end by a signal, bring it nearer to its   *)
(* end; the receiver does not delay it.                                    *)
Shortens ==
    /\ ProcessStep \/ Kill => StepsLeft' < StepsLeft /\ attempt' = attempt
    /\ Receive => StepsLeft' = StepsLeft /\ attempt' = attempt
    /\ Start => attempt < attempt' /\ attempt' <= MaxAttempts

LEMMA StepShortens == TypeInv /\ Unpolled => Shortens
<1> SUFFICES ASSUME TypeInv, Unpolled
             PROVE  Shortens
  OBVIOUS
<1> USE DEF TypeInv, TypeOK, PollsLeft, Unpolled, StepsLeft, Exit
<1>1. ASSUME Kill
      PROVE  StepsLeft' < StepsLeft /\ attempt' = attempt
  BY <1>1 DEF Kill
<1>2. ASSUME StartFails \/ StartSucceeds \/ ActivationFails \/ AlgorithmEnds
      PROVE  StepsLeft' < StepsLeft /\ attempt' = attempt
  BY <1>2 DEF StartFails, StartSucceeds, ActivationFails, AlgorithmEnds
<1>3. ASSUME Save \/ SaveFails \/ Submit \/ Finish
      PROVE  StepsLeft' < StepsLeft /\ attempt' = attempt
  BY <1>3 DEF Save, SaveFails, Submit, Finish
<1>4. ASSUME Acknowledged \/ NotAcknowledged
      PROVE  StepsLeft' < StepsLeft /\ attempt' = attempt
  BY <1>4 DEF Acknowledged, NotAcknowledged
<1>5. ASSUME Receive
      PROVE  StepsLeft' = StepsLeft /\ attempt' = attempt
  BY <1>5 DEF Receive
<1>6. ASSUME Start
      PROVE  attempt < attempt' /\ attempt' <= MaxAttempts
  BY <1>6 DEF Start
<1> QED
  BY <1>1, <1>2, <1>3, <1>4, <1>5, <1>6 DEF Shortens, ProcessStep

(* Neither polls nor restarts go on for ever: a process has AckTries + 5   *)
(* steps at most, every one of them uses one up, and each start uses up an *)
(* attempt.  What RunComesToRest adds is that the steps are taken.         *)
THEOREM RunsWindDown == Spec => [](StepsLeft \in 0 .. AckTries + 5) /\ [][Shortens]_vars
<1>1. TypeInv => StepsLeft \in 0 .. AckTries + 5
  BY DEF TypeInv, TypeOK, StepsLeft
<1>2. Init => Unpolled
  BY DEF Init, Unpolled
<1> QED
  BY <1>1, <1>2, TypeInit, TypeStep, UnpolledStep, StepShortens, PTL DEF Spec

-----------------------------------------------------------------------------
(* All of it, for modules that implement NexusRun *)

RunInv == TypeInv /\ ReceiptInv /\ VerdictInv /\ StartInv

LEMMA RunInit == Init => RunInv
BY TypeInit, ReceiptInit, VerdictInit, StartInvInit DEF RunInv

LEMMA RunStep == RunInv /\ [Next]_vars => RunInv'
BY TypeStep, ReceiptStep, VerdictStep, StartInvStep DEF RunInv

LEMMA RunSafe ==
    RunInv => ExitZeroRecorded /\ SuccessHasResult /\ FailureIsFatal /\ HandledStartReported
BY ReceiptSafe, VerdictSafe, StartSafe DEF RunInv
=============================================================================
