----------------------- MODULE CreateAndAwaitProofs -----------------------
(***************************************************************************)
(* Theorems about CreateAndAwait, for every set of calls, number of        *)
(* executions and size of the pool.                                        *)
(***************************************************************************)
EXTENDS CreateAndAwait, FiniteSetTheorems, TLAPS

USE CallAssumption DEF CallAssumption

WorkingCalls == {c \in Calls : pc[c] \in Working}

(* TypeOK without the bound on the threads and the log of errors *)
Types ==
    /\ pc \in [Calls -> {"idle", "queued", "sleeping"} \cup Working \cup Over]
    /\ try \in [Calls -> 0 .. RetryCount]
    /\ stage \in [Calls -> [Tries -> {"absent", "live", "ended", "SCHEDULING_FAILED"}]]
    /\ abandoned \in [Calls -> SUBSET Tries]

Failed == {"absent", "SCHEDULING_FAILED"}

(* The strengthening, for one call: what is known of the executions before *)
(* the current one, of the current one, and of those to come.              *)
Before(c) == \A t \in Awaited(c) : t < try[c] => stage[c][t] \in Failed

Current(c) ==
    /\ pc[c] \in {"idle", "queued", "sleeping", "returned"} \cup Working => try[c] \in Tries
    /\ pc[c] \in {"idle", "queued", "creating"} => stage[c][try[c]] = "absent"
    /\ pc[c] \in {"idle", "queued", "returned"} \cup Working => try[c] \notin abandoned[c]
    /\ pc[c] \in {"sleeping", "raised", "empty"} =>
          \A t \in Awaited(c) : t = try[c] => stage[c][t] \in Failed
    /\ pc[c] = "returned" => stage[c][try[c]] = "ended"

After(c) == \A t \in Tries : try[c] < t => stage[c][t] = "absent" /\ t \notin abandoned[c]

LogType == raised \in [Calls -> Seq(PolicyErrors)]

IInv == Types /\ LogType /\ \A c \in Calls : Before(c) /\ Current(c) /\ After(c)

CallInv(c) == Before(c) /\ Current(c) /\ After(c)

(* What a step leaves alone of a call *)
Same(c) ==
    /\ pc'[c] = pc[c] /\ try'[c] = try[c]
    /\ stage'[c] = stage[c] /\ abandoned'[c] = abandoned[c]

-----------------------------------------------------------------------------
LEMMA FirstTry == 0 \in Tries /\ Tries \subseteq 0 .. RetryCount
BY DEF Tries

LEMMA InvInit == Init => IInv
<1> SUFFICES ASSUME Init
             PROVE  IInv
  OBVIOUS
<1> USE FirstTry DEF Init
<1>1. Types
  BY DEF Types
<1>2. ASSUME NEW c \in Calls
      PROVE  Before(c) /\ Current(c) /\ After(c)
  BY <1>2 DEF Before, Current, After, Awaited, Failed, Working
<1>3. LogType
  BY DEF LogType
<1> QED
  BY <1>1, <1>2, <1>3 DEF IInv

(* Every step keeps the types. *)
LEMMA TypesStep == ASSUME Types, \A c \in Calls : Current(c), [Next]_vars PROVE Types'
<1> USE FirstTry DEF Types, Working, Over
<1>1. ASSUME NEW c \in Calls, Call(c)
      PROVE  Types'
  BY <1>1 DEF Call, Goto
<1>2. ASSUME NEW c \in Calls, TakeThread(c)
      PROVE  Types'
  BY <1>2 DEF TakeThread, Goto
<1>3. ASSUME NEW c \in Calls, CreateRun(c)
      PROVE  Types'
  <2>1. try[c] \in Tries
    BY <1>3 DEF Current, CreateRun
  <2> QED
    BY <1>3, <2>1 DEF CreateRun, Goto
<1>4. ASSUME NEW c \in Calls, CreateFails(c)
      PROVE  Types'
  BY <1>4 DEF CreateFails, Retried, Passed, Goto
<1>5. ASSUME NEW c \in Calls, Callback(c)
      PROVE  Types'
  <2>1. try[c] \in Tries
    BY <1>5 DEF Current, Callback
  <2> QED
    BY <1>5, <2>1 DEF Callback, Passed, Abandon, Goto
<1>6. ASSUME NEW c \in Calls, AwaitFails(c)
      PROVE  Types'
  <2>1. try[c] \in Tries
    BY <1>6 DEF Current, AwaitFails
  <2> QED
    BY <1>6, <2>1 DEF AwaitFails, Retried, Passed, Abandon, Goto
<1>7. ASSUME NEW c \in Calls, AwaitRun(c)
      PROVE  Types'
  BY <1>7 DEF AwaitRun, Retried, Goto
<1>8. ASSUME NEW c \in Calls, Wake(c)
      PROVE  Types'
  <2>1. try[c] \in Tries /\ try[c] + 1 \in 0 .. RetryCount
    BY <1>8 DEF Current, Wake, Tries
  <2> QED
    BY <1>8, <2>1 DEF Wake, Exhausted, Goto
<1>9. ASSUME NEW c \in Calls, NEW t \in Tries, RunEnds(c, t)
      PROVE  Types'
  BY <1>9 DEF RunEnds
<1>10. CASE UNCHANGED vars
  BY <1>10 DEF vars
<1> QED
  BY <1>1, <1>2, <1>3, <1>4, <1>5, <1>6, <1>7, <1>8, <1>9, <1>10 DEF Next, CallStep

(* So does the log: an error is added to it, or it stays as it is. *)
LEMMA LogStep == ASSUME LogType, [Next]_vars PROVE LogType'
<1>1. ASSUME NEW c \in Calls, NEW e \in PolicyErrors, Raised(c, e)
      PROVE  LogType'
  <2>1. raised[c] \in Seq(PolicyErrors)
    BY DEF LogType
  <2>2. Append(raised[c], e) \in Seq(PolicyErrors)
    BY <2>1
  <2> QED
    BY <1>1, <2>2 DEF LogType, Raised
<1>2. ASSUME NEW c \in Calls, Call(c) \/ TakeThread(c) \/ CreateRun(c) \/ CreateFails(c)
      PROVE  raised' = raised \/ \E e \in PolicyErrors : Raised(c, e)
  BY <1>2 DEF Call, TakeThread, CreateRun, CreateFails, Retried, Passed, PolicyErrors
<1>3. ASSUME NEW c \in Calls, Callback(c) \/ AwaitRun(c) \/ AwaitFails(c) \/ Wake(c)
      PROVE  raised' = raised \/ \E e \in PolicyErrors : Raised(c, e)
  BY <1>3 DEF Callback, AwaitRun, AwaitFails, Wake, Retried, Passed, PolicyErrors
<1>4. ASSUME raised' = raised
      PROVE  LogType'
  BY <1>4 DEF LogType
<1>5. ASSUME NEW c \in Calls, NEW t \in Tries, RunEnds(c, t)
      PROVE  raised' = raised
  BY <1>5 DEF RunEnds
<1>6. CASE UNCHANGED vars
  BY <1>4, <1>6 DEF vars
<1> QED
  BY <1>1, <1>2, <1>3, <1>4, <1>5, <1>6 DEF Next, CallStep

(* A step of the environment or of another call leaves a call as it is. *)
LEMMA SameKeeps == ASSUME NEW c \in Calls, CallInv(c), Same(c) PROVE CallInv(c)'
BY DEF CallInv, Same, Before, Current, After, Awaited

LEMMA CallKeeps ==
    ASSUME Types, Types', NEW c \in Calls, CallInv(c), Call(c) \/ CallStep(c)
    PROVE  CallInv(c)'
<1> USE FirstTry DEF Types, Working, Over, CallInv, Before, Current, After, Awaited, Failed
<1>1. CASE Call(c)
  BY <1>1 DEF Call, Goto
<1>2. CASE TakeThread(c)
  BY <1>2 DEF TakeThread, Goto
<1>3. CASE CreateRun(c)
  BY <1>3 DEF CreateRun, Goto, Tries
<1>4. CASE CreateFails(c)
  BY <1>4 DEF CreateFails, Retried, Passed, Goto
<1>5. CASE Callback(c)
  BY <1>5 DEF Callback, Passed, Abandon, Goto, Tries
<1>6. CASE AwaitFails(c)
  BY <1>6 DEF AwaitFails, Retried, Passed, Abandon, Goto, Tries
<1>7. CASE AwaitRun(c)
  BY <1>7 DEF AwaitRun, Retried, Stage, Goto
<1>8. CASE Wake(c)
  BY <1>8 DEF Wake, Exhausted, Goto, Tries
<1> QED
  BY <1>1, <1>2, <1>3, <1>4, <1>5, <1>6, <1>7, <1>8 DEF CallStep

(* A run that ends is one that the call awaits, or has abandoned. *)
LEMMA EndKeeps ==
    ASSUME Types, NEW c \in Calls, CallInv(c), NEW t \in Tries, RunEnds(c, t)
    PROVE  CallInv(c)'
BY FirstTry DEF Types, Working, Over, CallInv, Before, Current, After, Awaited, Failed, RunEnds, Tries

LEMMA InvStep == IInv /\ [Next]_vars => IInv'
<1> SUFFICES ASSUME IInv, [Next]_vars
             PROVE  IInv'
  OBVIOUS
<1>1. Types /\ \A c \in Calls : CallInv(c)
  BY DEF IInv, CallInv
<1>2. Types'
  BY <1>1, TypesStep DEF CallInv
<1>4. LogType'
  BY LogStep DEF IInv
<1>3. ASSUME NEW c \in Calls
      PROVE  CallInv(c)'
  <2>1. ASSUME NEW d \in Calls, Call(d) \/ CallStep(d)
        PROVE  CallInv(c)'
    <3>1. CASE d = c
      BY <1>1, <1>2, <2>1, <3>1, CallKeeps
    <3>2. CASE d # c
      <4>1. Same(c)
        BY <1>1, <2>1, <3>2
           DEF Types, Same, Call, CallStep, TakeThread, CreateRun, CreateFails, Callback,
               AwaitFails, AwaitRun, Wake, Retried, Passed, Abandon, Goto
      <4> QED
        BY <1>1, <4>1, SameKeeps
    <3> QED
      BY <3>1, <3>2
  <2>2. ASSUME NEW d \in Calls, NEW t \in Tries, RunEnds(d, t)
        PROVE  CallInv(c)'
    <3>1. CASE d = c
      BY <1>1, <2>2, <3>1, EndKeeps
    <3>2. CASE d # c
      <4>1. Same(c)
        BY <1>1, <2>2, <3>2 DEF Types, Same, RunEnds
      <4> QED
        BY <1>1, <4>1, SameKeeps
    <3> QED
      BY <3>1, <3>2
  <2>3. CASE UNCHANGED vars
    <3>1. Same(c)
      BY <2>3 DEF vars, Same
    <3> QED
      BY <1>1, <3>1, SameKeeps
  <2> QED
    BY <2>1, <2>2, <2>3 DEF Next
<1> QED
  BY <1>2, <1>3, <1>4 DEF IInv, CallInv

LEMMA Invariant == Spec => []IInv
BY InvInit, InvStep, PTL DEF Spec

-----------------------------------------------------------------------------
(* The pool *)

PoolInv == IsFiniteSet(WorkingCalls) /\ Cardinality(WorkingCalls) <= PoolSize

LEMMA FiniteCalls == IsFiniteSet(WorkingCalls) /\ Cardinality(WorkingCalls) \in Nat
<1>1. WorkingCalls \subseteq Calls
  BY DEF WorkingCalls
<1>2. IsFiniteSet(WorkingCalls)
  BY <1>1, FS_Subset
<1> QED
  BY <1>2, FS_CardinalityType

LEMMA PoolInit == Init => PoolInv
<1> SUFFICES ASSUME Init
             PROVE  PoolInv
  OBVIOUS
<1>1. WorkingCalls = {}
  BY DEF WorkingCalls, Init, Working
<1> QED
  BY <1>1, FS_EmptySet DEF PoolInv

(* Only TakeThread adds to the working calls. *)
LEMMA PoolStep == Types /\ PoolInv /\ [Next]_vars => PoolInv'
<1> SUFFICES ASSUME Types, PoolInv, [Next]_vars
             PROVE  PoolInv'
  OBVIOUS
<1>1. ASSUME NEW c \in Calls, TakeThread(c)
      PROVE  PoolInv'
  <2>1. WorkingCalls' = WorkingCalls \cup {c}
    BY <1>1 DEF WorkingCalls, TakeThread, Goto, Working, Types
  <2>2. c \notin WorkingCalls
    BY <1>1 DEF WorkingCalls, TakeThread, Working
  <2>3. /\ IsFiniteSet(WorkingCalls \cup {c})
        /\ Cardinality(WorkingCalls \cup {c}) = Cardinality(WorkingCalls) + 1
    BY <2>2, FS_AddElement, FiniteCalls
  <2>4. Cardinality(WorkingCalls) < PoolSize
    BY <1>1 DEF TakeThread, PoolHasThread, WorkingCalls
  <2> HIDE DEF WorkingCalls
  <2> QED
    BY <2>1, <2>3, <2>4, FiniteCalls DEF PoolInv
<1>2. ASSUME WorkingCalls' \subseteq WorkingCalls
      PROVE  PoolInv'
  <2>1. /\ IsFiniteSet(WorkingCalls') /\ Cardinality(WorkingCalls') \in Nat
        /\ Cardinality(WorkingCalls') <= Cardinality(WorkingCalls)
    BY <1>2, FiniteCalls, FS_Subset, FS_CardinalityType
  <2> QED
    BY <2>1, FiniteCalls DEF PoolInv
<1> USE DEF WorkingCalls, Types, Working, Over
<1>3. ASSUME NEW c \in Calls, Call(c)
      PROVE  WorkingCalls' \subseteq WorkingCalls
  BY <1>3 DEF Call, Goto
<1>4. ASSUME NEW c \in Calls, CreateRun(c) \/ CreateFails(c) \/ Callback(c)
      PROVE  WorkingCalls' \subseteq WorkingCalls
  BY <1>4 DEF CreateRun, CreateFails, Callback, Retried, Passed, Goto
<1>5. ASSUME NEW c \in Calls, AwaitRun(c) \/ AwaitFails(c)
      PROVE  WorkingCalls' \subseteq WorkingCalls
  BY <1>5 DEF AwaitRun, AwaitFails, Retried, Passed, Goto
<1>6. ASSUME NEW c \in Calls, Wake(c)
      PROVE  WorkingCalls' \subseteq WorkingCalls
  BY <1>6 DEF Wake, Exhausted, Goto
<1>7. ASSUME NEW c \in Calls, NEW t \in Tries, RunEnds(c, t)
      PROVE  WorkingCalls' \subseteq WorkingCalls
  BY <1>7 DEF RunEnds
<1>8. ASSUME UNCHANGED vars
      PROVE  WorkingCalls' \subseteq WorkingCalls
  BY <1>8 DEF vars
<1> HIDE DEF WorkingCalls, Types, Working, Over
<1> QED
  BY <1>1, <1>2, <1>3, <1>4, <1>5, <1>6, <1>7, <1>8 DEF Next, CallStep

(* The state keeps its types; in particular, never more calls hold a       *)
(* thread than the pool has.                                               *)
THEOREM TypeCorrect == Spec => []TypeOK
<1>1. Init => IInv /\ PoolInv
  BY InvInit, PoolInit
<1>2. IInv /\ PoolInv /\ [Next]_vars => (IInv /\ PoolInv)'
  BY InvStep, PoolStep DEF IInv
<1>3. IInv /\ PoolInv => TypeOK
  BY DEF IInv, Types, LogType, Current, PoolInv, WorkingCalls, TypeOK
<1> QED
  BY <1>1, <1>2, <1>3, PTL DEF Spec

-----------------------------------------------------------------------------
(* A run that was awaited without an error is only created again because   *)
(* it was not scheduled.                                                   *)
THEOREM ReschedulesAreForFailures == Spec => []AwaitedRescheduledOnlyOnFailure
<1>1. IInv => AwaitedRescheduledOnlyOnFailure
  BY FirstTry DEF IInv, Types, AwaitedRescheduledOnlyOnFailure, Before, After, Awaited, Failed, Tries
<1> QED
  BY <1>1, Invariant, PTL

(* A call that is over leaves no run behind that it awaited.               *)
THEOREM NoneLeftRunning == Spec => []NothingLeftRunning
<1>1. IInv => NothingLeftRunning
  BY FirstTry DEF IInv, Types, NothingLeftRunning, Before, Current, After, Awaited, Failed, Over, Tries
<1> QED
  BY <1>1, Invariant, PTL

(* A call returns the end of the one run it awaited that was scheduled,    *)
(* and loses no result.                                                    *)
THEOREM ResultsAreOfTheRun == Spec => []ResultIsOfTheRun
<1>1. ASSUME IInv, NEW c \in Calls, pc[c] \in Over
      PROVE  {t \in Awaited(c) : stage[c][t] = "ended"} = {t \in {try[c]} : pc[c] = "returned"}
  <2>1. ASSUME NEW t \in Awaited(c), stage[c][t] = "ended"
        PROVE  t = try[c] /\ pc[c] = "returned"
    BY <1>1, <2>1, FirstTry DEF IInv, Types, Before, Current, After, Awaited, Failed, Over, Tries
  <2>2. ASSUME pc[c] = "returned"
        PROVE  try[c] \in Awaited(c) /\ stage[c][try[c]] = "ended"
    BY <1>1, <2>2 DEF IInv, Current, Awaited
  <2> QED
    BY <2>1, <2>2
<1>2. IInv => ResultIsOfTheRun
  BY <1>1 DEF ResultIsOfTheRun
<1> QED
  BY <1>2, Invariant, PTL

-----------------------------------------------------------------------------
(* The refinement of RetryPolicy *)

Untried == \A c \in Calls : pc[c] = "idle" => try[c] = 0

LEMMA UntriedStep == Types /\ Untried /\ [Next]_vars => Untried'
<1> SUFFICES ASSUME Types, Untried, [Next]_vars
             PROVE  Untried'
  OBVIOUS
<1> USE DEF Types, Untried, Working, Over
<1>1. ASSUME NEW c \in Calls, Call(c) \/ CallStep(c)
      PROVE  Untried'
  BY <1>1 DEF Call, CallStep, TakeThread, CreateRun, CreateFails, Callback, AwaitFails,
              AwaitRun, Wake, Exhausted, Retried, Passed, Abandon, Goto
<1>2. ASSUME NEW c \in Calls, NEW t \in Tries, RunEnds(c, t)
      PROVE  Untried'
  BY <1>2 DEF RunEnds
<1>3. CASE UNCHANGED vars
  BY <1>3 DEF vars
<1> QED
  BY <1>1, <1>2, <1>3 DEF Next

(* What the policy sees of one call *)
PcOf(c) == IF pc[c] \in {"queued"} \cup Working THEN "executing" ELSE pc[c]
ErrorOf(c) == IF pc[c] # "raised" THEN "NoError"
              ELSE IF PassedOn(c) THEN "other" ELSE "RetryExhausted"

(* Nothing that the policy sees of a call, but for its log, has changed. *)
Unseen(c) ==
    /\ PcOf(c)' = PcOf(c) /\ ErrorOf(c)' = ErrorOf(c)
    /\ pc'[c] = "idle" <=> pc[c] = "idle"

(* What a step does to the state of the policy *)

LEMMA SameIsUnseen == ASSUME NEW c \in Calls, Same(c) PROVE Unseen(c)
BY DEF Same, Unseen, PcOf, ErrorOf, PassedOn

LEMMA PolicyUpdate ==
    ASSUME NEW c \in Calls, \A d \in Calls \ {c} : Unseen(d)
    PROVE  /\ PolicyPc' = [PolicyPc EXCEPT ![c] = PcOf(c)']
           /\ PolicyError' = [PolicyError EXCEPT ![c] = ErrorOf(c)']
           /\ (pc'[c] = "idle" <=> pc[c] = "idle") => PolicyTypes' = PolicyTypes
<1> USE DEF Unseen
<1>1. PolicyPc' = [PolicyPc EXCEPT ![c] = PcOf(c)']
  BY DEF PolicyPc, PcOf
<1>2. PolicyError' = [PolicyError EXCEPT ![c] = ErrorOf(c)']
  BY DEF PolicyError, ErrorOf
<1>3. (pc'[c] = "idle" <=> pc[c] = "idle") => PolicyTypes' = PolicyTypes
  BY DEF PolicyTypes
<1> QED
  BY <1>1, <1>2, <1>3

LEMMA UnseenIsStutter ==
    ASSUME \A c \in Calls : Unseen(c), UNCHANGED <<try, raised>>
    PROVE  UNCHANGED Policy!vars
<1> USE DEF Unseen
<1>1. PolicyPc' = PolicyPc
  BY DEF PolicyPc, PcOf
<1>2. PolicyError' = PolicyError
  BY DEF PolicyError, ErrorOf
<1>3. PolicyTypes' = PolicyTypes
  BY DEF PolicyTypes
<1> QED
  BY <1>1, <1>2, <1>3 DEF Policy!vars

(* The steps within an execution are not seen. *)
LEMMA WithinUnseen ==
    ASSUME Types, NEW c \in Calls,
           \/ TakeThread(c) \/ CreateRun(c)
           \/ /\ pc[c] = "created" /\ Goto(c, "awaiting")
              /\ UNCHANGED <<try, stage, abandoned, raised>>
    PROVE  Unseen(c) /\ UNCHANGED <<try, raised>>
<1>1. pc[c] \in {"queued", "creating", "created"} /\ pc'[c] \in Working
  BY DEF Types, TakeThread, CreateRun, Goto, Working
<1>2. UNCHANGED <<try, raised>>
  BY DEF TakeThread, CreateRun
<1> QED
  BY <1>1, <1>2 DEF Unseen, PcOf, ErrorOf, Working

(* An execution that raises an error of the two retried types *)
LEMMA RetriedIsRaised ==
    ASSUME Types, NEW c \in Calls, NEW e \in {"NetworkError", "NexusSchedulingError"},
           pc[c] \in Working, Retried(c, e), \A d \in Calls \ {c} : Unseen(d)
    PROVE  Policy!FunctionRaises(c)
<1>1. try' = try /\ pc' = [pc EXCEPT ![c] = "sleeping"]
  BY DEF Retried, Goto
<1>2. PcOf(c)' = "sleeping" /\ ErrorOf(c)' = "NoError" /\ ErrorOf(c) = "NoError" /\ PcOf(c) = "executing"
  BY <1>1 DEF PcOf, ErrorOf, Types, Working
<1>3. /\ PolicyPc[c] = "executing" /\ PolicyPc' = [PolicyPc EXCEPT ![c] = "sleeping"]
      /\ PolicyTypes' = PolicyTypes
  BY <1>1, <1>2, PolicyUpdate DEF PolicyPc, PcOf, Types, Working
<1>4. PolicyError' = PolicyError
  BY <1>2, PolicyUpdate DEF PolicyError, ErrorOf
<1>5. Policy!IsTransient(c, e)
  BY DEF Policy!IsTransient, Policy!BuilderOf, PolicyTypes, PolicyErrors, Working
<1>6. raised' = [raised EXCEPT ![c] = Append(@, e)] /\ e \in PolicyErrors
  BY DEF Retried, Raised, PolicyErrors
<1> QED
  BY <1>1, <1>3, <1>4, <1>5, <1>6 DEF Policy!FunctionRaises

(* An execution that raises anything else *)
LEMMA PassedIsRaised ==
    ASSUME Types, NEW c \in Calls, CallInv(c), pc[c] \in Working, Passed(c),
           \A d \in Calls \ {c} : Unseen(d)
    PROVE  Policy!FunctionRaises(c)
<1>1. /\ try[c] < RetryCount /\ try' = try
      /\ pc'[c] = "raised" /\ pc[c] # "raised" /\ pc[c] # "idle"
  BY DEF CallInv, Current, Passed, Goto, Types, Tries, Working
<1>2. PassedOn(c)' /\ ~PassedOn(c)
  BY <1>1 DEF PassedOn
<1>3. PcOf(c)' = "raised" /\ ErrorOf(c)' = "other" /\ PcOf(c) = "executing"
  BY <1>1, <1>2 DEF PcOf, ErrorOf, Working
<1>4. /\ PolicyPc[c] = "executing" /\ PolicyPc' = [PolicyPc EXCEPT ![c] = "raised"]
      /\ PolicyError' = [PolicyError EXCEPT ![c] = "other"]
      /\ PolicyTypes' = PolicyTypes
  BY <1>1, <1>3, PolicyUpdate DEF PolicyPc, PcOf
<1>5. ~Policy!IsTransient(c, "other")
  BY <1>1 DEF Policy!IsTransient, Policy!BuilderOf, PolicyTypes, PolicyErrors
<1>6. raised' = [raised EXCEPT ![c] = Append(@, "other")] /\ "other" \in PolicyErrors
  BY DEF Passed, Raised, PolicyErrors
<1> QED
  BY <1>1, <1>4, <1>5, <1>6 DEF Policy!FunctionRaises, Policy!End

(* The step of a call, by what the policy sees of it *)
LEMMA CallIsExecuted ==
    ASSUME Types, Untried, NEW c \in Calls, CallInv(c), Call(c), \A d \in Calls \ {c} : Unseen(d)
    PROVE  Policy!Execute(c)
<1>1. /\ pc[c] = "idle" /\ pc'[c] = "queued" /\ try[c] = 0 /\ try' = try
      /\ raised' = raised
  BY DEF Call, Goto, Types, Untried
<1>2. PcOf(c)' = "executing" /\ ErrorOf(c)' = "NoError" /\ ErrorOf(c) = "NoError"
  BY <1>1 DEF PcOf, ErrorOf
<1>3. /\ PolicyPc[c] = "idle" /\ PolicyPc' = [PolicyPc EXCEPT ![c] = "executing"]
      /\ PolicyError' = PolicyError
  <2>1. PolicyPc[c] = "idle" /\ PolicyError[c] = "NoError"
    BY <1>1, <1>2 DEF PolicyPc, PolicyError, ErrorOf, Working
  <2>2. PolicyPc' = [PolicyPc EXCEPT ![c] = "executing"]
    BY <1>2, PolicyUpdate
  <2>3. PolicyError' = [PolicyError EXCEPT ![c] = "NoError"]
    BY <1>2, PolicyUpdate
  <2>4. PolicyError' = PolicyError
    BY <2>1, <2>3 DEF PolicyError
  <2> QED
    BY <2>1, <2>2, <2>4
<1>4. PolicyTypes' = [PolicyTypes EXCEPT ![c] = @ \cup {"NexusSchedulingError"}]
  BY <1>1 DEF PolicyTypes, Unseen
<1>5. try' = [try EXCEPT ![c] = 0] /\ 0 < RetryCount
  BY <1>1 DEF Types
<1> QED
  BY <1>1, <1>3, <1>4, <1>5 DEF Policy!Execute, Policy!Try, Policy!BuilderOf

LEMMA EndIsReturned ==
    ASSUME Types, NEW c \in Calls, pc[c] = "awaiting", Goto(c, "returned"),
           UNCHANGED <<try, stage, abandoned, raised>>, \A d \in Calls \ {c} : Unseen(d)
    PROVE  Policy!FunctionReturns(c)
<1>1. pc'[c] = "returned"
  BY DEF Goto, Types
<1>2. PcOf(c)' = "returned" /\ ErrorOf(c)' = "NoError"
  BY <1>1 DEF PcOf, ErrorOf, Working
<1>3. /\ PolicyPc[c] = "executing" /\ PolicyPc' = [PolicyPc EXCEPT ![c] = "returned"]
      /\ PolicyError' = [PolicyError EXCEPT ![c] = "NoError"]
      /\ PolicyTypes' = PolicyTypes
  BY <1>1, <1>2, PolicyUpdate DEF PolicyPc, Working
<1> QED
  BY <1>3 DEF Policy!FunctionReturns, Policy!End

LEMMA WakeIsDelayOver ==
    ASSUME Types, NEW c \in Calls, CallInv(c), Wake(c), \A d \in Calls \ {c} : Unseen(d)
    PROVE  Policy!DelayOver(c)
<1>1. /\ pc[c] = "sleeping" /\ try[c] \in Tries /\ try' = [try EXCEPT ![c] = try[c] + 1]
      /\ raised' = raised
      /\ pc'[c] = IF try[c] + 1 < RetryCount THEN "queued" ELSE Exhausted(c)
  BY DEF Wake, Goto, Types, CallInv, Current
<1>2. try[c] \in Nat /\ try[c] + 1 <= RetryCount /\ try'[c] = try[c] + 1
  BY <1>1 DEF Types, Tries
<1>3. ~PassedOn(c) /\ ~PassedOn(c)'
  BY <1>1, <1>2 DEF PassedOn
<1>5. /\ PolicyPc[c] = "sleeping" /\ PolicyTypes' = PolicyTypes
      /\ PolicyPc' = [PolicyPc EXCEPT ![c] = PcOf(c)']
      /\ PolicyError' = [PolicyError EXCEPT ![c] = ErrorOf(c)']
  BY <1>1, PolicyUpdate DEF PolicyPc, Working, Exhausted
<1>6. PolicyError[c] = "NoError"
  BY <1>1 DEF PolicyError
<1>7. CASE try[c] + 1 < RetryCount
  <2>1. PcOf(c)' = "executing" /\ ErrorOf(c)' = "NoError"
    BY <1>1, <1>7 DEF PcOf, ErrorOf
  <2>2. PolicyError' = PolicyError
    BY <1>5, <1>6, <2>1 DEF PolicyError
  <2> QED
    BY <1>1, <1>5, <1>7, <2>1, <2>2 DEF Policy!DelayOver, Policy!Try
<1>8. CASE ~(try[c] + 1 < RetryCount)
  <2>1. /\ c \in Propagate => PcOf(c)' = "raised" /\ ErrorOf(c)' = "RetryExhausted"
        /\ c \notin Propagate => PcOf(c)' = "empty" /\ ErrorOf(c)' = "NoError"
    BY <1>1, <1>3, <1>8 DEF PcOf, ErrorOf, Exhausted, Working
  <2>2. try[c] + 1 >= RetryCount
    BY <1>2, <1>8
  <2> QED
    BY <1>1, <1>5, <2>1, <2>2 DEF Policy!DelayOver, Policy!Try, Policy!End
<1> QED
  BY <1>7, <1>8

LEMMA OthersSame ==
    ASSUME Types, NEW c \in Calls, NEW d \in Calls \ {c},
           Call(c) \/ CallStep(c)
    PROVE  Unseen(d)
<1>1. Same(d)
  BY DEF Types, Same, Call, CallStep, TakeThread, CreateRun, CreateFails, Callback,
         AwaitFails, AwaitRun, Wake, Retried, Passed, Abandon, Goto
<1> QED
  BY <1>1, SameIsUnseen

LEMMA CallSimulated ==
    ASSUME Types, Untried, NEW c \in Calls, CallInv(c), Call(c) \/ CallStep(c)
    PROVE  \/ Unseen(c) /\ UNCHANGED <<try, raised>>
           \/ Policy!Execute(c) \/ Policy!Step(c)
<1>1. \A d \in Calls \ {c} : Unseen(d)
  BY OthersSame
<1> USE DEF Policy!Step
<1>2. CASE Call(c)
  BY <1>1, <1>2, CallIsExecuted
<1>3. CASE TakeThread(c) \/ CreateRun(c)
  BY <1>3, WithinUnseen
<1>4. CASE CreateFails(c)
  <2>1. pc[c] \in Working /\ (Retried(c, "NetworkError") \/ Passed(c))
    BY <1>4 DEF CreateFails, Working
  <2> QED
    BY <1>1, <2>1, RetriedIsRaised, PassedIsRaised
<1>5. CASE Callback(c)
  <2>1. CASE Goto(c, "awaiting") /\ UNCHANGED <<try, stage, abandoned, raised>>
    BY <1>5, <2>1, WithinUnseen DEF Callback
  <2>2. CASE Passed(c)
    <3>1. pc[c] \in Working
      BY <1>5 DEF Callback, Working
    <3> QED
      BY <1>1, <2>2, <3>1, PassedIsRaised
  <2> QED
    BY <1>5, <2>1, <2>2 DEF Callback
<1>6. CASE AwaitFails(c)
  <2>1. pc[c] \in Working /\ (Retried(c, "NetworkError") \/ Passed(c))
    BY <1>6 DEF AwaitFails, Working
  <2> QED
    BY <1>1, <2>1, RetriedIsRaised, PassedIsRaised
<1>7. CASE AwaitRun(c)
  <2>1. CASE Goto(c, "returned") /\ UNCHANGED <<try, stage, abandoned, raised>>
    BY <1>1, <1>7, <2>1, EndIsReturned DEF AwaitRun
  <2>2. CASE Retried(c, "NexusSchedulingError")
    <3>1. pc[c] \in Working
      BY <1>7 DEF AwaitRun, Working
    <3> QED
      BY <1>1, <2>2, <3>1, RetriedIsRaised
  <2> QED
    BY <1>7, <2>1, <2>2 DEF AwaitRun
<1>8. CASE Wake(c)
  BY <1>1, <1>8, WakeIsDelayOver
<1> QED
  BY <1>2, <1>3, <1>4, <1>5, <1>6, <1>7, <1>8 DEF CallStep

LEMMA PolicyInit == Init => Policy!Init
<1> SUFFICES ASSUME Init
             PROVE  Policy!Init
  OBVIOUS
<1>1. PolicyTypes = [b \in Policy!Builders |-> {"NetworkError"}]
  BY DEF Init, PolicyTypes, Policy!Builders
<1>2. /\ PolicyPc = [c \in Calls |-> "idle"] /\ PolicyError = [c \in Calls |-> "NoError"]
  BY DEF Init, PolicyPc, PolicyError, Working
<1> QED
  BY <1>1, <1>2 DEF Policy!Init, Init

LEMMA PolicyStep == IInv /\ Untried /\ [Next]_vars => [Policy!Next]_(Policy!vars)
<1> SUFFICES ASSUME IInv, Untried, [Next]_vars
             PROVE  Policy!Next \/ UNCHANGED Policy!vars
  OBVIOUS
<1>1. Types /\ \A c \in Calls : CallInv(c)
  BY DEF IInv, CallInv
<1>2. ASSUME NEW c \in Calls, Call(c) \/ CallStep(c)
      PROVE  Policy!Next \/ UNCHANGED Policy!vars
  <2>1. \A d \in Calls \ {c} : Unseen(d)
    BY <1>1, <1>2, OthersSame
  <2>2. CASE Unseen(c) /\ UNCHANGED <<try, raised>>
    BY <2>1, <2>2, UnseenIsStutter
  <2>3. CASE Policy!Execute(c) \/ Policy!Step(c)
    BY <2>3 DEF Policy!Next
  <2> QED
    BY <1>1, <1>2, <2>2, <2>3, CallSimulated
<1>3. ASSUME NEW c \in Calls, NEW t \in Tries, RunEnds(c, t)
      PROVE  UNCHANGED Policy!vars
  <2>1. pc' = pc /\ UNCHANGED <<try, raised>>
    BY <1>3 DEF RunEnds
  <2>2. \A d \in Calls : Unseen(d)
    BY <2>1 DEF Unseen, PcOf, ErrorOf, PassedOn
  <2> QED
    BY <2>1, <2>2, UnseenIsStutter
<1>4. CASE UNCHANGED vars
  <2>1. \A c \in Calls : Same(c)
    BY <1>4 DEF vars, Same
  <2> QED
    BY <1>4, <2>1, SameIsUnseen, UnseenIsStutter DEF vars
<1> QED
  BY <1>2, <1>3, <1>4 DEF Next

(* create_and_await implements the retry policy: whatever happens in the   *)
(* queue, to the runs and to the network, a call is seen to execute its    *)
(* function, to repeat it after an error it asked to retry, and to end, as *)
(* the policy of its own fork of the builder would have it.                *)
THEOREM CallsFollowPolicy == Spec => KeepsPolicy
<1>1. Init => Policy!Init /\ Untried
  BY PolicyInit DEF Untried, Init
<1>2. IInv /\ Untried /\ [Next]_vars => Untried' /\ [Policy!Next]_(Policy!vars)
  BY UntriedStep, PolicyStep DEF IInv
<1> QED
  BY <1>1, <1>2, Invariant, PTL DEF Spec, KeepsPolicy, Policy!Spec

(* The theorems of RetryPolicy, about the policy that a call follows       *)
PolicyP == INSTANCE RetryPolicyProofs WITH
    Forking <- Calls,
    Extra <- [c \in Calls |-> {"NexusSchedulingError"}],
    RetryCount <- [c \in Calls |-> RetryCount],
    Quiet <- Calls \ Propagate,
    Errors <- PolicyErrors,
    Bases <- [e \in PolicyErrors |-> {e}],
    NetworkError <- "NetworkError", ClientBuilder <- "ClientBuilder",
    CancelledError <- "CancelledError", RetryExhausted <- "RetryExhausted", NoError <- "NoError",
    errorTypes <- PolicyTypes, pc <- PolicyPc, error <- PolicyError, log <- raised

LEMMA PolicyFits == PolicyP!PolicyAssumption
BY DEF PolicyP!PolicyAssumption, PolicyErrors

(* The two instances of RetryPolicy are the same. *)
LEMMA SameInit == Policy!Init => PolicyP!Init
BY DEF Policy!Init, PolicyP!Init, Policy!Builders, PolicyP!Builders

LEMMA SameStep == [Policy!Next]_(Policy!vars) => [PolicyP!Next]_(PolicyP!vars)
BY DEF Policy!vars, PolicyP!vars, Policy!Next, PolicyP!Next, Policy!Step, PolicyP!Step,
       Policy!Execute, PolicyP!Execute, Policy!FunctionReturns, PolicyP!FunctionReturns,
       Policy!FunctionRaises, PolicyP!FunctionRaises, Policy!DelayOver, PolicyP!DelayOver,
       Policy!Cancel, PolicyP!Cancel, Policy!Try, PolicyP!Try, Policy!End, PolicyP!End,
       Policy!IsTransient, PolicyP!IsTransient, Policy!BuilderOf, PolicyP!BuilderOf

LEMMA PolicyHolds == PolicyP!IInv => Policy!RetriedAsAsked /\ Policy!FateExplained
<1>1. PolicyP!IInv => PolicyP!RetriedAsAsked /\ PolicyP!FateExplained
  BY PolicyFits, PolicyP!AskedSafe, PolicyP!FateSafe
<1> QED
  BY <1>1 DEF Policy!RetriedAsAsked, PolicyP!RetriedAsAsked, Policy!FateExplained,
              PolicyP!FateExplained, Policy!GaveUp, PolicyP!GaveUp, Policy!Wanted, PolicyP!Wanted

(* What RetryPolicy promises, of calls that create runs and wait for them: *)
(* a run follows another only after an error the call has asked to retry,  *)
(* and a call that is given up, or ends empty, has failed in exactly       *)
(* RetryCount executions with such errors.                                 *)
THEOREM CallsAreExplained == Spec => [](Policy!RetriedAsAsked /\ Policy!FateExplained)
<1>1. Init => PolicyP!IInv /\ Untried
  BY PolicyInit, SameInit, PolicyFits, PolicyP!InvInit DEF Untried, Init
<1>2. PolicyP!IInv /\ IInv /\ Untried /\ [Next]_vars => (PolicyP!IInv /\ Untried)'
  <2>1. PolicyP!IInv /\ [PolicyP!Next]_(PolicyP!vars) => PolicyP!IInv'
    BY PolicyFits, PolicyP!InvStep
  <2> QED
    BY <2>1, UntriedStep, PolicyStep, SameStep DEF IInv
<1> QED
  BY <1>1, <1>2, PolicyHolds, Invariant, PTL DEF Spec

-----------------------------------------------------------------------------
(* Calls end: what can be said of it without fairness *)

(* No call takes more steps than this from where it is: five to an         *)
(* execution, of which the last is the delay.                              *)
StepsOf(there, n) ==
    LET times == 5 * (RetryCount - n) IN
    CASE there = "idle"     -> times + 6
      [] there = "queued"   -> times + 5
      [] there = "creating" -> times + 4
      [] there = "created"  -> times + 3
      [] there = "awaiting" -> times + 2
      [] there = "sleeping" -> times + 1
      [] OTHER              -> 0

StepsLeft(c) == StepsOf(pc[c], try[c])

(* A step of a call brings it nearer to its end; what others do, and the   *)
(* ends of runs, leave it where it is.                                     *)
Shortens ==
    \A c \in Calls :
        /\ Call(c) \/ CallStep(c) => StepsLeft(c)' < StepsLeft(c)
        /\ \A d \in Calls \ {c} : Call(d) \/ CallStep(d) => StepsLeft(c)' = StepsLeft(c)
        /\ \A d \in Calls, t \in Tries : RunEnds(d, t) => StepsLeft(c)' = StepsLeft(c)

LEMMA StepsFall ==
    ASSUME Types, NEW c \in Calls, try[c] \in Tries, pc[c] \notin Over,
           NEW there, pc' = [pc EXCEPT ![c] = there],
           \/ /\ try'[c] = try[c]
              /\ StepsOf(there, 0) < StepsOf(pc[c], 0)
           \/ try'[c] = try[c] + 1 /\ pc[c] = "sleeping" /\ there \in {"queued"} \cup Over
    PROVE  StepsLeft(c)' < StepsLeft(c)
<1>1. pc'[c] = there
  BY DEF Types
<1>2. try[c] \in Nat /\ RetryCount - try[c] \in Nat /\ RetryCount - try[c] > 0
  BY DEF Tries
<1> QED
  BY <1>1, <1>2 DEF StepsLeft, StepsOf, Over

LEMMA StepShortens == IInv => Shortens
<1> SUFFICES ASSUME IInv, NEW c \in Calls
             PROVE  /\ Call(c) \/ CallStep(c) => StepsLeft(c)' < StepsLeft(c)
                    /\ \A d \in Calls \ {c} :
                          Call(d) \/ CallStep(d) => StepsLeft(c)' = StepsLeft(c)
                    /\ \A d \in Calls, t \in Tries : RunEnds(d, t) => StepsLeft(c)' = StepsLeft(c)
  BY DEF Shortens
<1>1. Types /\ Current(c)
  BY DEF IInv
<1>2. ASSUME Call(c) \/ TakeThread(c) \/ CreateRun(c) \/ CreateFails(c)
      PROVE  StepsLeft(c)' < StepsLeft(c)
  <2>1. /\ pc[c] \in {"idle", "queued", "creating"} /\ try' = try
        /\ \/ pc[c] = "idle" /\ pc' = [pc EXCEPT ![c] = "queued"]
           \/ pc[c] = "queued" /\ pc' = [pc EXCEPT ![c] = "creating"]
           \/ pc[c] = "creating" /\ \E there \in {"created", "sleeping", "raised"} :
                                       pc' = [pc EXCEPT ![c] = there]
    BY <1>2 DEF Call, TakeThread, CreateRun, CreateFails, Retried, Passed, Goto
  <2>2. try[c] \in Tries /\ try'[c] = try[c] /\ pc[c] \notin Over
    BY <1>1, <2>1 DEF Current, Working, Over
  <2>3. PICK there \in {"queued", "creating", "created", "sleeping", "raised"} :
           /\ pc' = [pc EXCEPT ![c] = there]
           /\ pc[c] = "idle" => there = "queued"
           /\ pc[c] = "queued" => there = "creating"
           /\ pc[c] = "creating" => there \in {"created", "sleeping", "raised"}
    BY <2>1
  <2>4. StepsOf(there, 0) < StepsOf(pc[c], 0)
    BY <2>1, <2>3 DEF StepsOf, Over
  <2> QED
    BY <1>1, <2>2, <2>3, <2>4, StepsFall
<1>3. ASSUME Callback(c) \/ AwaitFails(c) \/ AwaitRun(c)
      PROVE  StepsLeft(c)' < StepsLeft(c)
  <2>1. /\ pc[c] \in {"created", "awaiting"} /\ try' = try
        /\ \/ pc[c] = "created" /\ pc' = [pc EXCEPT ![c] = "awaiting"]
           \/ \E there \in {"sleeping", "raised", "returned"} : pc' = [pc EXCEPT ![c] = there]
    BY <1>3 DEF Callback, AwaitFails, AwaitRun, Retried, Passed, Goto
  <2>2. try[c] \in Tries /\ try'[c] = try[c] /\ pc[c] \notin Over
    BY <1>1, <2>1 DEF Current, Working, Over
  <2>3. PICK there \in {"awaiting", "sleeping", "raised", "returned"} :
           /\ pc' = [pc EXCEPT ![c] = there]
           /\ pc[c] = "created" \/ there # "awaiting"
    BY <2>1
  <2>4. StepsOf(there, 0) < StepsOf(pc[c], 0)
    BY <2>1, <2>3 DEF StepsOf, Over
  <2> QED
    BY <1>1, <2>2, <2>3, <2>4, StepsFall
<1>4. ASSUME Wake(c)
      PROVE  StepsLeft(c)' < StepsLeft(c)
  <2>1. /\ pc[c] = "sleeping" /\ try'[c] = try[c] + 1
        /\ \E there \in {"queued"} \cup Over : pc' = [pc EXCEPT ![c] = there]
    BY <1>1, <1>4 DEF Wake, Goto, Exhausted, Over, Types
  <2>2. try[c] \in Tries
    BY <1>1, <2>1 DEF Current
  <2> QED
    BY <1>1, <2>1, <2>2, StepsFall DEF Over
<1>5. ASSUME NEW d \in Calls \ {c}, Call(d) \/ CallStep(d)
      PROVE  StepsLeft(c)' = StepsLeft(c)
  <2>1. pc'[c] = pc[c] /\ try'[c] = try[c]
    BY <1>1, <1>5 DEF Types, Call, CallStep, TakeThread, CreateRun, CreateFails, Callback,
                      AwaitFails, AwaitRun, Wake, Retried, Passed, Goto
  <2> QED
    BY <2>1 DEF StepsLeft, StepsOf
<1>6. ASSUME NEW d \in Calls, NEW t \in Tries, RunEnds(d, t)
      PROVE  StepsLeft(c)' = StepsLeft(c)
  BY <1>6 DEF RunEnds, StepsLeft, StepsOf
<1> QED
  BY <1>2, <1>3, <1>4, <1>5, <1>6 DEF CallStep

(* A call that has a run to await or a callback to make has created it. *)
HasRun == \A c \in Calls : pc[c] \in {"created", "awaiting"} => Stage(c) # "absent"

LEMMA HasRunStep == IInv /\ HasRun /\ [Next]_vars => HasRun'
<1> SUFFICES ASSUME IInv, HasRun, [Next]_vars, NEW c \in Calls,
                    pc'[c] \in {"created", "awaiting"}
             PROVE  Stage(c)' # "absent"
  BY DEF HasRun
<1>1. Types /\ Current(c)
  BY DEF IInv
<1>2. ASSUME CallStep(c) \/ Call(c)
      PROVE  Stage(c)' # "absent"
  BY <1>1, <1>2
     DEF HasRun, Types, Current, Working, Stage, Call, CallStep, TakeThread, CreateRun, CreateFails,
         Callback, AwaitFails, AwaitRun, Wake, Exhausted, Retried, Passed, Goto
<1>3. ASSUME NEW d \in Calls \ {c}, CallStep(d) \/ Call(d)
      PROVE  Stage(c)' # "absent"
  <2>1. Same(c)
    BY <1>1, <1>3
       DEF Types, Same, Call, CallStep, TakeThread, CreateRun, CreateFails, Callback,
           AwaitFails, AwaitRun, Wake, Retried, Passed, Abandon, Goto
  <2> QED
    BY <2>1 DEF Same, HasRun, Stage
<1>4. ASSUME NEW d \in Calls, NEW t \in Tries, RunEnds(d, t)
      PROVE  Stage(c)' # "absent"
  <2>1. pc' = pc /\ try' = try /\ try[c] \in Tries
    BY <1>1, <1>4 DEF RunEnds, Current, Working
  <2> QED
    BY <1>1, <1>4, <2>1 DEF RunEnds, HasRun, Stage, Types
<1>5. CASE UNCHANGED vars
  BY <1>5 DEF vars, HasRun, Stage
<1> QED
  BY <1>2, <1>3, <1>4, <1>5 DEF Next

(* Can call c take a step without another call or a run? *)
Ready(c) ==
    \/ pc[c] \in {"creating", "created", "sleeping"}
    \/ pc[c] = "queued" /\ PoolHasThread
    \/ pc[c] = "awaiting" /\ Stage(c) \in {"ended", "SCHEDULING_FAILED"}

(* Somebody is ready, or the threads are held for runs that still work. *)
NobodyBlocked ==
    (\E c \in Calls : pc[c] \notin {"idle"} \cup Over) =>
        \E d \in Calls : Ready(d) \/ (pc[d] = "awaiting" /\ Stage(d) = "live")

LEMMA Unblocked == IInv /\ HasRun => NobodyBlocked
<1> SUFFICES ASSUME IInv, HasRun, NEW c \in Calls, pc[c] \notin {"idle"} \cup Over
             PROVE  \E d \in Calls : Ready(d) \/ (pc[d] = "awaiting" /\ Stage(d) = "live")
  BY DEF NobodyBlocked
<1>1. ASSUME NEW d \in Calls, pc[d] \in Working
      PROVE  Ready(d) \/ (pc[d] = "awaiting" /\ Stage(d) = "live")
  <2>1. CASE pc[d] = "awaiting"
    BY <2>1 DEF IInv, Types, Current, Working, HasRun, Stage, Ready
  <2> QED
    BY <1>1, <2>1 DEF Working, Ready
<1>2. CASE pc[c] = "queued" /\ ~PoolHasThread
  <2>1. WorkingCalls # {}
    <3>1. CASE WorkingCalls = {}
      BY <1>2, <3>1, FS_EmptySet DEF PoolHasThread, WorkingCalls
    <3> QED
      BY <3>1
  <2> QED
    BY <1>1, <2>1 DEF WorkingCalls
<1>3. CASE \/ pc[c] = "queued" /\ PoolHasThread
           \/ pc[c] = "sleeping"
  BY <1>3 DEF Ready
<1> QED
  BY <1>1, <1>2, <1>3 DEF IInv, Types

(* Calls neither run in circles nor wait for each other: a call has at     *)
(* most 5 * RetryCount + 6 steps, each of its steps uses one up, and as    *)
(* long as a call is not over some call can step or has a thread for a run *)
(* that still works, however small the pool.                               *)
THEOREM CallsWindDown ==
    Spec => /\ [](\A c \in Calls : StepsLeft(c) \in 0 .. 5 * RetryCount + 6)
            /\ []NobodyBlocked
            /\ [][Shortens]_vars
<1>1. IInv => \A c \in Calls : StepsLeft(c) \in 0 .. 5 * RetryCount + 6
  BY DEF IInv, Types, StepsLeft, StepsOf
<1>2. Init => HasRun
  BY DEF Init, HasRun
<1> QED
  BY <1>1, <1>2, Invariant, HasRunStep, Unblocked, StepShortens, PTL DEF Spec
=============================================================================
