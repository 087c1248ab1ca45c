-------------------------- MODULE InputCacheProofs --------------------------
(***************************************************************************)
(* Proofs about InputCache, for every graph of inputs, every set of        *)
(* clients and every error map that satisfies the assumptions of ErrorMap. *)
(***************************************************************************)
EXTENDS InputCache, SequenceTheorems, FiniteSetTheorems, WellFoundedInduction, TLAPS

USE DEF CachingErrors

(* A non-empty set of positions has a least one: the smallest of the       *)
(* initial segments that end in it.                                        *)
LEMMA LeastPosition ==
    ASSUME NEW S \in SUBSET Nat, S # {}
    PROVE  \E n \in S : \A m \in S : n <= m
<1> DEFINE Segments == {0 .. n : n \in S}
<1>1. Segments \subseteq FiniteSubsetsOf(Nat)
  <2>1. \A n \in S : IsFiniteSet(0 .. n)
    BY FS_Interval
  <2> QED
    BY <2>1 DEF FiniteSubsetsOf
<1>2. PICK T \in Segments : \A U \in Segments : <<U, T>> \notin StrictSubsetOrdering(Nat)
  <2>1. Segments # {}
    OBVIOUS
  <2> HIDE DEF Segments
  <2> QED
    BY <1>1, <2>1, FS_StrictSubsetOrderingWellFounded, WFMin
<1>3. PICK n \in S : T = 0 .. n
  OBVIOUS
<1>4. ASSUME NEW m \in S, m < n
      PROVE  FALSE
  <2>1. 0 .. m \in SUBSET Nat /\ 0 .. n \in SUBSET Nat
    OBVIOUS
  <2>2. 0 .. m \subseteq 0 .. n /\ 0 .. m # 0 .. n
    <3>1. n \in 0 .. n /\ n \notin 0 .. m
      BY <1>4
    <3> QED
      BY <1>4, <3>1
  <2>3. <<0 .. m, 0 .. n>> \in StrictSubsetOrdering(Nat)
    BY <2>1, <2>2 DEF StrictSubsetOrdering
  <2> QED
    BY <1>2, <1>3, <2>3
<1> QED
  BY <1>4

(* Whatever an input raises, the cache raises a caching error: this is     *)
(* where the catch-all entry of the configuration is needed.               *)
LEMMA ResolveExcTypeCaching ==
    ASSUME NEW e \in ErrorClass
    PROVE  ResolveExcType(e) \in CachingErrors
<1>1. MapError(e) \in CachingErrors
  <2>1. CASE Matching(e) = {}
    <3>1. \A n \in 1 .. Len(Remappings) : Remappings[n].errors # {}
      BY <2>1 DEF Matching, Matches
    <3>2. GlobalDefault \in CachingErrors
      BY <3>1, RemappingsAssumption
    <3> QED
      BY <2>1, <3>2 DEF MapError
  <2>2. CASE Matching(e) # {}
    <3> DEFINE first == CHOOSE n \in Matching(e) : \A m \in Matching(e) : n <= m
    <3>1. Matching(e) \in SUBSET Nat
      BY DEF Matching
    <3>2. \E n \in Matching(e) : \A m \in Matching(e) : n <= m
      BY <2>2, <3>1, LeastPosition
    <3>3. first \in Matching(e)
      BY <3>2
    <3>4. MapError(e) = Remappings[first].target
      BY <2>2 DEF MapError
    <3>5. first \in 1 .. Len(Remappings)
      BY <3>3 DEF Matching
    <3> HIDE DEF first
    <3>6. Remappings[first] \in [errors : SUBSET ErrorClass, target : CachingErrors]
      BY <3>5, RemappingsAssumption, ElementOfSeq
    <3> QED
      BY <3>4, <3>6
  <2> QED
    BY <2>1, <2>2
<1> QED
  BY <1>1 DEF ResolveExcType

(* A caching error keeps its class when it is passed on. *)
LEMMA CachingErrorsKept ==
    ASSUME NEW e \in CachingErrors
    PROVE  ResolveExcType(e) = e
BY ErrorClassAssumption DEF ResolveExcType, IsInstance

-----------------------------------------------------------------------------
(* Type correctness *)

LEMMA ScheduleType ==
    ASSUME TypeOK, NEW S
    PROVE  Schedule(S) \in [Inputs -> Phases]
BY DEF TypeOK, Schedule, Phases

LEMMA RaisedClassesType ==
    ASSUME TypeOK
    PROVE  RaisedClasses \subseteq CachingErrors
<1>1. \A f \in Failed : exc[f] \in ErrorClass
  BY DEF TypeOK, Failed
<1> QED
  BY <1>1, ResolveExcTypeCaching DEF RaisedClasses

LEMMA CloseType ==
    ASSUME TypeOK, NEW i \in Inputs, NEW phases \in [Inputs -> Phases],
           NEW e \in ErrorClass \cup {NoError}, NEW r \in Thrown \cup {NoError},
           Close(i, phases, e, r)
    PROVE  /\ phase' \in [Inputs -> Phases]
           /\ exc' \in [Inputs -> ErrorClass \cup {NoError}]
           /\ raw' \in [Inputs -> Thrown \cup {NoError}]
BY ThrownAssumption DEF TypeOK, Close, Phases

LEMMA LeaveType ==
    ASSUME TypeOK, NEW i \in Inputs, NEW phases \in [Inputs -> Phases],
           NEW entry \in {"none", "value"},
           NEW e \in ErrorClass \cup {NoError}, NEW r \in Thrown \cup {NoError},
           Leave(i, phases, entry, e, r)
    PROVE  /\ phase' \in [Inputs -> Phases]
           /\ cache' \in [Inputs -> {"absent", "none", "value"}]
           /\ exc' \in [Inputs -> ErrorClass \cup {NoError}]
           /\ raw' \in [Inputs -> Thrown \cup {NoError}]
<1>1. cache' \in [Inputs -> {"absent", "none", "value"}]
  BY DEF TypeOK, Leave
<1>2. CASE i \in SlowClose
  BY <1>1, <1>2 DEF TypeOK, Leave, Phases
<1>3. CASE i \notin SlowClose
  BY <1>1, <1>3, CloseType DEF Leave
<1> QED
  BY <1>2, <1>3

LEMMA PollClientType ==
    ASSUME TypeOK, NEW c \in Clients, PollClient(c)
    PROVE  /\ status' \in [Clients -> {"idle", "polling", "settled", "returned", "raised"}]
           /\ error' \in [Clients -> CachingErrors \cup {NoError}]
BY RaisedClassesType DEF TypeOK, PollClient

LEMMA PollInputType ==
    ASSUME TypeOK, NEW i \in Inputs, NEW phases \in [Inputs -> Phases],
           PollInput(i, phases)
    PROVE  /\ phase' \in [Inputs -> Phases]
           /\ cache' \in [Inputs -> {"absent", "none", "value"}]
           /\ exc' \in [Inputs -> ErrorClass \cup {NoError}]
           /\ raw' \in [Inputs -> Thrown \cup {NoError}]
<1>1. CASE \E class \in RaisedClasses : Leave(i, phases, "none", class, NoError)
  <2>1. PICK class \in RaisedClasses : Leave(i, phases, "none", class, NoError)
    BY <1>1
  <2>2. class \in ErrorClass
    BY RaisedClassesType, ErrorClassAssumption
  <2> QED
    BY <2>1, <2>2, LeaveType
<1>2. CASE /\ phase' = [phases EXCEPT ![i] = IF AllCached(Deps[i]) THEN "settled" ELSE "waiting"]
           /\ UNCHANGED <<cache, exc, raw>>
  BY <1>2 DEF TypeOK, Phases
<1> QED
  BY <1>1, <1>2 DEF PollInput

LEMMA TypeInit == Init => TypeOK
BY DEF Init, TypeOK, Phases

LEMMA TypeStep == TypeOK /\ [Next]_vars => TypeOK'
<1> SUFFICES ASSUME TypeOK, [Next]_vars
             PROVE  TypeOK'
  OBVIOUS
<1>1. ASSUME NEW c \in Clients, Resolve(c)
      PROVE  TypeOK'
  <2>1. phase' \in [Inputs -> Phases]
    BY <1>1, ScheduleType DEF Resolve
  <2>2. /\ status' \in [Clients -> {"idle", "polling", "settled", "returned", "raised"}]
        /\ error' \in [Clients -> CachingErrors \cup {NoError}]
    <3>1. CASE PollClient(c)
      BY <3>1, PollClientType
    <3>2. CASE status' = [status EXCEPT ![c] = "returned"] /\ UNCHANGED error
      BY <3>2 DEF TypeOK
    <3> QED
      BY <1>1, <3>1, <3>2 DEF Resolve
  <2> QED
    BY <1>1, <2>1, <2>2 DEF Resolve, TypeOK
<1>2. ASSUME NEW c \in Clients, Poll(c)
      PROVE  TypeOK'
  BY <1>2, PollClientType DEF Poll, TypeOK
<1>3. ASSUME NEW c \in Clients, Return(c)
      PROVE  TypeOK'
  <2>1. Resolved(Wants[c]) \subseteq Inputs
    BY GraphAssumption DEF Resolved
  <2> QED
    BY <1>3, <2>1 DEF Return, TypeOK
<1>4. ASSUME NEW i \in Inputs, Begin(i)
      PROVE  TypeOK'
  BY <1>4 DEF Begin, TypeOK, Phases
<1>5. ASSUME NEW i \in Inputs, OpenFails(i)
      PROVE  TypeOK'
  BY <1>5, ThrownAssumption DEF OpenFails, TypeOK, Phases
<1>6. ASSUME NEW i \in Inputs, Enter(i)
      PROVE  TypeOK'
  <2>1. CASE PollInput(i, Schedule(Deps[i]))
    BY <1>6, <2>1, ScheduleType, PollInputType DEF Enter, TypeOK
  <2>2. CASE phase' = [phase EXCEPT ![i] = "reading"] /\ UNCHANGED <<cache, exc, raw>>
    BY <1>6, <2>2 DEF Enter, TypeOK, Phases
  <2> QED
    BY <1>6, <2>1, <2>2 DEF Enter
<1>7. ASSUME NEW i \in Inputs, PollReaders(i)
      PROVE  TypeOK'
  <2>1. phase \in [Inputs -> Phases]
    BY DEF TypeOK
  <2> QED
    BY <1>7, <2>1, PollInputType DEF PollReaders, TypeOK
<1>8. ASSUME NEW i \in Inputs, StartBody(i)
      PROVE  TypeOK'
  <2>1. Resolved(Deps[i]) \subseteq Inputs
    BY GraphAssumption DEF Resolved
  <2> QED
    BY <1>8, <2>1 DEF StartBody, TypeOK, Phases
<1>9. ASSUME NEW i \in Inputs, BodyReturns(i)
      PROVE  TypeOK'
  <2>1. phase \in [Inputs -> Phases] /\ data' \in [Inputs -> BOOLEAN]
    BY <1>9 DEF BodyReturns, TypeOK
  <2> QED
    BY <1>9, <2>1, LeaveType DEF BodyReturns, TypeOK
<1>10. ASSUME NEW i \in Inputs, BodyRaises(i)
       PROVE  TypeOK'
  <2>1. phase \in [Inputs -> Phases]
    BY DEF TypeOK
  <2>2. PICK e \in Thrown : Leave(i, phase, "none", e, e)
    BY <1>10 DEF BodyRaises
  <2>3. e \in ErrorClass
    BY ThrownAssumption
  <2> QED
    BY <1>10, <2>1, <2>2, <2>3, LeaveType DEF BodyRaises, TypeOK
<1>11. ASSUME NEW i \in Inputs, Closed(i)
       PROVE  TypeOK'
  <2>1. phase \in [Inputs -> Phases] /\ exc[i] \in ErrorClass \cup {NoError}
        /\ raw[i] \in Thrown \cup {NoError}
    BY DEF TypeOK
  <2> QED
    BY <1>11, <2>1, CloseType DEF Closed, TypeOK
<1>12. CASE UNCHANGED vars
  BY <1>12 DEF vars, TypeOK
<1> QED
  BY <1>1, <1>2, <1>3, <1>4, <1>5, <1>6, <1>7, <1>8, <1>9, <1>10, <1>11, <1>12
     DEF Next, AnswerStep, InputStep

(* Every variable of the cache keeps its type; in particular a client is   *)
(* only ever told of a caching error, never of the exception behind it.    *)
THEOREM TypeCorrect == Spec => []TypeOK
BY TypeInit, TypeStep, PTL DEF Spec

-----------------------------------------------------------------------------
(* What is recorded is final *)

(* An entry of the cache is only written when the body of the input is     *)
(* left: from then on its task closes its context or is done.              *)
EntryWhenLeft == \A i \in Inputs : cache[i] # "absent" => phase[i] \in {"closing", "done"}

(* No step changes what a task that is done, or an entry, has recorded. *)
Recorded ==
    \A i \in Inputs :
        /\ cache[i] # "absent" => cache'[i] = cache[i]
        /\ phase[i] = "done" => phase'[i] = "done" /\ exc'[i] = exc[i] /\ raw'[i] = raw[i]

(* The phases a step starts from: those of the state, perhaps with tasks   *)
(* created for inputs that had none.                                       *)
Grown == {phases \in [Inputs -> Phases] :
             \A j \in Inputs : phase[j] # "unscheduled" => phases[j] = phase[j]}

LEMMA GrownPhases ==
    ASSUME TypeOK, NEW S
    PROVE  phase \in Grown /\ Schedule(S) \in Grown
BY ScheduleType DEF TypeOK, Grown, Schedule

LEMMA CloseRecorded ==
    ASSUME TypeOK, NEW i \in Inputs, phase[i] # "done", NEW phases \in Grown,
           NEW e, NEW r, Close(i, phases, e, r)
    PROVE  /\ phase' = [phases EXCEPT ![i] = "done"]
           /\ \A j \in Inputs : phase[j] = "done" =>
                 phase'[j] = "done" /\ exc'[j] = exc[j] /\ raw'[j] = raw[j]
<1>1. phase' = [phases EXCEPT ![i] = "done"]
  BY DEF Close
<1>2. \A j \in Inputs : phase[j] = "done" => phase'[j] = "done"
  BY <1>1 DEF Grown
<1>3. \A j \in Inputs \ {i} : exc'[j] = exc[j] /\ raw'[j] = raw[j]
  BY DEF Close, TypeOK
<1> QED
  BY <1>1, <1>2, <1>3

LEMMA LeaveRecorded ==
    ASSUME TypeOK, EntryWhenLeft, NEW i \in Inputs, phase[i] \notin {"closing", "done"},
           NEW phases \in Grown, NEW entry, NEW e, NEW r, Leave(i, phases, entry, e, r)
    PROVE  Recorded /\ EntryWhenLeft'
<1>1. cache[i] = "absent" /\ \A j \in Inputs \ {i} : cache'[j] = cache[j]
  BY DEF EntryWhenLeft, Leave, TypeOK
<1>2. /\ phase'[i] \in {"closing", "done"}
      /\ \A j \in Inputs \ {i} : phase[j] # "unscheduled" => phase'[j] = phase[j]
      /\ \A j \in Inputs \ {i} : exc'[j] = exc[j] /\ raw'[j] = raw[j]
  <2>1. CASE i \in SlowClose
    BY <2>1 DEF Leave, Grown, TypeOK
  <2>2. CASE Close(i, phases, e, r)
    BY <2>2 DEF Close, Grown, TypeOK
  <2> QED
    BY <2>1, <2>2 DEF Leave
<1> QED
  BY <1>1, <1>2 DEF EntryWhenLeft, Recorded

LEMMA PollRecorded ==
    ASSUME TypeOK, EntryWhenLeft, NEW i \in Inputs, phase[i] \notin {"closing", "done"},
           NEW phases \in Grown, PollInput(i, phases)
    PROVE  Recorded /\ EntryWhenLeft'
<1>1. CASE \E class \in RaisedClasses : Leave(i, phases, "none", class, NoError)
  BY <1>1, LeaveRecorded
<1>2. CASE /\ phase' = [phases EXCEPT ![i] = IF AllCached(Deps[i]) THEN "settled" ELSE "waiting"]
           /\ UNCHANGED <<cache, exc, raw>>
  <2>1. \A j \in Inputs \ {i} : phase[j] # "unscheduled" => phase'[j] = phase[j]
    BY <1>2 DEF Grown
  <2> QED
    BY <1>2, <2>1 DEF EntryWhenLeft, Recorded
<1> QED
  BY <1>1, <1>2 DEF PollInput

LEMMA RecordedStep ==
    ASSUME TypeOK, EntryWhenLeft, [Next]_vars
    PROVE  Recorded /\ EntryWhenLeft'
<1>1. ASSUME NEW c \in Clients, Resolve(c)
      PROVE  Recorded /\ EntryWhenLeft'
  BY <1>1 DEF Resolve, Schedule, EntryWhenLeft, Recorded
<1>2. ASSUME NEW c \in Clients, AnswerStep(c)
      PROVE  Recorded /\ EntryWhenLeft'
  BY <1>2 DEF AnswerStep, Poll, Return, EntryWhenLeft, Recorded
<1>3. ASSUME NEW i \in Inputs, Begin(i) \/ StartBody(i)
      PROVE  Recorded /\ EntryWhenLeft'
  BY <1>3 DEF Begin, StartBody, TypeOK, EntryWhenLeft, Recorded
<1>4. ASSUME NEW i \in Inputs, OpenFails(i)
      PROVE  Recorded /\ EntryWhenLeft'
  BY <1>4 DEF OpenFails, TypeOK, EntryWhenLeft, Recorded
<1>5. ASSUME NEW i \in Inputs, Enter(i)
      PROVE  Recorded /\ EntryWhenLeft'
  <2>1. CASE PollInput(i, Schedule(Deps[i]))
    BY <1>5, <2>1, GrownPhases, PollRecorded DEF Enter
  <2>2. CASE phase' = [phase EXCEPT ![i] = "reading"] /\ UNCHANGED <<cache, exc, raw>>
    BY <1>5, <2>2 DEF Enter, TypeOK, EntryWhenLeft, Recorded
  <2> QED
    BY <1>5, <2>1, <2>2 DEF Enter
<1>6. ASSUME NEW i \in Inputs, PollReaders(i)
      PROVE  Recorded /\ EntryWhenLeft'
  BY <1>6, GrownPhases, PollRecorded DEF PollReaders
<1>7. ASSUME NEW i \in Inputs, BodyReturns(i) \/ BodyRaises(i)
      PROVE  Recorded /\ EntryWhenLeft'
  BY <1>7, GrownPhases, LeaveRecorded DEF BodyReturns, BodyRaises
<1>8. ASSUME NEW i \in Inputs, Closed(i)
      PROVE  Recorded /\ EntryWhenLeft'
  <2>1. phase \in Grown /\ phase[i] = "closing" /\ Close(i, phase, exc[i], raw[i])
    BY <1>8, GrownPhases DEF Closed
  <2>2. /\ phase' = [phase EXCEPT ![i] = "done"]
        /\ \A j \in Inputs : phase[j] = "done" =>
              phase'[j] = "done" /\ exc'[j] = exc[j] /\ raw'[j] = raw[j]
    BY <2>1, CloseRecorded
  <2> QED
    BY <1>8, <2>2 DEF Closed, EntryWhenLeft, Recorded, TypeOK
<1>9. CASE UNCHANGED vars
  BY <1>9 DEF vars, EntryWhenLeft, Recorded
<1> QED
  BY <1>1, <1>2, <1>3, <1>4, <1>5, <1>6, <1>7, <1>8, <1>9 DEF Next, InputStep

LEMMA EntryInit == Init => EntryWhenLeft
BY DEF Init, EntryWhenLeft

(* The outcome of an input is decided once: no call of resolve(), however  *)
(* late, runs it again, replaces its entry or revives a failed task.       *)
THEOREM OutcomesAreFinal == Spec => OutcomeFinal
<1>1. TypeOK /\ EntryWhenLeft /\ [Next]_vars => EntryWhenLeft'
  BY RecordedStep
<1>2. TypeOK /\ EntryWhenLeft /\ [Next]_vars =>
        [\A i \in Inputs :
            /\ cache[i] # "absent" => cache'[i] = cache[i]
            /\ phase[i] = "done" => phase'[i] = "done" /\ exc'[i] = exc[i]]_vars
  BY RecordedStep DEF Recorded
<1> QED
  BY <1>1, <1>2, TypeCorrect, EntryInit, PTL DEF Spec, OutcomeFinal

-----------------------------------------------------------------------------
(* Inputs are executed once *)

Idle == {"unscheduled", "created"}

(* The inputs whose task has started *)
Begun == {i \in Inputs : phase[i] \notin Idle}

(* Nobody starts, and nobody is taken back. *)
LEMMA BegunStays ==
    ASSUME \A j \in Inputs : phase'[j] \in Idle <=> phase[j] \in Idle
    PROVE  Begun' = Begun
BY DEF Begun

(* Scheduling makes no task start, and creates none for an input that has  *)
(* one: this is where an input might be run a second time.                 *)
LEMMA ScheduleKeepsIdle ==
    ASSUME NEW S, NEW j \in Inputs
    PROVE  Schedule(S)[j] \in Idle <=> phase[j] \in Idle
BY DEF Schedule, Idle

LEMMA LeaveKeepsIdle ==
    ASSUME NEW i \in Inputs, phase[i] \notin Idle, NEW phases \in [Inputs -> Phases],
           \A j \in Inputs : phases[j] \in Idle <=> phase[j] \in Idle,
           NEW entry, NEW e, NEW r, Leave(i, phases, entry, e, r)
    PROVE  Begun' = Begun
<1>1. PICK p \in {"closing", "done"} : phase' = [phases EXCEPT ![i] = p]
  BY DEF Leave, Close
<1> QED
  BY <1>1, BegunStays DEF Idle

LEMMA PollKeepsIdle ==
    ASSUME NEW i \in Inputs, phase[i] \notin Idle, NEW phases \in [Inputs -> Phases],
           \A j \in Inputs : phases[j] \in Idle <=> phase[j] \in Idle,
           PollInput(i, phases)
    PROVE  Begun' = Begun
<1>1. CASE \E class \in RaisedClasses : Leave(i, phases, "none", class, NoError)
  BY <1>1, LeaveKeepsIdle
<1>2. CASE phase' = [phases EXCEPT ![i] = IF AllCached(Deps[i]) THEN "settled" ELSE "waiting"]
  BY <1>2, BegunStays DEF Idle
<1> QED
  BY <1>1, <1>2 DEF PollInput

LEMMA BegunStep ==
    ASSUME TypeOK, [Next]_vars
    PROVE  \/ total' = total /\ Begun' = Begun
           \/ /\ total' = total + 1
              /\ \E i \in Inputs \ Begun : Begun' = Begun \cup {i}
<1>1. ASSUME NEW i \in Inputs, Begin(i)
      PROVE  total' = total + 1 /\ i \in Inputs \ Begun /\ Begun' = Begun \cup {i}
  <2>1. phase[i] = "created" /\ phase' = [phase EXCEPT ![i] = "opening"] /\ total' = total + 1
    BY <1>1 DEF Begin
  <2> QED
    BY <2>1 DEF Begun, Idle, TypeOK
<1>2. ASSUME NEW c \in Clients, Resolve(c) \/ AnswerStep(c)
      PROVE  total' = total /\ Begun' = Begun
  <2>1. CASE Resolve(c)
    BY <2>1, ScheduleKeepsIdle, BegunStays DEF Resolve
  <2>2. CASE AnswerStep(c)
    BY <2>2 DEF AnswerStep, Poll, Return, Begun
  <2> QED
    BY <1>2, <2>1, <2>2
<1>3. ASSUME NEW i \in Inputs, OpenFails(i) \/ StartBody(i)
      PROVE  total' = total /\ Begun' = Begun
  <2>1. PICK p \in {"done", "reading"} : phase' = [phase EXCEPT ![i] = p]
    BY <1>3 DEF OpenFails, StartBody
  <2> QED
    BY <1>3, <2>1, BegunStays DEF OpenFails, StartBody, Idle, TypeOK
<1>4. ASSUME NEW i \in Inputs, Enter(i)
      PROVE  total' = total /\ Begun' = Begun
  <2>1. phase[i] \notin Idle /\ total' = total
    BY <1>4 DEF Enter, Idle
  <2>2. CASE PollInput(i, Schedule(Deps[i]))
    BY <2>1, <2>2, ScheduleType, ScheduleKeepsIdle, PollKeepsIdle
  <2>3. CASE phase' = [phase EXCEPT ![i] = "reading"]
    BY <2>1, <2>3, BegunStays DEF Idle, TypeOK
  <2> QED
    BY <1>4, <2>1, <2>2, <2>3 DEF Enter
<1>5. ASSUME NEW i \in Inputs, PollReaders(i)
      PROVE  total' = total /\ Begun' = Begun
  BY <1>5, PollKeepsIdle DEF PollReaders, Idle, TypeOK
<1>6. ASSUME NEW i \in Inputs, BodyReturns(i) \/ BodyRaises(i)
      PROVE  total' = total /\ Begun' = Begun
  BY <1>6, LeaveKeepsIdle DEF BodyReturns, BodyRaises, Idle, TypeOK
<1>7. ASSUME NEW i \in Inputs, Closed(i)
      PROVE  total' = total /\ Begun' = Begun
  <2>1. phase[i] = "closing" /\ phase' = [phase EXCEPT ![i] = "done"] /\ total' = total
    BY <1>7 DEF Closed, Close
  <2> QED
    BY <2>1, BegunStays DEF Idle, TypeOK
<1>8. CASE UNCHANGED vars
  BY <1>8 DEF vars, Begun
<1> QED
  BY <1>1, <1>2, <1>3, <1>4, <1>5, <1>6, <1>7, <1>8 DEF Next, InputStep

(* _total_executed counts the inputs that have started: each of them has   *)
(* been started once, whoever asked for it and however often.              *)
THEOREM EachExecutedOnce == Spec => []ExecutedOnce
<1> DEFINE Counted == total = Cardinality(Begun)
<1>1. Counted => ExecutedOnce
  BY DEF ExecutedOnce, Begun, Idle
<1>2. Init => Counted
  <2> SUFFICES ASSUME Init PROVE Counted
    OBVIOUS
  <2>1. Begun = {} /\ total = 0
    BY DEF Init, Begun, Idle
  <2> QED
    BY <2>1, FS_EmptySet
<1>3. TypeOK /\ Counted /\ [Next]_vars => Counted'
  <2> SUFFICES ASSUME TypeOK, Counted, [Next]_vars PROVE Counted'
    OBVIOUS
  <2>1. IsFiniteSet(Begun)
    BY GraphAssumption, FS_Subset DEF Begun
  <2>2. CASE total' = total /\ Begun' = Begun
    BY <2>2
  <2>3. ASSUME NEW i \in Inputs \ Begun, total' = total + 1, Begun' = Begun \cup {i}
        PROVE  Counted'
    BY <2>1, <2>3, FS_AddElement
  <2> QED
    BY <2>2, <2>3, BegunStep
<1> HIDE DEF Counted
<1> QED
  BY <1>1, <1>2, <1>3, TypeCorrect, PTL DEF Spec

-----------------------------------------------------------------------------
(* Where errors come from *)

(* Some input raised an exception of its own that is mapped to this class, *)
(* and its task is done, so that the record of it stays.                   *)
Rooted(class) ==
    \E f \in Inputs : phase[f] = "done" /\ raw[f] # NoError /\ class = ResolveExcType(raw[f])

(* The inductive form of ErrorRooted: the exception of every task is its   *)
(* own, or a caching error that has a root already.                        *)
TaskRooted(i) ==
    exc[i] # NoError =>
        \/ exc[i] = raw[i]
        \/ exc[i] \in CachingErrors /\ Rooted(exc[i])

RootedInv ==
    /\ \A i \in Inputs : TaskRooted(i)
    /\ \A c \in Clients : status[c] = "raised" => Rooted(error[c])

(* What a poll raises has a root: the failed task it looks at has one, and *)
(* mapping a second time changes nothing.                                  *)
LEMMA RaisedRooted ==
    ASSUME TypeOK, RootedInv, NEW class \in RaisedClasses
    PROVE  Rooted(class) /\ class \in CachingErrors
<1>1. PICK f \in Failed : class = ResolveExcType(exc[f])
  BY DEF RaisedClasses
<1>2. f \in Inputs /\ phase[f] = "done" /\ exc[f] # NoError
  BY DEF Failed
<1>3. class \in CachingErrors
  BY RaisedClassesType
<1>4. CASE exc[f] = raw[f]
  BY <1>1, <1>2, <1>3, <1>4 DEF Rooted
<1>5. CASE exc[f] \in CachingErrors /\ Rooted(exc[f])
  BY <1>1, <1>3, <1>5, CachingErrorsKept
<1> QED
  BY <1>2, <1>4, <1>5 DEF RootedInv, TaskRooted

LEMMA RootsStay ==
    ASSUME Recorded, NEW class, Rooted(class)
    PROVE  Rooted(class)'
BY DEF Recorded, Rooted

(* A step that leaves the exceptions of the tasks alone and raises nothing *)
(* in a client that is not rooted keeps the invariant.                     *)
LEMMA TasksStayRooted ==
    ASSUME RootedInv, Recorded, NEW i \in Inputs, exc'[i] = exc[i] /\ raw'[i] = raw[i]
    PROVE  TaskRooted(i)'
BY RootsStay DEF RootedInv, TaskRooted

LEMMA CloseRooted ==
    ASSUME TypeOK, RootedInv, Recorded, NEW i \in Inputs, NEW phases, NEW e, NEW r,
           e # NoError => e = r \/ (e \in CachingErrors /\ Rooted(e)),
           Close(i, phases, e, r), UNCHANGED <<status, error>>
    PROVE  RootedInv'
<1>1. TaskRooted(i)'
  <2>1. CASE exc' = [exc EXCEPT ![i] = e] /\ raw' = [raw EXCEPT ![i] = r]
    BY <2>1, RootsStay DEF TaskRooted, TypeOK
  <2>2. CASE \E x \in Thrown : exc' = [exc EXCEPT ![i] = x] /\ raw' = [raw EXCEPT ![i] = x]
    BY <2>2 DEF TaskRooted, TypeOK
  <2> QED
    BY <2>1, <2>2 DEF Close
<1>2. \A j \in Inputs \ {i} : exc'[j] = exc[j] /\ raw'[j] = raw[j]
  BY DEF Close, TypeOK
<1>3. \A c \in Clients : status'[c] = "raised" => Rooted(error[c])'
  BY RootsStay DEF RootedInv
<1> QED
  BY <1>1, <1>2, <1>3, TasksStayRooted DEF RootedInv

LEMMA LeaveRooted ==
    ASSUME TypeOK, RootedInv, Recorded, NEW i \in Inputs, NEW phases, NEW entry, NEW e, NEW r,
           e # NoError => e = r \/ (e \in CachingErrors /\ Rooted(e)),
           Leave(i, phases, entry, e, r), UNCHANGED <<status, error>>
    PROVE  RootedInv'
<1>1. CASE Close(i, phases, e, r)
  BY <1>1, CloseRooted
<1>2. CASE exc' = [exc EXCEPT ![i] = e] /\ raw' = [raw EXCEPT ![i] = r]
  <2>1. TaskRooted(i)'
    BY <1>2, RootsStay DEF TaskRooted, TypeOK
  <2>2. \A j \in Inputs \ {i} : exc'[j] = exc[j] /\ raw'[j] = raw[j]
    BY <1>2 DEF TypeOK
  <2>3. \A c \in Clients : status'[c] = "raised" => Rooted(error[c])'
    BY RootsStay DEF RootedInv
  <2> QED
    BY <2>1, <2>2, <2>3, TasksStayRooted DEF RootedInv
<1> QED
  BY <1>1, <1>2 DEF Leave

LEMMA PollInputRooted ==
    ASSUME TypeOK, RootedInv, Recorded, NEW i \in Inputs, NEW phases,
           PollInput(i, phases), UNCHANGED <<status, error>>
    PROVE  RootedInv'
<1>1. CASE \E class \in RaisedClasses : Leave(i, phases, "none", class, NoError)
  BY <1>1, RaisedRooted, LeaveRooted
<1>2. CASE UNCHANGED <<exc, raw>>
  BY <1>2, TasksStayRooted, RootsStay DEF RootedInv
<1> QED
  BY <1>1, <1>2 DEF PollInput

LEMMA PollClientRooted ==
    ASSUME TypeOK, RootedInv, Recorded, NEW c \in Clients,
           PollClient(c), UNCHANGED <<exc, raw>>
    PROVE  RootedInv'
<1>1. \A d \in Clients : status'[d] = "raised" => Rooted(error[d])'
  <2>1. CASE /\ \E class \in RaisedClasses : error' = [error EXCEPT ![c] = class]
             /\ status' = [status EXCEPT ![c] = "raised"]
    <3>1. PICK class \in RaisedClasses : error' = [error EXCEPT ![c] = class]
      BY <2>1
    <3>2. Rooted(class)'
      BY RaisedRooted, RootsStay
    <3>3. error'[c] = class /\ \A d \in Clients \ {c} : error'[d] = error[d] /\ status'[d] = status[d]
      BY <2>1, <3>1 DEF TypeOK
    <3>4. \A d \in Clients \ {c} : status'[d] = "raised" => Rooted(error[d])'
      BY <3>3, RootsStay DEF RootedInv
    <3>5. Rooted(error[c])'
      BY <3>2, <3>3 DEF Rooted
    <3> QED
      BY <3>4, <3>5
  <2>2. CASE /\ status' = [status EXCEPT ![c] = IF AllCached(Wants[c]) THEN "settled" ELSE "polling"]
             /\ UNCHANGED error
    BY <2>2, RootsStay DEF RootedInv, TypeOK
  <2> QED
    BY <2>1, <2>2 DEF PollClient
<1>2. \A i \in Inputs : TaskRooted(i)'
  BY TasksStayRooted
<1> QED
  BY <1>1, <1>2 DEF RootedInv

LEMMA RootedInit == Init => RootedInv
BY DEF Init, RootedInv, TaskRooted

LEMMA RootedStep ==
    ASSUME TypeOK, RootedInv, Recorded, [Next]_vars
    PROVE  RootedInv'
<1>1. ASSUME NEW c \in Clients, Resolve(c)
      PROVE  RootedInv'
  <2>1. CASE PollClient(c)
    BY <1>1, <2>1, PollClientRooted DEF Resolve
  <2>2. CASE status' = [status EXCEPT ![c] = "returned"] /\ UNCHANGED error
    <3>1. \A d \in Clients : status'[d] = "raised" => status[d] = "raised" /\ error'[d] = error[d]
      BY <2>2 DEF TypeOK
    <3>2. UNCHANGED <<exc, raw>>
      BY <1>1 DEF Resolve
    <3> QED
      BY <3>1, <3>2, TasksStayRooted, RootsStay DEF RootedInv
  <2> QED
    BY <1>1, <2>1, <2>2 DEF Resolve
<1>2. ASSUME NEW c \in Clients, Poll(c)
      PROVE  RootedInv'
  BY <1>2, PollClientRooted DEF Poll
<1>3. ASSUME NEW c \in Clients, Return(c)
      PROVE  RootedInv'
  <2>1. \A d \in Clients : status'[d] = "raised" => status[d] = "raised" /\ error'[d] = error[d]
    BY <1>3 DEF Return, TypeOK
  <2>2. UNCHANGED <<exc, raw>>
    BY <1>3 DEF Return
  <2> QED
    BY <2>1, <2>2, TasksStayRooted, RootsStay DEF RootedInv
<1>4. ASSUME NEW i \in Inputs, Begin(i) \/ StartBody(i)
      PROVE  RootedInv'
  <2>1. UNCHANGED <<exc, raw, status, error>>
    BY <1>4 DEF Begin, StartBody
  <2> QED
    BY <2>1, TasksStayRooted, RootsStay DEF RootedInv
<1>5. ASSUME NEW i \in Inputs, OpenFails(i)
      PROVE  RootedInv'
  <2>1. TaskRooted(i)'
    BY <1>5 DEF OpenFails, TaskRooted, TypeOK
  <2>2. \A j \in Inputs \ {i} : exc'[j] = exc[j] /\ raw'[j] = raw[j]
    BY <1>5 DEF OpenFails, TypeOK
  <2>3. UNCHANGED <<status, error>>
    BY <1>5 DEF OpenFails
  <2> QED
    BY <2>1, <2>2, <2>3, TasksStayRooted, RootsStay DEF RootedInv
<1>6. ASSUME NEW i \in Inputs, Enter(i)
      PROVE  RootedInv'
  <2>1. CASE PollInput(i, Schedule(Deps[i]))
    BY <1>6, <2>1, PollInputRooted DEF Enter
  <2>2. CASE UNCHANGED <<exc, raw>>
    BY <1>6, <2>2, TasksStayRooted, RootsStay DEF Enter, RootedInv
  <2> QED
    BY <1>6, <2>1, <2>2 DEF Enter
<1>7. ASSUME NEW i \in Inputs, PollReaders(i)
      PROVE  RootedInv'
  BY <1>7, PollInputRooted DEF PollReaders
<1>8. ASSUME NEW i \in Inputs, BodyReturns(i) \/ BodyRaises(i)
      PROVE  RootedInv'
  BY <1>8, LeaveRooted DEF BodyReturns, BodyRaises
<1>9. ASSUME NEW i \in Inputs, Closed(i)
      PROVE  RootedInv'
  BY <1>9, CloseRooted DEF Closed, RootedInv, TaskRooted
<1>10. CASE UNCHANGED vars
  BY <1>10, TasksStayRooted, RootsStay DEF vars, RootedInv
<1> QED
  BY <1>1, <1>2, <1>3, <1>4, <1>5, <1>6, <1>7, <1>8, <1>9, <1>10
     DEF Next, AnswerStep, InputStep

(* The error a client sees is the mapped error of an input that raised one *)
(* itself, at any depth of the graph of inputs: a transient error, after   *)
(* which the process is restarted, always comes from an input.             *)
THEOREM ErrorsAreRooted == Spec => []ErrorRooted
<1>1. RootedInv => ErrorRooted
  BY DEF RootedInv, Rooted, ErrorRooted
<1>2. TypeOK /\ EntryWhenLeft /\ [Next]_vars => EntryWhenLeft' /\ Recorded
  BY RecordedStep
<1>3. TypeOK /\ RootedInv /\ Recorded /\ [Next]_vars => RootedInv'
  BY RootedStep
<1>4. TypeOK /\ EntryWhenLeft /\ RootedInv /\ [Next]_vars => (EntryWhenLeft /\ RootedInv)'
  BY <1>2, <1>3
<1> QED
  BY <1>1, <1>4, TypeCorrect, EntryInit, RootedInit, PTL DEF Spec

-----------------------------------------------------------------------------
(* What resolve() returns is complete, but for inputs that close slowly *)

Prompt == Inputs \ SlowClose

(* The entry of an input that does not suspend as it closes is written in  *)
(* the step that ends the task, so a caller that finds the entry there and *)
(* no failed task knows the input has data.                                *)
EntryMeansDone ==
    /\ \A i \in Prompt : phase[i] # "closing"
    /\ \A i \in Prompt : cache[i] # "absent" => phase[i] = "done"
    /\ \A i \in Prompt : phase[i] = "done" /\ exc[i] = NoError => data[i]

SettledHasData ==
    /\ \A i \in Inputs : phase[i] = "settled" => \A d \in Deps[i] \cap Prompt : data[d]
    /\ \A c \in Clients : status[c] = "settled" => \A d \in Wants[c] \cap Prompt : data[d]

NothingYet ==
    /\ \A i \in Inputs : phase[i] \in {"unscheduled", "created", "opening"} => received[i] = {}
    /\ \A c \in Clients : status[c] = "idle" => received[c] = {}

CompleteInv == EntryMeansDone /\ SettledHasData /\ NothingYet /\ MissingIsSlow

LEMMA CompleteInit == Init => CompleteInv
BY DEF Init, CompleteInv, EntryMeansDone, SettledHasData, NothingYet, MissingIsSlow, Callers, Prompt

(* The step from the cache to the data *)
LEMMA CachedHasData ==
    ASSUME EntryMeansDone, Failed = {}, NEW S \in SUBSET Inputs, AllCached(S)
    PROVE  \A d \in S \cap Prompt : data[d]
BY DEF EntryMeansDone, Failed, AllCached, Prompt

LEMMA ResolvedIsComplete ==
    ASSUME NEW S \in SUBSET Inputs, \A d \in S \cap Prompt : data[d]
    PROVE  Resolved(S) \subseteq S /\ S \ Resolved(S) \subseteq SlowClose
BY DEF Resolved, Prompt

(* Where a poll leads, for an input and for a client *)
LEMMA PollInputEffect ==
    ASSUME TypeOK, NEW i \in Inputs, NEW phases \in Grown, PollInput(i, phases)
    PROVE  /\ \A j \in Inputs \ {i} : phase'[j] = phases[j] /\ exc'[j] = exc[j] /\ cache'[j] = cache[j]
           /\ \/ phase'[i] \in {"closing", "done"} /\ exc'[i] # NoError
                 /\ (i \in Prompt => phase'[i] = "done")
              \/ phase'[i] = "waiting" /\ cache'[i] = cache[i]
              \/ phase'[i] = "settled" /\ cache'[i] = cache[i] /\ Failed = {} /\ AllCached(Deps[i])
<1>1. CASE \E class \in RaisedClasses : Leave(i, phases, "none", class, NoError)
  <2>1. PICK class \in RaisedClasses : Leave(i, phases, "none", class, NoError)
    BY <1>1
  <2>2. class # NoError
    BY RaisedClassesType, ErrorClassAssumption, ThrownAssumption
  <2>3. /\ cache' = [cache EXCEPT ![i] = "none"]
        /\ \/ Close(i, phases, class, NoError)
           \/ /\ i \notin Prompt
              /\ phase' = [phases EXCEPT ![i] = "closing"]
              /\ exc' = [exc EXCEPT ![i] = class]
    BY <2>1 DEF Leave, Prompt
  <2>4. /\ phase'[i] \in {"closing", "done"} /\ exc'[i] # NoError
        /\ i \in Prompt => phase'[i] = "done"
    BY <2>2, <2>3, ThrownAssumption DEF Close, Grown, TypeOK
  <2>5. \A j \in Inputs \ {i} : phase'[j] = phases[j] /\ exc'[j] = exc[j] /\ cache'[j] = cache[j]
    BY <2>3 DEF Close, Grown, TypeOK
  <2> QED
    BY <2>4, <2>5
<1>2. CASE /\ Failed = {}
           /\ phase' = [phases EXCEPT ![i] = IF AllCached(Deps[i]) THEN "settled" ELSE "waiting"]
           /\ UNCHANGED <<cache, exc, raw>>
  <2>1. CASE AllCached(Deps[i])
    BY <1>2, <2>1 DEF Grown
  <2>2. CASE ~ AllCached(Deps[i])
    BY <1>2, <2>2 DEF Grown
  <2> QED
    BY <2>1, <2>2
<1> QED
  BY <1>1, <1>2 DEF PollInput

LEMMA PollClientEffect ==
    ASSUME TypeOK, NEW c \in Clients, PollClient(c)
    PROVE  /\ \A d \in Clients \ {c} : status'[d] = status[d]
           /\ \/ status'[c] \in {"raised", "polling"}
              \/ status'[c] = "settled" /\ Failed = {} /\ AllCached(Wants[c])
BY DEF PollClient, TypeOK

(* A step of input i that ends in the loop of resolve(), in the body or    *)
(* with an error keeps the invariant.                                      *)
LEMMA PollInputComplete ==
    ASSUME TypeOK, CompleteInv, NEW i \in Inputs,
           phase[i] \in {"opening", "waiting"}, NEW phases \in Grown,
           \A j \in Inputs : phases[j] \in {phase[j], "created"},
           PollInput(i, phases), UNCHANGED <<data, status, received>>
    PROVE  CompleteInv'
<1>1. /\ \A j \in Inputs \ {i} : phase'[j] = phases[j] /\ exc'[j] = exc[j] /\ cache'[j] = cache[j]
      /\ \/ phase'[i] \in {"closing", "done"} /\ exc'[i] # NoError
            /\ (i \in Prompt => phase'[i] = "done")
         \/ phase'[i] = "waiting" /\ cache'[i] = cache[i]
         \/ phase'[i] = "settled" /\ cache'[i] = cache[i] /\ Failed = {} /\ AllCached(Deps[i])
  BY PollInputEffect
<1>2. \A j \in Inputs : phase[j] # "unscheduled" => phases[j] = phase[j]
  BY DEF Grown
<1>3. Deps[i] \in SUBSET Inputs
  BY GraphAssumption
<1>4. EntryMeansDone'
  BY <1>1, <1>2 DEF CompleteInv, EntryMeansDone, Prompt
<1>5. SettledHasData'
  <2>1. phase'[i] = "settled" => \A d \in Deps[i] \cap Prompt : data[d]
    BY <1>1, <1>3, CachedHasData DEF CompleteInv
  <2> QED
    BY <1>1, <1>2, <2>1 DEF CompleteInv, SettledHasData
<1>6. NothingYet'
  BY <1>1, <1>2 DEF CompleteInv, NothingYet
<1>7. MissingIsSlow'
  BY <1>1, <1>2 DEF CompleteInv, MissingIsSlow
<1> QED
  BY <1>4, <1>5, <1>6, <1>7 DEF CompleteInv

LEMMA SchedulePhases ==
    ASSUME NEW S
    PROVE  \A j \in Inputs : Schedule(S)[j] \in {phase[j], "created"}
BY DEF Schedule

LEMMA CompleteStep ==
    ASSUME TypeOK, CompleteInv, [Next]_vars
    PROVE  CompleteInv'
<1>1. ASSUME NEW c \in Clients, Resolve(c)
      PROVE  CompleteInv'
  <2>1. \A i \in Inputs : phase'[i] = phase[i] \/ (phase[i] = "unscheduled" /\ phase'[i] = "created")
    BY <1>1 DEF Resolve, Schedule
  <2>2. /\ \A d \in Clients \ {c} : status'[d] = status[d]
        /\ \/ status'[c] \in {"raised", "polling"}
           \/ status'[c] = "returned" /\ Wants[c] = {}
           \/ status'[c] = "settled" /\ Failed = {} /\ AllCached(Wants[c])
    <3>1. CASE PollClient(c)
      BY <3>1, PollClientEffect
    <3>2. CASE Wants[c] = {} /\ status' = [status EXCEPT ![c] = "returned"]
      BY <3>2 DEF TypeOK
    <3> QED
      BY <1>1, <3>1, <3>2 DEF Resolve
  <2>3. status[c] = "idle" /\ UNCHANGED <<data, cache, exc, total, received, raw>>
    BY <1>1 DEF Resolve
  <2>4. status'[c] = "settled" => \A d \in Wants[c] \cap Prompt : data[d]
    BY <2>2, CachedHasData, GraphAssumption DEF CompleteInv
  <2>5. EntryMeansDone'
    BY <2>1, <2>3 DEF CompleteInv, EntryMeansDone, Prompt
  <2>6. SettledHasData'
    BY <2>1, <2>2, <2>3, <2>4 DEF CompleteInv, SettledHasData
  <2>7. NothingYet'
    BY <2>1, <2>2, <2>3 DEF CompleteInv, NothingYet
  <2>8. MissingIsSlow'
    BY <2>1, <2>2, <2>3 DEF CompleteInv, NothingYet, MissingIsSlow
  <2> QED
    BY <2>5, <2>6, <2>7, <2>8 DEF CompleteInv
<1>2. ASSUME NEW c \in Clients, Poll(c)
      PROVE  CompleteInv'
  <2>1. /\ \A d \in Clients \ {c} : status'[d] = status[d]
        /\ \/ status'[c] \in {"raised", "polling"}
           \/ status'[c] = "settled" /\ Failed = {} /\ AllCached(Wants[c])
    BY <1>2, PollClientEffect DEF Poll
  <2>2. UNCHANGED <<phase, data, cache, exc, total, received, raw>>
    BY <1>2 DEF Poll
  <2>3. status'[c] = "settled" => \A d \in Wants[c] \cap Prompt : data[d]
    BY <2>1, CachedHasData, GraphAssumption DEF CompleteInv
  <2> QED
    BY <2>1, <2>2, <2>3
       DEF CompleteInv, EntryMeansDone, SettledHasData, NothingYet, MissingIsSlow
<1>3. ASSUME NEW c \in Clients, Return(c)
      PROVE  CompleteInv'
  <2>1. /\ Resolved(Wants[c]) \subseteq Wants[c]
        /\ Wants[c] \ Resolved(Wants[c]) \subseteq SlowClose
    BY <1>3, GraphAssumption, ResolvedIsComplete DEF Return, CompleteInv, SettledHasData
  <2>2. received'[c] = Resolved(Wants[c]) /\ \A x \in Callers \ {c} : received'[x] = received[x]
    BY <1>3 DEF Return, TypeOK, Callers
  <2>3. status'[c] = "returned" /\ \A d \in Clients \ {c} : status'[d] = status[d]
    BY <1>3 DEF Return, TypeOK
  <2>4. UNCHANGED <<phase, data, cache, exc>>
    BY <1>3 DEF Return
  <2> QED
    BY <2>1, <2>2, <2>3, <2>4, GraphAssumption
       DEF CompleteInv, EntryMeansDone, SettledHasData, NothingYet, MissingIsSlow, Callers
<1>4. ASSUME NEW i \in Inputs, Begin(i)
      PROVE  CompleteInv'
  BY <1>4 DEF Begin, TypeOK, CompleteInv, EntryMeansDone, SettledHasData, NothingYet, MissingIsSlow
<1>5. ASSUME NEW i \in Inputs, OpenFails(i)
      PROVE  CompleteInv'
  <2>1. exc'[i] # NoError
    BY <1>5, ThrownAssumption DEF OpenFails, TypeOK
  <2> QED
    BY <1>5, <2>1
       DEF OpenFails, TypeOK, CompleteInv, EntryMeansDone, SettledHasData, NothingYet, MissingIsSlow
<1>6. ASSUME NEW i \in Inputs, Enter(i)
      PROVE  CompleteInv'
  <2>1. CASE PollInput(i, Schedule(Deps[i]))
    BY <1>6, <2>1, GrownPhases, SchedulePhases, PollInputComplete DEF Enter
  <2>2. CASE /\ Deps[i] = {}
             /\ phase' = [phase EXCEPT ![i] = "reading"]
             /\ UNCHANGED <<cache, exc, raw>>
    <3>1. received[i] = Deps[i]
      BY <1>6, <2>2 DEF Enter, CompleteInv, NothingYet
    <3> QED
      BY <1>6, <2>2, <3>1
         DEF Enter, TypeOK, CompleteInv, EntryMeansDone, SettledHasData, NothingYet, MissingIsSlow
  <2> QED
    BY <1>6, <2>1, <2>2 DEF Enter
<1>7. ASSUME NEW i \in Inputs, PollReaders(i)
      PROVE  CompleteInv'
  BY <1>7, GrownPhases, PollInputComplete DEF PollReaders
<1>8. ASSUME NEW i \in Inputs, StartBody(i)
      PROVE  CompleteInv'
  <2>1. /\ Resolved(Deps[i]) \subseteq Deps[i]
        /\ Deps[i] \ Resolved(Deps[i]) \subseteq SlowClose
    BY <1>8, GraphAssumption, ResolvedIsComplete DEF StartBody, CompleteInv, SettledHasData
  <2>2. received'[i] = Resolved(Deps[i]) /\ \A x \in Callers \ {i} : received'[x] = received[x]
    BY <1>8 DEF StartBody, TypeOK, Callers
  <2>3. phase'[i] = "reading" /\ \A j \in Inputs \ {i} : phase'[j] = phase[j]
    BY <1>8 DEF StartBody, TypeOK
  <2>4. UNCHANGED <<status, data, cache, exc>>
    BY <1>8 DEF StartBody
  <2>5. \A j \in Prompt : cache[j] # "absent" => j # i
    BY <1>8 DEF StartBody, CompleteInv, EntryMeansDone
  <2> QED
    BY <2>1, <2>2, <2>3, <2>4, <2>5, GraphAssumption
       DEF CompleteInv, EntryMeansDone, SettledHasData, NothingYet, MissingIsSlow, Callers, Prompt
<1>9. ASSUME NEW i \in Inputs, BodyReturns(i) \/ BodyRaises(i)
      PROVE  CompleteInv'
  <2>1. /\ phase'[i] \in {"closing", "done"} /\ \A j \in Inputs \ {i} : phase'[j] = phase[j]
        /\ \A j \in Inputs \ {i} : exc'[j] = exc[j] /\ cache'[j] = cache[j] /\ data'[j] = data[j]
        /\ i \in Prompt => phase'[i] = "done" /\ (data'[i] \/ exc'[i] # NoError)
    <3>1. CASE BodyReturns(i)
      BY <3>1 DEF BodyReturns, Leave, Close, TypeOK, Prompt
    <3>2. CASE BodyRaises(i)
      BY <3>2, ThrownAssumption DEF BodyRaises, Leave, Close, TypeOK, Prompt
    <3> QED
      BY <1>9, <3>1, <3>2
  <2>2. received[i] \subseteq Deps[i] /\ Deps[i] \ received[i] \subseteq SlowClose
        /\ UNCHANGED <<status, received>>
    BY <1>9 DEF BodyReturns, BodyRaises, CompleteInv, MissingIsSlow
  <2>3. \A j \in Inputs : data[j] => data'[j]
    BY <1>9 DEF BodyReturns, BodyRaises, TypeOK
  <2> QED
    BY <2>1, <2>2, <2>3, GraphAssumption
       DEF CompleteInv, EntryMeansDone, SettledHasData, NothingYet, MissingIsSlow, Prompt
<1>10. ASSUME NEW i \in Inputs, Closed(i)
       PROVE  CompleteInv'
  <2>1. /\ phase[i] = "closing" /\ phase'[i] = "done" /\ i \notin Prompt
        /\ \A j \in Inputs \ {i} : phase'[j] = phase[j] /\ exc'[j] = exc[j]
        /\ UNCHANGED <<data, cache, status, received>>
    BY <1>10 DEF Closed, Close, CompleteInv, EntryMeansDone, TypeOK
  <2> QED
    BY <2>1 DEF CompleteInv, EntryMeansDone, SettledHasData, NothingYet, MissingIsSlow, Prompt
<1>11. CASE UNCHANGED vars
  BY <1>11 DEF vars, CompleteInv, EntryMeansDone, SettledHasData, NothingYet, MissingIsSlow,
               AllCached, Failed
<1> QED
  BY <1>1, <1>2, <1>3, <1>4, <1>5, <1>6, <1>7, <1>8, <1>9, <1>10, <1>11
     DEF Next, AnswerStep, InputStep

LEMMA CompleteInvariant == Spec => []CompleteInv
<1>1. TypeOK /\ CompleteInv /\ [Next]_vars => CompleteInv'
  BY CompleteStep
<1> QED
  BY <1>1, TypeCorrect, CompleteInit, PTL DEF Spec

(* An answer lacks nothing but inputs that suspend while they close,       *)
(* however many callers and inputs there are: the window in which a failed *)
(* input is in the cache and its task not yet done is the only way to miss *)
(* one.                                                                    *)
THEOREM OnlySlowAreMissed == Spec => []MissingIsSlow
<1>1. CompleteInv => MissingIsSlow
  BY DEF CompleteInv
<1> QED
  BY <1>1, CompleteInvariant, PTL

(* Where no input suspends while it closes, nobody is handed an incomplete *)
(* answer: the body of an input starts with the data of all its readers,   *)
(* and a client is answered with the data of all it asked for.             *)
THEOREM ResultsAreComplete ==
    ASSUME SlowClose = {}
    PROVE  Spec => []ResultsComplete
<1>1. MissingIsSlow => ResultsComplete
  BY DEF MissingIsSlow, ResultsComplete
<1> QED
  BY <1>1, OnlySlowAreMissed, PTL

-----------------------------------------------------------------------------
(* Nobody waits in vain *)

(* Whoever polls has had a task created for all it asked for. *)
AskedFor ==
    /\ \A c \in Clients : status[c] = "polling" => \A d \in Wants[c] : phase[d] # "unscheduled"
    /\ \A i \in Inputs : phase[i] = "waiting" => \A d \in Deps[i] : phase[d] # "unscheduled"

(* A task does not end without an entry, unless with an exception. *)
EndIsSeen ==
    /\ \A i \in Inputs : phase[i] = "closing" => cache[i] # "absent"
    /\ \A i \in Inputs : phase[i] = "done" => cache[i] # "absent" \/ exc[i] # NoError

(* What is needed contains S and is closed. *)
LEMMA NeededIsClosed ==
    ASSUME NEW S \in SUBSET Inputs
    PROVE  /\ Needed[S] \subseteq Inputs
           /\ S \subseteq Needed[S]
           /\ \A i \in Needed[S] : Deps[i] \subseteq Needed[S]
<1>1. Needed[S] = {i \in Inputs : \A U \in SUBSET Inputs :
                      S \subseteq U /\ (\A j \in U : Deps[j] \subseteq U) => i \in U}
  BY DEF Needed
<1>2. \A i \in Inputs : Deps[i] \subseteq Inputs
  BY GraphAssumption
<1>3. ASSUME NEW i \in Needed[S], NEW d \in Deps[i]
      PROVE  d \in Needed[S]
  BY <1>1, <1>2
<1> QED
  BY <1>1, <1>3

(* If nothing that is needed could go on, the inputs that wait would wait  *)
(* for inputs that wait; a graph without cycles has no such set.           *)
LEMMA SomethingWorks ==
    ASSUME TypeOK, AskedFor, EndIsSeen, Failed = {}, NEW S \in SUBSET Inputs,
           \A d \in S : phase[d] # "unscheduled"
    PROVE  AllCached(S) \/ \E i \in Needed[S] : Works(i)
<1> SUFFICES ASSUME NEW d \in S, cache[d] = "absent", \A i \in Needed[S] : ~Works(i)
             PROVE  FALSE
  BY DEF AllCached
<1>1. ASSUME NEW i \in Needed[S], phase[i] # "unscheduled", cache[i] = "absent"
      PROVE  phase[i] = "waiting"
  <2>1. i \in Inputs /\ phase[i] \in Phases
    BY NeededIsClosed DEF TypeOK
  <2>2. phase[i] \notin {"created", "opening", "settled", "reading", "closing"}
    BY DEF Works
  <2>3. phase[i] # "done"
    BY <1>1, <2>1 DEF EndIsSeen, Failed
  <2> QED
    BY <1>1, <2>1, <2>2, <2>3 DEF Phases
<1> DEFINE Stuck == {i \in Needed[S] : phase[i] = "waiting"}
<1>2. Stuck \in SUBSET Inputs /\ d \in Stuck
  BY <1>1, NeededIsClosed
<1>3. PICK m \in Stuck : Deps[m] \cap Stuck = {}
  BY <1>2, GraphAssumption
<1>4. m \in Inputs /\ m \in Needed[S] /\ phase[m] = "waiting" /\ Deps[m] \subseteq Needed[S]
  BY <1>2, NeededIsClosed
<1>5. PICK e \in Deps[m] : cache[e] = "absent"
  BY <1>4 DEF Works, AllCached
<1>6. e \in Needed[S] /\ phase[e] = "waiting"
  BY <1>1, <1>4, <1>5 DEF AskedFor
<1> QED
  BY <1>3, <1>5, <1>6

LEMMA ServedByWork ==
    ASSUME TypeOK, AskedFor, EndIsSeen
    PROVE  WaitsForWork
<1>1. ASSUME Failed = {}, NEW c \in Clients, status[c] = "polling"
      PROVE  AllCached(Wants[c]) \/ \E i \in Needed[Wants[c]] : Works(i)
  BY <1>1, GraphAssumption, SomethingWorks DEF AskedFor
<1>2. ASSUME Failed = {}, NEW i \in Inputs, phase[i] = "waiting"
      PROVE  AllCached(Deps[i]) \/ \E j \in Needed[Deps[i]] : Works(j)
  BY <1>2, GraphAssumption, SomethingWorks DEF AskedFor
<1> QED
  BY <1>1, <1>2 DEF WaitsForWork

(* The end of a poll in an input, and of its body, wherever they lead *)
LEMMA LeaveIsSeen ==
    ASSUME TypeOK, AskedFor, EndIsSeen, Recorded, NEW i \in Inputs, NEW phases \in Grown,
           \A j \in Inputs : phases[j] \in {phase[j], "created"},
           NEW entry \in {"none", "value"}, NEW e, NEW r, Leave(i, phases, entry, e, r),
           UNCHANGED status
    PROVE  AskedFor' /\ EndIsSeen'
<1>1. /\ phase'[i] \in {"closing", "done"}
      /\ \A j \in Inputs \ {i} : phase'[j] = phases[j] /\ exc'[j] = exc[j]
      /\ cache'[i] # "absent"
  BY DEF Leave, Close, Grown, TypeOK
<1>2. \A j \in Inputs : phase[j] # "unscheduled" => phase'[j] # "unscheduled"
  BY <1>1 DEF Grown
<1>3. EndIsSeen'
  BY <1>1 DEF EndIsSeen, Recorded
<1>4. AskedFor'
  BY <1>1, <1>2, GraphAssumption DEF AskedFor
<1> QED
  BY <1>3, <1>4

LEMMA PollIsAsked ==
    ASSUME TypeOK, AskedFor, EndIsSeen, Recorded, NEW i \in Inputs, NEW phases \in Grown,
           \A j \in Inputs : phases[j] \in {phase[j], "created"},
           \A d \in Deps[i] : phases[d] # "unscheduled",
           PollInput(i, phases), UNCHANGED status
    PROVE  AskedFor' /\ EndIsSeen'
<1>1. CASE \E class \in RaisedClasses : Leave(i, phases, "none", class, NoError)
  BY <1>1, LeaveIsSeen
<1>2. CASE /\ phase' = [phases EXCEPT ![i] = IF AllCached(Deps[i]) THEN "settled" ELSE "waiting"]
           /\ UNCHANGED <<cache, exc, raw>>
  <2>1. /\ phase'[i] \in {"settled", "waiting"}
        /\ \A j \in Inputs \ {i} : phase'[j] = phases[j]
    BY <1>2 DEF Grown
  <2>2. \A j \in Inputs : phase[j] # "unscheduled" => phase'[j] # "unscheduled"
    BY <2>1 DEF Grown
  <2>3. \A d \in Deps[i] : phase'[d] # "unscheduled"
    BY <2>1, GraphAssumption
  <2>4. EndIsSeen'
    BY <1>2, <2>1 DEF EndIsSeen
  <2>5. AskedFor'
    BY <2>1, <2>2, <2>3, GraphAssumption DEF AskedFor
  <2> QED
    BY <2>4, <2>5
<1> QED
  BY <1>1, <1>2 DEF PollInput

LEMMA ScheduleAsks ==
    ASSUME TypeOK, NEW S \in SUBSET Inputs
    PROVE  \A d \in S : Schedule(S)[d] # "unscheduled"
BY DEF Schedule

LEMMA AskedStep ==
    ASSUME TypeOK, AskedFor, EndIsSeen, Recorded, [Next]_vars
    PROVE  AskedFor' /\ EndIsSeen'
<1> USE GraphAssumption
<1>1. ASSUME NEW c \in Clients, Resolve(c)
      PROVE  AskedFor' /\ EndIsSeen'
  <2>1. /\ phase' = Schedule(Wants[c]) /\ UNCHANGED <<cache, exc>>
        /\ \A i \in Inputs : phase'[i] = phase[i] \/ (phase[i] = "unscheduled" /\ phase'[i] = "created")
    BY <1>1 DEF Resolve, Schedule
  <2>2. \A d \in Wants[c] : phase'[d] # "unscheduled"
    BY <2>1, ScheduleAsks
  <2>3. \A d \in Clients \ {c} : status'[d] = status[d]
    BY <1>1 DEF Resolve, PollClient, TypeOK
  <2>4. AskedFor'
    BY <2>1, <2>2, <2>3 DEF AskedFor
  <2> QED
    BY <2>1, <2>4 DEF EndIsSeen
<1>2. ASSUME NEW c \in Clients, AnswerStep(c)
      PROVE  AskedFor' /\ EndIsSeen'
  <2>1. UNCHANGED <<phase, cache, exc>>
    BY <1>2 DEF AnswerStep, Poll, Return
  <2>2. \A d \in Clients : status'[d] = "polling" => status[d] = "polling"
    BY <1>2 DEF AnswerStep, Poll, Return, PollClient, TypeOK
  <2> QED
    BY <2>1, <2>2 DEF AskedFor, EndIsSeen
<1>3. ASSUME NEW i \in Inputs, Begin(i) \/ StartBody(i)
      PROVE  AskedFor' /\ EndIsSeen'
  BY <1>3 DEF Begin, StartBody, AskedFor, EndIsSeen, TypeOK
<1>4. ASSUME NEW i \in Inputs, OpenFails(i)
      PROVE  AskedFor' /\ EndIsSeen'
  <2>1. exc'[i] # NoError
    BY <1>4, ThrownAssumption DEF OpenFails, TypeOK
  <2>2. phase'[i] = "done" /\ UNCHANGED <<cache, status>>
        /\ \A j \in Inputs \ {i} : phase'[j] = phase[j] /\ exc'[j] = exc[j]
    BY <1>4 DEF OpenFails, TypeOK
  <2> QED
    BY <2>1, <2>2 DEF AskedFor, EndIsSeen
<1>5. ASSUME NEW i \in Inputs, Enter(i)
      PROVE  AskedFor' /\ EndIsSeen'
  <2>1. CASE PollInput(i, Schedule(Deps[i]))
    BY <1>5, <2>1, GrownPhases, SchedulePhases, ScheduleAsks, PollIsAsked DEF Enter
  <2>2. CASE phase' = [phase EXCEPT ![i] = "reading"] /\ UNCHANGED <<cache, exc, raw>>
    BY <1>5, <2>2 DEF Enter, AskedFor, EndIsSeen, TypeOK
  <2> QED
    BY <1>5, <2>1, <2>2 DEF Enter
<1>6. ASSUME NEW i \in Inputs, PollReaders(i)
      PROVE  AskedFor' /\ EndIsSeen'
  BY <1>6, GrownPhases, PollIsAsked DEF PollReaders, AskedFor
<1>7. ASSUME NEW i \in Inputs, BodyReturns(i) \/ BodyRaises(i)
      PROVE  AskedFor' /\ EndIsSeen'
  BY <1>7, GrownPhases, LeaveIsSeen DEF BodyReturns, BodyRaises
<1>8. ASSUME NEW i \in Inputs, Closed(i)
      PROVE  AskedFor' /\ EndIsSeen'
  <2>1. /\ cache[i] # "absent" /\ phase'[i] = "done" /\ UNCHANGED <<cache, status>>
        /\ \A j \in Inputs \ {i} : phase'[j] = phase[j] /\ exc'[j] = exc[j]
    BY <1>8 DEF Closed, Close, EndIsSeen, TypeOK
  <2> QED
    BY <2>1 DEF AskedFor, EndIsSeen
<1>9. CASE UNCHANGED vars
  BY <1>9 DEF vars, AskedFor, EndIsSeen
<1> QED
  BY <1>1, <1>2, <1>3, <1>4, <1>5, <1>6, <1>7, <1>8, <1>9 DEF Next, InputStep

(* The cache does not block: as long as no task has failed, whoever polls  *)
(* needs an input that can go on, for every acyclic graph of inputs, every *)
(* set of clients and inputs that close slowly as well.                    *)
THEOREM NobodyWaitsInVain == Spec => []WaitsForWork
<1> DEFINE WInv == AskedFor /\ EndIsSeen
<1>1. Init => WInv
  BY DEF Init, AskedFor, EndIsSeen
<1>2. TypeOK /\ EntryWhenLeft /\ [Next]_vars => EntryWhenLeft' /\ Recorded
  BY RecordedStep
<1>3. TypeOK /\ WInv /\ Recorded /\ [Next]_vars => WInv'
  BY AskedStep
<1>4. TypeOK /\ WInv => WaitsForWork
  BY ServedByWork
<1> HIDE DEF WInv
<1>5. TypeOK /\ EntryWhenLeft /\ WInv /\ [Next]_vars => (EntryWhenLeft /\ WInv)'
  BY <1>2, <1>3
<1> QED
  BY <1>1, <1>4, <1>5, TypeCorrect, EntryInit, PTL DEF Spec

-----------------------------------------------------------------------------
(* Calls end: what can be said of it without fairness *)

TaskStage(there) ==
    CASE there = "created" -> 1
      [] there = "opening" -> 2
      [] there = "waiting" -> 3
      [] there = "settled" -> 4
      [] there = "reading" -> 5
      [] there = "closing" -> 6
      [] there = "done"    -> 7
      [] OTHER             -> 0

CallStage(there) ==
    CASE there = "polling"                -> 1
      [] there = "settled"                -> 2
      [] there \in {"returned", "raised"} -> 3
      [] OTHER                            -> 0

(* A step takes a task or a call to a later stage, and none to an earlier. *)
Advances ==
    /\ \A i \in Inputs : TaskStage(phase[i]) <= TaskStage(phase'[i])
    /\ \A c \in Clients : CallStage(status[c]) <= CallStage(status'[c])
    /\ \/ \E i \in Inputs : TaskStage(phase[i]) < TaskStage(phase'[i])
       \/ \E c \in Clients : CallStage(status[c]) < CallStage(status'[c])

LEMMA StagesAreNumbers ==
    /\ \A there : TaskStage(there) \in Nat
    /\ \A there : CallStage(there) \in Nat
BY DEF TaskStage, CallStage

LEMMA TasksAdvance ==
    ASSUME TypeOK, NEW phases \in Grown, NEW i \in Inputs, NEW there \in Phases,
           phase' = [phases EXCEPT ![i] = there],
           TaskStage(phase[i]) < TaskStage(there),
           UNCHANGED status
    PROVE  Advances
<1>1. ASSUME NEW j \in Inputs
      PROVE  TaskStage(phase[j]) <= TaskStage(phase'[j])
  <2>1. CASE j = i
    <3>1. phase'[j] = there
      BY <2>1 DEF Grown
    <3> QED
      BY <2>1, <3>1, StagesAreNumbers
  <2>2. CASE j # i
    <3>1. phase'[j] = phases[j]
      BY <2>2 DEF Grown
    <3>2. phase[j] = "unscheduled" \/ phases[j] = phase[j]
      BY DEF Grown
    <3>3. TaskStage("unscheduled") = 0
      BY DEF TaskStage
    <3> QED
      BY <3>1, <3>2, <3>3, StagesAreNumbers
  <2> QED
    BY <2>1, <2>2
<1>2. phase'[i] = there
  BY DEF Grown
<1> QED
  BY <1>1, <1>2, StagesAreNumbers DEF Advances

LEMMA CallsAdvance ==
    ASSUME TypeOK, NEW phases \in Grown, phase' = phases, NEW c \in Clients, NEW there,
           status' = [status EXCEPT ![c] = there],
           CallStage(status[c]) < CallStage(there)
    PROVE  Advances
<1>1. ASSUME NEW j \in Inputs
      PROVE  TaskStage(phase[j]) <= TaskStage(phase'[j])
  <2>1. phase[j] = "unscheduled" \/ phases[j] = phase[j]
    BY DEF Grown
  <2>2. TaskStage("unscheduled") = 0
    BY DEF TaskStage
  <2> QED
    BY <2>1, <2>2, StagesAreNumbers
<1>2. /\ status'[c] = there
      /\ \A d \in Clients \ {c} : status'[d] = status[d]
  BY DEF TypeOK
<1> QED
  BY <1>1, <1>2, StagesAreNumbers DEF Advances

LEMMA LeaveAdvances ==
    ASSUME TypeOK, NEW phases \in Grown, NEW i \in Inputs,
           phase[i] \in {"opening", "waiting", "reading"},
           NEW entry, NEW e, NEW r, Leave(i, phases, entry, e, r), UNCHANGED status
    PROVE  Advances
<1>1. PICK there \in {"closing", "done"} : phase' = [phases EXCEPT ![i] = there]
  BY DEF Leave, Close
<1>2. TaskStage(phase[i]) < TaskStage(there)
  BY <1>1 DEF TaskStage
<1> QED
  BY <1>1, <1>2, TasksAdvance DEF Phases

(* An iteration of the loop that changes anything ends it. *)
LEMMA PollClientAdvances ==
    ASSUME TypeOK, NEW c \in Clients, status[c] = "polling", phase' = phase, PollClient(c)
    PROVE  Advances \/ UNCHANGED <<status, error>>
<1>1. CASE status' = [status EXCEPT ![c] = "polling"] /\ UNCHANGED error
  BY <1>1 DEF TypeOK
<1>2. ASSUME NEW there \in {"settled", "raised"}, status' = [status EXCEPT ![c] = there]
      PROVE  Advances
  <2>1. CallStage(status[c]) < CallStage(there)
    BY <1>2 DEF CallStage
  <2> QED
    BY <1>2, <2>1, GrownPhases, CallsAdvance
<1> QED
  BY <1>1, <1>2 DEF PollClient

LEMMA PollInputAdvances ==
    ASSUME TypeOK, NEW phases \in Grown, NEW i \in Inputs,
           phase[i] \in {"opening", "waiting"}, PollInput(i, phases), UNCHANGED status
    PROVE  \/ Advances
           \/ phase[i] = "waiting" /\ phase' = [phases EXCEPT ![i] = "waiting"]
              /\ UNCHANGED <<cache, exc, raw>>
<1>1. ASSUME NEW class, Leave(i, phases, "none", class, NoError)
      PROVE  Advances
  BY <1>1, LeaveAdvances
<1>2. ASSUME NEW there \in {"settled", "waiting"},
             phase' = [phases EXCEPT ![i] = there], there = "settled" \/ phase[i] = "opening"
      PROVE  Advances
  <2>1. TaskStage(phase[i]) < TaskStage(there)
    BY <1>2 DEF TaskStage
  <2> QED
    BY <1>2, <2>1, TasksAdvance DEF Phases
<1>3. CASE \E class \in RaisedClasses : Leave(i, phases, "none", class, NoError)
  BY <1>1, <1>3
<1>4. CASE /\ phase' = [phases EXCEPT ![i] = IF AllCached(Deps[i]) THEN "settled" ELSE "waiting"]
           /\ UNCHANGED <<cache, exc, raw>>
  BY <1>2, <1>4
<1> QED
  BY <1>3, <1>4 DEF PollInput

LEMMA AdvanceStep == TypeOK /\ [Next]_vars => [Advances]_vars
<1> SUFFICES ASSUME TypeOK, Next
             PROVE  Advances \/ UNCHANGED vars
  BY DEF vars
<1>1. ASSUME NEW c \in Clients, Resolve(c)
      PROVE  Advances
  <2>1. PICK there \in {"returned", "raised", "settled", "polling"} :
            status' = [status EXCEPT ![c] = there]
    BY <1>1 DEF Resolve, PollClient
  <2>2. CallStage(status[c]) < CallStage(there)
    BY <1>1, <2>1 DEF Resolve, CallStage
  <2> QED
    BY <1>1, <2>1, <2>2, GrownPhases, CallsAdvance DEF Resolve
<1>2. ASSUME NEW c \in Clients, Poll(c)
      PROVE  Advances \/ UNCHANGED vars
  BY <1>2, PollClientAdvances DEF Poll, vars
<1>3. ASSUME NEW c \in Clients, Return(c)
      PROVE  Advances
  <2>1. CallStage(status[c]) < CallStage("returned")
    BY <1>3 DEF Return, CallStage
  <2> QED
    BY <1>3, <2>1, GrownPhases, CallsAdvance DEF Return
<1>4. ASSUME NEW i \in Inputs, Begin(i) \/ OpenFails(i) \/ StartBody(i) \/ Closed(i)
      PROVE  Advances
  <2>1. PICK there \in Phases : /\ phase' = [phase EXCEPT ![i] = there]
                                /\ TaskStage(phase[i]) < TaskStage(there)
    BY <1>4 DEF Begin, OpenFails, StartBody, Closed, Close, TaskStage, Phases
  <2>2. UNCHANGED status
    BY <1>4 DEF Begin, OpenFails, StartBody, Closed
  <2> QED
    BY <2>1, <2>2, GrownPhases, TasksAdvance
<1>5. ASSUME NEW i \in Inputs, Enter(i)
      PROVE  Advances
  <2>1. CASE phase' = [phase EXCEPT ![i] = "reading"]
    <3>1. TaskStage(phase[i]) < TaskStage("reading")
      BY <1>5 DEF Enter, TaskStage
    <3> QED
      BY <1>5, <2>1, <3>1, GrownPhases, TasksAdvance DEF Enter, Phases
  <2>2. CASE PollInput(i, Schedule(Deps[i]))
    BY <1>5, <2>2, GrownPhases, PollInputAdvances DEF Enter
  <2> QED
    BY <1>5, <2>1, <2>2 DEF Enter
<1>6. ASSUME NEW i \in Inputs, PollReaders(i)
      PROVE  Advances \/ UNCHANGED vars
  <2>1. \/ Advances
        \/ phase' = [phase EXCEPT ![i] = "waiting"] /\ UNCHANGED <<cache, exc, raw>>
    BY <1>6, GrownPhases, PollInputAdvances DEF PollReaders
  <2>2. [phase EXCEPT ![i] = "waiting"] = phase
    BY <1>6 DEF PollReaders, TypeOK
  <2> QED
    BY <1>6, <2>1, <2>2 DEF PollReaders, vars
<1>7. ASSUME NEW i \in Inputs, BodyReturns(i) \/ BodyRaises(i)
      PROVE  Advances
  BY <1>7, GrownPhases, LeaveAdvances DEF BodyReturns, BodyRaises
<1> QED
  BY <1>1, <1>2, <1>3, <1>4, <1>5, <1>6, <1>7 DEF Next, AnswerStep, InputStep

(* Every step of the cache takes the task of an input or a call of         *)
(* resolve() forward, and none takes one back: polling that finds nothing  *)
(* new changes nothing, no task is created twice, and there are at most    *)
(* 7 steps per input and 3 per client.  With NobodyWaitsInVain, all that   *)
(* EveryCallAnswered adds is that steps are taken.                         *)
THEOREM CachesWindDown == Spec => [][Advances]_vars
<1>1. TypeOK /\ [Next]_vars => [Advances]_vars
  BY AdvanceStep
<1> QED
  BY <1>1, TypeCorrect, PTL DEF Spec

-----------------------------------------------------------------------------
(* The steps of the cache are steps of InputResolution *)

Ok(i) == phase[i] = "done" /\ exc[i] = NoError

(* Whoever has its answer before it, or runs on one, asked for inputs that *)
(* are done without an exception, and will stay so.                        *)
SettledOk ==
    /\ \A i \in Inputs : phase[i] \in {"settled", "reading"} => \A d \in Deps[i] : Ok(d)
    /\ \A c \in Clients : status[c] = "settled" => \A d \in Wants[c] : Ok(d)

LEMMA CachedIsOk ==
    ASSUME SlowClose = {}, EntryMeansDone, Failed = {}, NEW S \in SUBSET Inputs, AllCached(S)
    PROVE  \A d \in S : Ok(d)
BY DEF EntryMeansDone, Failed, AllCached, Ok, Prompt

LEMMA OkStays ==
    ASSUME Recorded, NEW i \in Inputs, Ok(i)
    PROVE  Ok(i)'
BY DEF Recorded, Ok

LEMMA SettledOkInit == Init => SettledOk
BY DEF Init, SettledOk

(* Only the end of a poll makes an input settled, and only that or having  *)
(* no readers makes its body start.                                        *)
LEMMA SettledOkStep ==
    ASSUME TypeOK, CompleteInv, SettledOk, Recorded, SlowClose = {}, [Next]_vars
    PROVE  SettledOk'
<1> USE GraphAssumption, OkStays
<1>1. ASSUME NEW i \in Inputs, phase'[i] \in {"settled", "reading"}
      PROVE  \A d \in Deps[i] : Ok(d)
  <2>1. CASE phase'[i] = phase[i]
    BY <1>1, <2>1 DEF SettledOk
  <2>2. CASE phase'[i] # phase[i]
    <3>1. PICK j \in Inputs : InputStep(j)
      BY <1>1, <2>2 DEF Next, AnswerStep, Resolve, Schedule, Poll, Return, vars
    <3>2. CASE PollInput(j, phase) \/ PollInput(j, Schedule(Deps[j]))
      <4>1. PICK phases \in Grown : /\ PollInput(j, phases)
                                    /\ \A k \in Inputs : phases[k] \in {phase[k], "created"}
        BY <3>2, GrownPhases, SchedulePhases
      <4>2. i = j /\ Failed = {} /\ AllCached(Deps[i])
        BY <1>1, <2>2, <4>1, PollInputEffect
      <4> QED
        BY <4>2, CachedIsOk DEF CompleteInv
    <3>3. CASE StartBody(j)
      BY <1>1, <2>2, <3>3 DEF StartBody, SettledOk, TypeOK
    <3>4. CASE phase' = [phase EXCEPT ![j] = "reading"] /\ Deps[j] = {}
      BY <1>1, <2>2, <3>4 DEF TypeOK
    <3>5. CASE BodyReturns(j) \/ BodyRaises(j) \/ Closed(j) \/ OpenFails(j) \/ Begin(j)
      BY <1>1, <2>2, <3>5
         DEF BodyReturns, BodyRaises, Closed, OpenFails, Begin, Leave, Close, TypeOK
    <3> QED
      BY <3>1, <3>2, <3>3, <3>4, <3>5 DEF InputStep, Enter, PollReaders
  <2> QED
    BY <2>1, <2>2
<1>2. ASSUME NEW c \in Clients, status'[c] = "settled"
      PROVE  \A d \in Wants[c] : Ok(d)
  <2>1. CASE status'[c] = status[c]
    BY <1>2, <2>1 DEF SettledOk
  <2>2. CASE status'[c] # status[c]
    <3>1. PICK d \in Clients : Resolve(d) \/ Poll(d) \/ Return(d)
      BY <2>2 DEF Next, AnswerStep, InputStep, vars, Begin, OpenFails, Enter, PollReaders,
                  StartBody, BodyReturns, BodyRaises, Closed
    <3>2. PollClient(d)
      BY <1>2, <2>2, <3>1 DEF Resolve, Poll, Return, TypeOK
    <3>3. c = d /\ Failed = {} /\ AllCached(Wants[c])
      BY <1>2, <2>2, <3>2, PollClientEffect
    <3> QED
      BY <3>3, CachedIsOk DEF CompleteInv
  <2> QED
    BY <2>1, <2>2
<1> QED
  BY <1>1, <1>2 DEF SettledOk

(* A step of input i that ends its task completes or fails it. *)
LEMMA TaskEnds ==
    ASSUME TypeOK, NEW i \in Inputs, phase[i] # "done", phase'[i] = "done",
           \A j \in Inputs \ {i} : (phase'[j] = "done" <=> phase[j] = "done") /\ exc'[j] = exc[j],
           exc'[i] = NoError => \A d \in Deps[i] : Ok(d),
           status' = status
    PROVE  Promise!Complete(i) \/ Promise!Fail(i)
<1>1. Reply' = Reply
  BY DEF Reply
<1>2. Outcome[i] = "pending"
  BY DEF Outcome
<1>3. CASE exc'[i] = NoError
  <2>1. Outcome' = [Outcome EXCEPT ![i] = "ok"]
    BY <1>3 DEF Outcome
  <2>2. \A d \in Deps[i] : Outcome[d] = "ok"
    BY <1>3, GraphAssumption DEF Outcome, Ok
  <2> QED
    BY <1>1, <1>2, <2>1, <2>2 DEF Promise!Complete, Promise!AllOk
<1>4. CASE exc'[i] # NoError
  <2>1. Outcome' = [Outcome EXCEPT ![i] = "failed"]
    BY <1>4 DEF Outcome
  <2> QED
    BY <1>1, <1>2, <2>1 DEF Promise!Fail
<1> QED
  BY <1>3, <1>4

LEMMA NoTaskEnds ==
    ASSUME \A j \in Inputs : (phase'[j] = "done" <=> phase[j] = "done")
                              /\ (phase[j] = "done" => exc'[j] = exc[j])
    PROVE  Outcome' = Outcome
BY DEF Outcome

(* A client that polls is rejected for a failed task or goes on waiting. *)
LEMMA PollIsPromised ==
    ASSUME TypeOK, NEW c \in Clients, status[c] \in {"idle", "polling"}, PollClient(c),
           Outcome' = Outcome
    PROVE  Promise!Ask(c) \/ Promise!Reject(c) \/ UNCHANGED <<Outcome, Reply>>
<1>1. Reply[c] = (IF status[c] = "idle" THEN "idle" ELSE "waiting")
  BY DEF Reply
<1>2. CASE /\ \E class \in RaisedClasses : error' = [error EXCEPT ![c] = class]
           /\ status' = [status EXCEPT ![c] = "raised"]
  <2>1. PICK f \in Inputs : Outcome[f] = "failed"
    BY <1>2 DEF RaisedClasses, Failed, Outcome
  <2>2. Reply' = [Reply EXCEPT ![c] = "rejected"]
    BY <1>2 DEF Reply, TypeOK
  <2> QED
    BY <1>1, <2>1, <2>2 DEF Promise!Reject
<1>3. CASE status' = [status EXCEPT ![c] = IF AllCached(Wants[c]) THEN "settled" ELSE "polling"]
  <2>1. status'[c] \in {"settled", "polling"} /\ \A d \in Clients \ {c} : status'[d] = status[d]
    BY <1>3 DEF TypeOK
  <2>2. Reply' = [Reply EXCEPT ![c] = "waiting"]
    BY <2>1 DEF Reply
  <2>3. CASE status[c] = "idle"
    BY <1>1, <2>2, <2>3 DEF Promise!Ask
  <2>4. CASE status[c] = "polling"
    <3>1. Reply' = Reply
      BY <2>1, <2>4 DEF Reply
    <3> QED
      BY <3>1
  <2> QED
    BY <2>3, <2>4
<1> QED
  BY <1>2, <1>3 DEF PollClient

LEMMA PollInputPromised ==
    ASSUME TypeOK, SlowClose = {}, NEW i \in Inputs, phase[i] # "done", NEW phases \in Grown,
           \A j \in Inputs : phases[j] \in {phase[j], "created"},
           PollInput(i, phases), UNCHANGED status
    PROVE  Promise!Fail(i) \/ Promise!Complete(i) \/ UNCHANGED <<Outcome, Reply>>
<1>1. /\ \A j \in Inputs \ {i} : phase'[j] = phases[j] /\ exc'[j] = exc[j]
      /\ \/ phase'[i] = "done" /\ exc'[i] # NoError
         \/ phase'[i] \in {"waiting", "settled"}
  BY PollInputEffect DEF Prompt
<1>2. \A j \in Inputs : phases[j] = "done" <=> phase[j] = "done"
  BY DEF Grown
<1>3. CASE phase'[i] = "done" /\ exc'[i] # NoError
  BY <1>1, <1>2, <1>3, TaskEnds
<1>4. CASE phase'[i] \in {"waiting", "settled"}
  BY <1>1, <1>2, <1>4, NoTaskEnds DEF Reply
<1> QED
  BY <1>1, <1>3, <1>4

LEMMA PromiseStep ==
    ASSUME TypeOK, CompleteInv, SettledOk, SlowClose = {}, [Next]_vars
    PROVE  [Promise!Next]_<<Outcome, Reply>>
<1>1. ASSUME NEW c \in Clients, Resolve(c)
      PROVE  [Promise!Next]_<<Outcome, Reply>>
  <2>1. Outcome' = Outcome
    BY <1>1, NoTaskEnds DEF Resolve, Schedule
  <2>2. CASE PollClient(c)
    BY <1>1, <2>1, <2>2, PollIsPromised DEF Resolve, Promise!Next
  <2>3. CASE Wants[c] = {} /\ status' = [status EXCEPT ![c] = "returned"]
    <3>1. Reply' = [Reply EXCEPT ![c] = "served"] /\ Reply[c] = "idle"
      BY <1>1, <2>3 DEF Reply, Resolve, TypeOK
    <3>2. Promise!Serve(c)
      BY <2>1, <2>3, <3>1 DEF Promise!Serve, Promise!AllOk
    <3> QED
      BY <3>2 DEF Promise!Next
  <2> QED
    BY <1>1, <2>2, <2>3 DEF Resolve
<1>2. ASSUME NEW c \in Clients, Poll(c)
      PROVE  [Promise!Next]_<<Outcome, Reply>>
  <2>1. Outcome' = Outcome
    BY <1>2 DEF Poll, Outcome
  <2> QED
    BY <1>2, <2>1, PollIsPromised DEF Poll, Promise!Next
<1>3. ASSUME NEW c \in Clients, Return(c)
      PROVE  [Promise!Next]_<<Outcome, Reply>>
  <2>1. Outcome' = Outcome
    BY <1>3 DEF Return, Outcome
  <2>2. Reply' = [Reply EXCEPT ![c] = "served"] /\ Reply[c] = "waiting"
    BY <1>3 DEF Return, Reply, TypeOK
  <2>3. \A d \in Wants[c] : Outcome[d] = "ok"
    BY <1>3, GraphAssumption DEF Return, SettledOk, Ok, Outcome
  <2>4. Promise!Serve(c)
    BY <2>1, <2>2, <2>3 DEF Promise!Serve, Promise!AllOk
  <2> QED
    BY <2>4 DEF Promise!Next
<1>4. ASSUME NEW i \in Inputs, Begin(i) \/ StartBody(i)
      PROVE  [Promise!Next]_<<Outcome, Reply>>
  <2>1. Outcome' = Outcome
    BY <1>4 DEF Begin, StartBody, Outcome, TypeOK
  <2> QED
    BY <1>4, <2>1 DEF Begin, StartBody, Reply
<1>5. ASSUME NEW i \in Inputs, OpenFails(i)
      PROVE  [Promise!Next]_<<Outcome, Reply>>
  <2>1. exc'[i] # NoError
    BY <1>5, ThrownAssumption DEF OpenFails, TypeOK
  <2>2. Promise!Complete(i) \/ Promise!Fail(i)
    BY <1>5, <2>1, TaskEnds DEF OpenFails, TypeOK
  <2> QED
    BY <2>2 DEF Promise!Next
<1>6. ASSUME NEW i \in Inputs, Enter(i)
      PROVE  [Promise!Next]_<<Outcome, Reply>>
  <2>1. CASE PollInput(i, Schedule(Deps[i]))
    BY <1>6, <2>1, GrownPhases, SchedulePhases, PollInputPromised DEF Enter, Promise!Next
  <2>2. CASE phase' = [phase EXCEPT ![i] = "reading"] /\ UNCHANGED <<cache, exc, raw>>
    BY <1>6, <2>2 DEF Enter, Outcome, Reply, TypeOK
  <2> QED
    BY <1>6, <2>1, <2>2 DEF Enter
<1>7. ASSUME NEW i \in Inputs, PollReaders(i)
      PROVE  [Promise!Next]_<<Outcome, Reply>>
  BY <1>7, GrownPhases, PollInputPromised DEF PollReaders, Promise!Next
<1>8. ASSUME NEW i \in Inputs, BodyReturns(i) \/ BodyRaises(i)
      PROVE  [Promise!Next]_<<Outcome, Reply>>
  <2>1. /\ phase[i] = "reading" /\ phase'[i] = "done"
        /\ \A j \in Inputs \ {i} : phase'[j] = phase[j] /\ exc'[j] = exc[j]
        /\ status' = status
    BY <1>8 DEF BodyReturns, BodyRaises, Leave, Close, TypeOK
  <2>2. \A d \in Deps[i] : Ok(d)
    BY <2>1 DEF SettledOk
  <2>3. Promise!Complete(i) \/ Promise!Fail(i)
    BY <2>1, <2>2, TaskEnds
  <2> QED
    BY <2>3 DEF Promise!Next
<1>9. ASSUME NEW i \in Inputs, Closed(i)
      PROVE  [Promise!Next]_<<Outcome, Reply>>
  BY <1>9 DEF Closed, CompleteInv, EntryMeansDone, Prompt
<1>10. CASE UNCHANGED vars
  BY <1>10 DEF vars, Outcome, Reply
<1> QED
  BY <1>1, <1>2, <1>3, <1>4, <1>5, <1>6, <1>7, <1>8, <1>9, <1>10
     DEF Next, AnswerStep, InputStep

(* The safety part of KeepsPromise: with tasks, polling and the cache hid- *)
(* den, every behaviour of the cache is one that InputResolution allows.   *)
THEOREM StepsKeepPromise ==
    ASSUME SlowClose = {}
    PROVE  Spec => Promise!Init /\ [][Promise!Next]_<<Outcome, Reply>>
<1>1. Init => Promise!Init
  BY DEF Init, Promise!Init, Outcome, Reply
<1>2. TypeOK /\ EntryWhenLeft /\ [Next]_vars => EntryWhenLeft' /\ Recorded
  BY RecordedStep
<1>3. TypeOK /\ CompleteInv /\ [Next]_vars => CompleteInv'
  BY CompleteStep
<1>4. TypeOK /\ CompleteInv /\ SettledOk /\ Recorded /\ [Next]_vars => SettledOk'
  BY SettledOkStep
<1>5. TypeOK /\ CompleteInv /\ SettledOk /\ [Next]_vars => [Promise!Next]_<<Outcome, Reply>>
  BY PromiseStep
<1> DEFINE IInv == EntryWhenLeft /\ CompleteInv /\ SettledOk
<1>6. Init => IInv
  BY EntryInit, CompleteInit, SettledOkInit
<1>7. TypeOK /\ IInv /\ [Next]_vars => IInv'
  BY <1>2, <1>3, <1>4
<1>8. TypeOK /\ IInv /\ [Next]_vars => [Promise!Next]_<<Outcome, Reply>>
  BY <1>5
<1> HIDE DEF IInv
<1> QED
  BY <1>1, <1>6, <1>7, <1>8, TypeCorrect, PTL DEF Spec

=============================================================================
