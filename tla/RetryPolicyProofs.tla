------------------------- MODULE RetryPolicyProofs -------------------------
(***************************************************************************)
(* Theorems about RetryPolicy, for every set of calls, whatever they add   *)
(* to their builders and however often they execute.                       *)
(***************************************************************************)
EXTENDS RetryPolicy, SequenceTheorems, TLAPS

USE PolicyAssumption DEF PolicyAssumption

Types ==
    /\ errorTypes \in [Builders -> SUBSET Errors]
    /\ pc \in [Calls -> {"idle", "executing", "sleeping"} \cup Over]
    /\ try \in [Calls -> Nat]
    /\ error \in [Calls -> Errors \cup {CancelledError, RetryExhausted, NoError}]
    /\ log \in [Calls -> Seq(Errors)]

(* The list of the client's builder never changes, and that of a fork only *)
(* changes when its call begins, to what the call asks for.                *)
Lists ==
    /\ errorTypes[ClientBuilder] = {NetworkError}
    /\ \A c \in Forking : errorTypes[c] = {NetworkError} \cup (IF pc[c] = "idle" THEN {} ELSE Extra[c])

(* The executions of c so far, by where it is: as many errors as tries,    *)
(* one more while it sleeps, all of them wanted except one that passed.    *)
Executions(c) ==
    /\ pc[c] = "idle" => try[c] = 0 /\ log[c] = <<>> /\ error[c] = NoError
    /\ pc[c] \in {"executing", "sleeping"} => try[c] < RetryCount[c] /\ error[c] = NoError
    /\ pc[c] \in {"executing", "returned"} => Len(log[c]) = try[c]
    /\ pc[c] = "sleeping" => Len(log[c]) = try[c] + 1
    /\ pc[c] = "returned" \/ pc[c] = "empty" => error[c] = NoError
    /\ GaveUp(c) => Len(log[c]) = RetryCount[c] /\ try[c] = RetryCount[c]
    /\ pc[c] = "empty" => c \in Quiet
    /\ try[c] <= RetryCount[c] /\ try[c] <= Len(log[c]) /\ Len(log[c]) <= RetryCount[c]
    /\ \A k \in 1 .. Len(log[c]) : log[c][k] \in Wanted(c) \/ (k = try[c] + 1 /\ pc[c] = "raised")
    /\ error[c] \in Errors => /\ Len(log[c]) = try[c] + 1 /\ pc[c] = "raised"
                              /\ error[c] = log[c][Len(log[c])] /\ error[c] \notin Wanted(c)

IInv == Types /\ Lists /\ \A c \in Calls : Executions(c)

-----------------------------------------------------------------------------
LEMMA InvInit == Init => IInv
<1> SUFFICES ASSUME Init
             PROVE  IInv
  OBVIOUS
<1> USE DEF Init
<1>1. Types
  BY DEF Types, Builders
<1>2. Lists
  BY DEF Lists, Builders
<1>3. ASSUME NEW c \in Calls
      PROVE  Executions(c)
  <2>1. Len(log[c]) = 0 /\ log[c] = <<>> /\ RetryCount[c] \in Nat
    BY <1>3
  <2> QED
    BY <2>1 DEF Executions, GaveUp, Over
<1> QED
  BY <1>1, <1>2, <1>3 DEF IInv

LEMMA TypesStep == Types /\ [Next]_vars => Types'
<1> SUFFICES ASSUME Types, [Next]_vars
             PROVE  Types'
  OBVIOUS
<1> USE DEF Types, Over, End
<1>1. ASSUME NEW c \in Calls, NEW n \in Nat, Try(c, n)
      PROVE  /\ try' \in [Calls -> Nat]
             /\ pc' \in [Calls -> {"idle", "executing", "sleeping"} \cup Over]
             /\ error' \in [Calls -> Errors \cup {CancelledError, RetryExhausted, NoError}]
  BY <1>1 DEF Try
<1>2. ASSUME NEW c \in Calls, Execute(c)
      PROVE  Types'
  <2>1. errorTypes' \in [Builders -> SUBSET Errors]
    BY <1>2 DEF Execute, Builders, BuilderOf
  <2> QED
    BY <1>1, <1>2, <2>1 DEF Execute
<1>3. ASSUME NEW c \in Calls, FunctionReturns(c) \/ Cancel(c)
      PROVE  Types'
  BY <1>3 DEF FunctionReturns, Cancel
<1>4. ASSUME NEW c \in Calls, FunctionRaises(c)
      PROVE  Types'
  <2>1. PICK e \in Errors :
           /\ log' = [log EXCEPT ![c] = Append(@, e)]
           /\ \/ pc' = [pc EXCEPT ![c] = "sleeping"] /\ UNCHANGED error
              \/ End(c, "raised", e)
    BY <1>4 DEF FunctionRaises
  <2>2. log' \in [Calls -> Seq(Errors)]
    BY <2>1
  <2>3. UNCHANGED <<errorTypes, try>>
    BY <1>4 DEF FunctionRaises
  <2>4. CASE pc' = [pc EXCEPT ![c] = "sleeping"] /\ UNCHANGED error
    BY <2>2, <2>3, <2>4
  <2>5. CASE End(c, "raised", e)
    BY <2>2, <2>3, <2>5
  <2> QED
    BY <2>1, <2>4, <2>5
<1>5. ASSUME NEW c \in Calls, DelayOver(c)
      PROVE  Types'
  <2>1. try[c] + 1 \in Nat
    OBVIOUS
  <2> QED
    BY <1>1, <1>5, <2>1 DEF DelayOver
<1>6. CASE UNCHANGED vars
  BY <1>6 DEF vars
<1> QED
  BY <1>2, <1>3, <1>4, <1>5, <1>6 DEF Next, Step

-----------------------------------------------------------------------------
(* Lists *)

(* A call that begins extends its own list: no other fork has it, and the  *)
(* client's builder is only extended by nothing.                           *)
LEMMA ListsStep == Types /\ Lists /\ [Next]_vars => Lists'
<1> SUFFICES ASSUME Types, Lists, [Next]_vars
             PROVE  Lists'
  OBVIOUS
<1> USE DEF Types, Lists, Over, End, Builders
<1>1. ASSUME NEW c \in Calls, Execute(c)
      PROVE  Lists'
  <2>1. /\ \A d \in Calls \ {c} : pc'[d] = pc[d]
        /\ pc[c] = "idle" /\ pc'[c] # "idle"
    BY <1>1 DEF Execute, Try
  <2>2. CASE c \in Forking
    BY <1>1, <2>1, <2>2 DEF Execute, BuilderOf
  <2>3. CASE c \notin Forking
    <3>1. errorTypes' = errorTypes
      BY <1>1, <2>3 DEF Execute, BuilderOf
    <3> QED
      BY <2>1, <2>3, <3>1
  <2> QED
    BY <2>2, <2>3
<1>2. ASSUME NEW c \in Calls, Step(c) \/ Cancel(c)
      PROVE  Lists'
  <2>1. /\ errorTypes' = errorTypes
        /\ \A d \in Calls : pc'[d] = "idle" <=> pc[d] = "idle"
    BY <1>2 DEF Step, Cancel, FunctionReturns, FunctionRaises, DelayOver, Try
  <2> QED
    BY <2>1
<1>3. CASE UNCHANGED vars
  BY <1>3 DEF vars
<1> QED
  BY <1>1, <1>2, <1>3 DEF Next

(* What a call under way retries is what it asked for. *)
LEMMA TransientIsWanted ==
    ASSUME Types, Lists, NEW c \in Calls, pc[c] # "idle", NEW e \in Errors
    PROVE  IsTransient(c, e) <=> e \in Wanted(c)
BY DEF Types, Lists, IsTransient, Wanted, BuilderOf, Builders

-----------------------------------------------------------------------------
(* Executions *)

LEMMA LongerLog ==
    ASSUME NEW s \in Seq(Errors), NEW e \in Errors
    PROVE  /\ Len(s) \in Nat /\ Len(Append(s, e)) = Len(s) + 1
           /\ \A k \in 1 .. Len(s) : Append(s, e)[k] = s[k]
           /\ Append(s, e)[Len(s) + 1] = e
OBVIOUS

LEMMA OthersKeep ==
    ASSUME NEW c \in Calls, Executions(c), pc'[c] = pc[c], try'[c] = try[c],
           error'[c] = error[c], log'[c] = log[c]
    PROVE  Executions(c)'
BY DEF Executions, GaveUp, Wanted

LEMMA TryKeeps ==
    ASSUME Types, NEW c \in Calls, NEW n \in Nat, Try(c, n), log' = log,
           error[c] = NoError, Len(log[c]) = n, n <= RetryCount[c],
           \A k \in 1 .. Len(log[c]) : log[c][k] \in Wanted(c)
    PROVE  Executions(c)'
<1>1. /\ try'[c] = n /\ log'[c] = log[c] /\ RetryCount[c] \in Nat
      /\ \/ n < RetryCount[c] /\ pc'[c] = "executing" /\ error'[c] = NoError
         \/ n = RetryCount[c] /\ c \in Quiet /\ pc'[c] = "empty" /\ error'[c] = NoError
         \/ n = RetryCount[c] /\ pc'[c] = "raised" /\ error'[c] = RetryExhausted
  BY DEF Try, End, Types
<1> QED
  BY <1>1 DEF Executions, GaveUp, Wanted

LEMMA CallKeeps ==
    ASSUME IInv, NEW c \in Calls, Execute(c) \/ Step(c) \/ Cancel(c)
    PROVE  Executions(c)'
<1> USE DEF IInv
<1>1. Executions(c) /\ Len(log[c]) \in Nat /\ RetryCount[c] \in Nat /\ try[c] \in Nat
  BY DEF Types
<1>2. CASE Execute(c)
  <2>1. error[c] = NoError /\ Len(log[c]) = 0
    BY <1>1, <1>2 DEF Execute, Executions
  <2> QED
    BY <1>1, <1>2, <2>1, TryKeeps DEF Execute
<1>3. CASE DelayOver(c)
  <2>1. /\ Len(log[c]) = try[c] + 1 /\ error[c] = NoError /\ try[c] + 1 <= RetryCount[c]
        /\ \A k \in 1 .. Len(log[c]) : log[c][k] \in Wanted(c)
    BY <1>1, <1>3 DEF DelayOver, Executions
  <2> QED
    BY <1>1, <1>3, <2>1, TryKeeps DEF DelayOver
<1>4. CASE FunctionReturns(c)
  <2>1. /\ pc[c] = "executing" /\ pc'[c] = "returned" /\ error'[c] = NoError
        /\ try'[c] = try[c] /\ log'[c] = log[c]
    BY <1>4 DEF FunctionReturns, End, Types
  <2> QED
    BY <1>1, <2>1 DEF Executions, GaveUp, Wanted
<1>5. CASE Cancel(c)
  <2>1. /\ pc[c] \in {"executing", "sleeping"} /\ pc'[c] = "raised" /\ error'[c] = CancelledError
        /\ try'[c] = try[c] /\ log'[c] = log[c]
    BY <1>5 DEF Cancel, End, Types
  <2> QED
    BY <1>1, <2>1 DEF Executions, GaveUp, Wanted
<1>6. CASE FunctionRaises(c)
  <2>1. PICK e \in Errors :
           /\ log' = [log EXCEPT ![c] = Append(@, e)]
           /\ \/ IsTransient(c, e) /\ pc' = [pc EXCEPT ![c] = "sleeping"] /\ UNCHANGED error
              \/ ~IsTransient(c, e) /\ End(c, "raised", e)
    BY <1>6 DEF FunctionRaises
  <2>2. pc[c] = "executing" /\ try'[c] = try[c]
    BY <1>6 DEF FunctionRaises
  <2>3. Wanted(c)' = Wanted(c)
    BY DEF Wanted
  <2>4. /\ log'[c] = Append(log[c], e) /\ log[c] \in Seq(Errors)
        /\ \/ e \in Wanted(c) /\ pc'[c] = "sleeping" /\ error'[c] = error[c]
           \/ e \notin Wanted(c) /\ pc'[c] = "raised" /\ error'[c] = e
    BY <2>1, <2>2, TransientIsWanted DEF End, Types
  <2>5. /\ Len(log'[c]) = try[c] + 1 /\ log'[c][Len(log'[c])] = e
        /\ \A k \in 1 .. try[c] : log'[c][k] = log[c][k]
    BY <1>1, <2>2, <2>4, LongerLog DEF Executions
  <2> QED
    BY <1>1, <2>2, <2>3, <2>4, <2>5 DEF Executions, GaveUp
<1> QED
  BY <1>2, <1>3, <1>4, <1>5, <1>6 DEF Step

LEMMA InvStep == IInv /\ [Next]_vars => IInv'
<1> SUFFICES ASSUME IInv, [Next]_vars
             PROVE  IInv'
  OBVIOUS
<1>1. Types' /\ Lists'
  BY TypesStep, ListsStep DEF IInv
<1>2. ASSUME NEW c \in Calls, NEW d \in Calls, Execute(d) \/ Step(d) \/ Cancel(d)
      PROVE  Executions(c)'
  <2>1. CASE c = d
    BY <1>2, <2>1, CallKeeps
  <2>2. CASE c # d
    <3>1. pc'[c] = pc[c] /\ try'[c] = try[c] /\ error'[c] = error[c] /\ log'[c] = log[c]
      BY <1>2, <2>2
         DEF Execute, Step, Cancel, FunctionReturns, FunctionRaises, DelayOver, Try, End, IInv, Types
    <3> QED
      BY <3>1, OthersKeep DEF IInv
  <2> QED
    BY <2>1, <2>2
<1>3. ASSUME NEW c \in Calls, UNCHANGED vars
      PROVE  Executions(c)'
  BY <1>3, OthersKeep DEF IInv, vars
<1> QED
  BY <1>1, <1>2, <1>3 DEF IInv, Next

LEMMA Invariant == Spec => []IInv
BY InvInit, InvStep, PTL DEF Spec

-----------------------------------------------------------------------------
LEMMA AskedSafe == IInv => RetriedAsAsked
<1>1. ASSUME IInv, NEW c \in Calls, NEW k \in 1 .. Len(log[c]),
             k <= try[c] \/ pc[c] = "sleeping"
      PROVE  log[c][k] \in Wanted(c)
  BY <1>1 DEF IInv, Types, Executions
<1> QED
  BY <1>1 DEF RetriedAsAsked

LEMMA FateSafe == IInv => FateExplained
<1>1. ASSUME IInv, NEW c \in Calls
      PROVE  /\ GaveUp(c) => /\ Len(log[c]) = RetryCount[c]
                             /\ \A k \in 1 .. Len(log[c]) : log[c][k] \in Wanted(c)
             /\ pc[c] = "empty" => c \in Quiet
             /\ error[c] \in Errors => /\ log[c] # <<>> /\ error[c] = log[c][Len(log[c])]
                                       /\ error[c] \notin Wanted(c)
  BY <1>1 DEF IInv, Types, Executions
<1> QED
  BY <1>1 DEF FateExplained

(* Types, and no call executes its function more often than retry_count.   *)
THEOREM TypeCorrect == Spec => []TypeOK
<1>1. IInv => TypeOK
  BY DEF IInv, Types, Executions, TypeOK
<1> QED
  BY <1>1, Invariant, PTL

(* Whatever other calls add to their forks, a function is executed again   *)
(* only after an error its own call asked to retry.                        *)
THEOREM OnlyAskedIsRetried == Spec => []RetriedAsAsked
BY AskedSafe, Invariant, PTL

(* A call gives up after retry_count executions that failed with errors it *)
(* asked to retry, and passes on nothing but an error it did not.          *)
THEOREM FatesAreExplained == Spec => []FateExplained
BY FateSafe, Invariant, PTL
=============================================================================
