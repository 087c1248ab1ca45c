------------------------ MODULE ClientSessionProofs ------------------------
(***************************************************************************)
(* Proofs about ClientSession, for any number of threads, tokens and runs. *)
(***************************************************************************)
EXTENDS ClientSession, TLAPS

USE SessionAssumption DEF SessionAssumption

(* A thread that is about to create a client has created none. *)
MakesOnce ==
    \A t \in Threads :
        /\ makes[t] = 1 => client
        /\ pc[t] \in RefreshLabels /\ first[t] => makes[t] = 0

TypeInv == TypeOK /\ MakesOnce

LEMMA TypeInit == Init => TypeInv
<1> SUFFICES ASSUME Init
             PROVE  TypeInv
  OBVIOUS
<1> USE DEF Init
<1>1. client \in BOOLEAN /\ doubtful \in BOOLEAN
  BY Zenon
<1>2. token \in Tokens /\ goToken \in Tokens /\ issued \in Tokens
  BY DEF Tokens
<1>3. /\ pc \in [Threads -> Labels]
      /\ first \in [Threads -> BOOLEAN]
      /\ held \in [Threads -> Tokens]
      /\ makes \in [Threads -> 0 .. 1]
  BY DEF Labels, Tokens
<1>4. /\ mixed \subseteq Threads
      /\ expired \subseteq 1 .. MaxTokens
      /\ clean \in [Threads -> BOOLEAN]
      /\ stale \in [Threads -> SUBSET (1 .. MaxTokens)]
  BY Zenon
<1>5. /\ completed \in [Awaiters -> 0 .. MaxCompleted]
      /\ progress \in [Awaiters -> 0 .. MaxCompleted]
      /\ reporter \in [Awaiters -> {"none", "starting", "running", "ended"}]
      /\ terminate \in [Awaiters -> BOOLEAN]
  OBVIOUS
<1> QED
  BY <1>1, <1>2, <1>3, <1>4, <1>5 DEF TypeInv, TypeOK, MakesOnce, RefreshLabels

(* Threads in _init_client *)
LEMMA RefreshType ==
    ASSUME TypeInv, NEW t \in Threads, Call(t) \/ Refresh(t) \/ Request(t)
    PROVE  TypeInv'
<1> USE DEF TypeInv, TypeOK, MakesOnce, Tokens, Labels, RefreshLabels, Goto, reportVars
<1>1. CASE Call(t)
  <2>1. CASE client
    BY <1>1, <2>1 DEF Call, tokenVars
  <2>2. CASE ~client
    <3>1. BeginRefresh(t)
      BY <1>1, <2>2 DEF Call
    <3>2. doubtful' \in BOOLEAN
      BY <3>1 DEF BeginRefresh
    <3>3. \A u \in Threads : makes[u] = 0
      BY <2>2
    <3>4. mixed' \subseteq Threads
      BY <3>1 DEF BeginRefresh, Refreshing
    <3> QED
      BY <1>1, <3>1, <3>2, <3>3, <3>4 DEF Call, BeginRefresh, tokenVars
  <2> QED
    BY <2>1, <2>2
<1>2. CASE Provide(t)
  BY <1>2 DEF Provide
<1>9. CASE Assign(t)
  BY <1>9 DEF Assign, historyVars
<1>3. CASE ProviderRaises(t)
  BY <1>3 DEF ProviderRaises, tokenVars
<1>4. CASE HandOver(t)
  BY <1>4 DEF HandOver, tokenVars, historyVars
<1>5. CASE Create(t)
  BY <1>5 DEF Create, EndRefresh
<1>6. CASE Validate(t)
  BY <1>6 DEF Validate, BeginRefresh, NoteSession, Refreshing, tokenVars
<1>7. CASE Update(t)
  BY <1>7 DEF Update, EndRefresh
<1>8. CASE Request(t)
  BY <1>8 DEF Request, tokenVars, historyVars
<1> QED
  BY <1>1, <1>2, <1>3, <1>4, <1>5, <1>6, <1>7, <1>8, <1>9 DEF Refresh

(* Awaiters, and time *)
LEMMA AwaitType ==
    ASSUME TypeInv,
           \/ \E t \in Awaiters : Await(t) \/ RunCompletes(t) \/ Report(t)
           \/ \E k \in 1 .. MaxTokens : Expire(k)
    PROVE  TypeInv'
<1> USE DEF TypeInv, TypeOK, MakesOnce, Tokens, Labels, RefreshLabels, Goto, tokenVars, historyVars
<1>1. ASSUME NEW t \in Awaiters, AwaitTagged(t)
      PROVE  TypeInv'
  BY <1>1 DEF AwaitTagged
<1>2. ASSUME NEW t \in Awaiters, AwaitReturns(t)
      PROVE  TypeInv'
  BY <1>2 DEF AwaitReturns
<1>3. ASSUME NEW t \in Awaiters, Join(t)
      PROVE  TypeInv'
  BY <1>3 DEF Join, reportVars
<1>4. ASSUME NEW t \in Awaiters, RunCompletes(t)
      PROVE  TypeInv'
  BY <1>4 DEF RunCompletes, threadVars
<1>5. ASSUME NEW t \in Awaiters, Report(t)
      PROVE  TypeInv'
  BY <1>5 DEF Report, threadVars
<1>6. ASSUME NEW k \in 1 .. MaxTokens, Expire(k)
      PROVE  TypeInv'
  BY <1>6 DEF Expire, threadVars, reportVars
<1> QED
  BY <1>1, <1>2, <1>3, <1>4, <1>5, <1>6 DEF Await

LEMMA TypeStep == TypeInv /\ [Next]_vars => TypeInv'
<1> SUFFICES ASSUME TypeInv, [Next]_vars
             PROVE  TypeInv'
  OBVIOUS
<1>1. CASE UNCHANGED vars
  BY <1>1 DEF vars, tokenVars, threadVars, historyVars, reportVars, TypeInv, TypeOK, MakesOnce
<1>2. CASE Next
  BY <1>2, RefreshType, AwaitType DEF Next
<1> QED
  BY <1>1, <1>2

LEMMA TypeAlways == Spec => []TypeInv
BY TypeInit, TypeStep, PTL DEF Spec

(* The state of the session keeps its types, and no thread creates two     *)
(* clients, whatever the threads do to each other (_init_client).          *)
THEOREM TypeCorrect == Spec => []TypeOK
BY TypeAlways, PTL DEF TypeInv

-----------------------------------------------------------------------------
(* Whoever has been given a token has set the one of the client, and a     *)
(* client that exists has been given one.                                  *)
TokenGiven ==
    /\ client => token # 0 /\ goToken # 0
    /\ \A t \in Threads :
          /\ pc[t] \in {"assigned", "pushing"} => token # 0
          /\ pc[t] \in {"provided", "pushing"} => held[t] # 0
          /\ pc[t] \in {"checking", "ready", "awaiting", "joining"} => client
          /\ pc[t] \in RefreshLabels /\ ~first[t] => client

LEMMA GivenStep == TypeInv /\ TokenGiven /\ [Next]_vars => TokenGiven'
<1> SUFFICES ASSUME TypeInv /\ TokenGiven, [Next]_vars
             PROVE  TokenGiven'
  OBVIOUS
<1> USE DEF TokenGiven, TypeInv, TypeOK, Tokens, Labels, RefreshLabels, Goto,
           tokenVars, threadVars, historyVars, reportVars
<1>1. ASSUME NEW t \in Threads, Call(t)
      PROVE  TokenGiven'
  BY <1>1 DEF Call, BeginRefresh, Refreshing
<1>2. ASSUME NEW t \in Threads, Provide(t)
      PROVE  TokenGiven'
  BY <1>2 DEF Provide
<1>16. ASSUME NEW t \in Threads, Assign(t)
      PROVE  TokenGiven'
  BY <1>16 DEF Assign
<1>3. ASSUME NEW t \in Threads, ProviderRaises(t)
      PROVE  TokenGiven'
  BY <1>3 DEF ProviderRaises, Refreshing
<1>4. ASSUME NEW t \in Threads, HandOver(t)
      PROVE  TokenGiven'
  BY <1>4 DEF HandOver
<1>5. ASSUME NEW t \in Threads, Create(t)
      PROVE  TokenGiven'
  BY <1>5 DEF Create, EndRefresh
<1>6. ASSUME NEW t \in Threads, Validate(t)
      PROVE  TokenGiven'
  <2>1. pc' = [pc EXCEPT ![t] = "ready"] \/ pc' = [pc EXCEPT ![t] = "providing"]
    BY <1>6 DEF Validate, BeginRefresh
  <2>2. UNCHANGED <<client, token, goToken, held>> /\ \A u \in Threads \ {t} : first'[u] = first[u]
    BY <1>6 DEF Validate
  <2>3. client
    BY <1>6 DEF Validate
  <2>4. CASE pc' = [pc EXCEPT ![t] = "ready"]
    BY <2>2, <2>3, <2>4
  <2>5. CASE pc' = [pc EXCEPT ![t] = "providing"]
    BY <2>2, <2>3, <2>5
  <2> QED
    BY <2>1, <2>4, <2>5
<1>7. ASSUME NEW t \in Threads, Update(t)
      PROVE  TokenGiven'
  BY <1>7 DEF Update, EndRefresh
<1>8. ASSUME NEW t \in Threads, Request(t)
      PROVE  TokenGiven'
  BY <1>8 DEF Request
<1>9. ASSUME NEW t \in Awaiters, AwaitTagged(t)
      PROVE  TokenGiven'
  BY <1>9 DEF AwaitTagged
<1>10. ASSUME NEW t \in Awaiters, AwaitReturns(t)
      PROVE  TokenGiven'
  BY <1>10 DEF AwaitReturns
<1>11. ASSUME NEW t \in Awaiters, Join(t)
      PROVE  TokenGiven'
  BY <1>11 DEF Join
<1>12. ASSUME NEW t \in Awaiters, RunCompletes(t)
      PROVE  TokenGiven'
  BY <1>12 DEF RunCompletes
<1>13. ASSUME NEW t \in Awaiters, Report(t)
      PROVE  TokenGiven'
  BY <1>13 DEF Report
<1>14. ASSUME NEW k \in 1 .. MaxTokens, Expire(k)
      PROVE  TokenGiven'
  BY <1>14 DEF Expire
<1>15. CASE UNCHANGED vars
  BY <1>15 DEF vars
<1> QED
  BY <1>1, <1>2, <1>3, <1>4, <1>5, <1>6, <1>7, <1>8, <1>9,
     <1>10, <1>11, <1>12, <1>13, <1>14, <1>15, <1>16 DEF Next, Refresh, Await

(* No thread looks at a token that is not there, or makes a request        *)
(* without a client, whichever thread created it (_init_client).           *)
THEOREM ClientsAreReady == Spec => []ClientReady
<1>1. Init => TokenGiven
  BY DEF Init, TokenGiven, RefreshLabels
<1>2. TypeInv /\ TokenGiven => ClientReady
  BY DEF TypeInv, MakesOnce, TokenGiven, ClientReady
<1> QED
  BY <1>1, <1>2, GivenStep, TypeAlways, PTL DEF Spec
-----------------------------------------------------------------------------
(* A refresh that has met no other is the only one; if no two have met     *)
(* since the last lone one, and no token is on its way to Go, the session  *)
(* is in sync.                                                             *)
Lone ==
    /\ mixed \subseteq Refreshing
    /\ ~doubtful => mixed = {}
    /\ \A t \in Refreshing \ mixed : Refreshing = {t}

InSync ==
    /\ \A t \in Threads \ mixed : pc[t] = "pushing" => held[t] = token
    /\ client /\ ~doubtful /\ (\A t \in Threads : pc[t] \notin {"assigned", "pushing"}) =>
          goToken = token

SyncInv == Lone /\ InSync

(* How a step of one thread changes the set of those that refresh *)
LEMMA RefreshingMoves ==
    ASSUME TypeInv, NEW t \in Threads, NEW label \in Labels, Goto(t, label)
    PROVE  Refreshing' = IF label \in RefreshLabels THEN Refreshing \cup {t}
                                                    ELSE Refreshing \ {t}
BY DEF TypeInv, TypeOK, Goto, Refreshing

RefreshesStay == Refreshing' = Refreshing /\ UNCHANGED <<mixed, doubtful>>

OneBegins == \E t \in Threads : Refreshing' = Refreshing \cup {t} /\ BeginRefresh(t)

OneEnds ==
    \E t \in Refreshing :
        /\ Refreshing' = Refreshing \ {t}
        /\ mixed' = mixed \ {t}
        /\ doubtful' = doubtful \/ (t \notin mixed /\ ~doubtful')

(* Each step begins a refresh, ends one, or leaves them alone. *)
RefreshMove == RefreshesStay \/ OneBegins \/ OneEnds

LEMMA RefreshesMove == TypeInv /\ [Next]_vars => RefreshMove
<1> SUFFICES ASSUME TypeInv, [Next]_vars
             PROVE  RefreshMove
  OBVIOUS
<1> USE DEF RefreshMove
<1>1. ASSUME NEW t \in Threads, Call(t)
      PROVE  RefreshMove
  <2>1. CASE BeginRefresh(t)
    <3>1. Refreshing' = Refreshing \cup {t}
      BY <2>1, RefreshingMoves DEF BeginRefresh, Labels, RefreshLabels
    <3> QED
      BY <2>1, <3>1 DEF OneBegins
  <2>2. CASE Goto(t, "checking") /\ UNCHANGED <<mixed, doubtful>>
    <3>1. t \notin Refreshing
      BY <1>1 DEF Call, Refreshing, RefreshLabels
    <3>2. Refreshing' = Refreshing
      BY <2>2, <3>1, RefreshingMoves DEF Labels, RefreshLabels
    <3> QED
      BY <2>2, <3>2 DEF RefreshesStay
  <2> QED
    BY <1>1, <2>1, <2>2 DEF Call
<1>2. ASSUME NEW t \in Threads, Provide(t)
      PROVE  RefreshMove
  <2>1. Goto(t, "provided") /\ t \in Refreshing
    BY <1>2 DEF Provide, Refreshing, RefreshLabels
  <2>2. Refreshing' = Refreshing
    BY <2>1, RefreshingMoves DEF Labels, RefreshLabels
  <2> QED
    BY <1>2, <2>2 DEF Provide, RefreshesStay, historyVars
<1>16. ASSUME NEW t \in Threads, Assign(t)
      PROVE  RefreshMove
  <2>1. Goto(t, "assigned") /\ t \in Refreshing
    BY <1>16 DEF Assign, Refreshing, RefreshLabels
  <2>2. Refreshing' = Refreshing
    BY <2>1, RefreshingMoves DEF Labels, RefreshLabels
  <2> QED
    BY <1>16, <2>2 DEF Assign, RefreshesStay, historyVars
<1>3. ASSUME NEW t \in Threads, ProviderRaises(t)
      PROVE  RefreshMove
  <2>1. Goto(t, "idle") /\ t \in Refreshing
    BY <1>3 DEF ProviderRaises, Refreshing, RefreshLabels
  <2>2. Refreshing' = Refreshing \ {t}
    BY <2>1, RefreshingMoves DEF Labels, RefreshLabels
  <2>3. mixed' = mixed \ {t}
    BY <1>3 DEF ProviderRaises
  <2>4. doubtful' = doubtful \/ (t \notin mixed /\ ~doubtful')
    BY <1>3 DEF ProviderRaises, TypeInv, TypeOK
  <2> QED
    BY <2>1, <2>2, <2>3, <2>4 DEF OneEnds
<1>4. ASSUME NEW t \in Threads, HandOver(t)
      PROVE  RefreshMove
  <2>1. Goto(t, "pushing") /\ t \in Refreshing
    BY <1>4 DEF HandOver, Refreshing, RefreshLabels
  <2>2. Refreshing' = Refreshing
    BY <2>1, RefreshingMoves DEF Labels, RefreshLabels
  <2> QED
    BY <1>4, <2>2 DEF HandOver, RefreshesStay, historyVars
<1>5. ASSUME NEW t \in Threads, Create(t)
      PROVE  RefreshMove
  <2>1. Goto(t, "checking") /\ t \in Refreshing
    BY <1>5 DEF Create, Refreshing, RefreshLabels
  <2>2. Refreshing' = Refreshing \ {t}
    BY <2>1, RefreshingMoves DEF Labels, RefreshLabels
  <2>3. mixed' = mixed \ {t}
    BY <1>5 DEF Create, EndRefresh
  <2>4. doubtful' = doubtful \/ (t \notin mixed /\ ~doubtful')
    BY <1>5 DEF Create, EndRefresh, TypeInv, TypeOK
  <2> QED
    BY <2>1, <2>2, <2>3, <2>4 DEF OneEnds
<1>6. ASSUME NEW t \in Threads, Validate(t)
      PROVE  RefreshMove
  <2>1. CASE BeginRefresh(t)
    <3>1. Refreshing' = Refreshing \cup {t}
      BY <2>1, RefreshingMoves DEF BeginRefresh, Labels, RefreshLabels
    <3> QED
      BY <2>1, <3>1 DEF OneBegins
  <2>2. CASE Goto(t, "ready") /\ UNCHANGED <<mixed, doubtful>>
    <3>1. t \notin Refreshing
      BY <1>6 DEF Validate, Refreshing, RefreshLabels
    <3>2. Refreshing' = Refreshing
      BY <2>2, <3>1, RefreshingMoves DEF Labels, RefreshLabels
    <3> QED
      BY <2>2, <3>2 DEF RefreshesStay
  <2> QED
    BY <1>6, <2>1, <2>2 DEF Validate
<1>7. ASSUME NEW t \in Threads, Update(t)
      PROVE  RefreshMove
  <2>1. Goto(t, "ready") /\ t \in Refreshing
    BY <1>7 DEF Update, Refreshing, RefreshLabels
  <2>2. Refreshing' = Refreshing \ {t}
    BY <2>1, RefreshingMoves DEF Labels, RefreshLabels
  <2>3. mixed' = mixed \ {t}
    BY <1>7 DEF Update, EndRefresh
  <2>4. doubtful' = doubtful \/ (t \notin mixed /\ ~doubtful')
    BY <1>7 DEF Update, EndRefresh, TypeInv, TypeOK
  <2> QED
    BY <2>1, <2>2, <2>3, <2>4 DEF OneEnds
<1>8. ASSUME NEW t \in Threads, Request(t)
      PROVE  RefreshMove
  <2>1. Goto(t, "idle") /\ t \notin Refreshing
    BY <1>8 DEF Request, Refreshing, RefreshLabels
  <2>2. Refreshing' = Refreshing
    BY <2>1, RefreshingMoves DEF Labels, RefreshLabels
  <2> QED
    BY <1>8, <2>2 DEF Request, RefreshesStay, historyVars
<1>9. ASSUME NEW t \in Awaiters, AwaitTagged(t)
      PROVE  RefreshMove
  <2>1. Goto(t, "awaiting") /\ t \notin Refreshing
    BY <1>9 DEF AwaitTagged, Refreshing, RefreshLabels
  <2>2. Refreshing' = Refreshing
    BY <2>1, RefreshingMoves DEF Labels, RefreshLabels
  <2> QED
    BY <1>9, <2>2 DEF AwaitTagged, RefreshesStay, historyVars
<1>10. ASSUME NEW t \in Awaiters, AwaitReturns(t)
      PROVE  RefreshMove
  <2>1. Goto(t, "joining") /\ t \notin Refreshing
    BY <1>10 DEF AwaitReturns, Refreshing, RefreshLabels
  <2>2. Refreshing' = Refreshing
    BY <2>1, RefreshingMoves DEF Labels, RefreshLabels
  <2> QED
    BY <1>10, <2>2 DEF AwaitReturns, RefreshesStay, historyVars
<1>11. ASSUME NEW t \in Awaiters, Join(t)
      PROVE  RefreshMove
  <2>1. Goto(t, "idle") /\ t \notin Refreshing
    BY <1>11 DEF Join, Refreshing, RefreshLabels
  <2>2. Refreshing' = Refreshing
    BY <2>1, RefreshingMoves DEF Labels, RefreshLabels
  <2> QED
    BY <1>11, <2>2 DEF Join, RefreshesStay, historyVars
<1>12. ASSUME NEW t \in Awaiters, RunCompletes(t)
      PROVE  RefreshMove
  BY <1>12 DEF RunCompletes, Refreshing, RefreshesStay, threadVars, historyVars
<1>13. ASSUME NEW t \in Awaiters, Report(t)
      PROVE  RefreshMove
  BY <1>13 DEF Report, Refreshing, RefreshesStay, threadVars, historyVars
<1>14. ASSUME NEW k \in 1 .. MaxTokens, Expire(k)
      PROVE  RefreshMove
  BY <1>14 DEF Expire, Refreshing, RefreshesStay, threadVars, historyVars
<1>15. CASE UNCHANGED vars
  BY <1>15 DEF vars, Refreshing, RefreshesStay, threadVars, historyVars
<1> QED
  BY <1>1, <1>2, <1>3, <1>4, <1>5, <1>6, <1>7, <1>8, <1>9,
     <1>10, <1>11, <1>12, <1>13, <1>14, <1>15, <1>16 DEF Next, Refresh, Await

LEMMA LoneStep == TypeInv /\ Lone /\ [Next]_vars => Lone'
<1> SUFFICES ASSUME TypeInv, Lone, [Next]_vars
             PROVE  Lone'
  OBVIOUS
<1>1. CASE RefreshesStay
  BY <1>1 DEF Lone, RefreshesStay
<1>2. CASE OneBegins
  BY <1>2 DEF Lone, OneBegins, BeginRefresh
<1>3. CASE OneEnds
  BY <1>3 DEF Lone, OneEnds
<1> QED
  BY <1>1, <1>2, <1>3, RefreshesMove DEF RefreshMove

LEMMA InSyncStep == TypeInv /\ Lone /\ InSync /\ [Next]_vars => InSync'
<1> SUFFICES ASSUME TypeInv /\ Lone /\ InSync, [Next]_vars
             PROVE  InSync'
  OBVIOUS
<1> USE DEF InSync, Lone, TypeInv, TypeOK, Tokens, Labels, RefreshLabels, Goto,
           tokenVars, threadVars, historyVars, reportVars
<1>1. ASSUME NEW t \in Threads, Call(t)
      PROVE  InSync'
  BY <1>1 DEF Call, BeginRefresh, Refreshing
<1>2. ASSUME NEW t \in Threads, Provide(t)
      PROVE  InSync'
  <2>1. pc'[t] = "provided"
    BY <1>2 DEF Provide
  <2>2. \A u \in Threads \ mixed : u # t => pc[u] # "pushing"
    BY <1>2 DEF Provide, Refreshing
  <2> QED
    BY <1>2, <2>1, <2>2 DEF Provide
<1>16. ASSUME NEW t \in Threads, Assign(t)
      PROVE  InSync'
  <2>1. pc'[t] = "assigned"
    BY <1>16 DEF Assign
  <2>2. \A u \in Threads \ mixed : u # t => pc[u] # "pushing"
    BY <1>16 DEF Assign, Refreshing
  <2> QED
    BY <1>16, <2>1, <2>2 DEF Assign
<1>3. ASSUME NEW t \in Threads, ProviderRaises(t)
      PROVE  InSync'
  BY <1>3 DEF ProviderRaises, Refreshing
<1>4. ASSUME NEW t \in Threads, HandOver(t)
      PROVE  InSync'
  <2>1. pc'[t] = "pushing"
    BY <1>4 DEF HandOver
  <2> QED
    BY <1>4, <2>1 DEF HandOver
<1>5. ASSUME NEW t \in Threads, Create(t)
      PROVE  InSync'
  <2>1. CASE t \in mixed
    <3>1. doubtful' /\ UNCHANGED token
      BY <1>5, <2>1 DEF Create, EndRefresh, Lone
    <3>2. ASSUME NEW u \in Threads \ mixed', pc'[u] = "pushing"
          PROVE  held'[u] = token
      BY <1>5, <3>2 DEF Create, EndRefresh
    <3> QED
      BY <3>1, <3>2
  <2>2. CASE t \notin mixed
    <3>1. \A u \in Threads : u # t => pc[u] \notin {"assigned", "pushing"}
      BY <1>5, <2>2 DEF Create, Lone, Refreshing
    <3>2. goToken' = token /\ token' = token
      BY <1>5, <2>2 DEF Create
    <3>3. pc'[t] # "pushing" /\ \A u \in Threads : u # t => pc'[u] = pc[u]
      BY <1>5 DEF Create
    <3> QED
      BY <3>1, <3>2, <3>3
  <2> QED
    BY <2>1, <2>2
<1>6. ASSUME NEW t \in Threads, Validate(t)
      PROVE  InSync'
  BY <1>6 DEF Validate, BeginRefresh, NoteSession, Refreshing
<1>7. ASSUME NEW t \in Threads, Update(t)
      PROVE  InSync'
  <2>1. CASE t \in mixed
    <3>1. doubtful' /\ UNCHANGED token
      BY <1>7, <2>1 DEF Update, EndRefresh, Lone
    <3>2. ASSUME NEW u \in Threads \ mixed', pc'[u] = "pushing"
          PROVE  held'[u] = token
      BY <1>7, <3>2 DEF Update, EndRefresh
    <3> QED
      BY <3>1, <3>2
  <2>2. CASE t \notin mixed
    <3>1. \A u \in Threads : u # t => pc[u] \notin {"assigned", "pushing"}
      BY <1>7, <2>2 DEF Update, Lone, Refreshing
    <3>2. goToken' = token /\ token' = token
      BY <1>7, <2>2 DEF Update
    <3>3. pc'[t] # "pushing" /\ \A u \in Threads : u # t => pc'[u] = pc[u]
      BY <1>7 DEF Update
    <3> QED
      BY <3>1, <3>2, <3>3
  <2> QED
    BY <2>1, <2>2
<1>8. ASSUME NEW t \in Threads, Request(t)
      PROVE  InSync'
  BY <1>8 DEF Request
<1>9. ASSUME NEW t \in Awaiters, AwaitTagged(t)
      PROVE  InSync'
  BY <1>9 DEF AwaitTagged
<1>10. ASSUME NEW t \in Awaiters, AwaitReturns(t)
      PROVE  InSync'
  BY <1>10 DEF AwaitReturns
<1>11. ASSUME NEW t \in Awaiters, Join(t)
      PROVE  InSync'
  BY <1>11 DEF Join
<1>12. ASSUME NEW t \in Awaiters, RunCompletes(t)
      PROVE  InSync'
  BY <1>12 DEF RunCompletes
<1>13. ASSUME NEW t \in Awaiters, Report(t)
      PROVE  InSync'
  BY <1>13 DEF Report
<1>14. ASSUME NEW k \in 1 .. MaxTokens, Expire(k)
      PROVE  InSync'
  BY <1>14 DEF Expire
<1>15. CASE UNCHANGED vars
  BY <1>15 DEF vars
<1> QED
  BY <1>1, <1>2, <1>3, <1>4, <1>5, <1>6, <1>7, <1>8, <1>9,
     <1>10, <1>11, <1>12, <1>13, <1>14, <1>15, <1>16 DEF Next, Refresh, Await

LEMMA SyncAlways == Spec => []SyncInv
<1>1. Init => SyncInv
  BY DEF Init, SyncInv, Lone, InSync, Refreshing, RefreshLabels
<1>2. TypeInv /\ SyncInv /\ [Next]_vars => SyncInv'
  BY LoneStep, InSyncStep DEF SyncInv
<1> QED
  BY <1>1, <1>2, TypeAlways, PTL DEF Spec

(* Between refreshes the Go client has the token the Python client checks, *)
(* unless two refreshes met and none has been alone since.                 *)
THEOREM SessionsAreInSync == Spec => []SessionInSync
<1>1. SyncInv => SessionInSync
  BY DEF SyncInv, InSync, SessionInSync, Refreshing, RefreshLabels
<1> QED
  BY <1>1, SyncAlways, PTL
-----------------------------------------------------------------------------
(* A token is valid when the provider gives it, and no token that is on    *)
(* its way to Go had expired when a thread found the session clean.        *)
Known ==
    /\ \A t \in Threads : stale[t] \subseteq expired
    /\ \A t \in Threads \ mixed :
          /\ pc[t] = "provided" => held[t] \notin stale[t]
          /\ pc[t] \in {"assigned", "pushing"} => token \notin stale[t]

GoodTokens ==
    \A t \in Threads : pc[t] = "ready" /\ clean[t] =>
        /\ token \notin stale[t] /\ goToken \notin stale[t]
        /\ \A u \in Threads : pc[u] \in {"provided", "pushing"} => held[u] \notin stale[t]

LEMMA KnownStep == TypeInv /\ Lone /\ Known /\ [Next]_vars => Known'
<1> SUFFICES ASSUME TypeInv /\ Lone /\ Known, [Next]_vars
             PROVE  Known'
  OBVIOUS
<1> USE DEF Known, TypeInv, TypeOK, Tokens, Labels, RefreshLabels, Goto,
           tokenVars, threadVars, historyVars, reportVars
<1>1. ASSUME NEW t \in Threads, Call(t)
      PROVE  Known'
  BY <1>1 DEF Call, BeginRefresh, Refreshing
<1>2. ASSUME NEW t \in Threads, Provide(t)
      PROVE  Known'
  <2>1. \A u \in Threads \ mixed : u # t => pc[u] \notin {"assigned", "pushing"}
    BY <1>2 DEF Provide, Lone, Refreshing
  <2> QED
    BY <1>2, <2>1 DEF Provide
<1>16. ASSUME NEW t \in Threads, Assign(t)
      PROVE  Known'
  <2>1. \A u \in Threads \ mixed : u # t => pc[u] \notin {"assigned", "pushing"}
    BY <1>16 DEF Assign, Lone, Refreshing
  <2> QED
    BY <1>16, <2>1 DEF Assign
<1>3. ASSUME NEW t \in Threads, ProviderRaises(t)
      PROVE  Known'
  <2>1. mixed' = mixed \ {t} /\ pc'[t] = "idle"
    BY <1>3 DEF ProviderRaises
  <2> QED
    BY <1>3, <2>1 DEF ProviderRaises
<1>4. ASSUME NEW t \in Threads, HandOver(t)
      PROVE  Known'
  BY <1>4 DEF HandOver
<1>5. ASSUME NEW t \in Threads, Create(t)
      PROVE  Known'
  <2>1. mixed' = mixed \ {t} /\ pc'[t] = "checking"
    BY <1>5 DEF Create, EndRefresh
  <2> QED
    BY <1>5, <2>1 DEF Create
<1>6. ASSUME NEW t \in Threads, Validate(t)
      PROVE  Known'
  BY <1>6 DEF Validate, BeginRefresh, NoteSession, Refreshing
<1>7. ASSUME NEW t \in Threads, Update(t)
      PROVE  Known'
  <2>1. mixed' = mixed \ {t} /\ pc'[t] = "ready"
    BY <1>7 DEF Update, EndRefresh
  <2> QED
    BY <1>7, <2>1 DEF Update
<1>8. ASSUME NEW t \in Threads, Request(t)
      PROVE  Known'
  BY <1>8 DEF Request
<1>9. ASSUME NEW t \in Awaiters, AwaitTagged(t)
      PROVE  Known'
  BY <1>9 DEF AwaitTagged
<1>10. ASSUME NEW t \in Awaiters, AwaitReturns(t)
      PROVE  Known'
  BY <1>10 DEF AwaitReturns
<1>11. ASSUME NEW t \in Awaiters, Join(t)
      PROVE  Known'
  BY <1>11 DEF Join
<1>12. ASSUME NEW t \in Awaiters, RunCompletes(t)
      PROVE  Known'
  BY <1>12 DEF RunCompletes
<1>13. ASSUME NEW t \in Awaiters, Report(t)
      PROVE  Known'
  BY <1>13 DEF Report
<1>14. ASSUME NEW k \in 1 .. MaxTokens, Expire(k)
      PROVE  Known'
  BY <1>14 DEF Expire
<1>15. CASE UNCHANGED vars
  BY <1>15 DEF vars
<1> QED
  BY <1>1, <1>2, <1>3, <1>4, <1>5, <1>6, <1>7, <1>8, <1>9,
     <1>10, <1>11, <1>12, <1>13, <1>14, <1>15, <1>16 DEF Next, Refresh, Await

LEMMA GoodStep == TypeInv /\ TokenGiven /\ SyncInv /\ Known /\ GoodTokens /\ [Next]_vars => GoodTokens'
<1> SUFFICES ASSUME TypeInv /\ TokenGiven /\ SyncInv /\ Known /\ GoodTokens, [Next]_vars
             PROVE  GoodTokens'
  OBVIOUS
<1> USE DEF GoodTokens, SyncInv, Known, TypeInv, TypeOK, Tokens, Labels, RefreshLabels, Goto,
           tokenVars, threadVars, historyVars, reportVars
<1>1. ASSUME NEW t \in Threads, Call(t)
      PROVE  GoodTokens'
  BY <1>1 DEF Call, BeginRefresh, Refreshing
<1>2. ASSUME NEW t \in Threads, Provide(t)
      PROVE  GoodTokens'
  BY <1>2 DEF Provide
<1>16. ASSUME NEW t \in Threads, Assign(t)
      PROVE  GoodTokens'
  BY <1>16 DEF Assign
<1>3. ASSUME NEW t \in Threads, ProviderRaises(t)
      PROVE  GoodTokens'
  BY <1>3 DEF ProviderRaises, Refreshing
<1>4. ASSUME NEW t \in Threads, HandOver(t)
      PROVE  GoodTokens'
  BY <1>4 DEF HandOver
<1>5. ASSUME NEW t \in Threads, Create(t)
      PROVE  GoodTokens'
  BY <1>5 DEF Create, EndRefresh
<1>6. ASSUME NEW t \in Threads, Validate(t)
      PROVE  GoodTokens'
  <2>1. CASE token \notin expired /\ pc' = [pc EXCEPT ![t] = "ready"] /\ NoteSession(t, Refreshing = {} /\ ~doubtful)
    <3>1. ASSUME clean'[t]
          PROVE  /\ goToken = token
                 /\ \A u \in Threads : pc[u] \notin {"provided", "assigned", "pushing"}
      <4>1. Refreshing = {} /\ ~doubtful
        BY <2>1, <3>1 DEF NoteSession
      <4>2. client
        BY <1>6 DEF Validate, TokenGiven
      <4> QED
        BY <4>1, <4>2 DEF InSync, Refreshing
    <3>2. stale'[t] = expired
      BY <2>1 DEF NoteSession
    <3>3. \A u \in Threads : u # t => pc'[u] = pc[u] /\ clean'[u] = clean[u] /\ stale'[u] = stale[u]
      BY <2>1 DEF NoteSession
    <3>4. pc'[t] # "pushing" /\ UNCHANGED <<token, goToken, held>>
      BY <1>6, <2>1 DEF Validate
    <3> QED
      BY <2>1, <3>1, <3>2, <3>3, <3>4
  <2>2. CASE BeginRefresh(t) /\ UNCHANGED <<clean, stale>>
    BY <1>6, <2>2 DEF Validate, BeginRefresh
  <2> QED
    BY <1>6, <2>1, <2>2 DEF Validate
<1>7. ASSUME NEW t \in Threads, Update(t)
      PROVE  GoodTokens'
  <2>1. ASSUME clean'[t]
        PROVE  /\ held[t] = token /\ token \notin stale[t]
               /\ \A u \in Threads : u # t => pc[u] \notin {"provided", "assigned", "pushing"}
    <3>1. t \notin mixed
      BY <1>7, <2>1 DEF Update
    <3> QED
      BY <1>7, <3>1 DEF Update, InSync, Known, Lone, Refreshing
  <2>2. \A u \in Threads : u # t => pc'[u] = pc[u] /\ clean'[u] = clean[u]
    BY <1>7 DEF Update
  <2>3. pc[t] = "pushing" /\ pc'[t] = "ready" /\ goToken' = held[t] /\ UNCHANGED <<token, held, stale>>
    BY <1>7 DEF Update
  <2> QED
    BY <2>1, <2>2, <2>3
<1>8. ASSUME NEW t \in Threads, Request(t)
      PROVE  GoodTokens'
  BY <1>8 DEF Request
<1>9. ASSUME NEW t \in Awaiters, AwaitTagged(t)
      PROVE  GoodTokens'
  BY <1>9 DEF AwaitTagged
<1>10. ASSUME NEW t \in Awaiters, AwaitReturns(t)
      PROVE  GoodTokens'
  BY <1>10 DEF AwaitReturns
<1>11. ASSUME NEW t \in Awaiters, Join(t)
      PROVE  GoodTokens'
  BY <1>11 DEF Join
<1>12. ASSUME NEW t \in Awaiters, RunCompletes(t)
      PROVE  GoodTokens'
  BY <1>12 DEF RunCompletes
<1>13. ASSUME NEW t \in Awaiters, Report(t)
      PROVE  GoodTokens'
  BY <1>13 DEF Report
<1>14. ASSUME NEW k \in 1 .. MaxTokens, Expire(k)
      PROVE  GoodTokens'
  BY <1>14 DEF Expire
<1>15. CASE UNCHANGED vars
  BY <1>15 DEF vars
<1> QED
  BY <1>1, <1>2, <1>3, <1>4, <1>5, <1>6, <1>7, <1>8, <1>9,
     <1>10, <1>11, <1>12, <1>13, <1>14, <1>15, <1>16 DEF Next, Refresh, Await

(* A request is not sent with a token that had expired when the thread     *)
(* found the session clean: see GoodTokenSent.                             *)
THEOREM GoodTokensAreSent == Spec => []GoodTokenSent
<1>1. Init => TokenGiven /\ SyncInv /\ Known /\ GoodTokens
  BY DEF Init, TokenGiven, SyncInv, Lone, InSync, Refreshing, RefreshLabels, Known, GoodTokens
<1>2. GoodTokens => GoodTokenSent
  BY DEF GoodTokens, GoodTokenSent
<1>3. TypeInv /\ SyncInv /\ Known /\ [Next]_vars => Known'
  BY KnownStep DEF SyncInv
<1> QED
  BY <1>1, <1>2, <1>3, GivenStep, GoodStep, SyncAlways, TypeAlways, PTL DEF Spec
-----------------------------------------------------------------------------
(* The report thread has not seen more runs complete than have, and is     *)
(* told to end only by the thread that joins it.                           *)
ReportInv ==
    \A t \in Awaiters :
        /\ progress[t] <= completed[t]
        /\ pc[t] = "awaiting" => ~terminate[t]
        /\ pc[t] = "awaiting" /\ reporter[t] = "ended" => completed[t] >= Tags
        /\ pc[t] \notin {"awaiting", "joining"} => reporter[t] \in {"none", "ended"}

LEMMA ReportStep == TypeInv /\ ReportInv /\ [Next]_vars => ReportInv'
<1> SUFFICES ASSUME TypeInv /\ ReportInv, [Next]_vars
             PROVE  ReportInv'
  OBVIOUS
<1> USE DEF ReportInv, TypeInv, TypeOK, Tokens, Labels, RefreshLabels, Goto,
           tokenVars, threadVars, historyVars, reportVars
<1>1. ASSUME NEW t \in Threads, Call(t)
      PROVE  ReportInv'
  BY <1>1 DEF Call, BeginRefresh, Refreshing
<1>2. ASSUME NEW t \in Threads, Provide(t)
      PROVE  ReportInv'
  BY <1>2 DEF Provide
<1>16. ASSUME NEW t \in Threads, Assign(t)
      PROVE  ReportInv'
  BY <1>16 DEF Assign
<1>3. ASSUME NEW t \in Threads, ProviderRaises(t)
      PROVE  ReportInv'
  BY <1>3 DEF ProviderRaises, Refreshing
<1>4. ASSUME NEW t \in Threads, HandOver(t)
      PROVE  ReportInv'
  BY <1>4 DEF HandOver
<1>5. ASSUME NEW t \in Threads, Create(t)
      PROVE  ReportInv'
  BY <1>5 DEF Create, EndRefresh
<1>6. ASSUME NEW t \in Threads, Validate(t)
      PROVE  ReportInv'
  BY <1>6 DEF Validate, BeginRefresh, NoteSession, Refreshing
<1>7. ASSUME NEW t \in Threads, Update(t)
      PROVE  ReportInv'
  BY <1>7 DEF Update, EndRefresh
<1>8. ASSUME NEW t \in Threads, Request(t)
      PROVE  ReportInv'
  BY <1>8 DEF Request
<1>9. ASSUME NEW t \in Awaiters, AwaitTagged(t)
      PROVE  ReportInv'
  BY <1>9 DEF AwaitTagged
<1>10. ASSUME NEW t \in Awaiters, AwaitReturns(t)
      PROVE  ReportInv'
  BY <1>10 DEF AwaitReturns
<1>11. ASSUME NEW t \in Awaiters, Join(t)
      PROVE  ReportInv'
  BY <1>11 DEF Join
<1>12. ASSUME NEW t \in Awaiters, RunCompletes(t)
      PROVE  ReportInv'
  BY <1>12 DEF RunCompletes
<1>13. ASSUME NEW t \in Awaiters, Report(t)
      PROVE  ReportInv'
  BY <1>13 DEF Report
<1>14. ASSUME NEW k \in 1 .. MaxTokens, Expire(k)
      PROVE  ReportInv'
  BY <1>14 DEF Expire
<1>15. CASE UNCHANGED vars
  BY <1>15 DEF vars
<1> QED
  BY <1>1, <1>2, <1>3, <1>4, <1>5, <1>6, <1>7, <1>8, <1>9,
     <1>10, <1>11, <1>12, <1>13, <1>14, <1>15, <1>16 DEF Next, Refresh, Await

(* The report thread of await_tagged gives up early only when as many runs *)
(* as tags have completed, and ends with the call.                         *)
THEOREM ReportersAreKept == Spec => []ReporterKept
<1>1. ASSUME Init
      PROVE  ReportInv
  <2>1. ASSUME NEW t \in Awaiters
        PROVE  pc[t] = "idle" /\ completed[t] = 0 /\ progress[t] = 0 /\ reporter[t] = "none"
    BY <1>1 DEF Init
  <2> QED
    BY <2>1 DEF ReportInv
<1>2. ReportInv => ReporterKept
  BY DEF ReportInv, ReporterKept
<1> QED
  BY <1>1, <1>2, ReportStep, TypeAlways, PTL DEF Spec
=============================================================================
