--------------------------- MODULE ClientSession ---------------------------
(***************************************************************************)
(* One client object shared by the threads that use it, those of the       *)
(* blocking pool above all: _init_client() of both clients, which makes    *)
(* the Go client at the first call and renews the access token, and        *)
(* await_tagged(), which has a thread of its own to report progress.       *)
(* There is no lock: a thread may be interrupted wherever the code calls   *)
(* the token provider or Go, or reads what another thread may assign.      *)
(***************************************************************************)
EXTENDS Naturals

CONSTANTS
    Threads,        \* the threads that call methods of the client
    Awaiters,       \* those that call await_tagged(), with report_progress
    MaxTokens,      \* bound on the access tokens that are issued
    MaxCompleted,   \* bound on the runs that complete during a call
    Tags,           \* len(tags)
    Share           \* progress is reported when more than Tags / Share are new

ASSUME SessionAssumption ==
    /\ Awaiters \subseteq Threads
    /\ MaxTokens \in Nat \ {0}
    /\ MaxCompleted \in Nat
    /\ Tags \in Nat
    /\ Share \in Nat \ {0}

VARIABLES
    client,         \* is _client set?
    token,          \* _current_token: a token by its number, 0 for None
    goToken,        \* the token the Go client sends with its requests
    issued,         \* the tokens issued so far are 1 .. issued
    expired,        \* those that are no longer valid
    pc,             \* pc[t]: where thread t is
    first,          \* first[t]: did it find no client?
    held,           \* held[t]: the token it was given, and then the one it hands to Go
    makes,          \* history: makes[t], the Go clients that t has created
    mixed,          \* history: the threads whose refresh met another's
    doubtful,       \* history: has no refresh been alone since two met?
    clean, stale,   \* history: how t found the session, see NoteSession
    completed,      \* completed[t]: the counter that AwaitRuns advances
    progress,       \* progress[t]: prev_progress of the report thread
    reporter,       \* reporter[t]: the report thread
    terminate       \* terminate[t]: terminate_report_thread

tokenVars == <<client, token, goToken, issued, expired>>
threadVars == <<pc, first, held, makes>>
historyVars == <<mixed, doubtful, clean, stale>>
reportVars == <<completed, progress, reporter, terminate>>
vars == <<tokenVars, threadVars, historyVars, reportVars>>

Tokens == 0 .. MaxTokens
RefreshLabels == {"providing", "provided", "assigned", "pushing"}
Labels == {"idle", "checking", "ready", "awaiting", "joining"} \cup RefreshLabels

TypeOK ==
    /\ client \in BOOLEAN
    /\ token \in Tokens
    /\ goToken \in Tokens
    /\ issued \in Tokens
    /\ expired \subseteq 1 .. MaxTokens
    /\ pc \in [Threads -> Labels]
    /\ first \in [Threads -> BOOLEAN]
    /\ held \in [Threads -> Tokens]
    /\ makes \in [Threads -> 0 .. 1]
    /\ mixed \subseteq Threads
    /\ doubtful \in BOOLEAN
    /\ clean \in [Threads -> BOOLEAN]
    /\ stale \in [Threads -> SUBSET (1 .. MaxTokens)]
    /\ completed \in [Awaiters -> 0 .. MaxCompleted]
    /\ progress \in [Awaiters -> 0 .. MaxCompleted]
    /\ reporter \in [Awaiters -> {"none", "starting", "running", "ended"}]
    /\ terminate \in [Awaiters -> BOOLEAN]

Init ==
    /\ client = FALSE /\ token = 0 /\ goToken = 0
    /\ issued = 0 /\ expired = {}
    /\ pc = [t \in Threads |-> "idle"]
    /\ first = [t \in Threads |-> FALSE]
    /\ held = [t \in Threads |-> 0]
    /\ makes = [t \in Threads |-> 0]
    /\ mixed = {} /\ doubtful = FALSE
    /\ clean = [t \in Threads |-> FALSE]
    /\ stale = [t \in Threads |-> {}]
    /\ completed = [t \in Awaiters |-> 0]
    /\ progress = [t \in Awaiters |-> 0]
    /\ reporter = [t \in Awaiters |-> "none"]
    /\ terminate = [t \in Awaiters |-> FALSE]
-----------------------------------------------------------------------------
(* _init_client *)

Goto(t, label) == pc' = [pc EXCEPT ![t] = label]

Refreshing == {t \in Threads : pc[t] \in RefreshLabels}

(* t asks the token provider.  If others are between asking for a token    *)
(* and handing it to Go, nobody can say who will be last.                  *)
BeginRefresh(t) ==
    /\ Goto(t, "providing")
    /\ mixed' = IF Refreshing = {} THEN mixed ELSE mixed \cup Refreshing \cup {t}
    /\ doubtful' = (doubtful \/ Refreshing # {})

EndRefresh(t) ==
    /\ mixed' = mixed \ {t}
    /\ doubtful' = (doubtful /\ t \in mixed)

(* clean[t]: nobody but t was refreshing when t took a token for valid,    *)
(* and the last to refresh before had been alone; stale[t]: the tokens     *)
(* that had expired by then.                                               *)
NoteSession(t, isClean) ==
    /\ clean' = [clean EXCEPT ![t] = isClean]
    /\ stale' = [stale EXCEPT ![t] = expired]

(* A method is called: is there a client? *)
Call(t) ==
    /\ pc[t] = "idle"
    /\ first' = [first EXCEPT ![t] = ~client]
    /\ \/ client /\ Goto(t, "checking") /\ UNCHANGED <<mixed, doubtful>>
       \/ ~client /\ BeginRefresh(t)
    /\ UNCHANGED <<tokenVars, held, makes, clean, stale, reportVars>>

(* The provider answers with a new token, or with one it has kept. *)
Provide(t) ==
    /\ pc[t] = "providing"
    /\ \E k \in (1 .. MaxTokens) \ expired :
          /\ k \in {issued, issued + 1}
          /\ issued' = k
          /\ held' = [held EXCEPT ![t] = k]
    /\ Goto(t, "provided")
    /\ stale' = [stale EXCEPT ![t] = expired]
    /\ UNCHANGED <<client, token, goToken, expired, first, makes, mixed, doubtful, clean, reportVars>>

(* The provider raises, and so does the call. *)
ProviderRaises(t) ==
    /\ pc[t] = "providing"
    /\ Goto(t, "idle")
    /\ mixed' = mixed \ {t}
    /\ UNCHANGED <<tokenVars, first, held, makes, doubtful, clean, stale, reportVars>>

(* The answer is assigned, perhaps over a newer token of another thread. *)
Assign(t) ==
    /\ pc[t] = "provided"
    /\ token' = held[t]
    /\ Goto(t, "assigned")
    /\ UNCHANGED <<client, goToken, issued, expired, first, held, makes, historyVars, reportVars>>

(* Mutant: the Go client gets the token it has. *)
HandOverOld(t) ==
    /\ pc[t] = "assigned"
    /\ held' = [held EXCEPT ![t] = IF first[t] THEN token ELSE goToken]
    /\ Goto(t, "pushing")
    /\ UNCHANGED <<tokenVars, first, makes, historyVars, reportVars>>

(* The argument of the call to Go is read from the object again. *)
HandOver(t) ==
    /\ pc[t] = "assigned"
    /\ held' = [held EXCEPT ![t] = token]
    /\ Goto(t, "pushing")
    /\ UNCHANGED <<tokenVars, first, makes, historyVars, reportVars>>

(* Mutant: the client is not kept. *)
CreateForgets(t) ==
    /\ pc[t] = "pushing"
    /\ first[t]
    /\ makes' = [makes EXCEPT ![t] = @ + 1]
    /\ goToken' = held[t]
    /\ Goto(t, "checking")
    /\ EndRefresh(t)
    /\ UNCHANGED <<client, token, issued, expired, first, held, clean, stale, reportVars>>

(* CreateSchedulerClient or CreateReceiverClient returns. *)
Create(t) ==
    /\ pc[t] = "pushing"
    /\ first[t]
    /\ client' = TRUE
    /\ makes' = [makes EXCEPT ![t] = @ + 1]
    /\ goToken' = held[t]
    /\ Goto(t, "checking")
    /\ EndRefresh(t)
    /\ UNCHANGED <<token, issued, expired, first, held, clean, stale, reportVars>>

(* Mutant: the check is the wrong way round. *)
ValidateInverted(t) ==
    /\ pc[t] = "checking"
    /\ first' = [first EXCEPT ![t] = FALSE]
    /\ \/ /\ token \in expired
          /\ Goto(t, "ready")
          /\ NoteSession(t, Refreshing = {} /\ ~doubtful)
          /\ UNCHANGED <<mixed, doubtful>>
       \/ /\ token \notin expired
          /\ BeginRefresh(t)
          /\ UNCHANGED <<clean, stale>>
    /\ UNCHANGED <<tokenVars, held, makes, reportVars>>

(* _current_token.is_valid(): go on with it, or ask for another. *)
Validate(t) ==
    /\ pc[t] = "checking"
    /\ first' = [first EXCEPT ![t] = FALSE]
    /\ \/ /\ token \notin expired
          /\ Goto(t, "ready")
          /\ NoteSession(t, Refreshing = {} /\ ~doubtful)
          /\ UNCHANGED <<mixed, doubtful>>
       \/ /\ token \in expired
          /\ BeginRefresh(t)
          /\ UNCHANGED <<clean, stale>>
    /\ UNCHANGED <<tokenVars, held, makes, reportVars>>

(* UpdateToken or UpdateReceiverToken returns. *)
Update(t) ==
    /\ pc[t] = "pushing"
    /\ ~first[t]
    /\ goToken' = held[t]
    /\ Goto(t, "ready")
    /\ clean' = [clean EXCEPT ![t] = t \notin mixed]
    /\ EndRefresh(t)
    /\ UNCHANGED <<client, token, issued, expired, first, held, makes, stale, reportVars>>

(* The request is made with goToken, and answered: the method returns or   *)
(* raises.                                                                 *)
Request(t) ==
    /\ pc[t] = "ready"
    /\ t \notin Awaiters
    /\ Goto(t, "idle")
    /\ UNCHANGED <<tokenVars, first, held, makes, historyVars, reportVars>>

(* Time passes.  The last token the model issues does not expire. *)
Expire(k) ==
    /\ k \in (1 .. issued) \ expired
    /\ k < MaxTokens
    /\ expired' = expired \cup {k}
    /\ UNCHANGED <<client, token, goToken, issued, threadVars, historyVars, reportVars>>
-----------------------------------------------------------------------------
(* await_tagged *)

AwaitTagged(t) ==
    /\ pc[t] = "ready"
    /\ Goto(t, "awaiting")
    /\ completed' = [completed EXCEPT ![t] = 0]
    /\ progress' = [progress EXCEPT ![t] = 0]
    /\ reporter' = [reporter EXCEPT ![t] = "starting"]
    /\ terminate' = [terminate EXCEPT ![t] = FALSE]
    /\ UNCHANGED <<tokenVars, first, held, makes, historyVars>>

(* AwaitRuns has seen another run complete.  A tag may have several. *)
RunCompletes(t) ==
    /\ pc[t] = "awaiting"
    /\ completed[t] < MaxCompleted
    /\ completed' = [completed EXCEPT ![t] = @ + 1]
    /\ UNCHANGED <<tokenVars, threadVars, historyVars, progress, reporter, terminate>>

(* Mutant: the report thread is joined before it is told to end. *)
JoinFirst(t) ==
    /\ pc[t] = "awaiting"
    /\ reporter[t] = "ended"
    /\ Goto(t, "joining")
    /\ terminate' = [terminate EXCEPT ![t] = TRUE]
    /\ UNCHANGED <<tokenVars, first, held, makes, historyVars, completed, progress, reporter>>

(* AwaitRuns returns, with results or with an error: either is found by    *)
(* whoever iterates the answer.  The report thread is told to end.         *)
AwaitReturns(t) ==
    /\ pc[t] = "awaiting"
    /\ Goto(t, "joining")
    /\ terminate' = [terminate EXCEPT ![t] = TRUE]
    /\ UNCHANGED <<tokenVars, first, held, makes, historyVars, completed, progress, reporter>>

(* Mutant: nobody waits for the report thread. *)
Detach(t) ==
    /\ pc[t] = "joining"
    /\ Goto(t, "idle")
    /\ UNCHANGED <<tokenVars, first, held, makes, historyVars, reportVars>>

Join(t) ==
    /\ pc[t] = "joining"
    /\ reporter[t] = "ended"
    /\ Goto(t, "idle")
    /\ UNCHANGED <<tokenVars, first, held, makes, historyVars, reportVars>>

New(t) == Share * (completed[t] - progress[t])

(* One pass of the loop of _report_progress.  At exactly Tags / Share the  *)
(* rounding of the two quotients decides.                                  *)
Report(t) ==
    /\ \/ reporter[t] = "starting"
          /\ progress' = [progress EXCEPT ![t] = completed[t]]
          /\ reporter' = [reporter EXCEPT ![t] = "running"]
       \/ /\ reporter[t] = "running"
          /\ progress[t] < Tags /\ ~terminate[t]
          /\ completed[t] # progress[t] /\ New(t) >= Tags
          /\ progress' = [progress EXCEPT ![t] = completed[t]]
          /\ UNCHANGED reporter
       \/ /\ reporter[t] = "running"
          /\ progress[t] >= Tags \/ terminate[t]
          /\ reporter' = [reporter EXCEPT ![t] = "ended"]
          /\ UNCHANGED progress
    /\ UNCHANGED <<tokenVars, threadVars, historyVars, completed, terminate>>
-----------------------------------------------------------------------------
Refresh(t) ==
    \/ Provide(t) \/ ProviderRaises(t) \/ Assign(t) \/ HandOver(t)
    \/ Create(t) \/ Validate(t) \/ Update(t)

Await(t) == AwaitTagged(t) \/ AwaitReturns(t) \/ Join(t)

Next ==
    \/ \E t \in Threads : Call(t) \/ Refresh(t) \/ Request(t)
    \/ \E t \in Awaiters : Await(t) \/ RunCompletes(t) \/ Report(t)
    \/ \E k \in 1 .. MaxTokens : Expire(k)

(* Threads run on; the provider, Go and the runs that are awaited answer   *)
(* in the end.                                                             *)
Fairness ==
    /\ \A t \in Threads : WF_vars(Refresh(t) \/ Request(t))
    /\ \A t \in Awaiters : WF_vars(Await(t)) /\ WF_vars(Report(t))

Spec == Init /\ [][Next]_vars /\ Fairness
-----------------------------------------------------------------------------
(* Safety *)

(* A thread that has got past the first branch of _init_client finds a     *)
(* client, a token to look at, and a Go client with a token, whichever     *)
(* thread made them; and no thread ever makes two clients, so that those   *)
(* that are overwritten and never freed are fewer than the threads.        *)
ClientReady ==
    \A t \in Threads :
        /\ pc[t] \in {"checking", "ready", "awaiting", "joining"} =>
              client /\ token # 0 /\ goToken # 0
        /\ makes[t] = 1 => client

(* When no refresh is under way the Go client has the token that the       *)
(* Python client looks at, unless two refreshes met and none has been      *)
(* alone since: a lone refresh puts right what others mixed up.            *)
SessionInSync ==
    client /\ Refreshing = {} /\ ~doubtful => goToken = token

(* A request goes out with a token that was valid when the thread looked,  *)
(* unless another was refreshing at that time or refreshes had met before: *)
(* an UnauthorizedError, which is not retried, has no other cause but      *)
(* expiry on the way.                                                      *)
GoodTokenSent ==
    \A t \in Threads : pc[t] = "ready" /\ clean[t] => goToken \notin stale[t]

(* The report thread gives up before the call that awaits the runs only if *)
(* as many runs as there are tags have completed, and does not outlive it. *)
ReporterKept ==
    \A t \in Awaiters :
        /\ pc[t] = "awaiting" /\ reporter[t] = "ended" => completed[t] >= Tags
        /\ pc[t] \notin {"awaiting", "joining"} => reporter[t] \in {"none", "ended"}
-----------------------------------------------------------------------------
(* Liveness *)

(* Every call ends, whatever the threads assign in between: the token is   *)
(* checked once per call, and a report thread is told to end before it is  *)
(* joined, or ends by itself.                                              *)
EveryCallEnds == \A t \in Threads : pc[t] # "idle" ~> pc[t] = "idle"
=============================================================================
