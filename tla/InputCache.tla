----------------------------- MODULE InputCache -----------------------------
(***************************************************************************)
(* The in-memory cache that runs the inputs of an algorithm                *)
(* (abstractions/algorithm_cache.py) with the two kinds of input it runs   *)
(* (input/input_reader.py, input/input_processor.py).                      *)
(*                                                                         *)
(* Every input runs in an asyncio task of its own, created by the first    *)
(* call of resolve() that asks for it.  An input opens its context, calls  *)
(* resolve() for the readers injected into it, runs its body, stores the   *)
(* result in the cache and closes its context.  A call of resolve() polls: *)
(* it counts its inputs in the cache, raises if any task of the whole      *)
(* cache has failed, and otherwise sleeps 0.1s.  One action is the code    *)
(* between two suspension points of one coroutine; the asyncio lock guards *)
(* no await, so it is never contended and takes no step of its own.        *)
(***************************************************************************)
EXTENDS ErrorMap, FiniteSets

CONSTANTS
    Inputs,     \* reader and processor objects
    Deps,       \* Deps[i]: the readers injected into input i
    Clients,    \* coroutines that call resolve(): the algorithm and its forks
    Wants,      \* Wants[c]: the inputs injected into client c
    SlowClose,  \* inputs whose _context_close suspends
    Thrown,     \* classes the code of an input may raise
    NoError

ASSUME GraphAssumption ==
    /\ Deps \in [Inputs -> SUBSET Inputs]
    /\ \A S \in SUBSET Inputs : S # {} => \E i \in S : Deps[i] \cap S = {}
    /\ Wants \in [Clients -> SUBSET Inputs]
    /\ Inputs \cap Clients = {}
    /\ SlowClose \subseteq Inputs
    /\ IsFiniteSet(Inputs)

ASSUME ThrownAssumption == Thrown \subseteq ErrorClass /\ NoError \notin ErrorClass

VARIABLES
    phase,      \* phase[i]: where the task of input i is
    data,       \* data[i]: does input i hold the result of its body?
    cache,      \* cache[i]: the entry of _cache for input i
    exc,        \* exc[i]: the exception the task of i ends with
    total,      \* _total_executed
    status,     \* status[c]: where client c is in its call of resolve()
    received,   \* received[x]: the inputs whose data x got from resolve()
    error,      \* error[c]: the class resolve() raised in client c
    raw         \* history: what the code of input i itself raised

vars == <<phase, data, cache, exc, total, status, received, error, raw>>

Callers == Inputs \cup Clients

Phases == {"unscheduled", "created", "opening", "waiting", "settled",
           "reading", "closing", "done"}

TypeOK ==
    /\ phase \in [Inputs -> Phases]
    /\ data \in [Inputs -> BOOLEAN]
    /\ cache \in [Inputs -> {"absent", "none", "value"}]
    /\ exc \in [Inputs -> ErrorClass \cup {NoError}]
    /\ total \in Nat
    /\ status \in [Clients -> {"idle", "polling", "settled", "returned", "raised"}]
    /\ received \in [Callers -> SUBSET Inputs]
    /\ error \in [Clients -> CachingErrors \cup {NoError}]
    /\ raw \in [Inputs -> Thrown \cup {NoError}]

Init ==
    /\ phase = [i \in Inputs |-> "unscheduled"]
    /\ data = [i \in Inputs |-> FALSE]
    /\ cache = [i \in Inputs |-> "absent"]
    /\ exc = [i \in Inputs |-> NoError]
    /\ total = 0
    /\ status = [c \in Clients |-> "idle"]
    /\ received = [x \in Callers |-> {}]
    /\ error = [c \in Clients |-> NoError]
    /\ raw = [i \in Inputs |-> NoError]

-----------------------------------------------------------------------------
(* Pieces of resolve() *)

(* Mutant: the test against _scheduled is dropped. *)
ScheduleAgain(S) == [i \in Inputs |-> IF i \in S THEN "created" ELSE phase[i]]

(* to_schedule: a task for every input asked for that has none *)
Schedule(S) ==
    [i \in Inputs |-> IF i \in S /\ phase[i] = "unscheduled" THEN "created" ELSE phase[i]]

(* Mutant: the loop only counts entries and never looks at the tasks. *)
FailedIgnored == {}

(* Scheduled tasks that are done with an exception, whoever asked for them *)
Failed == {i \in Inputs : phase[i] = "done" /\ exc[i] # NoError}

(* Mutant: the loop ends as soon as one input is cached. *)
AnyCached(S) == \E i \in S : cache[i] # "absent"

AllCached(S) == \A i \in S : cache[i] # "absent"

(* Mutant: the exception of the task is raised as it is. *)
RaisedUnmapped == {exc[f] : f \in Failed}

(* The first failed task in the order of _scheduled is reported; that      *)
(* order is not kept here, so any failed task may be the one.              *)
RaisedClasses == {ResolveExcType(exc[f]) : f \in Failed}

(* The `data` of the inputs asked for, less those that hold none *)
Resolved(S) == {i \in S : data[i]}

(* Mutant: an iteration that finds everything cached skips the tasks. *)
PollCacheFirst(c) ==
    IF AllCached(Wants[c])
    THEN status' = [status EXCEPT ![c] = "settled"] /\ UNCHANGED error
    ELSE \/ /\ \E class \in RaisedClasses : error' = [error EXCEPT ![c] = class]
            /\ status' = [status EXCEPT ![c] = "raised"]
         \/ /\ Failed = {}
            /\ status' = [status EXCEPT ![c] = "polling"]
            /\ UNCHANGED error

(* One iteration of the loop in a client, with the status it leaves behind *)
PollClient(c) ==
    \/ /\ \E class \in RaisedClasses : error' = [error EXCEPT ![c] = class]
       /\ status' = [status EXCEPT ![c] = "raised"]
    \/ /\ Failed = {}
       /\ status' = [status EXCEPT ![c] = IF AllCached(Wants[c]) THEN "settled" ELSE "polling"]
       /\ UNCHANGED error

-----------------------------------------------------------------------------
(* Clients *)

(* resolve() up to its first suspension: the tasks are created and, unless *)
(* nothing is asked for, the loop is entered.                              *)
Resolve(c) ==
    /\ status[c] = "idle"
    /\ phase' = Schedule(Wants[c])
    /\ \/ /\ Wants[c] = {}
          /\ status' = [status EXCEPT ![c] = "returned"]
          /\ UNCHANGED error
       \/ /\ Wants[c] # {}
          /\ PollClient(c)
    /\ UNCHANGED <<data, cache, exc, total, received, raw>>

Poll(c) ==
    /\ status[c] = "polling"
    /\ PollClient(c)
    /\ UNCHANGED <<phase, data, cache, exc, total, received, raw>>

(* All inputs were cached at the last iteration: the results are collected *)
(* after one more sleep, without another look at the tasks.                *)
Return(c) ==
    /\ status[c] = "settled"
    /\ status' = [status EXCEPT ![c] = "returned"]
    /\ received' = [received EXCEPT ![c] = Resolved(Wants[c])]
    /\ UNCHANGED <<phase, data, cache, exc, total, error, raw>>

-----------------------------------------------------------------------------
(* The task of an input: _execute *)

(* The task starts and enters the context of the input. *)
Begin(i) ==
    /\ phase[i] = "created"
    /\ total' = total + 1
    /\ phase' = [phase EXCEPT ![i] = "opening"]
    /\ UNCHANGED <<data, cache, exc, status, received, error, raw>>

(* Mutant: an exception of _context_open is swallowed. *)
OpenSwallowed(i) ==
    /\ phase[i] = "opening"
    /\ phase' = [phase EXCEPT ![i] = "done"]
    /\ UNCHANGED <<data, cache, exc, total, status, received, error, raw>>

(* _context_open raises: the task ends and nothing is cached. *)
OpenFails(i) ==
    /\ phase[i] = "opening"
    /\ \E e \in Thrown :
          /\ exc' = [exc EXCEPT ![i] = e]
          /\ raw' = [raw EXCEPT ![i] = e]
    /\ phase' = [phase EXCEPT ![i] = "done"]
    /\ UNCHANGED <<data, cache, total, status, received, error>>

(* __aexit__: an exception raised by _context_close replaces that of the   *)
(* body.  The task is done only when _context_close has returned.          *)
Close(i, phases, bodyExc, bodyRaw) ==
    /\ phase' = [phases EXCEPT ![i] = "done"]
    /\ \/ /\ exc' = [exc EXCEPT ![i] = bodyExc]
          /\ raw' = [raw EXCEPT ![i] = bodyRaw]
       \/ \E e \in Thrown :
             /\ exc' = [exc EXCEPT ![i] = e]
             /\ raw' = [raw EXCEPT ![i] = e]

(* The body is left, with a result or an exception: the entry is written   *)
(* and __aexit__ starts.  The two are one step unless _context_close       *)
(* suspends.                                                               *)
Leave(i, phases, entry, bodyExc, bodyRaw) ==
    /\ cache' = [cache EXCEPT ![i] = entry]
    /\ \/ /\ i \in SlowClose
          /\ phase' = [phases EXCEPT ![i] = "closing"]
          /\ exc' = [exc EXCEPT ![i] = bodyExc]
          /\ raw' = [raw EXCEPT ![i] = bodyRaw]
       \/ /\ i \notin SlowClose
          /\ Close(i, phases, bodyExc, bodyRaw)

(* One iteration of the loop of the resolve() inside an input: it may      *)
(* raise, and then the body is left with that error.                       *)
PollInput(i, phases) ==
    \/ /\ \E class \in RaisedClasses : Leave(i, phases, "none", class, NoError)
    \/ /\ Failed = {}
       /\ phase' = [phases EXCEPT ![i] = IF AllCached(Deps[i]) THEN "settled" ELSE "waiting"]
       /\ UNCHANGED <<cache, exc, raw>>

(* The context is open: process() asks the cache for the readers.  With no *)
(* readers the body starts at once.                                        *)
Enter(i) ==
    /\ phase[i] = "opening"
    /\ \/ /\ Deps[i] = {}
          /\ phase' = [phase EXCEPT ![i] = "reading"]
          /\ UNCHANGED <<cache, exc, raw>>
       \/ /\ Deps[i] # {}
          /\ PollInput(i, Schedule(Deps[i]))
    /\ UNCHANGED <<data, total, status, received, error>>

PollReaders(i) ==
    /\ phase[i] = "waiting"
    /\ PollInput(i, phase)
    /\ UNCHANGED <<data, total, status, received, error>>

(* That resolve() returns and _read_input or _process_input starts. *)
StartBody(i) ==
    /\ phase[i] = "settled"
    /\ phase' = [phase EXCEPT ![i] = "reading"]
    /\ received' = [received EXCEPT ![i] = Resolved(Deps[i])]
    /\ UNCHANGED <<data, cache, exc, total, status, error, raw>>

BodyReturns(i) ==
    /\ phase[i] = "reading"
    /\ data' = [data EXCEPT ![i] = TRUE]
    /\ Leave(i, phase, "value", NoError, NoError)
    /\ UNCHANGED <<total, status, received, error>>

BodyRaises(i) ==
    /\ phase[i] = "reading"
    /\ \E e \in Thrown : Leave(i, phase, "none", e, e)
    /\ UNCHANGED <<data, total, status, received, error>>

(* _context_close, where it suspends, returns or raises. *)
Closed(i) ==
    /\ phase[i] = "closing"
    /\ Close(i, phase, exc[i], raw[i])
    /\ UNCHANGED <<data, cache, total, status, received, error>>

-----------------------------------------------------------------------------
InputStep(i) ==
    \/ Begin(i)
    \/ OpenFails(i)
    \/ Enter(i)
    \/ PollReaders(i)
    \/ StartBody(i)
    \/ BodyReturns(i)
    \/ BodyRaises(i)
    \/ Closed(i)

AnswerStep(c) == Poll(c) \/ Return(c)

Next ==
    \/ \E c \in Clients : Resolve(c)
    \/ \E c \in Clients : AnswerStep(c)
    \/ \E i \in Inputs : InputStep(i)

(* The event loop runs every task that can run; the code of an input       *)
(* returns or raises in the end.  Nobody is obliged to call resolve().     *)
Fairness ==
    /\ \A i \in Inputs : WF_vars(InputStep(i))
    /\ \A c \in Clients : WF_vars(AnswerStep(c))

Spec == Init /\ [][Next]_vars /\ Fairness

-----------------------------------------------------------------------------
(* Safety *)

(* What resolve() returns is complete: a caller that has its answer, an    *)
(* input whose body runs or a client, got the data of every input it asked *)
(* for.  resolve() builds its answer from the cache after a sleep, without *)
(* looking at the tasks again (algorithm_cache.py:107-123).                *)
ResultsComplete ==
    /\ \A c \in Clients : status[c] = "returned" => received[c] = Wants[c]
    /\ \A i \in Inputs : phase[i] = "reading" \/ data[i] => received[i] = Deps[i]

(* If inputs suspend while they close, nothing but these is missing from   *)
(* an answer: whoever asked for others has the data of all of them, also   *)
(* of those that were made from incomplete answers.                        *)
MissingIsSlow ==
    LET Answered(x, S) == received[x] \subseteq S /\ S \ received[x] \subseteq SlowClose IN
    /\ \A c \in Clients : status[c] = "returned" => Answered(c, Wants[c])
    /\ \A i \in Inputs : phase[i] = "reading" \/ data[i] => Answered(i, Deps[i])

(* The error a client sees comes from the code of an input: its class is   *)
(* the mapped class of an exception some input itself raised, however many *)
(* readers and processors passed it on.  A transient error, on which the   *)
(* process is restarted, is never made up on the way.                      *)
ErrorRooted ==
    \A c \in Clients : status[c] = "raised" =>
        \E f \in Inputs : raw[f] # NoError /\ error[c] = ResolveExcType(raw[f])

(* Every input is executed at most once, however many callers ask for it   *)
(* at once: _total_executed counts the inputs whose task has started.      *)
ExecutedOnce ==
    total = Cardinality({i \in Inputs : phase[i] \notin {"unscheduled", "created"}})

(* The inputs in S, their readers, and so on: the smallest set that holds  *)
(* S and the readers of all its members                                    *)
Needed ==
    [S \in SUBSET Inputs |->
        {i \in Inputs : \A U \in SUBSET Inputs :
            S \subseteq U /\ (\A j \in U : Deps[j] \subseteq U) => i \in U}]

(* Can the task of i go on without the end of another task? *)
Works(i) ==
    \/ phase[i] \in {"created", "opening", "settled", "reading", "closing"}
    \/ phase[i] = "waiting" /\ AllCached(Deps[i])

(* Nobody waits in vain: unless a task has failed, which ends all calls,   *)
(* whoever polls for an entry that is missing needs, directly or through   *)
(* readers of readers, an input whose task exists and can go on by itself. *)
(* So inputs that wait inside the cache that runs them never wait for each *)
(* other, for an input nobody has scheduled, or for a task that ended      *)
(* without an entry and without an exception.                              *)
WaitsForWork ==
    LET Served(S) == AllCached(S) \/ \E i \in Needed[S] : Works(i) IN
    Failed = {} =>
        /\ \A c \in Clients : status[c] = "polling" => Served(Wants[c])
        /\ \A i \in Inputs : phase[i] = "waiting" => Served(Deps[i])

(* What the cache and the tasks have recorded is final: no later call runs *)
(* an input again, replaces an entry or revives a failed task.             *)
OutcomeFinal ==
    [][\A i \in Inputs :
          /\ cache[i] # "absent" => cache'[i] = cache[i]
          /\ phase[i] = "done" => phase'[i] = "done" /\ exc'[i] = exc[i]]_vars

-----------------------------------------------------------------------------
(* Liveness *)

(* Every call of resolve() ends: nobody waits for an input that waits for  *)
(* it, and an input that never gets an entry (its context failed to open)  *)
(* does not leave its callers polling.                                     *)
EveryCallAnswered ==
    \A c \in Clients : status[c] = "polling" ~> status[c] \in {"returned", "raised"}

(* An exception of an input, wherever it is raised, ends every call that   *)
(* still polls: it is not lost with the task that raised it, and it is not *)
(* masked by the empty entry the failed input leaves in the cache.         *)
FailureReported ==
    \A c \in Clients, i \in Inputs :
        status[c] = "polling" /\ raw[i] # NoError ~> status[c] = "raised"

-----------------------------------------------------------------------------
(* The cache as an implementation of InputResolution *)

Outcome ==
    [i \in Inputs |-> IF phase[i] # "done" THEN "pending"
                      ELSE IF exc[i] = NoError THEN "ok" ELSE "failed"]

Reply ==
    [c \in Clients |-> CASE status[c] = "idle"     -> "idle"
                         [] status[c] = "returned" -> "served"
                         [] status[c] = "raised"   -> "rejected"
                         [] OTHER                  -> "waiting"]

Promise == INSTANCE InputResolution WITH outcome <- Outcome, reply <- Reply

(* Where no input suspends while it closes, the tasks, the polling and the *)
(* two-step answer of resolve() do implement the promise: each step of the *)
(* cache is a step of InputResolution or changes nothing there.            *)
KeepsPromise == Promise!Spec

=============================================================================
