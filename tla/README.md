# Verification of the Nexus client SDK

TLA+ models of `nexus_client_sdk`, checked with TLC, with proofs checked by
TLAPS. Paths below are relative to `src/src/nexus_client_sdk/`.

## 1. Inventory

The SDK is two things: clients of the Nexus scheduler and receiver (ctypes
bindings to a Go library, with retries), and a framework, *Nexus*, in which an
algorithm runs as one process per run. The process is started by the scheduler,
reads its payload, resolves its inputs through an in-memory cache, runs the
algorithm, stores the result, tells the receiver, records telemetry and exits.
Exit code 0 means "leave this run alone"; any other code makes the scheduler
start the process again.

| Component | State | Operations | Interacts with | Hard behaviour | What makes it correct |
|---|---|---|---|---|---|
| **Input cache** `nexus/abstractions/algorithm_cache.py`, `nexus/input/input_{reader,processor}.py`, `nexus_object.py` | `_cache`, `_scheduled` (a task per input), `_total_executed`; each input's `data` | `resolve`, the task `_execute`, `process`, context open and close | called by the algorithm, its forks and, re-entrantly, by inputs; uses the error map | concurrent callers; failure at any depth; the entry is written before the task is done; the loop sleeps between its decision and its answer | each input runs once; answers are complete; failures reach everyone who waits, with the right class; every call ends |
| **Error map** `nexus/exceptions/error_map.py` | none (configuration) | `map_error`, `map_exception`, `_resolve_exc_type` | used at each level of nested resolution | first match wins; catch-all; errors remapped on the way up | a caching error keeps its class however often it is passed on |
| **Run lifecycle** `nexus/core/app_core.py` | the running task; exit code | `activate`, `_submit_result`, `_complete_with_error`, `graceful_shutdown` | bootstrapper, algorithm, receiver, storage, scheduler | crash at any point, restarts, signals | 0 only when recorded; success has a result; failures reported are final |
| **Bootstrapper** `nexus/core/app_bootstrap.py`, `nexus/input/payload_reader.py` | configuration, injector, payload | `__aenter__`, `bootstrap`, morphing of a payload | run lifecycle | which exception reaches which handler; compressed payloads; a task nobody awaits | a start that can never succeed is reported; payloads are judged by their contents and recorded before use |
| **Receiver client** `clients/nexus_receiver_client.py`, `nexus/async_extensions/nexus_receiver_async_client.py` | Go client, token | `complete_run`, `check_run` | receiver | lost submissions, late receipts | the caller goes on only after a receipt |
| **Retry policies** `clients/fault_tolerance/`, `nexus/async_extensions/async_retry/` | error types, counts | `execute`, the builder | both clients | what is retried, how often, what is raised at the end | bounded tries; unmapped errors pass |
| **Scheduler client** `clients/nexus_scheduler_client.py`, `nexus/async_extensions/nexus_scheduler_async_client.py` | Go client, token | `create_run`, `await_run`, `create_and_await`, `await_tagged`, `get_run_results`, `cancel_run` | scheduler; blocking thread pool | retrying a call that already had its effect; shared client in threads | one live run per call; progress thread ends |
| **Remote, forked, fan-out, distributed algorithms** `nexus/algorithms/` | inputs | `run`, `_create_remote_run`, `_spawn_remote_algorithms` | input cache, scheduler client | check-then-create; detached spawns; partial failure | no duplicate runs when reuse is asked for; all forks scheduled |
| **Execution trees** `nexus/execution/trees.py` | a tree | building and traversing | - | recursion | agrees with a reference definition |
| **Telemetry** `nexus/telemetry/` | a task per input and per recorder | `record`, user and payload recorders | storage, run lifecycle | failures must not fail the run, nor lose what others record; tasks cut off or cancelled | recorded for reported runs only, and completely unless a recorder fails |
| **Configuration** `nexus/configurations/` | the settings, with the extensions loaded so far | `load`, `load_config_extension`, `from_runtime_configuration` | bootstrapper | a model is a copy of the settings of its time | what cannot be loaded or does not validate ends the start |
| **Client session** `_init_client` in `clients/nexus_{scheduler,receiver}_client.py`, `models/` | `_client`, `_current_token`, the token Go holds | creation, check and renewal; conversion of answers | token provider, Go, threads of the blocking pool | no lock; several threads | Go and Python agree on the token; valid tokens are sent; errors surface |
| Sockets, serializers, factories, Go binding, test helpers | - | look-ups and construction | - | - | not modelled, see section 8 |

`PROJECT.json` lists the same components with their status, and the hazards of
this code at their lines.

## 2. Modules

| Module | What it is |
|---|---|
| `ErrorMap` | pure operators: the error map and `_resolve_exc_type` |
| `InputCache` | the cache, the tasks of its inputs and its callers (EXTENDS `ErrorMap`) |
| `InputResolution` | abstract specification: what the cache promises |
| `MCInputCache` | two input graphs, the clients and the error map for TLC |
| `InputCacheProofs` | theorems about `InputCache`, with the refinement of `InputResolution` |
| `NexusRun` | the life of a run: process, supervisor, receiver |
| `NexusRunProofs` | theorems about `NexusRun` |
| `RemoteSpawn` | nodes that launch remote algorithms, and the scheduler that keeps the runs |
| `MCRemoteSpawn` | two nodes and their forks for TLC |
| `RemoteSpawnProofs` | theorems about `RemoteSpawn` |
| `CreateAndAwait` | calls of `create_and_await`, their retries and the blocking pool (refines `RetryPolicy`) |
| `MCCreateAndAwait` | two calls for TLC |
| `CreateAndAwaitProofs` | theorems about `CreateAndAwait`, with the refinement of `RetryPolicy` |
| `RetryPolicy` | calls of a client through policies of one builder and of its forks |
| `MCRetryPolicy` | four calls, two of which fork the builder and one of which has no executions, for TLC |
| `RetryPolicyProofs` | theorems about `RetryPolicy` |
| `NexusProcess` | one process of a run in detail: configuration, payload, the order of its tasks, telemetry (refines `NexusRun`) |
| `MCNexusProcess` | configurations and payloads for TLC |
| `NexusProcessProofs` | theorems about `NexusProcess`, with the refinement of `NexusRun` |
| `ClientSession` | a client shared by threads: `_init_client` and `await_tagged` |
| `ClientSessionProofs` | theorems about `ClientSession` |
| `SdkResults` | pure operators: what clients make of the structures Go returns, and hand to it |
| `MCClientSession` | two threads for TLC, and reference definitions for `SdkResults` |
| `ExecutionTree` | pure operators: `get_tree`; checked in `MCInputCache` |

How they fit together: `NexusRun` sees the input cache and the algorithm as one
step that ends with a result, a transient or a fatal error; `InputCache` says
which of them it is. A node of `RemoteSpawn` is a process of `NexusRun` whose
algorithm launches others before it returns; the interior of a call of the
scheduler client is `CreateAndAwait`, which is shown to be a refinement of `RetryPolicy`.
`NexusProcess` opens the step "start" and the step "telemetry" of `NexusRun`, of which
it is shown to be a refinement; the errors its algorithm may end with are those of
`InputCache`. The clients of all of them are `ClientSession`, one object used by every
thread of the blocking pool, and `SdkResults` says what their methods return or raise.
`ExecutionTree` draws the inputs that `InputCache` executes.

### InputCache

One action is the code between two suspension points of one coroutine: asyncio
runs it without interruption. The asyncio lock guards no `await`, so it is never
contended and adds no step.

| Model | Code |
|---|---|
| `phase[i]` | the task of input `i`: `unscheduled` (no task in `_scheduled`), `created`, `opening` (in `__aenter__`), `waiting` / `settled` (in the nested `resolve()`), `reading` (in `_read_input` / `_process_input`), `closing` (in `__aexit__`), `done` |
| `cache[i]` | the entry of `_cache`: absent, None (written by the `finally` of a failed body), or a value |
| `data[i]` | the `data` property: is there a result? |
| `exc[i]` | the exception the task ends with |
| `status[c]` | client `c`'s call of `resolve()`: `polling` (asleep in the loop), `settled` (asleep for the last time, all inputs counted), `returned`, `raised` |
| `received[x]`, `error[c]` | what `resolve()` gave to `x`, or raised in `c` |
| `raw[i]` | history: what the code of input `i` raised itself, before any remapping |
| `Resolve`, `Poll`, `Return` | a client's call, one iteration of the loop, the answer |
| `Begin`, `OpenFails`, `Enter`, `PollReaders`, `StartBody`, `BodyReturns`, `BodyRaises`, `Closed` | the task `_execute` |

`SlowClose` is the set of inputs whose `_context_close` suspends. For the others
leaving the body, writing the entry and ending the task are one step. The
overriding of `_context_close` is left to the users of the SDK, so both kinds are
legitimate.

Abstractions: results are present or absent; inputs return something other than
None; exceptions are classes; the first failed task in `_scheduled` order is some
failed task; time is not modelled, sleeps are arbitrary delays. The graph of
inputs is acyclic because inputs get their readers as constructor arguments.

### NexusRun

`pc` follows `activate()`: `starting` (bootstrapping), `running` (the
algorithm), `saving`, `submitting`, `acking` (polling for the receipt),
`telemetry`, `exited`. `attempt` numbers the processes of a run. The receiver
takes submissions from `mailbox` in any order and late, also after the process
that made them has gone; a submission may be lost. The client does not see that:
`client_error_type` holds bytes, and `error()` (`models/common.py:42`) compares
them with strings, so no error of a submission is ever raised. The model
therefore has no retry of a submission; a lost one ends in exhausted polls, an
unhandled `NexusClientRuntimeError` and exit code 1.

`StartupFailures` selects the ways the start may fail, by the handler they reach.
The supervisor and the receiver are outside the repository (`Start`, `Receive`).
Of two submissions that differ the receiver may keep either: nothing in the SDK
says which. A configuration that does not validate (`"config"`) is raised from
`__aenter__` of the bootstrapper (`app_bootstrap.py:239`), before the `try` of
`activate()` (`app_core.py:261`): it is one of the failures that exit with 1 and
report nothing. No document says otherwise, so `run_lifecycle` has it among its
failures, and `HandledStartReported` is stated for those that have a handler.

### RemoteSpawn

| Model | Code |
|---|---|
| `node[n]` | the process of a directed graph algorithm: its own logic (`running`), in `_spawn_remote_algorithms` (`spawning`), reporting its result (`finishing`), gone: `exited`, `failed` when its own logic has, `crashed` |
| `spawned[n]` | tasks created by `_spawn` so far, in the order of the forks |
| `pc[r]` | the task of a remote algorithm: `preparing` (inputs and payloads), `lookup` (runs by tag), `metadata` (of those found), `creating`, ended; `dying`: its process has gone while a thread still had its request under way |
| `ids[r]` | the request ids `run()` collects, one per payload |
| `found[r]` | what the last `get_run_results` returned |
| `runs` | the scheduler: a run is its position in the order of arrival and its tag |
| `late[tag]` | requests on their way whose process has been started again meanwhile, by the tag they carry |

`Forks`, `TagOf`, `ForceRun`, `Detached` (`async_spawn_enabled`) and `Delayed` are
what configuration and constructor arguments fix. `LostReplies` selects the
remote algorithms for which an answer of `create_run` may get lost, after which
the policy asks again. `MaxRuns` bounds those repetitions, `MaxCrashes` the
crashes. A request under way when its process dies (`dying`) arrives before the process
is started again, or never (`Orphaned`); for the remote algorithms in `LateRequests` it
may also be on its way still (`Outlives`) and arrive at any time later (`LateArrival`),
between a look-up and a creation of the new process or after both. A failure of the
node's own logic ends the node (`MainRunFails`) unless the error is transient, which
starts the process again as a crash does.

The look-up is not retried though it goes through the policy:
`get_run_results` is a generator, whose request is made only when its result is
iterated, after the policy has returned (`StepFails`). Not modelled: aborting
children with their parent, which the scheduler does, and which forks a node
has, which is its own logic. Two facts the model shows and no property forbids:
a node with `async_spawn_enabled` may exit with forks cancelled half way
(`Exit`), for the setting promises no more; and payloads with the same tag, the
default of a remote algorithm that gives none, share one run.

### CreateAndAwait

| Model | Code |
|---|---|
| `pc[c]` | a call: `queued` for a thread of the blocking pool, `creating`, `created` (in `post_create_callback`), `awaiting`, `sleeping` (in the policy's delay, without a thread), over |
| `try[c]` | the executions of the policy so far |
| `stage[c][t]` | the run that execution `t` created: absent, live, ended, SCHEDULING_FAILED |
| `abandoned[c]` | history: executions that raised while their run had not been seen to end |
| `raised[c]` | history: the errors that the executions raised, in order |

`create_and_await` gives the policy one function that creates and awaits, and
adds `NexusSchedulingError` to the default error types (`NetworkError`), so any of
these errors repeats both. `Troubles` selects what may go wrong besides a failed
scheduling: network errors and rejections while creating or awaiting, and an
exception of the callback. Under the refinement each call forks the client's builder
and adds `NexusSchedulingError` to the fork; `queued`, `creating`, `created` and
`awaiting` are one state, `executing`, and `raised` is the log of errors. Delays are arbitrary. The remote ways to end a run
other than SCHEDULING_FAILED are one, `ended`: the call returns them all alike.

### RetryPolicy

| Model | Code |
|---|---|
| `errorTypes[b]` | the list of error types of builder `b`: one object, shared by the builder, its default policy and every policy built from it |
| `BuilderOf(c)` | the client's builder, or the fork that call `c` makes; `fork()` starts from a new default policy, hence from a list of its own |
| `Execute` | fork, `with_*`, `build` and `execute`, up to the first suspension |
| `try[c]`, `log[c]` | `try_number`; history: the errors the function has raised |
| `FunctionReturns`, `FunctionRaises`, `DelayOver`, `Cancel` | one pass of `_execute`, its delay, and cancellation of the task that waits |

An error is retried if it is an instance of an error type in the list as it is when
the error arrives, not when the policy was built: this is why sharing matters.
Delays are arbitrary. Two facts the model keeps from the code: `retry_count` counts
executions, not repetitions, so a call with 0 never executes its function; and
`with_error_types` adds to the defaults and does not replace them.

### NexusProcess

| Model | Code |
|---|---|
| `settings`, `payload` | what configuration and payload URI hold; they do not change in a run |
| `entering`, `binding`, `fetching`, `resolving` | the start: `load()` and `__aenter__`; `bootstrap()` up to the payload; `AlgorithmPayloadReader`; `bootstrap()` up to the task that records the payload |
| `injecting` | the rest of `bootstrap()`, when that task may exist |
| `activating`, `opening`, `waiting` | `activate()` up to the context of the algorithm; suspended in that context; suspended until the algorithm's task ends, which has not begun |
| `running`, `saving`, `submitting`, `acking` | as in `NexusRun`, whose `running` includes the three before |
| `ready` | the queue of the event loop, of the tasks the start depends on: that of `activate()`, the payload recorder's, the algorithm's |
| `inputs`, `recording`, `closing`, `unwinding` | waiting for the input tasks; for the recorders; leaving the contexts; leaving them by an exception |
| `served` | what the bound payload was parsed from: the payload itself (`data`) or the document as it arrived (`raw`) |
| `payloadTask`, `inputTask[i]`, `recorderTask[r]` | the telemetry tasks; the loop cancels those that are left when the process ends |

A document is described by what the code does with it: whether it is an envelope of a
compressed payload, whether that can be opened, and which of the two payload types its
contents (`data`) and the document itself (`raw`) fit. `from_json` ignores unknown
keys, so an envelope may well fit a type whose fields are optional.

Nothing in the code waits for the payload recorder. The model has the event loop in its
place: tasks run one at a time until they suspend, a task that is created or woken goes
to the end of `ready`, and only the head runs (`RunsNext`), while `activate()` is
suspended (`MainSuspended`). The recorder's task is created in `Resolve` and the
algorithm's in `CreateRunTask`, at once or after the context of the algorithm has
suspended and been woken (`Wake`, `Opened`); the recorder computes and saves without
suspending (`RecordPayload`). Between the two creations the rest of the bootstrap, or the
algorithm's context, may fail: then the recorder is cancelled before it has begun, or
runs while the failure is reported. There `ready` holds no place for the task of
`activate()`, so that the model has a recorder run at any time until the process ends,
and not only before the first answer. Recorders' chunks are stored without a suspension
in between, so a task is one step. Which configuration each part is made from is not
modelled: early copies lack the extension of the algorithm (`app_bootstrap.py:286`).

The refinement maps the five stages of the start to `starting`, the next three to
`running`, the four of telemetry to `telemetry`, and the caching errors to the classes they inherit from.

### ClientSession

| Model | Code |
|---|---|
| `client`, `token` | `_client`, `_current_token`: tokens are numbered in the order of issue |
| `goToken` | the token the Go library sends. `UpdateToken` takes no client, so there is one |
| `pc[t]` | thread `t`: `providing` (in the token provider), `provided` (with its answer), `assigned` (`_current_token` is set), `pushing` (in the call of Go, with the token it has read), `checking` (before `is_valid()`), `ready` (past `_init_client`), `awaiting` and `joining` (in `await_tagged`) |
| `completed[t]`, `progress[t]`, `reporter[t]`, `terminate[t]` | the counter given to `AwaitRuns`, and `prev_progress`, the thread and the flag of `_report_progress` |
| `mixed`, `doubtful`, `clean`, `stale` | history, to say which refreshes met and what a thread saw when it took a token for valid |

A thread may be interrupted wherever another can observe or change what it uses: on
both sides of the calls of the provider and of Go, between the provider's answer and its
assignment to `_current_token`, so that an older token may be assigned over a newer
one, and between that assignment and the reading of `_current_token` for the argument. The provider may answer with a new
token or with the last one; it may raise, and then so does the call. A token may
expire at any time, except the last that the model issues (`MaxTokens`).

Two threads may both find no client and both create one; the first is overwritten and
not freed. This is not forbidden; `ClientReady` and the theorem `TypeCorrect` bound it: a thread
creates one client at most. Without a client token provider the token is empty and
never expires, which is the case of one token. `await_tagged` with
`report_progress=False` is `Request`.

`AwaitReturns` has no failure: `_await_tagged` returns an iterator, so that errors of
Go surface where the answer is iterated, when the report thread has ended.

### SdkResults and ExecutionTree

Pure operators, each checked by TLC against a definition of what it should compute
(the ASSUMEs of `MCClientSession` and `MCInputCache`). `SdkResults` takes structures
apart: `NULL`, empty and other texts, error types that Python knows or not.
`ExecutionTree` follows annotations of constructors by their names.

## 3. Runs

| Run | Question | Bounds | Result |
|---|---|---|---|
| `cache_slow_close` | types, `ErrorRooted`, `ExecutedOnce`, `OutcomeFinal`, `WaitsForWork`, `MissingIsSlow`, `EveryCallAnswered`, where inputs may suspend while closing | part of the graph of the `minimalistic` test algorithm: a chain of 3 inputs and an unrelated reader; an algorithm and a fork; 2 slow closes; two kinds of exception anywhere | holds, 176,214 states |
| `cache_promise` | refinement of `InputResolution`, `FailureReported` | chain of 3 inputs, no slow close | holds, 9,106 states |
| `cache_masked_failure` | `ResultsComplete` where inputs close slowly | chain of 3 inputs | **violated**, finding 1 |
| `run_lifecycle` | types, `ExitZeroRecorded`, `SuccessHasResult`, `FailureIsFatal`, `HandledStartReported`, `RunComesToRest` | 3 processes, 2 polls, all failures | holds, 116,359 states |
| `run_payload_unreported` | `FatalStartReported` for a payload that does not parse | 1 process | **violated**, finding 2 |
| `spawn` | `NoDuplicateRuns`, `PayloadsHaveRuns`, `AllForksScheduled`, `TasksOfTheNode`, `NodesEnd` | 2 nodes, one waits and one does not, one delayed; forks with and without `force_run`, with two payloads, with lost answers; requests that outlive their process; 2 crashes | holds, 775,235 states |
| `spawn_shared_tag` | `NoDuplicateRuns` where two nodes launch the same work | 2 nodes, one fork each, one tag | **violated**, finding 3 |
| `await_created` | types, `AwaitedRescheduledOnlyOnFailure`, `NothingLeftRunning`, `ResultIsOfTheRun`, refinement of `RetryPolicy`, `EveryCallEnds` | 2 calls (with and without `propagate_error`), 1 thread, 3 executions, all troubles | holds, 420,767 states |
| `retry` | types, `RetriedAsAsked`, `FateExplained` | 4 calls of one client, 2 with forks, one of them quiet; 0, 2 or 3 executions; 4 errors, one with another as base class | holds, 505,600 states |
| `process` | `PayloadStoredFirst`, `PayloadJudged`, `TelemetryComplete`, `TelemetryAfterReceipt`, refinement of `NexusRun` | 2 processes, 2 polls, 2 inputs, 2 recorders; 7 configurations, all forms of payload | holds, 1,414,215 states |
| `process_morph` | `DecompressedServed` | 1 process | **violated**, finding 4 |
| `session` | `ClientReady`, `SessionInSync`, `GoodTokenSent`, `ReporterKept`, `EveryCallEnds` | 2 threads, one of which awaits tagged runs; 3 tokens; 2 tags, 3 completed runs | holds, 340,949 states |

Why the bounds are enough. A chain of three inputs has an error that is raised,
remapped by one `resolve()`, and remapped again by a second before a client sees
it; the reader `xy` adds an unrelated failure. Two clients with overlapping
wishes are needed for scheduling an input twice, and a third changes nothing an
arbitrary interleaving of two does not show. Three processes allow the record of
the first to be replaced by the second while the third runs. Two polls separate
"poll again" from "give up". Two crashes let a node crash again while it repeats
what it did before the first. Two calls and one thread make each wait for the
other. Three of the four calls of one client are a fork beside another fork and beside the
client's own builder, the ways a list could be shared wrongly; the fourth has no
executions. Two recorders are needed for one to be
cut off by another; of the configurations, those that differ only in telemetry go
through the same start, so telemetry is explored in one of them. Two threads make every
refresh meet another, and three tokens let a third replace what two have mixed up;
three runs complete for two tags, since a tag may have several. The theorems of
section 5 do not depend on these bounds. The types of `RemoteSpawn`, `NexusProcess` and
`ClientSession` are proved (`TypeCorrect`) and no run repeats them; neither does one repeat
`ResultsComplete` where no input closes slowly, which is `MissingIsSlow` with nothing slow. Deadlock is not
checked: every one of these systems stops when its work is done.

## 4. Fairness

`InputCache`: weak fairness of each input's task and of each call in progress.
asyncio runs every task that can run and a sleep ends; that the code of an input
returns or raises in the end is an assumption about the user's code. No client
must ever call `resolve()`. Starting the body, its return and its failure are one
weakly fair disjunction: nothing forces success.

`NexusRun`: weak fairness of the process as a whole and of the supervisor's
restart. None for the receiver, which may never take a submission, nor for signals.

`RemoteSpawn`: weak fairness of each node's launching, exit and restart, and of each
remote algorithm's task: it goes on or fails. None for crashes and lost answers,
whose number is bounded, nor for late requests, which need not arrive. A node whose own
logic may fail need not: its end, either way, is one weakly fair disjunction.

`CreateAndAwait`: weak fairness of each call and of the end of each run. Awaiting is
not made to fail: a call that awaits a run goes on only when the run has ended.
`await_run` has no timeout of its own, so a call ends only because runs do, if
only by the deadline the scheduler keeps for them. A free thread is given to some
call in the queue; weak fairness suffices for each since executions are bounded.

`NexusProcess`: as `NexusRun`. Weak fairness of the process as a whole includes its
tasks: user code that computes telemetry returns or raises in the end.

`ClientSession`: weak fairness of each thread within `_init_client` and a request, of
each call of `await_tagged` and of each report thread. The provider and Go answer, and
`AwaitRuns` returns; nobody must call. A call refreshes at
most once after it has found or created its client, so `EveryCallEnds` asks nothing of the
tokens.

## 5. Proofs

The theorems of the seven proof modules hold for every value of the constants that satisfies the
named assumptions (`GraphAssumption`, `ThrownAssumption`, `ErrorClassAssumption`,
`RemappingsAssumption`, `BoundsAssumption`, `SpawnAssumption`, `CallAssumption`,
`PolicyAssumption`, `ProcessAssumption`, `SessionAssumption`).

`InputCacheProofs`:

* `TypeCorrect`: types. The interesting part is `error`: a client sees only
  caching errors, which needs that every entry of the map has a caching error as
  target and that either a catch-all or the default is there.
* `OutcomesAreFinal`: entries are not replaced and done tasks stay done. It needs
  that an input without a finished body has no entry.
* `EachExecutedOnce`: the counter equals the number of tasks that have begun;
  scheduling creates tasks only for inputs that have none, and every other step
  but `Begin` keeps the set of those that have begun.
* `ErrorsAreRooted`: the inductive invariant says that every exception of a task is
  either raised by the input itself or the class of a rooted error; the
  key lemma is that a caching error keeps its class (`ResolveExcType` is
  idempotent on its results), so nesting does not change it.
* `OnlySlowAreMissed`: the entry of an input that does not suspend while it closes
  belongs to a task that is done, so that a caller which finds the entry and no failed
  task knows that the input has data (`EntryMeansDone`); this is kept in `settled`
  because entries and data are never removed (`SettledHasData`). Inputs that close
  slowly are left out of the invariant, but their callers are not: an input may be made
  from an incomplete answer and still be there for those who ask for it.
* `ResultsAreComplete`, assuming `SlowClose = {}`, is a corollary. The assumption
  is needed: `cache_masked_failure` violates the property without it.
* `NobodyWaitsInVain`: whoever polls has had a task created for all it asked for
  (`AskedFor`), and a task does not end without an entry or an exception (`EndIsSeen`). Of
  the inputs needed, those whose entry is missing have a member that depends on no other
  of them, for the graph is acyclic; its task can go on.
* `CachesWindDown`: tasks and calls pass through stages; a step takes one of them to a later
  stage, and a poll that finds nothing new is no step at all.
* `StepsKeepPromise`, assuming `SlowClose = {}`: initial states and steps map to those of
  `InputResolution`.

`NexusRunProofs`: `TypeCorrect` (with the strengthening that a process that has
not exited has polls left), `ExitZeroIsRecorded` (telemetry starts only after the
receipt), `SuccessesHaveResults` and `FailuresAreFatal` (every submission ever
made is true of its process, and the ending of a process is fixed once it has
submitted), `HandledStartsAreReported` (the ending of a process is unknown until it
ends, and a handled failure leads to the submission and nowhere else),
`RunsWindDown` (`StepsLeft`, the steps a process has before it at most, falls with each of
them; polls are counted from 0 at the submission).

`RemoteSpawnProofs`:

* `TypeCorrect` and `PayloadsGetTheirRuns` from one invariant, `RInv`: a remote
  algorithm has as many ids as payloads behind it, each id names a run with that
  payload's tag, and what its look-up found has the tag it looked for.
* `WaitingNodesLoseNoFork`: a node that waits and is past waiting has all forks ended,
  and an ended fork stays so until its own node is started again.
* `ReusedTagsRunOnce`, assuming `TagsNotShared`: whoever is creating a run, or has a
  request under way when its process ends, does so for a tag that has none
  (`Fresh`), tags have one run at most (`Single`), and requests on their way are of those that
  may be late (`LateOnly`). None is inductive alone.
  `spawn_shared_tag` shows that the assumption is needed; `spawn` satisfies it.
* `NodesHaveTheirTasks`: a node that starts over has forgotten its count (`StartsOver`), and
  the state of every fork fits where its node is and how many it counts (`TaskFits`). A
  fork has one place in one node, so no step of another node disturbs it.
* `NodesWindDown`: `NodeLeft` counts the tasks still to be created, `RemoteLeft` two steps for
  each payload to go. Every step lowers the count of who takes it and raises none, but for
  a restart and for creations whose answer is lost, both bounded in the model, and for late
  requests, which come once.

`CreateAndAwaitProofs`: one invariant says what earlier, current and later executions
of a call have left behind (`Before`, `Current`, `After`), and gives
`ReschedulesAreForFailures`, `NoneLeftRunning` and `ResultsAreOfTheRun`; `TypeCorrect`
adds that a call takes a thread only when one is free, so the pool keeps its size.

* `CallsFollowPolicy`: every step is one of `RetryPolicy` under the refinement, or is not seen
  by it (`Unseen`). The errors are those recorded where they are raised (`raised`), so that
  retrying one that the call did not ask for would be a step no policy takes.
* `CallsAreExplained`: hence the theorems of `RetryPolicyProofs` hold of the calls. Its lemmas are
  used through an instance with the constants and variables of the refinement, after
  showing that `PolicyAssumption` holds of them.
* `CallsWindDown`: five steps to an execution and one before the first. `NobodyBlocked` adds that
  the pool is never exhausted by calls that cannot step: a thread is held for a run that
  works, or its call is ready.

`RetryPolicyProofs`: `TypeCorrect`, `OnlyAskedIsRetried` and `FatesAreExplained` from one
invariant. Its part about lists says that the list of the client's builder never
changes, and that of a fork only when its own call begins, so that at every error
the list holds what the call asked for; its part about executions says that a call
has as many errors as tries, one more while it sleeps.

`NexusProcessProofs`:

* `TypeCorrect`, with the strengthening that a process that has not exited has polls left.
* `PayloadsAreJudged`: what is read and served at each stage of the start, kept by everything
  after it.
* `PayloadsAreStoredFirst`: the invariant `QueueInv` says what the queue may hold at each stage:
  a recorder that is pending is at its head, before the woken task of `activate()` and
  before the algorithm's, so that the step in which the algorithm begins does not find it
  pending. It is lost once recording suspends (the mutant `RecordPayloadInThread`).
* `TelemetryIsAfterReceipt`: past `acking` the run is recorded, a recorder exists only for
  an algorithm with a result, and such a process has saved it.
* `TelemetryIsComplete`: in `closing` every input's task has ended, and a recorder's is
  pending only if another has failed; the end of the process cancels no other.
* `ProcessesAreRuns`: every step is one of `NexusRun` under the refinement, or a stutter;
  it needs the types and that an attempt's ending is unknown until it ends.
* `ProcessesAreSafe`: hence what is proved in `NexusRunProofs` holds of the detailed process, again
  through an instance of that module and of its invariant.

`ClientSessionProofs`:

* `TypeCorrect` needs that a thread that creates a client had not made one, hence that
  `client` is set once any thread has.
* `ClientsAreReady`: tokens that are held or checked have been issued.
* `SessionsAreInSync`: a refresh that is alone leaves `goToken = token`; when refreshes
  have met, those that have not ended are in `mixed` and the session is in doubt
  (`Lone`, `InSync`).
* `GoodTokensAreSent`: a thread that is `ready` and `clean` looked at the token that Go
  has, or pushed it itself with nobody beside it, and any later refresh brings a token
  that had not expired then.
* `ReportersAreKept`: the flag is set before the thread is joined, and `progress` is never
  ahead of `completed`.

`RetryPolicy` has no liveness property: a function may never return.

Only model-checked: liveness (`EveryCallAnswered`, `FailureReported`, `RunComesToRest`,
`NodesEnd`, `EveryCallEnds`, the fairness part of `KeepsPromise` and of `ImplementsRun`), which is out of the
prover's reach: it does not reason about ENABLED. The theorems named `...WindDown` prove the
part that needs no fairness: a number of steps that never grows and that each
step lowers, so that nothing polls, retries or waits in a circle. With it, what liveness
adds is that where the work is not done some step can be taken, of which
`NobodyWaitsInVain`, `NodesHaveTheirTasks` and `NobodyBlocked` prove the hard part, and that it is taken.
`FailureReported` has no such counterpart. The ASSUMEs about `SdkResults` and `ExecutionTree`
are evaluated by TLC for bounded structures. No module uses RECURSIVE operators, and no
theorem needs induction over data.

## 6. Findings

1. **A failed input can be masked** (`algorithm_cache.py:92`). The `finally` of
   `_execute` writes the entry None before `__aexit__` runs. If `_context_close`
   suspends, a poll sees all entries present and no task done with an exception,
   and the next step returns None in place of data.
2. **An unparsable payload is not reported** (`app_bootstrap.py:358`): building the
   message raises AttributeError when there is no bootstrap payload type.
3. **Runs with a tag in common are duplicated** (`_remote_algorithm.py:202`): looking
   up the tag and creating the run are two requests.
4. **A compressed payload is morphed from its envelope** (`payload_reader.py:112`). With a
   bootstrap payload type, the decompressed data is parsed first, but `morph()` parses
   the document as it arrived, so the payload is rejected or, where the envelope fits
   the type of the algorithm, replaced by it.

Noted in reading, without a run of their own:

* A network error while a run is awaited creates a second one
  (`nexus_scheduler_async_client.py:174`): awaiting is inside the function that the policy
  executes again. `AwaitedRescheduledOnlyOnFailure` leaves out the runs abandoned so.
* Errors of the receiver client are never raised: their types are bytes and are compared
  with strings (`models/receiver.py:41`, `:66`, `models/common.py:47`). A type that Python
  does not know is no error either (`common.py:58`).
* `err is NotFoundError` compares an instance with a class and is never true
  (`nexus_scheduler_client.py:128`, `345`): an unknown request raises where None is meant.
* An empty result makes `get_run_result` and `await_run` raise AttributeError
  (`nexus_scheduler_client.py:159`, `261`). Empty texts become None.
* `max_retries=0` is passed on as -1, no override (`models/scheduler.py:210`).
* `get_run_results` and `await_tagged` are generators or return one: their errors come
  after the policy has returned, so they are not retried, and the array of
  `await_tagged`, as that of an iteration that ends early, is never freed.
* A decompression function that raises reaches no handler that reports (`payload_reader.py:83`),
  and the run is started again on the same payload.
* The mode `on_failure` records nothing: its branch (`app_bootstrap.py:441`) comes after
  the raise at 357, though `settings.toml` offers it.
* `README.md` names the key `decompressor_import_path` (lines 114, 120); the code reads
  `decompression_import_path` (`payload_reader.py:65`), so a payload written after the
  document is parsed as it is.
* Services, data sockets and, without a bootstrap type, the payload type and the clients
  come from a model of the configuration that is read before the extension of the
  algorithm (`app_bootstrap.py:286`).
* Chunks that an earlier process stored stay beside those of a later one that stores fewer.
* `"All tagged runs ... have completed"` is logged also when the call was told to end.
* The distributed algorithm passes its tasks to `asyncio.wait` as separate arguments,
  which raises TypeError.

What the properties leave out. These are facts of the code that the models have and no
property forbids; each is bounded by the properties named:

* Overlapping refreshes put Go and the object out of step, and a thread that looks while
  another refreshes may send an old token (`nexus_scheduler_client.py:109`, `:116`).
  `SessionInSync` holds again once a refresh has been alone; `GoodTokenSent` is about
  threads that met no refresh.
* A run that is abandoned by `create_and_await` after a network error goes on
  (`nexus_scheduler_async_client.py:174`): `AwaitedRescheduledOnlyOnFailure` and
  `NothingLeftRunning` are about all other runs.
* A complete run is started again when telemetry or closing fails (`app_core.py:371`):
  `RunComesToRest` and `TelemetryComplete` say how that ends.
* An answer of `create_run` that is lost (`nexus_scheduler_async_client.py:81`), or a request
  that arrives after its node has been started again (`_remote_algorithm.py:201`),
  duplicates a run: `NoDuplicateRuns` leaves out `LostReplies` and `LateRequests`, and
  `PayloadsHaveRuns` does not.
* A decompression function that raises restarts the run for nothing (`payload_reader.py:83`).
* A stale copy of the configuration (`app_bootstrap.py:286`) is not modelled: its
  consequence is a value, which only the user's settings know.

## 7. Plan

In order:

1. `ErrorMap`, `InputCache`, `InputResolution` and their proofs. *Done.*
2. `NexusRun` and its proofs. *Done.*
3. `RemoteSpawn` and its proofs. *Done.*
4. `CreateAndAwait` and its proofs. *Done.*
5. `RetryPolicy` and its proofs. *Done.*
6. `NexusProcess`, its refinement of `NexusRun` and its proofs. *Done.*
7. `ClientSession` with `await_tagged`, its proofs, and `SdkResults`. *Done.*
8. `ExecutionTree` against a reference definition. *Done.*
9. `CreateAndAwait` as a refinement of `RetryPolicy`; what holds of the abstract modules, as
   theorems about the detailed ones; bounds on the steps of all but `ClientSession`. *Done.*
10. Left: theorems about `SdkResults` for every structure; that `NexusProcess` with `InputCache` in the
   place of its step "algorithm ends" ends with no other errors than it has now, as a
   theorem about both; and cancellation of runs by
   their parent, should the scheduler's part of it become known.

## 8. Not modelled, and why

How dynaconf merges files, data sockets, serializers, and the factories of
stores, loggers and metrics are look-ups and construction without later state; that
they may fail is in `NexusProcess`.
The Go library is not in the repository; its effects are modelled from the calls, and
the freeing of what it returns is left out. What `cancel_run` does to a run is up to the
scheduler. A machine that stops between two chunks of a recorder is not modelled: a
killed process ends between suspension points, as asyncio's signal handler does.
`ExecutionTree` takes the names of classes to differ and annotations to be classes;
readers that an algorithm takes itself are not in its tree, as in the code.
The distributed algorithm never gets past its first call, and the minimalistic one
is a client of `InputCache`. Logging, metrics and wording are left out everywhere.
Retries in `save_result` are one step that succeeds or fails, since nothing can be
observed between them.
