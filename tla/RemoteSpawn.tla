---------------------------- MODULE RemoteSpawn ----------------------------
(***************************************************************************)
(* Directed graphs of algorithms: a node runs its own logic and then       *)
(* launches remote algorithms, its forks or branches                       *)
(* (algorithms/_directed_graph_algorithm.py, forked_algorithm.py,          *)
(* fan_out.py).  A remote algorithm creates one run per payload, or reuses *)
(* a run that has the tag of the payload (_remote_algorithm.py).           *)
(*                                                                         *)
(* Every remote algorithm runs in an asyncio task of its node; its calls   *)
(* of the scheduler run in threads, so the steps of all remote algorithms  *)
(* interleave.  A node is a process: it may crash, and then starts over.   *)
(* Outside the SDK is the scheduler, which keeps the runs in the order it  *)
(* received them.                                                          *)
(***************************************************************************)
EXTENDS Naturals, Sequences, FiniteSets, Functions

CONSTANTS
    Nodes,
    Remotes,        \* the remote algorithms of all nodes
    Forks,          \* Forks[n]: what node n launches, in order
    Tags,
    TagOf,          \* TagOf[r]: the tags of the payloads of r, in order
    ForceRun,       \* remote algorithms with force_run
    Detached,       \* nodes with async_spawn_enabled
    Delayed,        \* nodes with a spawn_base_delay_seconds above 0
    LostReplies,    \* those for which answers to a creation may get lost
    LateRequests,   \* those whose orphaned requests may come after a restart
    MaxCrashes,     \* bound: crashes of all nodes together
    MaxRuns         \* bound: runs after which no more answers get lost

ASSUME SpawnAssumption ==
    /\ Forks \in [Nodes -> Seq(Remotes)]
    /\ TagOf \in [Remotes -> Seq(Tags)]
    /\ \A r \in Remotes : \E n \in Nodes : r \in Range(Forks[n])
    /\ \A m, n \in Nodes : m # n => Range(Forks[m]) \cap Range(Forks[n]) = {}
    /\ \A n \in Nodes : IsInjective(Forks[n])
    /\ ForceRun \subseteq Remotes
    /\ Detached \subseteq Nodes /\ Delayed \subseteq Nodes
    /\ LostReplies \subseteq Remotes /\ LateRequests \subseteq Remotes
    /\ MaxCrashes \in Nat /\ MaxRuns \in Nat

VARIABLES
    node,       \* node[n]: where the process of node n is
    spawned,    \* spawned[n]: tasks created for the forks of n
    pc,         \* pc[r]: where the task of remote algorithm r is
    ids,        \* ids[r]: request ids got so far, one per payload
    found,      \* found[r]: the runs the last look-up of r returned
    runs,       \* the runs the scheduler has: runs[id] is a tag
    late,       \* late[tag]: requests on their way that no process waits for
    crashes

vars == <<node, spawned, pc, ids, found, runs, late, crashes>>

Active == {"preparing", "lookup", "metadata", "creating"}

TypeOK ==
    /\ node \in [Nodes -> {"running", "spawning", "finishing", "exited", "failed", "crashed"}]
    /\ spawned \in [Nodes -> Nat]
    /\ \A n \in Nodes : spawned[n] <= Len(Forks[n])
    /\ pc \in [Remotes -> Active \cup {"unspawned", "done", "failed", "dying", "cancelled"}]
    /\ ids \in [Remotes -> Seq(1 .. Len(runs))]
    /\ found \in [Remotes -> SUBSET (1 .. Len(runs))]
    /\ runs \in Seq(Tags)
    /\ late \in [Tags -> Nat]
    /\ crashes \in 0 .. MaxCrashes

Init ==
    /\ node = [n \in Nodes |-> "running"]
    /\ spawned = [n \in Nodes |-> 0]
    /\ pc = [r \in Remotes |-> "unspawned"]
    /\ ids = [r \in Remotes |-> <<>>]
    /\ found = [r \in Remotes |-> {}]
    /\ runs = <<>>
    /\ late = [tag \in Tags |-> 0]
    /\ crashes = 0

-----------------------------------------------------------------------------
(* Nodes *)

Ended(r) == pc[r] \in {"done", "failed"}

(* The node has the result of its own logic: _spawn_remote_algorithms.  In *)
(* asynchronous mode, and with nothing to launch, it returns at once.      *)
MainRunEnds(n) ==
    /\ node[n] = "running"
    /\ node' = [node EXCEPT ![n] = IF n \in Detached \/ Forks[n] = <<>>
                                   THEN "finishing" ELSE "spawning"]
    /\ UNCHANGED <<spawned, pc, ids, found, runs, late, crashes>>

(* The logic of the node, or an input of it, raises for good: the run is   *)
(* reported as failed, and nothing is launched.  What a transient error    *)
(* does, after which the process starts over, is the same as a crash.      *)
MainRunFails(n) ==
    /\ node[n] = "running"
    /\ node' = [node EXCEPT ![n] = "failed"]
    /\ UNCHANGED <<spawned, pc, ids, found, runs, late, crashes>>

(* Mutant: of the forks that are due, the first gets no task. *)
SpawnButFirst(n) ==
    /\ node[n] \in {"spawning", "finishing"}
    /\ spawned[n] < Len(Forks[n])
    /\ spawned' = [spawned EXCEPT ![n] = IF n \in Delayed THEN @ + 1 ELSE Len(Forks[n])]
    /\ pc' = [r \in Remotes |->
                 IF \E k \in spawned[n] + 2 .. spawned'[n] : Forks[n][k] = r
                 THEN "preparing" ELSE pc[r]]
    /\ UNCHANGED <<node, ids, found, runs, late, crashes>>

(* _spawn: without delay nothing suspends, and all tasks are created in    *)
(* one step; with a delay, every fork but the first waits for its own.     *)
Spawn(n) ==
    /\ node[n] \in {"spawning", "finishing"}
    /\ spawned[n] < Len(Forks[n])
    /\ spawned' = [spawned EXCEPT ![n] = IF n \in Delayed THEN @ + 1 ELSE Len(Forks[n])]
    /\ pc' = [r \in Remotes |->
                 IF \E k \in spawned[n] + 1 .. spawned'[n] : Forks[n][k] = r
                 THEN "preparing" ELSE pc[r]]
    /\ UNCHANGED <<node, ids, found, runs, late, crashes>>

(* Mutant: asyncio.wait with FIRST_COMPLETED *)
FirstEnded(n) == \E r \in Range(Forks[n]) : Ended(r)

(* Mutant: a failed task is not among those that are done. *)
AllDone(n) == \A r \in Range(Forks[n]) : pc[r] = "done"

AllEnded(n) == \A r \in Range(Forks[n]) : Ended(r)

(* asyncio.wait has returned.  Remote algorithms that failed are logged    *)
(* and left out of the result of the node, which does not fail.            *)
SpawnAllEnds(n) ==
    /\ node[n] = "spawning"
    /\ AllEnded(n)
    /\ node' = [node EXCEPT ![n] = "finishing"]
    /\ UNCHANGED <<spawned, pc, ids, found, runs, late, crashes>>

(* The process ends: tasks that have not ended are cancelled.  A request   *)
(* that a thread has under way is not.                                     *)
Cancelled(n) ==
    [r \in Remotes |->
        IF r \notin Range(Forks[n]) \/ pc[r] \notin Active THEN pc[r]
        ELSE IF pc[r] = "creating" THEN "dying" ELSE "cancelled"]

(* The result is reported and telemetry recorded (NexusRun).  Both suspend, *)
(* so that a detached spawn has had its first step by then, but no more.   *)
Exit(n) ==
    /\ node[n] = "finishing"
    /\ Forks[n] # <<>> => spawned[n] > 0
    /\ node' = [node EXCEPT ![n] = "exited"]
    /\ pc' = Cancelled(n)
    /\ UNCHANGED <<spawned, ids, found, runs, late, crashes>>

Crash(n) ==
    /\ node[n] \in {"running", "spawning", "finishing"}
    /\ crashes < MaxCrashes
    /\ crashes' = crashes + 1
    /\ node' = [node EXCEPT ![n] = "crashed"]
    /\ pc' = Cancelled(n)
    /\ UNCHANGED <<spawned, ids, found, runs, late>>

(* The supervisor starts the process again, some time after it has gone.   *)
Restart(n) ==
    LET own == Range(Forks[n]) IN
    /\ node[n] = "crashed"
    /\ \A r \in own : pc[r] # "dying"
    /\ node' = [node EXCEPT ![n] = "running"]
    /\ spawned' = [spawned EXCEPT ![n] = 0]
    /\ pc' = [r \in Remotes |-> IF r \in own THEN "unspawned" ELSE pc[r]]
    /\ ids' = [r \in Remotes |-> IF r \in own THEN <<>> ELSE ids[r]]
    /\ found' = [r \in Remotes |-> IF r \in own THEN {} ELSE found[r]]
    /\ UNCHANGED <<runs, late, crashes>>

-----------------------------------------------------------------------------
(* Remote algorithms *)

(* Where r goes after its m-th payload *)
Continue(r, m) ==
    IF m = Len(TagOf[r]) THEN "done"
    ELSE IF r \in ForceRun THEN "creating" ELSE "lookup"

Tag(r) == TagOf[r][Len(ids[r]) + 1]

Fail(r) ==
    /\ pc' = [pc EXCEPT ![r] = "failed"]
    /\ UNCHANGED <<node, spawned, ids, found, runs, late, crashes>>

(* run(): the inputs are resolved, _run makes the payloads.  Each of them  *)
(* may raise, and so may compression.                                      *)
Prepare(r) ==
    /\ pc[r] = "preparing"
    /\ pc' = [pc EXCEPT ![r] = Continue(r, 0)]
    /\ UNCHANGED <<node, spawned, ids, found, runs, late, crashes>>

(* No retries for the look-up: get_run_results returns a generator, and    *)
(* the scheduler is only asked when the policy has done with it.           *)
StepFails(r) ==
    /\ pc[r] \in Active
    /\ Fail(r)

(* Mutant: the runs found are those of the node's other payloads as well. *)
AnyRun(tag) == DOMAIN runs

RunsWith(tag) == {id \in DOMAIN runs : runs[id] = tag}

(* Mutant: the look-up has no effect on what follows. *)
LookupIgnored(r) ==
    /\ pc[r] = "lookup"
    /\ found' = [found EXCEPT ![r] = RunsWith(Tag(r))]
    /\ pc' = [pc EXCEPT ![r] = "creating"]
    /\ UNCHANGED <<node, spawned, ids, runs, late, crashes>>

Lookup(r) ==
    /\ pc[r] = "lookup"
    /\ found' = [found EXCEPT ![r] = RunsWith(Tag(r))]
    /\ pc' = [pc EXCEPT ![r] = IF found'[r] = {} THEN "creating" ELSE "metadata"]
    /\ UNCHANGED <<node, spawned, ids, runs, late, crashes>>

Got(r, id) ==
    /\ ids' = [ids EXCEPT ![r] = Append(@, id)]
    /\ pc' = [pc EXCEPT ![r] = Continue(r, Len(ids[r]) + 1)]

(* The metadata of the runs found is read, which no one changes, and the   *)
(* one received last is reused.                                            *)
Reuse(r) ==
    /\ pc[r] = "metadata"
    /\ \E id \in found[r] :
          /\ \A other \in found[r] : other <= id
          /\ Got(r, id)
    /\ UNCHANGED <<node, spawned, found, runs, late, crashes>>

Create(r) ==
    /\ pc[r] = "creating"
    /\ runs' = Append(runs, Tag(r))
    /\ Got(r, Len(runs) + 1)
    /\ UNCHANGED <<node, spawned, found, late, crashes>>

(* The run is created and the answer is lost: the retry policy asks again. *)
CreateLost(r) ==
    /\ r \in LostReplies /\ Len(runs) < MaxRuns
    /\ pc[r] = "creating"
    /\ runs' = Append(runs, Tag(r))
    /\ UNCHANGED <<node, spawned, pc, ids, found, late, crashes>>

(* The request of a task that is gone: it arrived, or not, before the      *)
(* process is started again.                                               *)
Orphaned(r) ==
    /\ pc[r] = "dying"
    /\ pc' = [pc EXCEPT ![r] = "cancelled"]
    /\ runs' \in {runs, Append(runs, Tag(r))}
    /\ UNCHANGED <<node, spawned, ids, found, late, crashes>>

(* The process may start again with the request still on its way. *)
Outlives(r) ==
    /\ pc[r] = "dying" /\ r \in LateRequests
    /\ pc' = [pc EXCEPT ![r] = "cancelled"]
    /\ late' = [late EXCEPT ![Tag(r)] = @ + 1]
    /\ UNCHANGED <<node, spawned, ids, found, runs, crashes>>

LateArrival(tag) ==
    /\ late[tag] > 0
    /\ late' = [late EXCEPT ![tag] = @ - 1]
    /\ runs' \in {runs, Append(runs, tag)}
    /\ UNCHANGED <<node, spawned, pc, ids, found, crashes>>

-----------------------------------------------------------------------------
RemoteStep(r) ==
    \/ Prepare(r) \/ StepFails(r) \/ Lookup(r) \/ Reuse(r) \/ Create(r)
    \/ Orphaned(r) \/ Outlives(r)

NodeStep(n) == MainRunEnds(n) \/ MainRunFails(n) \/ Spawn(n) \/ SpawnAllEnds(n)

Next ==
    \/ \E n \in Nodes : NodeStep(n) \/ Exit(n) \/ Crash(n) \/ Restart(n)
    \/ \E r \in Remotes : RemoteStep(r) \/ CreateLost(r)
    \/ \E tag \in Tags : LateArrival(tag)

(* Tasks that can run do run and calls come back; the process ends.        *)
Fairness ==
    /\ \A n \in Nodes : WF_vars(NodeStep(n)) /\ WF_vars(Exit(n)) /\ WF_vars(Restart(n))
    /\ \A r \in Remotes : WF_vars(RemoteStep(r))

Spec == Init /\ [][Next]_vars /\ Fairness

-----------------------------------------------------------------------------
(* Safety *)

(* Without force_run there are no duplicated runs, unless an answer gets   *)
(* lost or a request outlives its process for longer than it takes to      *)
(* start again: as many times as nodes crash and launch their forks again, *)
(* with requests under way or not, a tag has one run.                      *)
NoDuplicateRuns ==
    \A r \in Remotes \ (ForceRun \cup LostReplies \cup LateRequests) : \A tag \in Range(TagOf[r]) :
        \A i, j \in RunsWith(tag) : i = j

(* A remote algorithm that has ended well has a run for each payload, in   *)
(* their order: the run reused or created carries that payload's tag, even *)
(* if other remote algorithms created runs since the look-up.              *)
PayloadsHaveRuns ==
    \A r \in Remotes : pc[r] = "done" =>
        /\ Len(ids[r]) = Len(TagOf[r])
        /\ \A k \in DOMAIN ids[r] : runs[ids[r][k]] = TagOf[r][k]

(* A node that waits for its forks has, when it exits, scheduled each of   *)
(* them or seen it fail: forks are not lost in silence.                    *)
AllForksScheduled ==
    \A n \in Nodes \ Detached : node[n] = "exited" => \A r \in Range(Forks[n]) : Ended(r)

(* A node that launches or waits has a task for each fork it counts as     *)
(* launched, one that runs or has ended and never one that was cancelled,  *)
(* and none yet for the others: what asyncio.wait gets will end.  No task  *)
(* runs outside of that, neither in a process that is gone nor in one that *)
(* was started again and has not got to its forks.                         *)
TasksOfTheNode ==
    \A n \in Nodes : \A k \in DOMAIN Forks[n] :
        LET there == pc[Forks[n][k]]
            launches == node[n] \in {"spawning", "finishing"}
        IN  /\ launches /\ k <= spawned[n] => there \in Active \cup {"done", "failed"}
            /\ launches /\ k > spawned[n] => there = "unspawned"
            /\ there \in Active => launches

-----------------------------------------------------------------------------
(* Liveness *)

(* Every node ends, with all forks accounted for, whatever fails in them:  *)
(* the failure of one does not keep the node waiting.                      *)
NodesEnd == \A n \in Nodes : <>(node[n] \in {"exited", "failed"})
=============================================================================
