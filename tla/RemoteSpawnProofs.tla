------------------------- MODULE RemoteSpawnProofs -------------------------
(***************************************************************************)
(* Theorems about RemoteSpawn, for every set of nodes and remote           *)
(* algorithms, every assignment of tags and any number of crashes.         *)
(***************************************************************************)
EXTENDS RemoteSpawn, SequenceTheorems, TLAPS

USE SpawnAssumption DEF SpawnAssumption

Own(n) == Range(Forks[n])

(* Where r is between its payloads, and what it has got so far *)
Progress(r) ==
    /\ Len(ids[r]) <= Len(TagOf[r])
    /\ pc[r] \in {"unspawned", "preparing"} => ids[r] = <<>>
    /\ pc[r] \in {"lookup", "metadata", "creating", "dying"} => Len(ids[r]) < Len(TagOf[r])
    /\ pc[r] = "done" => Len(ids[r]) = Len(TagOf[r])

(* The runs got, and those found by the last look-up, carry the tags of    *)
(* their payloads.                                                         *)
Tagged(r) ==
    /\ \A k \in 1 .. Len(ids[r]) : runs[ids[r][k]] = TagOf[r][k]
    /\ pc[r] = "metadata" => \A id \in found[r] : runs[id] = Tag(r)

(* The forks after those spawned wait. *)
Waiting(n) ==
    \A k \in 1 .. Len(Forks[n]) : spawned[n] < k => pc[Forks[n][k]] = "unspawned"

RInv ==
    /\ TypeOK
    /\ \A r \in Remotes : Progress(r) /\ Tagged(r)
    /\ \A n \in Nodes : Waiting(n)

-----------------------------------------------------------------------------
LEMMA ForksAreSequences ==
    \A n \in Nodes : Forks[n] \in Seq(Remotes) /\ Own(n) \subseteq Remotes
BY DEF Own, Range

LEMMA TagsAreSequences == \A r \in Remotes : TagOf[r] \in Seq(Tags) /\ Len(TagOf[r]) \in Nat
OBVIOUS

(* What belongs to a sequence of runs belongs to a longer one.             *)
LEMMA LongerRuns ==
    ASSUME NEW seq \in Seq(Tags), NEW tag \in Tags
    PROVE  /\ Append(seq, tag) \in Seq(Tags)
           /\ Len(Append(seq, tag)) = Len(seq) + 1
           /\ \A k \in 1 .. Len(seq) : Append(seq, tag)[k] = seq[k]
           /\ Append(seq, tag)[Len(seq) + 1] = tag
           /\ 1 .. Len(seq) \subseteq 1 .. Len(Append(seq, tag))
           /\ Seq(1 .. Len(seq)) \subseteq Seq(1 .. Len(Append(seq, tag)))
<1>1. /\ Append(seq, tag) \in Seq(Tags)
      /\ Len(Append(seq, tag)) = Len(seq) + 1
      /\ \A k \in 1 .. Len(seq) : Append(seq, tag)[k] = seq[k]
      /\ Append(seq, tag)[Len(seq) + 1] = tag
  OBVIOUS
<1>2. 1 .. Len(seq) \subseteq 1 .. Len(Append(seq, tag))
  BY <1>1
<1>3. ASSUME NEW s \in Seq(1 .. Len(seq))
      PROVE  s \in Seq(1 .. Len(Append(seq, tag)))
  BY <1>2
<1> QED
  BY <1>1, <1>2, <1>3

LEMMA RInit == Init => RInv
<1> SUFFICES ASSUME Init
             PROVE  RInv
  OBVIOUS
<1>1. TypeOK
  <2>1. \A n \in Nodes : Len(Forks[n]) \in Nat
    BY ForksAreSequences
  <2> QED
    BY <2>1 DEF Init, TypeOK, Active
<1>2. ASSUME NEW r \in Remotes
      PROVE  Progress(r) /\ Tagged(r)
  BY TagsAreSequences DEF Init, Progress, Tagged
<1>3. ASSUME NEW n \in Nodes
      PROVE  Waiting(n)
  BY ForksAreSequences DEF Init, Waiting
<1> QED
  BY <1>1, <1>2, <1>3 DEF RInv

(* A fork is a fork of one node only, and at one place.                    *)
LEMMA OneOwner ==
    /\ \A n \in Nodes : \A k \in 1 .. Len(Forks[n]) :
          Forks[n][k] \in Own(n) /\ Forks[n][k] \in Remotes
    /\ \A m, n \in Nodes : m # n => Own(m) \cap Own(n) = {}
    /\ \A n \in Nodes : \A j, k \in 1 .. Len(Forks[n]) : Forks[n][j] = Forks[n][k] => j = k
<1>1. \A n \in Nodes : Forks[n] \in Seq(Remotes) /\ DOMAIN Forks[n] = 1 .. Len(Forks[n])
  OBVIOUS
<1>2. ASSUME NEW n \in Nodes, NEW k \in 1 .. Len(Forks[n])
      PROVE  Forks[n][k] \in Own(n) /\ Forks[n][k] \in Remotes
  BY <1>1 DEF Own, Range
<1>3. \A m, n \in Nodes : m # n => Own(m) \cap Own(n) = {}
  BY DEF Own
<1>4. \A n \in Nodes : \A j, k \in 1 .. Len(Forks[n]) : Forks[n][j] = Forks[n][k] => j = k
  <2>1. \A n \in Nodes : IsInjective(Forks[n])
    OBVIOUS
  <2> QED
    BY <1>1, <2>1 DEF IsInjective
<1> QED
  BY <1>2, <1>3, <1>4

-----------------------------------------------------------------------------
(* Steps of nodes *)

LEMMA SpawnCounts ==
    ASSUME RInv, NEW n \in Nodes, Spawn(n)
    PROVE  /\ spawned[n] \in Nat /\ spawned'[n] \in Nat
           /\ spawned[n] < spawned'[n] /\ spawned'[n] <= Len(Forks[n])
<1>1. Len(Forks[n]) \in Nat
  BY ForksAreSequences
<1>2. spawned \in [Nodes -> Nat] /\ spawned[n] < Len(Forks[n])
      /\ spawned' = [spawned EXCEPT ![n] = IF n \in Delayed THEN @ + 1 ELSE Len(Forks[n])]
  BY DEF RInv, TypeOK, Spawn
<1>3. spawned[n] \in Nat /\ spawned'[n] = IF n \in Delayed THEN spawned[n] + 1 ELSE Len(Forks[n])
  BY <1>2
<1> QED
  BY <1>1, <1>2, <1>3

(* The places that Spawn passes over are places of the forks.              *)
LEMMA PlacesOfForks ==
    ASSUME NEW n \in Nodes, NEW from \in Nat, NEW to \in Nat, to <= Len(Forks[n]),
           NEW k \in from + 1 .. to
    PROVE  k \in 1 .. Len(Forks[n]) /\ from < k
<1>1. Len(Forks[n]) \in Nat
  BY ForksAreSequences
<1> QED
  BY <1>1

LEMMA SpawnKeeps == ASSUME RInv, NEW n \in Nodes, Spawn(n) PROVE RInv'
<1> USE DEF RInv, Spawn
<1>1. spawned[n] \in Nat /\ spawned'[n] \in Nat
      /\ spawned[n] < spawned'[n] /\ spawned'[n] <= Len(Forks[n])
      /\ \A m \in Nodes : m # n => spawned'[m] = spawned[m]
  BY SpawnCounts DEF TypeOK
<1>2. \A k \in 1 .. Len(Forks[n]) : spawned[n] < k => pc[Forks[n][k]] = "unspawned"
  BY DEF Waiting
<1>3. ASSUME NEW r \in Remotes
      PROVE  pc'[r] = pc[r] \/ (pc[r] = "unspawned" /\ pc'[r] = "preparing")
  <2>1. CASE \E k \in spawned[n] + 1 .. spawned'[n] : Forks[n][k] = r
    <3>1. PICK k \in spawned[n] + 1 .. spawned'[n] : Forks[n][k] = r
      BY <2>1
    <3>2. k \in 1 .. Len(Forks[n]) /\ spawned[n] < k
      BY <1>1, PlacesOfForks
    <3> QED
      BY <1>2, <2>1, <3>1, <3>2
  <2>2. CASE ~ \E k \in spawned[n] + 1 .. spawned'[n] : Forks[n][k] = r
    BY <2>2
  <2> QED
    BY <2>1, <2>2
<1>4. TypeOK'
  BY <1>1, <1>3 DEF TypeOK, Active
<1>5. ASSUME NEW r \in Remotes
      PROVE  Progress(r)' /\ Tagged(r)'
  BY <1>3, <1>5 DEF Progress, Tagged, Tag
<1>6. ASSUME NEW m \in Nodes
      PROVE  Waiting(m)'
  <2>1. ASSUME NEW k \in 1 .. Len(Forks[m]), spawned'[m] < k
        PROVE  pc'[Forks[m][k]] = "unspawned"
    <3>1. spawned[m] < k /\ pc[Forks[m][k]] = "unspawned"
      <4>1. spawned[m] \in Nat /\ k \in Nat
        BY ForksAreSequences DEF TypeOK
      <4>2. spawned[m] < k
        <5>1. CASE m = n
          BY <1>1, <2>1, <4>1, <5>1
        <5>2. CASE m # n
          BY <1>1, <2>1, <5>2
        <5> QED
          BY <5>1, <5>2
      <4> QED
        BY <4>2 DEF Waiting
    <3>2. ASSUME NEW j \in spawned[n] + 1 .. spawned'[n], Forks[n][j] = Forks[m][k]
          PROVE  FALSE
      <4>1. j \in 1 .. Len(Forks[n])
        BY <1>1, ForksAreSequences
      <4>2. Forks[m][k] \in Own(m) /\ Forks[m][k] \in Own(n)
        <5>1. Forks[n][j] \in Own(n)
          BY <4>1, OneOwner
        <5>2. Forks[m][k] \in Own(m)
          BY <2>1, OneOwner
        <5> QED
          BY <3>2, <5>1, <5>2
      <4>3. m = n
        BY <4>2, OneOwner
      <4>4. j = k
        BY <2>1, <3>2, <4>1, <4>3, OneOwner
      <4> QED
        BY <1>1, <2>1, <4>3, <4>4
    <3> QED
      BY <3>1, <3>2, OneOwner
  <2> QED
    BY <2>1 DEF Waiting
<1> QED
  BY <1>4, <1>5, <1>6

LEMMA CancelledKeeps ==
    ASSUME RInv, NEW n \in Nodes, pc' = Cancelled(n),
           node' \in [Nodes -> {"running", "spawning", "finishing", "exited", "failed", "crashed"}],
           crashes' \in 0 .. MaxCrashes, UNCHANGED <<spawned, ids, found, runs, late>>
    PROVE  RInv'
<1> USE DEF RInv, Cancelled, Active
<1>1. \A r \in Remotes :
          \/ pc'[r] = pc[r]
          \/ pc[r] = "creating" /\ pc'[r] = "dying"
          \/ pc[r] \in Active /\ pc'[r] = "cancelled"
  OBVIOUS
<1>2. TypeOK'
  BY <1>1 DEF TypeOK
<1>3. ASSUME NEW r \in Remotes
      PROVE  Progress(r)' /\ Tagged(r)'
  BY <1>1, <1>3 DEF Progress, Tagged, Tag
<1>4. ASSUME NEW m \in Nodes
      PROVE  Waiting(m)'
  BY <1>1, OneOwner DEF Waiting
<1> QED
  BY <1>2, <1>3, <1>4

LEMMA RestartKeeps == ASSUME RInv, NEW n \in Nodes, Restart(n) PROVE RInv'
<1> USE DEF RInv, Restart
<1>1. \A r \in Remotes :
          \/ r \in Own(n) /\ pc'[r] = "unspawned" /\ ids'[r] = <<>> /\ found'[r] = {}
          \/ r \notin Own(n) /\ pc'[r] = pc[r] /\ ids'[r] = ids[r] /\ found'[r] = found[r]
  BY DEF Own
<1>2. TypeOK'
  <2>1. <<>> \in Seq(1 .. Len(runs))
    OBVIOUS
  <2>2. ids' \in [Remotes -> Seq(1 .. Len(runs))]
    BY <2>1, <1>1 DEF TypeOK
  <2>3. \A m \in Nodes : spawned'[m] \in Nat /\ spawned'[m] <= Len(Forks[m])
    BY ForksAreSequences DEF TypeOK
  <2> QED
    BY <2>2, <2>3, <1>1 DEF TypeOK, Active
<1>3. ASSUME NEW r \in Remotes
      PROVE  Progress(r)' /\ Tagged(r)'
  BY <1>1, <1>3, TagsAreSequences DEF Progress, Tagged, Tag
<1>4. ASSUME NEW m \in Nodes
      PROVE  Waiting(m)'
  <2>1. CASE m = n
    BY <1>1, <2>1, OneOwner DEF Waiting
  <2>2. CASE m # n
    <3>1. spawned'[m] = spawned[m]
      BY <2>2 DEF TypeOK
    <3>2. \A k \in 1 .. Len(Forks[m]) : pc'[Forks[m][k]] = pc[Forks[m][k]]
      BY <1>1, <2>2, OneOwner
    <3> QED
      BY <3>1, <3>2 DEF Waiting
  <2> QED
    BY <2>1, <2>2
<1> QED
  BY <1>2, <1>3, <1>4

LEMMA NodeKeeps ==
    ASSUME RInv, NEW n \in Nodes, NodeStep(n) \/ Exit(n) \/ Crash(n) \/ Restart(n)
    PROVE  RInv'
<1>1. CASE MainRunEnds(n) \/ MainRunFails(n) \/ SpawnAllEnds(n)
  <2>1. UNCHANGED <<spawned, pc, ids, found, runs, late, crashes>>
    BY <1>1 DEF MainRunEnds, MainRunFails, SpawnAllEnds
  <2>2. node' \in [Nodes -> {"running", "spawning", "finishing", "exited", "failed", "crashed"}]
    BY <1>1 DEF RInv, TypeOK, MainRunEnds, MainRunFails, SpawnAllEnds
  <2>3. TypeOK'
    BY <2>1, <2>2 DEF RInv, TypeOK
  <2>4. ASSUME NEW r \in Remotes
        PROVE  Progress(r)' /\ Tagged(r)'
    BY <2>1 DEF RInv, Progress, Tagged, Tag
  <2>5. ASSUME NEW m \in Nodes
        PROVE  Waiting(m)'
    BY <2>1 DEF RInv, Waiting
  <2> QED
    BY <2>3, <2>4, <2>5 DEF RInv
<1>2. CASE Exit(n)
  BY <1>2, CancelledKeeps DEF Exit, RInv, TypeOK
<1>3. CASE Crash(n)
  BY <1>3, CancelledKeeps DEF Crash, RInv, TypeOK
<1> QED
  BY <1>1, <1>2, <1>3, SpawnKeeps, RestartKeeps DEF NodeStep

-----------------------------------------------------------------------------
(* Steps of remote algorithms *)

(* The scheduler has got one more run, or none. *)
Grown == runs' = runs \/ \E tag \in Tags : runs' = Append(runs, tag)

LEMMA GrownRuns ==
    ASSUME RInv, Grown
    PROVE  /\ runs' \in Seq(Tags) /\ Len(runs) \in Nat /\ Len(runs') \in Nat
           /\ 1 .. Len(runs) \subseteq 1 .. Len(runs')
           /\ Seq(1 .. Len(runs)) \subseteq Seq(1 .. Len(runs'))
           /\ \A k \in 1 .. Len(runs) : runs'[k] = runs[k]
<1>1. runs \in Seq(Tags)
  BY DEF RInv, TypeOK
<1>2. CASE runs' = runs
  BY <1>1, <1>2
<1>3. CASE \E tag \in Tags : runs' = Append(runs, tag)
  <2>1. PICK tag \in Tags : runs' = Append(runs, tag)
    BY <1>3
  <2>2. Len(runs) \in Nat /\ Len(runs) + 1 \in Nat
    BY <1>1
  <2> QED
    BY <1>1, <2>1, <2>2, LongerRuns
<1> QED
  BY <1>2, <1>3 DEF Grown

LEMMA TagType ==
    ASSUME RInv, NEW r \in Remotes, Len(ids[r]) < Len(TagOf[r])
    PROVE  Tag(r) \in Tags
<1>1. Len(ids[r]) \in Nat
  BY DEF RInv, TypeOK
<1> QED
  BY <1>1, TagsAreSequences DEF Tag

(* Other remote algorithms *)
LEMMA OthersKeep ==
    ASSUME RInv, Grown, NEW s \in Remotes,
           pc'[s] = pc[s], ids'[s] = ids[s], found'[s] = found[s]
    PROVE  Progress(s)' /\ Tagged(s)'
<1>1. ids[s] \in Seq(1 .. Len(runs)) /\ found[s] \subseteq 1 .. Len(runs)
  BY DEF RInv, TypeOK
<1>2. \A k \in 1 .. Len(ids[s]) : ids[s][k] \in 1 .. Len(runs)
  BY <1>1
<1>3. Progress(s) /\ Tagged(s)
  BY DEF RInv
<1>4. Progress(s)'
  BY <1>3 DEF Progress
<1>5. Tagged(s)'
  <2>1. \A k \in 1 .. Len(runs) : runs'[k] = runs[k]
    BY GrownRuns
  <2>2. \A k \in 1 .. Len(ids[s]) : runs'[ids[s][k]] = TagOf[s][k]
    BY <1>2, <1>3, <2>1 DEF Tagged
  <2>3. pc[s] = "metadata" => \A id \in found[s] : runs'[id] = Tag(s)
    BY <1>1, <1>3, <2>1 DEF Tagged
  <2> QED
    BY <2>2, <2>3 DEF Tagged, Tag
<1> QED
  BY <1>4, <1>5

(* A remote algorithm that has a task is not among those that wait. *)
LEMMA WaitingKeeps ==
    ASSUME RInv, NEW r \in Remotes, pc[r] # "unspawned", UNCHANGED spawned,
           \A s \in Remotes : s # r => pc'[s] = pc[s],
           NEW n \in Nodes
    PROVE  Waiting(n)'
<1>1. Waiting(n)
  BY DEF RInv
<1> QED
  BY <1>1, OneOwner DEF Waiting

LEMMA GotKeeps ==
    ASSUME RInv, Grown, NEW r \in Remotes, NEW id \in 1 .. Len(runs'),
           Len(ids[r]) < Len(TagOf[r]), runs'[id] = Tag(r), Got(r, id)
    PROVE  /\ ids' \in [Remotes -> Seq(1 .. Len(runs'))]
           /\ Progress(r)' /\ Tagged(r)'
<1>1. ids[r] \in Seq(1 .. Len(runs)) /\ ids \in [Remotes -> Seq(1 .. Len(runs'))]
  BY GrownRuns DEF RInv, TypeOK
<1>2. ids[r] \in Seq(1 .. Len(runs')) /\ Len(ids[r]) \in Nat
  BY <1>1
<1>3. ids'[r] = Append(ids[r], id) /\ ids' \in [Remotes -> Seq(1 .. Len(runs'))]
  BY <1>1, <1>2 DEF Got
<1>4. Len(ids'[r]) = Len(ids[r]) + 1 /\ ids'[r][Len(ids[r]) + 1] = id
      /\ \A k \in 1 .. Len(ids[r]) : ids'[r][k] = ids[r][k]
  BY <1>2, <1>3
<1>5. pc'[r] = Continue(r, Len(ids[r]) + 1)
  BY DEF Got, RInv, TypeOK
<1>6. Progress(r)'
  BY <1>2, <1>4, <1>5, TagsAreSequences DEF Progress, Continue
<1>7. \A k \in 1 .. Len(ids'[r]) : runs'[ids'[r][k]] = TagOf[r][k]
  <2>1. ASSUME NEW k \in 1 .. Len(ids[r])
        PROVE  runs'[ids'[r][k]] = TagOf[r][k]
    <3>1. ids[r][k] \in 1 .. Len(runs)
      BY <1>1
    <3> QED
      BY <1>4, <3>1, GrownRuns DEF RInv, Tagged
  <2>2. runs'[ids'[r][Len(ids[r]) + 1]] = TagOf[r][Len(ids[r]) + 1]
    BY <1>4 DEF Tag
  <2>3. \A k \in 1 .. Len(ids'[r]) : k \in 1 .. Len(ids[r]) \/ k = Len(ids[r]) + 1
    BY <1>2, <1>4
  <2> QED
    BY <2>1, <2>2, <2>3
<1>8. pc'[r] # "metadata"
  BY <1>5 DEF Continue
<1> QED
  BY <1>3, <1>6, <1>7, <1>8 DEF Tagged

LEMMA ContinueType ==
    \A r \in Remotes, m \in Nat : Continue(r, m) \in {"done", "creating", "lookup"}
BY DEF Continue

(* The state of a remote algorithm that steps without a new id, and that   *)
(* of the scheduler, are as they must be.                                  *)
LEMMA QuietKeeps ==
    ASSUME RInv, Grown, NEW r \in Remotes, pc[r] # "unspawned",
           NEW there \in {"done", "creating", "lookup", "metadata", "failed", "cancelled"},
           pc' = [pc EXCEPT ![r] = there],
           there \in {"creating", "lookup", "metadata"} => Len(ids[r]) < Len(TagOf[r]),
           there = "done" => Len(ids[r]) = Len(TagOf[r]),
           found' \in [Remotes -> SUBSET (1 .. Len(runs'))],
           \A s \in Remotes : s # r => found'[s] = found[s],
           there = "metadata" => \A id \in found'[r] : runs'[id] = Tag(r),
           late' \in [Tags -> Nat],
           UNCHANGED <<node, spawned, ids, crashes>>
    PROVE  RInv'
<1>1. TypeOK'
  <2>1. ids' \in [Remotes -> Seq(1 .. Len(runs'))]
    BY GrownRuns DEF RInv, TypeOK
  <2> QED
    BY <2>1, GrownRuns DEF RInv, TypeOK, Active
<1>2. \A s \in Remotes : s # r => pc'[s] = pc[s]
  BY DEF RInv, TypeOK
<1>3. pc'[r] = there
  BY DEF RInv, TypeOK
<1>4. ASSUME NEW s \in Remotes
      PROVE  Progress(s)' /\ Tagged(s)'
  <2>1. CASE s # r
    BY <1>2, <2>1, OthersKeep
  <2>2. CASE s = r
    <3>1. Progress(r)'
      <4>1. Progress(r) /\ ids' = ids
        BY DEF RInv
      <4> QED
        BY <1>3, <4>1 DEF Progress
    <3>2. \A k \in 1 .. Len(ids[r]) : ids[r][k] \in 1 .. Len(runs)
      <4>1. ids[r] \in Seq(1 .. Len(runs))
        BY DEF RInv, TypeOK
      <4> QED
        BY <4>1
    <3>3. \A k \in 1 .. Len(ids[r]) : runs'[ids[r][k]] = TagOf[r][k]
      BY <3>2, GrownRuns DEF RInv, Tagged
    <3>4. Tagged(r)'
      BY <1>3, <3>3 DEF Tagged, Tag
    <3> QED
      BY <2>2, <3>1, <3>4
  <2> QED
    BY <2>1, <2>2
<1>5. ASSUME NEW n \in Nodes
      PROVE  Waiting(n)'
  BY <1>2, WaitingKeeps
<1> QED
  BY <1>1, <1>4, <1>5 DEF RInv

LEMMA LoudKeeps ==
    ASSUME RInv, Grown, NEW r \in Remotes, pc[r] \in {"metadata", "creating"},
           NEW id \in 1 .. Len(runs'), runs'[id] = Tag(r), Got(r, id),
           UNCHANGED <<node, spawned, found, late, crashes>>
    PROVE  RInv'
<1>1. Len(ids[r]) < Len(TagOf[r])
  BY DEF RInv, Progress
<1>2. Len(ids[r]) + 1 \in Nat
  BY DEF RInv, TypeOK
<1>3. pc' \in [Remotes -> Active \cup {"unspawned", "done", "failed", "dying", "cancelled"}]
  BY <1>2, ContinueType DEF RInv, TypeOK, Got, Active
<1>4. TypeOK'
  <2>1. ids' \in [Remotes -> Seq(1 .. Len(runs'))]
    BY <1>1, GotKeeps
  <2> QED
    BY <1>3, <2>1, GrownRuns DEF RInv, TypeOK
<1>5. ASSUME NEW s \in Remotes
      PROVE  Progress(s)' /\ Tagged(s)'
  <2>1. CASE s # r
    <3>1. pc'[s] = pc[s] /\ ids'[s] = ids[s] /\ found'[s] = found[s]
      BY <2>1 DEF Got, RInv, TypeOK
    <3> QED
      BY <3>1, OthersKeep
  <2>2. CASE s = r
    BY <1>1, <2>2, GotKeeps
  <2> QED
    BY <2>1, <2>2
<1>6. ASSUME NEW n \in Nodes
      PROVE  Waiting(n)'
  <2>1. \A s \in Remotes : s # r => pc'[s] = pc[s]
    BY DEF Got, RInv, TypeOK
  <2> QED
    BY <2>1, WaitingKeeps
<1> QED
  BY <1>4, <1>5, <1>6 DEF RInv

LEMMA RemoteKeeps ==
    ASSUME RInv, NEW r \in Remotes, RemoteStep(r) \/ CreateLost(r)
    PROVE  RInv'
<1> USE DEF Grown
<1>0. UNCHANGED late => late' \in [Tags -> Nat]
  BY DEF RInv, TypeOK
<1>1. CASE Prepare(r)
  <2>1. Len(ids[r]) = 0
    BY <1>1 DEF Prepare, RInv, Progress
  <2>2. Continue(r, 0) \in {"creating", "lookup"} => Len(ids[r]) < Len(TagOf[r])
    BY <2>1, TagsAreSequences DEF Continue
  <2>3. Continue(r, 0) = "done" => Len(ids[r]) = Len(TagOf[r])
    BY <2>1, TagsAreSequences DEF Continue
  <2>4. Continue(r, 0) \in {"done", "creating", "lookup"}
    BY ContinueType
  <2>5. pc' = [pc EXCEPT ![r] = Continue(r, 0)] /\ pc[r] = "preparing"
        /\ UNCHANGED <<node, spawned, ids, found, runs, late, crashes>>
    BY <1>1 DEF Prepare
  <2>6. found' \in [Remotes -> SUBSET (1 .. Len(runs'))]
    BY <2>5 DEF RInv, TypeOK
  <2> QED
    BY <1>0, <2>2, <2>3, <2>4, <2>5, <2>6, QuietKeeps
<1>2. CASE StepFails(r)
  <2>1. pc' = [pc EXCEPT ![r] = "failed"] /\ pc[r] # "unspawned"
        /\ UNCHANGED <<node, spawned, ids, found, runs, late, crashes>>
    BY <1>2 DEF StepFails, Fail, Active
  <2>2. found' \in [Remotes -> SUBSET (1 .. Len(runs'))]
    BY <2>1 DEF RInv, TypeOK
  <2> QED
    BY <1>0, <2>1, <2>2, QuietKeeps
<1>3. CASE Lookup(r)
  <2> DEFINE there == IF found'[r] = {} THEN "creating" ELSE "metadata"
  <2>1. pc' = [pc EXCEPT ![r] = there] /\ pc[r] = "lookup"
        /\ found' = [found EXCEPT ![r] = RunsWith(Tag(r))]
        /\ UNCHANGED <<node, spawned, ids, runs, late, crashes>>
    BY <1>3 DEF Lookup
  <2>2. Len(ids[r]) < Len(TagOf[r])
    BY <2>1 DEF RInv, Progress
  <2>3. RunsWith(Tag(r)) \subseteq 1 .. Len(runs) /\ \A id \in RunsWith(Tag(r)) : runs[id] = Tag(r)
    BY DEF RunsWith, RInv, TypeOK
  <2>4. /\ found' \in [Remotes -> SUBSET (1 .. Len(runs'))]
        /\ \A s \in Remotes : s # r => found'[s] = found[s]
        /\ \A id \in found'[r] : runs'[id] = Tag(r)
    BY <2>1, <2>3 DEF RInv, TypeOK
  <2>5. there \in {"creating", "metadata"}
    OBVIOUS
  <2> HIDE DEF there
  <2> QED
    BY <1>0, <2>1, <2>2, <2>4, <2>5, QuietKeeps
<1>4. CASE Reuse(r)
  <2>1. PICK id \in found[r] : Got(r, id)
    BY <1>4 DEF Reuse
  <2>2. pc[r] = "metadata" /\ UNCHANGED <<node, spawned, found, runs, late, crashes>>
    BY <1>4 DEF Reuse
  <2>3. id \in 1 .. Len(runs') /\ runs'[id] = Tag(r)
    BY <2>1, <2>2 DEF RInv, TypeOK, Tagged
  <2> QED
    BY <2>1, <2>2, <2>3, LoudKeeps
<1>5. CASE Create(r)
  <2>1. pc[r] = "creating" /\ runs' = Append(runs, Tag(r)) /\ Got(r, Len(runs) + 1)
        /\ UNCHANGED <<node, spawned, found, late, crashes>>
    BY <1>5 DEF Create
  <2>2. Tag(r) \in Tags /\ runs \in Seq(Tags)
    BY <2>1, TagType DEF RInv, TypeOK, Progress
  <2>3. Len(runs) + 1 \in 1 .. Len(runs') /\ runs'[Len(runs) + 1] = Tag(r)
    BY <2>1, <2>2, LongerRuns
  <2> QED
    BY <2>1, <2>2, <2>3, LoudKeeps
<1>6. CASE CreateLost(r)
  <2>1. pc[r] = "creating" /\ runs' = Append(runs, Tag(r))
        /\ UNCHANGED <<node, spawned, pc, ids, found, late, crashes>>
    BY <1>6 DEF CreateLost
  <2>2. Tag(r) \in Tags /\ Len(ids[r]) < Len(TagOf[r])
    BY <2>1, TagType DEF RInv, Progress
  <2>3. Grown
    BY <2>1, <2>2
  <2>4. found' \in [Remotes -> SUBSET (1 .. Len(runs'))]
    BY <2>1, <2>3, GrownRuns DEF RInv, TypeOK
  <2>5. pc' = [pc EXCEPT ![r] = "creating"]
    BY <2>1 DEF RInv, TypeOK
  <2> QED
    BY <1>0, <2>1, <2>2, <2>3, <2>4, <2>5, QuietKeeps
<1>7. CASE Orphaned(r)
  <2>1. pc[r] = "dying" /\ pc' = [pc EXCEPT ![r] = "cancelled"]
        /\ runs' \in {runs, Append(runs, Tag(r))}
        /\ UNCHANGED <<node, spawned, ids, found, late, crashes>>
    BY <1>7 DEF Orphaned
  <2>2. Tag(r) \in Tags
    BY <2>1, TagType DEF RInv, Progress
  <2>3. Grown
    BY <2>1, <2>2
  <2>4. found' \in [Remotes -> SUBSET (1 .. Len(runs'))]
    BY <2>1, <2>3, GrownRuns DEF RInv, TypeOK
  <2> QED
    BY <1>0, <2>1, <2>3, <2>4, QuietKeeps
<1>8. CASE Outlives(r)
  <2>1. pc[r] = "dying" /\ pc' = [pc EXCEPT ![r] = "cancelled"]
        /\ late' = [late EXCEPT ![Tag(r)] = @ + 1]
        /\ UNCHANGED <<node, spawned, ids, found, runs, crashes>>
    BY <1>8 DEF Outlives
  <2>2. late' \in [Tags -> Nat]
    <3>1. Tag(r) \in Tags
      BY <2>1, TagType DEF RInv, Progress
    <3> QED
      BY <2>1, <3>1 DEF RInv, TypeOK
  <2>3. found' \in [Remotes -> SUBSET (1 .. Len(runs'))]
    BY <2>1 DEF RInv, TypeOK
  <2> QED
    BY <2>1, <2>2, <2>3, QuietKeeps
<1> QED
  BY <1>1, <1>2, <1>3, <1>4, <1>5, <1>6, <1>7, <1>8 DEF RemoteStep

(* A request that no one waits for *)
LEMMA LateKeeps ==
    ASSUME RInv, NEW tag \in Tags, LateArrival(tag)
    PROVE  RInv'
<1>1. Grown /\ UNCHANGED <<node, spawned, pc, ids, found, crashes>>
  BY DEF LateArrival, Grown
<1>2. late' \in [Tags -> Nat]
  BY DEF LateArrival, RInv, TypeOK
<1>3. TypeOK'
  <2>1. /\ ids' \in [Remotes -> Seq(1 .. Len(runs'))]
        /\ found' \in [Remotes -> SUBSET (1 .. Len(runs'))]
        /\ runs' \in Seq(Tags)
    BY <1>1, GrownRuns DEF RInv, TypeOK
  <2> QED
    BY <1>1, <1>2, <2>1 DEF RInv, TypeOK
<1>4. ASSUME NEW r \in Remotes
      PROVE  Progress(r)' /\ Tagged(r)'
  BY <1>1, OthersKeep
<1>5. ASSUME NEW n \in Nodes
      PROVE  Waiting(n)'
  BY <1>1 DEF RInv, Waiting
<1> QED
  BY <1>3, <1>4, <1>5 DEF RInv


LEMMA RStep == RInv /\ [Next]_vars => RInv'
<1> SUFFICES ASSUME RInv, [Next]_vars
             PROVE  RInv'
  OBVIOUS
<1>1. CASE UNCHANGED vars
  <2> USE <1>1 DEF vars
  <2>1. TypeOK'
    BY DEF RInv, TypeOK
  <2>2. \A r \in Remotes : Progress(r)' /\ Tagged(r)'
    BY DEF RInv, Progress, Tagged, Tag
  <2>3. \A n \in Nodes : Waiting(n)'
    BY DEF RInv, Waiting
  <2> QED
    BY <2>1, <2>2, <2>3 DEF RInv
<1> QED
  BY <1>1, NodeKeeps, RemoteKeeps, LateKeeps DEF Next

LEMMA RInvariant == Spec => []RInv
BY RInit, RStep, PTL DEF Spec

-----------------------------------------------------------------------------
(* The state keeps its types: in particular, all request ids are those of  *)
(* runs the scheduler has.                                                 *)
THEOREM TypeCorrect == Spec => []TypeOK
<1>1. RInv => TypeOK
  BY DEF RInv
<1> QED
  BY <1>1, RInvariant, PTL

(* A remote algorithm that has ended well has a run with the tag of each   *)
(* payload, whatever other nodes do, and whatever crashes or gets lost.    *)
THEOREM PayloadsGetTheirRuns == Spec => []PayloadsHaveRuns
<1>1. ASSUME RInv, NEW r \in Remotes, pc[r] = "done"
      PROVE  /\ Len(ids[r]) = Len(TagOf[r])
             /\ \A k \in DOMAIN ids[r] : runs[ids[r][k]] = TagOf[r][k]
  <2>1. DOMAIN ids[r] = 1 .. Len(ids[r])
    BY <1>1 DEF RInv, TypeOK
  <2> QED
    BY <1>1, <2>1 DEF RInv, Progress, Tagged
<1>2. RInv => PayloadsHaveRuns
  BY <1>1 DEF PayloadsHaveRuns
<1> QED
  BY <1>2, RInvariant, PTL

-----------------------------------------------------------------------------
(* Forks that have ended *)

LEMMA SpawnedAreNew ==
    ASSUME RInv, NEW n \in Nodes, Spawn(n), NEW r \in Remotes
    PROVE  pc'[r] = pc[r] \/ pc[r] = "unspawned"
<1>1. CASE \E k \in spawned[n] + 1 .. spawned'[n] : Forks[n][k] = r
  <2>1. PICK k \in spawned[n] + 1 .. spawned'[n] : Forks[n][k] = r
    BY <1>1
  <2>2. spawned[n] \in Nat /\ spawned'[n] \in Nat /\ spawned'[n] <= Len(Forks[n])
    BY SpawnCounts
  <2>3. k \in 1 .. Len(Forks[n]) /\ spawned[n] < k
    BY <2>2, PlacesOfForks
  <2> QED
    BY <2>1, <2>3 DEF RInv, Waiting
<1>2. CASE ~ \E k \in spawned[n] + 1 .. spawned'[n] : Forks[n][k] = r
  BY <1>2 DEF Spawn
<1> QED
  BY <1>1, <1>2

(* A remote algorithm that has ended stays so until its node restarts.     *)
LEMMA EndedStays ==
    ASSUME RInv, [Next]_vars, NEW r \in Remotes, Ended(r),
           ~ \E n \in Nodes : Restart(n) /\ r \in Own(n)
    PROVE  Ended(r)'
<1> USE DEF Ended
<1>1. ASSUME NEW n \in Nodes, NodeStep(n) \/ Exit(n) \/ Crash(n) \/ Restart(n)
      PROVE  pc'[r] = pc[r]
  <2>1. CASE MainRunEnds(n) \/ MainRunFails(n) \/ SpawnAllEnds(n)
    BY <2>1 DEF MainRunEnds, MainRunFails, SpawnAllEnds
  <2>2. CASE Spawn(n)
    BY <2>2, SpawnedAreNew
  <2>3. CASE Exit(n) \/ Crash(n)
    BY <2>3 DEF Exit, Crash, Cancelled, Active
  <2>4. CASE Restart(n)
    BY <2>4 DEF Restart, Own
  <2> QED
    BY <1>1, <2>1, <2>2, <2>3, <2>4 DEF NodeStep
<1>2. ASSUME NEW s \in Remotes, RemoteStep(s) \/ CreateLost(s)
      PROVE  pc'[r] = pc[r]
  <2>1. CASE s = r
    BY <1>2, <2>1
       DEF RemoteStep, CreateLost, Prepare, StepFails, Active, Lookup, Reuse, Create,
             Orphaned, Outlives
  <2>2. CASE s # r
    BY <1>2, <2>2
       DEF RemoteStep, CreateLost, Prepare, StepFails, Fail, Lookup, Reuse, Create,
             Orphaned, Outlives,
           Got, RInv, TypeOK
  <2> QED
    BY <2>1, <2>2
<1>3. CASE UNCHANGED vars
  BY <1>3 DEF vars
<1>4. CASE \E tag \in Tags : LateArrival(tag)
  BY <1>4 DEF LateArrival
<1> QED
  BY <1>1, <1>2, <1>3, <1>4 DEF Next

(* A node that waited for its forks has seen them end. *)
SInv ==
    \A n \in Nodes \ Detached :
        node[n] \in {"finishing", "exited"} => \A r \in Own(n) : Ended(r)

LEMMA SStep == RInv /\ SInv /\ [Next]_vars => SInv'
<1> SUFFICES ASSUME RInv, SInv, [Next]_vars,
                    NEW n \in Nodes \ Detached, node'[n] \in {"finishing", "exited"},
                    NEW r \in Own(n)
             PROVE  Ended(r)'
  BY DEF SInv
<1>1. r \in Remotes
  BY ForksAreSequences
<1>2. \A m \in Nodes : Restart(m) /\ r \in Own(m) => node'[n] = "running"
  BY OneOwner DEF Restart, RInv, TypeOK
<1>3. CASE node[n] \in {"finishing", "exited"}
  BY <1>1, <1>2, <1>3, EndedStays DEF SInv
<1>4. CASE node[n] \notin {"finishing", "exited"}
  <2>1. \A s \in Remotes : RemoteStep(s) \/ CreateLost(s) => node' = node
    BY DEF RemoteStep, CreateLost, Prepare, StepFails, Fail, Lookup, Reuse, Create,
             Orphaned, Outlives
  <2>2. UNCHANGED vars \/ (\E tag \in Tags : LateArrival(tag)) => node' = node
    BY DEF vars, LateArrival
  <2>3. \E m \in Nodes : NodeStep(m) \/ Exit(m) \/ Crash(m) \/ Restart(m)
    BY <1>4, <2>1, <2>2 DEF Next
  <2>4. \A m \in Nodes : Spawn(m) => node' = node
    BY DEF Spawn
  <2>5. \A m \in Nodes : Exit(m) => node[m] = "finishing" /\ \A k \in Nodes \ {m} : node'[k] = node[k]
    BY DEF Exit, RInv, TypeOK
  <2>6. \A m \in Nodes : Crash(m) \/ Restart(m) =>
            node'[m] \in {"crashed", "running"} /\ \A k \in Nodes \ {m} : node'[k] = node[k]
    BY DEF Crash, Restart, RInv, TypeOK
  <2>7. \A m \in Nodes : MainRunEnds(m) \/ MainRunFails(m) \/ SpawnAllEnds(m) =>
            /\ \A k \in Nodes \ {m} : node'[k] = node[k]
            /\ MainRunFails(m) => node'[m] = "failed"
    BY DEF MainRunEnds, MainRunFails, SpawnAllEnds, RInv, TypeOK
  <2>8. MainRunEnds(n) \/ SpawnAllEnds(n)
    BY <1>4, <2>3, <2>4, <2>5, <2>6, <2>7 DEF NodeStep
  <2>9. CASE MainRunEnds(n)
    <3>1. Forks[n] = <<>>
      BY <2>9 DEF MainRunEnds, RInv, TypeOK
    <3> QED
      BY <3>1 DEF Own, Range
  <2>10. CASE SpawnAllEnds(n)
    BY <2>10 DEF SpawnAllEnds, AllEnded, Own, Ended
  <2> QED
    BY <2>8, <2>9, <2>10
<1> QED
  BY <1>3, <1>4

(* Nodes that wait for their forks lose none of them in silence.           *)
THEOREM WaitingNodesLoseNoFork == Spec => []AllForksScheduled
<1>1. Init => RInv /\ SInv
  BY RInit DEF Init, SInv
<1>2. RInv /\ SInv /\ [Next]_vars => (RInv /\ SInv)'
  BY RStep, SStep
<1>3. SInv => AllForksScheduled
  BY DEF SInv, AllForksScheduled, Own
<1> QED
  BY <1>1, <1>2, <1>3, PTL DEF Spec

-----------------------------------------------------------------------------
(* The tasks of a node *)

(* A node that has not launched anything yet counts nothing as launched. *)
StartsOver == \A n \in Nodes : node[n] = "running" => spawned[n] = 0

Launches(n) == node[n] \in {"spawning", "finishing"}

(* TasksOfTheNode, for one fork *)
TaskFits(n, k) ==
    /\ Launches(n) /\ k <= spawned[n] => pc[Forks[n][k]] \in Active \cup {"done", "failed"}
    /\ pc[Forks[n][k]] \in Active => Launches(n)

TInv == StartsOver /\ \A n \in Nodes : \A k \in 1 .. Len(Forks[n]) : TaskFits(n, k)

LEMMA TasksFit == ASSUME RInv, TInv PROVE TasksOfTheNode
<1>1. \A n \in Nodes : DOMAIN Forks[n] = 1 .. Len(Forks[n])
  BY ForksAreSequences
<1>2. ASSUME NEW n \in Nodes, NEW k \in 1 .. Len(Forks[n]), k > spawned[n]
      PROVE  pc[Forks[n][k]] = "unspawned"
  <2>1. spawned[n] \in Nat /\ k \in Nat /\ spawned[n] < k
    BY <1>2, ForksAreSequences DEF RInv, TypeOK
  <2> QED
    BY <2>1 DEF RInv, Waiting
<1>3. ASSUME NEW n \in Nodes, NEW k \in DOMAIN Forks[n]
      PROVE  /\ Launches(n) /\ k <= spawned[n] => pc[Forks[n][k]] \in Active \cup {"done", "failed"}
             /\ Launches(n) /\ k > spawned[n] => pc[Forks[n][k]] = "unspawned"
             /\ pc[Forks[n][k]] \in Active => Launches(n)
  <2>1. k \in 1 .. Len(Forks[n])
    BY <1>1
  <2>2. TaskFits(n, k)
    BY <2>1 DEF TInv
  <2> QED
    BY <1>2, <2>1, <2>2 DEF TaskFits
<1> QED
  BY <1>3, Zenon DEF TasksOfTheNode, Launches

(* A fork whose node and whose count stay where they are *)
LEMMA FitsStill ==
    ASSUME NEW n \in Nodes, NEW k \in 1 .. Len(Forks[n]), TaskFits(n, k),
           node'[n] = node[n], spawned'[n] = spawned[n],
           LET r == Forks[n][k] IN
              \/ pc'[r] = pc[r]
              \/ pc[r] \in Active /\ pc'[r] \in Active \cup {"done", "failed"}
              \/ pc[r] = "dying" /\ pc'[r] = "cancelled"
    PROVE  TaskFits(n, k)'
BY DEF TaskFits, Launches, Active

(* The forks of other nodes *)
LEMMA OthersFit ==
    ASSUME RInv, TInv, NEW n \in Nodes,
           NodeStep(n) \/ Exit(n) \/ Crash(n) \/ Restart(n),
           NEW m \in Nodes, m # n, NEW k \in 1 .. Len(Forks[m])
    PROVE  TaskFits(m, k)'
<1> DEFINE r == Forks[m][k]
<1>1. r \in Own(m) /\ r \notin Own(n) /\ r \in Remotes
  BY OneOwner
<1>2. node'[m] = node[m] /\ spawned'[m] = spawned[m]
  BY DEF NodeStep, MainRunEnds, MainRunFails, Spawn, SpawnAllEnds, Exit, Crash, Restart, RInv, TypeOK
<1>3. pc'[r] = pc[r]
  <2>1. CASE MainRunEnds(n) \/ MainRunFails(n) \/ SpawnAllEnds(n)
    BY <2>1 DEF MainRunEnds, MainRunFails, SpawnAllEnds
  <2>2. CASE Spawn(n)
    <3>1. spawned[n] \in Nat /\ spawned'[n] \in Nat /\ spawned'[n] <= Len(Forks[n])
      BY <2>2, SpawnCounts
    <3>2. ASSUME NEW j \in spawned[n] + 1 .. spawned'[n] PROVE Forks[n][j] # r
      <4>1. j \in 1 .. Len(Forks[n])
        BY <3>1, PlacesOfForks
      <4> QED
        BY <1>1, <4>1, OneOwner
    <3> HIDE DEF r
    <3> QED
      BY <1>1, <2>2, <3>2 DEF Spawn
  <2>3. CASE Exit(n) \/ Crash(n) \/ Restart(n)
    BY <1>1, <2>3 DEF Exit, Crash, Restart, Cancelled, Own
  <2> QED
    BY <2>1, <2>2, <2>3 DEF NodeStep
<1>4. TaskFits(m, k)
  BY DEF TInv
<1> QED
  BY <1>2, <1>3, <1>4, FitsStill

(* The forks of the node that steps *)
LEMMA OwnFit ==
    ASSUME RInv, TInv, NEW n \in Nodes,
           NodeStep(n) \/ Exit(n) \/ Crash(n) \/ Restart(n),
           NEW k \in 1 .. Len(Forks[n])
    PROVE  TaskFits(n, k)'
<1> DEFINE r == Forks[n][k]
<1>1. r \in Own(n) /\ r \in Remotes
  BY OneOwner
<1>2. TaskFits(n, k) /\ spawned[n] \in Nat /\ k \in Nat \ {0}
  BY ForksAreSequences DEF TInv, RInv, TypeOK
<1>3. CASE MainRunEnds(n)
  <2>1. spawned'[n] = 0 /\ pc' = pc /\ ~Launches(n)
    BY <1>3 DEF MainRunEnds, TInv, StartsOver, Launches
  <2> QED
    BY <1>2, <2>1 DEF TaskFits
<1>4. CASE SpawnAllEnds(n)
  <2>1. Launches(n) /\ Launches(n)' /\ UNCHANGED <<spawned, pc>>
    BY <1>4 DEF SpawnAllEnds, Launches, RInv, TypeOK
  <2> QED
    BY <1>2, <2>1 DEF TaskFits
<1>5. CASE Spawn(n)
  <2>1. Launches(n) /\ Launches(n)' /\ spawned'[n] \in Nat
    BY <1>5, SpawnCounts DEF Spawn, Launches
  <2>2. CASE k \in spawned[n] + 1 .. spawned'[n]
    <3>1. pc'[r] = "preparing"
      BY <1>1, <1>5, <2>2 DEF Spawn
    <3> QED
      BY <2>1, <3>1 DEF TaskFits, Active
  <2>3. CASE k \notin spawned[n] + 1 .. spawned'[n]
    <3>1. ASSUME NEW j \in spawned[n] + 1 .. spawned'[n] PROVE Forks[n][j] # r
      <4>1. spawned'[n] <= Len(Forks[n])
        BY <1>5, SpawnCounts
      <4>2. j \in 1 .. Len(Forks[n])
        BY <1>2, <2>1, <4>1, ForksAreSequences
      <4> QED
        BY <2>3, <4>2, OneOwner
    <3>2. pc'[r] = pc[r]
      <4> HIDE DEF r
      <4> QED
        BY <1>1, <1>5, <3>1 DEF Spawn
    <3>3. k <= spawned'[n] => k <= spawned[n]
      BY <1>2, <2>1, <2>3
    <3> QED
      BY <1>2, <2>1, <3>2, <3>3 DEF TaskFits
  <2> QED
    BY <2>2, <2>3
<1>6. CASE Exit(n) \/ Crash(n)
  <2>1. ~Launches(n)'
    BY <1>6 DEF Exit, Crash, Launches, RInv, TypeOK
  <2>2. pc'[r] \notin Active
    <3> HIDE DEF r
    <3> QED
      BY <1>1, <1>6 DEF Exit, Crash, Cancelled, Own, Active
  <2> QED
    BY <2>1, <2>2 DEF TaskFits, Active
<1>7. CASE Restart(n)
  <2>1. ~Launches(n)'
    BY <1>7 DEF Restart, Launches, RInv, TypeOK
  <2>2. pc'[r] = "unspawned"
    <3> HIDE DEF r
    <3> QED
      BY <1>1, <1>7 DEF Restart, Own
  <2> QED
    BY <2>1, <2>2 DEF TaskFits, Active
<1>8. CASE MainRunFails(n)
  <2>1. ~Launches(n) /\ ~Launches(n)' /\ pc' = pc
    BY <1>8 DEF MainRunFails, Launches, RInv, TypeOK
  <2> QED
    BY <1>2, <2>1 DEF TaskFits
<1> QED
  BY <1>3, <1>4, <1>5, <1>6, <1>7, <1>8 DEF NodeStep

LEMMA TStep == RInv /\ TInv /\ [Next]_vars => TInv'
<1> SUFFICES ASSUME RInv, TInv, [Next]_vars
             PROVE  TInv'
  OBVIOUS
<1>1. ASSUME NEW n \in Nodes, NodeStep(n) \/ Exit(n) \/ Crash(n) \/ Restart(n)
      PROVE  TInv'
  <2>1. StartsOver'
    BY <1>1 DEF NodeStep, MainRunEnds, MainRunFails, Spawn, SpawnAllEnds, Exit, Crash, Restart,
                RInv, TypeOK, TInv, StartsOver
  <2>2. ASSUME NEW m \in Nodes, NEW k \in 1 .. Len(Forks[m])
        PROVE  TaskFits(m, k)'
    BY <1>1, OthersFit, OwnFit
  <2> QED
    BY <2>1, <2>2 DEF TInv
<1>2. ASSUME NEW s \in Remotes, RemoteStep(s) \/ CreateLost(s)
      PROVE  TInv'
  <2>1. UNCHANGED <<node, spawned>> /\ \A r \in Remotes \ {s} : pc'[r] = pc[r]
    BY <1>2 DEF RemoteStep, CreateLost, Prepare, StepFails, Fail, Lookup, Reuse, Create,
                Orphaned, Outlives, Got, RInv, TypeOK
  <2>2. \/ pc'[s] = pc[s]
        \/ pc[s] \in Active /\ pc'[s] \in Active \cup {"done", "failed"}
        \/ pc[s] = "dying" /\ pc'[s] = "cancelled"
    <3>1. pc \in [Remotes -> Active \cup {"unspawned", "done", "failed", "dying", "cancelled"}]
      BY DEF RInv, TypeOK
    <3> QED
      BY <1>2, <3>1 DEF RemoteStep, CreateLost, Prepare, StepFails, Fail, Lookup, Reuse, Create,
                        Orphaned, Outlives, Got, Continue, Active
  <2>3. ASSUME NEW m \in Nodes, NEW k \in 1 .. Len(Forks[m])
        PROVE  TaskFits(m, k)'
    <3>1. Forks[m][k] \in Remotes /\ TaskFits(m, k)
      BY OneOwner DEF TInv
    <3> QED
      BY <2>1, <2>2, <3>1, FitsStill
  <2> QED
    BY <2>1, <2>3 DEF TInv, StartsOver
<1>3. CASE UNCHANGED vars \/ \E tag \in Tags : LateArrival(tag)
  <2>1. UNCHANGED <<node, spawned, pc>>
    BY <1>3 DEF vars, LateArrival
  <2> QED
    BY <2>1 DEF TInv, StartsOver, TaskFits, Launches
<1> QED
  BY <1>1, <1>2, <1>3 DEF Next

(* What a node waits for can end: for any forks, with and without delays,  *)
(* detached or not, and after any number of crashes.                       *)
THEOREM NodesHaveTheirTasks == Spec => []TasksOfTheNode
<1>1. Init => RInv /\ TInv
  <2>1. Init => TInv
    <3> SUFFICES ASSUME Init PROVE TInv
      OBVIOUS
    <3>1. ASSUME NEW n \in Nodes, NEW k \in 1 .. Len(Forks[n])
          PROVE  TaskFits(n, k)
      <4>1. pc[Forks[n][k]] = "unspawned" /\ ~Launches(n)
        BY OneOwner DEF Init, Launches
      <4> QED
        BY <4>1 DEF TaskFits, Active
    <3> QED
      BY <3>1 DEF Init, TInv, StartsOver
  <2> QED
    BY <2>1, RInit
<1>2. RInv /\ TInv /\ [Next]_vars => (RInv /\ TInv)'
  BY RStep, TStep
<1>3. RInv /\ TInv => TasksOfTheNode
  BY TasksFit
<1> QED
  BY <1>1, <1>2, <1>3, PTL DEF Spec

-----------------------------------------------------------------------------
(* Nodes end: what can be said of it without fairness *)

(* The steps a node, and a remote algorithm with some payloads to go, have *)
(* before them at most, if the process does not crash                      *)
NodeSteps(there) ==
    CASE there = "running"   -> 3
      [] there = "spawning"  -> 2
      [] there = "finishing" -> 1
      [] OTHER               -> 0

RemoteSteps(there, payloads) ==
    CASE there = "unspawned"               -> 2 * payloads + 2
      [] there = "preparing"               -> 2 * payloads + 1
      [] there = "lookup"                  -> 2 * payloads
      [] there \in {"metadata", "creating"} -> 2 * payloads - 1
      [] there = "dying"                   -> 1
      [] OTHER                             -> 0

NodeLeft(n) == NodeSteps(node[n]) + (Len(Forks[n]) - spawned[n])

RemoteLeft(r) == RemoteSteps(pc[r], Len(TagOf[r]) - Len(ids[r]))

(* Steps of nodes and of remote algorithms bring them nearer to their end, *)
(* and nothing but a restart takes any of them back.                       *)
NodesShorten == \A n \in Nodes : NodeStep(n) \/ Exit(n) \/ Crash(n) => NodeLeft(n)' < NodeLeft(n)

RemotesShorten == \A r \in Remotes : RemoteStep(r) => RemoteLeft(r)' < RemoteLeft(r)

NoneSetBack ==
    (\A n \in Nodes : ~Restart(n)) =>
        /\ \A n \in Nodes : NodeLeft(n)' <= NodeLeft(n)
        /\ \A r \in Remotes : RemoteLeft(r)' <= RemoteLeft(r)

LeftIsNat ==
    /\ \A n \in Nodes : NodeLeft(n) \in Nat
    /\ \A r \in Remotes : RemoteLeft(r) \in Nat

LEMMA PayloadsLeft ==
    ASSUME RInv, NEW r \in Remotes
    PROVE  /\ Len(TagOf[r]) \in Nat /\ Len(ids[r]) \in Nat
           /\ Len(TagOf[r]) - Len(ids[r]) \in Nat
           /\ pc[r] \in {"lookup", "metadata", "creating", "dying"} => Len(ids[r]) < Len(TagOf[r])
<1>1. Len(TagOf[r]) \in Nat /\ ids[r] \in Seq(1 .. Len(runs)) /\ Progress(r)
  BY TagsAreSequences DEF RInv, TypeOK
<1>2. Len(ids[r]) \in Nat
  BY <1>1
<1> QED
  BY <1>1, <1>2 DEF Progress

LEMMA LeftTypes == RInv => LeftIsNat
<1> SUFFICES ASSUME RInv
             PROVE  LeftIsNat
  OBVIOUS
<1>1. ASSUME NEW n \in Nodes
      PROVE  NodeLeft(n) \in Nat
  <2>1. Len(Forks[n]) \in Nat /\ spawned[n] \in Nat /\ spawned[n] <= Len(Forks[n])
    BY ForksAreSequences DEF RInv, TypeOK
  <2>2. NodeSteps(node[n]) \in Nat
    BY DEF NodeSteps
  <2> QED
    BY <2>1, <2>2 DEF NodeLeft
<1>2. ASSUME NEW r \in Remotes
      PROVE  RemoteLeft(r) \in Nat
  BY PayloadsLeft DEF RemoteLeft, RemoteSteps
<1> QED
  BY <1>1, <1>2 DEF LeftIsNat

LEMMA LeftTypesNext == RInv /\ [Next]_vars => LeftIsNat'
<1>1. RInv' => LeftIsNat'
  BY LeftTypes, PTL
<1> QED
  BY <1>1, RStep

LEMMA NodeShortens ==
    ASSUME RInv, NEW n \in Nodes, NodeStep(n) \/ Exit(n) \/ Crash(n)
    PROVE  /\ NodeLeft(n)' < NodeLeft(n)
           /\ \A m \in Nodes \ {n} : NodeLeft(m)' = NodeLeft(m)
<1>1. /\ Len(Forks[n]) \in Nat
      /\ spawned \in [Nodes -> Nat]
      /\ node \in [Nodes -> {"running", "spawning", "finishing", "exited", "failed", "crashed"}]
  BY ForksAreSequences DEF RInv, TypeOK
<1>2. CASE Spawn(n)
  <2>1. /\ spawned[n] < spawned'[n] /\ spawned'[n] \in Nat /\ node' = node
        /\ \A m \in Nodes \ {n} : spawned'[m] = spawned[m]
    BY <1>1, <1>2, SpawnCounts DEF Spawn
  <2>2. NodeSteps(node[n]) \in Nat
    BY DEF NodeSteps
  <2>3. NodeSteps(node[n]) + (Len(Forks[n]) - spawned'[n])
            < NodeSteps(node[n]) + (Len(Forks[n]) - spawned[n])
    BY <1>1, <2>1, <2>2
  <2> QED
    BY <2>1, <2>3 DEF NodeLeft
<1>3. CASE MainRunEnds(n) \/ MainRunFails(n) \/ SpawnAllEnds(n) \/ Exit(n) \/ Crash(n)
  <2>1. spawned' = spawned /\ \A m \in Nodes \ {n} : node'[m] = node[m]
    BY <1>1, <1>3 DEF MainRunEnds, MainRunFails, SpawnAllEnds, Exit, Crash
  <2>2. NodeSteps(node'[n]) < NodeSteps(node[n])
    BY <1>1, <1>3 DEF MainRunEnds, MainRunFails, SpawnAllEnds, Exit, Crash, NodeSteps
  <2>3. NodeSteps(node'[n]) \in Nat /\ NodeSteps(node[n]) \in Nat
    BY DEF NodeSteps
  <2>4. NodeSteps(node'[n]) + (Len(Forks[n]) - spawned[n])
            < NodeSteps(node[n]) + (Len(Forks[n]) - spawned[n])
    BY <1>1, <2>2, <2>3
  <2> QED
    BY <2>1, <2>4 DEF NodeLeft
<1> QED
  BY <1>2, <1>3 DEF NodeStep

LEMMA RemoteShortens ==
    ASSUME RInv, NEW r \in Remotes, RemoteStep(r)
    PROVE  /\ RemoteLeft(r)' < RemoteLeft(r)
           /\ \A s \in Remotes \ {r} : RemoteLeft(s)' = RemoteLeft(s)
<1> DEFINE payloads == Len(TagOf[r]) - Len(ids[r])
<1>1. /\ pc \in [Remotes -> Active \cup {"unspawned", "done", "failed", "dying", "cancelled"}]
      /\ ids \in [Remotes -> Seq(1 .. Len(runs))]
      /\ payloads \in Nat /\ Len(ids[r]) \in Nat /\ Len(TagOf[r]) \in Nat
  BY PayloadsLeft DEF RInv, TypeOK
<1>2. pc[r] \in {"lookup", "metadata", "creating"} => payloads > 0
  BY <1>1, PayloadsLeft
<1>3. \A s \in Remotes \ {r} : pc'[s] = pc[s] /\ ids'[s] = ids[s]
  BY <1>1 DEF RemoteStep, Prepare, StepFails, Fail, Lookup, Reuse, Create, Orphaned, Outlives, Got
<1>4. CASE Prepare(r) \/ StepFails(r) \/ Lookup(r) \/ Orphaned(r) \/ Outlives(r)
  <2>1. ids' = ids
    BY <1>4 DEF Prepare, StepFails, Fail, Lookup, Orphaned, Outlives
  <2>2. \/ pc[r] = "preparing" /\ pc'[r] \in {"done", "creating", "lookup"}
        \/ pc[r] \in Active /\ pc'[r] = "failed"
        \/ pc[r] = "lookup" /\ pc'[r] \in {"creating", "metadata"}
        \/ pc[r] = "dying" /\ pc'[r] = "cancelled"
    BY <1>1, <1>4, ContinueType DEF Prepare, StepFails, Fail, Lookup, Orphaned, Outlives
  <2>3. RemoteSteps(pc'[r], payloads) < RemoteSteps(pc[r], payloads)
    <3> HIDE DEF payloads
    <3> QED
      BY <1>1, <1>2, <2>2 DEF RemoteSteps, Active
  <2>4. RemoteLeft(r)' < RemoteLeft(r)
    BY <2>1, <2>3 DEF RemoteLeft
  <2> QED
    BY <1>3, <2>4 DEF RemoteLeft
<1>5. CASE Reuse(r) \/ Create(r)
  <2>1. pc[r] \in {"metadata", "creating"}
    BY <1>5 DEF Reuse, Create
  <2>2. PICK id \in Nat : Got(r, id)
    <3>1. Len(runs) \in Nat /\ found[r] \subseteq 1 .. Len(runs)
      BY DEF RInv, TypeOK
    <3>2. CASE Reuse(r)
      BY <3>1, <3>2 DEF Reuse
    <3>3. CASE Create(r)
      BY <3>1, <3>3 DEF Create
    <3> QED
      BY <1>5, <3>2, <3>3
  <2>3. ids'[r] = Append(ids[r], id) /\ pc'[r] = Continue(r, Len(ids[r]) + 1)
    BY <1>1, <2>2 DEF Got
  <2>4. Len(ids'[r]) = Len(ids[r]) + 1
    <3>1. ids[r] \in Seq(1 .. Len(runs))
      BY <1>1
    <3>2. ids[r] \in Seq(Nat)
      <4>1. 1 .. Len(runs) \subseteq Nat
        OBVIOUS
      <4> HIDE DEF payloads
      <4> QED
        BY <3>1, <4>1
    <3> QED
      BY <2>2, <2>3, <3>2
  <2>5. Len(TagOf[r]) - Len(ids'[r]) = payloads - 1
    BY <1>1, <2>4
  <2>6. pc'[r] \in {"done", "creating", "lookup"} /\ (pc'[r] # "done" => payloads > 1)
    <3>1. Len(ids[r]) + 1 <= Len(TagOf[r]) /\ Len(ids[r]) + 1 \in Nat
      BY <1>1, <1>2, <2>1
    <3>2. pc'[r] # "done" => Len(ids[r]) + 1 # Len(TagOf[r])
      BY <2>3 DEF Continue
    <3> QED
      BY <1>1, <2>3, <3>1, <3>2, ContinueType
  <2>7. RemoteSteps(pc'[r], payloads - 1) < RemoteSteps(pc[r], payloads)
    <3>1. payloads > 0
      BY <1>2, <2>1
    <3> HIDE DEF payloads
    <3> QED
      BY <1>1, <2>1, <2>6, <3>1 DEF RemoteSteps
  <2>8. RemoteLeft(r)' < RemoteLeft(r)
    BY <2>5, <2>7 DEF RemoteLeft
  <2> QED
    BY <1>3, <2>8 DEF RemoteLeft
<1> QED
  BY <1>4, <1>5 DEF RemoteStep

(* What a node does to its forks, short of a restart *)
LEMMA NodeSetsNoneBack ==
    ASSUME RInv, NEW n \in Nodes, NodeStep(n) \/ Exit(n) \/ Crash(n), NEW r \in Remotes
    PROVE  RemoteLeft(r)' <= RemoteLeft(r)
<1> DEFINE payloads == Len(TagOf[r]) - Len(ids[r])
<1>1. payloads \in Nat /\ (pc[r] = "creating" => payloads > 0)
  BY PayloadsLeft
<1>2. ids' = ids
  BY DEF NodeStep, MainRunEnds, MainRunFails, Spawn, SpawnAllEnds, Exit, Crash
<1>3. \/ pc'[r] = pc[r]
      \/ pc[r] = "unspawned" /\ pc'[r] = "preparing"
      \/ pc[r] = "creating" /\ pc'[r] = "dying"
      \/ pc'[r] = "cancelled"
  <2>1. CASE Spawn(n)
    <3>1. pc'[r] \in {pc[r], "preparing"}
      BY <2>1 DEF Spawn
    <3> QED
      BY <2>1, <3>1, SpawnedAreNew
  <2>2. CASE Exit(n) \/ Crash(n)
    BY <2>2 DEF Exit, Crash, Cancelled
  <2>3. CASE MainRunEnds(n) \/ MainRunFails(n) \/ SpawnAllEnds(n)
    BY <2>3 DEF MainRunEnds, MainRunFails, SpawnAllEnds
  <2> QED
    BY <2>1, <2>2, <2>3 DEF NodeStep
<1>4. RemoteSteps(pc'[r], payloads) <= RemoteSteps(pc[r], payloads)
  <2>1. RemoteSteps(pc[r], payloads) \in Nat
    BY LeftTypes DEF LeftIsNat, RemoteLeft
  <2> HIDE DEF payloads
  <2> QED
    BY <1>1, <1>3, <2>1 DEF RemoteSteps
<1> QED
  BY <1>2, <1>4 DEF RemoteLeft

LEMMA StepShortens ==
    ASSUME RInv, [Next]_vars
    PROVE  [NodesShorten /\ RemotesShorten /\ NoneSetBack]_vars
<1>1. NodesShorten /\ RemotesShorten
  BY NodeShortens, RemoteShortens DEF NodesShorten, RemotesShorten
<1>2. ASSUME Next, \A n \in Nodes : ~Restart(n)
      PROVE  /\ \A n \in Nodes : NodeLeft(n)' <= NodeLeft(n)
             /\ \A r \in Remotes : RemoteLeft(r)' <= RemoteLeft(r)
  <2>1. /\ \A n \in Nodes : NodeLeft(n) \in Nat /\ NodeLeft(n)' \in Nat
        /\ \A r \in Remotes : RemoteLeft(r) \in Nat /\ RemoteLeft(r)' \in Nat
    BY LeftTypes, LeftTypesNext DEF LeftIsNat
  <2>2. ASSUME NEW n \in Nodes, NodeStep(n) \/ Exit(n) \/ Crash(n)
        PROVE  /\ \A m \in Nodes : NodeLeft(m)' <= NodeLeft(m)
               /\ \A r \in Remotes : RemoteLeft(r)' <= RemoteLeft(r)
    <3>1. ASSUME NEW m \in Nodes PROVE NodeLeft(m)' <= NodeLeft(m)
      <4>1. NodeLeft(m)' < NodeLeft(m) \/ NodeLeft(m)' = NodeLeft(m)
        BY <2>2, NodeShortens
      <4> QED
        BY <2>1, <4>1
    <3> QED
      BY <2>2, <3>1, NodeSetsNoneBack
  <2>3. ASSUME NEW s \in Remotes, RemoteStep(s) \/ CreateLost(s)
        PROVE  /\ \A n \in Nodes : NodeLeft(n)' <= NodeLeft(n)
               /\ \A r \in Remotes : RemoteLeft(r)' <= RemoteLeft(r)
    <3>1. ASSUME NEW n \in Nodes PROVE NodeLeft(n)' <= NodeLeft(n)
      <4>1. UNCHANGED <<node, spawned>>
        BY <2>3 DEF RemoteStep, CreateLost, Prepare, StepFails, Fail, Lookup, Reuse, Create,
             Orphaned, Outlives
      <4>2. NodeLeft(n)' = NodeLeft(n)
        BY <4>1 DEF NodeLeft
      <4> QED
        BY <2>1, <4>2
    <3>2. ASSUME NEW r \in Remotes PROVE RemoteLeft(r)' <= RemoteLeft(r)
      <4>1. RemoteLeft(r)' < RemoteLeft(r) \/ RemoteLeft(r)' = RemoteLeft(r)
        <5>1. CASE RemoteStep(s)
          BY <5>1, RemoteShortens
        <5>2. CASE CreateLost(s)
          BY <5>2 DEF CreateLost, RemoteLeft
        <5> QED
          BY <2>3, <5>1, <5>2
      <4> QED
        BY <2>1, <4>1
    <3> QED
      BY <3>1, <3>2
  <2>4. ASSUME NEW tag \in Tags, LateArrival(tag)
        PROVE  /\ \A n \in Nodes : NodeLeft(n)' <= NodeLeft(n)
               /\ \A r \in Remotes : RemoteLeft(r)' <= RemoteLeft(r)
    <3>1. UNCHANGED <<node, spawned, pc, ids>>
      BY <2>4 DEF LateArrival
    <3>2. /\ \A n \in Nodes : NodeLeft(n)' = NodeLeft(n)
          /\ \A r \in Remotes : RemoteLeft(r)' = RemoteLeft(r)
      BY <3>1 DEF NodeLeft, RemoteLeft
    <3> QED
      BY <2>1, <3>2
  <2> QED
    BY <1>2, <2>2, <2>3, <2>4 DEF Next
<1> QED
  BY <1>1, <1>2 DEF NoneSetBack

(* Every step of a node, or of a remote algorithm, uses up one of the      *)
(* finitely many it has left, and none but the restart of a crashed node   *)
(* gives any back; crashes are bounded, and so are the creations whose     *)
(* answer is lost, which use up none; a late request comes once.  With     *)
(* NodesHaveTheirTasks, which says that what a node waits for can step,    *)
(* all that NodesEnd adds is that steps are taken.                         *)
THEOREM NodesWindDown ==
    Spec => []LeftIsNat /\ [][NodesShorten /\ RemotesShorten /\ NoneSetBack]_vars
<1>1. RInv /\ [Next]_vars => [NodesShorten /\ RemotesShorten /\ NoneSetBack]_vars
  BY StepShortens
<1> QED
  BY <1>1, LeftTypes, RInvariant, PTL DEF Spec

-----------------------------------------------------------------------------
(* Duplicates *)

Reusing == Remotes \ (ForceRun \cup LostReplies \cup LateRequests)

(* No one else launches the work of a remote algorithm that reuses runs.   *)
TagsNotShared ==
    \A r \in Reusing : \A s \in Remotes \ {r} : Range(TagOf[r]) \cap Range(TagOf[s]) = {}

(* A remote algorithm that creates a run, or whose request is under way    *)
(* when its process ends, does so for a tag that still has no run.         *)
Fresh(r) == pc[r] \in {"creating", "dying"} => RunsWith(Tag(r)) = {}

Single(r) == \A tag \in Range(TagOf[r]) : \A i, j \in RunsWith(tag) : i = j

(* Requests on their way are of those whose requests may come late. *)
LateOnly ==
    \A tag \in Tags : late[tag] > 0 => \E s \in LateRequests : tag \in Range(TagOf[s])

DInv == LateOnly /\ \A r \in Reusing : Fresh(r) /\ Single(r)

LEMMA RunsWithAppended ==
    ASSUME RInv, NEW new \in Tags, runs' = Append(runs, new), NEW tag \in Tags
    PROVE  RunsWith(tag)' = IF tag = new THEN RunsWith(tag) \cup {Len(runs) + 1} ELSE RunsWith(tag)
<1>1. runs \in Seq(Tags) /\ Len(runs) \in Nat
  BY DEF RInv, TypeOK
<1>2. /\ DOMAIN runs = 1 .. Len(runs) /\ DOMAIN runs' = 1 .. Len(runs) + 1
      /\ \A k \in 1 .. Len(runs) : runs'[k] = runs[k]
      /\ runs'[Len(runs) + 1] = new
  BY <1>1
<1> QED
  BY <1>1, <1>2 DEF RunsWith

LEMMA TagOfPayload ==
    ASSUME RInv, NEW r \in Remotes, pc[r] \in {"lookup", "metadata", "creating", "dying"}
    PROVE  Tag(r) \in Range(TagOf[r]) /\ Tag(r) \in Tags
<1>1. Len(ids[r]) + 1 \in 1 .. Len(TagOf[r]) /\ TagOf[r] \in Seq(Tags)
  BY TagsAreSequences DEF RInv, TypeOK, Progress
<1>2. DOMAIN TagOf[r] = 1 .. Len(TagOf[r])
  BY <1>1
<1>3. \A k \in 1 .. Len(TagOf[r]) : TagOf[r][k] \in Range(TagOf[r])
  BY <1>2 DEF Range
<1>4. \A k \in 1 .. Len(TagOf[r]) : TagOf[r][k] \in Tags
  BY <1>1
<1> QED
  BY <1>1, <1>3, <1>4 DEF Tag

LEMMA RangeOfTags == \A r \in Remotes : Range(TagOf[r]) \subseteq Tags
BY DEF Range

(* A step that creates no run *)
LEMMA DInvWithoutRun ==
    ASSUME RInv, NEW r \in Reusing, Fresh(r), Single(r), runs' = runs,
           pc'[r] \in {"creating", "dying"} =>
              \/ pc[r] \in {"creating", "dying"} /\ ids'[r] = ids[r]
              \/ RunsWith(Tag(r))' = {}
    PROVE  Fresh(r)' /\ Single(r)'
<1>1. \A tag : RunsWith(tag)' = RunsWith(tag)
  BY DEF RunsWith
<1>2. Single(r)'
  BY <1>1 DEF Single
<1>3. ASSUME pc[r] \in {"creating", "dying"}, ids'[r] = ids[r]
      PROVE  RunsWith(Tag(r))' = {}
  <2>1. RunsWith(Tag(r)) = {}
    BY <1>3 DEF Fresh
  <2> QED
    BY <1>3, <2>1 DEF RunsWith, Tag
<1>4. Fresh(r)'
  BY <1>3 DEF Fresh
<1> QED
  BY <1>2, <1>4

LEMMA DInvNodes ==
    ASSUME RInv, NEW r \in Reusing, Fresh(r), Single(r),
           NEW n \in Nodes, NodeStep(n) \/ Exit(n) \/ Crash(n) \/ Restart(n)
    PROVE  Fresh(r)' /\ Single(r)'
<1>1. r \in Remotes
  BY DEF Reusing
<1>2. runs' = runs
  BY DEF NodeStep, MainRunEnds, MainRunFails, SpawnAllEnds, Spawn, Exit, Crash, Restart
<1>3. pc'[r] \in {"creating", "dying"} => pc[r] \in {"creating", "dying"} /\ ids'[r] = ids[r]
  <2>1. CASE MainRunEnds(n) \/ MainRunFails(n) \/ SpawnAllEnds(n)
    BY <2>1 DEF MainRunEnds, MainRunFails, SpawnAllEnds
  <2>2. CASE Spawn(n)
    BY <1>1, <2>2 DEF Spawn
  <2>3. CASE Exit(n) \/ Crash(n)
    BY <1>1, <2>3 DEF Exit, Crash, Cancelled
  <2>4. CASE Restart(n)
    BY <1>1, <2>4 DEF Restart
  <2> QED
    BY <2>1, <2>2, <2>3, <2>4 DEF NodeStep
<1> QED
  BY <1>2, <1>3, DInvWithoutRun

(* Steps of the remote algorithm itself *)
LEMMA DInvSelf ==
    ASSUME RInv, NEW r \in Reusing, Fresh(r), Single(r), RemoteStep(r) \/ CreateLost(r)
    PROVE  Fresh(r)' /\ Single(r)'
<1>1. r \in Remotes /\ r \notin ForceRun /\ r \notin LostReplies /\ r \notin LateRequests
  BY DEF Reusing
<1>2. \A m \in Nat : Continue(r, m) \notin {"creating", "dying"}
  BY <1>1 DEF Continue
<1>3. CASE Prepare(r)
  BY <1>1, <1>2, <1>3, DInvWithoutRun DEF Prepare, RInv, TypeOK
<1>4. CASE StepFails(r)
  BY <1>1, <1>4, DInvWithoutRun DEF StepFails, Fail, RInv, TypeOK
<1>5. CASE Lookup(r)
  <2>1. runs' = runs /\ ids' = ids /\ found'[r] = RunsWith(Tag(r))
    BY <1>1, <1>5 DEF Lookup, RInv, TypeOK
  <2>2. pc'[r] \in {"creating", "dying"} => RunsWith(Tag(r))' = {}
    BY <1>1, <1>5, <2>1 DEF Lookup, RInv, TypeOK, RunsWith, Tag
  <2> QED
    BY <2>1, <2>2, DInvWithoutRun
<1>6. CASE Reuse(r)
  <2>1. runs' = runs /\ pc'[r] = Continue(r, Len(ids[r]) + 1) /\ Len(ids[r]) + 1 \in Nat
    BY <1>1, <1>6 DEF Reuse, Got, RInv, TypeOK
  <2> QED
    BY <1>2, <2>1, DInvWithoutRun
<1>7. CASE Create(r) \/ Orphaned(r)
  <2>1. pc[r] \in {"creating", "dying"}
    BY <1>7 DEF Create, Orphaned, Outlives
  <2>2. Tag(r) \in Tags /\ RunsWith(Tag(r)) = {}
    BY <1>1, <2>1, TagOfPayload DEF Fresh
  <2>3. pc'[r] \notin {"creating", "dying"}
    <3>1. CASE Create(r)
      <4>1. pc'[r] = Continue(r, Len(ids[r]) + 1) /\ Len(ids[r]) + 1 \in Nat
        BY <1>1, <3>1 DEF Create, Got, RInv, TypeOK
      <4> QED
        BY <1>2, <4>1
    <3>2. CASE Orphaned(r)
      BY <1>1, <3>2 DEF Orphaned, RInv, TypeOK
    <3> QED
      BY <1>7, <3>1, <3>2
  <2>4. CASE runs' = runs
    BY <2>3, <2>4, DInvWithoutRun
  <2>5. CASE runs' = Append(runs, Tag(r))
    <3>1. ASSUME NEW tag \in Range(TagOf[r])
          PROVE  \A i, j \in RunsWith(tag)' : i = j
      <4>1. tag \in Tags
        BY <1>1, RangeOfTags
      <4>2. RunsWith(tag)' = IF tag = Tag(r) THEN RunsWith(tag) \cup {Len(runs) + 1}
                             ELSE RunsWith(tag)
        BY <2>2, <2>5, <4>1, RunsWithAppended
      <4> QED
        BY <2>2, <3>1, <4>2 DEF Single
    <3> QED
      BY <2>3, <3>1 DEF Fresh, Single
  <2> QED
    BY <1>7, <2>4, <2>5 DEF Create, Orphaned, Outlives
<1> QED
  BY <1>1, <1>3, <1>4, <1>5, <1>6, <1>7 DEF RemoteStep, CreateLost, Outlives

(* Another run, which has a tag of another one *)
LEMMA DInvForeign ==
    ASSUME RInv, NEW r \in Reusing, Fresh(r), Single(r), pc'[r] = pc[r], ids'[r] = ids[r],
           NEW new \in Tags, new \notin Range(TagOf[r]), runs' = Append(runs, new)
    PROVE  Fresh(r)' /\ Single(r)'
<1>1. r \in Remotes
  BY DEF Reusing
<1>2. \A tag \in Range(TagOf[r]) : RunsWith(tag)' = RunsWith(tag)
  BY <1>1, RangeOfTags, RunsWithAppended
<1>3. Single(r)'
  BY <1>2 DEF Single
<1>4. Fresh(r)'
  <2>1. ASSUME pc[r] \in {"creating", "dying"}
        PROVE  RunsWith(Tag(r))' = {}
    <3>1. Tag(r) \in Range(TagOf[r]) /\ Tag(r)' = Tag(r)
      BY <1>1, <2>1, TagOfPayload DEF Tag
    <3>2. RunsWith(Tag(r)) = {}
      BY <2>1 DEF Fresh
    <3> QED
      BY <1>2, <3>1, <3>2 DEF RunsWith
  <2> QED
    BY <2>1 DEF Fresh
<1> QED
  BY <1>3, <1>4

(* Steps of another one, which has other tags *)
LEMMA DInvOther ==
    ASSUME TagsNotShared, RInv, NEW r \in Reusing, Fresh(r), Single(r),
           NEW s \in Remotes, s # r, RemoteStep(s) \/ CreateLost(s)
    PROVE  Fresh(r)' /\ Single(r)'
<1>1. r \in Remotes
  BY DEF Reusing
<1>2. pc'[r] = pc[r] /\ ids'[r] = ids[r]
  BY <1>1
     DEF RemoteStep, CreateLost, Prepare, StepFails, Fail, Lookup, Reuse, Create,
             Orphaned, Outlives,
         Got, RInv, TypeOK
<1>3. CASE runs' = runs
  BY <1>2, <1>3, DInvWithoutRun
<1>4. CASE runs' # runs
  <2>1. pc[s] \in {"creating", "dying"} /\ runs' = Append(runs, Tag(s))
    BY <1>4
       DEF RemoteStep, CreateLost, Prepare, StepFails, Fail, Lookup, Reuse, Create,
             Orphaned, Outlives
  <2>2. Tag(s) \in Tags /\ Tag(s) \in Range(TagOf[s])
    BY <2>1, TagOfPayload
  <2>3. Tag(s) \notin Range(TagOf[r])
    BY <2>2 DEF TagsNotShared
  <2> QED
    BY <1>2, <2>1, <2>2, <2>3, DInvForeign
<1> QED
  BY <1>3, <1>4

(* A request that comes late *)
LEMMA DInvLate ==
    ASSUME TagsNotShared, RInv, LateOnly, NEW r \in Reusing, Fresh(r), Single(r),
           NEW tag \in Tags, LateArrival(tag)
    PROVE  Fresh(r)' /\ Single(r)'
<1>1. pc' = pc /\ ids' = ids /\ late[tag] > 0
  BY DEF LateArrival
<1>2. tag \notin Range(TagOf[r])
  <2>1. PICK s \in LateRequests : tag \in Range(TagOf[s])
    BY <1>1 DEF LateOnly
  <2>2. s \in Remotes /\ s # r
    BY DEF Reusing
  <2> QED
    BY <2>1, <2>2 DEF TagsNotShared
<1>3. CASE runs' = runs
  BY <1>1, <1>3, DInvWithoutRun
<1>4. CASE runs' = Append(runs, tag)
  BY <1>1, <1>2, <1>4, DInvForeign
<1> QED
  BY <1>3, <1>4 DEF LateArrival

LEMMA LateOnlyStep == RInv /\ LateOnly /\ [Next]_vars => LateOnly'
<1> SUFFICES ASSUME RInv, LateOnly, [Next]_vars
             PROVE  LateOnly'
  OBVIOUS
<1>1. late \in [Tags -> Nat]
  BY DEF RInv, TypeOK
<1>2. ASSUME NEW r \in Remotes, Outlives(r)
      PROVE  LateOnly'
  <2>1. /\ r \in LateRequests /\ pc[r] = "dying"
        /\ late' = [late EXCEPT ![Tag(r)] = @ + 1]
    BY <1>2 DEF Outlives
  <2>2. Tag(r) \in Range(TagOf[r])
    BY <2>1, TagOfPayload
  <2>3. \A tag \in Tags : tag = Tag(r) \/ late'[tag] = late[tag]
    BY <1>1, <2>1
  <2> QED
    BY <2>1, <2>2, <2>3 DEF LateOnly
<1>3. ASSUME NEW tag \in Tags, LateArrival(tag)
      PROVE  LateOnly'
  <2>1. late[tag] > 0 /\ late' = [late EXCEPT ![tag] = @ - 1]
    BY <1>3 DEF LateArrival
  <2>2. \A other \in Tags : late'[other] > 0 => late[other] > 0
    BY <1>1, <2>1
  <2> QED
    BY <2>2 DEF LateOnly
<1>4. CASE UNCHANGED late
  BY <1>4 DEF LateOnly
<1>5. (\E r \in Remotes : Outlives(r)) \/ (\E tag \in Tags : LateArrival(tag)) \/ UNCHANGED late
  BY DEF Next, vars, NodeStep, MainRunEnds, MainRunFails, Spawn, SpawnAllEnds, Exit, Crash, Restart,
         RemoteStep, CreateLost, Prepare, StepFails, Fail, Lookup, Reuse, Create, Orphaned
<1> QED
  BY <1>2, <1>3, <1>4, <1>5

LEMMA DStep == ASSUME TagsNotShared PROVE RInv /\ DInv /\ [Next]_vars => DInv'
<1> SUFFICES ASSUME RInv, DInv, [Next]_vars, NEW r \in Reusing
             PROVE  Fresh(r)' /\ Single(r)'
  BY LateOnlyStep DEF DInv
<1>1. LateOnly /\ Fresh(r) /\ Single(r)
  BY DEF DInv
<1>2. CASE UNCHANGED vars
  BY <1>1, <1>2, DInvWithoutRun DEF vars
<1>3. ASSUME NEW n \in Nodes, NodeStep(n) \/ Exit(n) \/ Crash(n) \/ Restart(n)
      PROVE  Fresh(r)' /\ Single(r)'
  BY <1>1, <1>3, DInvNodes
<1>4. ASSUME NEW s \in Remotes, RemoteStep(s) \/ CreateLost(s)
      PROVE  Fresh(r)' /\ Single(r)'
  BY <1>1, <1>4, DInvSelf, DInvOther
<1>5. ASSUME NEW tag \in Tags, LateArrival(tag)
      PROVE  Fresh(r)' /\ Single(r)'
  BY <1>1, <1>5, DInvLate
<1> QED
  BY <1>2, <1>3, <1>4, <1>5 DEF Next

(* If no other remote algorithm has its tags, no answer to it is lost and  *)
(* no request of it comes after a restart, a remote algorithm without      *)
(* force_run has at most one run per tag, as often as its node crashes,    *)
(* with requests under way or not, and however late others' requests come. *)
THEOREM ReusedTagsRunOnce == ASSUME TagsNotShared PROVE Spec => []NoDuplicateRuns
<1>1. Init => RInv /\ DInv
  <2>1. ASSUME Init, NEW tag
        PROVE  RunsWith(tag) = {}
    BY <2>1 DEF Init, RunsWith
  <2>2. Init => DInv
    BY <2>1 DEF Init, DInv, LateOnly, Fresh, Single, Reusing
  <2> QED
    BY <2>2, RInit
<1>2. RInv /\ DInv /\ [Next]_vars => (RInv /\ DInv)'
  BY RStep, DStep
<1>3. DInv => NoDuplicateRuns
  BY DEF DInv, Single, Reusing, NoDuplicateRuns
<1> QED
  BY <1>1, <1>2, <1>3, PTL DEF Spec
=============================================================================
