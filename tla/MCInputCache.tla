--------------------------- MODULE MCInputCache ---------------------------
(***************************************************************************)
(* Two input graphs, parts of that of the `minimalistic` test algorithm,   *)
(* which asks for the processors of a chain of a reader, a processor and a *)
(* processor of that processor.  ChainInputs is the chain; another client  *)
(* asks for the reader at its root, and a third for nothing.  MCInputs     *)
(* adds an unrelated reader, without the third client.                     *)
(*                                                                         *)
(* The error map is the shipped one with one class per entry; an input may *)
(* raise a class the first entry maps to a transient error, or one only    *)
(* the catch-all matches.                                                  *)
(*                                                                         *)
(* ExecutionTree is checked against a reference definition here: over all  *)
(* acyclic graphs of an algorithm and three classes, and for the graph the *)
(* cache resolves.                                                         *)
(***************************************************************************)
EXTENDS InputCache, ExecutionTree, TLC

CONSTANTS
    alg, fork, lone, xy, z, zp, zzp,
    GlobalError, CassandraTimeout, Unauthorized, ValueError

ChainInputs == {z, zp, zzp}
ChainDeps == (z :> {}) @@ (zp :> {z}) @@ (zzp :> {zp})
ChainClients == {alg, fork, lone}
ChainWants == (alg :> {zp, zzp}) @@ (fork :> {z}) @@ (lone :> {})

MCInputs == ChainInputs \cup {xy}
MCDeps == ChainDeps @@ (xy :> {})
MCClients == {alg, fork}
MCWants == (alg :> {xy, zp, zzp}) @@ (fork :> {z})

MCErrorClass ==
    {FatalCachingError, TransientCachingError, GlobalError,
     CassandraTimeout, Unauthorized, ValueError}
MCBases == [e \in MCErrorClass |-> {e}]
MCRemappings ==
    << [errors |-> {CassandraTimeout}, target |-> TransientCachingError],
       [errors |-> {Unauthorized}, target |-> FatalCachingError],
       [errors |-> {}, target |-> FatalCachingError] >>
MCThrown == {CassandraTimeout, ValueError}
-----------------------------------------------------------------------------
TreeClasses == 0 .. 3       \* 0 is the algorithm; c takes parameters of greater classes
Injections == {g \in [TreeClasses -> SUBSET TreeClasses] : \A c \in TreeClasses : \A d \in g[c] : d > c}
Namings == {n \in [TreeClasses -> {{}, {"Processor"}, {"processor"}, {"reader"}}] : n[0] = {}}

(* The smallest set with the processors of the algorithm and, for each of  *)
(* its classes, the inputs injected into it                                *)
Reached(g, words) ==
    {c \in TreeClasses :
        \A S \in SUBSET TreeClasses :
            /\ Processors(g, words, 0) \subseteq S
            /\ \A b \in S : {d \in g[b] : words[d] # {}} \subseteq S
            => c \in S}

(* The tree has a line for each injection of an input into the algorithm's *)
(* processors, or into inputs they reach, and no other.                    *)
ASSUME TreeIsReachable ==
    \A g \in Injections, words \in Namings :
        /\ NodesOf(g, words, 0) = Reached(g, words)
        /\ Tree(g, words, 0) =
              {<<0, c>> : c \in Processors(g, words, 0)} \cup
              {e \in Reached(g, words) \X TreeClasses : e[2] \in g[e[1]] /\ words[e[2]] # {}}

(* The inputs in the tree of an algorithm are those that its resolve()     *)
(* executes, if it asks for processors only.                               *)
ASSUME TreeIsExecuted ==
    LET g == ChainDeps @@ (alg :> {zp, zzp})
        words == [c \in DOMAIN g |-> IF c = z THEN {"reader"} ELSE {"Processor"}]
    IN  NodesOf(g, words, alg) = ChainInputs
=============================================================================
