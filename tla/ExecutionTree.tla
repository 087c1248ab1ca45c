--------------------------- MODULE ExecutionTree ---------------------------
(***************************************************************************)
(* get_tree (execution/trees.py): the drawing of the inputs of an          *)
(* algorithm, from the annotations of constructors.  `injected` gives the  *)
(* classes that a class takes as parameters; `words` says which of the     *)
(* words that mark an input are in its name, in which case.  Children are  *)
(* kept by name, so their order does not matter; names differ.             *)
(***************************************************************************)

Words == {"Processor", "processor", "reader"}

(* The parameters of the algorithm that get_tree looks at *)
Processors(injected, words, algorithm) ==
    {c \in injected[algorithm] : "Processor" \in words[c]}

(* _is_nexus_input_object_annotation *)
Dependents(injected, words, c) == {d \in injected[c] : words[d] # {}}

(* _get_parameter_tree for every class: a node is made once and found in   *)
(* node_cache later, but its parameters are walked each time.              *)
ParameterTree(injected, words) ==
    LET nodes[c \in DOMAIN injected] ==
            {c} \cup UNION {nodes[d] : d \in Dependents(injected, words, c)}
    IN  nodes

(* serialize() for every node: a line for each child, and the lines of the *)
(* children; each line once.                                               *)
Serialized(injected, words) ==
    LET lines[c \in DOMAIN injected] ==
            {<<c, d>> : d \in Dependents(injected, words, c)}
                \cup UNION {lines[d] : d \in Dependents(injected, words, c)}
    IN  lines

Tree(injected, words, algorithm) ==
    LET lines == Serialized(injected, words)
        processors == Processors(injected, words, algorithm)
    IN  {<<algorithm, c>> : c \in processors} \cup UNION {lines[c] : c \in processors}

NodesOf(injected, words, algorithm) ==
    LET nodes == ParameterTree(injected, words)
    IN  UNION {nodes[c] : c \in Processors(injected, words, algorithm)}
=============================================================================
