---------------------------- MODULE MCRemoteSpawn ----------------------------
(***************************************************************************)
(* Two nodes with three remote algorithms: `a` has two payloads, `b` is    *)
(* launched by the same node after it, `c` by the other node.              *)
(* In the first assignment every payload has a tag of its own, in the      *)
(* second the two nodes launch the same piece of work.                     *)
(***************************************************************************)
EXTENDS RemoteSpawn, TLC

CONSTANTS n1, n2, a, b, c, t1, t2, t3, t4

MCForks == (n1 :> <<a, b>>) @@ (n2 :> <<c>>)
OwnTags == (a :> <<t1, t2>>) @@ (b :> <<t3>>) @@ (c :> <<t4>>)
SharedTags == (a :> <<t1, t2>>) @@ (b :> <<t3>>) @@ (c :> <<t1>>)
=============================================================================
