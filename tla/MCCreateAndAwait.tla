-------------------------- MODULE MCCreateAndAwait --------------------------
(***************************************************************************)
(* Two calls, one of which does not propagate errors, share one thread of  *)
(* the pool.  The shipped policy has three executions.                     *)
(***************************************************************************)
EXTENDS CreateAndAwait

CONSTANTS c1, quiet
=============================================================================
