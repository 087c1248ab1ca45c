-------------------------- MODULE InputResolution --------------------------
(***************************************************************************)
(* What the input cache promises to those who call resolve(), without the  *)
(* tasks, the polling and the cache: an input is pending, or it has its    *)
(* result for good, or it has failed for good; a result is built from the  *)
(* results of the readers; a client is served all it asked for, or it is   *)
(* rejected because some input failed, and it does not wait for ever once  *)
(* all it asked for is there or something has failed.                      *)
(***************************************************************************)
CONSTANTS Inputs, Deps, Clients, Wants

VARIABLES outcome, reply

vars == <<outcome, reply>>

Init ==
    /\ outcome = [i \in Inputs |-> "pending"]
    /\ reply = [c \in Clients |-> "idle"]

AllOk(S) == \A i \in S : outcome[i] = "ok"

Complete(i) ==
    /\ outcome[i] = "pending"
    /\ AllOk(Deps[i])
    /\ outcome' = [outcome EXCEPT ![i] = "ok"]
    /\ UNCHANGED reply

Fail(i) ==
    /\ outcome[i] = "pending"
    /\ outcome' = [outcome EXCEPT ![i] = "failed"]
    /\ UNCHANGED reply

Ask(c) ==
    /\ reply[c] = "idle"
    /\ reply' = [reply EXCEPT ![c] = "waiting"]
    /\ UNCHANGED outcome

(* The cache may know the answer at once: a client need not wait first. *)
Serve(c) ==
    /\ reply[c] \in {"idle", "waiting"}
    /\ AllOk(Wants[c])
    /\ reply' = [reply EXCEPT ![c] = "served"]
    /\ UNCHANGED outcome

Reject(c) ==
    /\ reply[c] \in {"idle", "waiting"}
    /\ \E f \in Inputs : outcome[f] = "failed"
    /\ reply' = [reply EXCEPT ![c] = "rejected"]
    /\ UNCHANGED outcome

(* The answer to a client that waits *)
Answer(c) == reply[c] = "waiting" /\ (Serve(c) \/ Reject(c))

Next ==
    \/ \E i \in Inputs : Complete(i) \/ Fail(i)
    \/ \E c \in Clients : Ask(c) \/ Serve(c) \/ Reject(c)

Spec == Init /\ [][Next]_vars /\ \A c \in Clients : WF_vars(Answer(c))
=============================================================================
