--------------------------- MODULE MCNexusProcess ---------------------------
(***************************************************************************)
(* One restart, two inputs, two recorders.  The configurations that the    *)
(* start tells apart, without telemetry, and one of them with all of it;   *)
(* every form of payload, fitting each set of types.  A model of the user's*)
(* comes with mode "always": what it may raise matters when there is a     *)
(* task that records the payload.                                          *)
(***************************************************************************)
EXTENDS NexusProcess

CONSTANTS i1, i2, r1, r2

Starts == {c \in Configurations :
              ~c.inputs /\ ~c.user /\ (c.customModel <=> c.mode = "always")}
Recording == [bootstrapType |-> FALSE, mode |-> "always", customModel |-> FALSE,
              inputs |-> TRUE, user |-> TRUE]
MCSettings == Starts \cup {Recording}

MCPayloads ==
    {p \in Documents : p.form = "plain" /\ p.raw = p.data}
        \cup {p \in Documents : p.form = "envelope" /\ p.raw \in {{}, {"runtime"}}}
        \cup {p \in Documents : p.form \in {"badEnvelope", "corrupt"} /\ p.data = PayloadTypes /\ p.raw = {}}
=============================================================================
