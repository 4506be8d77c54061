----------------------------- MODULE AdmissionGate -----------------------------
(***************************************************************************)
(* What the broker promises a connection whose admission is being decided: *)
(* the packets that arrive before the decision are done after it, in order *)
(* and once, or from some point on not at all because the connection shut. *)
(***************************************************************************)
EXTENDS Sequences, SequencesExt

CONSTANTS Clients, Packets

VARIABLES
    phase,    \* of each connection
    arrived,  \* packets that arrived before the decision
    ran       \* those of them that were done

gateVars == <<phase, arrived, ran>>

GateInit ==
    /\ phase = [c \in Clients |-> "shut"]
    /\ arrived = [c \in Clients |-> <<>>]
    /\ ran = [c \in Clients |-> <<>>]

Arises(c) ==
    /\ phase[c] = "shut"
    /\ phase' = [phase EXCEPT ![c] = "held"]
    /\ arrived' = [arrived EXCEPT ![c] = <<>>]
    /\ ran' = [ran EXCEPT ![c] = <<>>]

Arrives(c, p) ==
    /\ phase[c] = "held"
    /\ arrived' = [arrived EXCEPT ![c] = Append(@, p)]
    /\ UNCHANGED <<phase, ran>>

Opens(c) ==
    /\ phase[c] = "held"
    /\ phase' = [phase EXCEPT ![c] = "open"]
    /\ ran' = [ran EXCEPT ![c] = arrived[c]]
    /\ UNCHANGED arrived

\* A packet that is done may itself shut the connection.
Shuts(c) ==
    /\ phase[c] # "shut"
    /\ phase' = [phase EXCEPT ![c] = "shut"]
    /\ IF phase[c] = "held"
       THEN \E done \in Prefixes(arrived[c]) : ran' = [ran EXCEPT ![c] = done]
       ELSE UNCHANGED ran
    /\ UNCHANGED arrived

GateNext ==
    \E c \in Clients :
        Arises(c) \/ (\E p \in Packets : Arrives(c, p)) \/ Opens(c) \/ Shuts(c)

GateSpec == GateInit /\ [][GateNext]_gateVars
=============================================================================
