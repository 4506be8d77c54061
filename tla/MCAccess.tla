------------------------------- MODULE MCAccess -------------------------------
(***************************************************************************)
(* Connections of appliances on small instances: who may speak and listen  *)
(* for an appliance (DeviceAccess; the diagnostic account follows one of   *)
(* the two, so identifiers are not symmetric), and what the broker keeps   *)
(* for its clients (MqttBroker: overlapping filters, budgets that run      *)
(* out).  The answers of the policy are arbitrary in MqttBroker, so the    *)
(* two share no state here: `part` says which one moves.                   *)
(***************************************************************************)
EXTENDS DeviceAccess, MqttBroker, TLC

CONSTANTS a1, i1, t1, f1, f2

MCAccountIds == a1 :> {i1}

\* A filter for one topic and one for both.
MCCovers == (f1 :> {t1}) @@ (f2 :> Topics)

MCReadable == {{t1}, Topics}

Pub(t, size, retain, allowed) ==
    [kind |-> "publish", topic |-> t, size |-> size, retain |-> retain, allowed |-> allowed]

MCPackets ==
    {[kind |-> "subscribe", filters |-> fs] : fs \in {<<f1>>, <<f2>>, <<f1, f2>>, <<f2, f1>>}}
        \cup {[kind |-> "unsubscribe", filters |-> fs] : fs \in {{f1}, {f2}, {f1, f2}}}
        \cup {Pub(t, size, TRUE, TRUE) : t \in Topics, size \in 0..2}
        \cup {Pub(t1, 1, FALSE, allowed) : allowed \in BOOLEAN}

ASSUME BrokerInstance == BrokerAssumption /\ PacketsAssumption

VARIABLE part

\* The part that does not move begins in one of its initial states, it does not matter which.
AccessInit ==
    /\ part \in {"policy", "broker"} /\ Init /\ BrokerInit
    /\ part = "broker" => Listed = {}

AccessNext ==
    /\ UNCHANGED part
    /\ \/ part = "policy" /\ Next /\ UNCHANGED brokerVars
       \/ part = "broker" /\ BrokerNext /\ UNCHANGED vars

AccessSpec == AccessInit /\ [][AccessNext]_<<vars, brokerVars, part>>

Symmetry ==
    Permutations(Clients) \cup Permutations(Entries) \cup Permutations(Ips)
        \cup Permutations(BrokerClients)
=============================================================================
