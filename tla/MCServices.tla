------------------------------ MODULE MCServices ------------------------------
(***************************************************************************)
(* The services that appliances and owners connect to, on small instances  *)
(* in one run.  They share no state: `part` says which of them moves, and  *)
(* the others stay as they began.                                          *)
(***************************************************************************)
EXTENDS Services, TLC

CONSTANTS c1, t1, f1, f2

\* Two filters for the same topic, which no client of this run may read.
MCCovers == (f1 :> {t1}) @@ (f2 :> {t1})

MCReadable == {{}}

MCPackets ==
    {[kind |-> "answered"],
     [kind |-> "publish", topic |-> t1, size |-> 1, retain |-> FALSE, allowed |-> FALSE]}

ASSUME PartsAssumption == ServicesAssumption

VARIABLE part

PartsInit ==
    /\ part \in {"sessions", "broker", "certificates", "router", "lookups"}
    /\ Init /\ BrokerInit /\ CertInit /\ SniInit
    /\ LookupInit /\ (part # "lookups" => listed = {})

PartsNext ==
    /\ UNCHANGED part
    /\ \/ part = "sessions" /\ Next /\ UNCHANGED <<brokerVars, certVars, sniVars, lookupVars>>
       \/ part = "broker" /\ BrokerNext /\ UNCHANGED <<vars, certVars, sniVars, lookupVars>>
       \/ part = "certificates" /\ CertNext /\ UNCHANGED <<vars, brokerVars, sniVars, lookupVars>>
       \/ part = "router" /\ SniNext /\ UNCHANGED <<vars, brokerVars, certVars, lookupVars>>
       \/ part = "lookups" /\ LookupNext /\ UNCHANGED <<vars, brokerVars, certVars, sniVars>>

PartsSpec ==
    /\ PartsInit /\ [][PartsNext]_<<vars, brokerVars, certVars, sniVars, lookupVars, part>>
    /\ WF_brokerVars(ConnectDeadline(c1)) /\ SocketFairness(1) /\ LookupFairness

-----------------------------------------------------------------------------
\* Connections are admitted or let go, read or destroyed, lookups answered: nobody
\* holds one of the few places for ever.  The parts treat their members alike, so one
\* of each stands for all, and its own timers are enough.
PlacesComeBack == PlaceOfIsFreed(c1) /\ SocketSettles(1) /\ LookupEnds(1)
=============================================================================
