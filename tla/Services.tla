-------------------------------- MODULE Services --------------------------------
(***************************************************************************)
(* What appliances, clients and owners connect to, together: the broker,   *)
(* the SNI router, its certificates, the lookups of sources, and the       *)
(* sessions of the management.  They share no state; each is a             *)
(* specification of its own, and all of them run.                          *)
(***************************************************************************)
EXTENDS SniRouter, SourceLookups, SniCertificates, SessionAuthority, MqttBroker

PlacesAssumption == SniAssumption /\ LookupAssumption /\ CertificateAssumption

ServicesAssumption ==
    SessionAssumption /\ BrokerAssumption /\ PacketsAssumption /\ PlacesAssumption

PlacesSpec == SniSpec /\ LookupSpec /\ CertSpec

ServicesSpec == Spec /\ BrokerSpec /\ PlacesSpec

\* The type invariants of the parts: every change of a part has values of its types.
PartsTypeOK ==
    /\ TypeOK /\ BrokerTypeOK /\ CertTypeOK /\ SniTypeOK /\ LookupTypeOK

\* Every place and slot that certificate jobs, connections being read and SSH lookups
\* take is given back once, whatever ends them; no handshake waits for a certificate
\* nobody makes, nothing is issued after close(), and nothing kept of a job given up.
SlotsBalance ==
    /\ TaskSlotsBalance /\ PlacesBalance /\ LookupSlotsBalance
    /\ WaitersHaveTask /\ ClosedIsEmpty /\ AbortedIsNotKept

\* Packets read before the decision are done after it, in order, or not at all
\* (AdmissionGate); both pools of slow jobs keep what BoundedPool promises.
PromisesKept == DeferredInOrder /\ Pool!PoolSpec /\ LookupPool!PoolSpec
=============================================================================
