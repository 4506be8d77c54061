------------------------------ MODULE MCAppliances ------------------------------
(***************************************************************************)
(* The parts of Appliances on small instances in one run.  They share no   *)
(* state: `part` says which one moves, and the others stay as they began;  *)
(* what is checked is checked of the one that moves.                       *)
(***************************************************************************)
EXTENDS Appliances

VARIABLES part

ASSUME PartsAssumption == AppliancesAssumption

wireVars == <<streamVars, recordVars>>

\* A part that does not move begins in one of its initial states, it does not matter which.
PartsInit ==
    /\ part \in {"rac", "pac", "energy", "laundry", "fridge", "stream", "records"}
    /\ RacInit /\ (part # "rac" => climate.power = "off" /\ climate.mode = "cool")
    /\ PacInit
    /\ part # "pac" => pac.power = "off" /\ pac.mode = "cool" /\ pac.fan = "low" /\ pac.before = "low"
    /\ EnergyInit
    /\ LaundryInit /\ (part # "laundry" => washer.model = "T1789EFH")
    /\ FridgeInit /\ (part # "fridge" => fridge.model = "K1")
    /\ StreamInit /\ (part # "stream" => sent.frames = <<>> /\ sent.known)
    /\ RecordsInit /\ (part # "records" => fields = <<>>)

PartsNext ==
    /\ UNCHANGED part
    /\ \/ part = "rac" /\ RacNext /\ UNCHANGED <<pacVars, energyVars, washerVars, fridgeVars, wireVars>>
       \/ part = "pac" /\ PacNext /\ UNCHANGED <<racVars, energyVars, washerVars, fridgeVars, wireVars>>
       \/ part = "energy" /\ EnergyNext /\ UNCHANGED <<racVars, pacVars, washerVars, fridgeVars, wireVars>>
       \/ part = "laundry" /\ LaundryNext /\ UNCHANGED <<racVars, pacVars, energyVars, fridgeVars, wireVars>>
       \/ part = "fridge" /\ FridgeNext /\ UNCHANGED <<racVars, pacVars, energyVars, washerVars, wireVars>>
       \/ /\ part = "stream" /\ StreamNext
          /\ UNCHANGED <<racVars, pacVars, energyVars, washerVars, fridgeVars, recordVars>>
       \/ /\ part = "records" /\ RecordsNext
          /\ UNCHANGED <<racVars, pacVars, energyVars, washerVars, fridgeVars, streamVars>>

PartsSpec ==
    PartsInit /\ [][PartsNext]_<<racVars, pacVars, energyVars, washerVars, fridgeVars, wireVars, part>>
=============================================================================
