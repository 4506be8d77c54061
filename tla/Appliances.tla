------------------------------- MODULE Appliances -------------------------------
(***************************************************************************)
(* What handlers keep of their appliances and make of it: two families of  *)
(* air conditioners, their energy totals, the laundry and the              *)
(* refrigerators; and how bytes of an appliance become messages and        *)
(* fields.  The parts share no state; each is a specification of its own,  *)
(* and all of them run.                                                    *)
(***************************************************************************)
EXTENDS RacClimate, PacClimate, EnergyTotals, Laundry, Fridges, Thinq1Stream, TlvRecords

AppliancesAssumption ==
    /\ RacAssumption /\ PacAssumption /\ EnergyAssumption /\ LaundryAssumption /\ FridgeAssumption
    /\ StreamAssumption /\ RecordsAssumption

AppliancesSpec ==
    RacSpec /\ PacSpec /\ EnergySpec /\ LaundrySpec /\ FridgeSpec /\ StreamSpec /\ RecordsSpec

\* The type invariants of the parts: every change of a part has values of its types.
AppliancesTypeOK ==
    /\ RacTypeOK /\ PacTypeOK /\ EnergyTypeOK /\ LaundryTypeOK /\ FridgeTypeOK
    /\ StreamTypeOK /\ RecordsTypeOK

\* A handler starts once, a stopped one writes nothing, and a write of a mode alone
\* goes to an appliance that is on.
HandlersStartAndStop == StartsOnce /\ PacWrites

\* Settings are written back exactly when the appliance itself changed, what is shown of
\* fields that overlap follows it in whatever order a frame carries them, and a washer is
\* not started unless it is shown ready for it.
PowerChangesFollowed == SettingsWrittenBack /\ PacFollows /\ CommandsAreShownPossible

\* Between two turns of the handlers, what is shown is of the appliance as it is: a head
\* counts in the maximum of its group exactly while it lives and runs, a laundry model
\* shows its newest record and no time left while off, and a refrigerator its rooms in the
\* unit they stand in and, in the end, as its owner set them.
ShownIsReal == ReadingsAreLive /\ LatestIsShown /\ OffHasNoTime /\ FridgeIsShown /\ SettingsAreKept

\* Messages and fields come out of the bytes as they were put in, however they are cut.
ArrivesAsSent == MessagesInOrder /\ LittleIsKept /\ FieldsAreRead
=============================================================================
