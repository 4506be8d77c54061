------------------------------- MODULE Fridges -------------------------------
(***************************************************************************)
(* The handlers of refrigerators (cloud/devices/2RE*.ts, fridge_common.ts, *)
(* on aabb_device.ts).                                                     *)
(*                                                                         *)
(* The owner sees and sets degrees, in the unit the appliance is set to;   *)
(* the appliance has raw steps and a unit that its panel can change.  The  *)
(* unit becomes known with the first record, is announced with the range   *)
(* that fits it, and goes along with every command: one that crosses a     *)
(* change of the unit takes the appliance back to the unit it was meant    *)
(* in.  One model has no command for a single setting: it sends back the   *)
(* last record with one value changed.                                     *)
(***************************************************************************)
EXTENDS Integers, Sequences

CONSTANTS MaxWire    \* records and commands under way

VARIABLES
    fridge,          \* the appliance: its model, unit, the raw steps of its rooms, its switches
    fridgeLink,      \* whether it is connected, and what the handler knows of it
    fridgeWire,      \* records and commands under way
    fridgeShown,     \* what is retained in Home Assistant's broker, and the unit announced there
    fridgeWanted     \* what the owner has last set each field to, if nobody changed it since

fridgeVars == <<fridge, fridgeLink, fridgeWire, fridgeShown, fridgeWanted>>

Unknown == 999
Ignore == 255
Fields == {"room", "freezer", "rest"}

-----------------------------------------------------------------------------
(* What the models announce, and which part of a record each entity shows. *)

Shows(room, freezer, rest, commands) ==
    [room |-> room, freezer |-> freezer, rest |-> rest, commands |-> commands]
Setpoints == {"fridge_setpoint", "freezer_setpoint"}

M2REB1 == Shows({"fridge_setpoint"}, {"freezer_setpoint"}, {"express_cool", "express_freeze", "door"},
                Setpoints \cup {"express_cool", "express_freeze"})
M2RES1VE61 == M2REB1
M2RES1VE600 == Shows({"fridge_setpoint"}, {"freezer_setpoint"}, {"express_freeze", "door"},
                     Setpoints \cup {"express_freeze"})
M2REF11EID == Shows({"fridge_setpoint"}, {"freezer_setpoint"}, {"flex_setpoint", "door"},
                    Setpoints \cup {"flex_setpoint"})
M2REF11EBI == Shows({"fridge_setpoint"}, {"freezer_setpoint"}, {"door", "express_freeze", "shabbat_mode"},
                    Setpoints \cup {"express_freeze", "shabbat_mode"})
M2REF12 == Shows({"fridge_setpoint"}, {"freezer_setpoint"}, {"express_freeze", "door", "control_panel_lock"},
                 Setpoints \cup {"express_freeze"})
M2REK1 == Shows({"top_room_mode", "top_room_temperature"},
                {"middle_room_mode", "middle_room_temperature", "bottom_room_mode", "bottom_room_temperature"},
                {"door", "display_lock", "one_touch_filter", "monitor_status"}, {})
M2RES2VE300 == Shows({"fridge_temperature"}, {"freezer_temperature"},
                     {"express_cool", "express_freeze", "door", "smart_care", "night_glare"},
                     {"fridge_temperature", "freezer_temperature", "express_cool", "express_freeze"})

FridgeModels ==
    [VE61 |-> M2RES1VE61, VE600 |-> M2RES1VE600, EID |-> M2REF11EID,
     EBI |-> M2REF11EBI, F12 |-> M2REF12, K1 |-> M2REK1, VE300 |-> M2RES2VE300]
Model == fridge.model
TwoUnits == Model \in {"VE61", "VE600", "EID"}

\* A field that can be set: entities that are shown from it and are commands.
Settable(f) == FridgeModels[Model][f] \cap FridgeModels[Model].commands # {}

-----------------------------------------------------------------------------
(* Degrees and raw steps.                                                  *)

\* fridge_common.ts: the same formula both ways.
ConvertFridge(unit, x) == IF unit = "F" THEN 44 - x ELSE 8 - x
ConvertFreezer(unit, x) == IF unit = "F" THEN 6 - x ELSE -14 - x

\* 2RES1VE600FWC: steps of the freezer in Fahrenheit are not even.
FreezerSteps600 == <<7, 7, 6, 5, 4, 3, 2, 1, 0, -1, -2, -3, -7, -12, -15, -17>>
ConvertFridge600(unit, x) == IF unit = "F" THEN 47 - x ELSE 8 - x
ConvertFromFreezer600(unit, x) == IF unit = "F" THEN FreezerSteps600[x + 1] ELSE -13 - x
ConvertToFreezer600(unit, x) ==
    IF unit # "F" THEN -13 - x
    ELSE IF x < -15 THEN 15
    ELSE IF x < -12 THEN 14
    ELSE IF x < -7 THEN 13
    ELSE IF x < -3 THEN 12
    ELSE 8 - x

\* 2REF11EBIVPC4 reports in half degrees what it is told in whole ones.
ReadFridgeEBI(x) == (13 - x) \div 2
ReadFreezerEBI(x) == -((x + 29) \div 2)

\* A command's step as the appliance reports it.
AppliedStep(f, x) ==
    IF Model # "EBI" THEN x ELSE IF f = "room" THEN 2 * x - 3 ELSE 2 * x - 1

ReadDegrees(f, unit, x) ==
    IF f = "rest" \/ Model = "K1" THEN x
    ELSE IF Model = "EBI" THEN (IF f = "room" THEN ReadFridgeEBI(x) ELSE ReadFreezerEBI(x))
    ELSE IF Model = "VE600"
         THEN (IF f = "room" THEN ConvertFridge600(unit, x) ELSE ConvertFromFreezer600(unit, x))
    ELSE IF f = "room" THEN ConvertFridge(unit, x) ELSE ConvertFreezer(unit, x)

WriteStep(f, unit, degrees) ==
    IF f = "rest" THEN degrees
    ELSE IF Model = "VE600"
         THEN (IF f = "room" THEN ConvertFridge600(unit, degrees) ELSE ConvertToFreezer600(unit, degrees))
    ELSE IF f = "room" THEN ConvertFridge(unit, degrees) ELSE ConvertFreezer(unit, degrees)

\* Two steps of each room are enough to tell them apart; they are reported by
\* EBI as odd numbers, are beyond the even part of the table for VE600, and may
\* be missing for K1.
StepsOf(f, unit) ==
    IF f = "rest" THEN {0, 1}
    ELSE IF Model = "K1" THEN {1, Ignore}
    ELSE IF Model = "EBI" THEN {5, 7}
    ELSE IF Model = "VE600" /\ unit = "F" /\ f = "freezer" THEN {12, 13}
    ELSE {4, 5}

Units == IF TwoUnits THEN {"C", "F"} ELSE {"C"}
Status(u) == [unit : {u}, room : StepsOf("room", u), freezer : StepsOf("freezer", u),
              rest : StepsOf("rest", u)]
Statuses == UNION {Status(u) : u \in Units}

-----------------------------------------------------------------------------
NoFridgeHandler == [up |-> FALSE, heard |-> FALSE, unit |-> "none", current |-> {}]
NothingWanted == [f \in Fields |-> Unknown]

\* fridgeWire: "status" with the records it carries; "command" with the field,
\* the step, the unit it is meant in, and the record it is a copy of, if any.
WireMessages ==
    [type : {"status"}, records : Seq(Statuses)]
    \cup [type : {"command"}, field : Fields, step : 0..255, unit : {"C", "F"}, base : SUBSET Statuses]

\* What can be shown; what is not there is never published.
Degrees == -30..50

FridgeTypeOK ==
    /\ Model \in DOMAIN FridgeModels /\ fridge \in [model : {Model}, is : Statuses]
    /\ fridgeLink \in [up : BOOLEAN, heard : BOOLEAN, unit : {"none", "C", "F"}, current : SUBSET Statuses]
    /\ fridgeWire \in Seq(WireMessages) /\ Len(fridgeWire) <= MaxWire
    /\ fridgeShown \in [unit : {"none", "C", "F"}, room : Degrees \cup {Unknown},
                       freezer : Degrees \cup {Unknown}, rest : Degrees \cup {Unknown}]
    /\ fridgeWanted \in [Fields -> Degrees \cup {Unknown}]

Moves(s) == fridge' = [fridge EXCEPT !.is = s]

\* The appliance reports with the record before, the newest second.
Reported(old, new) == [type |-> "status", records |-> <<old, new>>]

\* Its panel and its doors: one setting at a time; the other unit has steps of
\* its own.
PanelMoves(new) ==
    /\ new # fridge.is
    /\ new.unit = fridge.is.unit =>
         \E f \in Fields : \A g \in Fields \ {f} : new[g] = fridge.is[g]
    /\ Moves(new)
    /\ IF fridgeLink.up THEN /\ Len(fridgeWire) < MaxWire
                             /\ fridgeWire' = Append(fridgeWire, Reported(fridge.is, new))
       ELSE UNCHANGED fridgeWire
    /\ fridgeWanted' = [f \in Fields |-> IF new[f] # fridge.is[f] \/ new.unit # fridge.is.unit
                                         THEN Unknown ELSE fridgeWanted[f]]
    /\ UNCHANGED <<fridgeLink, fridgeShown>>

\* start(): the question, or nothing, is answered with one record.
FridgeConnects ==
    /\ ~fridgeLink.up
    /\ fridgeLink' = [NoFridgeHandler EXCEPT !.up = TRUE, !.unit = IF TwoUnits THEN "none" ELSE "C"]
    /\ fridgeWire' = <<[type |-> "status", records |-> <<fridge.is>>]>>
    /\ fridgeShown' = IF TwoUnits THEN fridgeShown ELSE [fridgeShown EXCEPT !.unit = "C"]
    /\ UNCHANGED <<fridge, fridgeWanted>>

FridgeLost ==
    /\ fridgeLink.up
    /\ fridgeLink' = NoFridgeHandler /\ fridgeWire' = <<>> /\ fridgeWanted' = NothingWanted
    /\ UNCHANGED <<fridge, fridgeShown>>

-----------------------------------------------------------------------------
(* The handler.                                                            *)

NewestStatus(message) == message.records[Len(message.records)]

ShowKeepingUnit(s) ==
    [unit |-> IF fridgeShown.unit = "none" THEN s.unit ELSE fridgeShown.unit,
     room |-> ReadDegrees("room", s.unit, s.room),
     freezer |-> ReadDegrees("freezer", s.unit, s.freezer), rest |-> s.rest]

\* What is retained when the handler's turn is over.  It publishes one message after the
\* other, the discovery with a new unit first and the numbers behind it: a subscriber
\* sees the old number beside the new unit for as long as the next message takes.
\* A compartment that is missing publishes nothing.
ShowStatus(s) ==
    LET room(f) == IF s[f] = Ignore THEN fridgeShown[f] ELSE ReadDegrees(f, s.unit, s[f])
    IN [unit |-> s.unit, room |-> room("room"), freezer |-> room("freezer"), rest |-> s.rest]

ProcessStatus ==
    /\ fridgeWire # <<>> /\ Head(fridgeWire).type = "status"
    /\ LET s == NewestStatus(Head(fridgeWire))
       IN /\ fridgeShown' = ShowStatus(s)
          /\ fridgeLink' = [fridgeLink EXCEPT !.heard = TRUE, !.unit = s.unit, !.current = {s}]
    /\ fridgeWire' = Tail(fridgeWire)
    /\ UNCHANGED <<fridge, fridgeWanted>>

Command(f, unit, degrees) ==
    [type |-> "command", field |-> f, step |-> WriteStep(f, unit, degrees) % 256, unit |-> unit,
     base |-> IF Model = "F12" THEN fridgeLink.current ELSE {}]

CommandInCelsius(f, degrees) == Command(f, "C", degrees)

\* setProperty: the unit last seen goes along, Celsius before one was.
UnitOfCommand == IF fridgeLink.unit = "none" THEN "C" ELSE fridgeLink.unit
SettingOf(f, degrees) == Command(f, UnitOfCommand, degrees)

\* Home Assistant offers what is announced.  2REF12 drops a command before the
\* first record, and its copy takes back what the last command changed until
\* that has been reported.  Nothing is said of a command in the unit of an
\* earlier handler, which is taken for Celsius.
FridgeCommand(f, step) ==
    /\ fridgeLink.up /\ Settable(f) /\ fridgeShown.unit \in Units /\ Len(fridgeWire) < MaxWire
    /\ LET degrees == ReadDegrees(f, fridgeShown.unit, step)
           dropped == Model = "F12" /\ fridgeLink.current = {}
           stale == Model = "F12" /\ \E i \in DOMAIN fridgeWire : fridgeWire[i].type = "command"
                                                                  \/ fridgeLink.current # {fridge.is}
       IN /\ fridgeWire' = IF dropped THEN fridgeWire ELSE Append(fridgeWire, SettingOf(f, degrees))
          /\ fridgeWanted' =
               [g \in Fields |->
                  IF g = f THEN (IF dropped \/ UnitOfCommand # fridgeShown.unit THEN Unknown ELSE degrees)
                  ELSE IF stale THEN Unknown ELSE fridgeWanted[g]]
    /\ UNCHANGED <<fridge, fridgeLink, fridgeShown>>

\* The appliance does as it is told: the whole record, or one setting and the
\* unit it is meant in.  What it does not offer it leaves alone.
Obeyed(c) ==
    {s \in Statuses :
        IF c.base # {}
        THEN \E b \in c.base : s = [b EXCEPT ![c.field] = c.step, !.unit = fridge.is.unit]
        ELSE /\ s.unit = IF TwoUnits THEN c.unit ELSE fridge.is.unit
             /\ AppliedStep(c.field, c.step) \in StepsOf(c.field, s.unit) \/ c.field = "rest"
                => s[c.field] = IF c.field = "rest" THEN c.step ELSE AppliedStep(c.field, c.step)
             /\ s.unit = fridge.is.unit => \A g \in Fields \ {c.field} : s[g] = fridge.is[g]
             /\ s.rest = IF c.field = "rest" THEN c.step ELSE fridge.is.rest}

FridgeObeys ==
    /\ fridgeWire # <<>> /\ Head(fridgeWire).type = "command"
    /\ \E s \in Obeyed(Head(fridgeWire)) :
         /\ Moves(s)
         /\ fridgeWire' = Append(Tail(fridgeWire), Reported(fridge.is, s))
         /\ fridgeWanted' = [g \in Fields |->
                IF s.unit # fridge.is.unit /\ g \notin {Head(fridgeWire).field, "rest"}
                THEN Unknown ELSE fridgeWanted[g]]
    /\ UNCHANGED <<fridgeLink, fridgeShown>>

FridgeInit ==
    /\ \E m \in DOMAIN FridgeModels :
         fridge = [model |-> m,
                   is |-> [unit |-> "C", room |-> IF m = "K1" THEN 1 ELSE 5,
                           freezer |-> IF m = "K1" THEN 1 ELSE 5, rest |-> 0]]
    /\ fridgeLink = NoFridgeHandler /\ fridgeWire = <<>>
    /\ fridgeShown = [unit |-> "none", room |-> Unknown, freezer |-> Unknown, rest |-> Unknown]
    /\ fridgeWanted = NothingWanted

FridgeNext ==
    \/ FridgeConnects \/ FridgeLost \/ ProcessStatus \/ FridgeObeys
    \/ \E new \in Statuses : PanelMoves(new)
    \/ \E f \in Fields : \E step \in StepsOf(f, fridgeShown.unit) : FridgeCommand(f, step)

FridgeSpec == FridgeInit /\ [][FridgeNext]_fridgeVars

-----------------------------------------------------------------------------
Quiet == fridgeWire = <<>> /\ fridgeLink.up /\ fridgeLink.heard

\* No turn of the handler ends with a number beside the wrong unit, through changes of it
\* and behind new handlers, whichever messages a record leads to; and once nothing is
\* under way the appliance is shown as it is (setTemperatureUnit, processStatus).
FridgeIsShown ==
    /\ \A f \in {"room", "freezer"} :
         fridgeShown[f] # Unknown =>
            \E step \in StepsOf(f, fridgeShown.unit) :
               fridgeShown[f] = ReadDegrees(f, fridgeShown.unit, step)
    /\ Quiet => /\ fridgeShown.unit = fridge.is.unit
                /\ \A f \in Fields : fridge.is[f] # Ignore =>
                     fridgeShown[f] = ReadDegrees(f, fridge.is.unit, fridge.is[f])

\* What the owner sets is what is shown in the end, in the unit it was meant in, through
\* commands and changes of the unit that cross each other and through the steps of every
\* model; unless the panel changed it or a command in the other unit came after
\* (setProperty, sendSetting).
SettingsAreKept ==
    Quiet => \A f \in Fields : fridgeWanted[f] # Unknown => fridgeShown[f] = fridgeWanted[f]

\* All the entities of a model are shown from its record, and every step that the
\* VE600 can be set to comes back as the degrees it stands for.
FridgeAssumption ==
    /\ \A m \in DOMAIN FridgeModels :
         FridgeModels[m].commands \subseteq UNION {FridgeModels[m][f] : f \in Fields}
    /\ \A x \in 1..15 : ConvertToFreezer600("F", ConvertFromFreezer600("F", x)) = x
    /\ MaxWire \in Nat \ {0}

=============================================================================
