------------------------------- MODULE Laundry -------------------------------
(***************************************************************************)
(* The handlers of washers, dryers and dishwashers (cloud/devices/         *)
(* aabb_device.ts and the models that extend it, and WTDN3.ts).            *)
(*                                                                         *)
(* An appliance sends its whole state in one record whenever it changes:   *)
(* alone, or together with the record before it, in an order that differs  *)
(* by model.  After a new connection it sends one record, to a new handler *)
(* behind which the broker still holds what the last handler published.    *)
(* Records are left behind when an appliance is off: times that no longer  *)
(* run, which some handlers zero, others blank and one leaves alone.       *)
(*                                                                         *)
(* A model is what it announces (Config) and how its record is read        *)
(* (Layout).  All values of a record but its phase are one here: nothing,  *)
(* or something.                                                           *)
(***************************************************************************)
EXTENDS Naturals, Sequences

CONSTANTS MaxLine    \* frames under way

VARIABLES
    washer,         \* the appliance: its model, its record, the value it sends apart
    washerLink,     \* whether it is connected, and what the handler keeps of its records
    washerLine,     \* frames under way
    washerShown,    \* the states retained in Home Assistant's broker
    washerSent      \* the command the last step sent

washerVars == <<washer, washerLink, washerLine, washerShown, washerSent>>

-----------------------------------------------------------------------------
(* What each model announces: entities with a state, and commands.         *)

Announces(states, commands) == [states |-> states, commands |-> commands]
Operation == {"power", "start", "pause"}

F_V__F_Config == Announces(
    {"power", "status", "error", "error_message", "course", "temp", "spin", "drying_mode", "cycles",
     "remote_start", "door_lock", "energy", "initial_time", "remaining_time"}, Operation)
F_V8_Y_Config == Announces(
    (F_V__F_Config.states \ {"drying_mode"})
    \cup {"child_lock", "reserve_time", "extra_rinse", "turbowash", "prewash", "intensive_wash", "steam"},
    Operation)
F_VB_Config == Announces(
    F_V__F_Config.states \cup {"child_lock", "delay_end", "detergent", "softener", "extra_rinse",
                               "turbowash", "eco_hybrid", "prewash", "steam"}, Operation)
Y_V8_Y_Config == Announces(F_V__F_Config.states \ {"drying_mode"}, Operation)
Y_V8_F_Config == Announces(F_V__F_Config.states, Operation)
WTDN3_Config == Announces(F_V__F_Config.states \ {"energy"}, Operation)
VCDWL2QEUK_Config == Announces(
    {"power", "status", "course", "temp", "spin", "energy", "initial_time", "remaining_time", "door",
     "detergent_dispenser", "softener_dispenser", "detergent_dose", "softener_dose", "soil", "rinse",
     "prewash", "turbowash", "steam", "child_lock", "remote_start", "tub_clean_count"}, {})
F3L2CYU_Config == Announces(
    {"power", "status", "course", "remaining_time", "reserve_time", "soil", "spin", "temp", "extra_rinse",
     "extra_rinse_count", "pre_wash", "steam", "cold_wash", "turbo_wash", "delay_wash", "door",
     "door_lock"}, {})
RV13B6_Config == Announces(
    {"power", "status", "course", "remaining_time", "initial_time", "dry_level", "temp", "reduce_static",
     "damp_dry_signal", "child_lock", "energy_saver", "turbo_steam", "wrinkle_care"}, {})
Hd0C_F_Config == Announces(
    {"power", "status", "previous_status", "course", "remaining_time", "initial_time", "reserve_time",
     "wash", "spin", "water_temp", "rinse", "water_level", "tub_clean_count", "error", "error_message",
     "door_lock", "run_completed", "remote_start_enabled"}, {"remote_start", "pause", "power_off"})
Pd0F_F_Config == Announces(
    {"power", "run_completed", "status", "previous_status", "remaining_time", "initial_time",
     "reserve_time", "error", "error_message", "door_lock"}, {})
RH16KR_Config == Announces(
    {"power", "run_completed", "status", "process_status", "remaining_time", "initial_time",
     "reserve_time", "course", "downloaded_course", "dry_level", "eco_hybrid", "error", "error_message",
     "anti_crease", "smart_care", "reservation_active", "control_lock"}, {})
F21VDT_Config == Announces(
    {"power", "run_completed", "status", "previous_status", "remaining_time", "initial_time",
     "reserve_time", "course", "downloaded_course", "operation_course", "soil", "spin", "water_temp",
     "rinse", "dry_level", "error", "error_message", "tub_clean_count"}, {})
D121111_Config == Announces(
    {"power", "door", "run_completed", "status", "process", "remaining_time", "initial_time",
     "reserve_time", "course", "current_download_course", "chime_enabled", "tub_sterilization_reminder",
     "front_time_display", "rinse_aid_level", "water_hardness_level", "dual_zone", "half_load_zone",
     "extra_rinse", "steam", "high_temp_sanitize", "high_temp_dry", "control_lock", "delay_active",
     "tub_clean_count"}, {})
RV13U6_Config == Announces(
    {"status", "remaining_time", "power", "drum_running", "cycle", "temp", "dry_level"}, {})
T1789EFH_Config == Announces({"power", "status", "remaining_time"}, {})

-----------------------------------------------------------------------------
(* How each model reads its record, beside power and status.               *)

\* pair: where the newest record of two stands ("none": one record, whole).
\* off: the phases that are shown as off.  Entities read as they are, zeroed
\* or blanked while off, left as they were while off, and those of frames of
\* their own.  single: whether the frame with one record is understood.
Whole == [pair |-> "none", single |-> TRUE, off |-> {"off"}, plain |-> {}, zeroed |-> {}, blank |-> {},
          held |-> {}, apart |-> {}]
Newest(where) == [Whole EXCEPT !.pair = where]

F_V__F_Layout == [Whole EXCEPT !.plain =
    {"error_message", "error", "course", "spin", "temp", "drying_mode", "cycles", "remote_start",
     "door_lock", "initial_time", "remaining_time", "energy"}]
F_V8_Y_Layout == [Whole EXCEPT !.plain =
    {"error_message", "error", "course", "spin", "temp", "cycles", "remote_start", "door_lock",
     "child_lock", "initial_time", "remaining_time", "reserve_time", "energy", "extra_rinse",
     "turbowash", "prewash", "steam", "intensive_wash"}]
F_VB_Layout == [Whole EXCEPT !.plain =
    {"error_message", "error", "course", "spin", "temp", "drying_mode", "cycles", "remote_start",
     "door_lock", "child_lock", "initial_time", "remaining_time", "energy", "delay_end", "detergent",
     "softener", "extra_rinse", "turbowash", "eco_hybrid", "prewash", "steam"}]
Y_V8_Y_Layout == [Whole EXCEPT !.plain =
    {"error_message", "error", "course", "spin", "temp", "cycles", "remote_start", "door_lock",
     "initial_time", "remaining_time", "energy"}]
Y_V8_F_Layout == [Newest("second") EXCEPT !.apart = {"cycles"}, !.plain =
    {"error_message", "error", "course", "spin", "temp", "drying_mode", "remote_start", "door_lock",
     "initial_time", "remaining_time", "energy"}]
WTDN3_Layout == [Whole EXCEPT !.plain =
    {"error_message", "error", "course", "spin", "temp", "drying_mode", "cycles", "remote_start",
     "door_lock", "initial_time", "remaining_time"}]
VCDWL2QEUK_Layout == [Newest("second") EXCEPT
    !.single = FALSE, !.apart = {"door"}, !.zeroed = {"remaining_time", "initial_time"},
    !.plain = {"child_lock", "remote_start", "tub_clean_count"},
    !.held = {"soil", "rinse", "temp", "spin", "course", "energy", "detergent_dispenser",
              "softener_dispenser", "detergent_dose", "softener_dose", "prewash", "turbowash", "steam"}]
F3L2CYU_Layout == [Newest("second") EXCEPT
    !.zeroed = {"remaining_time", "reserve_time"},
    !.plain = {"course", "soil", "spin", "temp", "extra_rinse_count", "extra_rinse", "pre_wash", "steam",
               "turbo_wash", "delay_wash", "cold_wash", "door_lock", "door"}]
RV13B6_Layout == [Newest("second") EXCEPT
    !.zeroed = {"remaining_time", "initial_time"},
    !.plain = {"course", "dry_level", "temp", "child_lock", "reduce_static", "damp_dry_signal",
               "energy_saver", "turbo_steam", "wrinkle_care"}]
Hd0C_F_Layout == [Newest("second") EXCEPT
    !.zeroed = {"remaining_time", "initial_time", "reserve_time"}, !.apart = {"tub_clean_count"},
    !.blank = {"course", "wash", "spin", "water_temp", "rinse", "water_level"},
    !.plain = {"previous_status", "error", "error_message", "door_lock", "run_completed",
               "remote_start_enabled"}]
Pd0F_F_Layout == [Newest("second") EXCEPT
    !.zeroed = {"remaining_time", "initial_time"},
    !.plain = {"run_completed", "previous_status", "reserve_time", "error", "error_message", "door_lock"}]
RH16KR_Layout == [Newest("second") EXCEPT
    !.blank = {"process_status"},
    !.plain = {"run_completed", "remaining_time", "initial_time", "reserve_time", "reservation_active",
               "course", "downloaded_course", "dry_level", "eco_hybrid", "anti_crease", "smart_care",
               "control_lock", "error", "error_message"}]
F21VDT_Layout == [Newest("second") EXCEPT !.plain =
    {"run_completed", "previous_status", "remaining_time", "initial_time", "reserve_time", "course",
     "downloaded_course", "operation_course", "error", "error_message", "soil", "spin", "water_temp",
     "rinse", "dry_level", "tub_clean_count"}]
D121111_Layout == [Newest("second") EXCEPT
    !.off = {"off", "standby"}, !.zeroed = {"remaining_time"}, !.apart = {"tub_clean_count"},
    !.plain = {"door", "run_completed", "process", "initial_time", "reserve_time", "course",
               "current_download_course", "chime_enabled", "tub_sterilization_reminder",
               "front_time_display", "rinse_aid_level", "water_hardness_level", "dual_zone",
               "half_load_zone", "extra_rinse", "steam", "high_temp_sanitize", "high_temp_dry",
               "control_lock", "delay_active"}]
RV13U6_Layout == [Newest("first") EXCEPT
    !.plain = {"remaining_time", "drum_running", "cycle", "temp", "dry_level"}]
T1789EFH_Layout == [Newest("first") EXCEPT !.plain = {"remaining_time"}]

\* Every model with what it announces and how it is read.
Models == [F_V__F |-> <<F_V__F_Config, F_V__F_Layout>>, F_V8_Y |-> <<F_V8_Y_Config, F_V8_Y_Layout>>,
           F_VB |-> <<F_VB_Config, F_VB_Layout>>, Y_V8_Y |-> <<Y_V8_Y_Config, Y_V8_Y_Layout>>,
           Y_V8_F |-> <<Y_V8_F_Config, Y_V8_F_Layout>>, WTDN3 |-> <<WTDN3_Config, WTDN3_Layout>>,
           VCDWL2QEUK |-> <<VCDWL2QEUK_Config, VCDWL2QEUK_Layout>>,
           F3L2CYU |-> <<F3L2CYU_Config, F3L2CYU_Layout>>, RV13B6 |-> <<RV13B6_Config, RV13B6_Layout>>,
           Hd0C_F |-> <<Hd0C_F_Config, Hd0C_F_Layout>>, Pd0F_F |-> <<Pd0F_F_Config, Pd0F_F_Layout>>,
           RH16KR |-> <<RH16KR_Config, RH16KR_Layout>>, F21VDT |-> <<F21VDT_Config, F21VDT_Layout>>,
           D121111 |-> <<D121111_Config, D121111_Layout>>, RV13U6 |-> <<RV13U6_Config, RV13U6_Layout>>,
           T1789EFH |-> <<T1789EFH_Config, T1789EFH_Layout>>]

Config == Models[washer.model][1]
Layout == Models[washer.model][2]

Names(l) == {"power", "status"} \cup l.plain \cup l.zeroed \cup l.blank \cup l.held \cup l.apart

\* No model announces an entity that it never publishes, or publishes one that it does
\* not announce, which a sweep of the retained states would clear.
LaundryAssumption ==
    /\ \A m \in DOMAIN Models : Models[m][1].states = Names(Models[m][2])
    /\ MaxLine \in Nat \ {0}

-----------------------------------------------------------------------------
Phases == {"off", "standby", "run", "pause", "done"}
Amounts == {"zero", "some"}
Records == [phase : Phases, value : Amounts]
NoRecord == [phase |-> "off", value |-> "zero"]
Values == {"none", "ON", "OFF", "-"} \cup Amounts \cup Phases

\* pair: two records, the later one where the model has it; early: nothing but
\* that the appliance is on; apart: a value of its own, or none yet.
Frames == [type : {"single", "pair", "early", "apart"}, records : Seq(Records),
           value : Amounts \cup {"unset"}]
Frame(type, records, value) == [type |-> type, records |-> records, value |-> value]

LaundryTypeOK ==
    /\ washer \in [model : DOMAIN Models, record : Records, apart : Amounts \cup {"unset"}]
    /\ washerLink \in [up : BOOLEAN, heard : BOOLEAN, last : Records, count : BOOLEAN]
    /\ washerLine \in Seq(Frames) /\ Len(washerLine) <= MaxLine
    /\ washerShown \in [Config.states -> Values]
    /\ washerSent \in Config.commands \cup {"none"}

\* A handler starts with no record: appliance off, remote start disabled.
NoWasherHandler == [up |-> FALSE, heard |-> FALSE, last |-> NoRecord, count |-> FALSE]

-----------------------------------------------------------------------------
(* The appliance.                                                          *)

Changed(old, new) ==
    LET pair == Frame("pair", IF Layout.pair = "first" THEN <<new, old>> ELSE <<old, new>>, "unset")
        single == Frame("single", <<new>>, "unset")
        early == Frame("early", <<>>, "unset")
    IN IF Layout.pair = "none" THEN {<<single>>}
       ELSE {<<pair>>}
            \cup (IF washer.model = "Y_V8_F" THEN {<<single>>} ELSE {})
            \cup (IF washer.model = "VCDWL2QEUK" /\ new.phase # "off" THEN {<<early, pair>>} ELSE {})

\* The panel, the program or a command: the phase or the rest changes.
WasherChanges(new) ==
    /\ new # washer.record
    /\ new.phase = washer.record.phase \/ new.value = washer.record.value
    /\ washer' = [washer EXCEPT !.record = new]
    /\ IF washerLink.up
       THEN \E frames \in Changed(washer.record, new) :
                /\ Len(washerLine) + Len(frames) <= MaxLine
                /\ washerLine' = washerLine \o frames
       ELSE UNCHANGED washerLine
    /\ washerSent' = "none" /\ UNCHANGED <<washerLink, washerShown>>

WasherCounts(v) ==
    /\ Layout.apart # {} /\ washerLink.up /\ v # washer.apart
    /\ washer' = [washer EXCEPT !.apart = v]
    /\ Len(washerLine) < MaxLine
    /\ washerLine' = Append(washerLine, Frame("apart", <<>>, v))
    /\ washerSent' = "none" /\ UNCHANGED <<washerLink, washerShown>>

\* A new connection has a new handler, which asks, or is told without asking.
WasherConnects ==
    /\ ~washerLink.up
    /\ washerLink' = [NoWasherHandler EXCEPT !.up = TRUE]
    /\ washerLine' = <<Frame("single", <<washer.record>>, "unset")>>
    /\ washerSent' = "none" /\ UNCHANGED <<washer, washerShown>>

\* What is under way is lost.
WasherLost ==
    /\ washerLink.up
    /\ washerLink' = NoWasherHandler /\ washerLine' = <<>>
    /\ washerSent' = "none" /\ UNCHANGED <<washer, washerShown>>

-----------------------------------------------------------------------------
(* The handler.                                                            *)

IsOff(rec) == rec.phase \in Layout.off

\* What one entity shows of a record.
Decoded(e, rec) ==
    CASE e = "power" -> IF IsOff(rec) THEN "OFF" ELSE "ON"
      [] e = "status" -> IF IsOff(rec) THEN "off" ELSE rec.phase
      [] e = "run_completed" -> IF rec.phase = "done" THEN "ON" ELSE "OFF"
      [] e \in Layout.zeroed /\ IsOff(rec) -> "zero"
      [] e \in Layout.blank /\ IsOff(rec) -> "-"
      [] OTHER -> rec.value

\* processRecord, processStatus: the entities of the record, as they are retained when
\* the handler's turn is over.  Each is a message of its own, power before the times: a
\* subscriber sees an OFF beside the old time until that is published too.
ProcessRecord(rec) ==
    washerShown' = [e \in Config.states |->
        IF e \in Layout.apart \/ (e \in Layout.held /\ IsOff(rec)) THEN washerShown[e]
        ELSE Decoded(e, rec)]

ReadFirst(f) == f.records[1]

\* processAABB: the newest record of the frame.
ReadNewest(f) == IF f.type = "pair" /\ Layout.pair = "second" THEN f.records[2] ELSE f.records[1]

\* processData: a frame of a known shape.  A value of its own that is not set
\* yet is not published.
ProcessAABB(f) ==
    CASE f.type = "early" ->
           /\ washerShown' = [washerShown EXCEPT !["power"] = "ON"]
           /\ UNCHANGED washerLink
      [] f.type = "apart" ->
           /\ washerShown' = [e \in Config.states |->
                  IF e \in Layout.apart /\ f.value # "unset" THEN f.value ELSE washerShown[e]]
           /\ washerLink' = [washerLink EXCEPT !.count = (@ \/ f.value # "unset")]
      [] f.type = "single" /\ ~Layout.single ->
           UNCHANGED <<washerShown, washerLink>>
      [] OTHER ->
           /\ ProcessRecord(ReadNewest(f))
           /\ washerLink' = [washerLink EXCEPT !.heard = TRUE, !.last = ReadNewest(f)]

WasherHeard ==
    /\ washerLine # <<>>
    /\ ProcessAABB(Head(washerLine))
    /\ washerLine' = Tail(washerLine)
    /\ washerSent' = "none" /\ UNCHANGED washer

\* setProperty of the laundry models: as it comes.
Operate(c) == Config.commands = Operation /\ washerSent' = c

\* setProperty of Hd0C_F: by what the last record of this connection said.
\* "some" stands for remote start enabled with the normal course.
OperateGuarded(c) ==
    LET last == washerLink.last
    IN /\ washer.model = "Hd0C_F"
       /\ CASE c = "remote_start" -> last.value = "some" /\ last.phase = "standby"
            [] c = "pause" -> last.phase \notin {"off", "pause"}
            [] c = "power_off" -> last.phase # "off"
            [] OTHER -> FALSE
       /\ washerSent' = c

WasherCommand(c) ==
    /\ washerLink.up /\ (Operate(c) \/ OperateGuarded(c))
    /\ UNCHANGED <<washer, washerLink, washerLine, washerShown>>

LaundryInit ==
    /\ washer \in [model : DOMAIN Models, record : {NoRecord}, apart : {"unset"}]
    /\ washerLink = NoWasherHandler /\ washerLine = <<>>
    /\ washerShown = [e \in Config.states |-> "none"]
    /\ washerSent = "none"

LaundryNext ==
    \/ WasherConnects \/ WasherLost \/ WasherHeard
    \/ \E new \in Records : WasherChanges(new)
    \/ \E v \in Amounts : WasherCounts(v)
    \/ \E c \in Config.commands : WasherCommand(c)

LaundrySpec == LaundryInit /\ [][LaundryNext]_washerVars

-----------------------------------------------------------------------------
\* Once nothing is under way and this connection has brought a record, every entity that
\* the record speaks of shows the appliance as it is, whatever earlier handlers left
\* retained, and an entity with frames of its own shows the last (processAABB).
LatestIsShown ==
    washerLine = <<>> /\ washerLink.up /\ washerLink.heard =>
        /\ washerShown["power"] = "OFF" <=> washer.record.phase \in Layout.off
        /\ washer.record.phase \notin Layout.off => washerShown["status"] = washer.record.phase
        /\ \A e \in Layout.plain \ {"run_completed"} : washerShown[e] = washer.record.value
        /\ washer.record.phase \notin Layout.off =>
             \A e \in Layout.zeroed \cup Layout.blank \cup Layout.held :
                washerShown[e] = washer.record.value
        /\ washerLink.count => \A e \in Layout.apart : washerShown[e] = washer.apart

\* No turn of a handler ends with time left beside an OFF, also while states of an earlier
\* handler are retained, nor with a blank beside an ON: frames that publish the power
\* alone and records that skip entities leave none behind ("a stale countdown while OFF
\* would be misleading").
OffHasNoTime ==
    /\ washerShown["power"] = "OFF" => \A e \in Layout.zeroed : washerShown[e] = "zero"
    /\ washerShown["power"] = "ON" => \A e \in Layout.blank : washerShown[e] # "-"

\* Hd0C_F sends a start only while it shows remote start enabled on a ready appliance, and
\* nothing to one it shows off, although what is shown may be of another handler.
CommandShownPossible ==
    washer.model = "Hd0C_F" /\ washerSent' # "none" =>
        /\ washerShown["power"] = "ON"
        /\ washerSent' = "remote_start" =>
              washerShown["remote_start_enabled"] = "some" /\ washerShown["status"] = "standby"

CommandsAreShownPossible == [][CommandShownPossible]_washerVars

=============================================================================
