----------------------------- MODULE RacClimate -----------------------------
(***************************************************************************)
(* The handler of the wall and window air conditioners                     *)
(* (cloud/devices/RAC_056905_WW.ts): its start, what it keeps of the last  *)
(* frames, and the settings it writes back to an appliance that has been   *)
(* switched on.                                                            *)
(*                                                                         *)
(* Three settings do not survive a power-off of the appliance.  The        *)
(* handler remembers them and writes each again, in a message of its own,  *)
(* when it sees the power come on or the mode change.  What it "sees" is   *)
(* the difference between a frame and powerStatePrev/modePrev, while the   *)
(* raw state the difference is judged with may have been written ahead by  *)
(* a command of Home Assistant; and one frame can carry power and mode in  *)
(* either order.                                                           *)
(***************************************************************************)
EXTENDS Naturals, FiniteSets, Sequences

CONSTANTS
    RacModes,      \* the modes of the appliance: "cool" and others
    JetModes,      \* those that have the jet: of "cool" and "heat"
    MaxFrame       \* entries of a frame that matter here

RacAssumption ==
    /\ "cool" \in RacModes /\ RacModes \cap {"off", "unknown"} = {}
    /\ JetModes \subseteq RacModes /\ MaxFrame \in Nat

VARIABLES
    stage,     \* how far the start has come; "stopped" after stopTimers
    filter,    \* what the filter questions and their timers have come to
    climate,   \* raw and recorded state: see ClimateRecords
    written,   \* the settings the last step made the handler write back, in order
    polling    \* the interval of the periodic query and the timer that ends it

racVars == <<stage, filter, climate, written, polling>>

Settings == {"air", "jet", "save"}
OffOn == {"off", "on"}

\* What the handler knows: raw power and mode (raw_clip_state, written by
\* frames and, ahead of them, by commands), powerStatePrev and modePrev, the
\* three remembered settings and processTLV's flag.
ClimateRecords ==
    [power: OffOn, mode: RacModes, powerPrev: OffOn \cup {"unknown"},
     modePrev: RacModes \cup {"off", "unknown"}, kept: SUBSET Settings,
     inFrame: BOOLEAN]

Stages == {"asking", "unmasking", "probing", "ready", "stopped"}

RacTypeOK ==
    /\ stage \in Stages
    /\ filter \in [offered: BOOLEAN, daily: BOOLEAN, made: 0..2]
    /\ climate \in ClimateRecords
    /\ written \in Seq(Settings)
    /\ polling \in [fast: BOOLEAN, reset: BOOLEAN, rests: BOOLEAN]

RacInit ==
    /\ stage = "asking"
    /\ filter = [offered |-> FALSE, daily |-> FALSE, made |-> 0]
    /\ climate \in [power: OffOn, mode: RacModes, powerPrev: {"unknown"},
                    modePrev: {"unknown"}, kept: {{}}, inFrame: {FALSE}]
    /\ written = <<>>
    /\ polling = [fast |-> FALSE, reset |-> FALSE, rests |-> FALSE]

-----------------------------------------------------------------------------
(* The start: values, the empty blacklist, the filter, the configuration.  *)

\* initMakeSetConfig registers the fields and the hooks, offers the filter
\* entities when a filter is known, and starts the daily question.
MakeConfig(known) ==
    filter' = [offered |-> known, daily |-> known, made |-> filter.made + 1]

\* The first values answer; later ones find initialValuesReceived set.
ValuesReceived ==
    /\ stage = "asking"
    /\ stage' = "unmasking"
    /\ UNCHANGED <<filter, climate, written, polling>>

\* Half a second after the blacklist: ask for the filter, unless the
\* appliance has the management this handler does not support.
BlacklistSet ==
    /\ stage = "unmasking"
    /\ \/ stage' = "probing" /\ UNCHANGED filter
       \/ stage' = "ready" /\ MakeConfig(FALSE)
    /\ UNCHANGED <<climate, written, polling>>

\* Five seconds without an answer: no filter.
FilterTimeout ==
    /\ stage = "probing"
    /\ stage' = "ready"
    /\ MakeConfig(FALSE)
    /\ UNCHANGED <<climate, written, polling>>

FilterDataUncleared(life) ==
    /\ stage = "probing"
    /\ MakeConfig(life)
    /\ UNCHANGED <<stage, climate, written, polling>>

\* An answer: to the first question, which completes the start whatever the
\* lifetime in it; a late one, the daily one and the one after a reset only
\* publish what they say.
FilterData(life) ==
    /\ stage = "probing"
    /\ stage' = "ready"
    /\ MakeConfig(life)
    /\ UNCHANGED <<climate, written, polling>>

-----------------------------------------------------------------------------
(* Writes.  A result r holds the climate record c, the settings written    *)
(* (out) and the polling p.                                                *)

\* The modes a setting works in (write_callback, read_callback).
Applies(c, s) == CASE s = "jet"  -> c.mode \in JetModes
                   [] s = "save" -> c.mode = "cool"
                   [] s = "air"  -> TRUE

\* setProperty of a setting: remembered whatever happens, written only while
\* the appliance runs in a mode that has it.
SetSetting(r, s, on) ==
    LET c == r.c
    IN [r EXCEPT !.c.kept = IF on THEN @ \cup {s} ELSE @ \ {s},
                 !.out = IF c.power = "on" /\ Applies(c, s) THEN Append(@, s) ELSE @]

\* updateQueryInterval: fast at once, slow again a quarter of an hour later.
QueryInterval(p, active) ==
    IF active THEN [p EXCEPT !.fast = TRUE, !.reset = FALSE]
    ELSE [p EXCEPT !.reset = TRUE]

\* updateClimateAction: cooling, drying or heating is active, unless the
\* indoor unit says it rests.
ClimateAction(r) ==
    [r EXCEPT !.p = QueryInterval(@, r.c.power = "on" /\ r.c.mode # "fan" /\ ~r.p.rests)]

\* The hooks of a setting: with the power it is written if it is remembered,
\* with the mode as it is remembered.
WithPower(r, s) ==
    IF r.c.power = "off" \/ s \notin r.c.kept THEN r ELSE SetSetting(r, s, TRUE)
WithMode(r, s) == SetSetting(r, s, s \in r.c.kept)

\* powerChangeHooks and modeChangeHooks, in the order they were registered.
PowerHooks(r) == ClimateAction(WithPower(WithPower(WithPower(r, "air"), "jet"), "save"))
ModeHooks(r) == ClimateAction(WithMode(WithMode(r, "jet"), "save"))

-----------------------------------------------------------------------------
(* Frames of the appliance.                                                *)

ReadModeAnyhow(r) ==
    LET c == r.c
        shown == IF c.power = "off" THEN "off" ELSE c.mode
        changed == c.modePrev \notin {"unknown", shown} /\ c.power = "on"
    IN [(IF changed THEN ModeHooks(r) ELSE r) EXCEPT !.c.modePrev = shown]

\* The callback of 0x1f9: hooks only when the mode alone changed, while the
\* appliance was already known to be on.
ReadMode(r) ==
    LET c == r.c
        shown == IF c.power = "off" THEN "off" ELSE c.mode
        stable == c.powerPrev # "unknown" /\ c.power = c.powerPrev
        changed == /\ c.modePrev \notin {"unknown", shown}
                   /\ ~c.inFrame /\ stable /\ c.power = "on"
        after == IF changed THEN ModeHooks(r) ELSE r
    IN [after EXCEPT !.c.modePrev = shown]

\* The callback of 0x1f7 reads the mode first; the first reading is no change.
ReadPower(r) ==
    LET m == ReadMode(r)
        v == r.c.power
        after == IF m.c.powerPrev \notin {"unknown", v} THEN PowerHooks(m) ELSE m
    IN [after EXCEPT !.c.powerPrev = v]

\* The callback of a setting is ignored while off or in another mode.
ReadSetting(r, s, on) ==
    IF r.c.power = "off" \/ ~Applies(r.c, s) THEN r
    ELSE [r EXCEPT !.c.kept = IF on THEN @ \cup {s} ELSE @ \ {s}]

Entries == ({"power"} \X OffOn) \cup ({"mode"} \X RacModes) \cup (Settings \X OffOn)

\* The frames that matter: no key twice, one setting at most.
RacFrames == {f \in UNION {[1..n -> Entries] : n \in 1..MaxFrame} :
              \A i, j \in DOMAIN f :
                 f[i][1] = f[j][1] \/ {f[i][1], f[j][1]} \subseteq Settings => i = j}

\* processKeyValue: the raw value first, then the field's callback.
ReadEntry(r, kv) ==
    CASE kv[1] = "power" -> ReadPower([r EXCEPT !.c.power = kv[2]])
      [] kv[1] = "mode"  -> ReadMode([r EXCEPT !.c.mode = kv[2]])
      [] OTHER           -> ReadSetting(r, kv[1], kv[2] = "on")

\* processTLV: a frame that turns the power is marked before any callback
\* runs, and its mode applied first.
ProcessTLV(r, f) ==
    LET c == r.c
        turns == /\ c.powerPrev # "unknown"
                 /\ \E i \in DOMAIN f : f[i][1] = "power" /\ f[i][2] # c.powerPrev
        ahead == {f[i][2] : i \in {i \in DOMAIN f : f[i][1] = "mode"}}
        start == IF turns /\ ahead # {}
                 THEN [c EXCEPT !.mode = CHOOSE m \in ahead : TRUE, !.inFrame = turns]
                 ELSE [c EXCEPT !.inFrame = turns]
        read[i \in 0..Len(f)] ==
            IF i = 0 THEN [r EXCEPT !.c = start] ELSE ReadEntry(read[i - 1], f[i])
    IN [read[Len(f)] EXCEPT !.c.inFrame = c.inFrame]

Result(p) == [c |-> climate, out |-> <<>>, p |-> p]

RacFrame(f) ==
    /\ stage = "ready"
    /\ LET end == ProcessTLV(Result(polling), f)
       IN climate' = end.c /\ written' = end.out /\ polling' = end.p
    /\ UNCHANGED <<stage, filter>>

\* A frame with the indoor unit's own running flag recomputes it as well.
RunningFlag(resting) ==
    /\ stage = "ready"
    /\ polling' = ClimateAction(Result([polling EXCEPT !.rests = resting])).p
    /\ written' = <<>>
    /\ UNCHANGED <<stage, filter, climate>>

\* The quarter of an hour is over.
SlowAgain ==
    /\ stage = "ready" /\ polling.reset
    /\ polling' = [polling EXCEPT !.fast = FALSE, !.reset = FALSE]
    /\ written' = <<>>
    /\ UNCHANGED <<stage, filter, climate>>

-----------------------------------------------------------------------------
(* Commands of Home Assistant.                                             *)

\* Choosing 'off' is a power command; choosing a mode of an appliance that is
\* off attaches the power, and the raw state is written ahead of the answer.
CommandMode(m) ==
    /\ stage = "ready"
    /\ climate' = IF m = "off" THEN [climate EXCEPT !.power = "off"]
                  ELSE [climate EXCEPT !.mode = m, !.power = "on"]
    /\ written' = <<>>
    /\ UNCHANGED <<stage, filter, polling>>

CommandPower(on) ==
    /\ stage = "ready"
    /\ climate' = [climate EXCEPT !.power = on]
    /\ written' = <<>>
    /\ UNCHANGED <<stage, filter, polling>>

CommandSetting(s, on) ==
    /\ stage = "ready"
    /\ climate' = SetSetting(Result(polling), s, on).c
    /\ written' = <<>>
    /\ UNCHANGED <<stage, filter, polling>>

\* stopTimers: every timer of the handler, the reset of the interval included.
StopTimers ==
    /\ stage # "stopped"
    /\ stage' = "stopped"
    /\ filter' = [filter EXCEPT !.daily = FALSE]
    /\ polling' = [polling EXCEPT !.reset = FALSE]
    /\ written' = <<>>
    /\ UNCHANGED climate

RacNext ==
    \/ ValuesReceived \/ BlacklistSet \/ FilterTimeout \/ SlowAgain \/ StopTimers
    \/ \E life \in BOOLEAN : FilterData(life)
    \/ \E f \in RacFrames : RacFrame(f)
    \/ \E resting \in BOOLEAN : RunningFlag(resting)
    \/ \E m \in RacModes \cup {"off"} : CommandMode(m)
    \/ \E on \in OffOn : CommandPower(on)
    \/ \E s \in Settings, on \in BOOLEAN : CommandSetting(s, on)

RacSpec == RacInit /\ [][RacNext]_racVars

-----------------------------------------------------------------------------
\* The start ends once: the hooks of a setting, which would write it again
\* for each time they were registered, and the daily question exist once,
\* and a stopped handler has no timer left (initMakeSetConfig, stopTimers).
StartsOnce ==
    /\ stage = "ready" => filter.made = 1
    /\ filter.made <= 1
    /\ stage = "stopped" => ~filter.daily /\ ~polling.reset

Times(s) == Cardinality({i \in DOMAIN written : written[i] = s})

\* Settings are written back exactly when the appliance itself moved: once
\* each at a power-up it reports, whatever the order of the frame, never at
\* the first reading after a start unless the mode moved with it, and never by a
\* frame that leaves it off.  Twice only by a frame that turns nothing and
\* shows, one after the other, a mode that a command had written ahead and the
\* mode the appliance is in.  An appliance reported off is not polled fast for
\* ever (the hooks of power and mode, updateClimateAction).
WrittenBack ==
    LET up == climate.powerPrev = "off" /\ climate'.powerPrev = "on"
        overtaken == /\ climate.modePrev \notin {"unknown", climate.mode}
                     /\ climate'.powerPrev = climate.powerPrev
    IN /\ up => \A s \in Settings :
                  s \in climate.kept /\ s \in climate'.kept /\ Applies(climate', s)
                  => Times(s)' = 1
       /\ \A s \in Settings : Times(s)' <= IF overtaken THEN 2 ELSE 1
       /\ climate.powerPrev = "unknown" /\ climate'.mode = climate.mode => written' = <<>>
       /\ climate'.power = "off" => written' = <<>>
       /\ climate.powerPrev = "on" /\ climate'.powerPrev = "off"
          => ~polling'.fast \/ polling'.reset
SettingsWrittenBack == [][WrittenBack]_racVars

=============================================================================
