----------------------------- MODULE PacClimate -----------------------------
(***************************************************************************)
(* The handler of the floor standing air conditioner PAC_910604_WW         *)
(* (cloud/devices/PAC_910604_WW.ts).                                       *)
(*                                                                         *)
(* Its fan level doubles as the long power switch: one value of the field  *)
(* is no level, and the level to return to is what was read before it.     *)
(* Cool power is a switch of its own, and the two undo each other.  Both   *)
(* leave the fan-only mode through two timers, one that switches the air   *)
(* cleaning off behind the change of mode, one that writes long power when *)
(* the appliance has had time to follow.                                   *)
(***************************************************************************)
EXTENDS Naturals, Sequences

CONSTANTS
    PacModes,      \* "cool", "fan" and others
    PacLevels,     \* fan levels, PAC_FAN_MODE_ENTRIES
    PacFrame       \* entries of a frame that matter here

PacAssumption ==
    /\ {"cool", "fan"} \subseteq PacModes
    /\ PacLevels # {} /\ "long" \notin PacLevels /\ PacFrame \in Nat

VARIABLES
    pac,        \* raw state, what the hooks compare with, cool power's flag
    pacShown,   \* the retained states Home Assistant shows
    pacTimers,  \* which timers run; "fast" is the interval of the query
    pacSent     \* the writes of the last step, in order

pacVars == <<pac, pacShown, pacTimers, pacSent>>

Switch == {"off", "on"}
FanValues == PacLevels \cup {"long"}
Timers == {"fanOnlyStop", "longPower", "slowAgain"}

\* A write as the appliance gets it: the field, its value and the mode the
\* frame attaches ("-" when it attaches none).
Writes == [field: {"power", "mode", "fan", "cool", "clean"},
           value: Switch \cup PacModes \cup FanValues, with: PacModes \cup {"-"}]
Write(f, v, m) == [field |-> f, value |-> v, with |-> m]

PacTypeOK ==
    /\ pac \in [power: Switch, mode: PacModes, fan: FanValues, jet: BOOLEAN,
                before: PacLevels, powerPrev: Switch \cup {"unknown"},
                modePrev: PacModes \cup {"off", "unknown"}]
    /\ pacShown \in [mode: PacModes \cup {"off", "unknown"}, fan: PacLevels \cup {"unknown"},
                     long: Switch \cup {"unknown"}, watts: {"unknown", "zero", "some"}]
    /\ pacTimers \subseteq Timers \cup {"fast", "dropped"}
    /\ pacSent \in Seq(Writes)

\* The configuration has just been made of the first values.
PacInit ==
    /\ \E p \in Switch, m \in PacModes, f \in FanValues, b \in PacLevels :
         pac = [power |-> p, mode |-> m, fan |-> f, jet |-> FALSE, before |-> b,
                powerPrev |-> "unknown", modePrev |-> "unknown"]
    /\ pacShown = [mode |-> "unknown", fan |-> "unknown", long |-> "unknown",
                   watts |-> "unknown"]
    /\ pacTimers = {} /\ pacSent = <<>>

State == [p |-> pac, sh |-> pacShown, t |-> pacTimers, out |-> <<>>]
Become(r) == pac' = r.p /\ pacShown' = r.sh /\ pacTimers' = r.t /\ pacSent' = r.out
Alive == "dropped" \notin pacTimers

-----------------------------------------------------------------------------
(* Commands.                                                               *)

\* schedulePacFanOnlyStop: one timer, started again by each change.
FanOnlyStop(r) == [r EXCEPT !.t = @ \cup {"fanOnlyStop"}]

SetPower(r, on) ==
    [r EXCEPT !.p.power = on,
              !.out = Append(@, Write("power", on, IF on = "on" THEN r.p.mode ELSE "-"))]

\* Choosing a mode of an appliance that is off goes through the power field.
SetMode(r, m) ==
    CASE m = "off" -> SetPower(r, "off")
      [] m # "off" /\ r.p.power = "off" -> SetPower([r EXCEPT !.p.mode = m], "on")
      [] OTHER ->
           [(IF r.p.mode = "fan" /\ m # "fan" THEN FanOnlyStop(r) ELSE r)
              EXCEPT !.p.mode = m, !.out = Append(@, Write("mode", m, m))]

SetCoolPower(r, on) ==
    [(IF on /\ r.p.mode = "fan" THEN FanOnlyStop(r) ELSE r)
       EXCEPT !.p.jet = on,
              !.out = Append(@, Write("cool", IF on THEN "on" ELSE "off", "-"))]

\* writePacFanMode sends the level with the mode it knows now.
WriteFan(r, v) ==
    [r EXCEPT !.p.fan = v, !.out = Append(@, Write("fan", v, r.p.mode))]

CoolPowerEnds(r) == IF r.p.jet THEN SetCoolPower(r, FALSE) ELSE r

\* Off returns to the level before; on leaves the fan-only mode first and
\* comes back 1.7 seconds later.
SetLongPower(r, on) ==
    IF ~on THEN (IF r.p.fan = "long" THEN WriteFan(r, r.p.before) ELSE r)
    ELSE LET cleared == CoolPowerEnds(r)
         IN IF r.p.mode = "fan"
            THEN [SetMode(cleared, "cool") EXCEPT !.t = @ \cup {"longPower"}]
            ELSE WriteFan(cleared, "long")

PacCommand ==
    /\ Alive
    /\ \/ \E on \in Switch : Become(SetPower(State, on))
       \/ \E m \in PacModes \cup {"off"} : Become(SetMode(State, m))
       \/ \E on \in BOOLEAN : Become(SetCoolPower(State, on))
       \/ \E on \in BOOLEAN : Become(SetLongPower(State, on))
       \/ \E v \in PacLevels : Become(WriteFan(CoolPowerEnds(State), v))

\* 1.4 seconds after the fan-only mode was left: air cleaning off.
FanOnlyStopFires ==
    /\ "fanOnlyStop" \in pacTimers
    /\ Become([State EXCEPT !.t = @ \ {"fanOnlyStop"},
                            !.out = Append(@, Write("clean", "off", "-"))])

LongPowerFires ==
    /\ "longPower" \in pacTimers
    /\ Become(WriteFan([State EXCEPT !.t = @ \ {"longPower"}], "long"))

-----------------------------------------------------------------------------
(* Frames.                                                                 *)

\* updateClimateAction: this model is polled fast in fan-only as well.
PacAction(r) ==
    [r EXCEPT !.t = IF r.p.power = "on" THEN (@ \cup {"fast"}) \ {"slowAgain"}
                    ELSE @ \cup {"slowAgain"}]

PacReadMode(r) ==
    LET shown == IF r.p.power = "off" THEN "off" ELSE r.p.mode
        moved == r.p.modePrev \notin {"unknown", shown}
    IN [(IF moved THEN PacAction(r) ELSE r) EXCEPT !.p.modePrev = shown, !.sh.mode = shown]

\* Power shows the mode, and zero watts when it is off.
PacReadPower(r) ==
    LET m == PacReadMode(r)
        w == IF r.p.power = "off" THEN [m EXCEPT !.sh.watts = "zero"] ELSE m
        moved == r.p.powerPrev \notin {"unknown", r.p.power}
    IN [(IF moved THEN PacAction(w) ELSE w) EXCEPT !.p.powerPrev = r.p.power]

PacReadFanRemembering(r) ==
    [r EXCEPT !.p.before = r.p.fan, !.sh.fan = r.p.fan,
              !.sh.long = IF r.p.fan = "long" THEN "on" ELSE "off"]

\* A level is remembered; long power shows the level before it.
PacReadFan(r) ==
    IF r.p.fan = "long" THEN [r EXCEPT !.sh.long = "on", !.sh.fan = r.p.before]
    ELSE [r EXCEPT !.p.before = r.p.fan, !.sh.long = "off", !.sh.fan = r.p.fan]

PacRead(r, kv) ==
    CASE kv[1] = "power" -> PacReadPower([r EXCEPT !.p.power = kv[2]])
      [] kv[1] = "mode"  -> PacReadMode([r EXCEPT !.p.mode = kv[2]])
      [] kv[1] = "fan"   -> PacReadFan([r EXCEPT !.p.fan = kv[2]])
      [] kv[1] = "cool"  -> [r EXCEPT !.p.jet = (kv[2] = "on")]
      [] kv[1] = "watts" -> [r EXCEPT !.sh.watts = IF r.p.power = "off" THEN "zero" ELSE "some"]

PacEntries == ({"power", "cool"} \X Switch) \cup ({"mode"} \X PacModes)
              \cup ({"fan"} \X FanValues) \cup {<<"watts", "on">>}
\* The frames that matter: no key twice; the fan and cool power, which no other
\* callback reads, come alone.
PacFrames == {f \in UNION {[1..n -> PacEntries] : n \in 1..PacFrame} :
                 \A i, j \in DOMAIN f :
                    i # j => f[i][1] # f[j][1] /\ f[i][1] \notin {"fan", "cool"}}

PacReport(f) ==
    /\ Alive
    /\ LET read[i \in 0..Len(f)] == IF i = 0 THEN State ELSE PacRead(read[i - 1], f[i])
       IN Become(read[Len(f)])

PacSlowAgain ==
    /\ "slowAgain" \in pacTimers
    /\ Become([State EXCEPT !.t = @ \ {"slowAgain", "fast"}])

\* stopTimers clears every timer of the handler.
PacStops == Alive /\ Become([State EXCEPT !.t = {"dropped"}])

PacNext ==
    \/ PacCommand \/ FanOnlyStopFires \/ LongPowerFires \/ PacSlowAgain \/ PacStops
    \/ \E f \in PacFrames : PacReport(f)

PacSpec == PacInit /\ [][PacNext]_pacVars

-----------------------------------------------------------------------------
\* What Home Assistant shows follows the appliance through the overlapping
\* fields: once the mode is shown off by an appliance that was seen to switch
\* off the power shows zero, in whatever order one frame carried the two; the
\* long power switch is on exactly when the fan read last is no level; and
\* long power switched off while the fan carries it writes a level the
\* appliance has had, with the mode it is in (read callbacks of 0x1f7, 0x1fa
\* and 0x2b3, the write callback of longpower).
PacFollowed ==
    /\ pac.powerPrev = "on" /\ pac'.powerPrev = "off" => pacShown'.watts = "zero"
    /\ pacShown'.long # pacShown.long
       => pacShown'.long = IF pac'.fan = "long" THEN "on" ELSE "off"
    /\ pac.fan = "long" /\ pac'.fan # "long" /\ pacSent' # <<>>
       => pacSent'[Len(pacSent')] = Write("fan", pac'.fan, pac'.mode)
    /\ pac.fan = "long" /\ pac'.fan = "long" => pac'.before = pac.before
PacFollows == [][PacFollowed]_pacVars

\* Cool power is never left on behind a long power that was asked for while
\* the appliance was not in fan-only, nor a mode written alone to an appliance
\* known to be off; a stopped handler writes nothing.
PacWrites ==
    /\ \A i \in DOMAIN pacSent :
         /\ pacSent[i].field = "fan" /\ pacSent[i].value = "long" => Alive
         /\ pacSent[i].field = "mode" => pac.power = "on"
    /\ ~Alive => pacTimers = {"dropped"} /\ pacSent = <<>>

=============================================================================
