----------------------------- MODULE MonitorLoop -----------------------------
(***************************************************************************)
(* The ThinQ1 handlers of the air purifier and the old dehumidifier        *)
(* (cloud/devices/AIR_910604_WW.ts, DHUM_056905_WW_ThinQ1.ts): the         *)
(* appliance says nothing of itself until a monitor is started, so the     *)
(* handler starts one, takes the first state it answers with, stops it,    *)
(* and comes back after a while.                                           *)
(*                                                                         *)
(* Four timers, the acknowledgements of the appliance - of the handler's   *)
(* own requests and of what is done at its panel - and the commands of     *)
(* Home Assistant meet in two flags.  Commands are shown ahead of the      *)
(* appliance (the purifier does), so each has to be followed by a reading. *)
(***************************************************************************)
EXTENDS Naturals

CONSTANT Purifier   \* TRUE: the purifier, which asks for its filter once and
                    \* shows a command at once; FALSE: the dehumidifier

VARIABLES
    loop,     \* started, monitorInFlight and filterRequested
    ticking,  \* the timers that are set
    power,    \* lastPowerState, what is shown, and what the appliance is
    acks,     \* acknowledgements on the way: of the loop's own requests or not,
              \* and whether ignoreAckOnlyUntil lies ahead
    owed      \* commands sent since the last monitor was started

monVars == <<loop, ticking, power, acks, owed>>

Power == {"on", "off"}
MonTimers == {"periodic", "monitor", "refresh", "filter"}

MonTypeOK ==
    /\ loop \in [started: BOOLEAN, over: BOOLEAN, inFlight: BOOLEAN, asked: BOOLEAN]
    /\ ticking \subseteq MonTimers
    /\ power \in [last: Power \cup {"unknown"}, shown: Power \cup {"unknown"}, is: Power]
    /\ acks \in [own: BOOLEAN, panel: BOOLEAN, ignore: BOOLEAN]
    /\ owed \in BOOLEAN

MonInit ==
    /\ loop = [started |-> FALSE, over |-> FALSE, inFlight |-> FALSE, asked |-> FALSE]
    /\ ticking = {}
    /\ power \in [last: {"unknown"}, shown: {"unknown"}, is: Power]
    /\ acks = [own |-> FALSE, panel |-> FALSE, ignore |-> FALSE]
    /\ owed = FALSE

-----------------------------------------------------------------------------
\* A step works on a record of what the handler owns.
Now == [l |-> loop, t |-> ticking, a |-> acks, owed |-> owed]
Then(r) == loop' = r.l /\ ticking' = r.t /\ acks' = r.a /\ owed' = r.owed

\* requestMonitorSnapshot: never a second one, and the acknowledgement of
\* the request is not taken for one of the panel.
RequestMonitorSnapshot(r) ==
    IF ~r.l.started \/ r.l.inFlight THEN r
    ELSE [r EXCEPT !.l.inFlight = TRUE, !.t = (@ \ {"periodic"}) \cup {"monitor"},
                   !.a.ignore = TRUE, !.a.own = TRUE, !.owed = FALSE]

\* schedulePeriodicSnapshot: a minute, five while the appliance is off.
SchedulePeriodicSnapshot(r) ==
    IF r.l.started THEN [r EXCEPT !.t = @ \cup {"periodic"}] ELSE r

FinishMonitorSnapshotHeard(r) ==
    IF ~r.l.inFlight THEN r
    ELSE SchedulePeriodicSnapshot(
           [r EXCEPT !.l.inFlight = FALSE, !.t = @ \ {"monitor"}, !.a.own = TRUE])

\* The acknowledgement of the stop is the loop's own as well.
FinishMonitorSnapshot(r) ==
    IF ~r.l.inFlight THEN r
    ELSE SchedulePeriodicSnapshot(
           [r EXCEPT !.l.inFlight = FALSE, !.t = @ \ {"monitor"},
                     !.a.ignore = TRUE, !.a.own = TRUE])

ScheduleMonitorSnapshot(r) ==
    IF r.l.started THEN [r EXCEPT !.t = @ \cup {"refresh"}] ELSE r

ScheduleFilterQuery(r) ==
    IF ~Purifier \/ r.l.asked \/ ~r.l.started THEN r
    ELSE [r EXCEPT !.l.asked = TRUE, !.t = @ \cup {"filter"}]

\* publishProperty keeps the power for the interval, and sends it on when it
\* differs from what was sent last.
PublishPower(v) == power' = [power EXCEPT !.last = v, !.shown = v]

-----------------------------------------------------------------------------
Start ==
    /\ ~loop.started /\ ~loop.over
    /\ Then(RequestMonitorSnapshot([Now EXCEPT !.l.started = TRUE]))
    /\ UNCHANGED power

\* stopTimers: nothing of the connection arrives afterwards.
Stop ==
    /\ loop.started
    /\ Then([Now EXCEPT !.l.started = FALSE, !.l.over = TRUE, !.t = {}])
    /\ UNCHANGED power

MonitorTimeout ==
    /\ "monitor" \in ticking
    /\ Then(FinishMonitorSnapshot(Now)) /\ UNCHANGED power

PeriodicTimeout ==
    /\ "periodic" \in ticking
    /\ Then(RequestMonitorSnapshot([Now EXCEPT !.t = @ \ {"periodic"}]))
    /\ UNCHANGED power

\* A monitor already running may have been answered before the command was
\* carried out: wait for another.
RefreshTimeout ==
    /\ "refresh" \in ticking
    /\ LET fired == [Now EXCEPT !.t = @ \ {"refresh"}]
       IN Then(IF loop.inFlight THEN ScheduleMonitorSnapshot(fired)
               ELSE RequestMonitorSnapshot(fired))
    /\ UNCHANGED power

FilterTimeoutFires ==
    /\ "filter" \in ticking
    /\ Then([Now EXCEPT !.t = @ \ {"filter"}]) /\ UNCHANGED power

\* processData with a whole state, which ends the snapshot; or with the
\* filter's answer alone, which does not.
StateData ==
    /\ loop.started
    /\ PublishPower(power.is)
    /\ Then(ScheduleFilterQuery(FinishMonitorSnapshot(Now)))

\* processResponse: a bare acknowledgement outside a snapshot and outside
\* the second after one means that somebody has used the panel.
Ack(r) ==
    IF ~r.l.started \/ r.l.inFlight \/ r.a.ignore THEN r ELSE ScheduleMonitorSnapshot(r)

OwnAck == acks.own /\ Then(Ack([Now EXCEPT !.a.own = FALSE])) /\ UNCHANGED power
PanelAck == acks.panel /\ Then(Ack([Now EXCEPT !.a.panel = FALSE])) /\ UNCHANGED power

\* The second is over.  The appliance acknowledges within it.
IgnoreEnds ==
    /\ acks.ignore /\ ~acks.own
    /\ acks' = [acks EXCEPT !.ignore = FALSE]
    /\ UNCHANGED <<loop, ticking, power, owed>>

\* The panel: the appliance changes and acknowledges.
PanelUsed(v) ==
    /\ loop.started
    /\ power' = [power EXCEPT !.is = v]
    /\ acks' = [acks EXCEPT !.panel = TRUE]
    /\ UNCHANGED <<loop, ticking, owed>>

\* setProperty: sent, shown at once by the purifier, and read back two
\* seconds later; the appliance may not carry it out.
SetProperty(v, obeys) ==
    /\ loop.started
    /\ power' = [last |-> IF Purifier THEN v ELSE power.last,
                 shown |-> IF Purifier THEN v ELSE power.shown,
                 is |-> IF obeys THEN v ELSE power.is]
    /\ Then([ScheduleMonitorSnapshot(Now) EXCEPT !.owed = TRUE, !.a.panel = TRUE])

MonNext ==
    \/ Start \/ Stop \/ MonitorTimeout \/ PeriodicTimeout \/ RefreshTimeout
    \/ FilterTimeoutFires \/ StateData \/ OwnAck \/ PanelAck \/ IgnoreEnds
    \/ \E v \in Power : PanelUsed(v) \/ \E obeys \in BOOLEAN : SetProperty(v, obeys)

\* Timers fire and the second passes; nothing is asked of the appliance.
MonFairness ==
    /\ WF_monVars(MonitorTimeout) /\ WF_monVars(PeriodicTimeout)
    /\ SF_monVars(RefreshTimeout /\ ~loop.inFlight)
    /\ WF_monVars(IgnoreEnds) /\ WF_monVars(OwnAck)

MonSpec == MonInit /\ [][MonNext]_monVars /\ MonFairness

-----------------------------------------------------------------------------
\* A started loop never goes to sleep: a monitor that runs will be given up,
\* and without one the next is scheduled; a command is followed by a reading
\* begun after it, whatever was running when it came; a stopped loop has
\* nothing left to do (requestMonitorSnapshot, finishMonitorSnapshot,
\* schedulePeriodicSnapshot, scheduleMonitorSnapshot, stopTimers).
LoopGoesOn ==
    /\ loop.started => IF loop.inFlight THEN "monitor" \in ticking
                       ELSE {"periodic", "refresh"} \cap ticking # {}
    /\ loop.started /\ owed => "refresh" \in ticking
    /\ ~loop.started => ticking = {}

\* The acknowledgement of the loop's own request starts no other reading, or
\* the loop would feed itself (ignoreAckOnlyUntil).
OwnAcksAreIgnored == [][acks.own /\ ~acks'.own => ticking' \subseteq ticking]_monVars

\* Every command is read back as long as the handler lives, whether or not
\* the appliance answers what it is asked.
OwedIsReadBack == owed ~> ~owed \/ ~loop.started

=============================================================================
