---------------------------- MODULE EnergyTotals ----------------------------
(***************************************************************************)
(* The running totals of the air conditioners (cloud/devices/              *)
(* energy_meter.ts) and the outdoor unit several of them share             *)
(* (cloud/devices/outdoor_unit.ts).                                        *)
(*                                                                         *)
(* A total is a meter reading: Home Assistant takes differences of what is *)
(* published, so what it has seen must survive the handler, which lives as *)
(* long as one connection, and the process.  One appliance here has a      *)
(* meter of its own, made anew with each handler; the heads of a group     *)
(* share one that lives as long as the process and counts the highest      *)
(* reading among those that run.  Energy is in units of the smallest       *)
(* reading over the shortest interval told apart.                          *)
(***************************************************************************)
EXTENDS Integers, FiniteSetsExt

CONSTANTS
    Heads,        \* the appliances that share the outdoor unit
    Primary,      \* the first of them, where the group's sensors appear
    MaxWatts,     \* readings are 1..MaxWatts
    MaxGap,       \* MAX_POWER_SAMPLE_GAP_S, in intervals
    MaxTotal      \* bound on every total

EnergyAssumption ==
    /\ Primary \in Heads
    /\ MaxWatts \in Nat \ {0} /\ MaxGap \in Nat \ {0} /\ MaxTotal \in Nat

VARIABLES
    meter,      \* "own" and "group": what is in memory, saved and published
    reading,    \* OutdoorUnit.readings, 0 for a head without one
    heads,      \* the heads that have a handler, and which of them were heard to run
    attached,   \* OutdoorUnit.publisher
    interval    \* of the intervals the own appliance measures: sent, still a repeat

energyVars == <<meter, reading, heads, attached, interval>>

Meters == {"own", "group"}
Reports == {"none", "a", "b"}

EnergyTypeOK ==
    /\ meter \in [Meters -> [live: BOOLEAN, total: 0..MaxTotal, sampled: BOOLEAN,
                             reports: BOOLEAN, last: Reports,
                             saved: [total: 0..MaxTotal, reports: BOOLEAN, last: Reports],
                             shown: 0..MaxTotal]]
    /\ reading \in [Heads -> 0..MaxWatts]
    /\ heads \in [up: SUBSET Heads, running: SUBSET Heads]
    /\ attached \in BOOLEAN
    /\ interval \in [sent: Reports, recent: BOOLEAN]

EnergyInit ==
    /\ meter = [m \in Meters |->
                  [live |-> FALSE, total |-> 0, sampled |-> FALSE, reports |-> FALSE,
                   last |-> "none", shown |-> 0,
                   saved |-> [total |-> 0, reports |-> FALSE, last |-> "none"]]]
    /\ reading = [h \in Heads |-> 0]
    /\ heads = [up |-> {}, running |-> {}]
    /\ attached = FALSE
    /\ interval = [sent |-> "none", recent |-> FALSE]

-----------------------------------------------------------------------------
(* EnergyMeter.                                                            *)

LoadForgettingReports(r) ==
    [r EXCEPT !.live = TRUE, !.total = r.saved.total, !.sampled = FALSE,
              !.reports = FALSE, !.last = r.saved.last]

\* The constructor loads what was saved.
Load(r) ==
    [r EXCEPT !.live = TRUE, !.total = r.saved.total, !.sampled = FALSE,
              !.reports = r.saved.reports, !.last = r.saved.last]

Unload(r) == [r EXCEPT !.live = FALSE, !.total = 0, !.sampled = FALSE,
                       !.reports = FALSE, !.last = "none"]

PublishTotal(r) == [r EXCEPT !.shown = r.total]
Save(r) == [r EXCEPT !.saved = [total |-> r.total, reports |-> r.reports, last |-> r.last]]

\* integratePower: "gap" is the time since the reading before, "due" whether
\* a minute has passed since the total was published.
Integrate(r, watts, running, gap, due) ==
    IF ~running THEN [r EXCEPT !.sampled = FALSE]
    ELSE LET seen == [r EXCEPT !.sampled = TRUE]
             added == watts * (IF gap > MaxGap THEN MaxGap ELSE gap)
             grown == [r EXCEPT !.sampled = TRUE, !.total = @ + added]
         IN CASE r.reports \/ ~r.sampled -> seen
              [] ~r.reports /\ r.sampled /\ due -> Save(PublishTotal(grown))
              [] OTHER -> grown

\* addMeasuredInterval: an interval of its own is believed from then on; the
\* same one again within two minutes is a retransmission.
Measured(r, sig, recent, wh) ==
    LET believed == [r EXCEPT !.reports = TRUE]
    IN IF r.last = sig /\ recent THEN believed
       ELSE Save(PublishTotal([believed EXCEPT !.last = sig, !.total = @ + wh]))

Bounded(r) == r.total <= MaxTotal

-----------------------------------------------------------------------------
(* The appliance with an outdoor unit to itself.                           *)

\* A handler is made, with a meter, and publishes it with its configuration;
\* its end takes the meter along.
OwnArrives ==
    /\ ~meter["own"].live
    /\ meter' = [meter EXCEPT !["own"] = PublishTotal(Load(@))]
    /\ UNCHANGED <<reading, heads, attached, interval>>

OwnLeaves ==
    /\ meter["own"].live
    /\ meter' = [meter EXCEPT !["own"] = Unload(@)]
    /\ UNCHANGED <<reading, heads, attached, interval>>

OwnSample(watts, running, gap, due) ==
    /\ meter["own"].live
    /\ LET r == Integrate(meter["own"], watts, running, gap, due)
       IN Bounded(r) /\ meter' = [meter EXCEPT !["own"] = r]
    /\ UNCHANGED <<reading, heads, attached, interval>>

\* A quarter of an hour has been measured: a report of other figures, or of
\* the same when two minutes have passed.
OwnInterval(sig) ==
    /\ meter["own"].live
    /\ sig # interval.sent \/ ~interval.recent
    /\ interval' = [sent |-> sig, recent |-> TRUE]
    /\ LET r == Measured(meter["own"], sig, interval.recent, 1)
       IN Bounded(r) /\ meter' = [meter EXCEPT !["own"] = r]
    /\ UNCHANGED <<reading, heads, attached>>

\* The appliance sends the last one again.
OwnRepeats ==
    /\ meter["own"].live /\ interval.recent
    /\ LET r == Measured(meter["own"], interval.sent, TRUE, 1)
       IN Bounded(r) /\ meter' = [meter EXCEPT !["own"] = r]
    /\ UNCHANGED <<reading, heads, attached, interval>>

\* Two minutes pass.
RepeatWindowEnds ==
    /\ interval.recent
    /\ interval' = [interval EXCEPT !.recent = FALSE]
    /\ UNCHANGED <<meter, reading, heads, attached>>

-----------------------------------------------------------------------------
(* The group.                                                              *)

\* recompute: the highest reading among the heads that run.
Recompute(r, rd, gap, due) ==
    LET watts == Max({rd[h] : h \in Heads})
    IN Integrate(r, watts, watts > 0, gap, due)

\* Without a publisher the group publishes to nobody.
Seen(r) == IF attached THEN r ELSE [r EXCEPT !.shown = meter["group"].shown]

\* outdoorUnitFor makes the group with the first head; the primary attaches
\* the publisher, and the configuration of any head publishes the total.
HeadArrives(h) ==
    /\ h \notin heads.up
    /\ heads' = [heads EXCEPT !.up = @ \cup {h}]
    /\ attached' = (attached \/ h = Primary)
    /\ LET r == IF meter["group"].live THEN meter["group"] ELSE Load(meter["group"])
       IN meter' = [meter EXCEPT !["group"] = IF attached' THEN PublishTotal(r) ELSE r]
    /\ UNCHANGED <<reading, interval>>

\* The power reading of a head: standby takes it out of the maximum.
HeadReports(h, watts, running, gap, due) ==
    /\ h \in heads.up
    /\ heads' = [heads EXCEPT !.running = IF running THEN @ \cup {h} ELSE @ \ {h}]
    /\ reading' = [reading EXCEPT ![h] = IF running THEN watts ELSE 0]
    /\ LET r == Recompute(meter["group"], reading', gap, due)
       IN /\ Bounded(r)
          /\ meter' = [meter EXCEPT !["group"] = Seen(r)]
    /\ UNCHANGED <<attached, interval>>

ForgetNothing(rd, h) == rd

\* stopTimers forgets its last reading.
Forget(rd, h) == [rd EXCEPT ![h] = 0]

HeadLeaves(h, gap, due) ==
    /\ h \in heads.up
    /\ heads' = [up |-> heads.up \ {h}, running |-> heads.running \ {h}]
    /\ reading' = Forget(reading, h)
    /\ LET r == IF reading[h] # 0 THEN Recompute(meter["group"], reading', gap, due)
                ELSE meter["group"]
       IN Bounded(r) /\ meter' = [meter EXCEPT !["group"] = Seen(r)]
    /\ UNCHANGED <<attached, interval>>

\* The process ends and starts again: files and what was published remain.
Restart ==
    /\ meter' = [m \in Meters |-> Unload(meter[m])]
    /\ reading' = [h \in Heads |-> 0]
    /\ heads' = [up |-> {}, running |-> {}]
    /\ attached' = FALSE
    /\ UNCHANGED interval

EnergyNext ==
    \/ OwnArrives \/ OwnLeaves \/ OwnRepeats \/ RepeatWindowEnds \/ Restart
    \/ \E sig \in Reports \ {"none"} : OwnInterval(sig)
    \/ \E h \in Heads : HeadArrives(h)
    \/ \E gap \in 1..(MaxGap + 1), due \in BOOLEAN :
         \/ \E watts \in 1..MaxWatts, running \in BOOLEAN :
              \/ OwnSample(watts, running, gap, due)
              \/ \E h \in Heads : HeadReports(h, watts, running, gap, due)
         \/ \E h \in Heads : HeadLeaves(h, gap, due)

EnergySpec == EnergyInit /\ [][EnergyNext]_energyVars

-----------------------------------------------------------------------------
\* A head stands in the group's maximum exactly while its handler lives and
\* was last told it runs (report, forget).
ReadingsAreLive ==
    /\ \A h \in Heads : reading[h] # 0 <=> h \in heads.running
    /\ heads.running \subseteq heads.up

\* What is published of an appliance's own meter never falls, over handlers
\* and restarts; once it has measured an interval itself nothing is estimated,
\* and no interval is counted twice, also over a restart; a group grows by no
\* more than the highest of its readings over the capped gap, so no head is
\* counted on top of another (integratePower, addMeasuredInterval, save, load).
EnergyCounts ==
    /\ meter'["own"].shown >= meter["own"].shown
    /\ meter["own"].live /\ meter'["own"].live /\ meter["own"].saved.reports
       /\ ~(interval'.recent /\ interval' # interval)
       => meter'["own"].total = meter["own"].total
    /\ meter["group"].live /\ meter'["group"].live
       => meter'["group"].total - meter["group"].total
            \in 0..(MaxGap * Max({reading'[h] : h \in Heads}))

EnergyIsCounted == [][EnergyCounts]_energyVars

\* "It only ever goes up" (energy_meter.ts): also for the total of a group.
GroupNeverFalls == [][meter'["group"].shown >= meter["group"].shown]_energyVars

=============================================================================
