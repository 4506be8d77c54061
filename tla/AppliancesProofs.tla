---------------------------- MODULE AppliancesProofs ----------------------------
(***************************************************************************)
(* Theorems about the handlers of Appliances, about the bytes that become *)
(* their messages, and about the registration of appliances of either      *)
(* platform: first the energy totals, the laundry, the refrigerators and   *)
(* the two families of air conditioners, each with its inductive           *)
(* invariant, then the records of ThinQ2 and the stream of ThinQ1, then    *)
(* the properties that the runs check of all of them, and last             *)
(* ApplianceRegistry.                                                      *)
(***************************************************************************)
EXTENDS ApplianceRegistry, Appliances, SequenceLemmas, FiniteSetTheorems

-----------------------------------------------------------------------------
(* The energy totals.  What a meter has saved is what it has published;    *)
(* while it lives it is never behind it, what it heard last and that it    *)
(* has heard intervals is saved, and the interval that may be repeated is  *)
(* the one saved last.                                                     *)

SavedRecords == [total: 0..MaxTotal, reports: BOOLEAN, last: Reports]
MeterRecords ==
    [live: BOOLEAN, total: 0..MaxTotal, sampled: BOOLEAN, reports: BOOLEAN, last: Reports,
     saved: SavedRecords, shown: 0..MaxTotal]

SavedIsShown(r) ==
    /\ r.shown = r.saved.total
    /\ r.live => /\ r.total >= r.saved.total /\ r.last = r.saved.last
                 /\ r.saved.reports => r.reports

EnergyInv ==
    /\ EnergyTypeOK
    /\ ReadingsAreLive
    /\ SavedIsShown(meter["own"])
    /\ interval.recent => meter["own"].saved.last = interval.sent

\* The highest of the readings is one of them.
LEMMA HighestReading ==
    ASSUME EnergyAssumption, NEW rd \in [Heads -> 0..MaxWatts]
    PROVE  Max({rd[h] : h \in Heads}) \in 0..MaxWatts
<1> DEFINE S == {rd[h] : h \in Heads}
<1>1. S \in SUBSET (0..MaxWatts) /\ S # {} /\ MaxWatts \in Nat
    BY DEF EnergyAssumption
<1>2. \E x \in S : \A y \in S : y <= x
    <2> HIDE DEF S
    <2> QED
        BY <1>1, GreatestElement
<1>3. \E x \in S : \A y \in S : x >= y
    BY <1>1, <1>2
<1>4. Max(S) \in S
    <2> HIDE DEF S
    <2> QED
        BY <1>3 DEF Max
<1> QED
    BY <1>1, <1>4

\* What a reading adds is no more than it makes over the capped gap.
LEMMA CappedProduct ==
    ASSUME EnergyAssumption, NEW watts \in Nat, NEW gap \in Nat
    PROVE  watts * (IF gap > MaxGap THEN MaxGap ELSE gap) \in 0..(MaxGap * watts)
<1> DEFINE g == IF gap > MaxGap THEN MaxGap ELSE gap
<1>1. MaxGap \in Nat /\ g \in Nat /\ MaxGap - g \in Nat
    BY DEF EnergyAssumption
<1> HIDE DEF g
<1>2. watts * g \in Nat /\ watts * (MaxGap - g) \in Nat
    BY <1>1
<1>3. MaxGap * watts = watts * g + watts * (MaxGap - g)
    BY <1>1
<1>4. watts * g \in 0..(MaxGap * watts)
    BY <1>1, <1>2, <1>3
<1> QED
    BY <1>4 DEF g

\* What a reading may make of a meter.
Metered(r, q, most) ==
    /\ q \in MeterRecords
    /\ q.live = r.live /\ q.last = r.last /\ q.reports = r.reports
    /\ q.total - r.total \in 0..most
    /\ r.reports => q.total = r.total
    /\ \/ q.saved = r.saved /\ q.shown = r.shown
       \/ /\ ~r.reports /\ q.shown = q.total
          /\ q.saved = [total |-> q.total, reports |-> q.reports, last |-> q.last]

\* What an interval may make of it.
Counted(r, q, sig, repeated) ==
    /\ q \in MeterRecords
    /\ q.live = r.live /\ q.reports
    /\ IF repeated
       THEN q.last = r.last /\ q.total = r.total /\ q.saved = r.saved /\ q.shown = r.shown
       ELSE /\ q.last = sig /\ q.total = r.total + 1 /\ q.shown = q.total
            /\ q.saved = [total |-> q.total, reports |-> TRUE, last |-> sig]

\* A reading adds to a meter that has measured no interval, and saves and publishes
\* the same; nothing else of the meter changes (integratePower).
LEMMA IntegrateFacts ==
    ASSUME EnergyAssumption, NEW r \in MeterRecords, NEW watts \in Nat, NEW running \in BOOLEAN,
           NEW gap \in Nat, NEW due \in BOOLEAN, Bounded(Integrate(r, watts, running, gap, due))
    PROVE  Metered(r, Integrate(r, watts, running, gap, due), MaxGap * watts)
<1> DEFINE m == MaxGap * watts
           added == watts * (IF gap > MaxGap THEN MaxGap ELSE gap)
           q == Integrate(r, watts, running, gap, due)
           seen == [r EXCEPT !.sampled = TRUE]
           grown == [r EXCEPT !.sampled = TRUE, !.total = @ + added]
<1>1. added \in 0..m /\ m \in Nat /\ MaxTotal \in Nat
    <2>1. MaxGap * watts \in Nat
        BY DEF EnergyAssumption
    <2> QED
        BY <2>1, CappedProduct DEF EnergyAssumption
<1>2. \/ q = [r EXCEPT !.sampled = FALSE]
      \/ q = seen
      \/ ~r.reports /\ q \in {grown, Save(PublishTotal(grown))}
    BY DEF Integrate
<1>3. q.total <= MaxTotal
    BY DEF Bounded
<1> HIDE DEF q, added, m
<1>4. ASSUME q = [r EXCEPT !.sampled = FALSE] \/ q = seen
      PROVE  Metered(r, q, m)
    <2>1. q.saved = r.saved /\ q.shown = r.shown /\ q.total = r.total /\ r.total - r.total \in 0..m
        BY <1>1, <1>4 DEF MeterRecords
    <2> QED
        BY <1>4, <2>1 DEF MeterRecords, Metered
<1>5. ASSUME ~r.reports, q = grown
      PROVE  Metered(r, q, m)
    <2>1. grown.total = r.total + added /\ r.total + added <= MaxTotal /\ r.total \in Nat /\ added \in Nat
        BY <1>1, <1>3, <1>5 DEF MeterRecords
    <2>2. r.total + added \in 0..MaxTotal
        BY <1>1, <2>1
    <2>3. q \in MeterRecords
        BY <1>5, <2>2 DEF MeterRecords
    <2>4. /\ q.total - r.total = added /\ q.saved = r.saved /\ q.shown = r.shown
          /\ q.live = r.live /\ q.last = r.last /\ q.reports = r.reports
        BY <1>5, <2>1 DEF MeterRecords
    <2> QED
        BY <1>1, <1>5, <2>3, <2>4 DEF Metered
<1>6. ASSUME ~r.reports, q = Save(PublishTotal(grown))
      PROVE  Metered(r, q, m)
    <2>1. q.total = r.total + added /\ r.total + added <= MaxTotal /\ r.total \in Nat /\ added \in Nat
        BY <1>1, <1>3, <1>6 DEF MeterRecords, Save, PublishTotal
    <2>2. r.total + added \in 0..MaxTotal
        BY <1>1, <2>1
    <2>3. q.total - r.total = added /\ q.shown = q.total
          /\ q.live = r.live /\ q.last = r.last /\ q.reports = r.reports
          /\ q.saved = [total |-> q.total, reports |-> q.reports, last |-> q.last]
        BY <1>6, <2>1, <2>2 DEF MeterRecords, Save, PublishTotal
    <2>4. q \in MeterRecords
        <3>1. q.saved \in SavedRecords
            BY <1>6, <2>1, <2>2, <2>3 DEF MeterRecords, SavedRecords
        <3> QED
            BY <1>6, <2>2, <3>1 DEF MeterRecords, Save, PublishTotal
    <2> QED
        BY <1>1, <1>6, <2>3, <2>4 DEF MeterRecords, Metered
<1> QED
    BY <1>2, <1>4, <1>5, <1>6 DEF q, m

\* An interval that is no repetition is counted, saved and published; from then on
\* intervals are believed (addMeasuredInterval).
LEMMA MeasuredFacts ==
    ASSUME EnergyAssumption, NEW r \in MeterRecords, NEW sig \in Reports, NEW recent \in BOOLEAN,
           Bounded(Measured(r, sig, recent, 1))
    PROVE  Counted(r, Measured(r, sig, recent, 1), sig, r.last = sig /\ recent)
<1> DEFINE q == Measured(r, sig, recent, 1)
<1>1. q.total <= MaxTotal /\ MaxTotal \in Nat
    BY DEF Bounded, EnergyAssumption
<1>2. CASE r.last = sig /\ recent
    BY <1>2 DEF MeterRecords, Measured, Counted
<1>3. ASSUME ~(r.last = sig /\ recent)
      PROVE  Counted(r, q, sig, FALSE)
    <2>1. q = Save(PublishTotal([r EXCEPT !.reports = TRUE, !.last = sig, !.total = @ + 1]))
        BY <1>3 DEF Measured, MeterRecords
    <2> HIDE DEF q
    <2>2. q.total = r.total + 1 /\ r.total + 1 \in 0..MaxTotal
        BY <1>1, <2>1 DEF MeterRecords, Save, PublishTotal
    <2>3. q.live = r.live /\ q.reports /\ q.last = sig /\ q.shown = q.total
        BY <2>1, <2>2 DEF MeterRecords, Save, PublishTotal
    <2>4. q.saved = [total |-> q.total, reports |-> TRUE, last |-> sig]
        BY <2>1, <2>2 DEF MeterRecords, Save, PublishTotal
    <2>5. q \in MeterRecords
        <3>1. q.saved \in SavedRecords
            BY <2>2, <2>4 DEF MeterRecords, SavedRecords
        <3> QED
            BY <2>1, <2>2, <3>1 DEF MeterRecords, Save, PublishTotal
    <2> QED
        BY <2>2, <2>3, <2>4, <2>5 DEF Counted
<1> QED
    BY <1>2, <1>3 DEF Counted

\* What a handler that comes or goes, or a restart, makes of a meter.
LEMMA LoadFacts ==
    ASSUME NEW r \in MeterRecords
    PROVE  /\ Load(r) \in MeterRecords /\ PublishTotal(Load(r)) \in MeterRecords
           /\ Load(r).total = r.saved.total /\ PublishTotal(Load(r)).shown = r.saved.total
           /\ SavedIsShown(PublishTotal(Load(r))) /\ PublishTotal(Load(r)).saved = r.saved
           /\ PublishTotal(Load(r)).total = r.saved.total
<1>1. Load(r) \in MeterRecords /\ Load(r).total = r.saved.total /\ Load(r).saved = r.saved
      /\ Load(r).last = r.saved.last /\ Load(r).reports = r.saved.reports
    BY DEF MeterRecords, SavedRecords, Load
<1> DEFINE l == Load(r)
<1> HIDE DEF l
<1>2. /\ PublishTotal(l) \in MeterRecords /\ PublishTotal(l).shown = l.total
      /\ PublishTotal(l).total = l.total /\ PublishTotal(l).saved = l.saved
      /\ PublishTotal(l).last = l.last /\ PublishTotal(l).reports = l.reports
    BY <1>1 DEF MeterRecords, PublishTotal, l
<1>3. r.saved.total \in Nat
    BY DEF MeterRecords, SavedRecords
<1> QED
    BY <1>1, <1>2, <1>3 DEF l, SavedIsShown

LEMMA UnloadFacts ==
    ASSUME EnergyAssumption, NEW r \in MeterRecords
    PROVE  /\ Unload(r) \in MeterRecords
           /\ Unload(r).saved = r.saved /\ Unload(r).shown = r.shown /\ ~Unload(r).live
<1>1. 0 \in 0..MaxTotal /\ "none" \in Reports
    BY DEF EnergyAssumption, Reports
<1>2. Unload(r) \in MeterRecords
    BY <1>1 DEF MeterRecords, Unload
<1>3. Unload(r).saved = r.saved /\ Unload(r).shown = r.shown /\ ~Unload(r).live
    BY DEF MeterRecords, Unload
<1> QED
    BY <1>2, <1>3

-----------------------------------------------------------------------------
\* Both meters, one by one.
LEMMA MetersApart ==
    ASSUME NEW f \in [Meters -> MeterRecords], NEW r \in MeterRecords
    PROVE  /\ f["own"] \in MeterRecords /\ f["group"] \in MeterRecords
           /\ [f EXCEPT !["own"] = r] \in [Meters -> MeterRecords]
           /\ [f EXCEPT !["own"] = r]["own"] = r /\ [f EXCEPT !["own"] = r]["group"] = f["group"]
           /\ [f EXCEPT !["group"] = r] \in [Meters -> MeterRecords]
           /\ [f EXCEPT !["group"] = r]["group"] = r /\ [f EXCEPT !["group"] = r]["own"] = f["own"]
BY DEF Meters

\* What every step keeps and does.
EnergyKept == EnergyInv' /\ EnergyCounts

\* A step of the appliance with a meter of its own, which leaves the group alone.
LEMMA OwnStep ==
    ASSUME EnergyAssumption, EnergyInv, NEW q \in MeterRecords,
           meter' = [meter EXCEPT !["own"] = q],
           UNCHANGED <<reading, heads, attached>>,
           interval' \in [sent: Reports, recent: BOOLEAN],
           SavedIsShown(q), interval'.recent => q.saved.last = interval'.sent,
           q.shown >= meter["own"].shown,
           meter["own"].live /\ q.live /\ meter["own"].saved.reports
              /\ ~(interval'.recent /\ interval' # interval) => q.total = meter["own"].total
    PROVE  EnergyKept
<1>1. meter \in [Meters -> MeterRecords] /\ reading \in [Heads -> 0..MaxWatts]
    BY DEF EnergyInv, EnergyTypeOK, MeterRecords, SavedRecords
<1>2. /\ meter' \in [Meters -> MeterRecords]
      /\ meter'["own"] = q /\ meter'["group"] = meter["group"]
    BY <1>1, MetersApart
<1>3. EnergyTypeOK'
    BY <1>2 DEF EnergyInv, EnergyTypeOK, MeterRecords, SavedRecords
<1>4. ReadingsAreLive'
    BY DEF EnergyInv, ReadingsAreLive
<1>5. EnergyInv'
    BY <1>2, <1>3, <1>4 DEF EnergyInv
<1>6. meter'["group"].total - meter["group"].total \in 0..(MaxGap * Max({reading'[h] : h \in Heads}))
    <2> DEFINE most == Max({reading[h] : h \in Heads})
    <2>1. most \in 0..MaxWatts /\ MaxWatts \in Nat /\ MaxGap \in Nat
        BY <1>1, HighestReading DEF EnergyAssumption
    <2>2. Max({reading'[h] : h \in Heads}) = most
        OBVIOUS
    <2>3. meter["group"].total \in Nat
        BY <1>1 DEF Meters, MeterRecords
    <2> HIDE DEF most
    <2>4. MaxGap * most \in Nat /\ meter'["group"].total - meter["group"].total = 0
        BY <1>2, <2>1, <2>3
    <2> QED
        BY <2>2, <2>4
<1> QED
    BY <1>2, <1>5, <1>6 DEF EnergyKept, EnergyCounts

\* A step of the group, which leaves the appliance with a meter of its own alone.
LEMMA GroupStep ==
    ASSUME EnergyAssumption, EnergyInv, NEW q \in MeterRecords,
           meter' = [meter EXCEPT !["group"] = q],
           reading' \in [Heads -> 0..MaxWatts], attached' \in BOOLEAN,
           heads' \in [up: SUBSET Heads, running: SUBSET Heads], ReadingsAreLive',
           UNCHANGED interval,
           meter["group"].live /\ q.live =>
               q.total - meter["group"].total \in 0..(MaxGap * Max({reading'[h] : h \in Heads}))
    PROVE  EnergyKept
<1>1. meter \in [Meters -> MeterRecords]
    BY DEF EnergyInv, EnergyTypeOK, MeterRecords, SavedRecords
<1>2. /\ meter' \in [Meters -> MeterRecords]
      /\ meter'["group"] = q /\ meter'["own"] = meter["own"]
    BY <1>1, MetersApart
<1>3. EnergyTypeOK'
    BY <1>2 DEF EnergyInv, EnergyTypeOK, MeterRecords, SavedRecords
<1>4. EnergyInv'
    BY <1>2, <1>3 DEF EnergyInv
<1>5. meter["own"].shown \in Nat
    BY <1>1 DEF Meters, MeterRecords
<1> QED
    BY <1>2, <1>4, <1>5 DEF EnergyKept, EnergyCounts

LEMMA OwnActions ==
    ASSUME EnergyAssumption, EnergyInv,
           \/ OwnArrives \/ OwnLeaves \/ OwnRepeats \/ RepeatWindowEnds
           \/ \E sig \in Reports \ {"none"} : OwnInterval(sig)
           \/ \E gap \in 1..(MaxGap + 1), due \in BOOLEAN, watts \in 1..MaxWatts, running \in BOOLEAN :
                 OwnSample(watts, running, gap, due)
    PROVE  EnergyKept
<1> DEFINE r == meter["own"]
<1>1. meter \in [Meters -> MeterRecords] /\ r \in MeterRecords
    BY DEF EnergyInv, EnergyTypeOK, MeterRecords, SavedRecords, Meters
<1>2. interval \in [sent: Reports, recent: BOOLEAN]
    BY DEF EnergyInv, EnergyTypeOK
<1>3. /\ SavedIsShown(r)
      /\ interval.recent => r.saved.last = interval.sent
      /\ r.shown \in Nat /\ r.total \in Nat /\ r.saved.total \in Nat
    BY <1>1 DEF EnergyInv, MeterRecords, SavedRecords
<1>4. CASE OwnArrives
    <2> DEFINE q == PublishTotal(Load(r))
    <2>1. /\ q \in MeterRecords /\ SavedIsShown(q)
          /\ q.shown = r.shown /\ q.saved = r.saved
        BY <1>1, <1>3, LoadFacts DEF SavedIsShown
    <2>2. ~r.live /\ meter' = [meter EXCEPT !["own"] = q] /\ UNCHANGED <<reading, heads, attached, interval>>
        BY <1>4 DEF OwnArrives
    <2> HIDE DEF q
    <2>3. /\ interval' \in [sent: Reports, recent: BOOLEAN] /\ q.shown >= r.shown
          /\ interval'.recent => q.saved.last = interval'.sent
        BY <1>2, <1>3, <2>1, <2>2
    <2> QED
        BY <2>1, <2>2, <2>3, OwnStep
<1>5. CASE OwnLeaves
    <2> DEFINE q == Unload(r)
    <2>1. /\ q \in MeterRecords /\ SavedIsShown(q)
          /\ q.shown = r.shown /\ q.saved = r.saved /\ ~q.live
        BY <1>1, <1>3, UnloadFacts DEF SavedIsShown
    <2>2. meter' = [meter EXCEPT !["own"] = q] /\ UNCHANGED <<reading, heads, attached, interval>>
        BY <1>5 DEF OwnLeaves
    <2> HIDE DEF q
    <2>3. /\ interval' \in [sent: Reports, recent: BOOLEAN] /\ q.shown >= r.shown
          /\ interval'.recent => q.saved.last = interval'.sent
        BY <1>2, <1>3, <2>1, <2>2
    <2> QED
        BY <2>1, <2>2, <2>3, OwnStep
<1>6. CASE OwnRepeats
    <2> DEFINE q == Measured(r, interval.sent, TRUE, 1)
    <2>1. r.live /\ r.last = interval.sent /\ interval.recent
        BY <1>3, <1>6 DEF OwnRepeats, SavedIsShown
    <2>2. Counted(r, q, interval.sent, TRUE)
        BY <1>1, <1>2, <1>6, <2>1, MeasuredFacts DEF OwnRepeats
    <2>3. meter' = [meter EXCEPT !["own"] = q] /\ UNCHANGED <<reading, heads, attached, interval>>
        BY <1>6 DEF OwnRepeats
    <2> HIDE DEF q
    <2>4. SavedIsShown(q) /\ q \in MeterRecords
        BY <1>3, <2>1, <2>2 DEF SavedIsShown, Counted
    <2>5. /\ interval' \in [sent: Reports, recent: BOOLEAN] /\ q.shown >= r.shown
          /\ interval'.recent => q.saved.last = interval'.sent
          /\ q.total = r.total
        BY <1>2, <1>3, <2>2, <2>3 DEF Counted
    <2> QED
        BY <2>3, <2>4, <2>5, OwnStep
<1>7. CASE RepeatWindowEnds
    <2>1. meter' = [meter EXCEPT !["own"] = r]
        BY <1>1, <1>7 DEF RepeatWindowEnds, Meters
    <2>2. interval' \in [sent: Reports, recent: BOOLEAN] /\ ~interval'.recent
        BY <1>2, <1>7 DEF RepeatWindowEnds
    <2>3. r.shown >= r.shown /\ UNCHANGED <<reading, heads, attached>>
        BY <1>3, <1>7 DEF RepeatWindowEnds
    <2> QED
        BY <1>1, <1>3, <2>1, <2>2, <2>3, OwnStep
<1>8. ASSUME NEW sig \in Reports \ {"none"}, OwnInterval(sig)
      PROVE  EnergyKept
    <2> DEFINE q == Measured(r, sig, interval.recent, 1)
    <2>1. r.live /\ (sig # interval.sent \/ ~interval.recent) /\ ~(r.last = sig /\ interval.recent)
        BY <1>3, <1>8 DEF OwnInterval, SavedIsShown
    <2>2. Counted(r, q, sig, FALSE)
        BY <1>1, <1>2, <1>8, <2>1, MeasuredFacts DEF OwnInterval
    <2>3. /\ meter' = [meter EXCEPT !["own"] = q] /\ UNCHANGED <<reading, heads, attached>>
          /\ interval' = [sent |-> sig, recent |-> TRUE]
        BY <1>8 DEF OwnInterval
    <2> HIDE DEF q
    <2>4. SavedIsShown(q) /\ q.shown >= r.shown
        BY <1>3, <2>1, <2>2 DEF SavedIsShown, Counted
    <2>5. interval' # interval /\ interval'.recent /\ interval' \in [sent: Reports, recent: BOOLEAN]
        BY <1>2, <2>1, <2>3
    <2>6. q \in MeterRecords /\ (interval'.recent => q.saved.last = interval'.sent)
        BY <2>2, <2>3 DEF Counted
    <2> QED
        BY <2>3, <2>4, <2>5, <2>6, OwnStep
<1>9. ASSUME NEW gap \in 1..(MaxGap + 1), NEW due \in BOOLEAN, NEW watts \in 1..MaxWatts,
             NEW running \in BOOLEAN, OwnSample(watts, running, gap, due)
      PROVE  EnergyKept
    <2> DEFINE q == Integrate(r, watts, running, gap, due)
    <2>1. gap \in Nat /\ watts \in Nat
        BY DEF EnergyAssumption
    <2>2. Metered(r, q, MaxGap * watts) /\ r.live
        BY <1>1, <1>9, <2>1, IntegrateFacts DEF OwnSample
    <2>3. meter' = [meter EXCEPT !["own"] = q] /\ UNCHANGED <<reading, heads, attached, interval>>
        BY <1>9 DEF OwnSample
    <2> HIDE DEF q
    <2>4. q.total \in Nat /\ q.total >= r.total
        <3>1. MaxGap * watts \in Nat /\ q.total \in Nat
            BY <2>1, <2>2 DEF EnergyAssumption, Metered, MeterRecords
        <3> QED
            BY <1>3, <2>2, <3>1 DEF Metered
    <2>5. SavedIsShown(q) /\ q.shown >= r.shown
        BY <1>3, <2>2, <2>4 DEF SavedIsShown, Metered
    <2>6. r.saved.reports => q.total = r.total
        BY <1>3, <2>2 DEF SavedIsShown, Metered
    <2>7. q.saved.last = r.saved.last
        BY <1>3, <2>2 DEF SavedIsShown, Metered
    <2> QED
        BY <1>2, <1>3, <2>2, <2>3, <2>5, <2>6, <2>7, OwnStep DEF Metered
<1> QED
    BY <1>4, <1>5, <1>6, <1>7, <1>8, <1>9

\* Without a publisher nothing else of the group's meter changes.
LEMMA SeenFacts ==
    ASSUME EnergyInv, NEW q \in MeterRecords
    PROVE  Seen(q) \in MeterRecords /\ Seen(q).total = q.total /\ Seen(q).live = q.live
<1>1. meter["group"].shown \in 0..MaxTotal
    BY DEF EnergyInv, EnergyTypeOK, Meters
<1> QED
    BY <1>1 DEF Seen, MeterRecords

LEMMA RecomputeFacts ==
    ASSUME EnergyAssumption, EnergyInv, NEW rd \in [Heads -> 0..MaxWatts],
           NEW gap \in 1..(MaxGap + 1), NEW due \in BOOLEAN,
           Bounded(Recompute(meter["group"], rd, gap, due))
    PROVE  LET q == Seen(Recompute(meter["group"], rd, gap, due))
           IN /\ q \in MeterRecords
              /\ q.total - meter["group"].total \in 0..(MaxGap * Max({rd[h] : h \in Heads}))
<1> DEFINE r == meter["group"]
           watts == Max({rd[h] : h \in Heads})
           runs == watts > 0
           q == Integrate(r, watts, runs, gap, due)
<1>1. r \in MeterRecords
    BY DEF EnergyInv, EnergyTypeOK, MeterRecords, SavedRecords, Meters
<1>2. watts \in Nat /\ gap \in Nat /\ runs \in BOOLEAN
    BY HighestReading DEF EnergyAssumption
<1>3. Recompute(r, rd, gap, due) = q
    BY DEF Recompute
<1> HIDE DEF watts, runs
<1>4. Metered(r, q, MaxGap * watts)
    BY <1>1, <1>2, <1>3, IntegrateFacts
<1> HIDE DEF q
<1>5. Seen(q) \in MeterRecords /\ Seen(q).total = q.total
    BY <1>4, SeenFacts DEF Metered
<1> QED
    BY <1>3, <1>4, <1>5 DEF Metered, watts

LEMMA NothingAdded ==
    ASSUME EnergyAssumption, EnergyInv, NEW rd \in [Heads -> 0..MaxWatts]
    PROVE  meter["group"].total - meter["group"].total \in 0..(MaxGap * Max({rd[h] : h \in Heads}))
<1> DEFINE most == Max({rd[h] : h \in Heads})
<1>1. most \in Nat /\ MaxGap \in Nat /\ meter["group"].total \in Nat
    BY HighestReading DEF EnergyAssumption, EnergyInv, EnergyTypeOK, Meters
<1> HIDE DEF most
<1>2. MaxGap * most \in Nat /\ meter["group"].total - meter["group"].total = 0
    BY <1>1
<1>3. meter["group"].total - meter["group"].total \in 0..(MaxGap * most)
    BY <1>2
<1> QED
    BY <1>3 DEF most

LEMMA GroupActions ==
    ASSUME EnergyAssumption, EnergyInv,
           \/ \E h \in Heads : HeadArrives(h)
           \/ \E gap \in 1..(MaxGap + 1), due \in BOOLEAN, h \in Heads :
                 \/ \E watts \in 1..MaxWatts, running \in BOOLEAN :
                      HeadReports(h, watts, running, gap, due)
                 \/ HeadLeaves(h, gap, due)
    PROVE  EnergyKept
<1> DEFINE r == meter["group"]
<1>1. /\ meter \in [Meters -> MeterRecords] /\ r \in MeterRecords
      /\ reading \in [Heads -> 0..MaxWatts] /\ attached \in BOOLEAN
      /\ heads \in [up: SUBSET Heads, running: SUBSET Heads]
      /\ 0 \in 0..MaxWatts
    BY DEF EnergyInv, EnergyTypeOK, MeterRecords, SavedRecords, Meters, EnergyAssumption
<1>2. /\ \A h \in Heads : reading[h] # 0 <=> h \in heads.running
      /\ heads.running \subseteq heads.up
    BY DEF EnergyInv, ReadingsAreLive
<1>3. ASSUME NEW h \in Heads, HeadArrives(h)
      PROVE  EnergyKept
    <2> DEFINE l == IF r.live THEN r ELSE Load(r)
               q == IF attached' THEN PublishTotal(l) ELSE l
    <2>1. /\ meter' = [meter EXCEPT !["group"] = q] /\ UNCHANGED <<reading, interval>>
          /\ heads' = [heads EXCEPT !.up = @ \cup {h}] /\ attached' \in BOOLEAN
        BY <1>1, <1>3 DEF HeadArrives
    <2>2. l \in MeterRecords /\ (r.live => l.total = r.total)
        BY <1>1, LoadFacts
    <2> HIDE DEF l
    <2>3. q \in MeterRecords /\ q.total = l.total
        BY <2>2 DEF PublishTotal, MeterRecords
    <2> HIDE DEF q
    <2>4. /\ heads' \in [up: SUBSET Heads, running: SUBSET Heads]
          /\ ReadingsAreLive'
        BY <1>1, <1>2, <2>1 DEF ReadingsAreLive
    <2>5. r.live => q.total - r.total \in 0..(MaxGap * Max({reading'[k] : k \in Heads}))
        BY <1>1, <2>1, <2>2, <2>3, NothingAdded
    <2> QED
        BY <1>1, <2>1, <2>3, <2>4, <2>5, GroupStep
<1>4. ASSUME NEW h \in Heads, NEW gap \in 1..(MaxGap + 1), NEW due \in BOOLEAN,
             NEW watts \in 1..MaxWatts, NEW running \in BOOLEAN, HeadReports(h, watts, running, gap, due)
      PROVE  EnergyKept
    <2> DEFINE q == Seen(Recompute(r, reading', gap, due))
    <2>1. /\ meter' = [meter EXCEPT !["group"] = q] /\ UNCHANGED <<attached, interval>>
          /\ heads' = [heads EXCEPT !.running = IF running THEN @ \cup {h} ELSE @ \ {h}]
          /\ reading' = [reading EXCEPT ![h] = IF running THEN watts ELSE 0]
          /\ Bounded(Recompute(r, reading', gap, due)) /\ h \in heads.up
        BY <1>4 DEF HeadReports
    <2>2. watts \in 0..MaxWatts /\ watts # 0
        BY DEF EnergyAssumption
    <2>3. reading' \in [Heads -> 0..MaxWatts]
        BY <1>1, <2>1, <2>2
    <2>4. q \in MeterRecords /\ q.total - r.total \in 0..(MaxGap * Max({reading'[k] : k \in Heads}))
        BY <2>1, <2>3, RecomputeFacts
    <2> HIDE DEF q
    <2>5. heads' \in [up: SUBSET Heads, running: SUBSET Heads]
        BY <1>1, <2>1
    <2>6. ReadingsAreLive'
        BY <1>1, <1>2, <2>1, <2>2 DEF ReadingsAreLive
    <2> QED
        BY <1>1, <2>1, <2>3, <2>4, <2>5, <2>6, GroupStep
<1>5. ASSUME NEW h \in Heads, NEW gap \in 1..(MaxGap + 1), NEW due \in BOOLEAN, HeadLeaves(h, gap, due)
      PROVE  EnergyKept
    <2> DEFINE l == IF reading[h] # 0 THEN Recompute(r, reading', gap, due) ELSE r
               q == Seen(l)
    <2>1. /\ meter' = [meter EXCEPT !["group"] = q] /\ UNCHANGED <<attached, interval>>
          /\ heads' = [up |-> heads.up \ {h}, running |-> heads.running \ {h}]
          /\ reading' = [reading EXCEPT ![h] = 0] /\ Bounded(l)
        BY <1>5 DEF HeadLeaves, Forget
    <2>2. reading' \in [Heads -> 0..MaxWatts]
        BY <1>1, <2>1
    <2>3. q \in MeterRecords /\ q.total - r.total \in 0..(MaxGap * Max({reading'[k] : k \in Heads}))
        <3>1. CASE reading[h] # 0
            BY <2>1, <2>2, <3>1, RecomputeFacts
        <3>2. CASE reading[h] = 0
            BY <1>1, <2>2, <3>2, SeenFacts, NothingAdded
        <3> QED
            BY <3>1, <3>2
    <2> HIDE DEF q
    <2>4. heads' \in [up: SUBSET Heads, running: SUBSET Heads]
        BY <1>1, <2>1
    <2>5. ReadingsAreLive'
        BY <1>1, <1>2, <2>1 DEF ReadingsAreLive
    <2> QED
        BY <1>1, <2>1, <2>2, <2>3, <2>4, <2>5, GroupStep
<1> QED
    BY <1>3, <1>4, <1>5

\* Files and what was published remain, so nothing that was shown is lost.
LEMMA RestartKeeps ==
    ASSUME EnergyAssumption, EnergyInv, Restart
    PROVE  EnergyKept
<1>1. meter \in [Meters -> MeterRecords]
    BY DEF EnergyInv, EnergyTypeOK, MeterRecords, SavedRecords
<1>2. /\ meter' \in [Meters -> MeterRecords] /\ ~meter'["own"].live /\ ~meter'["group"].live
      /\ meter'["own"].saved = meter["own"].saved /\ meter'["own"].shown = meter["own"].shown
    BY <1>1, UnloadFacts DEF Restart, Meters
<1>3. 0 \in 0..MaxWatts
    BY DEF EnergyAssumption
<1>4. EnergyTypeOK'
    BY <1>2, <1>3 DEF EnergyInv, EnergyTypeOK, MeterRecords, SavedRecords, Restart
<1>5. ReadingsAreLive'
    BY DEF ReadingsAreLive, Restart
<1>6. meter["own"].shown \in Nat
    BY <1>1 DEF Meters, MeterRecords
<1>7. UNCHANGED interval
    BY DEF Restart
<1>8. EnergyInv'
    BY <1>2, <1>4, <1>5, <1>7 DEF EnergyInv, SavedIsShown
<1> QED
    BY <1>2, <1>6, <1>8 DEF EnergyKept, EnergyCounts

LEMMA EnergyStep ==
    ASSUME EnergyAssumption, EnergyInv, EnergyNext
    PROVE  EnergyKept
BY OwnActions, GroupActions, RestartKeeps DEF EnergyNext

LEMMA EnergyStarts ==
    ASSUME EnergyAssumption, EnergyInit
    PROVE  EnergyInv
<1>1. 0 \in 0..MaxTotal /\ 0 \in 0..MaxWatts /\ "none" \in Reports
    BY DEF EnergyAssumption, Reports
<1>2. [total |-> 0, reports |-> FALSE, last |-> "none"] \in SavedRecords
    BY <1>1 DEF SavedRecords
<1>3. meter \in [Meters -> MeterRecords]
    BY <1>1, <1>2 DEF EnergyInit, MeterRecords
<1>4. /\ meter["own"].shown = 0 /\ meter["own"].saved.total = 0 /\ ~meter["own"].live
    BY DEF EnergyInit, Meters
<1>5. EnergyTypeOK
    BY <1>1, <1>3 DEF EnergyInit, EnergyTypeOK, MeterRecords, SavedRecords
<1>6. ReadingsAreLive
    BY DEF EnergyInit, ReadingsAreLive
<1> QED
    BY <1>4, <1>5, <1>6 DEF EnergyInit, EnergyInv, SavedIsShown

\* What an appliance has published of its own total is what is saved of it.
THEOREM EnergyInvariantHolds ==
    ASSUME EnergyAssumption
    PROVE  EnergySpec => []EnergyInv
<1>1. EnergyInit => EnergyInv
    BY EnergyStarts
<1>2. EnergyInv /\ [EnergyNext]_energyVars => EnergyInv'
    <2>1. EnergyInv /\ UNCHANGED energyVars => EnergyInv'
        BY DEF EnergyInv, EnergyTypeOK, ReadingsAreLive, SavedIsShown, energyVars
    <2> QED
        BY <2>1, EnergyStep DEF EnergyKept
<1> QED
    BY <1>1, <1>2, PTL DEF EnergySpec

\* Published totals never fall and nothing is counted twice, over handlers and restarts
\* (energy_meter.ts), and a group grows by no more than its highest reading makes.
THEOREM EnergyCounted ==
    ASSUME EnergyAssumption
    PROVE  EnergySpec => EnergyIsCounted
<1>1. EnergyInv /\ [EnergyNext]_energyVars => [EnergyCounts]_energyVars
    BY EnergyStep DEF EnergyKept
<1> QED
    BY <1>1, EnergyInvariantHolds, PTL DEF EnergySpec, EnergyIsCounted

-----------------------------------------------------------------------------
(* The laundry.  The last record under way is the appliance's, and behind  *)
(* it nothing is heard; what is shown is the record heard last, but for    *)
(* the model that says that it is on before it says how it is.             *)

\* Every entity of a layout is read in one way.
LayoutOK(m, l) ==
    /\ l.plain \cap (l.zeroed \cup l.blank \cup l.held \cup l.apart) = {}
    /\ l.zeroed \cap (l.blank \cup l.held \cup l.apart) = {}
    /\ l.blank \cap (l.held \cup l.apart) = {} /\ l.held \cap l.apart = {}
    /\ {"power", "status"} \cap (l.plain \cup l.zeroed \cup l.blank \cup l.held \cup l.apart) = {}
    /\ "run_completed" \notin l.zeroed \cup l.blank \cup l.held \cup l.apart
    /\ l.pair \in {"none", "first", "second"} /\ l.single \in BOOLEAN
    /\ m # "VCDWL2QEUK" => l.single
    /\ m = "VCDWL2QEUK" => l.blank = {} /\ l.pair = "second"
    /\ m = "Y_V8_F" => l.pair = "second"
    /\ m = "Hd0C_F" => l.off = {"off"} /\ "remote_start_enabled" \in l.plain

IsRecord(f) == f.type = "pair" \/ (f.type = "single" /\ Layout.single)

FrameOK(f) ==
    /\ f \in Frames
    /\ f.type = "single" => Len(f.records) = 1
    /\ f.type = "pair" => Len(f.records) = 2
    /\ f.type = "early" => washer.model = "VCDWL2QEUK"
    /\ f.type = "apart" => f.value \in Amounts

\* Of the frames under way.
LineInv ==
    /\ \A i \in 1..Len(washerLine) : FrameOK(washerLine[i])
    /\ \A i \in 1..Len(washerLine) : IsRecord(washerLine[i]) =>
          \/ \E j \in (i + 1)..Len(washerLine) : IsRecord(washerLine[j])
          \/ ReadNewest(washerLine[i]) = washer.record
    /\ \A i \in 1..Len(washerLine) : washerLine[i].type = "apart" =>
          \/ \E j \in (i + 1)..Len(washerLine) : washerLine[j].type = "apart"
          \/ washerLine[i].value = washer.apart
    /\ \A i \in 1..Len(washerLine) : washerLine[i].type = "early" =>
          \E j \in (i + 1)..Len(washerLine) : washerLine[j].type = "pair"

\* The entities that the record speaks of.
ShowsRecord(shown, rec) ==
    /\ shown["power"] = IF IsOff(rec) THEN "OFF" ELSE "ON"
    /\ ~IsOff(rec) => shown["status"] = rec.phase
    /\ \A e \in Layout.plain \ {"run_completed"} : shown[e] = rec.value
    /\ ~IsOff(rec) => \A e \in Layout.zeroed \cup Layout.blank \cup Layout.held : shown[e] = rec.value

LaundryInv ==
    /\ LaundryTypeOK
    /\ LineInv
    /\ ~washerLink.up => washerLink = NoWasherHandler /\ washerLine = <<>>
    /\ ~washerLink.heard => washerLink.last = NoRecord
    /\ washerLink.heard /\ (\A i \in 1..Len(washerLine) : ~IsRecord(washerLine[i]))
       => washerLink.last = washer.record
    /\ washerLink.heard /\ (washer.model = "VCDWL2QEUK" =>
                               \A i \in 1..Len(washerLine) : washerLine[i].type # "pair")
       => ShowsRecord(washerShown, washerLink.last)
    /\ washerLink.count /\ (\A i \in 1..Len(washerLine) : washerLine[i].type # "apart")
       => \A e \in Layout.apart : washerShown[e] = washer.apart
    /\ OffHasNoTime

LEMMA LayoutsOK ==
    ASSUME NEW m \in DOMAIN Models
    PROVE  LayoutOK(m, Models[m][2])
<1>1. LayoutOK("F_V__F", F_V__F_Layout)
    BY DEF LayoutOK, F_V__F_Layout, Newest, Whole
<1>2. LayoutOK("F_V8_Y", F_V8_Y_Layout)
    BY DEF LayoutOK, F_V8_Y_Layout, Newest, Whole
<1>3. LayoutOK("F_VB", F_VB_Layout)
    BY DEF LayoutOK, F_VB_Layout, Newest, Whole
<1>4. LayoutOK("Y_V8_Y", Y_V8_Y_Layout)
    BY DEF LayoutOK, Y_V8_Y_Layout, Newest, Whole
<1>5. LayoutOK("Y_V8_F", Y_V8_F_Layout)
    BY DEF LayoutOK, Y_V8_F_Layout, Newest, Whole
<1>6. LayoutOK("WTDN3", WTDN3_Layout)
    BY DEF LayoutOK, WTDN3_Layout, Newest, Whole
<1>7. LayoutOK("VCDWL2QEUK", VCDWL2QEUK_Layout)
    BY DEF LayoutOK, VCDWL2QEUK_Layout, Newest, Whole
<1>8. LayoutOK("F3L2CYU", F3L2CYU_Layout)
    BY DEF LayoutOK, F3L2CYU_Layout, Newest, Whole
<1>9. LayoutOK("RV13B6", RV13B6_Layout)
    BY DEF LayoutOK, RV13B6_Layout, Newest, Whole
<1>10. LayoutOK("Hd0C_F", Hd0C_F_Layout)
    BY DEF LayoutOK, Hd0C_F_Layout, Newest, Whole
<1>11. LayoutOK("Pd0F_F", Pd0F_F_Layout)
    BY DEF LayoutOK, Pd0F_F_Layout, Newest, Whole
<1>12. LayoutOK("RH16KR", RH16KR_Layout)
    BY DEF LayoutOK, RH16KR_Layout, Newest, Whole
<1>13. LayoutOK("F21VDT", F21VDT_Layout)
    BY DEF LayoutOK, F21VDT_Layout, Newest, Whole
<1>14. LayoutOK("D121111", D121111_Layout)
    BY DEF LayoutOK, D121111_Layout, Newest, Whole
<1>15. LayoutOK("RV13U6", RV13U6_Layout)
    BY DEF LayoutOK, RV13U6_Layout, Newest, Whole
<1>16. LayoutOK("T1789EFH", T1789EFH_Layout)
    BY DEF LayoutOK, T1789EFH_Layout, Newest, Whole
<1> QED
    BY <1>1, <1>2, <1>3, <1>4, <1>5, <1>6, <1>7, <1>8, <1>9, <1>10, <1>11, <1>12, <1>13, <1>14, <1>15, <1>16 DEF Models

\* The frames of a change end with the record as it is now.
LEMMA ChangedFacts ==
    ASSUME washer.model \in DOMAIN Models, NEW old \in Records, NEW new \in Records,
           NEW frames \in Changed(old, new)
    PROVE  /\ frames \in Seq(Frames) /\ Len(frames) \in {1, 2}
           /\ \A i \in 1..Len(frames) : FrameOK(frames[i]) /\ frames[i].type # "apart"
           /\ IsRecord(frames[Len(frames)]) /\ ReadNewest(frames[Len(frames)]) = new
           /\ Len(frames) = 1 => frames[1].type # "early"
           /\ Len(frames) = 2 => frames[1].type = "early"
           /\ Len(frames) = 2 \/ washer.model = "VCDWL2QEUK" => frames[Len(frames)].type = "pair"
<1> DEFINE pair == Frame("pair", IF Layout.pair = "first" THEN <<new, old>> ELSE <<old, new>>, "unset")
           single == Frame("single", <<new>>, "unset")
           early == Frame("early", <<>>, "unset")
<1>1. LayoutOK(washer.model, Layout)
    BY LayoutsOK DEF Layout
<1>2. /\ pair \in Frames /\ pair.type = "pair" /\ Len(pair.records) = 2
      /\ single \in Frames /\ single.type = "single" /\ Len(single.records) = 1
      /\ single.records[1] = new
      /\ early \in Frames /\ early.type = "early"
    BY DEF Frame, Frames
<1>3. Layout.pair \in {"first", "second"} => ReadNewest(pair) = new
    BY DEF ReadNewest, Frame
<1>4. ReadNewest(single) = new
    BY <1>2 DEF ReadNewest
<1>5. FrameOK(pair) /\ FrameOK(single) /\ IsRecord(pair)
    BY <1>2 DEF FrameOK, IsRecord
<1>6. \/ Layout.pair = "none" /\ frames = <<single>>
      \/ Layout.pair # "none" /\ frames = <<pair>>
      \/ washer.model = "Y_V8_F" /\ frames = <<single>>
      \/ Layout.pair # "none" /\ washer.model = "VCDWL2QEUK" /\ frames = <<early, pair>>
    BY DEF Changed
<1> HIDE DEF pair, single, early
<1>7. CASE frames = <<single>> /\ (Layout.pair = "none" \/ washer.model = "Y_V8_F")
    <2>1. Layout.single /\ washer.model # "VCDWL2QEUK"
        BY <1>1, <1>7 DEF LayoutOK
    <2>2. IsRecord(single)
        BY <1>2, <2>1 DEF IsRecord
    <2> QED
        BY <1>2, <1>4, <1>5, <1>7, <2>1, <2>2
<1>8. CASE frames = <<pair>> /\ Layout.pair # "none"
    <2>1. ReadNewest(pair) = new
        BY <1>1, <1>3, <1>8 DEF LayoutOK
    <2> QED
        BY <1>2, <1>5, <1>8, <2>1
<1>9. CASE frames = <<early, pair>> /\ Layout.pair # "none" /\ washer.model = "VCDWL2QEUK"
    <2>1. ReadNewest(pair) = new
        BY <1>1, <1>3, <1>9 DEF LayoutOK
    <2>2. FrameOK(early)
        BY <1>2, <1>9 DEF FrameOK
    <2> QED
        BY <1>2, <1>5, <1>9, <2>1, <2>2
<1> QED
    BY <1>6, <1>7, <1>8, <1>9

\* A model stays what it is.
LEMMA SameLayout ==
    ASSUME washer'.model = washer.model
    PROVE  Layout' = Layout /\ Config' = Config
BY DEF Layout, Config

\* What does not concern the handler: it has heard and shown the same.
LEMMA ApplianceStep ==
    ASSUME LaundryInv, washer' \in [model : {washer.model}, record : Records, apart : Amounts \cup {"unset"}],
           UNCHANGED <<washerLink, washerShown>>,
           washerLine' \in Seq(Frames), Len(washerLine') <= MaxLine, washerSent' = "none", LineInv',
           ~washerLink.up => washerLine' = <<>>,
           washerLink.heard /\ (\A i \in 1..Len(washerLine') : ~IsRecord(washerLine'[i]))
              => washerLink.last = washer'.record,
           washerLink.heard /\ (washer.model = "VCDWL2QEUK" =>
                                    \A i \in 1..Len(washerLine') : washerLine'[i].type # "pair")
              => ShowsRecord(washerShown, washerLink.last),
           washerLink.count /\ (\A i \in 1..Len(washerLine') : washerLine'[i].type # "apart")
              => \A e \in Layout.apart : washerShown[e] = washer'.apart
    PROVE  LaundryInv'
<1>1. washer'.model = washer.model /\ washer.model \in DOMAIN Models
    BY DEF LaundryInv, LaundryTypeOK
<1>2. Layout' = Layout /\ Config' = Config
    BY <1>1, SameLayout
<1>3. washer' \in [model : DOMAIN Models, record : Records, apart : Amounts \cup {"unset"}]
    BY <1>1
<1>4. LaundryTypeOK'
    BY <1>2, <1>3 DEF LaundryInv, LaundryTypeOK
<1>5. OffHasNoTime'
    BY <1>2 DEF LaundryInv, OffHasNoTime
<1>6. ShowsRecord(washerShown, washerLink.last) => ShowsRecord(washerShown, washerLink.last)'
    BY <1>2 DEF ShowsRecord, IsOff
<1>7. \A i \in 1..Len(washerLine') : IsRecord(washerLine[i])' <=> IsRecord(washerLine'[i])
    BY <1>2 DEF IsRecord
<1>8. (~washerLink.up => washerLink = NoWasherHandler /\ washerLine = <<>>)'
    BY DEF LaundryInv, NoWasherHandler
<1>9. (~washerLink.heard => washerLink.last = NoRecord)'
    BY DEF LaundryInv, NoRecord
<1>10. (washerLink.heard /\ (\A i \in 1..Len(washerLine) : ~IsRecord(washerLine[i]))
        => washerLink.last = washer.record)'
    BY <1>7
<1>11. (washerLink.heard /\ (washer.model = "VCDWL2QEUK" =>
                                  \A i \in 1..Len(washerLine) : washerLine[i].type # "pair")
        => ShowsRecord(washerShown, washerLink.last))'
    BY <1>1, <1>6
<1>12. (washerLink.count /\ (\A i \in 1..Len(washerLine) : washerLine[i].type # "apart")
        => \A e \in Layout.apart : washerShown[e] = washer.apart)'
    BY <1>2
<1> QED
    BY <1>4, <1>5, <1>8, <1>9, <1>10, <1>11, <1>12 DEF LaundryInv

\* The same of the frames under way, for a step that keeps the model.
LEMMA LineInvNext ==
    ASSUME washer'.model = washer.model,
           \A i \in 1..Len(washerLine') : FrameOK(washerLine'[i]),
           \A i \in 1..Len(washerLine') : IsRecord(washerLine'[i]) =>
              \/ \E j \in (i + 1)..Len(washerLine') : IsRecord(washerLine'[j])
              \/ ReadNewest(washerLine'[i]) = washer'.record,
           \A i \in 1..Len(washerLine') : washerLine'[i].type = "apart" =>
              \/ \E j \in (i + 1)..Len(washerLine') : washerLine'[j].type = "apart"
              \/ washerLine'[i].value = washer'.apart,
           \A i \in 1..Len(washerLine') : washerLine'[i].type = "early" =>
              \E j \in (i + 1)..Len(washerLine') : washerLine'[j].type = "pair"
    PROVE  LineInv'
<1>1. Layout' = Layout
    BY SameLayout
<1>2. \A i \in 1..Len(washerLine') : FrameOK(washerLine[i])' <=> FrameOK(washerLine'[i])
    BY DEF FrameOK
<1>3. \A i \in Int : IsRecord(washerLine[i])' <=> IsRecord(washerLine'[i])
    BY <1>1 DEF IsRecord
<1>4. \A i \in Int : ReadNewest(washerLine[i])' = ReadNewest(washerLine'[i])
    BY <1>1 DEF ReadNewest
<1>5. (\A i \in 1..Len(washerLine) : FrameOK(washerLine[i]))'
    BY <1>2
<1>6. (\A i \in 1..Len(washerLine) : IsRecord(washerLine[i]) =>
          \/ \E j \in (i + 1)..Len(washerLine) : IsRecord(washerLine[j])
          \/ ReadNewest(washerLine[i]) = washer.record)'
    BY <1>3, <1>4
<1> QED
    BY <1>5, <1>6 DEF LineInv

\* Two lines, one after the other.
LEMMA Concatenated ==
    ASSUME NEW S, NEW a \in Seq(S), NEW b \in Seq(S)
    PROVE  /\ a \o b \in Seq(S) /\ Len(a \o b) = Len(a) + Len(b) /\ Len(a) \in Nat /\ Len(b) \in Nat
           /\ \A i \in 1..Len(a) : (a \o b)[i] = a[i]
           /\ \A i \in 1..Len(b) : (a \o b)[Len(a) + i] = b[i]
<1>1. /\ a \o b \in Seq(S) /\ Len(a \o b) = Len(a) + Len(b)
      /\ \A i \in 1..(Len(a) + Len(b)) : (a \o b)[i] = IF i <= Len(a) THEN a[i] ELSE b[i - Len(a)]
    BY ConcatProperties
<1>2. Len(a) \in Nat /\ Len(b) \in Nat
    BY LenProperties
<1>3. \A i \in 1..Len(a) : i \in 1..(Len(a) + Len(b)) /\ i <= Len(a)
    BY <1>2
<1>4. \A i \in 1..Len(b) : /\ Len(a) + i \in 1..(Len(a) + Len(b)) /\ ~(Len(a) + i <= Len(a))
                           /\ (Len(a) + i) - Len(a) = i
    BY <1>2
<1> QED
    BY <1>1, <1>2, <1>3, <1>4

LEMMA ChangesKeeps ==
    ASSUME LaundryInv, LaundryAssumption, NEW new \in Records, WasherChanges(new)
    PROVE  LaundryInv'
<1>1. /\ washer.model \in DOMAIN Models /\ washer.record \in Records
      /\ washer' \in [model : {washer.model}, record : Records, apart : Amounts \cup {"unset"}]
      /\ washer'.model = washer.model /\ washer'.record = new /\ washer'.apart = washer.apart
    BY DEF LaundryInv, LaundryTypeOK, WasherChanges
<1>2. washerSent' = "none" /\ UNCHANGED <<washerLink, washerShown>>
    BY DEF WasherChanges
<1>3. washerLine \in Seq(Frames) /\ Len(washerLine) <= MaxLine /\ LineInv
    BY DEF LaundryInv, LaundryTypeOK
<1>4. CASE ~washerLink.up
    <2>1. washerLine = <<>> /\ washerLine' = <<>> /\ ~washerLink.heard /\ ~washerLink.count
        BY <1>4 DEF LaundryInv, WasherChanges, NoWasherHandler
    <2>2. LineInv'
        BY <1>1, <2>1, LineInvNext
    <2> QED
        BY <1>1, <1>2, <1>3, <2>1, <2>2, ApplianceStep
<1>5. CASE washerLink.up
    <2>1. PICK frames \in Changed(washer.record, new) :
             Len(washerLine) + Len(frames) <= MaxLine /\ washerLine' = washerLine \o frames
        BY <1>5 DEF WasherChanges
    <2> DEFINE n == Len(washerLine)
               k == Len(frames)
    <2>2. /\ frames \in Seq(Frames) /\ k \in {1, 2}
          /\ \A i \in 1..k : FrameOK(frames[i]) /\ frames[i].type # "apart"
          /\ IsRecord(frames[k]) /\ ReadNewest(frames[k]) = new
          /\ k = 1 => frames[1].type # "early"
          /\ k = 2 => frames[1].type = "early"
          /\ k = 2 \/ washer.model = "VCDWL2QEUK" => frames[k].type = "pair"
        BY <1>1, ChangedFacts
    <2>3. /\ washerLine' \in Seq(Frames) /\ Len(washerLine') = n + k /\ n \in Nat
          /\ \A i \in 1..n : washerLine'[i] = washerLine[i]
          /\ \A i \in 1..k : washerLine'[n + i] = frames[i]
        BY <1>3, <2>1, <2>2, Concatenated
    <2> HIDE DEF n, k
    <2>4. /\ \A i \in 1..(n + k) : i \in 1..n \/ (i - n \in 1..k /\ n + (i - n) = i)
          /\ n + k \in 1..(n + k) /\ k \in 1..k
          /\ \A i \in 1..n : n + k \in (i + 1)..(n + k) /\ (i + 1)..n \subseteq (i + 1)..(n + k)
          /\ \A i \in 1..(n + k) : i = n + k \/ n + k \in (i + 1)..(n + k)
        BY <2>2, <2>3
    <2>5. \A i \in 1..(n + k) : FrameOK(washerLine'[i])
        <3>1. \A i \in 1..n : FrameOK(washerLine[i])
            BY <1>3 DEF LineInv, n
        <3> QED
            BY <2>2, <2>3, <2>4, <3>1
    <2>6. IsRecord(washerLine'[n + k]) /\ ReadNewest(washerLine'[n + k]) = new
        BY <2>2, <2>3, <2>4
    <2>7. ASSUME NEW i \in 1..(n + k), IsRecord(washerLine'[i])
          PROVE  \/ \E j \in (i + 1)..(n + k) : IsRecord(washerLine'[j])
                 \/ ReadNewest(washerLine'[i]) = washer'.record
        BY <1>1, <2>4, <2>6
    <2>8. ASSUME NEW i \in 1..(n + k), washerLine'[i].type = "apart"
          PROVE  \/ \E j \in (i + 1)..(n + k) : washerLine'[j].type = "apart"
                 \/ washerLine'[i].value = washer'.apart
        <3>1. i \in 1..n /\ washerLine[i].type = "apart"
            <4>1. CASE i \in 1..n
                BY <2>3, <2>8, <4>1
            <4>2. CASE i - n \in 1..k /\ n + (i - n) = i
                <5>1. washerLine'[i] = frames[i - n]
                    BY <2>3, <4>2
                <5> QED
                    BY <2>2, <2>8, <4>2, <5>1
            <4> QED
                BY <2>4, <4>1, <4>2
        <3>2. \/ \E j \in (i + 1)..n : washerLine[j].type = "apart"
              \/ washerLine[i].value = washer.apart
            BY <1>3, <3>1 DEF LineInv, n
        <3>3. (i + 1)..n \subseteq 1..n
            BY <2>3, <3>1
        <3> QED
            BY <1>1, <2>3, <2>4, <3>1, <3>2, <3>3
    <2>9. ASSUME NEW i \in 1..(n + k), washerLine'[i].type = "early"
          PROVE  \E j \in (i + 1)..(n + k) : washerLine'[j].type = "pair"
        <3>1. CASE i \in 1..n
            <4>1. \E j \in (i + 1)..n : washerLine[j].type = "pair"
                BY <1>3, <2>3, <2>9, <3>1 DEF LineInv, n
            <4>2. (i + 1)..n \subseteq 1..n
                BY <2>3, <3>1
            <4> QED
                BY <2>3, <2>4, <3>1, <4>1, <4>2
        <3>2. CASE i \notin 1..n
            <4>1. frames[i - n].type = "early" /\ i - n \in 1..k
                BY <2>3, <2>4, <2>9, <3>2
            <4>2. k = 2 /\ i = n + 1
                BY <2>2, <2>3, <4>1
            <4>3. washerLine'[n + 2].type = "pair" /\ n + 2 \in (i + 1)..(n + k)
                BY <2>2, <2>3, <4>2
            <4> QED
                BY <4>3
        <3> QED
            BY <3>1, <3>2
    <2>10. Len(washerLine') = n + k /\ Len(washerLine') <= MaxLine
        BY <2>1, <2>3 DEF n, k
    <2>11. LineInv'
        BY <1>1, <2>5, <2>7, <2>8, <2>9, <2>10, LineInvNext
    <2>12. washer.model = "VCDWL2QEUK" => washerLine'[n + k].type = "pair"
        BY <2>2, <2>3, <2>4
    <2>13. washerLink.heard /\ (washer.model = "VCDWL2QEUK" =>
                                    \A i \in 1..Len(washerLine') : washerLine'[i].type # "pair")
           => ShowsRecord(washerShown, washerLink.last)
        BY <2>4, <2>10, <2>12 DEF LaundryInv
    <2>14. washerLink.count /\ (\A i \in 1..Len(washerLine') : washerLine'[i].type # "apart")
              => \A e \in Layout.apart : washerShown[e] = washer'.apart
        <3>1. 1..n \subseteq 1..(n + k)
            BY <2>2, <2>3
        <3>2. (\A i \in 1..(n + k) : washerLine'[i].type # "apart")
              => \A i \in 1..n : washerLine[i].type # "apart"
            BY <2>3, <3>1
        <3>3. washerLink.count /\ (\A i \in 1..n : washerLine[i].type # "apart")
              => \A e \in Layout.apart : washerShown[e] = washer.apart
            BY DEF LaundryInv, n
        <3> QED
            BY <1>1, <2>10, <3>2, <3>3
    <2>15. ~(\A i \in 1..Len(washerLine') : ~IsRecord(washerLine'[i]))
        BY <2>4, <2>6, <2>10
    <2> QED
        BY <1>1, <1>2, <1>5, <2>3, <2>10, <2>11, <2>13, <2>14, <2>15, ApplianceStep
<1> QED
    BY <1>4, <1>5

LEMMA CountsKeeps ==
    ASSUME LaundryInv, LaundryAssumption, NEW v \in Amounts, WasherCounts(v)
    PROVE  LaundryInv'
<1> DEFINE f == Frame("apart", <<>>, v)
           n == Len(washerLine)
<1>1. /\ washer.model \in DOMAIN Models /\ washer.record \in Records
      /\ washer' \in [model : {washer.model}, record : Records, apart : Amounts \cup {"unset"}]
      /\ washer'.model = washer.model /\ washer'.record = washer.record /\ washer'.apart = v
    BY DEF LaundryInv, LaundryTypeOK, WasherCounts
<1>2. /\ washerSent' = "none" /\ UNCHANGED <<washerLink, washerShown>> /\ washerLink.up
      /\ washerLine' = Append(washerLine, f) /\ n < MaxLine
    BY DEF WasherCounts
<1>3. washerLine \in Seq(Frames) /\ LineInv
    BY DEF LaundryInv, LaundryTypeOK
<1>4. f \in Frames /\ f.type = "apart" /\ f.value = v /\ FrameOK(f) /\ ~IsRecord(f)
    BY DEF Frame, Frames, FrameOK, IsRecord
<1> HIDE DEF f
<1>5. /\ washerLine' \in Seq(Frames) /\ Len(washerLine') = n + 1 /\ n \in Nat
      /\ \A i \in 1..n : washerLine'[i] = washerLine[i]
      /\ washerLine'[n + 1] = f
    BY <1>2, <1>3, <1>4, AppendProperties, LenProperties
<1>6. Len(washerLine') <= MaxLine
    BY <1>2, <1>5 DEF LaundryAssumption
<1> HIDE DEF n
<1>7. /\ \A i \in 1..(n + 1) : i \in 1..n \/ i = n + 1
      /\ n + 1 \in 1..(n + 1) /\ 1..n \subseteq 1..(n + 1)
      /\ \A i \in 1..n : n + 1 \in (i + 1)..(n + 1) /\ (i + 1)..n \subseteq (i + 1)..(n + 1)
      /\ \A i \in 1..n : (i + 1)..n \subseteq 1..n
    BY <1>5
<1>8. \A i \in 1..(n + 1) : FrameOK(washerLine'[i])
    BY <1>3, <1>4, <1>5, <1>7 DEF LineInv, n
<1>9. ASSUME NEW i \in 1..(n + 1), IsRecord(washerLine'[i])
      PROVE  \/ \E j \in (i + 1)..(n + 1) : IsRecord(washerLine'[j])
             \/ ReadNewest(washerLine'[i]) = washer'.record
    <2>1. i \in 1..n /\ IsRecord(washerLine[i])
        BY <1>4, <1>5, <1>7, <1>9
    <2>2. \/ \E j \in (i + 1)..n : IsRecord(washerLine[j])
          \/ ReadNewest(washerLine[i]) = washer.record
        BY <1>3, <2>1 DEF LineInv, n
    <2> QED
        BY <1>1, <1>5, <1>7, <2>1, <2>2
<1>10. ASSUME NEW i \in 1..(n + 1), washerLine'[i].type = "apart"
      PROVE  \/ \E j \in (i + 1)..(n + 1) : washerLine'[j].type = "apart"
             \/ washerLine'[i].value = washer'.apart
    BY <1>1, <1>4, <1>5, <1>7
<1>11. ASSUME NEW i \in 1..(n + 1), washerLine'[i].type = "early"
      PROVE  \E j \in (i + 1)..(n + 1) : washerLine'[j].type = "pair"
    <2>1. i \in 1..n /\ washerLine[i].type = "early"
        BY <1>4, <1>5, <1>7, <1>11
    <2>2. \E j \in (i + 1)..n : washerLine[j].type = "pair"
        BY <1>3, <2>1 DEF LineInv, n
    <2> QED
        BY <1>5, <1>7, <2>1, <2>2
<1>12. LineInv'
    BY <1>1, <1>5, <1>8, <1>9, <1>10, <1>11, LineInvNext
<1>13. /\ (\A i \in 1..(n + 1) : ~IsRecord(washerLine'[i])) => \A i \in 1..n : ~IsRecord(washerLine[i])
       /\ (\A i \in 1..(n + 1) : washerLine'[i].type # "pair")
             => \A i \in 1..n : washerLine[i].type # "pair"
       /\ ~(\A i \in 1..(n + 1) : washerLine'[i].type # "apart")
    BY <1>4, <1>5, <1>7
<1>14. washerLink.heard /\ (\A i \in 1..Len(washerLine') : ~IsRecord(washerLine'[i]))
           => washerLink.last = washer'.record
    BY <1>1, <1>5, <1>13 DEF LaundryInv, n
<1>15. washerLink.heard /\ (washer.model = "VCDWL2QEUK" =>
                                \A i \in 1..Len(washerLine') : washerLine'[i].type # "pair")
           => ShowsRecord(washerShown, washerLink.last)
    BY <1>5, <1>13 DEF LaundryInv, n
<1> QED
    BY <1>1, <1>2, <1>5, <1>6, <1>12, <1>13, <1>14, <1>15, ApplianceStep

LEMMA ConnectsKeeps ==
    ASSUME LaundryInv, LaundryAssumption, WasherConnects
    PROVE  LaundryInv'
<1> DEFINE f == Frame("single", <<washer.record>>, "unset")
<1>1. /\ washer.model \in DOMAIN Models /\ washer.record \in Records
      /\ UNCHANGED <<washer, washerShown>> /\ washerSent' = "none"
      /\ washerLine' = <<f>>
    BY DEF LaundryInv, LaundryTypeOK, WasherConnects
<1>2. washerLink' = [up |-> TRUE, heard |-> FALSE, last |-> NoRecord, count |-> FALSE]
    BY DEF WasherConnects, NoWasherHandler
<1>3. Layout' = Layout /\ Config' = Config
    BY <1>1, SameLayout
<1>4. f \in Frames /\ f.type = "single" /\ FrameOK(f) /\ ReadNewest(f) = washer.record
    <2>1. /\ f.type = "single" /\ f.records = <<washer.record>> /\ f.value = "unset"
          /\ f.records[1] = washer.record /\ Len(f.records) = 1
        BY DEF Frame
    <2>2. f \in Frames
        BY <1>1 DEF Frame, Frames
    <2> QED
        BY <2>1, <2>2 DEF FrameOK, ReadNewest
<1> HIDE DEF f
<1>5. /\ washerLine' \in Seq(Frames) /\ Len(washerLine') = 1 /\ washerLine'[1] = f
      /\ \A i \in 1..1 : i = 1
    BY <1>1, <1>4
<1>6. LineInv'
    <2>1. washer'.model = washer.model /\ washer'.record = washer.record
        BY <1>1
    <2>2. \A i \in 1..Len(washerLine') : washerLine'[i] = f
        BY <1>5
    <2> QED
        BY <1>4, <2>1, <2>2, LineInvNext
<1>7. NoRecord \in Records
    BY DEF NoRecord, Records, Phases, Amounts
<1>8. LaundryTypeOK'
    <2>1. washerLink' \in [up : BOOLEAN, heard : BOOLEAN, last : Records, count : BOOLEAN]
        BY <1>2, <1>7
    <2>2. Len(washerLine') <= MaxLine
        BY <1>5 DEF LaundryAssumption
    <2> QED
        BY <1>1, <1>3, <1>5, <2>1, <2>2 DEF LaundryInv, LaundryTypeOK
<1>9. OffHasNoTime'
    BY <1>1, <1>3 DEF LaundryInv, OffHasNoTime
<1>10. washerLink'.up /\ ~washerLink'.heard /\ ~washerLink'.count /\ washerLink'.last = NoRecord
    BY <1>2
<1>11. (~washerLink.heard => washerLink.last = NoRecord)'
    BY <1>10 DEF NoRecord
<1> QED
    BY <1>6, <1>8, <1>9, <1>10, <1>11 DEF LaundryInv

LEMMA LostKeeps ==
    ASSUME LaundryInv, LaundryAssumption, WasherLost
    PROVE  LaundryInv'
<1>1. /\ washer.model \in DOMAIN Models /\ washer.record \in Records
      /\ UNCHANGED <<washer, washerShown>> /\ washerSent' = "none"
      /\ washerLine' = <<>> /\ washerLink' = NoWasherHandler
    BY DEF LaundryInv, LaundryTypeOK, WasherLost
<1>2. Layout' = Layout /\ Config' = Config
    BY <1>1, SameLayout
<1>3. LineInv'
    BY <1>1, LineInvNext
<1>4. NoRecord \in Records
    BY DEF NoRecord, Records, Phases, Amounts
<1>5. LaundryTypeOK'
    <2>1. washerLink' \in [up : BOOLEAN, heard : BOOLEAN, last : Records, count : BOOLEAN]
        BY <1>1, <1>4 DEF NoWasherHandler
    <2>2. washerLine' \in Seq(Frames) /\ Len(washerLine') <= MaxLine
        BY <1>1 DEF LaundryAssumption
    <2> QED
        BY <1>1, <1>2, <2>1, <2>2 DEF LaundryInv, LaundryTypeOK
<1>6. OffHasNoTime'
    BY <1>1, <1>2 DEF LaundryInv, OffHasNoTime
<1>7. ~washerLink'.heard /\ ~washerLink'.count /\ washerLink'.last = NoRecord
    BY <1>1 DEF NoWasherHandler
<1>8. (~washerLink.up => washerLink = NoWasherHandler /\ washerLine = <<>>)'
    BY <1>1 DEF NoWasherHandler
<1>9. (~washerLink.heard => washerLink.last = NoRecord)'
    BY <1>7 DEF NoRecord
<1> QED
    BY <1>3, <1>5, <1>6, <1>7, <1>8, <1>9 DEF LaundryInv

\* What the entities of a record show.
LEMMA DecodedFacts ==
    ASSUME washer.model \in DOMAIN Models, NEW rec \in Records
    PROVE  /\ Decoded("power", rec) = IF IsOff(rec) THEN "OFF" ELSE "ON"
           /\ Decoded("status", rec) = IF IsOff(rec) THEN "off" ELSE rec.phase
           /\ Decoded("run_completed", rec) = IF rec.phase = "done" THEN "ON" ELSE "OFF"
           /\ \A e \in Layout.plain \ {"run_completed"} : Decoded(e, rec) = rec.value
           /\ \A e \in Layout.zeroed : Decoded(e, rec) = IF IsOff(rec) THEN "zero" ELSE rec.value
           /\ \A e \in Layout.blank : Decoded(e, rec) = IF IsOff(rec) THEN "-" ELSE rec.value
           /\ \A e \in Layout.held : Decoded(e, rec) = rec.value
<1>1. LayoutOK(washer.model, Layout)
    BY LayoutsOK DEF Layout
<1>2. \A e \in {"power", "status"} :
         e \notin Layout.plain \cup Layout.zeroed \cup Layout.blank \cup Layout.held \cup Layout.apart
    BY <1>1 DEF LayoutOK
<1>3. "run_completed" \notin Layout.zeroed \cup Layout.blank \cup Layout.held \cup Layout.apart
    BY <1>1 DEF LayoutOK
<1>4. /\ Decoded("power", rec) = IF IsOff(rec) THEN "OFF" ELSE "ON"
      /\ Decoded("status", rec) = IF IsOff(rec) THEN "off" ELSE rec.phase
      /\ Decoded("run_completed", rec) = IF rec.phase = "done" THEN "ON" ELSE "OFF"
    BY <1>2, <1>3 DEF Decoded
<1>5. ASSUME NEW e \in Layout.plain \ {"run_completed"}
      PROVE  Decoded(e, rec) = rec.value
    <2>1. e \notin {"power", "status", "run_completed"} /\ e \notin Layout.zeroed /\ e \notin Layout.blank
        BY <1>1, <1>2 DEF LayoutOK
    <2> QED
        BY <2>1 DEF Decoded
<1>6. ASSUME NEW e \in Layout.zeroed
      PROVE  Decoded(e, rec) = IF IsOff(rec) THEN "zero" ELSE rec.value
    <2>1. e \notin {"power", "status", "run_completed"} /\ e \notin Layout.blank
        BY <1>1, <1>2, <1>3 DEF LayoutOK
    <2> QED
        BY <2>1 DEF Decoded
<1>7. ASSUME NEW e \in Layout.blank
      PROVE  Decoded(e, rec) = IF IsOff(rec) THEN "-" ELSE rec.value
    <2>1. e \notin {"power", "status", "run_completed"} /\ e \notin Layout.zeroed
        BY <1>1, <1>2, <1>3 DEF LayoutOK
    <2> QED
        BY <2>1 DEF Decoded
<1>8. ASSUME NEW e \in Layout.held
      PROVE  Decoded(e, rec) = rec.value
    <2>1. e \notin {"power", "status", "run_completed"} /\ e \notin Layout.zeroed /\ e \notin Layout.blank
        BY <1>1, <1>2, <1>3 DEF LayoutOK
    <2> QED
        BY <2>1 DEF Decoded
<1> QED
    BY <1>4, <1>5, <1>6, <1>7, <1>8

\* What is shown once a record has been processed.
LEMMA RecordShown ==
    ASSUME washer.model \in DOMAIN Models, LaundryAssumption, NEW rec \in Records,
           washerShown \in [Config.states -> Values], ProcessRecord(rec)
    PROVE  /\ washerShown' \in [Config.states -> Values]
           /\ ShowsRecord(washerShown', rec)
           /\ \A e \in Layout.apart : washerShown'[e] = washerShown[e]
           /\ washerShown'["power"] = "OFF" => \A e \in Layout.zeroed : washerShown'[e] = "zero"
           /\ washerShown'["power"] = "ON" => \A e \in Layout.blank : washerShown'[e] # "-"
<1>1. LayoutOK(washer.model, Layout)
    BY LayoutsOK DEF Layout
<1>2. Config.states = Names(Layout)
    BY DEF LaundryAssumption, Config, Layout
<1>3. /\ {"power", "status"} \subseteq Config.states
      /\ Layout.plain \subseteq Config.states /\ Layout.zeroed \subseteq Config.states
      /\ Layout.blank \subseteq Config.states /\ Layout.held \subseteq Config.states
      /\ Layout.apart \subseteq Config.states
    BY <1>2 DEF Names
<1>4. \A e \in Config.states : \/ e \in {"power", "status"} \/ e \in Layout.plain \/ e \in Layout.zeroed
                               \/ e \in Layout.blank \/ e \in Layout.held \/ e \in Layout.apart
    BY <1>2 DEF Names
<1>5. \A e \in Config.states : washerShown'[e] =
         IF e \in Layout.apart \/ (e \in Layout.held /\ IsOff(rec)) THEN washerShown[e]
         ELSE Decoded(e, rec)
    BY DEF ProcessRecord
<1>6. /\ \A e \in {"power", "status"} \cup Layout.plain \cup Layout.zeroed \cup Layout.blank :
            e \notin Layout.apart /\ e \notin Layout.held
      /\ \A e \in Layout.held : e \notin Layout.apart
    BY <1>1 DEF LayoutOK
<1>7. rec.phase \in Phases /\ rec.value \in Amounts
    BY DEF Records
<1>8. \A e \in {"power", "status"} \cup Layout.plain \cup Layout.zeroed \cup Layout.blank :
         washerShown'[e] = Decoded(e, rec)
    BY <1>3, <1>5, <1>6
<1>9. ~IsOff(rec) => \A e \in Layout.held : washerShown'[e] = Decoded(e, rec)
    BY <1>3, <1>5, <1>6
<1>10. ShowsRecord(washerShown', rec)
    BY <1>8, <1>9, DecodedFacts DEF ShowsRecord
<1>11. \A e \in Layout.apart : washerShown'[e] = washerShown[e]
    BY <1>3, <1>5
<1>12. washerShown'["power"] = IF IsOff(rec) THEN "OFF" ELSE "ON"
    BY <1>8, DecodedFacts
<1>13. washerShown'["power"] = "OFF" => \A e \in Layout.zeroed : washerShown'[e] = "zero"
    BY <1>8, <1>12, DecodedFacts
<1>14. washerShown'["power"] = "ON" => \A e \in Layout.blank : washerShown'[e] # "-"
    BY <1>7, <1>8, <1>12, DecodedFacts DEF Amounts
<1>15. ASSUME NEW e \in Config.states
       PROVE  washerShown'[e] \in Values
    <2>1. CASE washerShown'[e] = washerShown[e]
        BY <2>1
    <2>2. CASE washerShown'[e] = Decoded(e, rec) /\ e \notin Layout.apart
        <3>1. Decoded(e, rec) \in {"ON", "OFF", "off", "zero", "-", rec.phase, rec.value}
            <4>1. e \in {"power", "status", "run_completed"} \/ e \in Layout.plain \ {"run_completed"}
                  \/ e \in Layout.zeroed \/ e \in Layout.blank \/ e \in Layout.held
                BY <1>4, <2>2
            <4> QED
                BY <4>1, DecodedFacts
        <3> QED
            BY <1>7, <2>2, <3>1 DEF Values, Phases, Amounts
    <2> QED
        BY <1>5, <2>1, <2>2
<1>16. washerShown' \in [Config.states -> Values]
    <2>1. washerShown' = [e \in Config.states |-> washerShown'[e]]
        BY DEF ProcessRecord
    <2> QED
        BY <1>15, <2>1
<1> QED
    BY <1>10, <1>11, <1>13, <1>14, <1>16

\* The frames that stay behind the first.
LEMMA TailFacts ==
    ASSUME LaundryInv, LaundryAssumption, washerLine # <<>>, washerLine' = Tail(washerLine), UNCHANGED washer
    PROVE  /\ washerLine' \in Seq(Frames) /\ Len(washerLine') <= MaxLine /\ LineInv'
           /\ FrameOK(Head(washerLine))
           /\ \A P \in SUBSET Frames :
                 (\A i \in 1..Len(washerLine') : washerLine'[i] \notin P) /\ Head(washerLine) \notin P
                 => \A i \in 1..Len(washerLine) : washerLine[i] \notin P
           /\ IsRecord(Head(washerLine)) /\ (\A i \in 1..Len(washerLine') : ~IsRecord(washerLine'[i]))
                 => ReadNewest(Head(washerLine)) = washer.record
           /\ /\ Head(washerLine).type = "apart"
              /\ \A i \in 1..Len(washerLine') : washerLine'[i].type # "apart"
              => Head(washerLine).value = washer.apart
           /\ Head(washerLine).type = "early" => \E i \in 1..Len(washerLine') : washerLine'[i].type = "pair"
<1> DEFINE n == Len(washerLine)
<1>1. washerLine \in Seq(Frames) /\ n <= MaxLine /\ LineInv
    BY DEF LaundryInv, LaundryTypeOK
<1>2. /\ washerLine' \in Seq(Frames) /\ Len(washerLine') = n - 1 /\ n \in Nat /\ n # 0
      /\ Head(washerLine) = washerLine[1]
      /\ \A i \in 1..(n - 1) : washerLine'[i] = washerLine[i + 1]
    BY <1>1, HeadTailProperties, LenProperties, EmptySeq
<1> HIDE DEF n
<1>3. /\ 1 \in 1..n /\ \A i \in 1..(n - 1) : i + 1 \in 1..n
      /\ \A i \in 1..n : i = 1 \/ (i - 1 \in 1..(n - 1) /\ (i - 1) + 1 = i)
      /\ \A i \in 1..(n - 1) : \A j \in (i + 1 + 1)..n : j - 1 \in (i + 1)..(n - 1)
      /\ \A j \in (1 + 1)..n : j - 1 \in 1..(n - 1)
      /\ \A i \in 1..(n - 1) : \A j \in (i + 1)..(n - 1) : j \in 1..(n - 1)
    BY <1>2
<1>4. /\ \A j \in (1 + 1)..n : j - 1 \in 1..(n - 1) /\ washerLine'[j - 1] = washerLine[j]
      /\ \A i \in 1..(n - 1) : \A j \in (i + 1 + 1)..n :
            j - 1 \in (i + 1)..(n - 1) /\ washerLine'[j - 1] = washerLine[j]
    <2>1. ASSUME NEW j \in (1 + 1)..n
          PROVE  j - 1 \in 1..(n - 1) /\ washerLine'[j - 1] = washerLine[j]
        <3>1. j - 1 \in 1..(n - 1) /\ (j - 1) + 1 = j
            BY <1>2
        <3> QED
            BY <1>2, <3>1
    <2>2. ASSUME NEW i \in 1..(n - 1), NEW j \in (i + 1 + 1)..n
          PROVE  j \in (1 + 1)..n
        BY <1>2
    <2> QED
        BY <1>3, <2>1, <2>2
<1>5. \A i \in 1..(n - 1) : FrameOK(washerLine'[i])
    BY <1>1, <1>2, <1>3 DEF LineInv, n
<1>6. ASSUME NEW i \in 1..(n - 1), IsRecord(washerLine'[i])
      PROVE  \/ \E j \in (i + 1)..(n - 1) : IsRecord(washerLine'[j])
             \/ ReadNewest(washerLine'[i]) = washer'.record
    <2>1. \/ \E j \in (i + 1 + 1)..n : IsRecord(washerLine[j])
          \/ ReadNewest(washerLine[i + 1]) = washer.record
        BY <1>1, <1>2, <1>3, <1>6 DEF LineInv, n
    <2>2. CASE \E j \in (i + 1 + 1)..n : IsRecord(washerLine[j])
        <3>1. PICK j \in (i + 1 + 1)..n : IsRecord(washerLine[j])
            BY <2>2
        <3>2. j - 1 \in (i + 1)..(n - 1) /\ washerLine'[j - 1] = washerLine[j]
            BY <1>4, <3>1
        <3> QED
            BY <3>1, <3>2
    <2> QED
        BY <1>2, <2>1, <2>2
<1>7. ASSUME NEW i \in 1..(n - 1), washerLine'[i].type = "apart"
      PROVE  \/ \E j \in (i + 1)..(n - 1) : washerLine'[j].type = "apart"
             \/ washerLine'[i].value = washer'.apart
    <2>1. \/ \E j \in (i + 1 + 1)..n : washerLine[j].type = "apart"
          \/ washerLine[i + 1].value = washer.apart
        BY <1>1, <1>2, <1>3, <1>7 DEF LineInv, n
    <2>2. CASE \E j \in (i + 1 + 1)..n : washerLine[j].type = "apart"
        <3>1. PICK j \in (i + 1 + 1)..n : washerLine[j].type = "apart"
            BY <2>2
        <3>2. j - 1 \in (i + 1)..(n - 1) /\ washerLine'[j - 1] = washerLine[j]
            BY <1>4, <3>1
        <3> QED
            BY <3>1, <3>2
    <2> QED
        BY <1>2, <2>1, <2>2
<1>8. ASSUME NEW i \in 1..(n - 1), washerLine'[i].type = "early"
      PROVE  \E j \in (i + 1)..(n - 1) : washerLine'[j].type = "pair"
    <2>1. PICK j \in (i + 1 + 1)..n : washerLine[j].type = "pair"
        BY <1>1, <1>2, <1>3, <1>8 DEF LineInv, n
    <2>2. j - 1 \in (i + 1)..(n - 1) /\ washerLine'[j - 1] = washerLine[j]
        BY <1>4, <2>1
    <2> QED
        BY <2>1, <2>2
<1>9. LineInv'
    <2>1. washer'.model = washer.model
        OBVIOUS
    <2>2. Len(washerLine') = n - 1
        BY <1>2
    <2>3. \A i \in 1..Len(washerLine') : FrameOK(washerLine'[i])
        BY <1>5, <2>2, Zenon
    <2>4. \A i \in 1..Len(washerLine') : IsRecord(washerLine'[i]) =>
            \/ \E j \in (i + 1)..Len(washerLine') : IsRecord(washerLine'[j])
            \/ ReadNewest(washerLine'[i]) = washer'.record
        BY <1>6, <2>2, Zenon
    <2>5. \A i \in 1..Len(washerLine') : washerLine'[i].type = "apart" =>
            \/ \E j \in (i + 1)..Len(washerLine') : washerLine'[j].type = "apart"
            \/ washerLine'[i].value = washer'.apart
        BY <1>7, <2>2, Zenon
    <2>6. \A i \in 1..Len(washerLine') : washerLine'[i].type = "early" =>
            \E j \in (i + 1)..Len(washerLine') : washerLine'[j].type = "pair"
        <3>1. n \in Nat
            BY <1>2
        <3>2. \A i \in 1..(n - 1) : washerLine'[i].type = "early" =>
                \E j \in (i + 1)..(n - 1) : washerLine'[j].type = "pair"
            BY <1>8
        <3> QED
            BY ONLY <2>2, <3>1, <3>2
    <2> QED
        BY <2>1, <2>3, <2>4, <2>5, <2>6, LineInvNext, Zenon
<1>10. FrameOK(Head(washerLine)) /\ Len(washerLine') <= MaxLine
    <2>1. FrameOK(washerLine[1])
        BY <1>1, <1>3 DEF LineInv, n
    <2>2. n - 1 <= MaxLine
        BY <1>1, <1>2 DEF n, LaundryAssumption
    <2> QED
        BY <1>2, <2>1, <2>2
<1>11. ASSUME NEW P \in SUBSET Frames, \A i \in 1..Len(washerLine') : washerLine'[i] \notin P,
              Head(washerLine) \notin P, NEW i \in 1..Len(washerLine)
       PROVE  washerLine[i] \notin P
    BY <1>2, <1>3, <1>11 DEF n
<1>12. ASSUME IsRecord(Head(washerLine)), \A i \in 1..Len(washerLine') : ~IsRecord(washerLine'[i])
       PROVE  ReadNewest(Head(washerLine)) = washer.record
    <2>1. \/ \E j \in (1 + 1)..n : IsRecord(washerLine[j])
          \/ ReadNewest(washerLine[1]) = washer.record
        BY <1>1, <1>2, <1>3, <1>12 DEF LineInv, n
    <2>2. ~ \E j \in (1 + 1)..n : IsRecord(washerLine[j])
        <3>1. \A i \in 1..(n - 1) : ~IsRecord(washerLine'[i])
            BY <1>2, <1>12
        <3> QED
            BY <1>4, <3>1
    <2> QED
        BY <1>2, <2>1, <2>2
<1>13. ASSUME Head(washerLine).type = "apart", \A i \in 1..Len(washerLine') : washerLine'[i].type # "apart"
       PROVE  Head(washerLine).value = washer.apart
    <2>1. \/ \E j \in (1 + 1)..n : washerLine[j].type = "apart"
          \/ washerLine[1].value = washer.apart
        BY <1>1, <1>2, <1>3, <1>13 DEF LineInv, n
    <2>2. ~ \E j \in (1 + 1)..n : washerLine[j].type = "apart"
        <3>1. \A i \in 1..(n - 1) : washerLine'[i].type # "apart"
            BY <1>2, <1>13
        <3> QED
            BY <1>4, <3>1
    <2> QED
        BY <1>2, <2>1, <2>2
<1>14. ASSUME Head(washerLine).type = "early"
       PROVE  \E i \in 1..Len(washerLine') : washerLine'[i].type = "pair"
    <2>1. PICK j \in (1 + 1)..n : washerLine[j].type = "pair"
        BY <1>1, <1>2, <1>3, <1>14 DEF LineInv, n
    <2>2. j - 1 \in 1..(n - 1) /\ washerLine'[j - 1] = washerLine[j]
        BY <1>4, <2>1
    <2> QED
        BY <1>2, <2>1, <2>2
<1> QED
    BY <1>2, <1>9, <1>10, <1>11, <1>12, <1>13, <1>14

\* What the handler heard: how the invariant follows from what it has done.
LEMMA HandlerStep ==
    ASSUME LaundryInv, LaundryAssumption, washerLine # <<>>, washerLine' = Tail(washerLine), UNCHANGED washer,
           washerSent' = "none",
           washerShown' \in [Config.states -> Values],
           washerLink' \in [up : {washerLink.up}, heard : BOOLEAN, last : Records, count : BOOLEAN],
           ~washerLink'.heard => washerLink'.last = NoRecord,
           washerLink'.heard /\ (\A i \in 1..Len(washerLine') : ~IsRecord(washerLine'[i]))
              => washerLink'.last = washer.record,
           washerLink'.heard /\ (washer.model = "VCDWL2QEUK" =>
                                    \A i \in 1..Len(washerLine') : washerLine'[i].type # "pair")
              => ShowsRecord(washerShown', washerLink'.last),
           washerLink'.count /\ (\A i \in 1..Len(washerLine') : washerLine'[i].type # "apart")
              => \A e \in Layout.apart : washerShown'[e] = washer.apart,
           washerShown'["power"] = "OFF" => \A e \in Layout.zeroed : washerShown'[e] = "zero",
           washerShown'["power"] = "ON" => \A e \in Layout.blank : washerShown'[e] # "-"
    PROVE  LaundryInv'
<1>1. Layout' = Layout /\ Config' = Config
    BY SameLayout
<1>2. washerLine' \in Seq(Frames) /\ Len(washerLine') <= MaxLine /\ LineInv'
    BY TailFacts
<1>3. LaundryTypeOK'
    <2>1. /\ washer \in [model : DOMAIN Models, record : Records, apart : Amounts \cup {"unset"}]
          /\ washerLink.up \in BOOLEAN
        BY DEF LaundryInv, LaundryTypeOK
    <2> QED
        BY <1>1, <1>2, <2>1 DEF LaundryTypeOK
<1>4. OffHasNoTime'
    BY <1>1 DEF OffHasNoTime
<1>5. \A i \in 1..Len(washerLine') : IsRecord(washerLine[i])' <=> IsRecord(washerLine'[i])
    BY <1>1 DEF IsRecord
<1>6. ShowsRecord(washerShown', washerLink'.last) => ShowsRecord(washerShown, washerLink.last)'
    BY <1>1 DEF ShowsRecord, IsOff
<1>7. (~washerLink.up => washerLink = NoWasherHandler /\ washerLine = <<>>)'
    BY DEF LaundryInv
<1>8. (~washerLink.heard => washerLink.last = NoRecord)'
    BY DEF NoRecord
<1>9. (washerLink.heard /\ (\A i \in 1..Len(washerLine) : ~IsRecord(washerLine[i]))
        => washerLink.last = washer.record)'
    BY <1>5
<1>10. (washerLink.heard /\ (washer.model = "VCDWL2QEUK" =>
                                  \A i \in 1..Len(washerLine) : washerLine[i].type # "pair")
        => ShowsRecord(washerShown, washerLink.last))'
    BY <1>6
<1>11. (washerLink.count /\ (\A i \in 1..Len(washerLine) : washerLine[i].type # "apart")
        => \A e \in Layout.apart : washerShown[e] = washer.apart)'
    BY <1>1
<1> QED
    BY <1>2, <1>3, <1>4, <1>7, <1>8, <1>9, <1>10, <1>11 DEF LaundryInv

LEMMA HeardKeeps ==
    ASSUME LaundryInv, LaundryAssumption, WasherHeard
    PROVE  LaundryInv'
<1> DEFINE f == Head(washerLine)
           only(t) == \A i \in 1..Len(washerLine') : washerLine'[i].type # t
           was(t) == \A i \in 1..Len(washerLine) : washerLine[i].type # t
           NoRecords == \A i \in 1..Len(washerLine') : ~IsRecord(washerLine'[i])
<1>1. /\ washerLine # <<>> /\ washerLine' = Tail(washerLine) /\ UNCHANGED washer
      /\ washerSent' = "none" /\ ProcessAABB(f)
    BY DEF WasherHeard
<1>2. /\ washer.model \in DOMAIN Models /\ washer.record \in Records
      /\ washerShown \in [Config.states -> Values]
      /\ washerLink \in [up : BOOLEAN, heard : BOOLEAN, last : Records, count : BOOLEAN]
      /\ washerLine \in Seq(Frames) /\ washerLine' \in Seq(Frames)
    BY <1>1, TailFacts DEF LaundryInv, LaundryTypeOK
<1>3. /\ FrameOK(f)
      /\ \A P \in SUBSET Frames :
            (\A i \in 1..Len(washerLine') : washerLine'[i] \notin P) /\ f \notin P
            => \A i \in 1..Len(washerLine) : washerLine[i] \notin P
      /\ IsRecord(f) /\ NoRecords => ReadNewest(f) = washer.record
      /\ f.type = "apart" /\ only("apart") => f.value = washer.apart
      /\ f.type = "early" => ~only("pair")
    BY <1>1, TailFacts
<1>4. /\ washerLine \in [1..Len(washerLine) -> Frames]
      /\ washerLine' \in [1..Len(washerLine') -> Frames]
    BY <1>2, LenProperties
<1>5. LayoutOK(washer.model, Layout)
    BY <1>2, LayoutsOK DEF Layout
<1>6. Config.states = Names(Layout)
    BY <1>2 DEF LaundryAssumption, Config, Layout
<1> HIDE DEF f
<1>7. ASSUME NEW t, f.type # t, only(t)
      PROVE  was(t)
    <2> DEFINE P == {x \in Frames : x.type = t}
    <2>1. P \in SUBSET Frames /\ f \notin P /\ \A i \in 1..Len(washerLine') : washerLine'[i] \notin P
        BY <1>4, <1>7
    <2>2. \A i \in 1..Len(washerLine) : washerLine[i] \notin P
        <3> HIDE DEF P
        <3> QED
            BY <1>3, <2>1
    <2> QED
        BY <1>4, <2>2
<1>8. ASSUME ~IsRecord(f), NoRecords
      PROVE  \A i \in 1..Len(washerLine) : ~IsRecord(washerLine[i])
    <2> DEFINE P == {x \in Frames : IsRecord(x)}
    <2>1. P \in SUBSET Frames /\ f \notin P /\ \A i \in 1..Len(washerLine') : washerLine'[i] \notin P
        BY <1>4, <1>8
    <2>2. \A i \in 1..Len(washerLine) : washerLine[i] \notin P
        <3> HIDE DEF P
        <3> QED
            BY <1>3, <2>1
    <2> QED
        BY <1>4, <2>2
<1>9. f \in Frames /\ f.type \in {"single", "pair", "early", "apart"}
    BY <1>3 DEF FrameOK, Frames
<1>10. /\ ~washerLink.heard => washerLink.last = NoRecord
       /\ ~IsRecord(f) /\ washerLink.heard /\ NoRecords => washerLink.last = washer.record
       /\ f.type # "pair" /\ washerLink.heard /\ (washer.model = "VCDWL2QEUK" => only("pair"))
             => ShowsRecord(washerShown, washerLink.last)
       /\ f.type # "apart" /\ washerLink.count /\ only("apart")
             => \A e \in Layout.apart : washerShown[e] = washer.apart
       /\ washerShown["power"] = "OFF" => \A e \in Layout.zeroed : washerShown[e] = "zero"
       /\ washerShown["power"] = "ON" => \A e \in Layout.blank : washerShown[e] # "-"
    <2>1. f.type # "pair" /\ only("pair") => was("pair")
        BY <1>7
    <2>2. f.type # "apart" /\ only("apart") => was("apart")
        BY <1>7
    <2> QED
        BY <1>8, <2>1, <2>2 DEF LaundryInv, OffHasNoTime
<1>11. \A e \in {"power", "status"} \cup Layout.plain \cup Layout.zeroed \cup Layout.blank \cup Layout.held :
          e \in Config.states /\ e \notin Layout.apart
    BY <1>5, <1>6 DEF LayoutOK, Names
<1>12. CASE f.type = "early"
    <2>1. washerShown' = [washerShown EXCEPT !["power"] = "ON"] /\ washerLink' = washerLink
        BY <1>1, <1>12 DEF ProcessAABB
    <2>2. washer.model = "VCDWL2QEUK" /\ ~only("pair") /\ ~NoRecords
        BY <1>3, <1>12 DEF FrameOK, IsRecord
    <2>3. Layout.blank = {}
        BY <1>5, <2>2 DEF LayoutOK
    <2>4. washerShown' \in [Config.states -> Values]
        BY <1>2, <2>1 DEF Values
    <2>5. \A e \in Layout.apart : washerShown'[e] = washerShown[e]
        BY <1>2, <1>11, <2>1
    <2>6. washerShown'["power"] = "ON"
        BY <1>2, <1>11, <2>1
    <2> QED
        BY <1>1, <1>2, <1>10, <1>12, <2>1, <2>2, <2>3, <2>4, <2>5, <2>6, HandlerStep
<1>13. CASE f.type = "apart"
    <2>1. /\ washerShown' = [e \in Config.states |->
                IF e \in Layout.apart /\ f.value # "unset" THEN f.value ELSE washerShown[e]]
          /\ washerLink' = [washerLink EXCEPT !.count = (@ \/ f.value # "unset")]
        BY <1>1, <1>13 DEF ProcessAABB
    <2>2. f.value \in Amounts /\ f.value # "unset" /\ ~IsRecord(f)
        BY <1>3, <1>13 DEF FrameOK, Amounts, IsRecord
    <2>3. /\ washerLink' \in [up : {washerLink.up}, heard : BOOLEAN, last : Records, count : BOOLEAN]
          /\ washerLink'.heard = washerLink.heard /\ washerLink'.last = washerLink.last
        BY <1>2, <2>1
    <2>4. washerShown' \in [Config.states -> Values]
        BY <1>2, <2>1, <2>2 DEF Values
    <2>5. \A e \in {"power", "status"} \cup Layout.plain \cup Layout.zeroed \cup Layout.blank \cup Layout.held :
             washerShown'[e] = washerShown[e]
        BY <1>11, <2>1
    <2>6. \A e \in Layout.apart : washerShown'[e] = f.value
        BY <1>6, <2>1, <2>2 DEF Names
    <2>7. ShowsRecord(washerShown, washerLink.last) => ShowsRecord(washerShown', washerLink'.last)
        BY <2>3, <2>5 DEF ShowsRecord
    <2>8. only("apart") => \A e \in Layout.apart : washerShown'[e] = washer.apart
        BY <1>3, <1>13, <2>6
    <2>9. /\ washerShown'["power"] = "OFF" => \A e \in Layout.zeroed : washerShown'[e] = "zero"
          /\ washerShown'["power"] = "ON" => \A e \in Layout.blank : washerShown'[e] # "-"
        BY <1>10, <2>5
    <2>10. washerLink'.heard /\ NoRecords => washerLink'.last = washer.record
        BY <1>10, <2>2, <2>3
    <2>11. washerLink'.heard /\ (washer.model = "VCDWL2QEUK" => only("pair"))
              => ShowsRecord(washerShown', washerLink'.last)
        BY <1>10, <1>13, <2>3, <2>7
    <2>12. ~washerLink'.heard => washerLink'.last = NoRecord
        BY <1>10, <2>3
    <2> QED
        BY <1>1, <2>3, <2>4, <2>8, <2>9, <2>10, <2>11, <2>12, HandlerStep
<1>14. CASE f.type = "single" /\ ~Layout.single
    <2>1. washerShown' = washerShown /\ washerLink' = washerLink
        BY <1>1, <1>14 DEF ProcessAABB
    <2>2. ~IsRecord(f)
        BY <1>14 DEF IsRecord
    <2> QED
        BY <1>1, <1>2, <1>10, <1>14, <2>1, <2>2, HandlerStep
<1>15. CASE IsRecord(f)
    <2> DEFINE rec == ReadNewest(f)
    <2>1. /\ ProcessRecord(rec)
          /\ washerLink' = [washerLink EXCEPT !.heard = TRUE, !.last = rec]
        BY <1>1, <1>15 DEF ProcessAABB, IsRecord
    <2>2. rec \in Records
        <3>1. f.records \in Seq(Records) /\ (f.type = "single" => Len(f.records) = 1)
              /\ (f.type = "pair" => Len(f.records) = 2)
            BY <1>3 DEF FrameOK, Frames
        <3>2. f.type = "single" \/ f.type = "pair"
            BY <1>15 DEF IsRecord
        <3> QED
            BY <3>1, <3>2 DEF ReadNewest
    <2> HIDE DEF rec
    <2>3. /\ washerLink' \in [up : {washerLink.up}, heard : BOOLEAN, last : Records, count : BOOLEAN]
          /\ washerLink'.heard /\ washerLink'.last = rec /\ washerLink'.count = washerLink.count
        BY <1>2, <2>1, <2>2
    <2>4. /\ washerShown' \in [Config.states -> Values]
          /\ ShowsRecord(washerShown', rec)
          /\ \A e \in Layout.apart : washerShown'[e] = washerShown[e]
          /\ washerShown'["power"] = "OFF" => \A e \in Layout.zeroed : washerShown'[e] = "zero"
          /\ washerShown'["power"] = "ON" => \A e \in Layout.blank : washerShown'[e] # "-"
        BY <1>2, <2>1, <2>2, RecordShown
    <2>5. f.type # "apart"
        BY <1>15 DEF IsRecord
    <2>6. washerLink'.count /\ only("apart") => \A e \in Layout.apart : washerShown'[e] = washer.apart
        BY <1>10, <2>3, <2>4, <2>5
    <2>7. NoRecords => washerLink'.last = washer.record
        BY <1>3, <1>15, <2>3 DEF rec
    <2>8. ShowsRecord(washerShown', washerLink'.last)
        BY <2>3, <2>4
    <2> QED
        BY <1>1, <2>3, <2>4, <2>6, <2>7, <2>8, HandlerStep
<1> QED
    BY <1>9, <1>12, <1>13, <1>14, <1>15 DEF IsRecord

LEMMA LaundryStarts ==
    ASSUME LaundryInit, LaundryAssumption
    PROVE  LaundryInv
<1>1. /\ washer.model \in DOMAIN Models /\ washer.record = NoRecord /\ washer.apart = "unset"
      /\ washer \in [model : DOMAIN Models, record : {NoRecord}, apart : {"unset"}]
      /\ washerLink = NoWasherHandler /\ washerLine = <<>> /\ washerSent = "none"
      /\ washerShown = [e \in Config.states |-> "none"]
    BY DEF LaundryInit
<1>2. NoRecord \in Records
    BY DEF NoRecord, Records, Phases, Amounts
<1>3. LaundryTypeOK
    <2>1. washer \in [model : DOMAIN Models, record : Records, apart : Amounts \cup {"unset"}]
        BY <1>1, <1>2
    <2>2. washerLink \in [up : BOOLEAN, heard : BOOLEAN, last : Records, count : BOOLEAN]
        BY <1>1, <1>2 DEF NoWasherHandler
    <2>3. washerShown \in [Config.states -> Values]
        BY <1>1 DEF Values
    <2> QED
        BY <1>1, <2>1, <2>2, <2>3 DEF LaundryTypeOK, LaundryAssumption
<1>4. LineInv
    BY <1>1 DEF LineInv
<1>5. OffHasNoTime
    <2>1. \A e \in Config.states : washerShown[e] = "none"
        BY <1>1
    <2>2. "power" \in Config.states /\ Layout.blank \subseteq Config.states
        BY <1>1 DEF LaundryAssumption, Config, Layout, Names
    <2> QED
        BY <2>1, <2>2 DEF OffHasNoTime
<1>6. ~washerLink.heard /\ ~washerLink.count /\ ~washerLink.up /\ washerLink.last = NoRecord
    BY <1>1 DEF NoWasherHandler
<1> QED
    BY <1>1, <1>3, <1>4, <1>5, <1>6 DEF LaundryInv

LEMMA SentKeeps ==
    ASSUME LaundryInv, UNCHANGED <<washer, washerLink, washerLine, washerShown>>,
           washerSent' \in Config.commands \cup {"none"}
    PROVE  LaundryInv'
<1>1. Layout' = Layout /\ Config' = Config
    BY SameLayout
<1>2. LaundryTypeOK'
    BY <1>1 DEF LaundryInv, LaundryTypeOK
<1>3. LineInv'
    <2>1. LineInv
        BY DEF LaundryInv
    <2> QED
        BY <2>1, LineInvNext DEF LineInv
<1>4. OffHasNoTime'
    BY <1>1 DEF LaundryInv, OffHasNoTime
<1>5. ShowsRecord(washerShown, washerLink.last)' <=> ShowsRecord(washerShown, washerLink.last)
    BY <1>1 DEF ShowsRecord, IsOff
<1>6. \A i \in 1..Len(washerLine) : IsRecord(washerLine[i])' <=> IsRecord(washerLine[i])
    BY <1>1 DEF IsRecord
<1>7. (~washerLink.up => washerLink = NoWasherHandler /\ washerLine = <<>>)'
    BY DEF LaundryInv, NoWasherHandler
<1>8. (~washerLink.heard => washerLink.last = NoRecord)'
    BY DEF LaundryInv, NoRecord
<1>9. (washerLink.heard /\ (\A i \in 1..Len(washerLine) : ~IsRecord(washerLine[i]))
        => washerLink.last = washer.record)'
    BY <1>6 DEF LaundryInv
<1>10. (washerLink.heard /\ (washer.model = "VCDWL2QEUK" =>
                                  \A i \in 1..Len(washerLine) : washerLine[i].type # "pair")
        => ShowsRecord(washerShown, washerLink.last))'
    BY <1>5 DEF LaundryInv
<1>11. (washerLink.count /\ (\A i \in 1..Len(washerLine) : washerLine[i].type # "apart")
        => \A e \in Layout.apart : washerShown[e] = washer.apart)'
    BY <1>1 DEF LaundryInv
<1> QED
    BY <1>2, <1>3, <1>4, <1>7, <1>8, <1>9, <1>10, <1>11 DEF LaundryInv

LEMMA LaundryKeeps ==
    ASSUME LaundryInv, LaundryAssumption, [LaundryNext]_washerVars
    PROVE  LaundryInv'
<1>1. CASE WasherConnects
    BY <1>1, ConnectsKeeps
<1>2. CASE WasherLost
    BY <1>2, LostKeeps
<1>3. CASE WasherHeard
    BY <1>3, HeardKeeps
<1>4. ASSUME NEW new \in Records, WasherChanges(new)
      PROVE  LaundryInv'
    BY <1>4, ChangesKeeps
<1>5. ASSUME NEW v \in Amounts, WasherCounts(v)
      PROVE  LaundryInv'
    BY <1>5, CountsKeeps
<1>6. ASSUME NEW c \in Config.commands, WasherCommand(c)
      PROVE  LaundryInv'
    BY <1>6, SentKeeps DEF WasherCommand, Operate, OperateGuarded
<1>7. CASE UNCHANGED washerVars
    <2>1. washerSent \in Config.commands \cup {"none"}
        BY DEF LaundryInv, LaundryTypeOK
    <2> QED
        BY <1>7, <2>1, SentKeeps DEF washerVars
<1> QED
    BY <1>1, <1>2, <1>3, <1>4, <1>5, <1>6, <1>7 DEF LaundryNext

LEMMA LaundryGood ==
    ASSUME LaundryInv, LaundryAssumption
    PROVE  LaundryTypeOK /\ LatestIsShown /\ OffHasNoTime
<1>1. LaundryTypeOK /\ OffHasNoTime
    BY DEF LaundryInv
<1>2. ASSUME washerLine = <<>>, washerLink.up, washerLink.heard
      PROVE  /\ ShowsRecord(washerShown, washer.record)
             /\ washerLink.count => \A e \in Layout.apart : washerShown[e] = washer.apart
    <2>1. \A i \in 1..Len(washerLine) : FALSE
        BY <1>2
    <2> QED
        BY <1>2, <2>1 DEF LaundryInv
<1>3. LatestIsShown
    BY <1>2 DEF LatestIsShown, ShowsRecord, IsOff
<1> QED
    BY <1>1, <1>3

\* A command of Hd0C_F is of a record that is shown.
LEMMA CommandsAreOfTheRecord ==
    ASSUME LaundryInv, LaundryAssumption, LaundryNext
    PROVE  CommandShownPossible
<1> SUFFICES ASSUME washer.model = "Hd0C_F", washerSent' # "none"
             PROVE  /\ washerShown["power"] = "ON"
                    /\ washerSent' = "remote_start" =>
                          /\ washerShown["remote_start_enabled"] = "some"
                          /\ washerShown["status"] = "standby"
    BY DEF CommandShownPossible
<1>1. PICK c \in Config.commands : WasherCommand(c)
    BY DEF LaundryNext, WasherConnects, WasherLost, WasherHeard, WasherChanges, WasherCounts
<1>2. "Hd0C_F" \in DOMAIN Models /\ LayoutOK("Hd0C_F", Layout)
    <2>1. "Hd0C_F" \in DOMAIN Models
        BY DEF Models
    <2> QED
        BY <2>1, LayoutsOK DEF Layout
<1>3. Config.commands # Operation
    <2>1. Config = Hd0C_F_Config
        BY DEF Config, Models
    <2>2. "remote_start" \in Config.commands
        BY <2>1 DEF Hd0C_F_Config, Announces
    <2> QED
        BY <2>2 DEF Operation
<1>4. OperateGuarded(c) /\ washerSent' = c
    BY <1>1, <1>3 DEF WasherCommand, Operate, OperateGuarded
<1>5. /\ washerLink.last.phase # "off"
      /\ c = "remote_start" => washerLink.last.value = "some" /\ washerLink.last.phase = "standby"
    BY <1>4 DEF OperateGuarded
<1>6. washerLink.heard
    BY <1>5 DEF LaundryInv, NoRecord
<1>7. ShowsRecord(washerShown, washerLink.last)
    BY <1>6 DEF LaundryInv
<1>8. ~IsOff(washerLink.last) /\ "remote_start_enabled" \in Layout.plain
    BY <1>2, <1>5 DEF LayoutOK, IsOff
<1> QED
    BY <1>4, <1>5, <1>7, <1>8 DEF ShowsRecord

\* Washers show the record the appliance sent last, and nothing that is off has time left.
THEOREM LaundryInvariantHolds ==
    ASSUME LaundryAssumption
    PROVE  LaundrySpec => []LaundryInv
<1>1. LaundryInit => LaundryInv
    BY LaundryStarts
<1>2. LaundryInv /\ [LaundryNext]_washerVars => LaundryInv'
    BY LaundryKeeps
<1> QED
    BY <1>1, <1>2, PTL DEF LaundrySpec

THEOREM CommandsPossible ==
    ASSUME LaundryAssumption
    PROVE  LaundrySpec => CommandsAreShownPossible
<1>1. LaundryInv /\ [LaundryNext]_washerVars => [CommandShownPossible]_washerVars
    BY CommandsAreOfTheRecord
<1> QED
    BY <1>1, LaundryInvariantHolds, PTL DEF LaundrySpec, CommandsAreShownPossible

-----------------------------------------------------------------------------
(* The refrigerators.  The last record under way is the appliance's, and   *)
(* what the owner wants of a setting is what the last command of it under  *)
(* way says, or what the appliance has.                                    *)

\* The step that a command sets, and the degrees that the appliance has.
Given(c) == IF c.field = "rest" THEN c.step ELSE AppliedStep(c.field, c.step)
Has(f, degrees) == fridge.is[f] # Ignore /\ ReadDegrees(f, fridge.is.unit, fridge.is[f]) = degrees

WellSent ==
    {m \in WireMessages :
        /\ m.type = "status" => m.records # <<>>
        /\ m.type = "command" => m.unit \in Units /\ (m.base # {} => Model = "F12")}

\* Records, commands of a setting, and commands of another one.
Sts == {m \in WellSent : m.type = "status"}
CmdOf(f) == {m \in WellSent : m.type = "command" /\ m.field = f}
CmdNotOf(f) == {m \in WellSent : m.type = "command" /\ m.field # f}

\* Those that say what the appliance is; that set a field to the degrees; that
\* copy the degrees.
LastStatus(s) == {m \in WellSent : NewestStatus(m) = s}
Gives(f, degrees) == {m \in WellSent : /\ Given(m) \in StepsOf(f, m.unit)
                                       /\ ReadDegrees(f, m.unit, Given(m)) = degrees}
Copies(f, degrees) == {m \in WellSent : \A b \in m.base : ReadDegrees(f, b.unit, b[f]) = degrees}

\* Of what is known and shown.
KnownInv ==
    /\ ~fridgeLink.up => fridgeLink = NoFridgeHandler /\ fridgeWire = <<>>
    /\ fridgeLink.unit \in Units \cup {"none"}
    /\ ~fridgeLink.heard => fridgeLink.current = {}

ShownInv ==
    /\ fridgeShown.unit \in Units \cup {"none"}
    /\ fridgeShown.unit = "none" => \A f \in Fields : fridgeShown[f] = Unknown
    /\ \A f \in {"room", "freezer"} :
         fridgeShown[f] # Unknown =>
            \E step \in StepsOf(f, fridgeShown.unit) :
               fridgeShown[f] = ReadDegrees(f, fridgeShown.unit, step)

\* Of the records under way.
Settled ==
    /\ fridgeLink.current = {fridge.is}
    /\ fridgeShown.unit = fridge.is.unit
    /\ \A f \in Fields : fridge.is[f] # Ignore =>
         fridgeShown[f] = ReadDegrees(f, fridge.is.unit, fridge.is[f])

RecordsInv ==
    /\ fridgeWire \in Seq(WellSent)
    /\ Followed(fridgeWire, Sts, Sts, LastStatus(fridge.is))
    /\ fridgeLink.heard /\ NoneOf(fridgeWire, Sts) => Settled

\* Of the commands under way.
WantedOK(f, degrees) ==
    /\ Settable(f)
    /\ Followed(fridgeWire, CmdOf(f), CmdOf(f), Gives(f, degrees))
    /\ Followed(fridgeWire, CmdNotOf(f), CmdOf(f), Copies(f, degrees))
    /\ NoneOf(fridgeWire, CmdOf(f)) => Has(f, degrees)

FridgeInv ==
    /\ FridgeTypeOK
    /\ KnownInv
    /\ ShownInv
    /\ RecordsInv
    /\ \A f \in Fields : fridgeWanted[f] # Unknown => WantedOK(f, fridgeWanted[f])

-----------------------------------------------------------------------------
(* Degrees and steps.                                                      *)

\* The degrees of a step; the step of the degrees is that step.
LEMMA StepFacts ==
    ASSUME Model \in DOMAIN FridgeModels, NEW f \in Fields, NEW u \in Units,
           NEW x \in StepsOf(f, u), x # Ignore
    PROVE  /\ x \in 0..255
           /\ ReadDegrees(f, u, x) \in Degrees
           /\ WriteStep(f, u, ReadDegrees(f, u, x)) \in Int
           /\ Model # "K1" =>
                LET step == WriteStep(f, u, ReadDegrees(f, u, x)) % 256
                IN (IF f = "rest" THEN step ELSE AppliedStep(f, step)) = x
<1> DEFINE d == ReadDegrees(f, u, x)
           w == WriteStep(f, u, d)
<1>1. SUFFICES /\ x \in 0..255 /\ d \in Degrees /\ w \in Int
               /\ Model # "K1" => (IF f = "rest" THEN w % 256 ELSE AppliedStep(f, w % 256)) = x
    OBVIOUS
<1>7. u \in {"C", "F"}
    BY DEF Units
<1>2. CASE f = "rest"
    <2>1. x \in {0, 1} /\ d = x /\ w = x
        BY <1>2 DEF StepsOf, ReadDegrees, WriteStep
    <2>2. w % 256 = x
        BY <2>1
    <2> QED
        BY <1>2, <2>1, <2>2 DEF Degrees
<1>3. CASE f # "rest" /\ Model = "K1"
    <2>1. x = 1 /\ d = 1
        BY <1>3 DEF StepsOf, ReadDegrees
    <2>2. w \in Int
        BY <1>3, <2>1 DEF WriteStep, ConvertFridge, ConvertFreezer
    <2> QED
        BY <1>3, <2>1, <2>2 DEF Degrees
<1>4. CASE f # "rest" /\ Model = "EBI"
    <2>1. x \in {5, 7} /\ f \in {"room", "freezer"}
        BY <1>4 DEF StepsOf, Fields
    <2>2. d = IF f = "room" THEN (13 - x) \div 2 ELSE -((x + 29) \div 2)
        BY <1>4 DEF ReadDegrees, ReadFridgeEBI, ReadFreezerEBI
    <2>3. (13 - 5) \div 2 = 4 /\ (13 - 7) \div 2 = 3 /\ (5 + 29) \div 2 = 17 /\ (7 + 29) \div 2 = 18
        OBVIOUS
    <2>4. d = IF f = "room" THEN (IF x = 5 THEN 4 ELSE 3) ELSE (IF x = 5 THEN -17 ELSE -18)
        BY <2>1, <2>2, <2>3
    <2> HIDE DEF d
    <2>5. u = "C"
        BY <1>4 DEF Units, TwoUnits
    <2>6. CASE u = "C"
        <3>1. w = IF f = "room" THEN 8 - d ELSE -14 - d
            BY <1>4, <2>6 DEF WriteStep, ConvertFridge, ConvertFreezer
        <3> HIDE DEF w
        <3>2. w = IF x = 5 THEN (IF f = "room" THEN 4 ELSE 3) ELSE (IF f = "room" THEN 5 ELSE 4)
            BY <2>1, <2>4, <3>1
        <3>3. w % 256 = w
            BY <3>2
        <3>4. AppliedStep(f, w) = x
            BY <1>4, <2>1, <3>2 DEF AppliedStep
        <3> QED
            BY <1>4, <2>1, <2>4, <3>2, <3>3, <3>4 DEF Degrees
    <2> QED
        BY <2>5, <2>6
<1>5. CASE f # "rest" /\ Model = "VE600"
    <2>1. CASE u = "F" /\ f = "freezer"
        <3>1. x \in {12, 13}
            BY <1>5, <2>1 DEF StepsOf
        <3>2. d = FreezerSteps600[x + 1]
            BY <1>5, <2>1 DEF ReadDegrees, ConvertFromFreezer600
        <3>3. d = IF x = 12 THEN -7 ELSE -12
            BY <3>1, <3>2 DEF FreezerSteps600
        <3> HIDE DEF d
        <3>4. w = x
            BY <1>5, <2>1, <3>1, <3>3 DEF WriteStep, ConvertToFreezer600
        <3> HIDE DEF w
        <3>5. w % 256 = x /\ AppliedStep(f, x) = x
            BY <1>5, <3>1, <3>4 DEF AppliedStep
        <3> QED
            BY <1>5, <3>1, <3>3, <3>4, <3>5 DEF Degrees
    <2>2. CASE ~(u = "F" /\ f = "freezer")
        <3>1. x \in {4, 5} /\ f \in {"room", "freezer"}
            BY <1>5, <2>2 DEF StepsOf, Fields
        <3>2. d = IF f = "freezer" THEN -13 - x ELSE IF u = "F" THEN 47 - x ELSE 8 - x
            BY <1>5, <1>7, <2>2, <3>1 DEF ReadDegrees, ConvertFromFreezer600, ConvertFridge600
        <3> HIDE DEF d
        <3>3. w = x
            BY <1>5, <1>7, <2>2, <3>1, <3>2 DEF WriteStep, ConvertToFreezer600, ConvertFridge600
        <3> HIDE DEF w
        <3>4. w % 256 = x /\ AppliedStep(f, x) = x
            BY <1>5, <3>1, <3>3 DEF AppliedStep
        <3> QED
            BY <1>5, <3>1, <3>2, <3>3, <3>4 DEF Degrees
    <2> QED
        BY <2>1, <2>2
<1>6. CASE f # "rest" /\ Model \notin {"K1", "EBI", "VE600"}
    <2>1. x \in {4, 5} /\ f \in {"room", "freezer"}
        BY <1>6 DEF StepsOf, Fields
    <2>2. d = IF f = "room" THEN (IF u = "F" THEN 44 - x ELSE 8 - x)
              ELSE (IF u = "F" THEN 6 - x ELSE -14 - x)
        BY <1>6, <2>1 DEF ReadDegrees, ConvertFridge, ConvertFreezer
    <2> HIDE DEF d
    <2>3. w = x
        BY <1>6, <2>1, <2>2 DEF WriteStep, ConvertFridge, ConvertFreezer
    <2> HIDE DEF w
    <2>4. w % 256 = x /\ AppliedStep(f, x) = x
        BY <1>6, <2>1, <2>3 DEF AppliedStep
    <2> QED
        BY <1>6, <2>1, <2>2, <2>3, <2>4 DEF Degrees
<1> QED
    BY <1>2, <1>3, <1>4, <1>5, <1>6

\* A record of the appliance.
LEMMA StatusFacts ==
    ASSUME NEW s \in Statuses
    PROVE  /\ s.unit \in Units /\ s.unit \in {"C", "F"}
           /\ \A f \in Fields : s[f] \in StepsOf(f, s.unit)
           /\ s = [unit |-> s.unit, room |-> s.room, freezer |-> s.freezer, rest |-> s.rest]
           /\ Model # "K1" => \A f \in Fields : s[f] # Ignore
           /\ s.rest # Ignore /\ s.rest \in {0, 1}
<1>1. PICK u \in Units : s \in Status(u)
    BY DEF Statuses
<1>2. /\ s.unit = u /\ s.room \in StepsOf("room", u) /\ s.freezer \in StepsOf("freezer", u)
      /\ s.rest \in StepsOf("rest", u)
      /\ s = [unit |-> s.unit, room |-> s.room, freezer |-> s.freezer, rest |-> s.rest]
    BY <1>1 DEF Status
<1>3. \A f \in Fields : s[f] \in StepsOf(f, s.unit)
    BY <1>2 DEF Fields
<1>4. Model # "K1" => \A f \in Fields : Ignore \notin StepsOf(f, s.unit)
    BY DEF StepsOf, Ignore
<1>5. s.rest \in {0, 1}
    BY <1>2 DEF StepsOf
<1> QED
    BY <1>1, <1>2, <1>3, <1>4, <1>5 DEF Units, Ignore

\* An appliance that can be set has all its rooms.
LEMMA SettableFacts ==
    ASSUME Model \in DOMAIN FridgeModels, NEW f, Settable(f)
    PROVE  Model # "K1"
<1>1. FridgeModels["K1"].commands = {}
    BY DEF FridgeModels, M2REK1, Shows
<1> QED
    BY <1>1 DEF Settable

\* A model stays what it is.
LEMMA SameModel ==
    ASSUME fridge'.model = fridge.model
    PROVE  /\ Model' = Model /\ TwoUnits' = TwoUnits /\ Units' = Units
           /\ \A f, u : StepsOf(f, u)' = StepsOf(f, u)
           /\ Statuses' = Statuses /\ WireMessages' = WireMessages
           /\ \A f, u, x : ReadDegrees(f, u, x)' = ReadDegrees(f, u, x)
           /\ \A f : Settable(f)' = Settable(f)
           /\ \A f, x : AppliedStep(f, x)' = AppliedStep(f, x)
           /\ WellSent' = WellSent /\ Sts' = Sts
           /\ \A f : CmdOf(f)' = CmdOf(f) /\ CmdNotOf(f)' = CmdNotOf(f)
           /\ \A s : LastStatus(s)' = LastStatus(s)
           /\ \A f, d : Gives(f, d)' = Gives(f, d) /\ Copies(f, d)' = Copies(f, d)
<1>1. Model' = Model
    BY DEF Model
<1>2. TwoUnits' = TwoUnits
    BY <1>1 DEF TwoUnits
<1>3. Units' = Units
    BY <1>2 DEF Units
<1>4. \A f, u : StepsOf(f, u)' = StepsOf(f, u)
    BY <1>1 DEF StepsOf
<1>5. \A u : Status(u)' = Status(u)
    BY <1>4 DEF Status
<1>6. Statuses' = Statuses
    BY <1>3, <1>5 DEF Statuses
<1>7. WireMessages' = WireMessages
    BY <1>6 DEF WireMessages
<1>8. \A f, u, x : ReadDegrees(f, u, x)' = ReadDegrees(f, u, x)
    BY <1>1 DEF ReadDegrees
<1>9. \A f : Settable(f)' = Settable(f)
    BY <1>1 DEF Settable
<1>10. \A f, x : AppliedStep(f, x)' = AppliedStep(f, x)
    BY <1>1 DEF AppliedStep
<1>11. WellSent' = WellSent
    BY <1>1, <1>3, <1>7 DEF WellSent
<1>12. Sts' = Sts /\ \A f : CmdOf(f)' = CmdOf(f) /\ CmdNotOf(f)' = CmdNotOf(f)
    BY <1>11 DEF Sts, CmdOf, CmdNotOf
<1>13. \A s : LastStatus(s)' = LastStatus(s)
    BY <1>11 DEF LastStatus, NewestStatus
<1>14. \A f, d : Gives(f, d)' = Gives(f, d)
    BY <1>4, <1>8, <1>10, <1>11 DEF Gives, Given
<1>15. \A f, d : Copies(f, d)' = Copies(f, d)
    BY <1>8, <1>11 DEF Copies
<1> QED
    BY <1>1, <1>2, <1>3, <1>4, <1>6, <1>7, <1>8, <1>9, <1>10, <1>11, <1>12, <1>13, <1>14, <1>15

\* The invariant of the next state, put together.
LEMMA FridgeInvNext ==
    ASSUME fridge'.model = fridge.model, Model \in DOMAIN FridgeModels,
           fridge' \in [model : {fridge.model}, is : Statuses],
           fridgeLink' \in [up : BOOLEAN, heard : BOOLEAN, unit : {"none", "C", "F"}, current : SUBSET Statuses],
           fridgeWire' \in Seq(WellSent), Len(fridgeWire') <= MaxWire,
           fridgeShown' \in [unit : {"none", "C", "F"}, room : Degrees \cup {Unknown},
                             freezer : Degrees \cup {Unknown}, rest : Degrees \cup {Unknown}],
           fridgeWanted' \in [Fields -> Degrees \cup {Unknown}],
           KnownInv', ShownInv',
           Followed(fridgeWire', Sts, Sts, LastStatus(fridge'.is)),
           fridgeLink'.heard /\ NoneOf(fridgeWire', Sts) => Settled',
           \A f \in Fields : fridgeWanted'[f] # Unknown =>
              /\ Settable(f)
              /\ Followed(fridgeWire', CmdOf(f), CmdOf(f), Gives(f, fridgeWanted'[f]))
              /\ Followed(fridgeWire', CmdNotOf(f), CmdOf(f), Copies(f, fridgeWanted'[f]))
              /\ NoneOf(fridgeWire', CmdOf(f)) =>
                    /\ fridge'.is[f] # Ignore
                    /\ ReadDegrees(f, fridge'.is.unit, fridge'.is[f]) = fridgeWanted'[f]
    PROVE  FridgeInv'
<1>1. /\ Model' = Model /\ Statuses' = Statuses /\ WireMessages' = WireMessages
      /\ \A f, u, x : ReadDegrees(f, u, x)' = ReadDegrees(f, u, x)
      /\ \A f : Settable(f)' = Settable(f)
      /\ WellSent' = WellSent /\ Sts' = Sts
      /\ \A f : CmdOf(f)' = CmdOf(f) /\ CmdNotOf(f)' = CmdNotOf(f)
      /\ \A s : LastStatus(s)' = LastStatus(s)
      /\ \A f, d : Gives(f, d)' = Gives(f, d) /\ Copies(f, d)' = Copies(f, d)
    BY SameModel
<1>2. FridgeTypeOK'
    <2>1. fridgeWire' \in Seq(WireMessages)
        BY DEF WellSent
    <2>2. (Model \in DOMAIN FridgeModels)' /\ (fridge \in [model : {Model}, is : Statuses])'
        BY <1>1 DEF Model
    <2> QED
        BY <1>1, <2>1, <2>2 DEF FridgeTypeOK
<1>3. RecordsInv'
    BY <1>1 DEF RecordsInv
<1>4. ASSUME NEW f \in Fields, fridgeWanted'[f] # Unknown
      PROVE  WantedOK(f, fridgeWanted[f])'
    <2>1. Has(f, fridgeWanted[f])' <=> /\ fridge'.is[f] # Ignore
                                       /\ ReadDegrees(f, fridge'.is.unit, fridge'.is[f]) = fridgeWanted'[f]
        BY <1>1 DEF Has
    <2> QED
        BY <1>1, <1>4, <2>1 DEF WantedOK
<1> QED
    BY <1>2, <1>3, <1>4 DEF FridgeInv

\* What is shown stays true of the model.
LEMMA ShownStays ==
    ASSUME ShownInv, fridge'.model = fridge.model, UNCHANGED fridgeShown
    PROVE  ShownInv'
<1>1. /\ Units' = Units /\ \A f, u : StepsOf(f, u)' = StepsOf(f, u)
      /\ \A f, u, x : ReadDegrees(f, u, x)' = ReadDegrees(f, u, x)
    BY SameModel
<1>2. ASSUME NEW f \in {"room", "freezer"}, fridgeShown[f] # Unknown
      PROVE  \E step \in StepsOf(f, fridgeShown.unit)' :
                fridgeShown'[f] = ReadDegrees(f, fridgeShown.unit, step)'
    <2>1. PICK step \in StepsOf(f, fridgeShown.unit) :
             fridgeShown[f] = ReadDegrees(f, fridgeShown.unit, step)
        BY <1>2 DEF ShownInv
    <2>2. step \in StepsOf(f, fridgeShown.unit)' /\ ReadDegrees(f, fridgeShown.unit, step)'
                                                     = ReadDegrees(f, fridgeShown.unit, step)
        BY <1>1, <2>1
    <2> QED
        BY <2>1, <2>2
<1> QED
    BY <1>1, <1>2 DEF ShownInv

LEMMA PanelKeeps ==
    ASSUME FridgeInv, FridgeAssumption, NEW new \in Statuses, PanelMoves(new)
    PROVE  FridgeInv'
<1> DEFINE m == Reported(fridge.is, new)
<1>1. /\ Model \in DOMAIN FridgeModels /\ fridge \in [model : {Model}, is : Statuses]
      /\ fridgeLink \in [up : BOOLEAN, heard : BOOLEAN, unit : {"none", "C", "F"}, current : SUBSET Statuses]
      /\ fridgeShown \in [unit : {"none", "C", "F"}, room : Degrees \cup {Unknown},
                          freezer : Degrees \cup {Unknown}, rest : Degrees \cup {Unknown}]
      /\ fridgeWanted \in [Fields -> Degrees \cup {Unknown}]
      /\ fridgeWire \in Seq(WellSent) /\ Len(fridgeWire) <= MaxWire
    BY DEF FridgeInv, FridgeTypeOK, RecordsInv
<1>2. /\ fridge' \in [model : {fridge.model}, is : Statuses] /\ fridge'.model = fridge.model
      /\ fridge'.is = new
    BY <1>1 DEF PanelMoves, Moves, Model
<1>3. UNCHANGED <<fridgeLink, fridgeShown>>
    BY DEF PanelMoves
<1>4. /\ fridgeWanted' \in [Fields -> Degrees \cup {Unknown}]
      /\ \A f \in Fields : fridgeWanted'[f] # Unknown =>
            /\ fridgeWanted'[f] = fridgeWanted[f]
            /\ new[f] = fridge.is[f] /\ new.unit = fridge.is.unit
    <2>1. fridgeWanted' = [f \in Fields |-> IF new[f] # fridge.is[f] \/ new.unit # fridge.is.unit
                                             THEN Unknown ELSE fridgeWanted[f]]
        BY DEF PanelMoves
    <2> QED
        BY <1>1, <2>1
<1>5. m \in WellSent /\ m \in Sts /\ m \in LastStatus(new) /\ \A f : m \notin CmdOf(f) /\ m \notin CmdNotOf(f)
    <2>1. m.type = "status" /\ m.records = <<fridge.is, new>> /\ m.records # <<>>
        BY DEF Reported
    <2>2. m \in [type : {"status"}, records : Seq(Statuses)]
        BY <1>1 DEF Reported
    <2>3. m \in WellSent
        BY <2>1, <2>2 DEF WellSent, WireMessages
    <2>4. NewestStatus(m) = new
        BY <2>1 DEF NewestStatus
    <2> QED
        BY <2>1, <2>3, <2>4 DEF Sts, LastStatus, CmdOf, CmdNotOf
<1> HIDE DEF m
<1>6. \/ ~fridgeLink.up /\ fridgeWire = <<>> /\ fridgeWire' = <<>>
      \/ fridgeWire' = Append(fridgeWire, m) /\ Len(fridgeWire) < MaxWire /\ m \in Sts
    BY <1>5 DEF PanelMoves, FridgeInv, KnownInv, m
<1> DEFINE A == Append(fridgeWire, m)
<1>13. /\ A \in Seq(WellSent) /\ Len(A) = Len(fridgeWire) + 1 /\ Len(fridgeWire) \in Nat
       /\ ~NoneOf(A, Sts)
       /\ \A f : NoneOf(A, CmdOf(f)) => NoneOf(fridgeWire, CmdOf(f))
       /\ \A f, Q : Followed(fridgeWire, CmdOf(f), CmdOf(f), Q) => Followed(A, CmdOf(f), CmdOf(f), Q)
       /\ \A f, Q : Followed(fridgeWire, CmdNotOf(f), CmdOf(f), Q) => Followed(A, CmdNotOf(f), CmdOf(f), Q)
    <2>1. A \in Seq(WellSent) /\ Len(A) = Len(fridgeWire) + 1 /\ Len(fridgeWire) \in Nat
        BY <1>1, <1>5, AppendProperties, LenProperties
    <2>2. ~NoneOf(A, Sts) /\ \A f : NoneOf(A, CmdOf(f)) => NoneOf(fridgeWire, CmdOf(f))
        BY <1>1, <1>5, AppendNone
    <2> QED
        BY <1>1, <1>5, <2>1, <2>2, AppendFollowed
<1> HIDE DEF A
<1>14. \/ fridgeWire' = fridgeWire /\ fridgeWire = <<>> /\ ~fridgeLink.up
       \/ fridgeWire' = A /\ Len(fridgeWire) < MaxWire
    BY <1>6 DEF A
<1>7. fridgeWire' \in Seq(WellSent) /\ Len(fridgeWire') <= MaxWire
    <2>1. CASE fridgeWire' = A /\ Len(fridgeWire) < MaxWire
        BY <1>13, <2>1 DEF FridgeAssumption
    <2> QED
        BY <1>1, <1>14, <2>1
<1>8. Followed(fridgeWire', Sts, Sts, LastStatus(new))
    BY <1>1, <1>5, <1>6, AppendFollowed DEF Followed
<1>9. ~(fridgeLink.heard /\ NoneOf(fridgeWire', Sts))
    <2>1. ~fridgeLink.up => ~fridgeLink.heard
        BY DEF FridgeInv, KnownInv, NoFridgeHandler
    <2> QED
        BY <1>13, <1>14, <2>1
<1>10. ASSUME NEW f \in Fields, fridgeWanted'[f] # Unknown
       PROVE  /\ Settable(f)
              /\ Followed(fridgeWire', CmdOf(f), CmdOf(f), Gives(f, fridgeWanted'[f]))
              /\ Followed(fridgeWire', CmdNotOf(f), CmdOf(f), Copies(f, fridgeWanted'[f]))
              /\ NoneOf(fridgeWire', CmdOf(f)) =>
                    /\ fridge'.is[f] # Ignore
                    /\ ReadDegrees(f, fridge'.is.unit, fridge'.is[f]) = fridgeWanted'[f]
    <2>1. WantedOK(f, fridgeWanted'[f])
        BY <1>4, <1>10 DEF FridgeInv
    <2>2. NoneOf(fridgeWire', CmdOf(f)) => NoneOf(fridgeWire, CmdOf(f))
        BY <1>13, <1>14
    <2>3. /\ Followed(fridgeWire', CmdOf(f), CmdOf(f), Gives(f, fridgeWanted'[f]))
          /\ Followed(fridgeWire', CmdNotOf(f), CmdOf(f), Copies(f, fridgeWanted'[f]))
        BY <1>13, <1>14, <2>1 DEF WantedOK
    <2>4. Has(f, fridgeWanted'[f]) => /\ fridge'.is[f] # Ignore
                                      /\ ReadDegrees(f, fridge'.is.unit, fridge'.is[f]) = fridgeWanted'[f]
        BY <1>2, <1>4, <1>10 DEF Has
    <2> QED
        BY <2>1, <2>2, <2>3, <2>4 DEF WantedOK
<1>11. ShownInv'
    BY <1>2, <1>3, ShownStays DEF FridgeInv
<1>12. KnownInv'
    <2>1. Units' = Units
        BY <1>2, SameModel
    <2>2. ~fridgeLink.up => fridgeWire' = <<>>
        BY DEF PanelMoves, FridgeInv, KnownInv
    <2> QED
        BY <1>3, <2>1, <2>2 DEF FridgeInv, KnownInv, NoFridgeHandler
<1> QED
    BY <1>1, <1>2, <1>3, <1>4, <1>7, <1>8, <1>9, <1>10, <1>11, <1>12, FridgeInvNext

LEMMA FridgeConnectsKeeps ==
    ASSUME FridgeInv, FridgeAssumption, FridgeConnects
    PROVE  FridgeInv'
<1> DEFINE m == [type |-> "status", records |-> <<fridge.is>>]
<1>1. /\ Model \in DOMAIN FridgeModels /\ fridge \in [model : {Model}, is : Statuses]
      /\ fridgeShown \in [unit : {"none", "C", "F"}, room : Degrees \cup {Unknown},
                          freezer : Degrees \cup {Unknown}, rest : Degrees \cup {Unknown}]
      /\ fridgeWanted \in [Fields -> Degrees \cup {Unknown}]
      /\ ~fridgeLink.up /\ fridgeWire = <<>> /\ UNCHANGED <<fridge, fridgeWanted>>
      /\ fridgeWire' = <<m>>
    BY DEF FridgeInv, FridgeTypeOK, KnownInv, FridgeConnects
<1>2. /\ fridge' \in [model : {fridge.model}, is : Statuses] /\ fridge'.model = fridge.model
      /\ fridge'.is = fridge.is
    BY <1>1 DEF Model
<1>3. /\ fridgeLink' \in [up : BOOLEAN, heard : BOOLEAN, unit : {"none", "C", "F"}, current : SUBSET Statuses]
      /\ fridgeLink'.up /\ ~fridgeLink'.heard /\ fridgeLink'.current = {}
      /\ fridgeLink'.unit = IF TwoUnits THEN "none" ELSE "C"
    BY DEF FridgeConnects, NoFridgeHandler
<1>4. m \in WellSent /\ m \in Sts /\ m \in LastStatus(fridge.is)
      /\ \A f : m \notin CmdOf(f) /\ m \notin CmdNotOf(f)
    <2>1. m.type = "status" /\ m.records = <<fridge.is>> /\ m.records # <<>>
        OBVIOUS
    <2>2. m \in [type : {"status"}, records : Seq(Statuses)]
        BY <1>1
    <2>3. m \in WellSent
        BY <2>1, <2>2 DEF WellSent, WireMessages
    <2>4. NewestStatus(m) = fridge.is
        BY <2>1 DEF NewestStatus
    <2> QED
        BY <2>1, <2>3, <2>4 DEF Sts, LastStatus, CmdOf, CmdNotOf
<1> HIDE DEF m
<1>5. /\ fridgeWire' \in Seq(WellSent) /\ Len(fridgeWire') = 1 /\ Len(fridgeWire') <= MaxWire
      /\ \A i \in 1..Len(fridgeWire') : fridgeWire'[i] = m
      /\ 1 \in 1..Len(fridgeWire')
    BY <1>1, <1>4 DEF FridgeAssumption
<1>6. /\ Followed(fridgeWire', Sts, Sts, LastStatus(fridge.is)) /\ ~NoneOf(fridgeWire', Sts)
      /\ \A f, Q : Followed(fridgeWire', CmdOf(f), CmdOf(f), Q) /\ Followed(fridgeWire', CmdNotOf(f), CmdOf(f), Q)
    BY <1>4, <1>5 DEF Followed, NoneOf
<1>7. ASSUME NEW f \in Fields, fridgeWanted'[f] # Unknown
      PROVE  /\ Settable(f)
             /\ fridge'.is[f] # Ignore
             /\ ReadDegrees(f, fridge'.is.unit, fridge'.is[f]) = fridgeWanted'[f]
    <2>1. WantedOK(f, fridgeWanted[f])
        BY <1>1, <1>7 DEF FridgeInv
    <2>2. NoneOf(fridgeWire, CmdOf(f))
        BY <1>1 DEF NoneOf
    <2> QED
        BY <1>1, <2>1, <2>2 DEF WantedOK, Has
<1>8. ShownInv /\ Units = IF TwoUnits THEN {"C", "F"} ELSE {"C"}
    BY DEF FridgeInv, Units
<1>9. /\ Units' = Units /\ \A f, u : StepsOf(f, u)' = StepsOf(f, u)
      /\ \A f, u, x : ReadDegrees(f, u, x)' = ReadDegrees(f, u, x)
    BY <1>2, SameModel
<1>10. CASE TwoUnits \/ fridgeShown.unit # "none"
    <2>1. fridgeShown' = fridgeShown
        <3>1. CASE TwoUnits
            BY <3>1 DEF FridgeConnects
        <3>2. CASE ~TwoUnits
            <4>1. fridgeShown.unit = "C"
                BY <1>8, <1>10, <3>2 DEF ShownInv
            <4> QED
                BY <1>1, <3>2, <4>1 DEF FridgeConnects
        <3> QED
            BY <3>1, <3>2
    <2>2. ShownInv'
        BY <1>2, <1>8, <2>1, ShownStays
    <2>3. KnownInv'
        BY <1>3, <1>8, <1>9 DEF KnownInv
    <2> QED
        BY <1>1, <1>2, <1>3, <1>5, <1>6, <1>7, <2>1, <2>2, <2>3, FridgeInvNext
<1>11. CASE ~TwoUnits /\ fridgeShown.unit = "none"
    <2>1. fridgeShown' = [fridgeShown EXCEPT !.unit = "C"]
        BY <1>11 DEF FridgeConnects
    <2>2. /\ fridgeShown' \in [unit : {"none", "C", "F"}, room : Degrees \cup {Unknown},
                               freezer : Degrees \cup {Unknown}, rest : Degrees \cup {Unknown}]
          /\ fridgeShown'.unit = "C" /\ \A f \in Fields : fridgeShown'[f] = fridgeShown[f]
        BY <1>1, <2>1 DEF Fields
    <2>3. \A f \in {"room", "freezer"} : fridgeShown'[f] = Unknown
        BY <1>8, <1>11, <2>2 DEF ShownInv, Fields
    <2>4. ShownInv'
        BY <1>8, <1>9, <2>2, <2>3 DEF ShownInv
    <2>5. KnownInv'
        BY <1>3, <1>8, <1>9 DEF KnownInv
    <2> QED
        BY <1>1, <1>2, <1>3, <1>5, <1>6, <1>7, <2>2, <2>4, <2>5, FridgeInvNext
<1> QED
    BY <1>10, <1>11

LEMMA FridgeLostKeeps ==
    ASSUME FridgeInv, FridgeAssumption, FridgeLost
    PROVE  FridgeInv'
<1>1. /\ Model \in DOMAIN FridgeModels /\ fridge \in [model : {Model}, is : Statuses]
      /\ fridgeShown \in [unit : {"none", "C", "F"}, room : Degrees \cup {Unknown},
                          freezer : Degrees \cup {Unknown}, rest : Degrees \cup {Unknown}]
      /\ UNCHANGED <<fridge, fridgeShown>>
      /\ fridgeWire' = <<>> /\ fridgeLink' = NoFridgeHandler
      /\ fridgeWanted' = NothingWanted
    BY DEF FridgeInv, FridgeTypeOK, FridgeLost
<1>2. /\ fridge' \in [model : {fridge.model}, is : Statuses] /\ fridge'.model = fridge.model
      /\ fridge'.is = fridge.is
    BY <1>1 DEF Model
<1>3. /\ fridgeLink' \in [up : BOOLEAN, heard : BOOLEAN, unit : {"none", "C", "F"}, current : SUBSET Statuses]
      /\ ~fridgeLink'.heard /\ fridgeLink'.current = {} /\ fridgeLink'.unit = "none"
    BY <1>1 DEF NoFridgeHandler
<1>4. /\ fridgeWanted' \in [Fields -> Degrees \cup {Unknown}]
      /\ \A f \in Fields : fridgeWanted'[f] = Unknown
    BY <1>1 DEF NothingWanted
<1>5. fridgeWire' \in Seq(WellSent) /\ Len(fridgeWire') <= MaxWire
    BY <1>1 DEF FridgeAssumption
<1>6. Followed(fridgeWire', Sts, Sts, LastStatus(fridge.is))
    BY <1>1 DEF Followed
<1>7. ShownInv'
    BY <1>1, <1>2, ShownStays DEF FridgeInv
<1>8. KnownInv'
    BY <1>1, <1>3 DEF KnownInv, NoFridgeHandler
<1> QED
    BY <1>1, <1>2, <1>3, <1>4, <1>5, <1>6, <1>7, <1>8, FridgeInvNext

\* The first message is taken.
LEMMA TakenFacts ==
    ASSUME FridgeInv, fridgeWire # <<>>
    PROVE  /\ Head(fridgeWire) \in WellSent /\ Tail(fridgeWire) \in Seq(WellSent)
           /\ Len(Tail(fridgeWire)) = Len(fridgeWire) - 1 /\ Len(fridgeWire) \in Nat
           /\ Followed(Tail(fridgeWire), Sts, Sts, LastStatus(fridge.is))
           /\ Head(fridgeWire) \in Sts /\ NoneOf(Tail(fridgeWire), Sts)
                => NewestStatus(Head(fridgeWire)) = fridge.is
           /\ \A f \in Fields : fridgeWanted[f] # Unknown =>
                /\ Settable(f)
                /\ Followed(Tail(fridgeWire), CmdOf(f), CmdOf(f), Gives(f, fridgeWanted[f]))
                /\ Followed(Tail(fridgeWire), CmdNotOf(f), CmdOf(f), Copies(f, fridgeWanted[f]))
                /\ NoneOf(Tail(fridgeWire), CmdOf(f)) =>
                     /\ Head(fridgeWire) \in CmdOf(f) => Head(fridgeWire) \in Gives(f, fridgeWanted[f])
                     /\ Head(fridgeWire) \in CmdNotOf(f) => Head(fridgeWire) \in Copies(f, fridgeWanted[f])
                     /\ Head(fridgeWire) \notin CmdOf(f) => Has(f, fridgeWanted[f])
<1>1. fridgeWire \in Seq(WellSent) /\ Followed(fridgeWire, Sts, Sts, LastStatus(fridge.is))
    BY DEF FridgeInv, RecordsInv
<1>2. /\ Head(fridgeWire) \in WellSent /\ Tail(fridgeWire) \in Seq(WellSent)
      /\ Len(Tail(fridgeWire)) = Len(fridgeWire) - 1 /\ Len(fridgeWire) \in Nat
    BY <1>1, HeadTailProperties, LenProperties
<1>3. /\ Followed(Tail(fridgeWire), Sts, Sts, LastStatus(fridge.is))
      /\ Head(fridgeWire) \in Sts /\ NoneOf(Tail(fridgeWire), Sts) => Head(fridgeWire) \in LastStatus(fridge.is)
    BY <1>1, TailFollowed
<1>4. ASSUME NEW f \in Fields, fridgeWanted[f] # Unknown
      PROVE  /\ Settable(f)
             /\ Followed(Tail(fridgeWire), CmdOf(f), CmdOf(f), Gives(f, fridgeWanted[f]))
             /\ Followed(Tail(fridgeWire), CmdNotOf(f), CmdOf(f), Copies(f, fridgeWanted[f]))
             /\ NoneOf(Tail(fridgeWire), CmdOf(f)) =>
                  /\ Head(fridgeWire) \in CmdOf(f) => Head(fridgeWire) \in Gives(f, fridgeWanted[f])
                  /\ Head(fridgeWire) \in CmdNotOf(f) => Head(fridgeWire) \in Copies(f, fridgeWanted[f])
                  /\ Head(fridgeWire) \notin CmdOf(f) => Has(f, fridgeWanted[f])
    <2>1. WantedOK(f, fridgeWanted[f])
        BY <1>4 DEF FridgeInv
    <2>2. /\ Followed(fridgeWire, CmdOf(f), CmdOf(f), Gives(f, fridgeWanted[f]))
          /\ Followed(fridgeWire, CmdNotOf(f), CmdOf(f), Copies(f, fridgeWanted[f]))
          /\ NoneOf(fridgeWire, CmdOf(f)) => Has(f, fridgeWanted[f])
          /\ Settable(f)
        BY <2>1 DEF WantedOK
    <2>3. NoneOf(Tail(fridgeWire), CmdOf(f)) /\ Head(fridgeWire) \notin CmdOf(f)
            => NoneOf(fridgeWire, CmdOf(f))
        BY <1>1, TailNone
    <2>4. /\ Followed(Tail(fridgeWire), CmdOf(f), CmdOf(f), Gives(f, fridgeWanted[f]))
          /\ Head(fridgeWire) \in CmdOf(f) /\ NoneOf(Tail(fridgeWire), CmdOf(f))
               => Head(fridgeWire) \in Gives(f, fridgeWanted[f])
        BY <1>1, <2>2, TailFollowed
    <2>5. /\ Followed(Tail(fridgeWire), CmdNotOf(f), CmdOf(f), Copies(f, fridgeWanted[f]))
          /\ Head(fridgeWire) \in CmdNotOf(f) /\ NoneOf(Tail(fridgeWire), CmdOf(f))
               => Head(fridgeWire) \in Copies(f, fridgeWanted[f])
        BY <1>1, <2>2, TailFollowed
    <2> QED
        BY <2>2, <2>3, <2>4, <2>5
<1>5. Head(fridgeWire) \in LastStatus(fridge.is) => NewestStatus(Head(fridgeWire)) = fridge.is
    BY DEF LastStatus
<1> QED
    BY <1>2, <1>3, <1>4, <1>5

LEMMA StatusKeeps ==
    ASSUME FridgeInv, FridgeAssumption, ProcessStatus
    PROVE  FridgeInv'
<1> DEFINE m == Head(fridgeWire)
           s == NewestStatus(m)
<1>1. /\ Model \in DOMAIN FridgeModels /\ fridge \in [model : {Model}, is : Statuses]
      /\ fridgeLink \in [up : BOOLEAN, heard : BOOLEAN, unit : {"none", "C", "F"}, current : SUBSET Statuses]
      /\ fridgeShown \in [unit : {"none", "C", "F"}, room : Degrees \cup {Unknown},
                          freezer : Degrees \cup {Unknown}, rest : Degrees \cup {Unknown}]
      /\ fridgeWanted \in [Fields -> Degrees \cup {Unknown}] /\ UNCHANGED <<fridge, fridgeWanted>>
      /\ fridgeWire # <<>> /\ m.type = "status" /\ fridgeWire' = Tail(fridgeWire)
      /\ fridgeShown' = ShowStatus(s)
      /\ fridgeLink' = [fridgeLink EXCEPT !.heard = TRUE, !.unit = s.unit, !.current = {s}]
      /\ Len(fridgeWire) <= MaxWire
    BY DEF FridgeInv, FridgeTypeOK, ProcessStatus
<1>2. /\ fridge' \in [model : {fridge.model}, is : Statuses] /\ fridge'.model = fridge.model
      /\ fridge'.is = fridge.is
    BY <1>1 DEF Model
<1>3. m \in WellSent /\ m \in Sts /\ \A f : m \notin CmdOf(f) /\ m \notin CmdNotOf(f)
    BY <1>1, TakenFacts DEF Sts, CmdOf, CmdNotOf
<1>4. s \in Statuses
    <2>1. m.records \in Seq(Statuses) /\ m.records # <<>>
        BY <1>1, <1>3 DEF WellSent, WireMessages
    <2>2. Len(m.records) \in 1..Len(m.records)
        BY <2>1, EmptySeq, LenProperties
    <2> QED
        BY <2>1, <2>2, LenProperties DEF NewestStatus
<1>5. /\ fridgeWire' \in Seq(WellSent) /\ Len(fridgeWire') <= MaxWire
      /\ Followed(fridgeWire', Sts, Sts, LastStatus(fridge.is))
      /\ NoneOf(fridgeWire', Sts) => s = fridge.is
    BY <1>1, <1>3, TakenFacts DEF FridgeAssumption
<1>6. ASSUME NEW f \in Fields, fridgeWanted'[f] # Unknown
      PROVE  /\ Settable(f)
             /\ Followed(fridgeWire', CmdOf(f), CmdOf(f), Gives(f, fridgeWanted'[f]))
             /\ Followed(fridgeWire', CmdNotOf(f), CmdOf(f), Copies(f, fridgeWanted'[f]))
             /\ NoneOf(fridgeWire', CmdOf(f)) =>
                   /\ fridge'.is[f] # Ignore
                   /\ ReadDegrees(f, fridge'.is.unit, fridge'.is[f]) = fridgeWanted'[f]
    BY <1>1, <1>3, <1>6, TakenFacts DEF Has
<1> HIDE DEF m, s
<1>7. /\ s.unit \in Units /\ s.unit \in {"C", "F"}
      /\ \A f \in Fields : s[f] \in StepsOf(f, s.unit)
      /\ s.rest # Ignore /\ s.rest \in {0, 1}
      /\ Model # "K1" => \A f \in Fields : s[f] # Ignore
    BY <1>4, StatusFacts
<1>8. /\ fridgeLink' \in [up : BOOLEAN, heard : BOOLEAN, unit : {"none", "C", "F"}, current : SUBSET Statuses]
      /\ fridgeLink'.up = fridgeLink.up /\ fridgeLink'.heard
      /\ fridgeLink'.unit = s.unit /\ fridgeLink'.current = {s}
    BY <1>1, <1>4, <1>7
<1>9. /\ fridgeShown' = [unit |-> s.unit, room |-> fridgeShown'.room,
                         freezer |-> fridgeShown'.freezer, rest |-> s.rest]
      /\ \A f \in {"room", "freezer"} : fridgeShown'[f] =
            IF s[f] = Ignore THEN fridgeShown[f] ELSE ReadDegrees(f, s.unit, s[f])
    BY <1>1 DEF ShowStatus
<1>10. ASSUME NEW f \in {"room", "freezer"}, s[f] # Ignore
       PROVE  ReadDegrees(f, s.unit, s[f]) \in Degrees
    <2>1. f \in Fields /\ s[f] \in StepsOf(f, s.unit)
        BY <1>7 DEF Fields
    <2> QED
        BY <1>1, <1>7, <1>10, <2>1, StepFacts
<1>11. fridgeShown' \in [unit : {"none", "C", "F"}, room : Degrees \cup {Unknown},
                        freezer : Degrees \cup {Unknown}, rest : Degrees \cup {Unknown}]
    <2>1. fridgeShown'.room \in Degrees \cup {Unknown} /\ fridgeShown'.freezer \in Degrees \cup {Unknown}
        BY <1>1, <1>9, <1>10
    <2>2. s.rest \in Degrees
        BY <1>7 DEF Degrees
    <2> QED
        BY <1>7, <1>9, <2>1, <2>2
<1>12. /\ Units' = Units /\ \A f, u : StepsOf(f, u)' = StepsOf(f, u)
       /\ \A f, u, x : ReadDegrees(f, u, x)' = ReadDegrees(f, u, x)
    BY <1>2, SameModel
<1>13. KnownInv'
    BY <1>1, <1>7, <1>8, <1>12 DEF KnownInv, FridgeInv
<1>14. fridgeShown'.unit = s.unit
    BY <1>9
<1>15. ASSUME NEW f \in {"room", "freezer"}, fridgeShown'[f] # Unknown
       PROVE  \E step \in StepsOf(f, s.unit) : fridgeShown'[f] = ReadDegrees(f, s.unit, step)
    <2>1. CASE s[f] # Ignore
        BY <1>7, <1>9, <2>1 DEF Fields
    <2>2. CASE s[f] = Ignore
        <3>1. Model = "K1" /\ fridgeShown'[f] = fridgeShown[f]
            BY <1>7, <1>9, <2>2 DEF Fields
        <3>2. PICK step \in StepsOf(f, fridgeShown.unit) :
                 fridgeShown[f] = ReadDegrees(f, fridgeShown.unit, step)
            BY <1>15, <3>1 DEF FridgeInv, ShownInv
        <3>3. /\ StepsOf(f, s.unit) = StepsOf(f, fridgeShown.unit)
              /\ ReadDegrees(f, s.unit, step) = ReadDegrees(f, fridgeShown.unit, step)
            BY <3>1 DEF StepsOf, ReadDegrees
        <3> QED
            BY <3>1, <3>2, <3>3
    <2> QED
        BY <2>1, <2>2
<1>16. ShownInv'
    <2>1. ASSUME NEW f \in {"room", "freezer"}, fridgeShown'[f] # Unknown
          PROVE  \E step \in StepsOf(f, fridgeShown.unit)' :
                    fridgeShown'[f] = ReadDegrees(f, fridgeShown.unit, step)'
        <3>1. PICK step \in StepsOf(f, s.unit) : fridgeShown'[f] = ReadDegrees(f, s.unit, step)
            BY <1>15, <2>1
        <3>2. StepsOf(f, fridgeShown.unit)' = StepsOf(f, s.unit)
            BY <1>12, <1>14
        <3>3. ReadDegrees(f, fridgeShown.unit, step)' = ReadDegrees(f, s.unit, step)
            BY <1>12, <1>14
        <3> QED
            BY <3>1, <3>2, <3>3
    <2> QED
        BY <1>7, <1>12, <1>14, <2>1 DEF ShownInv
<1>17. NoneOf(fridgeWire', Sts) => Settled'
    <2>1. SUFFICES ASSUME s = fridge.is
                   PROVE  Settled'
        BY <1>5
    <2>2. \A f \in Fields : fridge.is[f] # Ignore =>
             fridgeShown'[f] = ReadDegrees(f, fridge.is.unit, fridge.is[f])
        <3>1. ReadDegrees("rest", s.unit, s.rest) = s.rest /\ fridgeShown'.rest = s.rest
            BY <1>9 DEF ReadDegrees
        <3>2. \A f \in Fields : f = "rest" \/ f \in {"room", "freezer"}
            BY DEF Fields
        <3> QED
            BY <1>9, <2>1, <3>1, <3>2
    <2> QED
        BY <1>2, <1>8, <1>12, <1>14, <2>1, <2>2 DEF Settled
<1> QED
    BY <1>1, <1>2, <1>5, <1>6, <1>8, <1>11, <1>13, <1>16, <1>17, FridgeInvNext

LEMMA CommandKeeps ==
    ASSUME FridgeInv, FridgeAssumption, NEW f \in Fields, NEW step \in StepsOf(f, fridgeShown.unit),
           FridgeCommand(f, step)
    PROVE  FridgeInv'
<1> DEFINE degrees == ReadDegrees(f, fridgeShown.unit, step)
           c == SettingOf(f, degrees)
           u == UnitOfCommand
           dropped == Model = "F12" /\ fridgeLink.current = {}
           stale == Model = "F12" /\ \E i \in DOMAIN fridgeWire : fridgeWire[i].type = "command"
                                                                  \/ fridgeLink.current # {fridge.is}
<1>1. /\ Model \in DOMAIN FridgeModels /\ fridge \in [model : {Model}, is : Statuses]
      /\ fridgeLink \in [up : BOOLEAN, heard : BOOLEAN, unit : {"none", "C", "F"}, current : SUBSET Statuses]
      /\ fridgeShown \in [unit : {"none", "C", "F"}, room : Degrees \cup {Unknown},
                          freezer : Degrees \cup {Unknown}, rest : Degrees \cup {Unknown}]
      /\ fridgeWanted \in [Fields -> Degrees \cup {Unknown}]
      /\ fridgeWire \in Seq(WellSent) /\ Len(fridgeWire) \in Nat
      /\ Followed(fridgeWire, Sts, Sts, LastStatus(fridge.is))
      /\ fridgeLink.heard /\ NoneOf(fridgeWire, Sts) => Settled
      /\ ~fridgeLink.heard => fridgeLink.current = {}
      /\ fridgeLink.unit \in Units \cup {"none"}
    BY LenProperties DEF FridgeInv, FridgeTypeOK, RecordsInv, KnownInv
<1>2. /\ UNCHANGED <<fridge, fridgeLink, fridgeShown>>
      /\ fridgeLink.up /\ Settable(f) /\ fridgeShown.unit \in Units /\ Len(fridgeWire) < MaxWire
      /\ fridgeWire' = IF dropped THEN fridgeWire ELSE Append(fridgeWire, c)
      /\ fridgeWanted' = [g \in Fields |->
            IF g = f THEN (IF dropped \/ u # fridgeShown.unit THEN Unknown ELSE degrees)
            ELSE IF stale THEN Unknown ELSE fridgeWanted[g]]
    BY DEF FridgeCommand
<1>3. /\ fridge' \in [model : {fridge.model}, is : Statuses] /\ fridge'.model = fridge.model
      /\ fridge'.is = fridge.is
    BY <1>1, <1>2 DEF Model
<1>4. /\ Model # "K1" /\ step # Ignore /\ degrees \in Degrees
      /\ u = fridgeShown.unit => Given(c) = step
    <2>1. Model # "K1"
        BY <1>1, <1>2, SettableFacts
    <2>2. step # Ignore
        BY <2>1 DEF StepsOf, Ignore
    <2>3. c.field = f /\ c.step = WriteStep(f, u, degrees) % 256
        BY DEF SettingOf, Command
    <2> QED
        BY <1>1, <1>2, <2>1, <2>2, <2>3, StepFacts DEF Given
<1>5. u \in Units /\ u \in {"C", "F"} /\ Units \subseteq {"C", "F"}
    BY <1>1 DEF UnitOfCommand, Units
<1>6. WriteStep(f, u, degrees) \in Int
    BY <1>4 DEF WriteStep, ConvertFridge, ConvertFreezer, ConvertFridge600, ConvertToFreezer600, Degrees
<1>7. /\ c.type = "command" /\ c.field = f /\ c.unit = u
      /\ c.base = IF Model = "F12" THEN fridgeLink.current ELSE {}
      /\ c \in WireMessages
    <2>1. WriteStep(f, u, degrees) % 256 \in 0..255
        BY <1>6
    <2>2. (IF Model = "F12" THEN fridgeLink.current ELSE {}) \in SUBSET Statuses
        BY <1>1
    <2> QED
        BY <1>5, <2>1, <2>2 DEF SettingOf, Command, WireMessages
<1>8. /\ c \in WellSent /\ c \notin Sts /\ c \in CmdOf(f) /\ c \notin CmdNotOf(f)
      /\ \A g \in Fields \ {f} : c \notin CmdOf(g) /\ c \in CmdNotOf(g)
    BY <1>5, <1>7 DEF WellSent, Sts, CmdOf, CmdNotOf
<1> DEFINE A == Append(fridgeWire, c)
<1>9. /\ A \in Seq(WellSent) /\ Len(A) = Len(fridgeWire) + 1
      /\ Followed(A, Sts, Sts, LastStatus(fridge.is))
      /\ NoneOf(A, Sts) => NoneOf(fridgeWire, Sts)
      /\ \A g : NoneOf(A, CmdOf(g)) => NoneOf(fridgeWire, CmdOf(g)) /\ c \notin CmdOf(g)
    <2>1. A \in Seq(WellSent) /\ Len(A) = Len(fridgeWire) + 1
        BY <1>1, <1>8, AppendProperties
    <2>2. /\ NoneOf(A, Sts) => NoneOf(fridgeWire, Sts)
          /\ \A g : NoneOf(A, CmdOf(g)) => NoneOf(fridgeWire, CmdOf(g)) /\ c \notin CmdOf(g)
        BY <1>1, <1>8, AppendNone
    <2>3. Followed(A, Sts, Sts, LastStatus(fridge.is))
        BY <1>1, <1>8, AppendFollowed
    <2> QED
        BY <2>1, <2>2, <2>3
<1>10. u = fridgeShown.unit => c \in Gives(f, degrees)
    BY <1>4, <1>7, <1>8 DEF Gives
<1>11. ASSUME NEW g \in Fields \ {f}, ~stale, ~dropped, fridgeWanted[g] # Unknown
       PROVE  c \in Copies(g, fridgeWanted[g])
    <2>1. CASE Model # "F12"
        BY <1>7, <1>8, <2>1 DEF Copies
    <2>2. CASE Model = "F12"
        <3>1. /\ \A i \in DOMAIN fridgeWire : fridgeWire[i].type # "command"
              /\ DOMAIN fridgeWire # {} => fridgeLink.current = {fridge.is}
            BY <1>11, <2>2
        <3>2. DOMAIN fridgeWire = 1..Len(fridgeWire)
            BY <1>1, LenProperties
        <3>3. NoneOf(fridgeWire, CmdOf(g))
            BY <3>1, <3>2 DEF NoneOf, CmdOf
        <3>4. Has(g, fridgeWanted[g])
            BY <1>11, <3>3 DEF FridgeInv, WantedOK
        <3>5. fridgeLink.current = {fridge.is}
            <4>1. CASE DOMAIN fridgeWire # {}
                BY <3>1, <4>1
            <4>2. CASE DOMAIN fridgeWire = {}
                <5>1. NoneOf(fridgeWire, Sts)
                    BY <3>2, <4>2 DEF NoneOf
                <5> QED
                    BY <1>1, <1>11, <2>2, <5>1 DEF Settled
            <4> QED
                BY <4>1, <4>2
        <3> QED
            BY <1>7, <1>8, <2>2, <3>4, <3>5 DEF Copies, Has
    <2> QED
        BY <2>1, <2>2
<1> HIDE DEF degrees, c, u, dropped, stale
<1>12. ASSUME NEW g \in Fields, fridgeWanted'[g] # Unknown
       PROVE  /\ Settable(g)
              /\ Followed(fridgeWire', CmdOf(g), CmdOf(g), Gives(g, fridgeWanted'[g]))
              /\ Followed(fridgeWire', CmdNotOf(g), CmdOf(g), Copies(g, fridgeWanted'[g]))
              /\ NoneOf(fridgeWire', CmdOf(g)) =>
                    /\ fridge'.is[g] # Ignore
                    /\ ReadDegrees(g, fridge'.is.unit, fridge'.is[g]) = fridgeWanted'[g]
    <2>1. CASE g = f
        <3>1. fridgeWanted'[g] = degrees /\ u = fridgeShown.unit /\ ~dropped /\ fridgeWire' = A
            BY <1>2, <1>12, <2>1
        <3>2. Followed(A, CmdOf(f), CmdOf(f), Gives(f, degrees))
            BY <1>1, <1>8, <1>10, <3>1, AppendFollowed
        <3>3. Followed(A, CmdNotOf(f), CmdOf(f), Copies(f, degrees))
            BY <1>1, <1>8, AppendFollowed
        <3> QED
            BY <1>2, <1>8, <1>9, <2>1, <3>1, <3>2, <3>3
    <2>2. CASE g # f
        <3>1. ~stale /\ fridgeWanted'[g] = fridgeWanted[g] /\ fridgeWanted[g] # Unknown
            BY <1>2, <1>12, <2>2
        <3>2. WantedOK(g, fridgeWanted[g])
            BY <3>1 DEF FridgeInv
        <3>3. /\ Settable(g)
              /\ Followed(fridgeWire, CmdOf(g), CmdOf(g), Gives(g, fridgeWanted[g]))
              /\ Followed(fridgeWire, CmdNotOf(g), CmdOf(g), Copies(g, fridgeWanted[g]))
              /\ NoneOf(fridgeWire, CmdOf(g)) =>
                    /\ fridge.is[g] # Ignore
                    /\ ReadDegrees(g, fridge.is.unit, fridge.is[g]) = fridgeWanted[g]
            BY <3>2 DEF WantedOK, Has
        <3>4. CASE dropped
            BY <1>2, <1>3, <3>1, <3>3, <3>4
        <3>5. CASE ~dropped
            <4>1. fridgeWire' = A
                BY <1>2, <3>5
            <4>2. Followed(A, CmdOf(g), CmdOf(g), Gives(g, fridgeWanted[g]))
                BY <1>1, <1>8, <2>2, <3>3, AppendFollowed
            <4>3. c \in Copies(g, fridgeWanted[g])
                BY <1>11, <2>2, <3>1, <3>5
            <4>4. Followed(A, CmdNotOf(g), CmdOf(g), Copies(g, fridgeWanted[g]))
                BY <1>1, <1>8, <3>3, <4>3, AppendFollowed
            <4> QED
                BY <1>3, <1>9, <3>1, <3>3, <4>1, <4>2, <4>4
        <3> QED
            BY <3>4, <3>5
    <2> QED
        BY <2>1, <2>2
<1>13. /\ fridgeWire' \in Seq(WellSent) /\ Len(fridgeWire') <= MaxWire
       /\ Followed(fridgeWire', Sts, Sts, LastStatus(fridge'.is))
       /\ NoneOf(fridgeWire', Sts) => NoneOf(fridgeWire, Sts)
    <2>1. CASE dropped
        BY <1>1, <1>2, <1>3, <2>1 DEF FridgeAssumption
    <2>2. CASE ~dropped
        <3>1. Len(A) <= MaxWire
            BY <1>1, <1>2, <1>9 DEF FridgeAssumption
        <3> QED
            BY <1>2, <1>3, <1>9, <2>2, <3>1
    <2> QED
        BY <2>1, <2>2
<1>14. ShownInv'
    BY <1>2, <1>3, ShownStays DEF FridgeInv
<1>15. /\ Units' = Units
       /\ \A g, v, x : ReadDegrees(g, v, x)' = ReadDegrees(g, v, x)
    BY <1>3, SameModel
<1>16. KnownInv'
    BY <1>2, <1>15 DEF FridgeInv, KnownInv
<1>17. Settled => Settled'
    BY <1>2, <1>3, <1>15 DEF Settled
<1>18. fridgeWanted' \in [Fields -> Degrees \cup {Unknown}]
    BY <1>1, <1>2, <1>4
<1> QED
    BY <1>1, <1>2, <1>3, <1>12, <1>13, <1>14, <1>16, <1>17, <1>18, FridgeInvNext

LEMMA ObeysKeeps ==
    ASSUME FridgeInv, FridgeAssumption, FridgeObeys
    PROVE  FridgeInv'
<1> DEFINE c == Head(fridgeWire)
<1>1. /\ Model \in DOMAIN FridgeModels /\ fridge \in [model : {Model}, is : Statuses]
      /\ fridgeLink \in [up : BOOLEAN, heard : BOOLEAN, unit : {"none", "C", "F"}, current : SUBSET Statuses]
      /\ fridgeShown \in [unit : {"none", "C", "F"}, room : Degrees \cup {Unknown},
                          freezer : Degrees \cup {Unknown}, rest : Degrees \cup {Unknown}]
      /\ fridgeWanted \in [Fields -> Degrees \cup {Unknown}]
      /\ Len(fridgeWire) <= MaxWire
      /\ fridgeWire # <<>> /\ c.type = "command" /\ UNCHANGED <<fridgeLink, fridgeShown>>
    BY DEF FridgeInv, FridgeTypeOK, FridgeObeys
<1>2. PICK s \in Obeyed(c) :
         /\ Moves(s)
         /\ fridgeWire' = Append(Tail(fridgeWire), Reported(fridge.is, s))
         /\ fridgeWanted' = [g \in Fields |->
                IF s.unit # fridge.is.unit /\ g \notin {c.field, "rest"}
                THEN Unknown ELSE fridgeWanted[g]]
    BY DEF FridgeObeys
<1>3. s \in Statuses /\ fridge.is \in Statuses
    BY <1>1 DEF Obeyed
<1>4. /\ fridge' \in [model : {fridge.model}, is : Statuses] /\ fridge'.model = fridge.model
      /\ fridge'.is = s
    BY <1>1, <1>2, <1>3 DEF Moves, Model
<1> DEFINE m == Reported(fridge.is, s)
           t == Tail(fridgeWire)
<1>5. m \in WellSent /\ m \in Sts /\ m \in LastStatus(s) /\ \A f : m \notin CmdOf(f) /\ m \notin CmdNotOf(f)
    <2>1. m.type = "status" /\ m.records = <<fridge.is, s>> /\ m.records # <<>>
        BY DEF Reported
    <2>2. m \in [type : {"status"}, records : Seq(Statuses)]
        BY <1>3 DEF Reported
    <2>3. m \in WellSent
        BY <2>1, <2>2 DEF WellSent, WireMessages
    <2>4. NewestStatus(m) = s
        BY <2>1 DEF NewestStatus
    <2> QED
        BY <2>1, <2>3, <2>4 DEF Sts, LastStatus, CmdOf, CmdNotOf
<1>6. /\ c \in WellSent /\ t \in Seq(WellSent) /\ Len(t) = Len(fridgeWire) - 1 /\ Len(fridgeWire) \in Nat
      /\ Followed(t, Sts, Sts, LastStatus(fridge.is))
      /\ \A f \in Fields : fridgeWanted[f] # Unknown =>
           /\ Settable(f)
           /\ Followed(t, CmdOf(f), CmdOf(f), Gives(f, fridgeWanted[f]))
           /\ Followed(t, CmdNotOf(f), CmdOf(f), Copies(f, fridgeWanted[f]))
           /\ NoneOf(t, CmdOf(f)) =>
                /\ c \in CmdOf(f) => c \in Gives(f, fridgeWanted[f])
                /\ c \in CmdNotOf(f) => c \in Copies(f, fridgeWanted[f])
                /\ c \notin CmdOf(f) => Has(f, fridgeWanted[f])
    BY <1>1, TakenFacts
<1>7. /\ c.field \in Fields /\ c.unit \in Units /\ c.base \in SUBSET Statuses
      /\ c.base # {} => Model = "F12"
      /\ \A f \in Fields : c \in CmdOf(f) <=> c.field = f
      /\ \A f \in Fields : c \in CmdNotOf(f) <=> c.field # f
    BY <1>1, <1>6 DEF WellSent, WireMessages, CmdOf, CmdNotOf
<1> HIDE DEF m, t, c
<1> DEFINE A == Append(t, m)
<1>8. /\ A \in Seq(WellSent) /\ Len(A) = Len(fridgeWire)
      /\ Followed(A, Sts, Sts, LastStatus(s)) /\ ~NoneOf(A, Sts)
      /\ \A f : NoneOf(A, CmdOf(f)) => NoneOf(t, CmdOf(f))
      /\ \A f, Q : Followed(t, CmdOf(f), CmdOf(f), Q) => Followed(A, CmdOf(f), CmdOf(f), Q)
      /\ \A f, Q : Followed(t, CmdNotOf(f), CmdOf(f), Q) => Followed(A, CmdNotOf(f), CmdOf(f), Q)
    <2>1. A \in Seq(WellSent) /\ Len(A) = Len(t) + 1
        BY <1>5, <1>6, AppendProperties
    <2>2. ~NoneOf(A, Sts) /\ \A f : NoneOf(A, CmdOf(f)) => NoneOf(t, CmdOf(f))
        BY <1>5, <1>6, AppendNone
    <2>3. Followed(A, Sts, Sts, LastStatus(s))
        BY <1>5, <1>6, AppendFollowed
    <2>4. Len(A) = Len(fridgeWire)
        BY <1>6, <2>1
    <2> QED
        BY <1>5, <1>6, <2>1, <2>2, <2>3, <2>4, AppendFollowed
<1>9. fridgeWire' = A
    BY <1>2 DEF m, t
<1> HIDE DEF A
<1>10. /\ Units \subseteq {"C", "F"}
       /\ Model = "F12" => Units = {"C"}
       /\ s.unit \in Units /\ fridge.is.unit \in Units
       /\ ~TwoUnits => Units = {"C"}
       /\ \A b \in c.base : b.unit \in Units /\ b \in Statuses
    BY <1>3, <1>7, StatusFacts DEF Units, TwoUnits
<1>11. \A g \in Fields : fridgeWanted'[g] # Unknown =>
          /\ fridgeWanted'[g] = fridgeWanted[g]
          /\ s.unit = fridge.is.unit \/ g \in {c.field, "rest"}
    BY <1>2 DEF c
<1>12. ASSUME NEW g \in Fields, fridgeWanted[g] # Unknown, NoneOf(t, CmdOf(g)), c.base # {}
       PROVE  ReadDegrees(g, s.unit, s[g]) = fridgeWanted[g]
    <2>1. PICK b \in c.base : s = [b EXCEPT ![c.field] = c.step, !.unit = fridge.is.unit]
        BY <1>2, <1>12 DEF Obeyed
    <2>2. b = [unit |-> b.unit, room |-> b.room, freezer |-> b.freezer, rest |-> b.rest]
        BY <1>10, <2>1, StatusFacts
    <2>3. /\ s[c.field] = c.step
          /\ \A h \in Fields \ {c.field} : s[h] = b[h]
        BY <1>7, <2>1, <2>2 DEF Fields
    <2>4. Model = "F12" /\ s.unit = "C" /\ fridge.is.unit = "C" /\ b.unit = "C" /\ c.unit = "C"
        BY <1>7, <1>10, <1>12
    <2>5. Given(c) = c.step
        BY <2>4 DEF Given, AppliedStep
    <2>6. CASE c.field = g
        <3>1. c \in Gives(g, fridgeWanted[g])
            BY <1>6, <1>7, <1>12, <2>6
        <3> QED
            BY <2>3, <2>4, <2>5, <2>6, <3>1 DEF Gives
    <2>7. CASE c.field # g
        <3>1. c \in Copies(g, fridgeWanted[g])
            BY <1>6, <1>7, <1>12, <2>7
        <3> QED
            BY <2>1, <2>3, <2>4, <2>7, <3>1 DEF Copies
    <2> QED
        BY <2>6, <2>7
<1>13. ASSUME NEW g \in Fields, fridgeWanted[g] # Unknown, NoneOf(t, CmdOf(g)), c.base = {},
              s.unit = fridge.is.unit \/ g \in {c.field, "rest"}
       PROVE  ReadDegrees(g, s.unit, s[g]) = fridgeWanted[g]
    <2>1. /\ s.unit = IF TwoUnits THEN c.unit ELSE fridge.is.unit
          /\ AppliedStep(c.field, c.step) \in StepsOf(c.field, s.unit) \/ c.field = "rest"
                => s[c.field] = Given(c)
          /\ s.unit = fridge.is.unit => \A h \in Fields \ {c.field} : s[h] = fridge.is[h]
          /\ c.field # "rest" => s.rest = fridge.is.rest
        BY <1>2, <1>13 DEF Obeyed, Given
    <2>2. s.unit = c.unit
        BY <1>7, <1>10, <2>1
    <2>3. CASE c.field = g
        <3>1. c \in Gives(g, fridgeWanted[g])
            BY <1>6, <1>7, <1>13, <2>3
        <3>2. Given(c) \in StepsOf(g, s.unit) /\ ReadDegrees(g, s.unit, Given(c)) = fridgeWanted[g]
            BY <2>2, <3>1 DEF Gives
        <3>3. s[g] = Given(c)
            BY <2>1, <2>3, <3>2 DEF Given
        <3> QED
            BY <3>2, <3>3
    <2>4. CASE c.field # g
        <3>1. ReadDegrees(g, fridge.is.unit, fridge.is[g]) = fridgeWanted[g]
            BY <1>6, <1>7, <1>13, <2>4 DEF Has
        <3>2. CASE s.unit = fridge.is.unit
            BY <2>1, <2>4, <3>1, <3>2
        <3>3. CASE g = "rest"
            <4>1. s.rest = fridge.is.rest
                BY <2>1, <2>4, <3>3
            <4> QED
                BY <3>1, <3>3, <4>1 DEF ReadDegrees
        <3> QED
            BY <1>13, <2>4, <3>2, <3>3
    <2> QED
        BY <2>3, <2>4
<1>14. ASSUME NEW g \in Fields, fridgeWanted'[g] # Unknown
       PROVE  /\ Settable(g)
              /\ Followed(fridgeWire', CmdOf(g), CmdOf(g), Gives(g, fridgeWanted'[g]))
              /\ Followed(fridgeWire', CmdNotOf(g), CmdOf(g), Copies(g, fridgeWanted'[g]))
              /\ NoneOf(fridgeWire', CmdOf(g)) =>
                    /\ fridge'.is[g] # Ignore
                    /\ ReadDegrees(g, fridge'.is.unit, fridge'.is[g]) = fridgeWanted'[g]
    <2>1. /\ fridgeWanted'[g] = fridgeWanted[g] /\ fridgeWanted[g] # Unknown
          /\ s.unit = fridge.is.unit \/ g \in {c.field, "rest"}
        BY <1>11, <1>14
    <2>2. Settable(g) /\ Model # "K1"
        BY <1>1, <1>6, <2>1, SettableFacts
    <2>3. s[g] # Ignore
        BY <1>3, <2>2, StatusFacts
    <2>4. NoneOf(t, CmdOf(g)) => ReadDegrees(g, s.unit, s[g]) = fridgeWanted[g]
        BY <1>12, <1>13, <2>1
    <2> QED
        BY <1>4, <1>6, <1>8, <1>9, <2>1, <2>2, <2>3, <2>4
<1>15. ShownInv'
    BY <1>1, <1>4, ShownStays DEF FridgeInv
<1>16. KnownInv'
    <2>1. Units' = Units
        BY <1>4, SameModel
    <2>2. fridgeLink.up
        BY <1>1 DEF FridgeInv, KnownInv
    <2> QED
        BY <1>1, <2>1, <2>2 DEF FridgeInv, KnownInv
<1>17. fridgeWanted' \in [Fields -> Degrees \cup {Unknown}]
    BY <1>1, <1>2
<1> QED
    BY <1>1, <1>4, <1>8, <1>9, <1>14, <1>15, <1>16, <1>17, FridgeInvNext

LEMMA FridgeStarts ==
    ASSUME FridgeInit, FridgeAssumption
    PROVE  FridgeInv
<1>1. PICK m \in DOMAIN FridgeModels :
         fridge = [model |-> m,
                   is |-> [unit |-> "C", room |-> IF m = "K1" THEN 1 ELSE 5,
                           freezer |-> IF m = "K1" THEN 1 ELSE 5, rest |-> 0]]
    BY DEF FridgeInit
<1>2. Model = m /\ Model \in DOMAIN FridgeModels /\ "C" \in Units
    BY <1>1 DEF Model, Units
<1>3. fridge.is \in Statuses
    <2>1. /\ fridge.is.room \in StepsOf("room", "C") /\ fridge.is.freezer \in StepsOf("freezer", "C")
          /\ fridge.is.rest \in StepsOf("rest", "C")
        BY <1>1, <1>2 DEF StepsOf
    <2>2. fridge.is \in Status("C")
        BY <1>1, <2>1 DEF Status
    <2> QED
        BY <1>2, <2>2 DEF Statuses
<1>4. /\ fridgeLink = NoFridgeHandler /\ fridgeWire = <<>>
      /\ fridgeShown = [unit |-> "none", room |-> Unknown, freezer |-> Unknown, rest |-> Unknown]
      /\ fridgeWanted = NothingWanted
    BY DEF FridgeInit
<1>5. FridgeTypeOK
    <2>1. fridge \in [model : {Model}, is : Statuses]
        BY <1>1, <1>2, <1>3
    <2>2. fridgeWanted \in [Fields -> Degrees \cup {Unknown}]
        BY <1>4 DEF NothingWanted
    <2> QED
        BY <1>2, <1>4, <2>1, <2>2 DEF FridgeTypeOK, NoFridgeHandler, FridgeAssumption
<1>6. KnownInv
    BY <1>4 DEF KnownInv, NoFridgeHandler
<1>7. ShownInv
    BY <1>4 DEF ShownInv, Fields
<1>8. RecordsInv
    BY <1>4 DEF RecordsInv, Followed, NoFridgeHandler
<1>9. \A f \in Fields : fridgeWanted[f] = Unknown
    BY <1>4 DEF NothingWanted
<1> QED
    BY <1>5, <1>6, <1>7, <1>8, <1>9 DEF FridgeInv

LEMMA FridgeKeeps ==
    ASSUME FridgeInv, FridgeAssumption, [FridgeNext]_fridgeVars
    PROVE  FridgeInv'
<1>1. CASE FridgeConnects
    BY <1>1, FridgeConnectsKeeps
<1>2. CASE FridgeLost
    BY <1>2, FridgeLostKeeps
<1>3. CASE ProcessStatus
    BY <1>3, StatusKeeps
<1>4. CASE FridgeObeys
    BY <1>4, ObeysKeeps
<1>5. ASSUME NEW new \in Statuses, PanelMoves(new)
      PROVE  FridgeInv'
    BY <1>5, PanelKeeps
<1>6. ASSUME NEW f \in Fields, NEW step \in StepsOf(f, fridgeShown.unit), FridgeCommand(f, step)
      PROVE  FridgeInv'
    BY <1>6, CommandKeeps
<1>7. CASE UNCHANGED fridgeVars
    <2>1. /\ Model' = Model /\ Units' = Units /\ Statuses' = Statuses /\ WireMessages' = WireMessages
          /\ WellSent' = WellSent /\ Sts' = Sts
          /\ \A f : CmdOf(f)' = CmdOf(f) /\ CmdNotOf(f)' = CmdNotOf(f)
          /\ \A s : LastStatus(s)' = LastStatus(s)
          /\ \A f, d : Gives(f, d)' = Gives(f, d) /\ Copies(f, d)' = Copies(f, d)
          /\ \A f, u, x : ReadDegrees(f, u, x)' = ReadDegrees(f, u, x)
          /\ \A f : Settable(f)' = Settable(f)
        BY <1>7, SameModel DEF fridgeVars
    <2>2. FridgeTypeOK'
        BY <1>7, <2>1 DEF fridgeVars, FridgeInv, FridgeTypeOK
    <2>3. KnownInv'
        BY <1>7, <2>1 DEF fridgeVars, FridgeInv, KnownInv
    <2>4. ShownInv'
        BY <1>7, ShownStays DEF fridgeVars, FridgeInv
    <2>5. Settled => Settled'
        BY <1>7, <2>1 DEF fridgeVars, Settled
    <2>6. RecordsInv'
        BY <1>7, <2>1, <2>5 DEF fridgeVars, FridgeInv, RecordsInv
    <2>7. ASSUME NEW f \in Fields, fridgeWanted'[f] # Unknown
          PROVE  WantedOK(f, fridgeWanted[f])'
        <3>1. WantedOK(f, fridgeWanted[f])
            BY <1>7, <2>7 DEF fridgeVars, FridgeInv
        <3>2. Has(f, fridgeWanted[f])' <=> Has(f, fridgeWanted[f])
            BY <1>7, <2>1 DEF fridgeVars, Has
        <3> QED
            BY <1>7, <2>1, <3>1, <3>2 DEF fridgeVars, WantedOK
    <2> QED
        BY <2>2, <2>3, <2>4, <2>6, <2>7 DEF FridgeInv
<1> QED
    BY <1>1, <1>2, <1>3, <1>4, <1>5, <1>6, <1>7 DEF FridgeNext

LEMMA FridgeGood ==
    ASSUME FridgeInv, FridgeAssumption
    PROVE  FridgeTypeOK /\ FridgeIsShown /\ SettingsAreKept
<1>1. FridgeTypeOK /\ ShownInv
    BY DEF FridgeInv
<1>2. ASSUME Quiet
      PROVE  /\ Settled
             /\ \A f \in Fields : fridgeWanted[f] # Unknown => Has(f, fridgeWanted[f])
    <2>1. fridgeWire = <<>> /\ fridgeLink.heard
        BY <1>2 DEF Quiet
    <2>2. \A R : NoneOf(fridgeWire, R)
        BY <2>1 DEF NoneOf
    <2> QED
        BY <2>1, <2>2 DEF FridgeInv, RecordsInv, WantedOK
<1>3. FridgeIsShown
    BY <1>1, <1>2 DEF FridgeIsShown, ShownInv, Settled
<1>4. SettingsAreKept
    BY <1>2 DEF SettingsAreKept, Settled, Has
<1> QED
    BY <1>1, <1>3, <1>4

\* A refrigerator is shown as it is and set as its owner wants.
THEOREM FridgeInvariantHolds ==
    ASSUME FridgeAssumption
    PROVE  FridgeSpec => []FridgeInv
<1>1. FridgeInit => FridgeInv
    BY FridgeStarts
<1>2. FridgeInv /\ [FridgeNext]_fridgeVars => FridgeInv'
    BY FridgeKeeps
<1> QED
    BY <1>1, <1>2, PTL DEF FridgeSpec

-----------------------------------------------------------------------------
(* The floor standing air conditioner.  A result holds the raw state, what  *)
(* is shown, the timers and the writes; each operator of the handler makes  *)
(* another one of it.                                                       *)

PacRaw ==
    [power: Switch, mode: PacModes, fan: FanValues, jet: BOOLEAN,
     before: PacLevels, powerPrev: Switch \cup {"unknown"},
     modePrev: PacModes \cup {"off", "unknown"}]
PacShows ==
    [mode: PacModes \cup {"off", "unknown"}, fan: PacLevels \cup {"unknown"},
     long: Switch \cup {"unknown"}, watts: {"unknown", "zero", "some"}]
PacResults ==
    [p: PacRaw, sh: PacShows, t: SUBSET (Timers \cup {"fast", "dropped"}), out: Seq(Writes)]

\* The results a handler that is not stopped makes.
Runs(r) == r \in PacResults /\ "dropped" \notin r.t

\* No mode is among the writes; or only while the appliance is on.
NoModeSent(out) == \A i \in DOMAIN out : out[i].field # "mode"
ModeSentOn(r) == \A i \in DOMAIN r.out : r.out[i].field = "mode" => r.p.power = "on"

PacInv == PacTypeOK /\ PacWrites

\* One more write.
LEMMA PacAppended ==
    ASSUME NEW out \in Seq(Writes), NEW w \in Writes
    PROVE  /\ Append(out, w) \in Seq(Writes)
           /\ Append(out, w) # <<>>
           /\ Append(out, w)[Len(Append(out, w))] = w
           /\ \A i \in DOMAIN Append(out, w) : Append(out, w)[i] = w \/
                 (i \in DOMAIN out /\ Append(out, w)[i] = out[i])
<1> DEFINE A == Append(out, w)
<1>1. /\ A \in Seq(Writes) /\ Len(A) = Len(out) + 1 /\ Len(out) \in Nat
      /\ A[Len(out) + 1] = w /\ \A i \in 1..Len(out) : A[i] = out[i]
    BY AppendProperties, LenProperties
<1>2. DOMAIN A = 1..Len(A) /\ DOMAIN out = 1..Len(out)
    BY <1>1, LenProperties
<1> HIDE DEF A
<1>3. A # <<>>
    BY <1>1, <1>2
<1>4. \A i \in DOMAIN A : A[i] = w \/ (i \in DOMAIN out /\ A[i] = out[i])
    BY <1>1, <1>2
<1>5. A \in Seq(Writes) /\ A[Len(A)] = w
    BY <1>1
<1> QED
    BY <1>3, <1>4, <1>5 DEF A

\* A write of a result, with what else it changes.
Wrote(r, p, t, w) == [p |-> p, sh |-> r.sh, t |-> t, out |-> Append(r.out, w)]

LEMMA WroteKeeps ==
    ASSUME NEW r, Runs(r), NEW w \in Writes, NEW p \in PacRaw,
           NEW t \in SUBSET (Timers \cup {"fast"})
    PROVE  LET q == Wrote(r, p, t, w) IN
           /\ Runs(q) /\ q.p = p /\ q.sh = r.sh
           /\ q.out # <<>> /\ q.out[Len(q.out)] = w
           /\ NoModeSent(r.out) /\ (w.field = "mode" => p.power = "on") => ModeSentOn(q)
           /\ NoModeSent(r.out) /\ w.field # "mode" => NoModeSent(q.out)
<1> DEFINE out == Append(r.out, w)
           q == Wrote(r, p, t, w)
<1>1. r.out \in Seq(Writes) /\ r \in PacResults
    BY DEF Runs, PacResults
<1>2. /\ out \in Seq(Writes) /\ out # <<>> /\ out[Len(out)] = w
      /\ \A i \in DOMAIN out : out[i] = w \/ (i \in DOMAIN r.out /\ out[i] = r.out[i])
    BY <1>1, PacAppended
<1>3. q = [p |-> p, sh |-> r.sh, t |-> t, out |-> out]
    BY DEF Wrote
<1> HIDE DEF q, out
<1>4. q.p = p /\ q.sh = r.sh /\ q.t = t /\ q.out = out
    BY <1>3
<1>5. "dropped" \notin t /\ t \in SUBSET (Timers \cup {"fast", "dropped"})
    BY DEF Timers
<1>6. r.sh \in PacShows
    BY <1>1 DEF PacResults
<1>7. q \in PacResults
    BY <1>2, <1>3, <1>5, <1>6 DEF PacResults
<1>8. Runs(q)
    BY <1>4, <1>5, <1>7 DEF Runs
<1>9. /\ NoModeSent(r.out) /\ (w.field = "mode" => p.power = "on") => ModeSentOn(q)
      /\ NoModeSent(r.out) /\ w.field # "mode" => NoModeSent(q.out)
    BY <1>2, <1>4 DEF NoModeSent, ModeSentOn
<1> QED
    BY <1>2, <1>4, <1>8, <1>9 DEF q

\* The timer of the fan-only mode alone.
LEMMA FanOnlyKeeps ==
    ASSUME NEW r, Runs(r)
    PROVE  LET q == FanOnlyStop(r) IN
           Runs(q) /\ q.p = r.p /\ q.sh = r.sh /\ q.out = r.out
BY DEF FanOnlyStop, Runs, PacResults, Timers

LEMMA RunsFacts ==
    ASSUME NEW r, Runs(r)
    PROVE  /\ r = [p |-> r.p, sh |-> r.sh, t |-> r.t, out |-> r.out]
           /\ r.p \in PacRaw /\ r.sh \in PacShows /\ r.out \in Seq(Writes)
           /\ r.t \in SUBSET (Timers \cup {"fast"})
BY DEF Runs, PacResults

LEMMA WroteFacts ==
    ASSUME NEW r, Runs(r), NEW p, NEW w
    PROVE  [r EXCEPT !.p = p, !.out = Append(r.out, w)] = Wrote(r, p, r.t, w)
<1> DEFINE o == Append(r.out, w)
           q == [r EXCEPT !.p = p]
<1> HIDE DEF o
<1>1. q = [p |-> p, sh |-> r.sh, t |-> r.t, out |-> r.out]
    BY DEF Runs, PacResults
<1> HIDE DEF q
<1>2. [q EXCEPT !.out = o] = [p |-> p, sh |-> r.sh, t |-> r.t, out |-> o]
    BY <1>1
<1> QED
    BY <1>2 DEF Wrote, o, q

-----------------------------------------------------------------------------
(* The writes of the handler.                                              *)

\* What a write leaves of the raw state besides what it writes.
Beside(p, q) == p.before = q.before /\ p.powerPrev = q.powerPrev /\ p.modePrev = q.modePrev

LEMMA SetPowerKeeps ==
    ASSUME NEW r, Runs(r), NoModeSent(r.out), NEW on \in Switch
    PROVE  LET q == SetPower(r, on) IN
           /\ Runs(q) /\ NoModeSent(q.out) /\ ModeSentOn(q)
           /\ q.sh = r.sh /\ Beside(q.p, r.p) /\ q.p.fan = r.p.fan
<1> DEFINE w == Write("power", on, IF on = "on" THEN r.p.mode ELSE "-")
           p == [r.p EXCEPT !.power = on]
           q == SetPower(r, on)
<1>1. r.p \in PacRaw
    BY RunsFacts
<1>2. w \in Writes /\ w.field # "mode"
    BY <1>1 DEF Write, Writes, PacRaw
<1>3. p \in PacRaw /\ Beside(p, r.p) /\ p.fan = r.p.fan
    BY <1>1 DEF PacRaw, Beside
<1>4. q = Wrote(r, p, r.t, w)
    <2> HIDE DEF w
    <2>1. q = [r EXCEPT !.p.power = on, !.out = Append(@, w)]
        BY DEF SetPower, w
    <2> QED
        BY <2>1, WroteFacts DEF p
<1>5. r.t \in SUBSET (Timers \cup {"fast"})
    BY RunsFacts
<1> HIDE DEF w, p, q
<1>6. Runs(q) /\ NoModeSent(q.out) /\ q.p = p /\ q.sh = r.sh
    BY <1>2, <1>3, <1>4, <1>5, WroteKeeps
<1>7. ModeSentOn(q)
    BY <1>6 DEF ModeSentOn, NoModeSent
<1> QED
    BY <1>3, <1>6, <1>7 DEF q

LEMMA SetCoolKeeps ==
    ASSUME NEW r, Runs(r), NoModeSent(r.out), NEW on \in BOOLEAN
    PROVE  LET q == SetCoolPower(r, on) IN
           /\ Runs(q) /\ NoModeSent(q.out) /\ ModeSentOn(q)
           /\ q.sh = r.sh /\ Beside(q.p, r.p) /\ q.p.fan = r.p.fan
           /\ q.p.mode = r.p.mode /\ q.p.power = r.p.power
<1> DEFINE w == Write("cool", IF on THEN "on" ELSE "off", "-")
           s == IF on /\ r.p.mode = "fan" THEN FanOnlyStop(r) ELSE r
           p == [r.p EXCEPT !.jet = on]
           q == SetCoolPower(r, on)
<1>1. w \in Writes /\ w.field # "mode"
    BY DEF Write, Writes, Switch
<1>2. Runs(s) /\ s.p = r.p /\ s.sh = r.sh /\ s.out = r.out
    BY FanOnlyKeeps
<1>3. p \in PacRaw /\ Beside(p, r.p) /\ p.fan = r.p.fan /\ p.mode = r.p.mode /\ p.power = r.p.power
    BY RunsFacts DEF PacRaw, Beside
<1>4. q = Wrote(s, p, s.t, w)
    <2>1. q = [s EXCEPT !.p.jet = on, !.out = Append(@, w)]
        BY DEF SetCoolPower
    <2> HIDE DEF w, s
    <2> HIDE DEF p
    <2>2. q = [s EXCEPT !.p = p, !.out = Append(s.out, w)]
        BY <1>2, <2>1 DEF p
    <2> QED
        BY <1>2, <2>2, WroteFacts
<1> HIDE DEF w, s, p, q
<1>5. s.t \in SUBSET (Timers \cup {"fast"})
    BY <1>2, RunsFacts
<1>6. NoModeSent(s.out)
    BY <1>2
<1>7. Runs(q) /\ NoModeSent(q.out) /\ q.p = p /\ q.sh = r.sh
    BY <1>1, <1>2, <1>3, <1>4, <1>5, <1>6, WroteKeeps
<1>8. ModeSentOn(q)
    BY <1>7 DEF ModeSentOn, NoModeSent
<1> QED
    BY <1>3, <1>7, <1>8 DEF q

LEMMA CoolEndsKeeps ==
    ASSUME NEW r, Runs(r), NoModeSent(r.out)
    PROVE  LET q == CoolPowerEnds(r) IN
           /\ Runs(q) /\ NoModeSent(q.out)
           /\ q.sh = r.sh /\ Beside(q.p, r.p) /\ q.p.fan = r.p.fan
           /\ q.p.mode = r.p.mode /\ q.p.power = r.p.power
BY SetCoolKeeps DEF CoolPowerEnds, Beside

LEMMA WriteFanKeeps ==
    ASSUME NEW r, Runs(r), NoModeSent(r.out), NEW v \in FanValues
    PROVE  LET q == WriteFan(r, v) IN
           /\ Runs(q) /\ NoModeSent(q.out) /\ ModeSentOn(q)
           /\ q.sh = r.sh /\ Beside(q.p, r.p) /\ q.p.fan = v
           /\ q.out[Len(q.out)] = Write("fan", q.p.fan, q.p.mode)
<1> DEFINE w == Write("fan", v, r.p.mode)
           p == [r.p EXCEPT !.fan = v]
           q == WriteFan(r, v)
<1>1. r.p \in PacRaw
    BY RunsFacts
<1>2. w \in Writes /\ w.field # "mode"
    BY <1>1 DEF Write, Writes, PacRaw
<1>3. p \in PacRaw /\ Beside(p, r.p) /\ p.fan = v /\ p.mode = r.p.mode
    BY <1>1 DEF PacRaw, Beside
<1>4. q = Wrote(r, p, r.t, w)
    <2> HIDE DEF w
    <2>1. q = [r EXCEPT !.p.fan = v, !.out = Append(@, w)]
        BY DEF WriteFan, w
    <2> QED
        BY <2>1, WroteFacts DEF p
<1>5. r.t \in SUBSET (Timers \cup {"fast"})
    BY RunsFacts
<1>6. w = Write("fan", p.fan, p.mode)
    BY <1>3
<1> HIDE DEF w, p, q
<1>7. Runs(q) /\ NoModeSent(q.out) /\ q.p = p /\ q.sh = r.sh /\ q.out[Len(q.out)] = w
    BY <1>2, <1>3, <1>4, <1>5, WroteKeeps
<1>8. ModeSentOn(q)
    BY <1>7 DEF ModeSentOn, NoModeSent
<1> QED
    BY <1>3, <1>6, <1>7, <1>8 DEF q

LEMMA SetModeKeeps ==
    ASSUME PacAssumption, NEW r, Runs(r), NoModeSent(r.out), NEW m \in PacModes \cup {"off"}
    PROVE  LET q == SetMode(r, m) IN
           /\ Runs(q) /\ ModeSentOn(q)
           /\ q.sh = r.sh /\ Beside(q.p, r.p) /\ q.p.fan = r.p.fan
<1> DEFINE q == SetMode(r, m)
<1>1. CASE m = "off"
    <2>1. q = SetPower(r, "off")
        BY <1>1 DEF SetMode
    <2> QED
        BY <2>1, SetPowerKeeps DEF Switch
<1>2. CASE m # "off" /\ r.p.power = "off"
    <2> DEFINE s == [r EXCEPT !.p.mode = m]
    <2>1. q = SetPower(s, "on")
        BY <1>2 DEF SetMode
    <2>2. m \in PacModes
        BY <1>2
    <2>3. Runs(s) /\ s.out = r.out /\ s.sh = r.sh /\ Beside(s.p, r.p) /\ s.p.fan = r.p.fan
        BY <2>2 DEF Runs, PacResults, PacRaw, Beside
    <2> HIDE DEF s, q
    <2>4. LET z == SetPower(s, "on") IN
          /\ Runs(z) /\ ModeSentOn(z) /\ z.sh = s.sh /\ Beside(z.p, s.p) /\ z.p.fan = s.p.fan
        BY <2>3, SetPowerKeeps DEF Switch
    <2> QED
        BY <2>1, <2>3, <2>4 DEF Beside, q
<1>3. CASE m # "off" /\ r.p.power # "off"
    <2> DEFINE w == Write("mode", m, m)
               s == IF r.p.mode = "fan" /\ m # "fan" THEN FanOnlyStop(r) ELSE r
               p == [r.p EXCEPT !.mode = m]
    <2>1. q = [s EXCEPT !.p.mode = m, !.out = Append(@, w)]
        BY <1>3 DEF SetMode
    <2>2. m \in PacModes
        BY <1>3
    <2>3. w \in Writes
        BY <2>2 DEF Write, Writes
    <2>4. Runs(s) /\ s.p = r.p /\ s.sh = r.sh /\ s.out = r.out
        BY FanOnlyKeeps
    <2>5. p \in PacRaw /\ Beside(p, r.p) /\ p.fan = r.p.fan /\ p.power = "on"
        <3>1. r.p \in PacRaw
            BY RunsFacts
        <3>2. r.p.power = "on"
            BY <1>3, <3>1 DEF PacRaw, Switch
        <3> QED
            BY <2>2, <3>1, <3>2 DEF PacRaw, Beside
    <2> HIDE DEF w, s, q
    <2> HIDE DEF p
    <2>6. q = Wrote(s, p, s.t, w)
        <3>1. q = [s EXCEPT !.p = p, !.out = Append(s.out, w)]
            BY <2>1, <2>4 DEF p
        <3> QED
            BY <2>4, <3>1, WroteFacts
    <2>7. s.t \in SUBSET (Timers \cup {"fast"})
        BY <2>4, RunsFacts
    <2>8. NoModeSent(s.out)
        BY <2>4
    <2>9. Runs(q) /\ ModeSentOn(q) /\ q.p = p /\ q.sh = r.sh
        BY <2>3, <2>4, <2>5, <2>6, <2>7, <2>8, WroteKeeps
    <2> QED
        BY <2>5, <2>9 DEF q
<1> QED
    BY <1>1, <1>2, <1>3

\* What the step from a result to another one promises, and what it leaves.
Follows(r, q) ==
    /\ r.p.powerPrev = "on" /\ q.p.powerPrev = "off" => q.sh.watts = "zero"
    /\ q.sh.long # r.sh.long => q.sh.long = IF q.p.fan = "long" THEN "on" ELSE "off"
    /\ r.p.fan = "long" /\ q.p.fan # "long" /\ q.out # <<>>
       => q.out[Len(q.out)] = Write("fan", q.p.fan, q.p.mode)
    /\ r.p.fan = "long" /\ q.p.fan = "long" => q.p.before = r.p.before

\* A command changes nothing that is shown; the fan it writes is its last write.
Commands(r, q) ==
    /\ Runs(q) /\ ModeSentOn(q) /\ q.sh = r.sh /\ Beside(q.p, r.p)
    /\ q.p.fan # r.p.fan => q.out[Len(q.out)] = Write("fan", q.p.fan, q.p.mode)

LEMMA CommandsFollow ==
    ASSUME NEW r, Runs(r), NEW q, Commands(r, q)
    PROVE  Follows(r, q)
BY DEF Commands, Follows, Beside

LEMMA SetLongKeeps ==
    ASSUME PacAssumption, NEW r, Runs(r), r.out = <<>>, NEW on \in BOOLEAN
    PROVE  Commands(r, SetLongPower(r, on))
<1> DEFINE s == CoolPowerEnds(r)
           q == SetLongPower(r, on)
<1>1. NoModeSent(r.out) /\ ModeSentOn(r) /\ r.p \in PacRaw
    BY RunsFacts DEF NoModeSent, ModeSentOn
<1>2. /\ Runs(s) /\ NoModeSent(s.out) /\ s.sh = r.sh /\ Beside(s.p, r.p)
      /\ s.p.fan = r.p.fan /\ s.p.mode = r.p.mode
    BY <1>1, CoolEndsKeeps
<1>3. CASE ~on /\ r.p.fan = "long"
    <2>1. q = WriteFan(r, r.p.before)
        BY <1>3 DEF SetLongPower
    <2>2. r.p.before \in FanValues
        BY <1>1 DEF PacRaw, FanValues
    <2> QED
        BY <1>1, <2>1, <2>2, WriteFanKeeps DEF Commands
<1>4. CASE ~on /\ r.p.fan # "long"
    <2>1. q = r
        BY <1>4 DEF SetLongPower
    <2> QED
        BY <1>1, <2>1 DEF Commands, Beside
<1>5. CASE on /\ r.p.mode = "fan"
    <2> DEFINE m == SetMode(s, "cool")
    <2>1. q = [m EXCEPT !.t = @ \cup {"longPower"}]
        BY <1>5 DEF SetLongPower
    <2>2. "cool" \in PacModes \cup {"off"}
        BY DEF PacAssumption
    <2>3. Runs(m) /\ ModeSentOn(m) /\ m.sh = s.sh /\ Beside(m.p, s.p) /\ m.p.fan = s.p.fan
        BY <1>2, <2>2, SetModeKeeps
    <2> HIDE DEF s, m, q
    <2>4. Runs(q) /\ q.p = m.p /\ q.sh = m.sh /\ q.out = m.out
        BY <2>1, <2>3 DEF Runs, PacResults, Timers
    <2>5. Commands(r, q)
        BY <1>2, <2>3, <2>4 DEF Commands, ModeSentOn, Beside
    <2> QED
        BY <2>5 DEF q
<1>6. CASE on /\ r.p.mode # "fan"
    <2>1. q = WriteFan(s, "long") /\ "long" \in FanValues
        BY <1>6 DEF SetLongPower, FanValues
    <2> HIDE DEF s, q
    <2>2. /\ Runs(q) /\ ModeSentOn(q) /\ q.sh = s.sh /\ Beside(q.p, s.p)
          /\ q.out[Len(q.out)] = Write("fan", q.p.fan, q.p.mode)
        BY <1>2, <2>1, WriteFanKeeps
    <2>3. Commands(r, q)
        BY <1>2, <2>2 DEF Commands, Beside
    <2> QED
        BY <2>3 DEF q
<1> QED
    BY <1>3, <1>4, <1>5, <1>6

-----------------------------------------------------------------------------
(* The steps that are no frame.                                            *)

\* Of a step that becomes a result.
LEMMA PacBecomes ==
    ASSUME PacInv, Alive, NEW q \in PacResults, Become(q), Follows(State, q), ModeSentOn(q),
           "dropped" \in q.t => q.t = {"dropped"} /\ q.out = <<>>
    PROVE  PacInv' /\ PacFollowed
<1>1. pac' = q.p /\ pacShown' = q.sh /\ pacTimers' = q.t /\ pacSent' = q.out
    BY DEF Become
<1>2. PacTypeOK'
    BY <1>1 DEF PacTypeOK, PacResults, PacRaw, PacShows
<1>3. PacWrites'
    BY <1>1 DEF PacWrites, Alive, ModeSentOn
<1>4. PacFollowed
    <2>1. pac = State.p /\ pacShown = State.sh
        BY DEF State
    <2> QED
        BY <1>1, <2>1 DEF PacFollowed, Follows
<1> QED
    BY <1>2, <1>3, <1>4 DEF PacInv

LEMMA StateRuns ==
    ASSUME PacInv, Alive
    PROVE  Runs(State) /\ State.out = <<>> /\ NoModeSent(State.out) /\ ModeSentOn(State)
<1>1. <<>> \in Seq(Writes) /\ DOMAIN <<>> = {}
    OBVIOUS
<1>2. State.out = <<>> /\ State.t = pacTimers
    BY DEF State
<1>3. State \in PacResults
    BY <1>1 DEF PacInv, PacTypeOK, State, PacResults, PacRaw, PacShows
<1> QED
    BY <1>1, <1>2, <1>3 DEF Runs, Alive, NoModeSent, ModeSentOn

LEMMA PacRunsOn ==
    ASSUME PacInv, Alive, NEW q, Runs(q), Become(q), Follows(State, q), ModeSentOn(q)
    PROVE  PacInv' /\ PacFollowed
BY PacBecomes DEF Runs

LEMMA PacCommandKeeps ==
    ASSUME PacAssumption, PacInv, PacCommand
    PROVE  PacInv' /\ PacFollowed
<1>1. Alive
    BY DEF PacCommand
<1>2. /\ Runs(State) /\ State.out = <<>> /\ NoModeSent(State.out)
    BY <1>1, StateRuns
<1>3. ASSUME NEW q, Become(q), Commands(State, q)
      PROVE  PacInv' /\ PacFollowed
    BY <1>1, <1>2, <1>3, CommandsFollow, PacRunsOn DEF Commands
<1>4. ASSUME NEW on \in Switch, Become(SetPower(State, on))
      PROVE  Commands(State, SetPower(State, on))
    BY <1>2, SetPowerKeeps DEF Commands
<1>5. ASSUME NEW m \in PacModes \cup {"off"}
      PROVE  Commands(State, SetMode(State, m))
    BY <1>2, SetModeKeeps DEF Commands
<1>6. ASSUME NEW on \in BOOLEAN
      PROVE  Commands(State, SetCoolPower(State, on))
    BY <1>2, SetCoolKeeps DEF Commands
<1>7. ASSUME NEW on \in BOOLEAN
      PROVE  Commands(State, SetLongPower(State, on))
    BY <1>2, SetLongKeeps
<1>8. ASSUME NEW v \in PacLevels
      PROVE  Commands(State, WriteFan(CoolPowerEnds(State), v))
    <2> DEFINE s == CoolPowerEnds(State)
               q == WriteFan(s, v)
    <2>1. Runs(s) /\ NoModeSent(s.out) /\ s.sh = State.sh /\ Beside(s.p, State.p)
        BY <1>2, CoolEndsKeeps
    <2>2. v \in FanValues
        BY DEF FanValues
    <2> HIDE DEF s
    <2>3. /\ Runs(q) /\ ModeSentOn(q) /\ q.sh = s.sh /\ Beside(q.p, s.p)
          /\ q.out[Len(q.out)] = Write("fan", q.p.fan, q.p.mode)
        BY <2>1, <2>2, WriteFanKeeps
    <2> HIDE DEF q
    <2>4. Commands(State, q)
        BY <2>1, <2>3 DEF Commands, Beside
    <2> QED
        BY <2>4 DEF q, s
<1>9. \/ \E on \in Switch : Become(SetPower(State, on))
      \/ \E m \in PacModes \cup {"off"} : Become(SetMode(State, m))
      \/ \E on \in BOOLEAN : Become(SetCoolPower(State, on))
      \/ \E on \in BOOLEAN : Become(SetLongPower(State, on))
      \/ \E v \in PacLevels : Become(WriteFan(CoolPowerEnds(State), v))
    BY DEF PacCommand
<1> QED
    BY <1>3, <1>4, <1>5, <1>6, <1>7, <1>8, <1>9

LEMMA FanOnlyStopFiresKeeps ==
    ASSUME PacAssumption, PacInv, FanOnlyStopFires
    PROVE  PacInv' /\ PacFollowed
<1> DEFINE w == Write("clean", "off", "-")
           q == [State EXCEPT !.t = @ \ {"fanOnlyStop"}, !.out = Append(@, w)]
<1>1. Alive
    BY DEF FanOnlyStopFires, PacInv, PacWrites, Alive
<1>2. Runs(State) /\ NoModeSent(State.out) /\ State.p \in PacRaw
    BY <1>1, StateRuns, RunsFacts
<1>3. w \in Writes /\ w.field # "mode"
    BY DEF Write, Writes, Switch
<1> HIDE DEF w
<1>4. q = Wrote(State, pac, pacTimers \ {"fanOnlyStop"}, w)
    <2> DEFINE s == [State EXCEPT !.t = @ \ {"fanOnlyStop"}]
               o == Append(State.out, w)
    <2>1. /\ s = [p |-> pac, sh |-> State.sh, t |-> pacTimers \ {"fanOnlyStop"}, out |-> State.out]
          /\ s.out = State.out
        <3>1. State.p = pac /\ State.t = pacTimers
            BY DEF State
        <3>2. State = [p |-> State.p, sh |-> State.sh, t |-> State.t, out |-> State.out]
            BY <1>2, RunsFacts
        <3>3. s = [p |-> State.p, sh |-> State.sh, t |-> State.t \ {"fanOnlyStop"}, out |-> State.out]
            BY <3>2
        <3> HIDE DEF s
        <3> QED
            BY <3>1, <3>3
    <2>2. q = [s EXCEPT !.out = Append(s.out, w)]
        OBVIOUS
    <2> HIDE DEF s, q
    <2>3. q = [s EXCEPT !.out = o]
        BY <2>1, <2>2
    <2> HIDE DEF o
    <2>4. q = [p |-> pac, sh |-> State.sh, t |-> pacTimers \ {"fanOnlyStop"}, out |-> o]
        BY <2>1, <2>3
    <2> QED
        BY <2>4 DEF Wrote, o
<1>5. pacTimers \ {"fanOnlyStop"} \in SUBSET (Timers \cup {"fast"})
    BY <1>1 DEF PacInv, PacTypeOK, Alive
<1>6. pac = State.p
    BY DEF State
<1>7. Become(q)
    BY DEF FanOnlyStopFires, w
<1> HIDE DEF q
<1>8. Runs(q) /\ q.p = State.p /\ q.sh = State.sh /\ NoModeSent(q.out)
    BY <1>2, <1>3, <1>4, <1>5, <1>6, WroteKeeps
<1>9. Commands(State, q)
    BY <1>8 DEF Commands, ModeSentOn, NoModeSent, Beside
<1> QED
    BY <1>1, <1>2, <1>7, <1>9, CommandsFollow, PacRunsOn DEF Commands

LEMMA LongPowerFiresKeeps ==
    ASSUME PacAssumption, PacInv, LongPowerFires
    PROVE  PacInv' /\ PacFollowed
<1> DEFINE s == [State EXCEPT !.t = @ \ {"longPower"}]
           q == WriteFan(s, "long")
<1>1. Alive
    BY DEF LongPowerFires, PacInv, PacWrites, Alive
<1>2. Runs(State) /\ State.out = <<>> /\ NoModeSent(State.out)
    BY <1>1, StateRuns
<1>3. Runs(s) /\ s.p = State.p /\ s.sh = State.sh /\ s.out = <<>>
    BY <1>2 DEF Runs, PacResults
<1>4. Become(q)
    BY DEF LongPowerFires
<1> HIDE DEF s
<1>5. NoModeSent(s.out) /\ "long" \in FanValues
    BY <1>3 DEF NoModeSent, FanValues
<1>6. /\ Runs(q) /\ ModeSentOn(q) /\ q.sh = s.sh /\ Beside(q.p, s.p)
      /\ q.out[Len(q.out)] = Write("fan", q.p.fan, q.p.mode)
    BY <1>3, <1>5, WriteFanKeeps
<1> HIDE DEF q
<1>7. Commands(State, q)
    BY <1>3, <1>6 DEF Commands, Beside
<1> QED
    BY <1>1, <1>2, <1>4, <1>7, CommandsFollow, PacRunsOn DEF Commands

LEMMA TimersKeep ==
    ASSUME PacInv, PacSlowAgain \/ PacStops
    PROVE  PacInv' /\ PacFollowed
<1>1. Alive
    BY DEF PacSlowAgain, PacStops, PacInv, PacWrites, Alive
<1>2. Runs(State) /\ State.out = <<>> /\ ModeSentOn(State)
    BY <1>1, StateRuns
<1>3. ASSUME NEW t \in SUBSET (Timers \cup {"fast", "dropped"}), "dropped" \in t => t = {"dropped"},
             Become([State EXCEPT !.t = t])
      PROVE  PacInv' /\ PacFollowed
    <2> DEFINE q == [State EXCEPT !.t = t]
    <2>1. q \in PacResults /\ q.p = State.p /\ q.sh = State.sh /\ q.t = t /\ q.out = <<>>
        BY <1>2 DEF Runs, PacResults
    <2>2. Become(q)
        BY <1>3
    <2> HIDE DEF q
    <2>3. Follows(State, q) /\ ModeSentOn(q)
        BY <1>2, <2>1 DEF Follows, ModeSentOn
    <2> QED
        BY <1>1, <1>3, <2>1, <2>2, <2>3, PacBecomes
<1>4. CASE PacSlowAgain
    <2> DEFINE t == State.t \ {"slowAgain", "fast"}
    <2>1. t \in SUBSET (Timers \cup {"fast", "dropped"}) /\ "dropped" \notin t
        BY <1>2 DEF Runs, PacResults
    <2>2. Become([State EXCEPT !.t = t])
        BY <1>4 DEF PacSlowAgain
    <2> QED
        BY <1>3, <2>1, <2>2
<1>5. CASE PacStops
    BY <1>3, <1>5 DEF PacStops
<1> QED
    BY <1>4, <1>5

-----------------------------------------------------------------------------
(* Frames.                                                                 *)

LEMMA PacActionKeeps ==
    ASSUME NEW r, Runs(r)
    PROVE  LET q == PacAction(r) IN
           Runs(q) /\ q.p = r.p /\ q.sh = r.sh /\ q.out = r.out
<1> DEFINE t == IF r.p.power = "on" THEN (r.t \cup {"fast"}) \ {"slowAgain"}
                ELSE r.t \cup {"slowAgain"}
           q == PacAction(r)
<1>1. q = [r EXCEPT !.t = t]
    BY DEF PacAction
<1>2. t \in SUBSET (Timers \cup {"fast"}) /\ "dropped" \notin t
    BY RunsFacts DEF Timers
<1> HIDE DEF t, q
<1>3. Runs(q) /\ q.p = r.p /\ q.sh = r.sh /\ q.out = r.out
    BY <1>1, <1>2 DEF Runs, PacResults
<1> QED
    BY <1>3 DEF q

LEMMA PacReadModeKeeps ==
    ASSUME NEW r, Runs(r)
    PROVE  LET q == PacReadMode(r) IN
           /\ Runs(q) /\ q.out = r.out
           /\ q.p.power = r.p.power /\ q.p.powerPrev = r.p.powerPrev
           /\ q.p.fan = r.p.fan /\ q.p.before = r.p.before
           /\ q.sh.watts = r.sh.watts /\ q.sh.long = r.sh.long
<1> DEFINE shown == IF r.p.power = "off" THEN "off" ELSE r.p.mode
           moved == r.p.modePrev \notin {"unknown", shown}
           s == IF moved THEN PacAction(r) ELSE r
           u == [s EXCEPT !.p.modePrev = shown]
           q == PacReadMode(r)
<1>1. shown \in PacModes \cup {"off", "unknown"}
    BY RunsFacts DEF PacRaw
<1>2. Runs(s) /\ s.p = r.p /\ s.sh = r.sh /\ s.out = r.out
    BY PacActionKeeps
<1>3. q = [s EXCEPT !.p.modePrev = shown, !.sh.mode = shown]
    BY DEF PacReadMode
<1> HIDE DEF shown, s, q
<1>4. q = [u EXCEPT !.sh.mode = shown]
    BY <1>3
<1>5. /\ Runs(u) /\ u.sh = s.sh /\ u.out = s.out
      /\ u.p.power = s.p.power /\ u.p.powerPrev = s.p.powerPrev
      /\ u.p.fan = s.p.fan /\ u.p.before = s.p.before
    BY <1>1, <1>2 DEF Runs, PacResults, PacRaw
<1> HIDE DEF u
<1>6. /\ Runs(q) /\ q.p = u.p /\ q.out = u.out
      /\ q.sh.watts = u.sh.watts /\ q.sh.long = u.sh.long
    BY <1>1, <1>4, <1>5 DEF Runs, PacResults, PacShows
<1> QED
    BY <1>2, <1>5, <1>6 DEF q

LEMMA PacReadPowerKeeps ==
    ASSUME NEW r, Runs(r)
    PROVE  LET q == PacReadPower(r) IN
           /\ Runs(q) /\ q.out = r.out
           /\ q.p.power = r.p.power /\ q.p.powerPrev = q.p.power
           /\ q.p.power = "off" => q.sh.watts = "zero"
           /\ q.p.fan = r.p.fan /\ q.p.before = r.p.before /\ q.sh.long = r.sh.long
<1> DEFINE m == PacReadMode(r)
           w == IF r.p.power = "off" THEN [m EXCEPT !.sh.watts = "zero"] ELSE m
           moved == r.p.powerPrev \notin {"unknown", r.p.power}
           s == IF moved THEN PacAction(w) ELSE w
           q == PacReadPower(r)
<1>1. /\ Runs(m) /\ m.out = r.out /\ m.p.power = r.p.power
      /\ m.p.fan = r.p.fan /\ m.p.before = r.p.before /\ m.sh.long = r.sh.long
    BY PacReadModeKeeps
<1> HIDE DEF m
<1>2. /\ Runs(w) /\ w.out = m.out /\ w.p = m.p /\ w.sh.long = m.sh.long
      /\ r.p.power = "off" => w.sh.watts = "zero"
    <2> DEFINE z == [m EXCEPT !.sh.watts = "zero"]
    <2>1. Runs(z) /\ z.out = m.out /\ z.p = m.p /\ z.sh.long = m.sh.long /\ z.sh.watts = "zero"
        BY <1>1 DEF Runs, PacResults, PacShows
    <2>2. w = IF r.p.power = "off" THEN z ELSE m
        OBVIOUS
    <2> HIDE DEF z, w
    <2> QED
        BY <1>1, <2>1, <2>2
<1> HIDE DEF w
<1>3. Runs(s) /\ s.p = w.p /\ s.sh = w.sh /\ s.out = w.out
    BY <1>2, PacActionKeeps
<1>4. q = [s EXCEPT !.p.powerPrev = r.p.power]
    BY DEF PacReadPower, m, w
<1> HIDE DEF s, q
<1>5. r.p.power \in Switch
    BY RunsFacts DEF PacRaw
<1>6. /\ Runs(q) /\ q.sh = s.sh /\ q.out = s.out /\ q.p.powerPrev = r.p.power
      /\ q.p.power = s.p.power /\ q.p.fan = s.p.fan /\ q.p.before = s.p.before
    BY <1>3, <1>4, <1>5 DEF Runs, PacResults, PacRaw
<1> QED
    BY <1>1, <1>2, <1>3, <1>6 DEF q

\* What an entry does, by its key.
LEMMA PacReadKeeps ==
    ASSUME NEW r, Runs(r), NEW kv \in PacEntries
    PROVE  LET q == PacRead(r, kv) IN
           /\ Runs(q) /\ q.out = r.out
           /\ \/ q.p.powerPrev = q.p.power /\ (q.p.power = "off" => q.sh.watts = "zero")
              \/ /\ q.p.powerPrev = r.p.powerPrev /\ q.p.power = r.p.power
                 /\ q.sh.watts = r.sh.watts \/ (q.p.power = "off" => q.sh.watts = "zero")
           /\ IF kv[1] = "fan"
              THEN /\ q.sh.long = IF q.p.fan = "long" THEN "on" ELSE "off"
                   /\ q.p.fan = "long" => q.p.before = r.p.before
              ELSE q.p.fan = r.p.fan /\ q.p.before = r.p.before /\ q.sh.long = r.sh.long
<1> DEFINE q == PacRead(r, kv)
<1>1. CASE kv[1] = "power"
    <2> DEFINE s == [r EXCEPT !.p.power = kv[2]]
    <2>1. q = PacReadPower(s)
        BY <1>1 DEF PacRead
    <2>2. kv[2] \in Switch
        BY <1>1 DEF PacEntries
    <2>3. /\ Runs(s) /\ s.out = r.out /\ s.p.fan = r.p.fan /\ s.p.before = r.p.before
          /\ s.sh.long = r.sh.long
        BY <2>2 DEF Runs, PacResults, PacRaw
    <2> HIDE DEF s, q
    <2>4. /\ Runs(q) /\ q.out = s.out /\ q.p.powerPrev = q.p.power
          /\ q.p.power = "off" => q.sh.watts = "zero"
          /\ q.p.fan = s.p.fan /\ q.p.before = s.p.before /\ q.sh.long = s.sh.long
        BY <2>1, <2>3, PacReadPowerKeeps
    <2> QED
        BY <1>1, <2>3, <2>4 DEF q
<1>2. CASE kv[1] = "mode"
    <2> DEFINE s == [r EXCEPT !.p.mode = kv[2]]
    <2>1. q = PacReadMode(s)
        BY <1>2 DEF PacRead
    <2>2. kv[2] \in PacModes
        BY <1>2 DEF PacEntries
    <2>3. /\ Runs(s) /\ s.out = r.out /\ s.p.fan = r.p.fan /\ s.p.before = r.p.before
          /\ s.p.power = r.p.power /\ s.p.powerPrev = r.p.powerPrev /\ s.sh = r.sh
        BY <2>2 DEF Runs, PacResults, PacRaw
    <2> HIDE DEF s, q
    <2>4. /\ Runs(q) /\ q.out = s.out
          /\ q.p.power = s.p.power /\ q.p.powerPrev = s.p.powerPrev
          /\ q.p.fan = s.p.fan /\ q.p.before = s.p.before
          /\ q.sh.watts = s.sh.watts /\ q.sh.long = s.sh.long
        BY <2>1, <2>3, PacReadModeKeeps
    <2> QED
        BY <1>2, <2>3, <2>4 DEF q
<1>3. CASE kv[1] = "fan"
    <2> DEFINE s == [r EXCEPT !.p.fan = kv[2]]
    <2>1. q = PacReadFan(s)
        BY <1>3 DEF PacRead
    <2>2. kv[2] \in FanValues
        BY <1>3 DEF PacEntries
    <2>3. /\ Runs(s) /\ s.out = r.out /\ s.p.fan = kv[2] /\ s.p.before = r.p.before
          /\ s.p.power = r.p.power /\ s.p.powerPrev = r.p.powerPrev /\ s.sh = r.sh
        BY <2>2 DEF Runs, PacResults, PacRaw
    <2> HIDE DEF s, q
    <2>4. CASE kv[2] = "long"
        <3> DEFINE u == [s EXCEPT !.sh.long = "on"]
        <3>1. q = [u EXCEPT !.sh.fan = s.p.before]
            BY <2>1, <2>3, <2>4 DEF PacReadFan
        <3>2. /\ Runs(u) /\ u.out = s.out /\ u.p = s.p /\ u.sh.long = "on"
              /\ u.sh.watts = s.sh.watts
            BY <2>3 DEF Runs, PacResults, PacShows, Switch
        <3>3. s.p.before \in PacLevels
            BY <2>3, RunsFacts DEF PacRaw
        <3> HIDE DEF u
        <3>4. /\ Runs(q) /\ q.out = u.out /\ q.p = u.p /\ q.sh.long = "on"
              /\ q.sh.watts = u.sh.watts
            BY <3>1, <3>2, <3>3 DEF Runs, PacResults, PacShows
        <3> QED
            BY <1>3, <2>3, <2>4, <3>2, <3>4 DEF q
    <2>5. CASE kv[2] # "long"
        <3> DEFINE u == [s EXCEPT !.p.before = s.p.fan]
                   v == [u EXCEPT !.sh.long = "off"]
        <3>1. q = [v EXCEPT !.sh.fan = s.p.fan]
            BY <2>1, <2>3, <2>5 DEF PacReadFan
        <3>2. s.p.fan \in PacLevels
            BY <2>2, <2>3, <2>5 DEF FanValues
        <3>3. /\ Runs(u) /\ u.out = s.out /\ u.sh = s.sh /\ u.p.fan = s.p.fan
              /\ u.p.power = s.p.power /\ u.p.powerPrev = s.p.powerPrev
            BY <2>3, <3>2 DEF Runs, PacResults, PacRaw
        <3> HIDE DEF u
        <3>4. /\ Runs(v) /\ v.out = u.out /\ v.p = u.p /\ v.sh.long = "off"
              /\ v.sh.watts = u.sh.watts
            BY <3>3 DEF Runs, PacResults, PacShows, Switch
        <3> HIDE DEF v
        <3>5. /\ Runs(q) /\ q.out = v.out /\ q.p = v.p /\ q.sh.long = "off"
              /\ q.sh.watts = v.sh.watts
            BY <3>1, <3>2, <3>4 DEF Runs, PacResults, PacShows
        <3> QED
            BY <1>3, <2>3, <2>5, <3>3, <3>4, <3>5 DEF q
    <2> QED
        BY <2>4, <2>5
<1>4. CASE kv[1] = "cool"
    <2> DEFINE x == (kv[2] = "on")
    <2>1. q = [r EXCEPT !.p.jet = x] /\ x \in BOOLEAN
        BY <1>4 DEF PacRead
    <2> HIDE DEF q, x
    <2>2. /\ Runs(q) /\ q.out = r.out /\ q.p.fan = r.p.fan /\ q.p.before = r.p.before
          /\ q.p.power = r.p.power /\ q.p.powerPrev = r.p.powerPrev /\ q.sh = r.sh
        BY <2>1 DEF Runs, PacResults, PacRaw
    <2> QED
        BY <1>4, <2>2 DEF q
<1>5. CASE kv[1] = "watts"
    <2> DEFINE x == IF r.p.power = "off" THEN "zero" ELSE "some"
    <2>1. q = [r EXCEPT !.sh.watts = x] /\ x \in {"zero", "some"}
        BY <1>5 DEF PacRead
    <2>2. r.p.power = "off" => x = "zero"
        OBVIOUS
    <2> HIDE DEF q, x
    <2>3. /\ Runs(q) /\ q.out = r.out /\ q.p = r.p /\ q.sh.watts = x /\ q.sh.long = r.sh.long
        BY <2>1 DEF Runs, PacResults, PacShows
    <2> QED
        BY <1>5, <2>2, <2>3 DEF q
<1>6. kv[1] \in {"power", "cool", "mode", "fan", "watts"}
    BY DEF PacEntries
<1> QED
    BY <1>1, <1>2, <1>3, <1>4, <1>5, <1>6

\* A frame of n entries after k of them: the fan has moved only in a frame of one.
PacDone(v, k, n) ==
    /\ Runs(v) /\ v.out = <<>>
    /\ \/ v.p.powerPrev = State.p.powerPrev
       \/ v.p.powerPrev = v.p.power /\ (v.p.power = "off" => v.sh.watts = "zero")
    /\ \/ v.sh.long = State.sh.long
       \/ v.sh.long = IF v.p.fan = "long" THEN "on" ELSE "off"
    /\ State.p.fan = "long" /\ v.p.fan = "long" => v.p.before = State.p.before
    /\ k = 0 \/ n # 1 => v.p.fan = State.p.fan /\ v.p.before = State.p.before

LEMMA PacEntryDone ==
    ASSUME NEW n \in Nat, NEW f \in [1..n -> PacEntries],
           \A i, j \in 1..n : i # j => f[i][1] # f[j][1] /\ f[i][1] \notin {"fan", "cool"},
           NEW k \in Nat, k + 1 <= n, NEW u, PacDone(u, k, n)
    PROVE  PacDone(PacRead(u, f[k + 1]), k + 1, n)
<1> DEFINE kv == f[k + 1]
           q == PacRead(u, kv)
<1>1. k + 1 \in 1..n
    OBVIOUS
<1>2. kv \in PacEntries
    BY <1>1
<1>3. kv[1] = "fan" => n = 1 /\ k = 0
    <2> SUFFICES ASSUME kv[1] = "fan", n # 1
                 PROVE  FALSE
        OBVIOUS
    <2>1. \E j \in 1..n : j # k + 1
        BY <1>1
    <2> QED
        BY <1>1, <2>1
<1> HIDE DEF kv, q
<1>4. /\ Runs(q) /\ q.out = u.out
      /\ \/ q.p.powerPrev = q.p.power /\ (q.p.power = "off" => q.sh.watts = "zero")
         \/ /\ q.p.powerPrev = u.p.powerPrev /\ q.p.power = u.p.power
            /\ q.sh.watts = u.sh.watts \/ (q.p.power = "off" => q.sh.watts = "zero")
      /\ IF kv[1] = "fan"
         THEN /\ q.sh.long = IF q.p.fan = "long" THEN "on" ELSE "off"
              /\ q.p.fan = "long" => q.p.before = u.p.before
         ELSE q.p.fan = u.p.fan /\ q.p.before = u.p.before /\ q.sh.long = u.sh.long
    BY <1>2, PacReadKeeps DEF PacDone, q
<1>5. Runs(q) /\ q.out = <<>>
    BY <1>4 DEF PacDone
<1>6. \/ q.p.powerPrev = State.p.powerPrev
      \/ q.p.powerPrev = q.p.power /\ (q.p.power = "off" => q.sh.watts = "zero")
    BY <1>4 DEF PacDone
<1>7. \/ q.sh.long = State.sh.long
      \/ q.sh.long = IF q.p.fan = "long" THEN "on" ELSE "off"
    BY <1>4 DEF PacDone
<1>8. State.p.fan = "long" /\ q.p.fan = "long" => q.p.before = State.p.before
    BY <1>3, <1>4 DEF PacDone
<1>9. k + 1 = 0 \/ n # 1 => q.p.fan = State.p.fan /\ q.p.before = State.p.before
    BY <1>3, <1>4 DEF PacDone
<1>10. PacDone(q, k + 1, n)
    BY <1>5, <1>6, <1>7, <1>8, <1>9 DEF PacDone
<1> QED
    BY <1>10 DEF q, kv

LEMMA PacReportKeeps ==
    ASSUME PacInv, NEW f \in PacFrames, PacReport(f)
    PROVE  PacInv' /\ PacFollowed
<1>1. Alive
    BY DEF PacReport
<1>2. PICK n \in Nat : /\ f \in [1..n -> PacEntries]
                       /\ \A i, j \in 1..n : i # j => f[i][1] # f[j][1] /\ f[i][1] \notin {"fan", "cool"}
    <2>1. PICK n \in 1..PacFrame : f \in [1..n -> PacEntries]
        BY DEF PacFrames
    <2>2. \A i, j \in DOMAIN f : i # j => f[i][1] # f[j][1] /\ f[i][1] \notin {"fan", "cool"}
        BY DEF PacFrames
    <2> QED
        BY <2>1, <2>2
<1>3. Len(f) = n
    BY <1>2, LenProperties
<1> DEFINE after[i \in 0..Len(f)] == IF i = 0 THEN State ELSE PacRead(after[i - 1], f[i])
           W == {v \in PacResults : Runs(v)}
           F == [x \in (1..n) \X W |-> PacRead(x[2], f[x[1]])]
           S == {k \in Nat : k <= n => PacDone(after[k], k, n)}
<1>4. Become(after[n])
    BY <1>3 DEF PacReport
<1>5. after = [i \in 0..n |-> IF i = 0 THEN State ELSE PacRead(after[i - 1], f[i])]
    <2>1. F \in [(1..n) \X W -> W]
        <3>1. ASSUME NEW k \in 1..n, NEW v \in W
              PROVE  PacRead(v, f[k]) \in W
            <4>1. Runs(v) /\ f[k] \in PacEntries
                BY <1>2
            <4>2. Runs(PacRead(v, f[k]))
                BY <4>1, PacReadKeeps
            <4> QED
                BY <4>2 DEF Runs
        <3> QED
            BY <3>1
    <2>2. State \in W
        BY <1>1, StateRuns DEF Runs
    <2>3. PICK g \in [0..n -> W] : \A k \in 0..n : g[k] = IF k = 0 THEN State ELSE F[<<k, g[k - 1]>>]
        <3> HIDE DEF F, W
        <3>1. PICK g : g \in Courses(W, State, n, F)
            BY <2>1, <2>2, LoopExists
        <3> QED
            BY <3>1 DEF Courses
    <2>4. \A k \in 0..n : g[k] = IF k = 0 THEN State ELSE PacRead(g[k - 1], f[k])
        <3> TAKE k \in 0..n
        <3>1. CASE k # 0
            <4>1. k \in 1..n /\ k - 1 \in 0..n
                BY <3>1
            <4>2. F[<<k, g[k - 1]>>] = PacRead(g[k - 1], f[k])
                BY <2>3, <4>1
            <4> QED
                BY <2>3, <3>1, <4>2
        <3> QED
            BY <2>3, <3>1
    <2>5. g = [k \in 0..n |-> IF k = 0 THEN State ELSE PacRead(g[k - 1], f[k])]
        BY <2>3, <2>4
    <2>6. \E h : h = [k \in 0..n |-> IF k = 0 THEN State ELSE PacRead(h[k - 1], f[k])]
        BY <2>5
    <2> QED
        BY <1>3, <2>6, Zenon DEF after
<1> HIDE DEF after
<1>6. /\ after[0] = State
      /\ \A k \in 1..n : after[k] = PacRead(after[k - 1], f[k])
    <2>1. 0 \in 0..n /\ \A k \in 1..n : k \in 0..n /\ k # 0
        OBVIOUS
    <2> QED
        BY <1>5, <2>1
<1>7. 0 \in S
    BY <1>1, <1>6, StateRuns DEF PacDone
<1>8. \A k \in Nat : k \in S => k + 1 \in S
    <2> SUFFICES ASSUME NEW k \in Nat, k + 1 <= n, PacDone(after[k], k, n)
                 PROVE  PacDone(after[k + 1], k + 1, n)
        OBVIOUS
    <2>1. k + 1 \in 1..n /\ (k + 1) - 1 = k
        OBVIOUS
    <2>2. after[k + 1] = PacRead(after[k], f[k + 1])
        BY <1>6, <2>1
    <2>3. PacDone(PacRead(after[k], f[k + 1]), k + 1, n)
        BY <1>2, PacEntryDone
    <2> QED
        BY <2>2, <2>3
<1>9. PacDone(after[n], n, n)
    <2> HIDE DEF S
    <2>1. Nat \subseteq S
        BY <1>7, <1>8, EveryNumber
    <2> QED
        BY <2>1 DEF S
<1> DEFINE q == after[n]
<1> HIDE DEF q
<1>10. Runs(q) /\ Follows(State, q) /\ ModeSentOn(q)
    <2>1. PacDone(q, n, n)
        BY <1>9 DEF q
    <2>2. ModeSentOn(q)
        BY <2>1 DEF PacDone, ModeSentOn
    <2>3. Follows(State, q)
        BY <2>1 DEF PacDone, Follows
    <2> QED
        BY <2>1, <2>2, <2>3 DEF PacDone
<1>11. Become(q)
    BY <1>4 DEF q
<1> QED
    BY <1>1, <1>10, <1>11, PacRunsOn

-----------------------------------------------------------------------------
LEMMA PacStarts ==
    ASSUME PacAssumption, PacInit
    PROVE  PacInv
<1>1. pacSent = <<>> /\ DOMAIN <<>> = {} /\ <<>> \in Seq(Writes)
    BY DEF PacInit
<1>2. PacTypeOK
    BY <1>1 DEF PacInit, PacTypeOK, Switch
<1>3. PacWrites
    BY <1>1 DEF PacInit, PacWrites, Alive
<1> QED
    BY <1>2, <1>3 DEF PacInv

LEMMA PacKeeps ==
    ASSUME PacAssumption, PacInv, [PacNext]_pacVars
    PROVE  PacInv' /\ [PacFollowed]_pacVars
<1>1. CASE PacCommand
    BY <1>1, PacCommandKeeps
<1>2. CASE FanOnlyStopFires
    BY <1>2, FanOnlyStopFiresKeeps
<1>3. CASE LongPowerFires
    BY <1>3, LongPowerFiresKeeps
<1>4. CASE PacSlowAgain \/ PacStops
    BY <1>4, TimersKeep
<1>5. ASSUME NEW f \in PacFrames, PacReport(f)
      PROVE  PacInv' /\ PacFollowed
    BY <1>5, PacReportKeeps
<1>6. CASE UNCHANGED pacVars
    <2>1. UNCHANGED <<pac, pacShown, pacTimers, pacSent>>
        BY <1>6 DEF pacVars
    <2>2. PacTypeOK'
        BY <2>1 DEF PacInv, PacTypeOK
    <2>3. PacWrites'
        BY <2>1 DEF PacInv, PacWrites, Alive
    <2> QED
        BY <1>6, <2>2, <2>3 DEF PacInv
<1> QED
    BY <1>1, <1>2, <1>3, <1>4, <1>5, <1>6 DEF PacNext

\* The floor standing air conditioner writes what it may, and stays well formed.
THEOREM PacInvariantHolds ==
    ASSUME PacAssumption
    PROVE  PacSpec => []PacInv
<1>1. PacInit => PacInv
    BY PacStarts
<1>2. PacInv /\ [PacNext]_pacVars => PacInv'
    BY PacKeeps
<1> QED
    BY <1>1, <1>2, PTL DEF PacSpec

\* What is shown follows the appliance through the overlapping fields.
THEOREM PacIsFollowed ==
    ASSUME PacAssumption
    PROVE  PacSpec => PacFollows
<1>1. PacInv /\ [PacNext]_pacVars => [PacFollowed]_pacVars
    BY PacKeeps
<1> QED
    BY <1>1, PacInvariantHolds, PTL DEF PacSpec, PacFollows

-----------------------------------------------------------------------------
(* The wall air conditioner.  A result holds the climate record, the        *)
(* settings written and the polling.                                        *)

RacResults ==
    [c: ClimateRecords, out: Seq(Settings), p: [fast: BOOLEAN, reset: BOOLEAN, rests: BOOLEAN]]

HowOften(out, s) == Cardinality({i \in DOMAIN out : out[i] = s})

RacInv ==
    /\ RacTypeOK /\ StartsOnce
    /\ stage \in {"asking", "unmasking", "probing"} => filter.made = 0 /\ written = <<>>

LEMMA HowOftenFacts ==
    ASSUME NEW out \in Seq(Settings), NEW s \in Settings, NEW t
    PROVE  /\ HowOften(out, t) \in Nat /\ HowOften(<<>>, t) = 0
           /\ Append(out, s) \in Seq(Settings) /\ Append(out, s) # <<>>
           /\ HowOften(Append(out, s), t) = HowOften(out, t) + IF s = t THEN 1 ELSE 0
<1> DEFINE A == Append(out, s)
           n == Len(out)
           I == {i \in 1..n : out[i] = t}
           J == {i \in 1..n + 1 : A[i] = t}
<1>1. /\ n \in Nat /\ DOMAIN out = 1..n /\ A \in Seq(Settings) /\ Len(A) = n + 1
      /\ DOMAIN A = 1..n + 1 /\ A[n + 1] = s /\ \A i \in 1..n : A[i] = out[i]
    BY AppendProperties, LenProperties
<1>2. HowOften(out, t) = Cardinality(I) /\ HowOften(A, t) = Cardinality(J)
    BY <1>1 DEF HowOften
<1>3. HowOften(<<>>, t) = 0
    <2>1. {i \in DOMAIN <<>> : <<>>[i] = t} = {}
        OBVIOUS
    <2> QED
        BY <2>1, FS_EmptySet DEF HowOften
<1> HIDE DEF A, n
<1>4. IsFiniteSet(I) /\ Cardinality(I) \in Nat
    <2>1. IsFiniteSet(1..n)
        BY <1>1, FS_Interval
    <2>2. IsFiniteSet(I)
        BY <2>1, FS_Subset
    <2> QED
        BY <2>2, FS_CardinalityType
<1>5. J = IF s = t THEN I \cup {n + 1} ELSE I
    BY <1>1
<1>6. n + 1 \notin I
    BY <1>1
<1> HIDE DEF I, J
<1>7. Cardinality(J) = Cardinality(I) + IF s = t THEN 1 ELSE 0
    <2>1. Cardinality(I \cup {n + 1}) = Cardinality(I) + 1
        BY <1>4, <1>6, FS_AddElement
    <2>2. CASE s = t
        BY <1>5, <2>1, <2>2
    <2>3. CASE s # t
        BY <1>4, <1>5, <2>3
    <2> QED
        BY <2>2, <2>3
<1>8. A # <<>>
    BY <1>1
<1> QED
    BY <1>1, <1>2, <1>3, <1>4, <1>7, <1>8 DEF A

-----------------------------------------------------------------------------
(* The hooks.                                                              *)

\* A setting that is written as it is remembered.
LEMMA SetAgainFacts ==
    ASSUME NEW r \in RacResults, NEW s \in Settings, NEW q,
           \/ s \in r.c.kept /\ q = SetSetting(r, s, TRUE)
           \/ s \notin r.c.kept /\ q = SetSetting(r, s, FALSE)
    PROVE  /\ q \in RacResults /\ q.c = r.c /\ q.p = r.p
           /\ q.out = IF r.c.power = "on" /\ Applies(r.c, s) THEN Append(r.out, s) ELSE r.out
<1> DEFINE k == r.c.kept
           o == IF r.c.power = "on" /\ Applies(r.c, s) THEN Append(r.out, s) ELSE r.out
           u == [r EXCEPT !.c.kept = k]
<1>1. r.c \in ClimateRecords /\ r.out \in Seq(Settings)
    BY DEF RacResults
<1>2. q = [r EXCEPT !.c.kept = k, !.out = o]
    <2>1. CASE s \in k /\ q = SetSetting(r, s, TRUE)
        <3>1. k \cup {s} = k
            BY <2>1
        <3>2. q = [r EXCEPT !.c.kept = k \cup {s}, !.out = o]
            BY <2>1 DEF SetSetting
        <3> QED
            BY <3>1, <3>2
    <2>2. CASE s \notin k /\ q = SetSetting(r, s, FALSE)
        <3>1. k \ {s} = k
            BY <2>2
        <3>2. q = [r EXCEPT !.c.kept = k \ {s}, !.out = o]
            BY <2>2 DEF SetSetting
        <3> QED
            BY <3>1, <3>2
    <2> QED
        BY <2>1, <2>2
<1>3. o \in Seq(Settings)
    BY <1>1, HowOftenFacts
<1>4. k = r.c.kept
    OBVIOUS
<1> HIDE DEF o, k
<1>5. q = [u EXCEPT !.out = o]
    BY <1>2
<1>6. u = r
    <2>1. r = [c |-> r.c, out |-> r.out, p |-> r.p]
        BY DEF RacResults
    <2>2. [r.c EXCEPT !.kept = k] = r.c
        BY <1>1, <1>4 DEF ClimateRecords
    <2>3. u = [r EXCEPT !.c = [r.c EXCEPT !.kept = k]]
        OBVIOUS
    <2> HIDE DEF u
    <2>4. u = [r EXCEPT !.c = r.c]
        BY <2>2, <2>3
    <2> QED
        BY <2>1, <2>4
<1> HIDE DEF u
<1>7. q \in RacResults /\ q.c = r.c /\ q.p = r.p /\ q.out = o
    BY <1>3, <1>5, <1>6 DEF RacResults
<1> QED
    BY <1>7 DEF o

LEMMA WithPowerFacts ==
    ASSUME NEW r \in RacResults, NEW s \in Settings
    PROVE  LET q == WithPower(r, s) IN
           /\ q \in RacResults /\ q.c = r.c /\ q.p = r.p
           /\ q.out = IF r.c.power = "on" /\ s \in r.c.kept /\ Applies(r.c, s)
                      THEN Append(r.out, s) ELSE r.out
<1>1. r.c.power \in OffOn
    BY DEF RacResults, ClimateRecords
<1>2. CASE r.c.power = "off" \/ s \notin r.c.kept
    BY <1>2 DEF WithPower
<1>3. CASE r.c.power = "on" /\ s \in r.c.kept
    <2>1. WithPower(r, s) = SetSetting(r, s, TRUE)
        BY <1>3 DEF WithPower
    <2> QED
        <3> DEFINE q == WithPower(r, s)
        <3> HIDE DEF q
        <3>1. q = SetSetting(r, s, TRUE) /\ s \in r.c.kept
            BY <1>3, <2>1 DEF q
        <3>2. /\ q \in RacResults /\ q.c = r.c /\ q.p = r.p
              /\ q.out = IF r.c.power = "on" /\ Applies(r.c, s) THEN Append(r.out, s) ELSE r.out
            BY <3>1, SetAgainFacts
        <3> QED
            BY <1>3, <3>2 DEF q
<1> QED
    BY <1>1, <1>2, <1>3 DEF OffOn

LEMMA WithModeFacts ==
    ASSUME NEW r \in RacResults, NEW s \in Settings
    PROVE  LET q == WithMode(r, s) IN
           /\ q \in RacResults /\ q.c = r.c /\ q.p = r.p
           /\ q.out = IF r.c.power = "on" /\ Applies(r.c, s) THEN Append(r.out, s) ELSE r.out
<1> DEFINE q == WithMode(r, s)
<1>1. CASE s \in r.c.kept
    <2>1. q = SetSetting(r, s, TRUE)
        BY <1>1 DEF WithMode, SetSetting
    <2> HIDE DEF q
    <2>2. /\ q \in RacResults /\ q.c = r.c /\ q.p = r.p
          /\ q.out = IF r.c.power = "on" /\ Applies(r.c, s) THEN Append(r.out, s) ELSE r.out
        BY <1>1, <2>1, SetAgainFacts
    <2> QED
        BY <2>2 DEF q
<1>2. CASE s \notin r.c.kept
    <2>1. q = SetSetting(r, s, FALSE)
        BY <1>2 DEF WithMode, SetSetting
    <2> HIDE DEF q
    <2>2. /\ q \in RacResults /\ q.c = r.c /\ q.p = r.p
          /\ q.out = IF r.c.power = "on" /\ Applies(r.c, s) THEN Append(r.out, s) ELSE r.out
        BY <1>2, <2>1, SetAgainFacts
    <2> QED
        BY <2>2 DEF q
<1> QED
    BY <1>1, <1>2

LEMMA ClimateActionFacts ==
    ASSUME NEW r \in RacResults
    PROVE  LET q == ClimateAction(r) IN
           /\ q \in RacResults /\ q.c = r.c /\ q.out = r.out
           /\ r.c.power = "off" => q.p.reset
<1> DEFINE active == r.c.power = "on" /\ r.c.mode # "fan" /\ ~r.p.rests
           z == QueryInterval(r.p, active)
           q == ClimateAction(r)
<1>1. q = [r EXCEPT !.p = z]
    BY DEF ClimateAction
<1>2. r.c.power = "off" => ~active
    OBVIOUS
<1> HIDE DEF active
<1>3. z \in [fast: BOOLEAN, reset: BOOLEAN, rests: BOOLEAN] /\ (~active => z.reset)
    BY DEF QueryInterval, RacResults
<1> HIDE DEF z, q
<1>4. q \in RacResults /\ q.c = r.c /\ q.out = r.out /\ q.p = z
    BY <1>1, <1>3 DEF RacResults
<1> QED
    BY <1>2, <1>3, <1>4 DEF q

\* With the power each remembered setting that applies is written once.
LEMMA PowerHooksFacts ==
    ASSUME NEW r \in RacResults
    PROVE  LET q == PowerHooks(r) IN
           /\ q \in RacResults /\ q.c = r.c
           /\ r.c.power = "off" => q.out = r.out /\ q.p.reset
           /\ r.c.power = "on" =>
                 \A s \in Settings :
                    HowOften(q.out, s) = HowOften(r.out, s)
                                         + IF s \in r.c.kept /\ Applies(r.c, s) THEN 1 ELSE 0
<1> DEFINE a == WithPower(r, "air")
           b == WithPower(a, "jet")
           d == WithPower(b, "save")
           q == PowerHooks(r)
           On(s) == r.c.power = "on" /\ s \in r.c.kept /\ Applies(r.c, s)
<1>1. {"air", "jet", "save"} = Settings
    BY DEF Settings
<1>2. /\ a \in RacResults /\ a.c = r.c
      /\ a.out = IF On("air") THEN Append(r.out, "air") ELSE r.out
    BY <1>1, WithPowerFacts
<1> HIDE DEF a
<1>3. /\ b \in RacResults /\ b.c = r.c
      /\ b.out = IF On("jet") THEN Append(a.out, "jet") ELSE a.out
    BY <1>1, <1>2, WithPowerFacts
<1> HIDE DEF b
<1>4. /\ d \in RacResults /\ d.c = r.c
      /\ d.out = IF On("save") THEN Append(b.out, "save") ELSE b.out
    BY <1>1, <1>3, WithPowerFacts
<1> HIDE DEF d
<1>5. q \in RacResults /\ q.c = r.c /\ q.out = d.out /\ (r.c.power = "off" => q.p.reset)
    <2>1. q = ClimateAction(d)
        BY DEF PowerHooks, a, b, d
    <2> QED
        BY <1>4, <2>1, ClimateActionFacts
<1>6. r.c.power = "off" => d.out = r.out
    BY <1>2, <1>3, <1>4
<1>7. ASSUME NEW s \in Settings
      PROVE  HowOften(d.out, s) = HowOften(r.out, s) + IF On(s) THEN 1 ELSE 0
    <2> HIDE DEF On
    <2>1. r.out \in Seq(Settings) /\ a.out \in Seq(Settings) /\ b.out \in Seq(Settings)
        BY <1>2, <1>3 DEF RacResults
    <2>2. HowOften(r.out, s) \in Nat
        BY <2>1, HowOftenFacts
    <2>3. HowOften(a.out, s) = HowOften(r.out, s) + IF On("air") /\ "air" = s THEN 1 ELSE 0
        <3>1. CASE On("air")
            BY <1>1, <1>2, <2>1, <2>2, <3>1, HowOftenFacts
        <3>2. CASE ~On("air")
            BY <1>1, <1>2, <2>1, <2>2, <3>2, HowOftenFacts
        <3> QED
            BY <3>1, <3>2
    <2>4. HowOften(b.out, s) = HowOften(a.out, s) + IF On("jet") /\ "jet" = s THEN 1 ELSE 0
        <3>1. CASE On("jet")
            BY <1>1, <1>3, <2>1, <3>1, HowOftenFacts
        <3>2. CASE ~On("jet")
            BY <1>1, <1>3, <2>1, <3>2, HowOftenFacts
        <3> QED
            BY <3>1, <3>2
    <2>5. HowOften(d.out, s) = HowOften(b.out, s) + IF On("save") /\ "save" = s THEN 1 ELSE 0
        <3>1. CASE On("save")
            BY <1>1, <1>4, <2>1, <3>1, HowOftenFacts
        <3>2. CASE ~On("save")
            BY <1>1, <1>4, <2>1, <3>2, HowOftenFacts
        <3> QED
            BY <3>1, <3>2
    <2> QED
        BY <1>1, <2>2, <2>3, <2>4, <2>5
<1> HIDE DEF q
<1>8. ASSUME r.c.power = "on", NEW s \in Settings
      PROVE  HowOften(q.out, s) = HowOften(r.out, s) + IF s \in r.c.kept /\ Applies(r.c, s) THEN 1 ELSE 0
    BY <1>5, <1>7, <1>8
<1> QED
    BY <1>5, <1>6, <1>8 DEF q

\* With the mode a setting is written once more at most.
LEMMA ModeHooksFacts ==
    ASSUME NEW r \in RacResults
    PROVE  LET q == ModeHooks(r) IN
           /\ q \in RacResults /\ q.c = r.c
           /\ \A s \in Settings : HowOften(q.out, s) <= HowOften(r.out, s) + 1
<1> DEFINE a == WithMode(r, "jet")
           b == WithMode(a, "save")
           q == ModeHooks(r)
           On(s) == r.c.power = "on" /\ Applies(r.c, s)
<1>1. {"air", "jet", "save"} = Settings
    BY DEF Settings
<1>2. /\ a \in RacResults /\ a.c = r.c
      /\ a.out = IF On("jet") THEN Append(r.out, "jet") ELSE r.out
    BY <1>1, WithModeFacts
<1> HIDE DEF a
<1>3. /\ b \in RacResults /\ b.c = r.c
      /\ b.out = IF On("save") THEN Append(a.out, "save") ELSE a.out
    BY <1>1, <1>2, WithModeFacts
<1> HIDE DEF b
<1>4. q \in RacResults /\ q.c = r.c /\ q.out = b.out
    <2>1. q = ClimateAction(b)
        BY DEF ModeHooks, a, b
    <2> QED
        BY <1>3, <2>1, ClimateActionFacts
<1>5. ASSUME NEW s \in Settings
      PROVE  HowOften(b.out, s) <= HowOften(r.out, s) + 1
    <2> HIDE DEF On
    <2>1. r.out \in Seq(Settings) /\ a.out \in Seq(Settings)
        BY <1>2 DEF RacResults
    <2>2. HowOften(r.out, s) \in Nat
        BY <2>1, HowOftenFacts
    <2>3. HowOften(a.out, s) = HowOften(r.out, s) + IF On("jet") /\ "jet" = s THEN 1 ELSE 0
        <3>1. CASE On("jet")
            BY <1>1, <1>2, <2>1, <3>1, HowOftenFacts
        <3>2. CASE ~On("jet")
            BY <1>1, <1>2, <2>1, <3>2, HowOftenFacts
        <3> QED
            BY <3>1, <3>2
    <2>4. HowOften(b.out, s) = HowOften(a.out, s) + IF On("save") /\ "save" = s THEN 1 ELSE 0
        <3>1. CASE On("save")
            BY <1>1, <1>3, <2>1, <3>1, HowOftenFacts
        <3>2. CASE ~On("save")
            BY <1>1, <1>3, <2>1, <3>2, HowOftenFacts
        <3> QED
            BY <3>1, <3>2
    <2> QED
        BY <2>2, <2>3, <2>4
<1> HIDE DEF q
<1>6. \A s \in Settings : HowOften(q.out, s) <= HowOften(r.out, s) + 1
    BY <1>4, <1>5
<1> QED
    BY <1>4, <1>6 DEF q

-----------------------------------------------------------------------------
(* The callbacks.                                                          *)

\* What no callback of power and mode changes.
Alike(c, d) == c.power = d.power /\ c.mode = d.mode /\ c.kept = d.kept /\ c.inFrame = d.inFrame

\* The mode that is shown, and whether it has moved alone.
ShownMode(c) == IF c.power = "off" THEN "off" ELSE c.mode
ModeMoved(c) ==
    /\ c.modePrev \notin {"unknown", c.mode}
    /\ ~c.inFrame /\ c.powerPrev = "on" /\ c.power = "on"

\* Each setting is written once more at most, or none is.
OnceMore(q, r) == \A s \in Settings : HowOften(q.out, s) <= HowOften(r.out, s) + 1
NoMore(q, r) == q.out = r.out /\ q.p = r.p

LEMMA ReadModeFacts ==
    ASSUME NEW r \in RacResults
    PROVE  LET q == ReadMode(r) IN
           /\ q \in RacResults /\ Alike(q.c, r.c) /\ q.c.powerPrev = r.c.powerPrev
           /\ q.c.modePrev = ShownMode(r.c)
           /\ IF ModeMoved(r.c) THEN OnceMore(q, r) ELSE NoMore(q, r)
<1> DEFINE shown == ShownMode(r.c)
           h == ModeHooks(r)
           after == IF ModeMoved(r.c) THEN h ELSE r
           q == ReadMode(r)
<1>1. r.c \in ClimateRecords
    BY DEF RacResults
<1>2. shown \in RacModes \cup {"off", "unknown"}
    BY <1>1 DEF ClimateRecords, ShownMode
<1>3. h \in RacResults /\ h.c = r.c /\ OnceMore(h, r)
    BY ModeHooksFacts DEF OnceMore
<1>4. q = [after EXCEPT !.c.modePrev = shown]
    BY DEF ReadMode, ModeMoved, ShownMode
<1> HIDE DEF shown, h, q
<1>5. /\ after \in RacResults /\ after.c = r.c
      /\ IF ModeMoved(r.c) THEN OnceMore(after, r) ELSE NoMore(after, r)
    BY <1>3 DEF NoMore
<1> HIDE DEF after
<1>6. /\ q \in RacResults /\ q.c = [r.c EXCEPT !.modePrev = shown]
      /\ q.out = after.out /\ q.p = after.p
    BY <1>1, <1>2, <1>4, <1>5 DEF RacResults, ClimateRecords
<1>7. Alike(q.c, r.c) /\ q.c.powerPrev = r.c.powerPrev /\ q.c.modePrev = shown
    BY <1>1, <1>6 DEF ClimateRecords, Alike
<1>8. IF ModeMoved(r.c) THEN OnceMore(q, r) ELSE NoMore(q, r)
    BY <1>5, <1>6 DEF OnceMore, NoMore
<1> QED
    BY <1>6, <1>7, <1>8 DEF q, shown

LEMMA ReadPowerFacts ==
    ASSUME NEW r \in RacResults
    PROVE  LET q == ReadPower(r) IN
           /\ q \in RacResults /\ Alike(q.c, r.c) /\ q.c.powerPrev = r.c.power
           /\ q.c.modePrev = ShownMode(r.c)
           /\ IF r.c.powerPrev \in {"unknown", r.c.power}
              THEN IF ModeMoved(r.c) THEN OnceMore(q, r) ELSE NoMore(q, r)
              ELSE /\ r.c.power = "off" => q.out = r.out /\ q.p.reset
                   /\ r.c.power = "on" =>
                         \A s \in Settings :
                            HowOften(q.out, s) = HowOften(r.out, s)
                                                 + IF s \in r.c.kept /\ Applies(r.c, s) THEN 1 ELSE 0
<1> DEFINE m == ReadMode(r)
           h == PowerHooks(m)
           moved == r.c.powerPrev \notin {"unknown", r.c.power}
           after == IF m.c.powerPrev \notin {"unknown", r.c.power} THEN h ELSE m
           q == ReadPower(r)
<1>1. r.c \in ClimateRecords
    BY DEF RacResults
<1>2. /\ m \in RacResults /\ Alike(m.c, r.c) /\ m.c.powerPrev = r.c.powerPrev
      /\ m.c.modePrev = ShownMode(r.c)
      /\ IF ModeMoved(r.c) THEN OnceMore(m, r) ELSE NoMore(m, r)
    BY ReadModeFacts
<1>3. q = [after EXCEPT !.c.powerPrev = r.c.power]
    BY DEF ReadPower
<1> HIDE DEF m
<1>4. /\ h \in RacResults /\ h.c = m.c
      /\ m.c.power = "off" => h.out = m.out /\ h.p.reset
      /\ m.c.power = "on" =>
            \A s \in Settings :
               HowOften(h.out, s) = HowOften(m.out, s)
                                    + IF s \in m.c.kept /\ Applies(m.c, s) THEN 1 ELSE 0
    BY <1>2, PowerHooksFacts
<1> HIDE DEF h, q
<1>5. after = (IF moved THEN h ELSE m) /\ after \in RacResults /\ after.c = m.c
    BY <1>2, <1>4
<1> HIDE DEF after
<1>6. r.c.power \in OffOn /\ m.c \in ClimateRecords
    BY <1>1, <1>2 DEF RacResults, ClimateRecords
<1>7. /\ q \in RacResults /\ q.c = [m.c EXCEPT !.powerPrev = r.c.power]
      /\ q.out = after.out /\ q.p = after.p
    <2>1. [m.c EXCEPT !.powerPrev = r.c.power] \in ClimateRecords
        BY <1>6 DEF ClimateRecords
    <2>2. after = [c |-> m.c, out |-> after.out, p |-> after.p]
        BY <1>5 DEF RacResults
    <2>3. q = [c |-> [m.c EXCEPT !.powerPrev = r.c.power], out |-> after.out, p |-> after.p]
        BY <1>3, <2>2
    <2> QED
        BY <1>5, <2>1, <2>3 DEF RacResults
<1>8. Alike(q.c, m.c) /\ q.c.powerPrev = r.c.power /\ q.c.modePrev = m.c.modePrev
    BY <1>6, <1>7 DEF ClimateRecords, Alike
<1>9. CASE moved
    <2>1. m.out = r.out
        BY <1>2, <1>9 DEF ModeMoved, NoMore
    <2>2. \A s \in Settings : Applies(m.c, s) <=> Applies(r.c, s)
        BY <1>2 DEF Alike, Applies
    <2>3. m.c.power = r.c.power /\ m.c.kept = r.c.kept
        BY <1>2 DEF Alike
    <2>4. r.c.power = "off" => q.out = r.out /\ q.p.reset
        BY <1>4, <1>5, <1>7, <1>9, <2>1, <2>3
    <2>5. ASSUME r.c.power = "on", NEW s \in Settings
          PROVE  HowOften(q.out, s) = HowOften(r.out, s)
                                      + IF s \in r.c.kept /\ Applies(r.c, s) THEN 1 ELSE 0
        BY <1>4, <1>5, <1>7, <1>9, <2>1, <2>2, <2>3, <2>5
    <2> QED
        BY <1>2, <1>7, <1>8, <1>9, <2>4, <2>5 DEF Alike, q
<1>10. CASE ~moved
    <2>1. q.out = m.out /\ q.p = m.p
        BY <1>5, <1>7, <1>10
    <2>2. IF ModeMoved(r.c) THEN OnceMore(q, r) ELSE NoMore(q, r)
        BY <1>2, <2>1 DEF OnceMore, NoMore
    <2> QED
        BY <1>2, <1>7, <1>8, <1>10, <2>2 DEF Alike, q
<1> QED
    BY <1>9, <1>10

\* An entry, by its key.
LEMMA PowerEntry ==
    ASSUME NEW r \in RacResults, NEW v \in OffOn
    PROVE  LET q == ReadEntry(r, <<"power", v>>) IN
           /\ q \in RacResults /\ q.c.power = v /\ q.c.powerPrev = v
           /\ q.c.mode = r.c.mode /\ q.c.kept = r.c.kept /\ q.c.inFrame = r.c.inFrame
           /\ q.c.modePrev = IF v = "off" THEN "off" ELSE r.c.mode
           /\ IF r.c.powerPrev \in {"unknown", v}
              THEN IF /\ r.c.modePrev \notin {"unknown", r.c.mode}
                      /\ ~r.c.inFrame /\ r.c.powerPrev = "on" /\ v = "on"
                   THEN OnceMore(q, r) ELSE NoMore(q, r)
              ELSE /\ v = "off" => q.out = r.out /\ q.p.reset
                   /\ v = "on" =>
                         \A s \in Settings :
                            HowOften(q.out, s) = HowOften(r.out, s)
                                                 + IF s \in r.c.kept /\ Applies(r.c, s) THEN 1 ELSE 0
<1> DEFINE z == [r EXCEPT !.c.power = v]
           q == ReadEntry(r, <<"power", v>>)
<1>1. q = ReadPower(z)
    BY DEF ReadEntry
<1>2. /\ z \in RacResults /\ z.out = r.out /\ z.p = r.p /\ z.c.power = v
      /\ z.c.mode = r.c.mode /\ z.c.kept = r.c.kept /\ z.c.inFrame = r.c.inFrame
      /\ z.c.powerPrev = r.c.powerPrev /\ z.c.modePrev = r.c.modePrev
    BY DEF RacResults, ClimateRecords
<1> HIDE DEF z, q
<1>3. /\ q \in RacResults /\ Alike(q.c, z.c) /\ q.c.powerPrev = z.c.power
      /\ q.c.modePrev = ShownMode(z.c)
      /\ IF z.c.powerPrev \in {"unknown", z.c.power}
         THEN IF ModeMoved(z.c) THEN OnceMore(q, z) ELSE NoMore(q, z)
         ELSE /\ z.c.power = "off" => q.out = z.out /\ q.p.reset
              /\ z.c.power = "on" =>
                    \A s \in Settings :
                       HowOften(q.out, s) = HowOften(z.out, s)
                                            + IF s \in z.c.kept /\ Applies(z.c, s) THEN 1 ELSE 0
    BY <1>1, <1>2, ReadPowerFacts
<1>4. \A s \in Settings : Applies(z.c, s) <=> Applies(r.c, s)
    BY <1>2 DEF Applies
<1>5. OnceMore(q, z) <=> OnceMore(q, r)
    BY <1>2 DEF OnceMore
<1>6. NoMore(q, z) <=> NoMore(q, r)
    BY <1>2 DEF NoMore
<1>7. /\ q.c.power = v /\ q.c.powerPrev = v
      /\ q.c.mode = r.c.mode /\ q.c.kept = r.c.kept /\ q.c.inFrame = r.c.inFrame
      /\ q.c.modePrev = IF v = "off" THEN "off" ELSE r.c.mode
    BY <1>2, <1>3 DEF Alike, ShownMode
<1>8. ModeMoved(z.c) <=> /\ r.c.modePrev \notin {"unknown", r.c.mode}
                         /\ ~r.c.inFrame /\ r.c.powerPrev = "on" /\ v = "on"
    BY <1>2 DEF ModeMoved
<1>9. CASE r.c.powerPrev \in {"unknown", v}
    BY <1>2, <1>3, <1>5, <1>6, <1>7, <1>8, <1>9 DEF q
<1>10. CASE r.c.powerPrev \notin {"unknown", v}
    <2>1. v = "off" => q.out = r.out /\ q.p.reset
        BY <1>2, <1>3, <1>10
    <2>2. ASSUME v = "on", NEW s \in Settings
          PROVE  HowOften(q.out, s) = HowOften(r.out, s)
                                      + IF s \in r.c.kept /\ Applies(r.c, s) THEN 1 ELSE 0
        BY <1>2, <1>3, <1>4, <1>10, <2>2
    <2> QED
        BY <1>3, <1>7, <1>10, <2>1, <2>2 DEF q
<1> QED
    BY <1>9, <1>10

LEMMA ModeEntry ==
    ASSUME NEW r \in RacResults, NEW m \in RacModes
    PROVE  LET q == ReadEntry(r, <<"mode", m>>) IN
           /\ q \in RacResults /\ q.c.mode = m
           /\ q.c.power = r.c.power /\ q.c.powerPrev = r.c.powerPrev
           /\ q.c.kept = r.c.kept /\ q.c.inFrame = r.c.inFrame
           /\ q.c.modePrev = IF r.c.power = "off" THEN "off" ELSE m
           /\ IF /\ r.c.modePrev \notin {"unknown", m}
                 /\ ~r.c.inFrame /\ r.c.powerPrev = "on" /\ r.c.power = "on"
              THEN OnceMore(q, r) ELSE NoMore(q, r)
<1> DEFINE z == [r EXCEPT !.c.mode = m]
           q == ReadEntry(r, <<"mode", m>>)
<1>1. q = ReadMode(z)
    BY DEF ReadEntry
<1>2. /\ z \in RacResults /\ z.out = r.out /\ z.p = r.p /\ z.c.mode = m
      /\ z.c.power = r.c.power /\ z.c.kept = r.c.kept /\ z.c.inFrame = r.c.inFrame
      /\ z.c.powerPrev = r.c.powerPrev /\ z.c.modePrev = r.c.modePrev
    BY DEF RacResults, ClimateRecords
<1> HIDE DEF z, q
<1>3. /\ q \in RacResults /\ Alike(q.c, z.c) /\ q.c.powerPrev = z.c.powerPrev
      /\ q.c.modePrev = ShownMode(z.c)
      /\ IF ModeMoved(z.c) THEN OnceMore(q, z) ELSE NoMore(q, z)
    BY <1>1, <1>2, ReadModeFacts
<1>4. OnceMore(q, z) <=> OnceMore(q, r)
    BY <1>2 DEF OnceMore
<1>5. NoMore(q, z) <=> NoMore(q, r)
    BY <1>2 DEF NoMore
<1>6. /\ q.c.mode = m /\ q.c.power = r.c.power /\ q.c.powerPrev = r.c.powerPrev
      /\ q.c.kept = r.c.kept /\ q.c.inFrame = r.c.inFrame
      /\ q.c.modePrev = IF r.c.power = "off" THEN "off" ELSE m
    BY <1>2, <1>3 DEF Alike, ShownMode
<1>7. ModeMoved(z.c) <=> /\ r.c.modePrev \notin {"unknown", m}
                         /\ ~r.c.inFrame /\ r.c.powerPrev = "on" /\ r.c.power = "on"
    BY <1>2 DEF ModeMoved
<1> QED
    BY <1>3, <1>4, <1>5, <1>6, <1>7 DEF q

LEMMA SettingEntry ==
    ASSUME NEW r \in RacResults, NEW s \in Settings, NEW v
    PROVE  LET q == ReadEntry(r, <<s, v>>) IN
           /\ q \in RacResults /\ q.c.mode = r.c.mode
           /\ q.c.power = r.c.power /\ q.c.powerPrev = r.c.powerPrev
           /\ q.c.modePrev = r.c.modePrev /\ q.c.inFrame = r.c.inFrame
           /\ NoMore(q, r)
<1> DEFINE k == IF v = "on" THEN r.c.kept \cup {s} ELSE r.c.kept \ {s}
           z == [r EXCEPT !.c.kept = k]
           q == ReadEntry(r, <<s, v>>)
<1>1. s # "power" /\ s # "mode"
    BY DEF Settings
<1>2. q = ReadSetting(r, s, v = "on")
    BY <1>1 DEF ReadEntry
<1>3. q = IF r.c.power = "off" \/ ~Applies(r.c, s) THEN r ELSE z
    BY <1>2 DEF ReadSetting
<1>4. k \in SUBSET Settings
    BY DEF RacResults, ClimateRecords
<1> HIDE DEF k, q
<1>5. /\ z \in RacResults /\ z.c.mode = r.c.mode
      /\ z.c.power = r.c.power /\ z.c.powerPrev = r.c.powerPrev
      /\ z.c.modePrev = r.c.modePrev /\ z.c.inFrame = r.c.inFrame
      /\ z.out = r.out /\ z.p = r.p
    BY <1>4 DEF RacResults, ClimateRecords
<1> HIDE DEF z
<1>6. CASE q = r
    BY <1>6 DEF NoMore, q
<1>7. CASE q = z
    BY <1>5, <1>7 DEF NoMore, q
<1> QED
    BY <1>3, <1>6, <1>7

-----------------------------------------------------------------------------
(* Frames.  A frame holds a key once and one setting at most.               *)

AFrame(f, n) ==
    /\ f \in [1..n -> Entries]
    /\ \A i, j \in 1..n : f[i][1] = f[j][1] \/ {f[i][1], f[j][1]} \subseteq Settings => i = j

\* One of the keys is among the first k entries.
Carried(f, k, keys) == \E i \in 1..k : f[i][1] \in keys

LEMMA CarriedNext ==
    ASSUME NEW n \in Nat, NEW f, AFrame(f, n), NEW k \in Nat, k + 1 <= n
    PROVE  /\ \A keys : Carried(f, k + 1, keys) <=> Carried(f, k, keys) \/ f[k + 1][1] \in keys
           /\ \A x : f[k + 1][1] = x => ~Carried(f, k, {x})
           /\ f[k + 1][1] \in Settings => ~Carried(f, k, Settings)
           /\ f[k + 1] \in Entries
<1>1. k + 1 \in 1..n /\ \A i \in 1..k : i \in 1..n /\ i # k + 1
    OBVIOUS
<1>2. \A i \in 1..k + 1 : i \in 1..k \/ i = k + 1
    OBVIOUS
<1>3. \A keys : Carried(f, k + 1, keys) <=> Carried(f, k, keys) \/ f[k + 1][1] \in keys
    <2>1. k + 1 \in 1..k + 1 /\ \A i \in 1..k : i \in 1..k + 1
        OBVIOUS
    <2> QED
        BY <1>2, <2>1 DEF Carried
<1>4. \A x : f[k + 1][1] = x => ~Carried(f, k, {x})
    BY <1>1 DEF Carried, AFrame
<1>5. f[k + 1][1] \in Settings => ~Carried(f, k, Settings)
    BY <1>1 DEF Carried, AFrame
<1> QED
    BY <1>1, <1>3, <1>4, <1>5 DEF AFrame

LEMMA CarriedNone ==
    ASSUME NEW f, NEW keys
    PROVE  ~Carried(f, 0, keys)
BY DEF Carried

LEMMA EntryKinds ==
    ASSUME NEW kv \in Entries
    PROVE  \/ kv = <<"power", kv[2]>> /\ kv[2] \in OffOn
           \/ kv = <<"mode", kv[2]>> /\ kv[2] \in RacModes
           \/ kv[1] \in Settings /\ kv = <<kv[1], kv[2]>>
BY DEF Entries

\* After k entries of a frame that turns the power: its mode is the one that was
\* applied ahead, and nothing but the power has written.
Turned(v, k, c, f, m) ==
    /\ v \in RacResults /\ v.c.inFrame /\ v.c.mode = m
    /\ ~Carried(f, k, Settings) => v.c.kept = c.kept
    /\ IF Carried(f, k, {"power"})
       THEN /\ v.c.powerPrev = v.c.power /\ v.c.power # c.powerPrev
            /\ v.c.power = "off" => v.out = <<>> /\ v.p.reset
            /\ \A s \in Settings : HowOften(v.out, s) <= 1
            /\ v.c.power = "on" =>
                  \A s \in Settings : s \in c.kept /\ s \in v.c.kept /\ Applies(v.c, s)
                                      => HowOften(v.out, s) = 1
       ELSE v.c.powerPrev = c.powerPrev /\ v.out = <<>>

LEMMA TurnedNext ==
    ASSUME NEW n \in Nat, NEW f, AFrame(f, n), NEW k \in Nat, k + 1 <= n,
           NEW c, c.powerPrev # "unknown", NEW m,
           \A i \in 1..n : /\ f[i][1] = "power" => f[i][2] # c.powerPrev
                           /\ f[i][1] = "mode" => f[i][2] = m,
           NEW u, Turned(u, k, c, f, m)
    PROVE  Turned(ReadEntry(u, f[k + 1]), k + 1, c, f, m)
<1> DEFINE kv == f[k + 1]
           q == ReadEntry(u, kv)
<1>1. /\ \A keys : Carried(f, k + 1, keys) <=> Carried(f, k, keys) \/ kv[1] \in keys
      /\ \A x : kv[1] = x => ~Carried(f, k, {x})
      /\ kv[1] \in Settings => ~Carried(f, k, Settings)
      /\ kv \in Entries
    BY CarriedNext
<1>2. /\ kv[1] = "power" => kv[2] # c.powerPrev
      /\ kv[1] = "mode" => kv[2] = m
    <2>1. k + 1 \in 1..n
        OBVIOUS
    <2> QED
        BY <2>1
<1> HIDE DEF kv
<1>3. u \in RacResults /\ u.out \in Seq(Settings) /\ u.c.power \in OffOn
    BY DEF Turned, RacResults, ClimateRecords
<1>4. "power" \notin Settings /\ "mode" \notin Settings
    BY DEF Settings
<1>5. CASE kv = <<"power", kv[2]>> /\ kv[2] \in OffOn
    <2> DEFINE v == kv[2]
    <2>1. kv[1] = "power" /\ q = ReadEntry(u, <<"power", v>>) /\ v \in OffOn
        BY <1>5
    <2>2. /\ ~Carried(f, k, {"power"}) /\ Carried(f, k + 1, {"power"}) /\ v # c.powerPrev
          /\ Carried(f, k + 1, Settings) <=> Carried(f, k, Settings)
        BY <1>1, <1>2, <1>4, <2>1
    <2>3. u.c.powerPrev = c.powerPrev /\ u.out = <<>> /\ u.c.inFrame /\ u.c.mode = m
        BY <2>2 DEF Turned
    <2> HIDE DEF v, q
    <2>4. /\ q \in RacResults /\ q.c.power = v /\ q.c.powerPrev = v
          /\ q.c.mode = u.c.mode /\ q.c.kept = u.c.kept /\ q.c.inFrame = u.c.inFrame
          /\ v = "off" => q.out = u.out /\ q.p.reset
          /\ v = "on" =>
                \A s \in Settings :
                   HowOften(q.out, s) = HowOften(u.out, s)
                                        + IF s \in u.c.kept /\ Applies(u.c, s) THEN 1 ELSE 0
        <3>1. u.c.powerPrev \notin {"unknown", v}
            BY <2>2, <2>3
        <3>2. /\ q \in RacResults /\ q.c.power = v /\ q.c.powerPrev = v
              /\ q.c.mode = u.c.mode /\ q.c.kept = u.c.kept /\ q.c.inFrame = u.c.inFrame
            BY <1>3, <2>1, PowerEntry
        <3>3. v = "off" => q.out = u.out /\ q.p.reset
            BY <1>3, <2>1, <3>1, PowerEntry
        <3>4. v = "on" =>
                \A s \in Settings :
                   HowOften(q.out, s) = HowOften(u.out, s)
                                        + IF s \in u.c.kept /\ Applies(u.c, s) THEN 1 ELSE 0
            BY <1>3, <2>1, <3>1, PowerEntry
        <3> QED
            BY <3>2, <3>3, <3>4
    <2>5. \A s \in Settings : HowOften(u.out, s) = 0
        BY <1>3, <2>3, HowOftenFacts
    <2>6. \A s \in Settings : Applies(q.c, s) <=> Applies(u.c, s)
        BY <2>4 DEF Applies
    <2>7. \A s \in Settings : HowOften(q.out, s) <= 1
        <3>1. CASE v = "off"
            BY <2>4, <2>5, <3>1
        <3>2. CASE v = "on"
            BY <2>4, <2>5, <3>2
        <3> QED
            BY <2>1, <3>1, <3>2 DEF OffOn
    <2>8. v = "on" => \A s \in Settings : s \in c.kept /\ s \in q.c.kept /\ Applies(q.c, s)
                                          => HowOften(q.out, s) = 1
        BY <2>4, <2>5, <2>6
    <2>9. ~Carried(f, k + 1, Settings) => q.c.kept = c.kept
        BY <2>2, <2>4 DEF Turned
    <2>10. v = "off" => q.out = <<>> /\ q.p.reset
        BY <2>3, <2>4
    <2>11. Turned(q, k + 1, c, f, m)
        BY <2>2, <2>3, <2>4, <2>7, <2>8, <2>9, <2>10 DEF Turned
    <2> QED
        BY <2>11 DEF q, kv
<1>6. ASSUME kv[1] # "power", q \in RacResults, q.c.mode = m,
             q.c.power = u.c.power, q.c.powerPrev = u.c.powerPrev, q.c.inFrame = u.c.inFrame,
             NoMore(q, u), kv[1] \notin Settings => q.c.kept = u.c.kept
      PROVE  Turned(q, k + 1, c, f, m)
    <2> HIDE DEF q
    <2>1. Carried(f, k + 1, {"power"}) <=> Carried(f, k, {"power"})
        BY <1>1, <1>6
    <2>2. ~Carried(f, k + 1, Settings) => q.c.kept = c.kept
        BY <1>1, <1>6 DEF Turned
    <2>3. q.out = u.out /\ q.p = u.p
        BY <1>6 DEF NoMore
    <2>4. \A s \in Settings : Applies(q.c, s) <=> Applies(u.c, s)
        BY <1>6 DEF Applies, Turned
    <2>5. \A s \in Settings : s \in c.kept /\ s \in q.c.kept => s \in u.c.kept
        BY <1>1, <1>6 DEF Turned
    <2> QED
        BY <1>6, <2>1, <2>2, <2>3, <2>4, <2>5 DEF Turned
<1>7. CASE kv = <<"mode", kv[2]>> /\ kv[2] \in RacModes
    <2>1. kv[1] = "mode" /\ kv[2] = m /\ q = ReadEntry(u, <<"mode", m>>) /\ m \in RacModes
        BY <1>2, <1>7
    <2>2. u.c.inFrame
        BY DEF Turned
    <2> HIDE DEF q
    <2>3. /\ q \in RacResults /\ q.c.mode = m
          /\ q.c.power = u.c.power /\ q.c.powerPrev = u.c.powerPrev
          /\ q.c.kept = u.c.kept /\ q.c.inFrame = u.c.inFrame /\ NoMore(q, u)
        <3>1. /\ q \in RacResults /\ q.c.mode = m
              /\ q.c.power = u.c.power /\ q.c.powerPrev = u.c.powerPrev
              /\ q.c.kept = u.c.kept /\ q.c.inFrame = u.c.inFrame
            BY <1>3, <2>1, ModeEntry
        <3>2. NoMore(q, u)
            BY <1>3, <2>1, <2>2, ModeEntry
        <3> QED
            BY <3>1, <3>2
    <2>4. Turned(q, k + 1, c, f, m)
        BY <1>6, <2>1, <2>3
    <2> QED
        BY <2>4 DEF q, kv
<1>8. CASE kv[1] \in Settings /\ kv = <<kv[1], kv[2]>>
    <2> DEFINE s == kv[1]
               v == kv[2]
    <2>1. q = ReadEntry(u, <<s, v>>) /\ s \in Settings /\ kv[1] # "power"
        BY <1>4, <1>8
    <2> HIDE DEF q, s, v
    <2>2. /\ q \in RacResults /\ q.c.mode = u.c.mode
          /\ q.c.power = u.c.power /\ q.c.powerPrev = u.c.powerPrev
          /\ q.c.inFrame = u.c.inFrame /\ NoMore(q, u)
        BY <1>3, <2>1, SettingEntry
    <2>3. u.c.mode = m
        BY DEF Turned
    <2>4. Turned(q, k + 1, c, f, m)
        BY <1>6, <1>8, <2>1, <2>2, <2>3
    <2> QED
        BY <2>4 DEF q, kv
<1> QED
    BY <1>1, <1>5, <1>7, <1>8, EntryKinds

\* After k entries of a frame that turns nothing: what was written was written by
\* the mode or by the power, or by both when a command had written a mode ahead.
Few(v, n) == \A s \in Settings : HowOften(v.out, s) <= n
Overtaken(c) == c.powerPrev # "unknown" /\ c.modePrev \notin {"unknown", c.mode}

Steady(v, k, c, f) ==
    /\ v \in RacResults /\ ~v.c.inFrame
    /\ v.c.powerPrev = IF Carried(f, k, {"power"}) THEN v.c.power ELSE c.powerPrev
    /\ c.powerPrev # "unknown" => v.c.powerPrev = c.powerPrev
    /\ v.out # <<>> => v.c.power = "on"
    /\ IF Carried(f, k, {"power"})
       THEN IF Carried(f, k, {"mode"})
            THEN /\ Few(v, 1) \/ (Few(v, 2) /\ Overtaken(c))
                 /\ c.powerPrev = "unknown" /\ v.c.mode = c.mode => v.out = <<>>
            ELSE /\ Few(v, 1) /\ v.c.mode = c.mode
                 /\ v.out # <<>> => Overtaken(c)
                 /\ v.c.power = "on" => v.c.modePrev = v.c.mode
       ELSE IF Carried(f, k, {"mode"})
            THEN /\ Few(v, 1)
                 /\ v.out # <<>> => v.c.modePrev = v.c.mode /\ c.powerPrev = "on"
            ELSE v.out = <<>> /\ v.c.mode = c.mode /\ v.c.modePrev = c.modePrev

LEMMA NeverOften ==
    ASSUME NEW s
    PROVE  HowOften(<<>>, s) = 0
<1>1. <<>> \in Seq(Settings) /\ "air" \in Settings
    BY DEF Settings
<1> QED
    BY <1>1, HowOftenFacts

LEMMA FewNone ==
    ASSUME NEW v, v.out = <<>>
    PROVE  Few(v, 1)
BY NeverOften DEF Few

LEMMA FewMore ==
    ASSUME NEW r \in RacResults, NEW q, OnceMore(q, r), q \in RacResults
    PROVE  /\ r.out = <<>> => Few(q, 1)
           /\ Few(r, 1) => Few(q, 2)
<1>1. \A s \in Settings : HowOften(r.out, s) \in Nat /\ HowOften(q.out, s) \in Nat
    <2>1. r.out \in Seq(Settings) /\ q.out \in Seq(Settings)
        BY DEF RacResults
    <2> QED
        BY <2>1, HowOftenFacts
<1>2. ASSUME r.out = <<>>
      PROVE  Few(q, 1)
    <2>1. \A s \in Settings : HowOften(r.out, s) = 0
        BY <1>2, NeverOften
    <2> QED
        BY <1>1, <2>1 DEF OnceMore, Few
<1>3. ASSUME Few(r, 1)
      PROVE  Few(q, 2)
    BY <1>1, <1>3 DEF OnceMore, Few
<1> QED
    BY <1>2, <1>3

LEMMA SteadyNext ==
    ASSUME NEW n \in Nat, NEW f, AFrame(f, n), NEW k \in Nat, k + 1 <= n, NEW c,
           c.powerPrev # "unknown"
           => \A i \in 1..n : f[i][1] = "power" => f[i][2] = c.powerPrev,
           NEW u, Steady(u, k, c, f)
    PROVE  Steady(ReadEntry(u, f[k + 1]), k + 1, c, f)
<1> DEFINE kv == f[k + 1]
           q == ReadEntry(u, kv)
<1>1. /\ \A keys : Carried(f, k + 1, keys) <=> Carried(f, k, keys) \/ kv[1] \in keys
      /\ \A x : kv[1] = x => ~Carried(f, k, {x})
      /\ kv \in Entries
    BY CarriedNext
<1>2. kv[1] = "power" => c.powerPrev \in {"unknown", kv[2]}
    <2>1. k + 1 \in 1..n
        OBVIOUS
    <2> QED
        BY <2>1
<1> HIDE DEF kv
<1>3. u \in RacResults /\ u.out \in Seq(Settings) /\ u.c.power \in OffOn /\ ~u.c.inFrame
    BY DEF Steady, RacResults, ClimateRecords
<1>4. "power" \notin Settings /\ "mode" \notin Settings
    BY DEF Settings
<1>5. CASE kv = <<"power", kv[2]>> /\ kv[2] \in OffOn
    <2> DEFINE v == kv[2]
               moved == /\ u.c.modePrev \notin {"unknown", u.c.mode}
                        /\ ~u.c.inFrame /\ u.c.powerPrev = "on" /\ v = "on"
    <2>1. kv[1] = "power" /\ q = ReadEntry(u, <<"power", v>>) /\ v \in OffOn
        BY <1>5
    <2>2. /\ ~Carried(f, k, {"power"}) /\ Carried(f, k + 1, {"power"}) /\ c.powerPrev \in {"unknown", v}
          /\ Carried(f, k + 1, {"mode"}) <=> Carried(f, k, {"mode"})
        BY <1>1, <1>2, <2>1
    <2>3. u.c.powerPrev = c.powerPrev
        BY <2>2 DEF Steady
    <2> HIDE DEF v, q
    <2>4. /\ q \in RacResults /\ q.c.power = v /\ q.c.powerPrev = v
          /\ q.c.mode = u.c.mode /\ q.c.inFrame = u.c.inFrame
          /\ q.c.modePrev = IF v = "off" THEN "off" ELSE u.c.mode
        BY <1>3, <2>1, PowerEntry
    <2>5. IF moved THEN OnceMore(q, u) ELSE NoMore(q, u)
        <3>1. u.c.powerPrev \in {"unknown", v}
            BY <2>2, <2>3
        <3> QED
            BY <1>3, <2>1, <3>1, PowerEntry
    <2>6. u.out = <<>> => Few(q, 1)
        <3>1. CASE moved
            BY <1>3, <2>4, <2>5, <3>1, FewMore
        <3>2. CASE ~moved
            BY <2>5, <3>2, FewNone DEF NoMore
        <3> QED
            BY <3>1, <3>2
    <2>7. CASE Carried(f, k, {"mode"})
        <3>1. /\ Few(u, 1)
              /\ u.out # <<>> => u.c.modePrev = u.c.mode /\ c.powerPrev = "on"
            BY <2>2, <2>7 DEF Steady
        <3>2. u.out # <<>> => ~moved /\ v = "on"
            BY <2>2, <3>1
        <3>3. Few(q, 1)
            <4>1. CASE u.out # <<>>
                BY <2>5, <3>1, <3>2, <4>1 DEF NoMore, Few
            <4> QED
                BY <2>6, <4>1
        <3>4. q.out # <<>> => v = "on"
            BY <2>5, <3>2 DEF NoMore
        <3>5. c.powerPrev = "unknown" => q.out = <<>>
            BY <2>3, <2>5, <3>1 DEF NoMore
        <3>6. c.powerPrev # "unknown" => v = c.powerPrev
            BY <2>2
        <3>7. Steady(q, k + 1, c, f)
            BY <1>3, <2>2, <2>4, <2>7, <3>3, <3>4, <3>5, <3>6 DEF Steady
        <3> QED
            BY <3>7 DEF q, kv
    <2>8. CASE ~Carried(f, k, {"mode"})
        <3>1. u.out = <<>> /\ u.c.mode = c.mode /\ u.c.modePrev = c.modePrev
            BY <2>2, <2>8 DEF Steady
        <3>2. q.out # <<>> => moved
            BY <2>5, <3>1 DEF NoMore
        <3>3. q.out # <<>> => v = "on" /\ Overtaken(c)
            BY <2>3, <3>1, <3>2 DEF Overtaken
        <3>4. v = "on" => q.c.modePrev = q.c.mode
            BY <2>4
        <3>5. c.powerPrev # "unknown" => v = c.powerPrev
            BY <2>2
        <3>6. Steady(q, k + 1, c, f)
            BY <1>3, <2>2, <2>4, <2>6, <2>8, <3>1, <3>3, <3>4, <3>5 DEF Steady
        <3> QED
            BY <3>6 DEF q, kv
    <2> QED
        BY <2>7, <2>8
<1>6. CASE kv = <<"mode", kv[2]>> /\ kv[2] \in RacModes
    <2> DEFINE m == kv[2]
               moved == /\ u.c.modePrev \notin {"unknown", m}
                        /\ ~u.c.inFrame /\ u.c.powerPrev = "on" /\ u.c.power = "on"
    <2>1. kv[1] = "mode" /\ q = ReadEntry(u, <<"mode", m>>) /\ m \in RacModes
        BY <1>6
    <2>2. /\ ~Carried(f, k, {"mode"}) /\ Carried(f, k + 1, {"mode"})
          /\ Carried(f, k + 1, {"power"}) <=> Carried(f, k, {"power"})
        BY <1>1, <2>1
    <2> HIDE DEF m, q
    <2>3. /\ q \in RacResults /\ q.c.mode = m
          /\ q.c.power = u.c.power /\ q.c.powerPrev = u.c.powerPrev
          /\ q.c.inFrame = u.c.inFrame
          /\ q.c.modePrev = IF u.c.power = "off" THEN "off" ELSE m
          /\ IF moved THEN OnceMore(q, u) ELSE NoMore(q, u)
        BY <1>3, <2>1, ModeEntry
    <2>4. u.out = <<>> => Few(q, 1)
        <3>1. CASE moved
            BY <1>3, <2>3, <3>1, FewMore
        <3>2. CASE ~moved
            BY <2>3, <3>2, FewNone DEF NoMore
        <3> QED
            BY <3>1, <3>2
    <2>5. q.out # <<>> => q.c.power = "on"
        BY <2>3 DEF Steady, NoMore
    <2>6. CASE Carried(f, k, {"power"})
        <3>1. /\ Few(u, 1) /\ u.c.mode = c.mode
              /\ u.out # <<>> => Overtaken(c)
              /\ u.c.power = "on" => u.c.modePrev = u.c.mode
            BY <2>2, <2>6 DEF Steady
        <3>2. Few(q, 1) \/ (Few(q, 2) /\ Overtaken(c))
            <4>1. CASE u.out # <<>> /\ moved
                BY <1>3, <2>3, <3>1, <4>1, FewMore
            <4>2. CASE u.out # <<>> /\ ~moved
                BY <2>3, <3>1, <4>2 DEF NoMore, Few
            <4> QED
                BY <2>4, <4>1, <4>2
        <3>3. c.powerPrev = "unknown" /\ q.c.mode = c.mode => q.out = <<>>
            <4> SUFFICES ASSUME c.powerPrev = "unknown", q.c.mode = c.mode
                         PROVE  q.out = <<>>
                OBVIOUS
            <4>1. u.out = <<>>
                BY <3>1 DEF Overtaken
            <4>2. ~moved
                BY <2>3, <3>1
            <4> QED
                BY <2>3, <4>1, <4>2 DEF NoMore
        <3>4. Steady(q, k + 1, c, f)
            BY <2>2, <2>3, <2>5, <2>6, <3>2, <3>3 DEF Steady
        <3> QED
            BY <3>4 DEF q, kv
    <2>7. CASE ~Carried(f, k, {"power"})
        <3>1. u.out = <<>> /\ u.c.powerPrev = c.powerPrev
            BY <2>2, <2>7 DEF Steady
        <3>2. q.out # <<>> => moved
            BY <2>3, <3>1 DEF NoMore
        <3>3. q.out # <<>> => q.c.modePrev = q.c.mode /\ c.powerPrev = "on"
            BY <2>3, <3>1, <3>2
        <3>4. Few(q, 1)
            BY <2>4, <3>1
        <3>5. Steady(q, k + 1, c, f)
            BY <2>2, <2>3, <2>5, <2>7, <3>1, <3>3, <3>4 DEF Steady
        <3> QED
            BY <3>5 DEF q, kv
    <2> QED
        BY <2>6, <2>7
<1>7. CASE kv[1] \in Settings /\ kv = <<kv[1], kv[2]>>
    <2> DEFINE s == kv[1]
               v == kv[2]
    <2>1. q = ReadEntry(u, <<s, v>>) /\ s \in Settings /\ kv[1] # "power" /\ kv[1] # "mode"
        BY <1>4, <1>7
    <2>2. /\ Carried(f, k + 1, {"power"}) <=> Carried(f, k, {"power"})
          /\ Carried(f, k + 1, {"mode"}) <=> Carried(f, k, {"mode"})
        BY <1>1, <2>1
    <2> HIDE DEF q, s, v
    <2>3. /\ q \in RacResults /\ q.c.mode = u.c.mode
          /\ q.c.power = u.c.power /\ q.c.powerPrev = u.c.powerPrev
          /\ q.c.modePrev = u.c.modePrev /\ q.c.inFrame = u.c.inFrame
          /\ q.out = u.out
        BY <1>3, <2>1, SettingEntry DEF NoMore
    <2>4. \A j : Few(q, j) <=> Few(u, j)
        BY <2>3 DEF Few
    <2>5. Steady(q, k + 1, c, f)
        BY <2>2, <2>3, <2>4 DEF Steady
    <2> QED
        BY <2>5 DEF q, kv
<1> QED
    BY <1>1, <1>5, <1>6, <1>7, EntryKinds

-----------------------------------------------------------------------------
(* What a frame does.                                                      *)

\* What WrittenBack says of the record c and the result q of a frame.
BackOf(c, q) ==
    /\ c.powerPrev = "off" /\ q.c.powerPrev = "on" =>
          \A s \in Settings : s \in c.kept /\ s \in q.c.kept /\ Applies(q.c, s)
                              => HowOften(q.out, s) = 1
    /\ \/ Few(q, 1)
       \/ Few(q, 2) /\ c.modePrev \notin {"unknown", c.mode} /\ q.c.powerPrev = c.powerPrev
    /\ c.powerPrev = "unknown" /\ q.c.mode = c.mode => q.out = <<>>
    /\ q.c.power = "off" => q.out = <<>>
    /\ c.powerPrev = "on" /\ q.c.powerPrev = "off" => q.p.reset

LEMMA TurnedBack ==
    ASSUME NEW c, NEW f, NEW n, NEW m, NEW v, Turned(v, n, c, f, m), Carried(f, n, {"power"}),
           c.powerPrev # "unknown"
    PROVE  BackOf(c, v)
BY DEF Turned, BackOf, Few

LEMMA SteadyBack ==
    ASSUME NEW c, NEW f, NEW n, NEW v, Steady(v, n, c, f)
    PROVE  BackOf(c, v)
<1>1. v.c.power = "off" => v.out = <<>>
    BY DEF Steady
<1>2. c.powerPrev # "unknown" => v.c.powerPrev = c.powerPrev
    BY DEF Steady
<1>3. \/ Few(v, 1)
      \/ Few(v, 2) /\ Overtaken(c)
    BY FewNone DEF Steady
<1>4. c.powerPrev = "unknown" /\ v.c.mode = c.mode => v.out = <<>>
    BY DEF Steady, Overtaken
<1> QED
    BY <1>1, <1>2, <1>3, <1>4 DEF BackOf, Overtaken

LEMMA EntryReads ==
    ASSUME NEW r \in RacResults, NEW kv \in Entries
    PROVE  ReadEntry(r, kv) \in RacResults
<1> DEFINE x == kv[1]
           v == kv[2]
           q == ReadEntry(r, kv)
<1>1. CASE kv = <<"power", v>> /\ v \in OffOn
    <2>1. q = ReadEntry(r, <<"power", v>>) /\ v \in OffOn
        BY <1>1
    <2> HIDE DEF q, v
    <2> QED
        BY <2>1, PowerEntry DEF q
<1>2. CASE kv = <<"mode", v>> /\ v \in RacModes
    <2>1. q = ReadEntry(r, <<"mode", v>>) /\ v \in RacModes
        BY <1>2
    <2> HIDE DEF q, v
    <2> QED
        BY <2>1, ModeEntry DEF q
<1>3. CASE x \in Settings /\ kv = <<x, v>>
    <2>1. q = ReadEntry(r, <<x, v>>) /\ x \in Settings
        BY <1>3
    <2> HIDE DEF q, x, v
    <2> QED
        BY <2>1, SettingEntry DEF q
<1> QED
    BY <1>1, <1>2, <1>3, EntryKinds

\* The entries of a frame are read one after the other.
ReadsAll(g, w, f, n) ==
    g = [k \in 0..n |-> IF k = 0 THEN w ELSE ReadEntry(g[k - 1], f[k])]

LEMMA EntriesRead ==
    ASSUME NEW n \in Nat, NEW f, AFrame(f, n), NEW w \in RacResults
    PROVE  \E g : ReadsAll(g, w, f, n)
<1> DEFINE F == [x \in (1..n) \X RacResults |-> ReadEntry(x[2], f[x[1]])]
<1>1. F \in [(1..n) \X RacResults -> RacResults]
    <2>1. ASSUME NEW k \in 1..n, NEW v \in RacResults
          PROVE  ReadEntry(v, f[k]) \in RacResults
        <3>1. f[k] \in Entries
            BY DEF AFrame
        <3> QED
            BY <3>1, EntryReads
    <2> QED
        BY <2>1
<1>2. PICK g \in [0..n -> RacResults] : \A k \in 0..n : g[k] = IF k = 0 THEN w ELSE F[<<k, g[k - 1]>>]
    <2> HIDE DEF F
    <2>1. PICK g : g \in Courses(RacResults, w, n, F)
        BY <1>1, LoopExists
    <2> QED
        BY <2>1 DEF Courses
<1>3. \A k \in 0..n : g[k] = IF k = 0 THEN w ELSE ReadEntry(g[k - 1], f[k])
    <2> TAKE k \in 0..n
    <2>1. CASE k # 0
        <3>1. k \in 1..n /\ k - 1 \in 0..n
            BY <2>1
        <3>2. F[<<k, g[k - 1]>>] = ReadEntry(g[k - 1], f[k])
            BY <1>2, <3>1
        <3> QED
            BY <1>2, <2>1, <3>2
    <2> QED
        BY <1>2, <2>1
<1>4. g = [k \in 0..n |-> IF k = 0 THEN w ELSE ReadEntry(g[k - 1], f[k])]
    BY <1>2, <1>3
<1> QED
    BY <1>4 DEF ReadsAll

LEMMA ProcessTLVBack ==
    ASSUME RacAssumption, NEW r \in RacResults, r.out = <<>>, NEW f \in RacFrames
    PROVE  LET q == ProcessTLV(r, f) IN q \in RacResults /\ BackOf(r.c, q)
<1> DEFINE c == r.c
           turns == /\ c.powerPrev # "unknown"
                    /\ \E i \in DOMAIN f : f[i][1] = "power" /\ f[i][2] # c.powerPrev
           ahead == {f[i][2] : i \in {i \in DOMAIN f : f[i][1] = "mode"}}
           start == IF turns /\ ahead # {}
                    THEN [c EXCEPT !.mode = CHOOSE m \in ahead : TRUE, !.inFrame = turns]
                    ELSE [c EXCEPT !.inFrame = turns]
           w == [r EXCEPT !.c = start]
           read[i \in 0..Len(f)] == IF i = 0 THEN w ELSE ReadEntry(read[i - 1], f[i])
           q == ProcessTLV(r, f)
<1>1. q = [read[Len(f)] EXCEPT !.c.inFrame = c.inFrame]
    BY DEF ProcessTLV
<1>2. PICK n \in Nat : AFrame(f, n) /\ Len(f) = n /\ DOMAIN f = 1..n
    <2>1. PICK n \in 1..MaxFrame : f \in [1..n -> Entries]
        BY DEF RacFrames
    <2>2. \A i, j \in DOMAIN f :
             f[i][1] = f[j][1] \/ {f[i][1], f[j][1]} \subseteq Settings => i = j
        BY DEF RacFrames
    <2>3. n \in Nat /\ Len(f) = n /\ DOMAIN f = 1..n
        BY <2>1, LenProperties
    <2> QED
        BY <2>1, <2>2, <2>3 DEF AFrame
<1>3. read = CHOOSE g : g = [i \in 0..n |-> IF i = 0 THEN w ELSE ReadEntry(g[i - 1], f[i])]
    BY <1>2, Zenon DEF read
<1> HIDE DEF read
<1>4. c \in ClimateRecords /\ r = [c |-> c, out |-> <<>>, p |-> r.p]
    BY DEF RacResults
<1>5. q = [read[n] EXCEPT !.c.inFrame = c.inFrame]
    BY <1>1, <1>2
<1> HIDE DEF q
<1>6. turns \in BOOLEAN
    OBVIOUS
<1>7. ASSUME NEW v \in RacResults, BackOf(c, v), q = [v EXCEPT !.c.inFrame = c.inFrame]
      PROVE  q \in RacResults /\ BackOf(c, q)
    <2>1. /\ q \in RacResults /\ q.out = v.out /\ q.p = v.p
          /\ q.c.power = v.c.power /\ q.c.mode = v.c.mode /\ q.c.kept = v.c.kept
          /\ q.c.powerPrev = v.c.powerPrev
        BY <1>4, <1>7 DEF RacResults, ClimateRecords
    <2>2. \A s \in Settings : Applies(q.c, s) <=> Applies(v.c, s)
        BY <2>1 DEF Applies
    <2> QED
        BY <1>7, <2>1, <2>2 DEF BackOf, Few
<1>8. CASE turns
    <2> DEFINE m == start.mode
    <2>1. /\ start \in ClimateRecords /\ start.inFrame = TRUE
          /\ start.kept = c.kept /\ start.powerPrev = c.powerPrev
          /\ \A i \in 1..n : f[i][1] = "mode" => f[i][2] = m
        <3>1. CASE ahead = {}
            <4>1. start = [c EXCEPT !.inFrame = TRUE]
                BY <1>8, <3>1
            <4>2. \A i \in 1..n : f[i][1] # "mode"
                BY <1>2, <3>1
            <4> HIDE DEF start
            <4> QED
                BY <1>4, <4>1, <4>2 DEF ClimateRecords
        <3>2. CASE ahead # {}
            <4> DEFINE a == CHOOSE x \in ahead : TRUE
            <4>1. start = [c EXCEPT !.mode = a, !.inFrame = TRUE]
                BY <1>8, <3>2
            <4>2. a \in ahead
                BY <3>2
            <4>3. PICK i \in 1..n : f[i][1] = "mode" /\ f[i][2] = a
                BY <1>2, <4>2
            <4>4. a \in RacModes
                <5>1. f[i] \in Entries
                    BY <1>2 DEF AFrame
                <5> QED
                    BY <4>3, <5>1 DEF Entries, Settings
            <4>5. \A j \in 1..n : f[j][1] = "mode" => f[j][2] = a
                BY <1>2, <4>3 DEF AFrame
            <4> HIDE DEF start, a
            <4>6. /\ start \in ClimateRecords /\ start.inFrame = TRUE
                  /\ start.kept = c.kept /\ start.powerPrev = c.powerPrev /\ start.mode = a
                BY <1>4, <4>1, <4>4 DEF ClimateRecords
            <4> QED
                BY <4>5, <4>6
        <3> QED
            BY <3>1, <3>2
    <2>2. PICK i \in 1..n : f[i][1] = "power" /\ f[i][2] # c.powerPrev
        BY <1>2, <1>8
    <2>3. \A j \in 1..n : f[j][1] = "power" => f[j][2] # c.powerPrev
        BY <1>2, <2>2 DEF AFrame
    <2>4. c.powerPrev # "unknown"
        BY <1>8
    <2> HIDE DEF start, turns
    <2>5. /\ w \in RacResults /\ w.c = start /\ w.out = <<>>
        BY <1>4, <2>1 DEF RacResults
    <2> HIDE DEF w, m
    <2>6. /\ read[0] = w
          /\ \A k \in 1..n : read[k] = ReadEntry(read[k - 1], f[k])
        <3>1. \E g : ReadsAll(g, w, f, n)
            BY <1>2, <2>5, EntriesRead
        <3>2. read = [k \in 0..n |-> IF k = 0 THEN w ELSE ReadEntry(read[k - 1], f[k])]
            BY <1>3, <3>1, Zenon DEF ReadsAll
        <3>3. 0 \in 0..n /\ \A k \in 1..n : k \in 0..n /\ k # 0
            BY <1>2
        <3> QED
            BY <3>2, <3>3
    <2>7. Turned(w, 0, c, f, m)
        BY <2>1, <2>5, CarriedNone DEF Turned, m
    <2> DEFINE S == {k \in Nat : k <= n => Turned(read[k], k, c, f, m)}
    <2>8. 0 \in S
        BY <2>6, <2>7
    <2>9. \A k \in Nat : k \in S => k + 1 \in S
        <3> SUFFICES ASSUME NEW k \in Nat, k + 1 <= n, Turned(read[k], k, c, f, m)
                     PROVE  Turned(read[k + 1], k + 1, c, f, m)
            OBVIOUS
        <3>1. k + 1 \in 1..n /\ (k + 1) - 1 = k
            OBVIOUS
        <3>2. read[k + 1] = ReadEntry(read[k], f[k + 1])
            BY <2>6, <3>1
        <3>3. Turned(ReadEntry(read[k], f[k + 1]), k + 1, c, f, m)
            <4> DEFINE u == read[k]
            <4> HIDE DEF u, c
            <4>1. Turned(u, k, c, f, m)
                BY DEF u
            <4>2. \A j \in 1..n : /\ f[j][1] = "power" => f[j][2] # c.powerPrev
                                  /\ f[j][1] = "mode" => f[j][2] = m
                BY <2>1, <2>3 DEF m
            <4>3. Turned(ReadEntry(u, f[k + 1]), k + 1, c, f, m)
                BY <1>2, <2>4, <4>1, <4>2, TurnedNext
            <4> QED
                BY <4>3 DEF u
        <3> QED
            BY <3>2, <3>3
    <2> HIDE DEF S
    <2>10. n \in S
        BY <1>2, <2>8, <2>9, EveryNumber
    <2>11. Turned(read[n], n, c, f, m)
        BY <2>10 DEF S
    <2>12. Carried(f, n, {"power"})
        BY <2>2 DEF Carried
    <2>13. BackOf(c, read[n]) /\ read[n] \in RacResults
        <3>1. BackOf(c, read[n])
            BY <2>4, <2>11, <2>12, TurnedBack
        <3> QED
            BY <2>11, <3>1 DEF Turned
    <2> QED
        BY <1>5, <1>7, <2>13 DEF q
<1>9. CASE ~turns
    <2>1. start = [c EXCEPT !.inFrame = FALSE]
        BY <1>9
    <2>2. c.powerPrev # "unknown" => \A i \in 1..n : f[i][1] = "power" => f[i][2] = c.powerPrev
        BY <1>2, <1>9
    <2> HIDE DEF start, turns
    <2>3. /\ start \in ClimateRecords /\ start.inFrame = FALSE /\ start.mode = c.mode
          /\ start.powerPrev = c.powerPrev /\ start.modePrev = c.modePrev
        BY <1>4, <2>1 DEF ClimateRecords
    <2>4. /\ w \in RacResults /\ w.c = start /\ w.out = <<>>
        BY <1>4, <2>3 DEF RacResults
    <2> HIDE DEF w
    <2>5. /\ read[0] = w
          /\ \A k \in 1..n : read[k] = ReadEntry(read[k - 1], f[k])
        <3>1. \E g : ReadsAll(g, w, f, n)
            BY <1>2, <2>4, EntriesRead
        <3>2. read = [k \in 0..n |-> IF k = 0 THEN w ELSE ReadEntry(read[k - 1], f[k])]
            BY <1>3, <3>1, Zenon DEF ReadsAll
        <3>3. 0 \in 0..n /\ \A k \in 1..n : k \in 0..n /\ k # 0
            BY <1>2
        <3> QED
            BY <3>2, <3>3
    <2>6. Steady(w, 0, c, f)
        BY <2>3, <2>4, CarriedNone DEF Steady
    <2> DEFINE S == {k \in Nat : k <= n => Steady(read[k], k, c, f)}
    <2>7. 0 \in S
        BY <2>5, <2>6
    <2>8. \A k \in Nat : k \in S => k + 1 \in S
        <3> SUFFICES ASSUME NEW k \in Nat, k + 1 <= n, Steady(read[k], k, c, f)
                     PROVE  Steady(read[k + 1], k + 1, c, f)
            OBVIOUS
        <3>1. k + 1 \in 1..n /\ (k + 1) - 1 = k
            OBVIOUS
        <3>2. read[k + 1] = ReadEntry(read[k], f[k + 1])
            BY <2>5, <3>1
        <3>3. Steady(ReadEntry(read[k], f[k + 1]), k + 1, c, f)
            <4> DEFINE u == read[k]
            <4> HIDE DEF u, c
            <4>1. Steady(u, k, c, f)
                BY DEF u
            <4>2. Steady(ReadEntry(u, f[k + 1]), k + 1, c, f)
                BY <1>2, <2>2, <4>1, SteadyNext
            <4> QED
                BY <4>2 DEF u
        <3> QED
            BY <3>2, <3>3
    <2> HIDE DEF S
    <2>9. n \in S
        BY <1>2, <2>7, <2>8, EveryNumber
    <2>10. Steady(read[n], n, c, f)
        BY <2>9 DEF S
    <2>11. BackOf(c, read[n]) /\ read[n] \in RacResults
        <3>1. BackOf(c, read[n])
            BY <2>10, SteadyBack
        <3> QED
            BY <2>10, <3>1 DEF Steady
    <2> QED
        BY <1>5, <1>7, <2>11 DEF q
<1> QED
    BY <1>8, <1>9

-----------------------------------------------------------------------------
(* The steps.                                                              *)

LEMMA TimesOften ==
    ASSUME NEW s
    PROVE  Times(s)' = HowOften(written', s)
BY DEF Times, HowOften

\* A step that writes nothing and sees no power.
LEMMA NothingBack ==
    ASSUME written' = <<>>, climate'.powerPrev = climate.powerPrev
    PROVE  WrittenBack
<1>1. \A s \in Settings : Times(s)' = 0
    BY TimesOften, NeverOften
<1> QED
    BY <1>1 DEF WrittenBack

LEMMA FrameBack ==
    ASSUME NEW q \in RacResults, BackOf(climate, q),
           climate' = q.c, written' = q.out, polling' = q.p
    PROVE  WrittenBack
<1>1. \A s \in Settings : Times(s)' = HowOften(q.out, s) /\ HowOften(q.out, s) \in Nat
    <2>1. q.out \in Seq(Settings)
        BY DEF RacResults
    <2> QED
        BY <2>1, TimesOften, HowOftenFacts
<1>2. climate.powerPrev = "off" /\ climate'.powerPrev = "on" =>
         \A s \in Settings : s \in climate.kept /\ s \in climate'.kept /\ Applies(climate', s)
                             => Times(s)' = 1
    BY <1>1 DEF BackOf
<1>3. \A s \in Settings :
         Times(s)' <= IF /\ climate.modePrev \notin {"unknown", climate.mode}
                         /\ climate'.powerPrev = climate.powerPrev THEN 2 ELSE 1
    BY <1>1 DEF BackOf, Few
<1>4. /\ climate.powerPrev = "unknown" /\ climate'.mode = climate.mode => written' = <<>>
      /\ climate'.power = "off" => written' = <<>>
      /\ climate.powerPrev = "on" /\ climate'.powerPrev = "off" => polling'.reset
    BY DEF BackOf
<1> QED
    BY <1>2, <1>3, <1>4 DEF WrittenBack

LEMMA RacFrameKeeps ==
    ASSUME RacAssumption, RacInv, NEW f \in RacFrames, RacFrame(f)
    PROVE  RacInv' /\ WrittenBack
<1> DEFINE r == Result(polling)
           q == ProcessTLV(r, f)
<1>1. r \in RacResults /\ r.out = <<>> /\ r.c = climate
    BY DEF RacInv, RacTypeOK, Result, RacResults
<1>2. climate' = q.c /\ written' = q.out /\ polling' = q.p
    BY DEF RacFrame
<1> HIDE DEF r
<1>3. q \in RacResults /\ BackOf(climate, q)
    BY <1>1, ProcessTLVBack
<1> HIDE DEF q
<1>4. stage = "ready" /\ UNCHANGED <<stage, filter>>
    BY DEF RacFrame
<1>5. RacInv'
    BY <1>2, <1>3, <1>4 DEF RacInv, RacTypeOK, StartsOnce, RacResults
<1> QED
    BY <1>2, <1>3, <1>5, FrameBack

LEMMA StartKeeps ==
    ASSUME RacAssumption, RacInv,
           ValuesReceived \/ BlacklistSet \/ FilterTimeout \/ \E life \in BOOLEAN : FilterData(life)
    PROVE  RacInv' /\ WrittenBack
<1>1. stage \in {"asking", "unmasking", "probing"} /\ UNCHANGED <<climate, written, polling>>
    BY DEF ValuesReceived, BlacklistSet, FilterTimeout, FilterData
<1>2. written' = <<>> /\ climate'.powerPrev = climate.powerPrev
    BY <1>1 DEF RacInv
<1>3. \/ filter' = filter /\ stage' \in {"unmasking", "probing"}
      \/ \E known \in BOOLEAN : MakeConfig(known) /\ stage' = "ready"
    BY DEF ValuesReceived, BlacklistSet, FilterTimeout, FilterData
<1>4. CASE filter' = filter /\ stage' \in {"unmasking", "probing"}
    <2>1. RacTypeOK'
        BY <1>1, <1>4 DEF RacInv, RacTypeOK, Stages
    <2>2. StartsOnce'
        BY <1>1, <1>4 DEF RacInv, StartsOnce
    <2> QED
        BY <1>1, <1>2, <1>4, <2>1, <2>2, NothingBack DEF RacInv
<1>5. ASSUME NEW known \in BOOLEAN, MakeConfig(known), stage' = "ready"
      PROVE  RacInv'
    <2>1. filter' = [offered |-> known, daily |-> known, made |-> 1]
        BY <1>1, <1>5 DEF RacInv, MakeConfig
    <2>2. RacTypeOK'
        BY <1>1, <1>5, <2>1 DEF RacInv, RacTypeOK, Stages
    <2>3. StartsOnce'
        BY <1>5, <2>1 DEF StartsOnce
    <2> QED
        BY <1>5, <2>2, <2>3 DEF RacInv
<1> QED
    BY <1>2, <1>3, <1>4, <1>5, NothingBack

LEMMA PollingKeeps ==
    ASSUME RacAssumption, RacInv,
           SlowAgain \/ StopTimers \/ \E resting \in BOOLEAN : RunningFlag(resting)
    PROVE  RacInv' /\ WrittenBack
<1>1. written' = <<>> /\ climate' = climate
    BY DEF SlowAgain, StopTimers, RunningFlag
<1>2. <<>> \in Seq(Settings)
    OBVIOUS
<1>3. WrittenBack
    BY <1>1, NothingBack
<1>4. CASE SlowAgain
    <2>1. RacTypeOK'
        BY <1>1, <1>2, <1>4 DEF RacInv, RacTypeOK, SlowAgain
    <2>2. StartsOnce'
        BY <1>4 DEF RacInv, StartsOnce, SlowAgain
    <2> QED
        BY <1>1, <1>3, <1>4, <2>1, <2>2 DEF RacInv, SlowAgain
<1>5. CASE StopTimers
    <2>1. RacTypeOK'
        BY <1>1, <1>2, <1>5 DEF RacInv, RacTypeOK, StopTimers, Stages
    <2>2. StartsOnce'
        BY <1>5 DEF RacInv, RacTypeOK, StartsOnce, StopTimers
    <2> QED
        BY <1>1, <1>3, <1>5, <2>1, <2>2 DEF RacInv, StopTimers
<1>6. ASSUME NEW resting \in BOOLEAN, RunningFlag(resting)
      PROVE  RacInv'
    <2> DEFINE p == [polling EXCEPT !.rests = resting]
               r == Result(p)
               q == ClimateAction(r)
    <2>1. stage = "ready" /\ polling' = q.p /\ UNCHANGED <<stage, filter>>
        BY <1>6 DEF RunningFlag
    <2>2. p \in [fast: BOOLEAN, reset: BOOLEAN, rests: BOOLEAN]
        BY DEF RacInv, RacTypeOK
    <2> HIDE DEF p
    <2>3. r \in RacResults
        BY <1>2, <2>2 DEF RacInv, RacTypeOK, Result, RacResults
    <2> HIDE DEF r
    <2>4. q \in RacResults
        BY <2>3, ClimateActionFacts
    <2> HIDE DEF q
    <2>5. RacTypeOK'
        BY <1>1, <1>2, <2>1, <2>4 DEF RacInv, RacTypeOK, RacResults
    <2>6. StartsOnce'
        BY <2>1 DEF RacInv, StartsOnce
    <2> QED
        BY <2>1, <2>5, <2>6 DEF RacInv
<1> QED
    BY <1>3, <1>4, <1>5, <1>6

LEMMA RacCommandKeeps ==
    ASSUME RacAssumption, RacInv,
           \/ \E m \in RacModes \cup {"off"} : CommandMode(m)
           \/ \E on \in OffOn : CommandPower(on)
           \/ \E s \in Settings, on \in BOOLEAN : CommandSetting(s, on)
    PROVE  RacInv' /\ WrittenBack
<1>1. stage = "ready" /\ written' = <<>> /\ UNCHANGED <<stage, filter, polling>>
    BY DEF CommandMode, CommandPower, CommandSetting
<1>2. climate' \in ClimateRecords /\ climate'.powerPrev = climate.powerPrev
    <2>1. climate \in ClimateRecords
        BY DEF RacInv, RacTypeOK
    <2>2. ASSUME NEW m \in RacModes \cup {"off"}, CommandMode(m)
          PROVE  climate' \in ClimateRecords /\ climate'.powerPrev = climate.powerPrev
        <3>1. CASE m = "off"
            <4>1. climate' = [climate EXCEPT !.power = "off"]
                BY <2>2, <3>1 DEF CommandMode
            <4> QED
                BY <2>1, <4>1 DEF ClimateRecords, OffOn
        <3>2. CASE m # "off"
            <4>1. climate' = [climate EXCEPT !.mode = m, !.power = "on"] /\ m \in RacModes
                BY <2>2, <3>2 DEF CommandMode
            <4> QED
                BY <2>1, <4>1 DEF ClimateRecords, OffOn
        <3> QED
            BY <3>1, <3>2
    <2>3. ASSUME NEW on \in OffOn, CommandPower(on)
          PROVE  climate' \in ClimateRecords /\ climate'.powerPrev = climate.powerPrev
        BY <2>1, <2>3 DEF CommandPower, ClimateRecords
    <2>4. ASSUME NEW s \in Settings, NEW on \in BOOLEAN, CommandSetting(s, on)
          PROVE  climate' \in ClimateRecords /\ climate'.powerPrev = climate.powerPrev
        <3> DEFINE r == Result(polling)
                   k == IF on THEN climate.kept \cup {s} ELSE climate.kept \ {s}
                   o == IF r.c.power = "on" /\ Applies(r.c, s) THEN Append(r.out, s) ELSE r.out
        <3>1. r = [c |-> climate, out |-> <<>>, p |-> polling]
            BY DEF Result
        <3>2. SetSetting(r, s, on) = [r EXCEPT !.c.kept = k, !.out = o]
            BY <3>1 DEF SetSetting
        <3>3. climate' = SetSetting(r, s, on).c
            BY <2>4 DEF CommandSetting
        <3>4. k \in SUBSET Settings
            BY <2>1 DEF ClimateRecords
        <3> DEFINE u == [r EXCEPT !.c.kept = k]
        <3> HIDE DEF k, o, r
        <3>5. climate' = [climate EXCEPT !.kept = k]
            <4>1. SetSetting(r, s, on) = [u EXCEPT !.out = o]
                BY <3>2
            <4>2. u = [c |-> [climate EXCEPT !.kept = k], out |-> <<>>, p |-> polling]
                BY <3>1
            <4> HIDE DEF u
            <4> QED
                BY <3>3, <4>1, <4>2
        <3> QED
            BY <2>1, <3>4, <3>5 DEF ClimateRecords
    <2> QED
        BY <2>2, <2>3, <2>4
<1>3. <<>> \in Seq(Settings)
    OBVIOUS
<1>4. RacInv'
    BY <1>1, <1>2, <1>3 DEF RacInv, RacTypeOK, StartsOnce
<1> QED
    BY <1>1, <1>2, <1>4, NothingBack

LEMMA RacStarts ==
    ASSUME RacInit
    PROVE  RacInv
<1>1. written = <<>> /\ <<>> \in Seq(Settings)
    BY DEF RacInit
<1>2. climate \in ClimateRecords
    BY DEF RacInit, ClimateRecords, OffOn
<1>3. RacTypeOK
    BY <1>1, <1>2 DEF RacInit, RacTypeOK, Stages
<1> QED
    BY <1>1, <1>3 DEF RacInit, RacInv, StartsOnce

LEMMA RacKeeps ==
    ASSUME RacAssumption, RacInv, [RacNext]_racVars
    PROVE  RacInv' /\ [WrittenBack]_racVars
<1>1. CASE ValuesReceived \/ BlacklistSet \/ FilterTimeout \/ \E life \in BOOLEAN : FilterData(life)
    BY <1>1, StartKeeps
<1>2. CASE SlowAgain \/ StopTimers \/ \E resting \in BOOLEAN : RunningFlag(resting)
    BY <1>2, PollingKeeps
<1>3. ASSUME NEW f \in RacFrames, RacFrame(f)
      PROVE  RacInv' /\ WrittenBack
    BY <1>3, RacFrameKeeps
<1>4. CASE \/ \E m \in RacModes \cup {"off"} : CommandMode(m)
           \/ \E on \in OffOn : CommandPower(on)
           \/ \E s \in Settings, on \in BOOLEAN : CommandSetting(s, on)
    BY <1>4, RacCommandKeeps
<1>5. CASE UNCHANGED racVars
    <2>1. UNCHANGED <<stage, filter, climate, written, polling>>
        BY <1>5 DEF racVars
    <2>2. RacTypeOK'
        BY <2>1 DEF RacInv, RacTypeOK
    <2> QED
        BY <1>5, <2>1, <2>2 DEF RacInv, StartsOnce
<1> QED
    BY <1>1, <1>2, <1>3, <1>4, <1>5 DEF RacNext

\* The start of the wall air conditioner ends once.
THEOREM RacInvariantHolds ==
    ASSUME RacAssumption
    PROVE  RacSpec => []RacInv
<1>1. RacInit => RacInv
    BY RacStarts
<1>2. RacInv /\ [RacNext]_racVars => RacInv'
    BY RacKeeps
<1> QED
    BY <1>1, <1>2, PTL DEF RacSpec

\* Its settings are written back when the appliance moved, and not otherwise.
THEOREM SettingsBack ==
    ASSUME RacAssumption
    PROVE  RacSpec => SettingsWrittenBack
<1>1. RacInv /\ [RacNext]_racVars => [WrittenBack]_racVars
    BY RacKeeps
<1> QED
    BY <1>1, RacInvariantHolds, PTL DEF RacSpec, SettingsWrittenBack

-----------------------------------------------------------------------------
(* The records.  What is read is the beginning of what was built.          *)

Field == [t : Tags, v : FieldValues]
\* What is read of the first fields.
ReadOf(fs, m) == [j \in 1..m |-> [t |-> fs[j].t, l |-> LengthOf(fs[j].v), v |-> fs[j].v]]

BytesInv ==
    /\ RecordsTypeOK
    /\ Len(bytes) <= Len(Build(fields))
    /\ \A q \in 1..Len(bytes) : bytes[q] = Build(fields)[q]

\* Of the bytes of a field its tag, length and value are read again.
LEMMA FieldBytesFacts ==
    ASSUME RecordsAssumption, NEW f \in Field
    PROVE  LET B == FieldBytes(f)
               l == LengthOf(f.v)
           IN  /\ B \in Seq(0..255) /\ l \in 0..3 /\ Len(B) = 2 + l
               /\ (B[2] \div 16) % 4 = l
               /\ B[1] * 4 + B[2] \div 64 = f.t
               /\ l = 0 => B[2] % 16 = f.v
               /\ l = 1 => B[3] = f.v
               /\ l = 2 => B[3] * 256 + B[4] = f.v
               /\ l = 3 => (B[3] * 256 + B[4]) * 256 + B[5] = f.v
<1> DEFINE B == FieldBytes(f)
           l == LengthOf(f.v)
           t == f.t
           v == f.v
           x == (t \div 4) % 256
           y == (t % 4) * 64 + IF l = 0 THEN v ELSE l * 16
<1>1. t \in 0..1023 /\ v \in Nat /\ v < 256 * 65536
    <2>1. t \in Tags /\ v \in FieldValues
        BY DEF Field
    <2> HIDE DEF t, v, l, B
    <2>2. t \in 0..1023
        BY <2>1 DEF RecordsAssumption
    <2>3. v \in Nat /\ v < 256 * 65536
        BY <2>1 DEF RecordsAssumption
    <2> QED
        BY <2>2, <2>3
<1>2. l \in 0..3 /\ (l = 0 => v < 16) /\ (l = 1 => v < 256) /\ (l = 2 => v < 65536)
    BY <1>1 DEF LengthOf
<1>3. B = IF l = 0 THEN <<x, y>> ELSE IF l = 1 THEN <<x, y, v % 256>>
          ELSE IF l = 2 THEN <<x, y, (v \div 256) % 256, v % 256>>
          ELSE <<x, y, (v \div 65536) % 256, (v \div 256) % 256, v % 256>>
    BY DEF FieldBytes
<1> HIDE DEF l, B, t, v
<1>4. x = t \div 4 /\ x \in 0..255
    BY <1>1
<1>5. /\ y \in 0..255 /\ y \div 64 = t % 4 /\ (y \div 16) % 4 = l
      /\ l = 0 => y % 16 = v
    <2> DEFINE r == t % 4
               z == IF l = 0 THEN v ELSE l * 16
    <2>1. r \in 0..3 /\ z \in 0..63 /\ z \div 16 = l /\ y = r * 64 + z /\ (l = 0 => z % 16 = v)
        BY <1>1, <1>2
    <2> HIDE DEF r, z, y
    <2>2. y \in 0..255 /\ y \div 64 = r /\ (l = 0 => y % 16 = v)
        BY <2>1
    <2>3. y \div 16 = r * 4 + l
        BY <1>2, <2>1
    <2>4. (y \div 16) % 4 = l
        BY <1>2, <2>1, <2>3
    <2> QED
        BY <2>2, <2>4 DEF r
<1>6. x * 4 + y \div 64 = t
    BY <1>1, <1>4, <1>5
<1> HIDE DEF x, y
<1>7. CASE l = 0
    <2>1. B = <<x, y>>
        BY <1>3, <1>7
    <2> QED
        BY <1>4, <1>5, <1>6, <1>7, <2>1 DEF B, l, t, v
<1>8. CASE l = 1
    <2>1. B = <<x, y, v>>
        BY <1>1, <1>2, <1>3, <1>8
    <2>2. v \in 0..255
        BY <1>1, <1>2, <1>8
    <2> QED
        BY <1>4, <1>5, <1>6, <1>8, <2>1, <2>2 DEF B, l, t, v
<1>9. CASE l = 2
    <2> DEFINE p == v \div 256
               q == v % 256
    <2>1. p \in 0..255 /\ q \in 0..255 /\ p * 256 + q = v /\ p % 256 = p
        BY <1>1, <1>2, <1>9
    <2>2. B = <<x, y, p, q>>
        BY <1>3, <1>9, <2>1
    <2> HIDE DEF p, q
    <2> QED
        BY <1>4, <1>5, <1>6, <1>9, <2>1, <2>2 DEF B, l, t, v
<1>10. CASE l = 3
    <2> DEFINE o == v \div 65536
               p == (v \div 256) % 256
               q == v % 256
    <2>1. o \in 0..255 /\ p \in 0..255 /\ q \in 0..255 /\ (o * 256 + p) * 256 + q = v /\ o % 256 = o
        BY <1>1
    <2>2. B = <<x, y, o, p, q>>
        BY <1>3, <1>10, <2>1
    <2> HIDE DEF o, p, q
    <2> QED
        BY <1>4, <1>5, <1>6, <1>10, <2>1, <2>2 DEF B, l, t, v
<1> QED
    BY <1>2, <1>7, <1>8, <1>9, <1>10 DEF B, l, t, v

\* Each field is built behind those before it.
LEMMA BuiltFacts ==
    ASSUME RecordsAssumption, NEW n \in Nat, NEW fs \in [1..n -> Field]
    PROVE  /\ BuiltOf(fs)[0] = <<>>
           /\ \A k \in 0..n : BuiltOf(fs)[k] \in Seq(0..255)
           /\ \A k \in 1..n : BuiltOf(fs)[k] = BuiltOf(fs)[k - 1] \o FieldBytes(fs[k])
<1> DEFINE W == Seq(0..255)
           F == [x \in (1..n) \X W |-> x[2] \o FieldBytes(fs[x[1]])]
           built[i \in 0..Len(fs)] == IF i = 0 THEN <<>> ELSE built[i - 1] \o FieldBytes(fs[i])
<1>1. Len(fs) = n
    BY LenProperties
<1>2. F \in [(1..n) \X W -> W]
    <2>1. ASSUME NEW k \in 1..n, NEW v \in W
          PROVE  v \o FieldBytes(fs[k]) \in W
        <3>1. fs[k] \in Field
            OBVIOUS
        <3>2. FieldBytes(fs[k]) \in W
            BY <3>1, FieldBytesFacts
        <3> HIDE DEF W
        <3> QED
            BY <3>2, ConcatProperties DEF W
    <2> HIDE DEF W
    <2> QED
        BY <2>1
<1>3. <<>> \in W
    OBVIOUS
<1>4. PICK g \in [0..n -> W] : \A k \in 0..n : g[k] = IF k = 0 THEN <<>> ELSE F[<<k, g[k - 1]>>]
    <2> HIDE DEF F, W
    <2>1. PICK g : g \in Courses(W, <<>>, n, F)
        BY <1>2, <1>3, LoopExists
    <2> QED
        BY <2>1 DEF Courses
<1> HIDE DEF W
<1>5. \A k \in 0..n : g[k] = IF k = 0 THEN <<>> ELSE g[k - 1] \o FieldBytes(fs[k])
    <2> TAKE k \in 0..n
    <2>1. CASE k # 0
        <3>1. k \in 1..n /\ k - 1 \in 0..n
            BY <2>1
        <3>2. F[<<k, g[k - 1]>>] = g[k - 1] \o FieldBytes(fs[k])
            BY <1>4, <3>1
        <3> QED
            BY <1>4, <2>1, <3>2
    <2> QED
        BY <1>4, <2>1
<1>6. g = [k \in 0..n |-> IF k = 0 THEN <<>> ELSE g[k - 1] \o FieldBytes(fs[k])]
    BY <1>4, <1>5
<1>7. \E h : h = [k \in 0..n |-> IF k = 0 THEN <<>> ELSE h[k - 1] \o FieldBytes(fs[k])]
    BY <1>6
<1>8. built = [k \in 0..n |-> IF k = 0 THEN <<>> ELSE built[k - 1] \o FieldBytes(fs[k])]
    BY <1>1, <1>7, Zenon DEF built
<1>9. BuiltOf(fs) = built
    BY DEF BuiltOf
<1> HIDE DEF built
<1> DEFINE S == {k \in Nat : k <= n => built[k] \in W}
<1>10. 0 \in S
    BY <1>3, <1>8
<1>11. \A k \in 1..n : built[k] = built[k - 1] \o FieldBytes(fs[k])
    <2>1. \A k \in 1..n : k \in 0..n /\ k # 0
        OBVIOUS
    <2> QED
        BY <1>8, <2>1
<1>12. ASSUME NEW k \in Nat, k \in S
       PROVE  k + 1 \in S
    <2>1. CASE k + 1 <= n
        <3>1. k + 1 \in 1..n /\ (k + 1) - 1 = k /\ built[k] \in W
            BY <1>12, <2>1
        <3>2. built[k + 1] = F[<<k + 1, built[k]>>]
            BY <1>11, <3>1
        <3>3. <<k + 1, built[k]>> \in (1..n) \X W
            BY <3>1
        <3> HIDE DEF F
        <3> QED
            BY <1>2, <3>2, <3>3
    <2> QED
        BY <2>1
<1>13. Nat \subseteq S
    <2> HIDE DEF S
    <2> QED
        BY <1>10, <1>12, EveryNumber
<1>14. \A k \in 0..n : built[k] \in W
    BY <1>13
<1>15. built[0] = <<>>
    BY <1>8
<1> QED
    BY <1>9, <1>11, <1>14, <1>15 DEF W

\* The bytes of a field are found behind those of the fields before it.
LEMMA BuiltBytes ==
    ASSUME RecordsAssumption, NEW n \in Nat, NEW fs \in [1..n -> Field], NEW k \in 1..n
    PROVE  LET i == Len(BuiltOf(fs)[k - 1])
               B == FieldBytes(fs[k])
           IN  /\ i \in Nat /\ Len(BuiltOf(fs)[k]) = i + Len(B)
               /\ i + Len(B) <= Len(Build(fs))
               /\ \A p \in 1..Len(B) : Build(fs)[i + p] = B[p]
<1> DEFINE G == BuiltOf(fs)
           i == Len(G[k - 1])
           B == FieldBytes(fs[k])
           Bears(m) == i + Len(B) <= Len(G[m]) /\ \A p \in 1..Len(B) : G[m][i + p] = B[p]
           S == {m \in Nat : m <= n /\ m >= k => Bears(m)}
<1>1. Len(fs) = n
    BY LenProperties
<1>2. /\ \A m \in 0..n : G[m] \in Seq(0..255)
      /\ \A m \in 1..n : G[m] = G[m - 1] \o FieldBytes(fs[m])
    BY BuiltFacts
<1>3. \A m \in 1..n : FieldBytes(fs[m]) \in Seq(0..255)
    <2> TAKE m \in 1..n
    <2>1. fs[m] \in Field
        OBVIOUS
    <2> QED
        BY <2>1, FieldBytesFacts
<1> HIDE DEF G
<1>4. B \in Seq(0..255) /\ G[k - 1] \in Seq(0..255) /\ G[k] = G[k - 1] \o B /\ k - 1 \in 0..n
    BY <1>2, <1>3
<1> HIDE DEF B
<1>5. i \in Nat /\ Len(B) \in Nat /\ Len(G[k]) = i + Len(B) /\ \A p \in 1..Len(B) : G[k][i + p] = B[p]
    BY <1>4, ConcatProperties, LenProperties
<1> HIDE DEF i
<1>6. 0 \in S
    OBVIOUS
<1>7. ASSUME NEW m \in Nat, m \in S
      PROVE  m + 1 \in S
    <2>1. CASE m + 1 = k
        <3>1. Bears(k)
            BY <1>5
        <3> HIDE DEF Bears
        <3> QED
            BY <2>1, <3>1
    <2>2. CASE m >= k /\ m + 1 <= n
        <3> DEFINE C == FieldBytes(fs[m + 1])
        <3>1. m + 1 \in 1..n /\ (m + 1) - 1 = m /\ m \in 0..n
            BY <2>2
        <3>2. /\ G[m] \in Seq(0..255) /\ C \in Seq(0..255) /\ G[m + 1] = G[m] \o C
            BY <1>2, <1>3, <2>2, <3>1
        <3> HIDE DEF C
        <3>5. Bears(m)
            <4> HIDE DEF Bears
            <4> QED
                BY <1>7, <2>2
        <3>3. Len(G[m]) \in Nat /\ Len(C) \in Nat /\ Len(G[m + 1]) = Len(G[m]) + Len(C)
            BY <3>2, ConcatProperties, LenProperties
        <3>4. \A p \in 1..Len(B) : G[m + 1][i + p] = B[p]
            <4> TAKE p \in 1..Len(B)
            <4>1. i + p \in 1..Len(G[m])
                BY <1>5, <3>3, <3>5
            <4> QED
                BY <3>2, <3>5, <4>1, ConcatProperties
        <3>6. Bears(m + 1)
            BY <1>5, <3>3, <3>4, <3>5
        <3> HIDE DEF Bears
        <3> QED
            BY <3>6
    <2> HIDE DEF Bears
    <2> QED
        BY <2>1, <2>2
<1>8. Nat \subseteq S
    <2> HIDE DEF S
    <2> QED
        BY <1>6, <1>7, EveryNumber
<1>9. n \in S
    BY <1>8
<1>10. Build(fs) = G[n]
    BY <1>1 DEF Build, G
<1> QED
    BY <1>5, <1>9, <1>10 DEF G, i, B

\* A turn reads the next field, when it is there as a whole, and nothing otherwise.
LEMMA FieldIsParsed ==
    ASSUME RecordsAssumption, NEW n \in Nat, NEW fs \in [1..n -> Field], NEW k \in 1..n,
           NEW b \in Seq(0..255), Len(b) <= Len(Build(fs)),
           \A q \in 1..Len(b) : b[q] = Build(fs)[q],
           NEW out
    PROVE  LET i == Len(BuiltOf(fs)[k - 1])
               p == [i |-> i, out |-> out]
           IN  ParseOnce(b, p) =
                   IF Len(BuiltOf(fs)[k]) > Len(b) THEN p
                   ELSE [i |-> Len(BuiltOf(fs)[k]),
                         out |-> Append(out, [t |-> fs[k].t, l |-> LengthOf(fs[k].v), v |-> fs[k].v])]
<1> DEFINE i == Len(BuiltOf(fs)[k - 1])
           e == Len(BuiltOf(fs)[k])
           B == FieldBytes(fs[k])
           l == LengthOf(fs[k].v)
           p == [i |-> i, out |-> out]
           R == Build(fs)
<1>1. /\ i \in Nat /\ e = i + Len(B) /\ e <= Len(R)
      /\ \A j \in 1..Len(B) : R[i + j] = B[j]
    BY BuiltBytes
<1>2. fs[k] \in Field
    OBVIOUS
<1>3. /\ B \in Seq(0..255) /\ l \in 0..3 /\ Len(B) = 2 + l
      /\ (B[2] \div 16) % 4 = l
      /\ B[1] * 4 + B[2] \div 64 = fs[k].t
      /\ l = 0 => B[2] % 16 = fs[k].v
      /\ l = 1 => B[3] = fs[k].v
      /\ l = 2 => B[3] * 256 + B[4] = fs[k].v
      /\ l = 3 => (B[3] * 256 + B[4]) * 256 + B[5] = fs[k].v
    BY <1>2, FieldBytesFacts
<1> HIDE DEF i, e, B, l, R
<1>4. Len(b) \in Nat /\ l \in 0..3 /\ Len(B) = 2 + l /\ e = i + 2 + l /\ i \in Nat
    <2>1. Len(b) \in Nat
        BY LenProperties
    <2>2. l \in 0..3 /\ Len(B) = 2 + l
        BY <1>3, Zenon
    <2>3. e = i + Len(B) /\ i \in Nat
        BY <1>1, Zenon
    <2> QED
        BY <2>1, <2>2, <2>3
<1>5. \A j \in 1..(2 + l) : i + j <= Len(b) => b[i + j] = B[j]
    <2> SUFFICES ASSUME NEW j \in 1..(2 + l), i + j <= Len(b)
                 PROVE  b[i + j] = B[j]
        OBVIOUS
    <2>1. i + j \in 1..Len(b) /\ j \in 1..Len(B)
        <3>1. j \in Nat /\ j >= 1 /\ j <= 2 + l
            BY <1>4
        <3>2. i + j \in Nat /\ i + j >= 1
            BY <1>4, <3>1
        <3> QED
            BY <1>4, <3>1, <3>2
    <2>2. b[i + j] = R[i + j] /\ R[i + j] = B[j]
        BY <1>1, <2>1 DEF R
    <2> QED
        BY <2>2
<1>6. CASE i + 2 > Len(b)
    <2>1. ParseOnce(b, p) = p
        BY <1>6 DEF ParseOnce
    <2>2. e > Len(b)
        BY <1>4, <1>6
    <2> QED
        BY <2>1, <2>2 DEF i, e
<1>7. CASE i + 2 <= Len(b)
    <2>1. b[i + 1] = B[1] /\ b[i + 2] = B[2]
        <3>1. 1 \in 1..(2 + l) /\ 2 \in 1..(2 + l) /\ i + 1 <= Len(b) /\ i + 2 <= Len(b)
            BY <1>4, <1>7
        <3> QED
            BY <1>5, <3>1
    <2>2. LengthAt(b, p.i) = l /\ TagAt(b, p.i) = fs[k].t
        BY <1>3, <2>1 DEF LengthAt, TagAt
    <2>3. CASE i + 2 + l > Len(b)
        <3>1. ParseOnce(b, p) = p
            BY <1>4, <2>2, <2>3 DEF ParseOnce
        <3>2. e > Len(b)
            BY <1>4, <2>3
        <3> QED
            BY <3>1, <3>2 DEF i, e
    <2>4. CASE i + 2 + l <= Len(b)
        <3>1. /\ l >= 1 => b[i + 3] = B[3]
              /\ l >= 2 => b[i + 4] = B[4]
              /\ l >= 3 => b[i + 5] = B[5]
            <4>1. \A j \in 1..(2 + l) : b[i + j] = B[j]
                BY <1>4, <1>5, <2>4
            <4>2. /\ l >= 1 => 3 \in 1..(2 + l)
                  /\ l >= 2 => 4 \in 1..(2 + l)
                  /\ l >= 3 => 5 \in 1..(2 + l)
                BY <1>3
            <4> QED
                BY <4>1, <4>2
        <3>2. ValueAt(b, p.i) = fs[k].v
            BY <1>3, <2>1, <2>2, <3>1 DEF ValueAt
        <3>3. ~(p.i + 2 > Len(b)) /\ ~(p.i + 2 + LengthAt(b, p.i) > Len(b))
            <4>1. p.i = i
                OBVIOUS
            <4> HIDE DEF p
            <4> QED
                BY <1>4, <1>7, <2>2, <2>4, <4>1
        <3>4. ParseOnce(b, p) = [i |-> i + 2 + l, out |-> Append(out, [t |-> fs[k].t, l |-> l, v |-> fs[k].v])]
            BY <2>2, <3>2, <3>3 DEF ParseOnce
        <3>5. e = i + 2 + l /\ ~(e > Len(b))
            BY <1>4, <2>4
        <3> QED
            BY <3>4, <3>5 DEF i, e, l
    <2> QED
        BY <1>4, <2>3, <2>4
<1> QED
    BY <1>4, <1>6, <1>7

\* What is read of a beginning of a record: as many fields as are there as a whole.
LEMMA WholeFieldsAreParsed ==
    ASSUME RecordsAssumption, NEW n \in Nat, NEW fs \in [1..n -> Field],
           NEW b \in Seq(0..255), Len(b) <= Len(Build(fs)),
           \A q \in 1..Len(b) : b[q] = Build(fs)[q]
    PROVE  \E m \in 0..n :
               /\ Len(BuiltOf(fs)[m]) <= Len(b)
               /\ m < n => Len(BuiltOf(fs)[m + 1]) > Len(b)
               /\ Parse(b) = ReadOf(fs, m)
<1> DEFINE G == BuiltOf(fs)
           T == {m \in 0..n : Len(G[m]) <= Len(b)}
           At(m) == [i |-> Len(G[m]), out |-> ReadOf(fs, m)]
<1>1. /\ G[0] = <<>>
      /\ \A m \in 0..n : G[m] \in Seq(0..255)
    BY BuiltFacts
<1>2. Len(fs) = n /\ Build(fs) = G[n]
    BY LenProperties DEF Build
<1>3. Len(b) \in Nat
    BY LenProperties
<1>4. \A m \in 0..n : Len(G[m]) \in Nat
    <2> HIDE DEF G
    <2> QED
        BY <1>1, LenProperties
<1>5. ASSUME NEW m \in 1..n
      PROVE  Len(G[m]) >= Len(G[m - 1]) + 2
    <2>1. fs[m] \in Field
        OBVIOUS
    <2>2. Len(FieldBytes(fs[m])) >= 2
        <3>1. Len(FieldBytes(fs[m])) = 2 + LengthOf(fs[m].v) /\ LengthOf(fs[m].v) \in 0..3
            BY <2>1, FieldBytesFacts
        <3> QED
            BY <3>1
    <2>3. Len(G[m]) = Len(G[m - 1]) + Len(FieldBytes(fs[m])) /\ Len(G[m - 1]) \in Nat
        BY BuiltBytes
    <2>4. FieldBytes(fs[m]) \in Seq(0..255)
        BY <2>1, FieldBytesFacts
    <2>5. Len(FieldBytes(fs[m])) \in Nat
        BY <2>4, LenProperties
    <2> HIDE DEF G
    <2> QED
        BY <2>2, <2>3, <2>5
<1>6. ASSUME NEW m \in 1..n
      PROVE  ParseOnce(b, At(m - 1)) = IF Len(G[m]) > Len(b) THEN At(m - 1) ELSE At(m)
    <2> DEFINE r == [t |-> fs[m].t, l |-> LengthOf(fs[m].v), v |-> fs[m].v]
    <2>1. ParseOnce(b, At(m - 1)) =
              IF Len(G[m]) > Len(b) THEN At(m - 1)
              ELSE [i |-> Len(G[m]), out |-> Append(ReadOf(fs, m - 1), r)]
        BY FieldIsParsed
    <2>2. Append(ReadOf(fs, m - 1), r) = ReadOf(fs, m)
        <3> DEFINE E(j) == [t |-> fs[j].t, l |-> LengthOf(fs[j].v), v |-> fs[j].v]
        <3>1. ReadOf(fs, m - 1) = [j \in 1..(m - 1) |-> E(j)] /\ ReadOf(fs, m) = [j \in 1..m |-> E(j)] /\ r = E(m)
            BY DEF ReadOf
        <3> HIDE DEF E, r
        <3>2. Append([j \in 1..(m - 1) |-> E(j)], E(m)) = [j \in 1..m |-> E(j)]
            OBVIOUS
        <3> QED
            BY <3>1, <3>2
    <2> QED
        BY <2>1, <2>2
<1> HIDE DEF G
<1>7. PICK x \in T : \A y \in T : y <= x
    <2>1. T \in SUBSET (0..n) /\ 0 \in T
        BY <1>1, <1>3
    <2> HIDE DEF T
    <2> QED
        BY <2>1, GreatestElement
<1>8. x \in 0..n /\ Len(G[x]) <= Len(b)
    BY <1>7
<1>9. x < n => x + 1 \in 1..n /\ (x + 1) - 1 = x /\ Len(G[x + 1]) > Len(b)
    <2>1. CASE x < n
        <3>1. x + 1 \in 0..n /\ x + 1 \notin T
            BY <1>7, <1>8, <2>1
        <3>2. ~(Len(G[x + 1]) <= Len(b))
            BY <3>1
        <3> QED
            BY <1>3, <1>4, <1>8, <2>1, <3>1, <3>2
    <2> QED
        BY <2>1
<1>10. \A m \in 0..x : m <= Len(G[m]) /\ Len(G[m]) <= Len(b)
    <2> DEFINE U == {m \in Nat : m <= x => m <= Len(G[m])}
               D == {m \in Nat : m <= x => Len(G[x - m]) <= Len(b)}
    <2>1. 0 \in U
        BY <1>4
    <2>2. \A m \in Nat : m \in U => m + 1 \in U
        <3> SUFFICES ASSUME NEW m \in Nat, m \in U, m + 1 <= x
                     PROVE  m + 1 <= Len(G[m + 1])
            OBVIOUS
        <3>1. m + 1 \in 1..n /\ (m + 1) - 1 = m /\ m \in 0..n /\ m + 1 \in 0..n
            BY <1>8
        <3>2. Len(G[m + 1]) >= Len(G[m]) + 2
            BY <1>5, <3>1
        <3> QED
            BY <1>4, <1>8, <3>1, <3>2
    <2>3. 0 \in D
        BY <1>8
    <2>4. \A m \in Nat : m \in D => m + 1 \in D
        <3> SUFFICES ASSUME NEW m \in Nat, m \in D, m + 1 <= x
                     PROVE  Len(G[x - (m + 1)]) <= Len(b)
            OBVIOUS
        <3>1. x - m \in 1..n /\ (x - m) - 1 = x - (m + 1) /\ x - m \in 0..n /\ x - (m + 1) \in 0..n
            BY <1>8
        <3>2. Len(G[x - m]) >= Len(G[x - (m + 1)]) + 2
            BY <1>5, <3>1
        <3>3. Len(G[x - m]) <= Len(b)
            BY <1>8
        <3> QED
            BY <1>3, <1>4, <3>1, <3>2, <3>3
    <2>5. Nat \subseteq U /\ Nat \subseteq D
        <3> HIDE DEF U, D
        <3> QED
            BY <2>1, <2>2, <2>3, <2>4, EveryNumber
    <2> TAKE m \in 0..x
    <2>6. m \in Nat /\ x - m \in Nat /\ x - (x - m) = m /\ x - m <= x
        BY <1>8
    <2>7. m \in U /\ x - m \in D
        BY <2>5, <2>6
    <2> QED
        BY <2>6, <2>7
<1> DEFINE Turn(k) == At(IF k <= x THEN k ELSE x)
<1>11. ASSUME NEW k \in 1..Len(b)
       PROVE  Turn(k) = ParseOnce(b, Turn(k - 1))
    <2> HIDE DEF At
    <2>1. CASE k <= x
        <3>1. k \in 1..n /\ k \in 0..x /\ k - 1 <= x
            BY <1>8, <2>1
        <3>2. ParseOnce(b, At(k - 1)) = At(k)
            BY <1>3, <1>4, <1>6, <1>10, <3>1
        <3> QED
            BY <2>1, <3>1, <3>2
    <2>2. CASE k > x
        <3>1. Turn(k) = At(x) /\ Turn(k - 1) = At(x)
            BY <1>8, <2>2
        <3>2. ParseOnce(b, At(x)) = At(x)
            <4>1. CASE x < n
                BY <1>6, <1>9, <4>1
            <4>2. CASE x = n
                <5>1. Len(G[x]) >= Len(b)
                    BY <1>2, <4>2
                <5>2. Len(G[x]) + 2 > Len(b)
                    BY <1>3, <1>4, <1>8, <5>1
                <5> QED
                    BY <5>2 DEF At, ParseOnce
            <4> QED
                BY <1>8, <4>1, <4>2
        <3> QED
            BY <3>1, <3>2
    <2> QED
        BY <1>8, <2>1, <2>2
<1>12. Turn(0) = [i |-> 0, out |-> <<>>]
    <2>1. ReadOf(fs, 0) = <<>>
        BY DEF ReadOf
    <2> QED
        BY <1>1, <1>8, <2>1
<1> HIDE DEF At
<1> DEFINE turn[k \in 0..Len(b)] == IF k = 0 THEN [i |-> 0, out |-> <<>>] ELSE ParseOnce(b, turn[k - 1])
<1>13. turn = [k \in 0..Len(b) |-> IF k = 0 THEN [i |-> 0, out |-> <<>>] ELSE ParseOnce(b, turn[k - 1])]
    <2> DEFINE h == [k \in 0..Len(b) |-> Turn(k)]
    <2> HIDE DEF Turn
    <2>1. \A k \in 0..Len(b) : h[k] = IF k = 0 THEN [i |-> 0, out |-> <<>>] ELSE ParseOnce(b, h[k - 1])
        <3> TAKE k \in 0..Len(b)
        <3>1. CASE k # 0
            <4>1. k \in 1..Len(b) /\ k - 1 \in 0..Len(b)
                BY <1>3, <3>1
            <4>2. h[k] = Turn(k) /\ h[k - 1] = Turn(k - 1)
                BY <4>1
            <4> HIDE DEF h
            <4> QED
                BY <1>11, <3>1, <4>1, <4>2
        <3> QED
            BY <1>12, <3>1
    <2>2. h = [k \in 0..Len(b) |-> h[k]]
        OBVIOUS
    <2> HIDE DEF h
    <2>3. h = [k \in 0..Len(b) |-> IF k = 0 THEN [i |-> 0, out |-> <<>>] ELSE ParseOnce(b, h[k - 1])]
        BY <2>1, <2>2
    <2>4. \E g : g = [k \in 0..Len(b) |-> IF k = 0 THEN [i |-> 0, out |-> <<>>] ELSE ParseOnce(b, g[k - 1])]
        BY <2>3
    <2> QED
        BY <2>4, Zenon DEF turn
<1>14. Parse(b) = turn[Len(b)].out
    BY DEF Parse
<1> HIDE DEF turn, Turn
<1> DEFINE S == {k \in Nat : k <= Len(b) => turn[k] = Turn(k)}
<1>15. 0 \in S
    BY <1>3, <1>12, <1>13
<1>16. \A k \in Nat : k \in S => k + 1 \in S
    <2> SUFFICES ASSUME NEW k \in Nat, k \in S, k + 1 <= Len(b)
                 PROVE  turn[k + 1] = Turn(k + 1)
        <3>1. \A j \in Nat : j + 1 \in Nat
            OBVIOUS
        <3> QED
            BY <3>1, Zenon
    <2>1. k + 1 \in 0..Len(b) /\ k + 1 \in 1..Len(b) /\ k + 1 # 0 /\ (k + 1) - 1 = k
        BY <1>3
    <2>2. turn[k + 1] = ParseOnce(b, turn[k])
        BY <1>13, <2>1
    <2>3. turn[k] = Turn(k)
        BY <1>3
    <2> QED
        BY <1>11, <2>1, <2>2, <2>3
<1>17. turn[Len(b)] = Turn(Len(b))
    <2>1. Nat \subseteq S
        <3> HIDE DEF S
        <3> QED
            BY <1>15, <1>16, EveryNumber
    <2> QED
        BY <1>3, <2>1
<1>18. Turn(Len(b)) = At(x)
    <2>1. x \in 0..x
        BY <1>8
    <2>2. x <= Len(b)
        BY <1>3, <1>4, <1>8, <1>10, <2>1
    <2> QED
        BY <1>3, <1>8, <2>2 DEF Turn
<1>19. Parse(b) = ReadOf(fs, x)
    BY <1>14, <1>17, <1>18 DEF At
<1> QED
    BY <1>8, <1>9, <1>19 DEF G

\* Of a record that is cut anywhere the whole fields are read.
LEMMA FieldsAreReadAlways ==
    ASSUME RecordsAssumption, BytesInv
    PROVE  FieldsAreRead
<1> DEFINE n == Len(fields)
<1>1. n \in Nat /\ fields \in [1..n -> Field] /\ bytes \in Seq(0..255)
    BY LenProperties DEF BytesInv, RecordsTypeOK, Field
<1>2. PICK m \in 0..n :
          /\ Len(BuiltOf(fields)[m]) <= Len(bytes)
          /\ m < n => Len(BuiltOf(fields)[m + 1]) > Len(bytes)
          /\ Parse(bytes) = ReadOf(fields, m)
    <2> HIDE DEF n
    <2> QED
        BY <1>1, WholeFieldsAreParsed DEF BytesInv
<1> QED
    BY <1>2 DEF FieldsAreRead, ReadOf

\* A record that is not cut.
LEMMA RecordsBegin ==
    ASSUME RecordsAssumption, RecordsInit
    PROVE  BytesInv
<1>1. PICK n \in 0..MaxFields : fields \in [1..n -> Field]
    BY DEF RecordsInit, Field
<1>2. n \in Nat /\ Len(fields) = n /\ fields \in Seq(Field) /\ n <= MaxFields
    BY <1>1, LenProperties DEF RecordsAssumption
<1>3. bytes \in Seq(0..255)
    <2>1. n \in 0..n
        BY <1>2
    <2>2. BuiltOf(fields)[n] \in Seq(0..255)
        BY <1>1, <1>2, <2>1, BuiltFacts
    <2> QED
        BY <1>2, <2>2 DEF RecordsInit, Build
<1>4. Len(bytes) \in Nat /\ bytes = Build(fields)
    BY <1>3, LenProperties DEF RecordsInit
<1> QED
    BY <1>2, <1>3, <1>4 DEF BytesInv, RecordsTypeOK, Field

\* A record loses its last byte.
LEMMA RecordsStep ==
    ASSUME RecordsAssumption, BytesInv, [RecordsNext]_recordVars
    PROVE  BytesInv'
<1>1. CASE Cut
    <2>1. bytes \in Seq(0..255) /\ bytes # <<>> /\ bytes' = SubSeq(bytes, 1, Len(bytes) - 1) /\ fields' = fields
        BY <1>1 DEF Cut, BytesInv, RecordsTypeOK
    <2>2. Len(bytes) \in Nat /\ Len(bytes) >= 1
        BY <2>1, LenProperties, EmptySeq
    <2>3. /\ bytes' \in Seq(0..255) /\ Len(bytes') = Len(bytes) - 1
          /\ \A q \in 1..Len(bytes') : bytes'[q] = bytes[q]
        <3> DEFINE n == Len(bytes) - 1
        <3>1. n \in Nat /\ n <= Len(bytes)
            BY <2>2
        <3>2. bytes' = SubSeq(bytes, 1, n)
            BY <2>1
        <3> HIDE DEF n
        <3>3. \A q \in 1..n : bytes[q] \in 0..255
            <4> TAKE q \in 1..n
            <4>1. q \in 1..Len(bytes)
                BY <2>2, <3>1
            <4> QED
                BY <2>1, <4>1, ElementOfSeq
        <3>4. 1 \in Int /\ n \in Int /\ n - 1 + 1 = n
            BY <3>1
        <3>5. /\ SubSeq(bytes, 1, n) \in Seq(0..255)
              /\ Len(SubSeq(bytes, 1, n)) = IF 1 <= n THEN n - 1 + 1 ELSE 0
              /\ \A q \in 1..(n - 1 + 1) : SubSeq(bytes, 1, n)[q] = bytes[1 + q - 1]
            BY <3>3, <3>4, SubSeqProperties
        <3>6. \A q \in 1..n : 1 + q - 1 = q
            BY <3>1
        <3> QED
            BY <3>1, <3>2, <3>4, <3>5, <3>6 DEF n
    <2>4. Build(fields)' = Build(fields)
        BY <2>1 DEF Build, BuiltOf
    <2>5. Len(bytes) <= Len(Build(fields)) /\ \A q \in 1..Len(bytes) : bytes[q] = Build(fields)[q]
        BY DEF BytesInv
    <2>6. Len(bytes') <= Len(Build(fields)) /\ \A q \in 1..Len(bytes') : bytes'[q] = Build(fields)[q]
        BY <2>2, <2>3, <2>5
    <2> QED
        BY <2>1, <2>3, <2>4, <2>6 DEF BytesInv, RecordsTypeOK
<1>2. CASE UNCHANGED recordVars
    <2>1. Build(fields)' = Build(fields)
        BY <1>2 DEF Build, BuiltOf, recordVars
    <2> QED
        BY <1>2, <2>1 DEF BytesInv, RecordsTypeOK, recordVars
<1> QED
    BY <1>1, <1>2 DEF RecordsNext

\* However much a record is cut, its bytes are the first of those that were built.
THEOREM RecordsInvariantHolds ==
    ASSUME RecordsAssumption
    PROVE  RecordsSpec => []BytesInv
<1>1. RecordsInit => BytesInv
    BY RecordsBegin
<1>2. BytesInv /\ [RecordsNext]_recordVars => BytesInv'
    BY RecordsStep
<1> QED
    BY <1>1, <1>2, PTL DEF RecordsSpec

-----------------------------------------------------------------------------
(* The stream of a ThinQ1 appliance.  While its socket is open, the first  *)
(* frames were taken from it and told, and what is kept are the bytes      *)
(* behind them; when it is open no more, what was told of them may be      *)
(* followed by its end.  The loop of the splitter keeps that with every    *)
(* turn, until the next frame is not there yet.                            *)

NSent == Len(sent.frames)
Says(i) == sent.frames[i].says
GoodFrame(i) == Says(i) \in {"alive", "report", "answer"}

SentByte == (1..NSent) \X (1..(HeaderBytes + MaxPayload + 1))
ToldEvent == {"data", "response", "error", "close"} \X (0..MaxFrames)

StreamWorld ==
    [con : [socket : {"open", "ended", "destroyed", "closed"}, accum : Seq(SentByte), broken : BOOLEAN,
            failed : BOOLEAN, id : BOOLEAN, timer : BOOLEAN],
     told : Seq(ToldEvent)]

\* What is told of the first frames, of an appliance with metadata.
HeardOf ==
    LET hear[i \in 0..NSent] ==
            IF i = 0 THEN <<>> ELSE IF Says(i) = "alive" THEN hear[i - 1] ELSE Append(hear[i - 1], Event(i))
    IN  hear

\* The bytes behind the first m frames.
KeptBehind(m, a) == [p \in 1..(a - EndOf[m]) |-> Stream[EndOf[m] + p]]

\* Of a bytes the first m frames are taken, and nothing is wrong.
Reading(w, m, a) ==
    /\ EndOf[m] <= a
    /\ \A i \in 1..m : GoodFrame(i)
    /\ w.con.socket = "open" /\ ~w.con.failed /\ ~w.con.broken
    /\ w.con.id <=> m > 0
    /\ w.con.accum = KeptBehind(m, a)
    /\ ~sent.known => m = 0
    /\ w.told = HeardOf[m]

\* The next frame is not there yet.
Waiting(m, a) == m = NSent \/ (a < EndOf[m + 1] /\ a - EndOf[m] < HeaderBytes + MaxPayload)

Closing(c, heard) ==
    LET erred == IF c.id /\ c.failed THEN Append(heard, <<"error", 0>>) ELSE heard
    IN  IF c.id /\ c.socket = "closed" THEN Append(erred, <<"close", 0>>) ELSE erred

\* The first m frames are all that will be told.
Taken(m, a) ==
    /\ EndOf[m] <= a
    /\ \A i \in 1..m : Says(i) # "garbage"
    /\ \A i \in 1..(m - 1) : GoodFrame(i)
    /\ \/ m = NSent
       \/ a < EndOf[m + 1]
       \/ Says(m + 1) = "garbage"
       \/ m > 0 /\ ~GoodFrame(m)

Over(w, m, a) ==
    /\ Taken(m, a)
    /\ w.con.id <=> m > 0
    /\ w.con.failed => w.con.socket \in {"destroyed", "closed"}
    /\ w.told = Closing(w.con, HeardOf[m])

StreamGoes(w, a) ==
    /\ w \in StreamWorld
    /\ w.con.socket = "open" => \E m \in 0..NSent : Reading(w, m, a) /\ Waiting(m, a)
    /\ w.con.socket # "open" /\ sent.known => \E m \in 0..NSent : Over(w, m, a)
    /\ w.con.socket # "open" /\ ~sent.known => w.told = <<>>

SentRight == \E n \in 0..MaxFrames : sent \in [frames : [1..n -> StreamFrame], known : BOOLEAN]

StreamInv ==
    /\ SentRight
    /\ arrived \in 0..EndOf[NSent]
    /\ StreamGoes(World, arrived)

\* What is sent: every frame has a header, and a good one a length that is allowed.
LEMMA SentFacts ==
    ASSUME StreamAssumption, SentRight
    PROVE  /\ NSent \in Nat /\ NSent <= MaxFrames /\ sent.known \in BOOLEAN
           /\ HeaderBytes \in Nat /\ HeaderBytes > 0
           /\ MaxPayload \in Nat /\ MaxPayload > 0 /\ MaxFrames \in Nat
           /\ \A i \in 1..NSent :
                 /\ sent.frames[i].length \in (-1)..(MaxPayload + 1)
                 /\ Says(i) \in {"alive", "report", "answer", "refused", "garbage"}
                 /\ sent.frames[i].length \in 1..MaxPayload \/ Says(i) = "garbage"
                 /\ SizeOf(i) \in HeaderBytes..(HeaderBytes + MaxPayload + 1)
                 /\ sent.frames[i].length \in Nat => SizeOf(i) = HeaderBytes + sent.frames[i].length
<1>1. PICK n \in 0..MaxFrames : sent \in [frames : [1..n -> StreamFrame], known : BOOLEAN]
    BY DEF SentRight
<1>2. HeaderBytes \in Nat /\ HeaderBytes > 0 /\ MaxPayload \in Nat /\ MaxPayload > 0 /\ MaxFrames \in Nat
    BY DEF StreamAssumption
<1>3. sent.frames \in [1..n -> StreamFrame] /\ sent.known \in BOOLEAN /\ n \in Nat /\ n <= MaxFrames
    BY <1>1, <1>2
<1>4. NSent = n
    BY <1>3, LenProperties DEF NSent
<1>5. ASSUME NEW i \in 1..NSent
      PROVE  /\ sent.frames[i].length \in (-1)..(MaxPayload + 1)
             /\ Says(i) \in {"alive", "report", "answer", "refused", "garbage"}
             /\ sent.frames[i].length \in 1..MaxPayload \/ Says(i) = "garbage"
             /\ SizeOf(i) \in HeaderBytes..(HeaderBytes + MaxPayload + 1)
             /\ sent.frames[i].length \in Nat => SizeOf(i) = HeaderBytes + sent.frames[i].length
    <2>1. sent.frames[i] \in StreamFrame
        BY <1>3, <1>4
    <2>2. /\ sent.frames[i].length \in (-1)..(MaxPayload + 1)
          /\ Says(i) \in {"alive", "report", "answer", "refused", "garbage"}
          /\ sent.frames[i].length \in 1..MaxPayload \/ Says(i) = "garbage"
        BY <2>1 DEF StreamFrame, Says
    <2> QED
        BY <1>2, <2>2 DEF SizeOf
<1> QED
    BY <1>2, <1>3, <1>4, <1>5

\* Where the frames end.
LEMMA EndOfFacts ==
    ASSUME StreamAssumption, SentRight
    PROVE  /\ EndOf[0] = 0
           /\ \A i \in 0..NSent : EndOf[i] \in Nat
           /\ \A i \in 1..NSent : EndOf[i] = EndOf[i - 1] + SizeOf(i)
<1> DEFINE W == Nat
           F == [x \in (1..NSent) \X W |-> x[2] + SizeOf(x[1])]
           end[i \in 0..Len(sent.frames)] == IF i = 0 THEN 0 ELSE end[i - 1] + SizeOf(i)
<1>1. NSent \in Nat /\ HeaderBytes \in Nat /\ MaxPayload \in Nat
      /\ \A i \in 1..NSent : SizeOf(i) \in HeaderBytes..(HeaderBytes + MaxPayload + 1)
    BY SentFacts
<1>2. \A i \in 1..NSent : SizeOf(i) \in Nat
    BY <1>1
<1>3. F \in [(1..NSent) \X W -> W]
    BY <1>2
<1>4. PICK g \in [0..NSent -> W] : \A k \in 0..NSent : g[k] = IF k = 0 THEN 0 ELSE F[<<k, g[k - 1]>>]
    <2>1. 0 \in W
        OBVIOUS
    <2> HIDE DEF F, W
    <2>2. PICK g : g \in Courses(W, 0, NSent, F)
        BY <1>1, <1>3, <2>1, LoopExists
    <2> QED
        BY <2>2 DEF Courses
<1>5. \A k \in 0..NSent : g[k] = IF k = 0 THEN 0 ELSE g[k - 1] + SizeOf(k)
    <2> TAKE k \in 0..NSent
    <2>1. CASE k # 0
        <3>1. k \in 1..NSent /\ k - 1 \in 0..NSent
            BY <1>1, <2>1
        <3>2. F[<<k, g[k - 1]>>] = g[k - 1] + SizeOf(k)
            BY <1>4, <3>1
        <3> QED
            BY <1>4, <2>1, <3>2
    <2> QED
        BY <1>4, <2>1
<1>6. g = [k \in 0..NSent |-> IF k = 0 THEN 0 ELSE g[k - 1] + SizeOf(k)]
    BY <1>4, <1>5
<1>7. \E h : h = [k \in 0..NSent |-> IF k = 0 THEN 0 ELSE h[k - 1] + SizeOf(k)]
    BY <1>6
<1>8. end = [k \in 0..NSent |-> IF k = 0 THEN 0 ELSE end[k - 1] + SizeOf(k)]
    BY <1>7, Zenon DEF end, NSent
<1>9. EndOf = end
    BY DEF EndOf
<1> HIDE DEF end
<1>10. \A k \in 1..NSent : end[k] = end[k - 1] + SizeOf(k)
    <2>1. \A k \in 1..NSent : k \in 0..NSent /\ k # 0
        BY <1>1
    <2> QED
        BY <1>8, <2>1
<1>11. end[0] = 0
    BY <1>1, <1>8
<1> DEFINE S == {k \in Nat : k <= NSent => end[k] \in Nat}
<1>12. 0 \in S
    BY <1>11
<1>13. \A k \in Nat : k \in S => k + 1 \in S
    <2> SUFFICES ASSUME NEW k \in Nat, k \in S, k + 1 <= NSent
                 PROVE  end[k + 1] \in Nat
        OBVIOUS
    <2>1. k + 1 \in 1..NSent /\ (k + 1) - 1 = k
        BY <1>1
    <2>2. end[k] \in Nat
        BY <1>1
    <2> QED
        BY <1>2, <1>10, <2>1, <2>2
<1>14. Nat \subseteq S
    <2> HIDE DEF S
    <2> QED
        BY <1>12, <1>13, EveryNumber
<1>15. \A k \in 0..NSent : end[k] \in Nat
    BY <1>1, <1>14
<1> QED
    BY <1>9, <1>10, <1>11, <1>15

\* No two frames end at the same byte.
LEMMA EndOfGrows ==
    ASSUME StreamAssumption, SentRight, NEW i \in 0..NSent, NEW j \in 0..NSent, i < j
    PROVE  EndOf[i] <= EndOf[j - 1] /\ EndOf[i] < EndOf[j]
<1> DEFINE S == {k \in Nat : i + k <= NSent => EndOf[i] <= EndOf[i + k]}
<1>1. NSent \in Nat /\ HeaderBytes \in Nat /\ HeaderBytes > 0 /\ MaxPayload \in Nat
      /\ \A k \in 1..NSent : SizeOf(k) \in HeaderBytes..(HeaderBytes + MaxPayload + 1)
    BY SentFacts
<1>2. /\ \A k \in 0..NSent : EndOf[k] \in Nat
      /\ \A k \in 1..NSent : EndOf[k] = EndOf[k - 1] + SizeOf(k)
    BY EndOfFacts
<1>3. \A k \in 1..NSent : EndOf[k - 1] < EndOf[k] /\ EndOf[k - 1] \in Nat /\ EndOf[k] \in Nat
    <2> TAKE k \in 1..NSent
    <2>1. k \in 0..NSent /\ k - 1 \in 0..NSent
        BY <1>1
    <2>2. EndOf[k] \in Nat /\ EndOf[k - 1] \in Nat /\ SizeOf(k) \in Nat /\ SizeOf(k) > 0
        BY <1>1, <1>2, <2>1
    <2> QED
        BY <1>2, <2>2
<1>4. 0 \in S
    BY <1>2
<1>5. \A k \in Nat : k \in S => k + 1 \in S
    <2> SUFFICES ASSUME NEW k \in Nat, k \in S, i + (k + 1) <= NSent
                 PROVE  EndOf[i] <= EndOf[i + (k + 1)]
        OBVIOUS
    <2>1. i + (k + 1) \in 1..NSent /\ (i + (k + 1)) - 1 = i + k /\ i + k <= NSent
        BY <1>1
    <2>2. EndOf[i] <= EndOf[i + k] /\ EndOf[i + k] < EndOf[i + (k + 1)]
        BY <1>3, <2>1
    <2> QED
        BY <1>2, <1>3, <2>1, <2>2
<1>6. Nat \subseteq S
    <2> HIDE DEF S
    <2> QED
        BY <1>4, <1>5, EveryNumber
<1>7. (j - 1) - i \in Nat /\ i + ((j - 1) - i) = j - 1 /\ j - 1 <= NSent /\ j \in 1..NSent
    BY <1>1
<1>8. EndOf[i] <= EndOf[j - 1]
    <2>1. (j - 1) - i \in S
        BY <1>6, <1>7
    <2> QED
        BY <1>7, <2>1
<1>9. EndOf[j - 1] < EndOf[j] /\ EndOf[j - 1] \in Nat /\ EndOf[j] \in Nat
    BY <1>3, <1>7
<1> QED
    BY <1>2, <1>8, <1>9

\* The bytes of the stream.
LEMMA StreamBytes ==
    ASSUME StreamAssumption, SentRight
    PROVE  /\ Stream \in Seq(SentByte) /\ Len(Stream) = EndOf[NSent]
           /\ \A i \in 1..NSent : \A p \in 1..SizeOf(i) :
                 EndOf[i - 1] + p \in 1..EndOf[NSent] /\ Stream[EndOf[i - 1] + p] = <<i, p>>
<1> DEFINE In(i, p) == EndOf[i - 1] < p /\ p <= EndOf[i]
           L == EndOf[NSent]
<1>1. NSent \in Nat /\ HeaderBytes \in Nat /\ HeaderBytes > 0 /\ MaxPayload \in Nat
      /\ \A k \in 1..NSent : SizeOf(k) \in HeaderBytes..(HeaderBytes + MaxPayload + 1)
    BY SentFacts
<1>2. /\ \A k \in 0..NSent : EndOf[k] \in Nat
      /\ \A k \in 1..NSent : EndOf[k] = EndOf[k - 1] + SizeOf(k)
      /\ EndOf[0] = 0
    BY EndOfFacts
<1>3. L \in Nat
    BY <1>1, <1>2
<1>4. Stream = [p \in 1..L |-> LET i == CHOOSE i \in 1..NSent : In(i, p) IN <<i, p - EndOf[i - 1]>>]
    BY DEF Stream, NSent
<1>5. ASSUME NEW i \in 1..NSent, NEW j \in 1..NSent, NEW p \in Nat, In(i, p), In(j, p)
      PROVE  i = j
    <2>1. ASSUME NEW x \in 1..NSent, NEW y \in 1..NSent, x < y, In(x, p), In(y, p)
          PROVE  FALSE
        <3>1. x \in 0..NSent /\ y \in 0..NSent /\ y - 1 \in 0..NSent
            BY <1>1
        <3>2. EndOf[x] <= EndOf[y - 1]
            BY <2>1, <3>1, EndOfGrows
        <3> QED
            BY <1>2, <2>1, <3>1, <3>2
    <2>2. ~(i < j) /\ ~(j < i)
        BY <1>5, <2>1
    <2> QED
        BY <1>1, <2>2
<1>6. ASSUME NEW p \in 1..L
      PROVE  \E i \in 1..NSent : In(i, p)
    <2> DEFINE T == {k \in 0..NSent : p <= EndOf[k]}
    <2>1. T \in SUBSET Nat /\ NSent \in T
        BY <1>1, <1>2
    <2>2. PICK x \in T : \A y \in T : x <= y
        <3> HIDE DEF T
        <3> QED
            BY <2>1, LeastElement
    <2>3. x \in 1..NSent /\ x - 1 \in 0..NSent
        BY <1>1, <1>2, <2>2
    <2>4. x - 1 \notin T
        BY <2>2, <2>3
    <2>5. In(x, p)
        BY <1>2, <1>3, <2>2, <2>3, <2>4
    <2> QED
        BY <2>3, <2>5
<1>7. ASSUME NEW i \in 1..NSent, NEW p \in 1..L, In(i, p)
      PROVE  Stream[p] = <<i, p - EndOf[i - 1]>>
    <2> HIDE DEF In, L
    <2>1. (CHOOSE j \in 1..NSent : In(j, p)) = i
        <3>1. p \in Nat
            BY <1>3
        <3> QED
            BY <1>5, <1>7, <3>1
    <2> QED
        BY <1>4, <2>1
<1>8. ASSUME NEW i \in 1..NSent, NEW p \in 1..SizeOf(i)
      PROVE  EndOf[i - 1] + p \in 1..L /\ Stream[EndOf[i - 1] + p] = <<i, p>>
    <2> DEFINE q == EndOf[i - 1] + p
    <2>1. i \in 0..NSent /\ i - 1 \in 0..NSent /\ NSent \in 0..NSent
        BY <1>1
    <2>2. EndOf[i] <= L
        <3>1. CASE i = NSent
            BY <1>3, <3>1
        <3>2. CASE i < NSent
            <4>1. EndOf[i] < EndOf[NSent]
                BY <2>1, <3>2, EndOfGrows
            <4> QED
                BY <1>2, <1>3, <2>1, <4>1
        <3> QED
            BY <1>1, <3>1, <3>2
    <2>3. /\ EndOf[i] \in Nat /\ EndOf[i - 1] \in Nat /\ SizeOf(i) \in Nat
          /\ EndOf[i] = EndOf[i - 1] + SizeOf(i)
        BY <1>1, <1>2, <2>1
    <2>4. q \in 1..L /\ In(i, q) /\ q - EndOf[i - 1] = p
        BY <1>3, <2>2, <2>3
    <2> HIDE DEF q, In
    <2>5. Stream[q] = <<i, q - EndOf[i - 1]>>
        BY <1>7, <2>4
    <2> QED
        BY <2>4, <2>5 DEF q
<1>9. ASSUME NEW p \in 1..L
      PROVE  Stream[p] \in SentByte
    <2>1. PICK i \in 1..NSent : In(i, p)
        BY <1>6
    <2>2. Stream[p] = <<i, p - EndOf[i - 1]>>
        BY <1>7, <2>1
    <2>3. i \in 0..NSent /\ i - 1 \in 0..NSent
        BY <1>1
    <2>4. p - EndOf[i - 1] \in 1..(HeaderBytes + MaxPayload + 1)
        BY <1>1, <1>2, <1>3, <2>1, <2>3
    <2> QED
        BY <2>2, <2>4 DEF SentByte
<1>10. Stream \in [1..L -> SentByte]
    <2>1. \E g : Stream = [p \in 1..L |-> g[p]]
        <3>1. Stream = [p \in 1..L |-> Stream[p]]
            BY <1>4
        <3> QED
            BY <3>1
    <2> QED
        BY <1>9, <2>1
<1>11. Stream \in Seq(SentByte) /\ Len(Stream) = L
    BY <1>3, <1>10, LenProperties
<1> QED
    BY <1>8, <1>11

\* What is told of the first frames.
LEMMA HearFacts ==
    ASSUME StreamAssumption, SentRight
    PROVE  /\ HeardOf[0] = <<>>
           /\ \A i \in 0..NSent : HeardOf[i] \in Seq(ToldEvent)
           /\ \A i \in 1..NSent : /\ Event(i) \in ToldEvent
                              /\ HeardOf[i] = IF Says(i) = "alive" THEN HeardOf[i - 1]
                                           ELSE Append(HeardOf[i - 1], Event(i))
<1> DEFINE W == Seq(ToldEvent)
           R(i, h) == IF Says(i) = "alive" THEN h ELSE Append(h, Event(i))
           F == [x \in (1..NSent) \X W |-> R(x[1], x[2])]
           hear[i \in 0..NSent] ==
               IF i = 0 THEN <<>> ELSE IF Says(i) = "alive" THEN hear[i - 1] ELSE Append(hear[i - 1], Event(i))
<1>1. NSent \in Nat /\ NSent <= MaxFrames /\ MaxFrames \in Nat
    BY SentFacts
<1>2. \A i \in 1..NSent : Event(i) \in ToldEvent
    BY <1>1 DEF Event, ToldEvent
<1>3. F \in [(1..NSent) \X W -> W]
    <2>1. ASSUME NEW i \in 1..NSent, NEW h \in W
          PROVE  R(i, h) \in W
        <3>1. Event(i) \in ToldEvent
            BY <1>2
        <3> QED
            BY <3>1
    <2> HIDE DEF W, R
    <2> QED
        BY <2>1
<1>4. PICK g \in [0..NSent -> W] : \A k \in 0..NSent : g[k] = IF k = 0 THEN <<>> ELSE F[<<k, g[k - 1]>>]
    <2>1. <<>> \in W
        OBVIOUS
    <2> HIDE DEF F, W
    <2>2. PICK g : g \in Courses(W, <<>>, NSent, F)
        BY <1>1, <1>3, <2>1, LoopExists
    <2> QED
        BY <2>2 DEF Courses
<1> HIDE DEF W
<1>5. \A k \in 0..NSent : g[k] = IF k = 0 THEN <<>> ELSE R(k, g[k - 1])
    <2> HIDE DEF R
    <2> TAKE k \in 0..NSent
    <2>1. CASE k # 0
        <3>1. k \in 1..NSent /\ k - 1 \in 0..NSent
            BY <1>1, <2>1
        <3>2. F[<<k, g[k - 1]>>] = R(k, g[k - 1])
            BY <1>4, <3>1
        <3> QED
            BY <1>4, <2>1, <3>2
    <2> QED
        BY <1>4, <2>1
<1>6. g = [k \in 0..NSent |-> IF k = 0 THEN <<>> ELSE R(k, g[k - 1])]
    <2> HIDE DEF R
    <2> QED
        BY <1>4, <1>5
<1>7. \E h : h = [k \in 0..NSent |-> IF k = 0 THEN <<>>
                                 ELSE IF Says(k) = "alive" THEN h[k - 1] ELSE Append(h[k - 1], Event(k))]
    BY <1>6
<1>8. hear = [k \in 0..NSent |-> IF k = 0 THEN <<>> ELSE R(k, hear[k - 1])]
    BY <1>7, Zenon DEF hear
<1>9. HeardOf = hear
    BY DEF HeardOf
<1> HIDE DEF hear
<1>10. \A k \in 1..NSent : hear[k] = R(k, hear[k - 1])
    <2> HIDE DEF R
    <2>1. \A k \in 1..NSent : k \in 0..NSent /\ k # 0
        BY <1>1
    <2> QED
        BY <1>8, <2>1
<1>11. hear[0] = <<>>
    BY <1>1, <1>8
<1> DEFINE S == {k \in Nat : k <= NSent => hear[k] \in W}
<1>12. 0 \in S
    <2>1. <<>> \in W
        BY DEF W
    <2> QED
        BY <1>11, <2>1
<1>13. \A k \in Nat : k \in S => k + 1 \in S
    <2> SUFFICES ASSUME NEW k \in Nat, k \in S, k + 1 <= NSent
                 PROVE  hear[k + 1] \in W
        OBVIOUS
    <2>1. k + 1 \in 1..NSent /\ (k + 1) - 1 = k
        BY <1>1
    <2>2. hear[k] \in W
        BY <1>1
    <2>3. <<k + 1, hear[k]>> \in (1..NSent) \X W
        BY <2>1, <2>2
    <2>4. hear[k + 1] = F[<<k + 1, hear[k]>>]
        <3> HIDE DEF R
        <3> QED
            BY <1>10, <2>1, <2>3
    <2> HIDE DEF F
    <2> QED
        BY <1>3, <2>3, <2>4
<1>14. Nat \subseteq S
    <2> HIDE DEF S
    <2> QED
        BY <1>12, <1>13, EveryNumber
<1>15. \A k \in 0..NSent : hear[k] \in W
    BY <1>1, <1>14
<1> QED
    BY <1>2, <1>9, <1>10, <1>11, <1>15 DEF W

-----------------------------------------------------------------------------
\* What no part of the splitter and its callback does: tell of an appliance without
\* metadata, or open a socket again.
Unopened(w, r) ==
    /\ r \in StreamWorld
    /\ ~sent.known => r.told = w.told
    /\ w.con.socket # "open" => r.con.socket # "open"

\* Telling the Device leaves the connection alone.
LEMMA ToldOnly ==
    ASSUME NEW w \in StreamWorld, NEW e \in ToldEvent
    PROVE  /\ Unopened(w, Tell(w, e))
           /\ Tell(w, e).con = w.con
           /\ Tell(w, e).told = IF w.con.id /\ sent.known THEN Append(w.told, e) ELSE w.told
<1>1. w.told \in Seq(ToldEvent)
    BY DEF StreamWorld
<1>2. Append(w.told, e) \in Seq(ToldEvent)
    BY <1>1
<1>3. [w EXCEPT !.told = Append(@, e)] \in StreamWorld
    BY <1>2 DEF StreamWorld
<1> QED
    BY <1>3 DEF Tell, StreamWorld, Unopened

\* A socket that is destroyed says nothing yet.
LEMMA DestroyedOnly ==
    ASSUME NEW w \in StreamWorld
    PROVE  /\ Unopened(w, Destroy(w))
           /\ Destroy(w).told = w.told
           /\ Destroy(w).con.socket = IF w.con.socket = "closed" THEN "closed" ELSE "destroyed"
           /\ Destroy(w).con.accum = w.con.accum
           /\ Destroy(w).con.broken = w.con.broken
           /\ Destroy(w).con.failed = w.con.failed
           /\ Destroy(w).con.id = w.con.id
BY DEF Destroy, StreamWorld, Unopened

\* A connection fails once: it destroys its socket and tells the Device.
LEMMA FailedOnly ==
    ASSUME StreamAssumption, NEW w \in StreamWorld
    PROVE  /\ Unopened(w, Fail(w))
           /\ Fail(w).con.failed
           /\ Fail(w).con.accum = w.con.accum
           /\ Fail(w).con.broken = w.con.broken
           /\ Fail(w).con.id = w.con.id
           /\ w.con.failed => Fail(w) = w
           /\ ~w.con.failed =>
                 /\ Fail(w).con.socket = IF w.con.socket = "closed" THEN "closed" ELSE "destroyed"
                 /\ Fail(w).told = IF w.con.id /\ sent.known THEN Append(w.told, <<"error", 0>>) ELSE w.told
<1> DEFINE f == [w EXCEPT !.con.failed = TRUE]
           t == Tell(f, <<"error", 0>>)
<1>1. /\ f \in StreamWorld /\ f.con.failed /\ f.told = w.told
      /\ f.con.socket = w.con.socket /\ f.con.accum = w.con.accum
      /\ f.con.broken = w.con.broken /\ f.con.id = w.con.id
    BY DEF StreamWorld
<1>2. <<"error", 0>> \in ToldEvent
    BY DEF ToldEvent, StreamAssumption
<1> HIDE DEF f
<1>3. /\ Unopened(f, t) /\ t.con = f.con
      /\ t.told = IF f.con.id /\ sent.known THEN Append(f.told, <<"error", 0>>) ELSE f.told
    BY <1>1, <1>2, ToldOnly
<1> HIDE DEF t
<1>4. t \in StreamWorld
    BY <1>3 DEF Unopened
<1>5. /\ Unopened(t, Destroy(t)) /\ Destroy(t).told = t.told
      /\ Destroy(t).con.socket = IF t.con.socket = "closed" THEN "closed" ELSE "destroyed"
      /\ Destroy(t).con.accum = t.con.accum
      /\ Destroy(t).con.broken = t.con.broken
      /\ Destroy(t).con.failed = t.con.failed
      /\ Destroy(t).con.id = t.con.id
    BY <1>4, DestroyedOnly
<1>6. Fail(w) = IF w.con.failed THEN w ELSE Destroy(t)
    BY DEF Fail, t, f
<1>7. CASE w.con.failed
    BY <1>6, <1>7 DEF Unopened
<1>8. CASE ~w.con.failed
    <2>1. Fail(w) = Destroy(t)
        BY <1>6, <1>8
    <2>2. Unopened(w, Destroy(t))
        BY <1>1, <1>3, <1>5 DEF Unopened
    <2> QED
        BY <1>1, <1>3, <1>5, <1>8, <2>1, <2>2
<1> QED
    BY <1>7, <1>8

\* The first message identifies an appliance, or ends the connection of an unknown one.
LEMMA IdentifiedOnly ==
    ASSUME NEW w \in StreamWorld
    PROVE  /\ Unopened(w, Identified(w))
           /\ Identified(w).con.id
           /\ Identified(w).told = w.told
           /\ Identified(w).con.accum = w.con.accum
           /\ Identified(w).con.broken = w.con.broken
           /\ Identified(w).con.failed = w.con.failed
           /\ w.con.id \/ sent.known => Identified(w).con.socket = w.con.socket
           /\ ~w.con.id /\ ~sent.known => Identified(w).con.socket # "open"
<1> DEFINE i == [w EXCEPT !.con.id = TRUE]
<1>1. /\ i \in StreamWorld /\ i.con.id /\ i.told = w.told
      /\ i.con.socket = w.con.socket /\ i.con.accum = w.con.accum
      /\ i.con.broken = w.con.broken /\ i.con.failed = w.con.failed
    BY DEF StreamWorld
<1>2. Identified(w) = IF w.con.id THEN w ELSE IF sent.known THEN i ELSE Destroy(i)
    BY DEF Identified, i
<1> HIDE DEF i
<1>3. /\ Unopened(i, Destroy(i)) /\ Destroy(i).told = i.told
      /\ Destroy(i).con.socket = IF i.con.socket = "closed" THEN "closed" ELSE "destroyed"
      /\ Destroy(i).con.accum = i.con.accum
      /\ Destroy(i).con.broken = i.con.broken
      /\ Destroy(i).con.failed = i.con.failed
      /\ Destroy(i).con.id = i.con.id
    BY <1>1, DestroyedOnly
<1> QED
    BY <1>1, <1>2, <1>3 DEF Unopened

\* A splitter that breaks keeps no bytes.
LEMMA BrokenOnly ==
    ASSUME StreamAssumption, NEW w \in StreamWorld
    PROVE  /\ Unopened(w, Broken(w))
           /\ Broken(w).con.failed
           /\ Broken(w).con.accum = <<>>
           /\ Broken(w).con.id = w.con.id
           /\ w.con.failed => Broken(w).con.socket = w.con.socket /\ Broken(w).told = w.told
           /\ ~w.con.failed =>
                 /\ Broken(w).con.socket = IF w.con.socket = "closed" THEN "closed" ELSE "destroyed"
                 /\ Broken(w).told = IF w.con.id /\ sent.known THEN Append(w.told, <<"error", 0>>) ELSE w.told
<1> DEFINE b == [w EXCEPT !.con.broken = TRUE, !.con.accum = <<>>]
<1>1. /\ b \in StreamWorld /\ b.told = w.told /\ b.con.failed = w.con.failed
      /\ b.con.socket = w.con.socket /\ b.con.accum = <<>> /\ b.con.id = w.con.id
    <2> DEFINE c == [w EXCEPT !.con.broken = TRUE]
    <2>1. <<>> \in Seq(SentByte)
        OBVIOUS
    <2>2. /\ c \in StreamWorld /\ c.told = w.told /\ c.con.failed = w.con.failed
          /\ c.con.socket = w.con.socket /\ c.con.id = w.con.id
        BY DEF StreamWorld
    <2>3. b = [c EXCEPT !.con.accum = <<>>]
        OBVIOUS
    <2> HIDE DEF c, b
    <2> QED
        BY <2>1, <2>2, <2>3 DEF StreamWorld
<1>2. Broken(w) = Fail(b)
    BY DEF Broken, b
<1> HIDE DEF b
<1>3. /\ Unopened(b, Fail(b))
      /\ Fail(b).con.failed
      /\ Fail(b).con.accum = b.con.accum
      /\ Fail(b).con.id = b.con.id
      /\ b.con.failed => Fail(b) = b
      /\ ~b.con.failed =>
            /\ Fail(b).con.socket = IF b.con.socket = "closed" THEN "closed" ELSE "destroyed"
            /\ Fail(b).told = IF b.con.id /\ sent.known THEN Append(b.told, <<"error", 0>>) ELSE b.told
    BY <1>1, FailedOnly
<1>4. Unopened(w, Broken(w))
    BY <1>1, <1>2, <1>3 DEF Unopened
<1> QED
    BY <1>1, <1>2, <1>3, <1>4

\* What a frame does.
LEMMA ReceivedOnly ==
    ASSUME StreamAssumption, SentRight, NEW w \in StreamWorld, NEW i \in 0..NSent
    PROVE  LET r == Received(w, i) IN
           /\ Unopened(w, r)
           /\ r.con.accum = w.con.accum
           /\ r.con.broken = w.con.broken
           /\ (i = 0 \/ Says(i) = "garbage") /\ ~w.con.failed /\ w.con.socket = "open" =>
                 /\ r.con.failed /\ r.con.socket = "destroyed" /\ r.con.id = w.con.id
                 /\ r.told = IF w.con.id /\ sent.known THEN Append(w.told, <<"error", 0>>) ELSE w.told
           /\ i # 0 /\ GoodFrame(i) /\ sent.known =>
                 /\ r.con.failed = w.con.failed /\ r.con.socket = w.con.socket /\ r.con.id
                 /\ r.told = IF Says(i) = "alive" THEN w.told ELSE Append(w.told, Event(i))
           /\ i # 0 /\ Says(i) = "refused" /\ sent.known /\ ~w.con.failed /\ w.con.socket = "open" =>
                 /\ r.con.failed /\ r.con.socket = "destroyed" /\ r.con.id
                 /\ r.told = Append(Append(w.told, Event(i)), <<"error", 0>>)
           /\ ~sent.known /\ ~w.con.id /\ ~w.con.failed /\ w.con.socket = "open" => r.con.socket # "open"
<1> DEFINE r == Received(w, i)
           s == [w EXCEPT !.con.timer = TRUE]
           d == Identified(s)
           says == IF i = 0 THEN "garbage" ELSE sent.frames[i].says
<1>1. /\ s \in StreamWorld /\ s.told = w.told /\ s.con.socket = w.con.socket /\ s.con.accum = w.con.accum
      /\ s.con.broken = w.con.broken /\ s.con.failed = w.con.failed /\ s.con.id = w.con.id
    BY DEF StreamWorld
<1>2. /\ MaxFrames \in Nat /\ i \in 0..MaxFrames /\ sent.known \in BOOLEAN
      /\ i # 0 => Says(i) \in {"alive", "report", "answer", "refused", "garbage"}
      /\ says = IF i = 0 THEN "garbage" ELSE Says(i)
    <2>1. NSent \in Nat /\ NSent <= MaxFrames /\ MaxFrames \in Nat /\ sent.known \in BOOLEAN
        BY SentFacts
    <2>2. i # 0 => i \in 1..NSent
        BY <2>1
    <2>3. i # 0 => Says(i) \in {"alive", "report", "answer", "refused", "garbage"}
        BY <2>2, SentFacts
    <2> QED
        BY <2>1, <2>3 DEF Says
<1>3. /\ <<"response", i>> \in ToldEvent /\ <<"data", i>> \in ToldEvent
      /\ Event(i) = <<IF Says(i) = "answer" THEN "response" ELSE "data", i>>
    BY <1>2 DEF ToldEvent, Event, Says
<1>4. r = IF says = "garbage" THEN Fail(s)
          ELSE IF says = "alive" THEN d
          ELSE IF says = "answer" THEN Tell(d, <<"response", i>>)
          ELSE IF says = "report" THEN Tell(d, <<"data", i>>)
          ELSE IF sent.known THEN Fail(Tell(d, <<"data", i>>))
          ELSE d
    BY DEF Received
<1> HIDE DEF s, says, r
<1>5. /\ Unopened(s, d) /\ d.con.id /\ d.told = s.told /\ d.con.accum = s.con.accum
      /\ d.con.broken = s.con.broken /\ d.con.failed = s.con.failed
      /\ s.con.id \/ sent.known => d.con.socket = s.con.socket
      /\ ~s.con.id /\ ~sent.known => d.con.socket # "open"
    BY <1>1, IdentifiedOnly
<1>6. d \in StreamWorld /\ Unopened(w, d)
    BY <1>1, <1>5 DEF Unopened
<1> HIDE DEF d
<1>7. CASE says = "garbage"
    <2>1. r = Fail(s)
        BY <1>4, <1>7
    <2>2. /\ Unopened(s, Fail(s)) /\ Fail(s).con.failed /\ Fail(s).con.accum = s.con.accum
          /\ Fail(s).con.broken = s.con.broken /\ Fail(s).con.id = s.con.id
          /\ ~s.con.failed =>
                /\ Fail(s).con.socket = IF s.con.socket = "closed" THEN "closed" ELSE "destroyed"
                /\ Fail(s).told = IF s.con.id /\ sent.known THEN Append(s.told, <<"error", 0>>) ELSE s.told
        BY <1>1, FailedOnly
    <2>3. Unopened(w, r)
        BY <1>1, <2>1, <2>2 DEF Unopened
    <2>4. i = 0 \/ Says(i) = "garbage"
        BY <1>2, <1>7
    <2> QED
        BY <1>1, <2>1, <2>2, <2>3, <2>4 DEF r, GoodFrame
<1>8. CASE says = "alive"
    <2>1. r = d /\ i # 0 /\ Says(i) = "alive"
        BY <1>2, <1>4, <1>8
    <2> QED
        BY <1>1, <1>5, <1>6, <2>1 DEF r, GoodFrame
<1>9. ASSUME says \in {"answer", "report", "refused"}
      PROVE  /\ Unopened(d, Tell(d, Event(i)))
             /\ Tell(d, Event(i)).con = d.con
             /\ Tell(d, Event(i)).told = IF sent.known THEN Append(d.told, Event(i)) ELSE d.told
             /\ i # 0 /\ Says(i) = says
             /\ Event(i) = IF says = "answer" THEN <<"response", i>> ELSE <<"data", i>>
    <2>1. i # 0 /\ Says(i) = says
        BY <1>2, <1>9
    <2>2. Event(i) \in ToldEvent /\ Event(i) = IF says = "answer" THEN <<"response", i>> ELSE <<"data", i>>
        BY <1>3, <2>1
    <2> QED
        BY <1>5, <1>6, <2>1, <2>2, ToldOnly
<1> DEFINE t == Tell(d, Event(i))
<1>10. CASE says \in {"answer", "report"}
    <2>1. r = t
        BY <1>4, <1>9, <1>10
    <2> HIDE DEF t
    <2>2. /\ Unopened(d, t) /\ t.con = d.con /\ i # 0 /\ Says(i) = says
          /\ t.told = IF sent.known THEN Append(d.told, Event(i)) ELSE d.told
        BY <1>9, <1>10 DEF t
    <2>3. Unopened(w, r)
        BY <1>6, <2>1, <2>2 DEF Unopened
    <2> QED
        BY <1>1, <1>5, <1>10, <2>1, <2>2, <2>3 DEF r, GoodFrame
<1>11. CASE says = "refused" /\ sent.known
    <2>1. r = Fail(t)
        BY <1>4, <1>9, <1>11
    <2> HIDE DEF t
    <2>2. /\ Unopened(d, t) /\ t.con = d.con /\ i # 0 /\ Says(i) = "refused"
          /\ t.told = Append(d.told, Event(i))
        BY <1>9, <1>11 DEF t
    <2>3. t \in StreamWorld
        BY <2>2 DEF Unopened
    <2>4. /\ Unopened(t, Fail(t)) /\ Fail(t).con.failed /\ Fail(t).con.accum = t.con.accum
          /\ Fail(t).con.broken = t.con.broken /\ Fail(t).con.id = t.con.id
          /\ ~t.con.failed =>
                /\ Fail(t).con.socket = IF t.con.socket = "closed" THEN "closed" ELSE "destroyed"
                /\ Fail(t).told = IF t.con.id /\ sent.known THEN Append(t.told, <<"error", 0>>) ELSE t.told
        BY <2>3, FailedOnly
    <2>5. Unopened(w, r)
        BY <1>6, <1>11, <2>1, <2>2, <2>4 DEF Unopened
    <2>6. r.con.accum = w.con.accum /\ r.con.broken = w.con.broken /\ r.con.failed /\ r.con.id
        BY <1>1, <1>5, <2>1, <2>2, <2>4
    <2>7. ~w.con.failed /\ w.con.socket = "open" =>
              /\ r.con.socket = "destroyed"
              /\ r.told = Append(Append(w.told, Event(i)), <<"error", 0>>)
        BY <1>1, <1>5, <1>11, <2>1, <2>2, <2>4
    <2> QED
        BY <1>11, <2>2, <2>5, <2>6, <2>7 DEF r, GoodFrame
<1>12. CASE says = "refused" /\ ~sent.known
    <2>1. r = d /\ i # 0 /\ Says(i) = "refused"
        BY <1>2, <1>4, <1>12
    <2> QED
        BY <1>1, <1>5, <1>6, <1>12, <2>1 DEF r, GoodFrame
<1>13. says \in {"garbage", "alive", "answer", "report", "refused"}
    BY <1>2
<1> QED
    BY <1>2, <1>7, <1>8, <1>10, <1>11, <1>12, <1>13

\* A header gives a length and a payload a frame, or none.
LEMMA HeaderAndPayload ==
    ASSUME StreamAssumption, SentRight, NEW b \in Seq(SentByte)
    PROVE  /\ Len(b) >= HeaderBytes => PayloadLen(b) \in Int
           /\ FrameOf(b) \in 0..NSent
<1>1. /\ NSent \in Nat /\ HeaderBytes \in Nat /\ HeaderBytes > 0 /\ MaxPayload \in Nat
      /\ \A i \in 1..NSent : sent.frames[i].length \in (-1)..(MaxPayload + 1)
    BY SentFacts
<1>2. Len(b) \in Nat /\ (b # <<>> => Len(b) > 0 /\ Head(b) \in SentByte)
    BY HeadTailProperties, EmptySeq, LenProperties
<1>3. b # <<>> => Head(b)[1] \in 1..NSent
    BY <1>2 DEF SentByte
<1>4. FrameOf(b) \in 0..NSent
    BY <1>1, <1>3 DEF FrameOf
<1>5. ASSUME Len(b) >= HeaderBytes
      PROVE  PayloadLen(b) \in Int
    <2>1. b # <<>>
        BY <1>1, <1>5
    <2>2. sent.frames[Head(b)[1]].length \in (-1)..(MaxPayload + 1)
        BY <1>1, <1>3, <2>1
    <2> QED
        BY <1>1, <2>2 DEF PayloadLen
<1> QED
    BY <1>4, <1>5

\* The bytes of a piece.
LEMMA SubSeqOf ==
    ASSUME NEW S, NEW s \in Seq(S), NEW m \in Nat \ {0}, NEW n \in Int, n <= Len(s)
    PROVE  /\ SubSeq(s, m, n) \in Seq(S)
           /\ Len(SubSeq(s, m, n)) = IF m <= n THEN n - m + 1 ELSE 0
           /\ \A p \in 1..(n - m + 1) : SubSeq(s, m, n)[p] = s[m + p - 1]
<1>1. \A q \in m..n : s[q] \in S
    <2> TAKE q \in m..n
    <2>1. Len(s) \in Nat
        BY LenProperties
    <2>2. q \in 1..Len(s)
        BY <2>1
    <2> QED
        BY <2>2, ElementOfSeq
<1>2. m \in Int
    OBVIOUS
<1> QED
    BY <1>1, <1>2, SubSeqProperties

\* A turn keeps what it may not touch.
LEMMA SplitIsUnopened ==
    ASSUME StreamAssumption, SentRight, NEW w \in StreamWorld
    PROVE  Unopened(w, SplitOnce(w))
<1> DEFINE b == w.con.accum
           n == PayloadLen(b)
           e == HeaderBytes + n
           x == [w EXCEPT !.con.accum = SubSeq(b, e + 1, Len(b))]
           f == FrameOf(SubSeq(b, HeaderBytes + 1, e))
           rest == Received(x, f)
<1>1. b \in Seq(SentByte) /\ Len(b) \in Nat
    BY LenProperties DEF StreamWorld
<1>2. HeaderBytes \in Nat /\ HeaderBytes > 0 /\ MaxPayload \in Nat
    BY SentFacts
<1>3. SplitOnce(w) = IF Len(b) < HeaderBytes THEN w
                     ELSE IF n \notin 0..MaxPayload THEN Broken(w)
                     ELSE IF Len(b) < e THEN w
                     ELSE IF rest.con.failed THEN Broken(rest) ELSE rest
    BY DEF SplitOnce
<1>4. Unopened(w, w) /\ Unopened(w, Broken(w))
    BY BrokenOnly DEF Unopened
<1>5. ASSUME ~(Len(b) < HeaderBytes), n \in 0..MaxPayload, ~(Len(b) < e)
      PROVE  Unopened(w, rest) /\ Unopened(w, Broken(rest))
    <2> HIDE DEF b, n, rest
    <2>1. e \in Nat /\ e <= Len(b)
        BY <1>1, <1>2, <1>5
    <2> HIDE DEF e
    <2>2. SubSeq(b, e + 1, Len(b)) \in Seq(SentByte)
        BY <1>1, <2>1, SubSeqOf
    <2>3. SubSeq(b, HeaderBytes + 1, e) \in Seq(SentByte)
        BY <1>1, <1>2, <2>1, SubSeqOf
    <2>4. f \in 0..NSent
        BY <2>3, HeaderAndPayload
    <2>5. Unopened(w, x)
        BY <2>2 DEF StreamWorld, Unopened
    <2>6. x \in StreamWorld
        BY <2>5 DEF Unopened
    <2> HIDE DEF x, f
    <2>7. Unopened(x, rest)
        BY <2>4, <2>6, ReceivedOnly DEF rest
    <2>8. Unopened(rest, Broken(rest))
        BY <2>7, BrokenOnly DEF Unopened
    <2> QED
        BY <2>5, <2>7, <2>8 DEF Unopened
<1> HIDE DEF b, n, e, rest
<1> QED
    BY <1>3, <1>4, <1>5

\* What is kept is as long as what arrived behind the frames that were taken.
LEMMA KeptFacts ==
    ASSUME StreamAssumption, SentRight, NEW m \in 0..NSent, NEW a \in 0..EndOf[NSent], EndOf[m] <= a
    PROVE  /\ KeptBehind(m, a) \in Seq(SentByte)
           /\ Len(KeptBehind(m, a)) = a - EndOf[m] /\ a - EndOf[m] \in Nat
           /\ \A p \in 1..(a - EndOf[m]) : KeptBehind(m, a)[p] = Stream[EndOf[m] + p]
<1> DEFINE l == a - EndOf[m]
<1>1. EndOf[m] \in Nat /\ EndOf[NSent] \in Nat /\ l \in Nat
    <2>1. NSent \in 0..NSent
        BY SentFacts
    <2>2. EndOf[m] \in Nat /\ EndOf[NSent] \in Nat
        BY <2>1, EndOfFacts
    <2> QED
        BY <2>2
<1>2. Stream \in Seq(SentByte) /\ Len(Stream) = EndOf[NSent]
    BY StreamBytes
<1>3. \A p \in 1..l : Stream[EndOf[m] + p] \in SentByte
    <2> TAKE p \in 1..l
    <2>1. EndOf[m] + p \in 1..Len(Stream)
        BY <1>1, <1>2
    <2> QED
        BY <1>2, <2>1, ElementOfSeq
<1>4. KeptBehind(m, a) = [p \in 1..l |-> Stream[EndOf[m] + p]]
    BY DEF KeptBehind
<1> HIDE DEF l
<1>5. KeptBehind(m, a) \in [1..l -> SentByte]
    BY <1>3, <1>4
<1>6. l \in Nat
    BY <1>1 DEF l
<1>7. KeptBehind(m, a) \in Seq(SentByte) /\ Len(KeptBehind(m, a)) = l
    BY <1>5, <1>6
<1>8. \A p \in 1..l : KeptBehind(m, a)[p] = Stream[EndOf[m] + p]
    BY <1>4
<1> QED
    BY <1>6, <1>7, <1>8 DEF l

\* The next bytes are those of the next frame.
LEMMA NextFrame ==
    ASSUME StreamAssumption, SentRight, NEW m \in 0..NSent, NEW a \in 0..EndOf[NSent],
           EndOf[m] + HeaderBytes <= a
    PROVE  LET b == KeptBehind(m, a)
               i == m + 1
               n == sent.frames[i].length
               e == HeaderBytes + n
               f == FrameOf(SubSeq(b, HeaderBytes + 1, e))
           IN  /\ i \in 1..NSent
               /\ PayloadLen(b) = n
               /\ n \in 0..MaxPayload => EndOf[i] = EndOf[m] + e
               /\ n \in 0..MaxPayload /\ e <= a - EndOf[m] =>
                     /\ f = IF n = 0 THEN 0 ELSE i
                     /\ SubSeq(b, e + 1, Len(b)) = KeptBehind(i, a)
<1> DEFINE b == KeptBehind(m, a)
           i == m + 1
           n == sent.frames[i].length
           e == HeaderBytes + n
           l == a - EndOf[m]
<1>1. /\ NSent \in Nat /\ NSent \in 0..NSent /\ HeaderBytes \in Nat /\ HeaderBytes > 0 /\ MaxPayload \in Nat
    BY SentFacts
<1>2. EndOf[m] \in Nat /\ EndOf[NSent] \in Nat
    BY <1>1, EndOfFacts
<1>3. i \in 1..NSent
    <2>1. m # NSent
        BY <1>1, <1>2
    <2> QED
        BY <1>1, <2>1
<1>4. /\ n \in (-1)..(MaxPayload + 1)
      /\ SizeOf(i) \in HeaderBytes..(HeaderBytes + MaxPayload + 1)
      /\ n \in Nat => SizeOf(i) = e
    BY <1>3, SentFacts
<1>5. i \in 0..NSent /\ i - 1 = m /\ EndOf[i] = EndOf[m] + SizeOf(i) /\ EndOf[i] \in Nat
    <2>1. i \in 0..NSent /\ i - 1 = m
        BY <1>1, <1>3
    <2> QED
        BY <1>3, <2>1, EndOfFacts
<1>6. b \in Seq(SentByte) /\ Len(b) = l /\ l \in Nat /\ \A p \in 1..l : b[p] = Stream[EndOf[m] + p]
    <2>1. EndOf[m] <= a
        BY <1>1, <1>2
    <2> QED
        BY <2>1, KeptFacts
<1>7. \A p \in 1..SizeOf(i) : Stream[EndOf[m] + p] = <<i, p>>
    BY <1>3, <1>5, StreamBytes
<1> HIDE DEF b, n, l, i
<1>8. \A p \in 1..SizeOf(i) : p <= l => b[p] = <<i, p>>
    <2> SUFFICES ASSUME NEW p \in 1..SizeOf(i), p <= l
                 PROVE  b[p] = <<i, p>>
        OBVIOUS
    <2>1. p \in 1..l
        BY <1>6
    <2> QED
        BY <1>6, <1>7, <2>1
<1>9. HeaderBytes <= l
    BY <1>1, <1>2 DEF l
<1>10. SubSeq(b, 1, HeaderBytes) = Header(i)
    <2>1. SubSeq(b, 1, HeaderBytes) = [p \in 1..HeaderBytes |-> b[p]]
        BY <1>1, <1>6, <1>9
    <2>2. \A p \in 1..HeaderBytes : b[p] = <<i, p>>
        <3> TAKE p \in 1..HeaderBytes
        <3>1. p \in 1..SizeOf(i) /\ p <= l
            BY <1>1, <1>4, <1>6, <1>9
        <3> QED
            BY <1>8, <3>1
    <2> QED
        BY <2>1, <2>2 DEF Header
<1>11. b # <<>> /\ Head(b) = <<i, 1>> /\ Head(b)[1] = i
    <2>1. 1 \in 1..SizeOf(i) /\ 1 <= l
        BY <1>1, <1>4, <1>6, <1>9
    <2>2. b[1] = <<i, 1>> /\ b # <<>>
        BY <1>6, <1>8, <2>1
    <2> QED
        BY <1>6, <2>2
<1>12. PayloadLen(b) = n
    BY <1>10, <1>11 DEF PayloadLen, n
<1>13. n \in 0..MaxPayload => EndOf[i] = EndOf[m] + e /\ SizeOf(i) = e /\ n \in Nat
    BY <1>1, <1>4, <1>5
<1>14. ASSUME n \in 0..MaxPayload, e <= l
       PROVE  /\ FrameOf(SubSeq(b, HeaderBytes + 1, e)) = IF n = 0 THEN 0 ELSE i
              /\ SubSeq(b, e + 1, Len(b)) = KeptBehind(i, a)
    <2>1. n \in Nat /\ SizeOf(i) = e /\ EndOf[i] = EndOf[m] + e /\ e \in Nat
        BY <1>1, <1>13, <1>14
    <2>2. SubSeq(b, HeaderBytes + 1, e) = Payload(i)
        <3>1. SubSeq(b, HeaderBytes + 1, e) = [p \in 1..n |-> b[HeaderBytes + p]]
            <4>1. SubSeq(b, HeaderBytes + 1, e)
                  = [p \in 1..(e - (HeaderBytes + 1) + 1) |-> b[(HeaderBytes + 1) + p - 1]]
                BY <1>1, <1>6, <1>14, <2>1
            <4>2. e - (HeaderBytes + 1) + 1 = n /\ \A p \in 1..n : (HeaderBytes + 1) + p - 1 = HeaderBytes + p
                BY <1>1, <2>1
            <4> HIDE DEF e
            <4> QED
                BY <4>1, <4>2
        <3>2. \A p \in 1..n : b[HeaderBytes + p] = <<i, HeaderBytes + p>>
            <4> TAKE p \in 1..n
            <4>1. HeaderBytes + p \in 1..SizeOf(i) /\ HeaderBytes + p <= l
                BY <1>1, <1>6, <1>14, <2>1
            <4> QED
                BY <1>8, <4>1
        <3>3. SizeOf(i) - HeaderBytes = n
            BY <1>1, <2>1
        <3>4. Payload(i) = [p \in 1..n |-> <<i, HeaderBytes + p>>]
            BY <3>3 DEF Payload
        <3> HIDE DEF e
        <3> QED
            BY <3>1, <3>2, <3>4
    <2>3. FrameOf(Payload(i)) = IF n = 0 THEN 0 ELSE i
        <3>1. Payload(i) = [p \in 1..n |-> <<i, HeaderBytes + p>>]
            <4>1. SizeOf(i) - HeaderBytes = n
                BY <1>1, <2>1
            <4> QED
                BY <4>1 DEF Payload
        <3>2. CASE n = 0
            <4>1. Payload(i) = <<>>
                BY <3>1, <3>2
            <4> QED
                BY <3>2, <4>1 DEF FrameOf
        <3>3. CASE n # 0
            <4>1. 1 \in 1..n
                BY <2>1, <3>3
            <4>2. Payload(i)[1] = <<i, HeaderBytes + 1>> /\ Len(Payload(i)) = n
                BY <2>1, <3>1, <4>1
            <4>3. Payload(i) \in Seq(Nat \X Nat)
                <5>1. \A p \in 1..n : <<i, HeaderBytes + p>> \in Nat \X Nat
                    BY <1>1, <1>3
                <5> QED
                    BY <2>1, <3>1, <5>1
            <4>4. Payload(i) # <<>> /\ Head(Payload(i)) = <<i, HeaderBytes + 1>>
                BY <2>1, <3>3, <4>2, <4>3
            <4> QED
                BY <3>3, <4>4 DEF FrameOf
        <3> QED
            BY <3>2, <3>3
    <2>4. SubSeq(b, e + 1, Len(b)) = KeptBehind(i, a)
        <3>1. SubSeq(b, e + 1, Len(b)) = [p \in 1..(l - (e + 1) + 1) |-> b[(e + 1) + p - 1]]
            BY <1>6, <1>14, <2>1
        <3>4. EndOf[m] \in Nat /\ e \in Nat /\ a \in Nat /\ EndOf[i] = EndOf[m] + e /\ l = a - EndOf[m] /\ l \in Nat
            BY <1>2, <1>6, <2>1 DEF l
        <3> HIDE DEF e
        <3>2. l - (e + 1) + 1 = a - EndOf[i]
            BY <3>4
        <3>3. \A p \in 1..(a - EndOf[i]) : b[(e + 1) + p - 1] = Stream[EndOf[i] + p]
            <4> TAKE p \in 1..(a - EndOf[i])
            <4> DEFINE q == (e + 1) + p - 1
            <4>1. q = e + p /\ q \in 1..l /\ EndOf[m] + q = EndOf[i] + p
                BY <3>4
            <4> HIDE DEF q
            <4> QED
                BY <1>6, <4>1 DEF q
        <3> HIDE DEF e
        <3> QED
            BY <3>1, <3>2, <3>3 DEF KeptBehind
    <2> HIDE DEF e
    <2> QED
        BY <2>2, <2>3, <2>4
<1> HIDE DEF e
<1> QED
    BY <1>3, <1>12, <1>13, <1>14 DEF b, i, n, e, l

\* A turn finds too little for a frame, or takes the next frame and reads on, or ends the
\* connection.
LEMMA TurnReads ==
    ASSUME StreamAssumption, SentRight, NEW w \in StreamWorld,
           NEW m \in 0..NSent, NEW a \in 0..EndOf[NSent], Reading(w, m, a)
    PROVE  \/ SplitOnce(w) = w /\ Waiting(m, a)
           \/ sent.known /\ m < NSent /\ Reading(SplitOnce(w), m + 1, a)
           \/ /\ SplitOnce(w).con.socket # "open"
              /\ sent.known => /\ SplitOnce(w).con.accum = <<>>
                               /\ \E k \in 0..NSent : Over(SplitOnce(w), k, a)
<1> DEFINE b == w.con.accum
           n == PayloadLen(b)
           e == HeaderBytes + n
           x == [w EXCEPT !.con.accum = SubSeq(b, e + 1, Len(b))]
           f == FrameOf(SubSeq(b, HeaderBytes + 1, e))
           rest == Received(x, f)
           i == m + 1
           s == SplitOnce(w)
<1>1. /\ NSent \in Nat /\ NSent \in 0..NSent /\ m \in Nat /\ HeaderBytes \in Nat /\ HeaderBytes > 0
      /\ MaxPayload \in Nat /\ MaxPayload > 0 /\ sent.known \in BOOLEAN
    BY SentFacts
<1>2. EndOf[m] \in Nat /\ EndOf[NSent] \in Nat /\ a \in Nat
    BY <1>1, EndOfFacts
<1>3. /\ EndOf[m] <= a /\ \A j \in 1..m : GoodFrame(j)
      /\ w.con.socket = "open" /\ ~w.con.failed /\ ~w.con.broken
      /\ w.con.id <=> m > 0
      /\ b = KeptBehind(m, a)
      /\ ~sent.known => m = 0
      /\ w.told = HeardOf[m]
    BY DEF Reading
<1>4. s = IF Len(b) < HeaderBytes THEN w
          ELSE IF n \notin 0..MaxPayload THEN Broken(w)
          ELSE IF Len(b) < e THEN w
          ELSE IF rest.con.failed THEN Broken(rest) ELSE rest
    BY DEF SplitOnce
<1>5. b \in Seq(SentByte) /\ Len(b) = a - EndOf[m] /\ Len(b) \in Nat
    BY <1>3, KeptFacts
<1>6. \A j \in 1..m : Says(j) # "garbage"
    BY <1>3 DEF GoodFrame
<1>7. \A j \in 1..(m - 1) : GoodFrame(j)
    BY <1>1, <1>3
<1>8. m < NSent => /\ i \in 1..NSent /\ i \in 0..NSent /\ EndOf[i] \in Nat /\ EndOf[i] = EndOf[m] + SizeOf(i)
               /\ SizeOf(i) \in HeaderBytes..(HeaderBytes + MaxPayload + 1)
    <2> SUFFICES ASSUME m < NSent
                 PROVE  /\ i \in 1..NSent /\ i \in 0..NSent /\ EndOf[i] \in Nat /\ EndOf[i] = EndOf[m] + SizeOf(i)
                        /\ SizeOf(i) \in HeaderBytes..(HeaderBytes + MaxPayload + 1)
        OBVIOUS
    <2>1. i \in 1..NSent /\ i \in 0..NSent /\ i - 1 = m
        BY <1>1
    <2>2. EndOf[i] = EndOf[i - 1] + SizeOf(i) /\ EndOf[i] \in Nat
        BY <2>1, EndOfFacts
    <2>3. SizeOf(i) \in HeaderBytes..(HeaderBytes + MaxPayload + 1)
        BY <2>1, SentFacts
    <2> QED
        BY <2>1, <2>2, <2>3
<1> HIDE DEF b, n, e, x, f, rest, s, i
<1>9. CASE Len(b) < HeaderBytes
    <2>1. s = w
        BY <1>4, <1>9
    <2>2. a - EndOf[m] < HeaderBytes + MaxPayload
        BY <1>1, <1>2, <1>5, <1>9
    <2>3. m < NSent => a < EndOf[i]
        BY <1>1, <1>2, <1>5, <1>8, <1>9
    <2>4. Waiting(m, a)
        BY <1>1, <2>2, <2>3 DEF Waiting, i
    <2> QED
        BY <2>1, <2>4 DEF s
<1>10. ASSUME ~(Len(b) < HeaderBytes)
       PROVE  /\ m < NSent /\ n = sent.frames[i].length
              /\ n \in (-1)..(MaxPayload + 1) /\ (n \in 1..MaxPayload \/ Says(i) = "garbage")
              /\ Says(i) \in {"alive", "report", "answer", "refused", "garbage"}
              /\ n \in 0..MaxPayload => EndOf[i] = EndOf[m] + e
              /\ n \in 0..MaxPayload /\ e <= Len(b) =>
                    f = (IF n = 0 THEN 0 ELSE i) /\ SubSeq(b, e + 1, Len(b)) = KeptBehind(i, a)
    <2>1. EndOf[m] + HeaderBytes <= a
        BY <1>1, <1>2, <1>5, <1>10
    <2>2. /\ i \in 1..NSent
          /\ PayloadLen(b) = sent.frames[i].length
          /\ PayloadLen(b) \in 0..MaxPayload => EndOf[i] = EndOf[m] + (HeaderBytes + PayloadLen(b))
          /\ PayloadLen(b) \in 0..MaxPayload /\ HeaderBytes + PayloadLen(b) <= a - EndOf[m] =>
                /\ FrameOf(SubSeq(b, HeaderBytes + 1, HeaderBytes + PayloadLen(b)))
                   = IF PayloadLen(b) = 0 THEN 0 ELSE i
                /\ SubSeq(b, HeaderBytes + PayloadLen(b) + 1, Len(b)) = KeptBehind(i, a)
        BY <1>3, <2>1, NextFrame DEF i
    <2>3. m < NSent
        BY <1>1, <2>2 DEF i
    <2>4. /\ sent.frames[i].length \in (-1)..(MaxPayload + 1)
          /\ sent.frames[i].length \in 1..MaxPayload \/ Says(i) = "garbage"
          /\ Says(i) \in {"alive", "report", "answer", "refused", "garbage"}
        BY <2>2, SentFacts
    <2> QED
        BY <1>5, <2>2, <2>3, <2>4 DEF n, e, f
<1>11. CASE ~(Len(b) < HeaderBytes) /\ n \notin 0..MaxPayload
    <2>1. s = Broken(w)
        BY <1>4, <1>11
    <2>2. Says(m + 1) = "garbage"
        BY <1>1, <1>10, <1>11 DEF i
    <2>3. Taken(m, a)
        BY <1>3, <1>6, <1>7, <2>2 DEF Taken
    <2>4. /\ s.con.failed /\ s.con.accum = <<>> /\ s.con.id = w.con.id /\ s.con.socket = "destroyed"
          /\ s.told = IF w.con.id /\ sent.known THEN Append(w.told, <<"error", 0>>) ELSE w.told
        BY <1>3, <2>1, BrokenOnly
    <2>5. sent.known => s.told = Closing(s.con, HeardOf[m])
        BY <1>3, <2>4 DEF Closing
    <2>6. sent.known => Over(s, m, a)
        BY <1>3, <2>3, <2>4, <2>5 DEF Over
    <2> QED
        BY <2>4, <2>6 DEF s
<1>12. CASE ~(Len(b) < HeaderBytes) /\ n \in 0..MaxPayload /\ Len(b) < e
    <2>1. s = w
        BY <1>4, <1>12
    <2>2. EndOf[i] = EndOf[m] + e /\ n \in Nat
        BY <1>1, <1>10, <1>12
    <2>3. a < EndOf[i]
        BY <1>1, <1>2, <1>5, <1>12, <2>2 DEF e
    <2>4. a - EndOf[m] < HeaderBytes + MaxPayload
        BY <1>1, <1>2, <1>5, <1>12 DEF e
    <2>5. Waiting(m, a)
        BY <2>3, <2>4 DEF Waiting, i
    <2> QED
        BY <2>1, <2>5 DEF s
<1>13. CASE ~(Len(b) < HeaderBytes) /\ n \in 0..MaxPayload /\ ~(Len(b) < e)
    <2>1. e \in Nat /\ e <= Len(b)
        BY <1>1, <1>5, <1>13 DEF e
    <2>2. /\ m < NSent /\ f = (IF n = 0 THEN 0 ELSE i) /\ SubSeq(b, e + 1, Len(b)) = KeptBehind(i, a)
          /\ EndOf[i] = EndOf[m] + e
        BY <1>10, <1>13, <2>1
    <2>3. SubSeq(b, e + 1, Len(b)) \in Seq(SentByte)
        BY <1>5, <2>1, SubSeqOf
    <2>4. /\ x \in StreamWorld /\ x.con.accum = KeptBehind(i, a) /\ x.told = w.told
          /\ x.con.socket = "open" /\ ~x.con.failed /\ ~x.con.broken /\ x.con.id = w.con.id
        BY <1>3, <2>2, <2>3 DEF StreamWorld, x
    <2>5. f \in 0..NSent /\ i \in 1..NSent
        BY <1>1, <1>8, <2>2
    <2>6. /\ Unopened(x, rest)
          /\ rest.con.accum = x.con.accum
          /\ rest.con.broken = x.con.broken
          /\ (f = 0 \/ Says(f) = "garbage") =>
                /\ rest.con.failed /\ rest.con.socket = "destroyed" /\ rest.con.id = x.con.id
                /\ rest.told = IF x.con.id /\ sent.known THEN Append(x.told, <<"error", 0>>) ELSE x.told
          /\ f # 0 /\ GoodFrame(f) /\ sent.known =>
                /\ rest.con.failed = x.con.failed /\ rest.con.socket = x.con.socket /\ rest.con.id
                /\ rest.told = IF Says(f) = "alive" THEN x.told ELSE Append(x.told, Event(f))
          /\ f # 0 /\ Says(f) = "refused" /\ sent.known =>
                /\ rest.con.failed /\ rest.con.socket = "destroyed" /\ rest.con.id
                /\ rest.told = Append(Append(x.told, Event(f)), <<"error", 0>>)
          /\ ~sent.known /\ ~x.con.id => rest.con.socket # "open"
        BY <2>4, <2>5, ReceivedOnly DEF rest
    <2>7. rest \in StreamWorld
        BY <2>6 DEF Unopened
    <2>8. /\ Unopened(rest, Broken(rest)) /\ Broken(rest).con.failed
          /\ Broken(rest).con.accum = <<>> /\ Broken(rest).con.id = rest.con.id
          /\ rest.con.failed => Broken(rest).con.socket = rest.con.socket /\ Broken(rest).told = rest.told
        BY <2>7, BrokenOnly
    <2>9. s = IF rest.con.failed THEN Broken(rest) ELSE rest
        BY <1>4, <1>13
    <2>10. /\ HeardOf[i] = IF Says(i) = "alive" THEN HeardOf[m] ELSE Append(HeardOf[m], Event(i))
           /\ EndOf[i] <= a
        <3>1. i - 1 = m
            BY <1>1 DEF i
        <3>2. EndOf[i] <= a
            BY <1>2, <1>5, <2>1, <2>2
        <3> QED
            BY <2>5, <3>1, <3>2, HearFacts
    <2>11. CASE f = 0 \/ Says(f) = "garbage"
        <3>1. Says(m + 1) = "garbage"
            <4>1. CASE n = 0
                BY <1>10, <1>13, <4>1 DEF i
            <4>2. CASE n # 0
                BY <1>8, <2>2, <2>5, <2>11, <4>2 DEF i
            <4> QED
                BY <4>1, <4>2
        <3>2. Taken(m, a)
            BY <1>3, <1>6, <1>7, <3>1 DEF Taken
        <3>3. /\ s.con.failed /\ s.con.accum = <<>> /\ s.con.id = w.con.id /\ s.con.socket = "destroyed"
              /\ s.told = IF w.con.id /\ sent.known THEN Append(w.told, <<"error", 0>>) ELSE w.told
            BY <2>4, <2>6, <2>8, <2>9, <2>11
        <3>4. sent.known => s.told = Closing(s.con, HeardOf[m])
            BY <1>3, <3>3 DEF Closing
        <3>5. sent.known => Over(s, m, a)
            BY <1>3, <3>2, <3>3, <3>4 DEF Over
        <3> QED
            BY <3>3, <3>5 DEF s
    <2>12. CASE ~sent.known
        <3>1. rest.con.socket # "open"
            BY <1>1, <1>3, <2>4, <2>6, <2>12
        <3>2. s.con.socket # "open"
            BY <2>8, <2>9, <3>1
        <3> QED
            BY <2>12, <3>2 DEF s
    <2>13. CASE sent.known /\ f # 0 /\ GoodFrame(f)
        <3>1. f = i
            BY <2>2, <2>13
        <3>2. /\ s = rest /\ ~rest.con.failed /\ rest.con.socket = "open" /\ rest.con.id /\ ~rest.con.broken
              /\ rest.told = HeardOf[i] /\ rest.con.accum = KeptBehind(i, a)
            BY <1>3, <2>4, <2>6, <2>9, <2>10, <2>13, <3>1
        <3>3. \A j \in 1..i : GoodFrame(j)
            <4>1. \A j \in 1..i : j \in 1..m \/ j = i
                BY <1>1 DEF i
            <4> QED
                BY <1>3, <2>13, <3>1, <4>1
        <3>4. i > 0
            BY <1>1 DEF i
        <3>5. Reading(s, i, a)
            BY <2>10, <2>13, <3>2, <3>3, <3>4 DEF Reading
        <3> QED
            BY <2>2, <2>13, <3>5 DEF s, i
    <2>14. CASE sent.known /\ f # 0 /\ Says(f) = "refused"
        <3>1. f = i
            BY <2>2, <2>14
        <3>2. /\ s = Broken(rest) /\ s.con.failed /\ s.con.socket = "destroyed" /\ s.con.id
              /\ s.con.accum = <<>>
              /\ s.told = Append(HeardOf[i], <<"error", 0>>)
            BY <1>3, <2>4, <2>6, <2>8, <2>9, <2>10, <2>14, <3>1
        <3>3. \A j \in 1..(i - 1) : GoodFrame(j)
            BY <1>1, <1>3 DEF i
        <3>4. \A j \in 1..i : Says(j) # "garbage"
            <4>1. \A j \in 1..i : j \in 1..m \/ j = i
                BY <1>1 DEF i
            <4> QED
                BY <1>6, <2>14, <3>1, <4>1
        <3>5. i > 0 /\ ~GoodFrame(i)
            BY <1>1, <2>14, <3>1 DEF i, GoodFrame
        <3>6. Taken(i, a)
            BY <2>10, <3>3, <3>4, <3>5 DEF Taken
        <3>7. s.told = Closing(s.con, HeardOf[i])
            BY <3>2 DEF Closing
        <3>8. Over(s, i, a)
            BY <3>2, <3>5, <3>6, <3>7 DEF Over
        <3>9. i \in 0..NSent
            BY <1>8, <2>2
        <3> QED
            BY <3>2, <3>8, <3>9 DEF s
    <2>15. f # 0 => GoodFrame(f) \/ Says(f) = "refused" \/ Says(f) = "garbage"
        <3>1. f # 0 => f = i
            BY <2>2
        <3> QED
            BY <1>10, <1>13, <3>1 DEF GoodFrame
    <2> QED
        BY <2>11, <2>12, <2>13, <2>14, <2>15
<1> QED
    BY <1>9, <1>11, <1>12, <1>13

\* Where a loop of the splitter is after k turns, of a bytes with L not yet split.
StreamGone(v, a) ==
    /\ v.con.socket # "open"
    /\ sent.known => v.con.accum = <<>> /\ \E m \in 0..NSent : Over(v, m, a)
    /\ ~sent.known => v.told = <<>>

SplitTurned(v, a, k, L) ==
    /\ v \in StreamWorld
    /\ \/ \E m \in 0..NSent : Reading(v, m, a) /\ SplitOnce(v) = v /\ Waiting(m, a)
       \/ \E m \in 0..NSent : Reading(v, m, a) /\ Len(v.con.accum) + k <= L
       \/ StreamGone(v, a)

\* A turn of the loop leads to the next one: one frame more is taken, or the loop is over.
LEMMA TurnTurns ==
    ASSUME StreamAssumption, SentRight, NEW a \in 0..EndOf[NSent], NEW k \in Nat, NEW L \in Nat,
           NEW v, SplitTurned(v, a, k, L)
    PROVE  SplitTurned(SplitOnce(v), a, k + 1, L)
<1> DEFINE s == SplitOnce(v)
<1>1. v \in StreamWorld /\ Unopened(v, s) /\ s \in StreamWorld
    <2>1. v \in StreamWorld
        BY DEF SplitTurned
    <2>2. Unopened(v, s)
        BY <2>1, SplitIsUnopened
    <2> QED
        BY <2>1, <2>2 DEF Unopened
<1>2. CASE \E m \in 0..NSent : Reading(v, m, a) /\ SplitOnce(v) = v /\ Waiting(m, a)
    BY <1>1, <1>2 DEF SplitTurned
<1>3. CASE \E m \in 0..NSent : Reading(v, m, a) /\ Len(v.con.accum) + k <= L
    <2>1. PICK m \in 0..NSent : Reading(v, m, a) /\ Len(v.con.accum) + k <= L
        BY <1>3
    <2>2. CASE s = v /\ Waiting(m, a)
        BY <1>1, <2>1, <2>2 DEF SplitTurned
    <2>3. CASE m < NSent /\ Reading(s, m + 1, a)
        <3>1. NSent \in Nat /\ m + 1 \in 0..NSent
            <4>1. NSent \in Nat
                BY SentFacts
            <4> QED
                BY <2>3, <4>1
        <3>2. EndOf[m] < EndOf[m + 1] /\ EndOf[m] \in Nat /\ EndOf[m + 1] \in Nat /\ EndOf[NSent] \in Nat
            <4>1. m < m + 1 /\ NSent \in 0..NSent
                BY <3>1
            <4> QED
                BY <3>1, <4>1, EndOfGrows, EndOfFacts
        <3>3. Len(v.con.accum) = a - EndOf[m]
            BY <2>1, KeptFacts DEF Reading
        <3>4. Len(s.con.accum) = a - EndOf[m + 1]
            <4> HIDE DEF s
            <4> QED
                BY <2>3, <3>1, KeptFacts DEF Reading
        <3>5. Len(s.con.accum) + (k + 1) <= L
            <4> DEFINE lv == Len(v.con.accum)
                       ls == Len(s.con.accum)
                       ev == EndOf[m]
                       es == EndOf[m + 1]
            <4>1. lv = a - ev /\ ls = a - es /\ ev < es /\ ev \in Nat /\ es \in Nat /\ a \in Nat /\ lv + k <= L
                BY <2>1, <3>2, <3>3, <3>4
            <4> HIDE DEF lv, ls, ev, es
            <4>2. ls + (k + 1) <= L
                BY <4>1
            <4> QED
                BY <4>2 DEF ls
        <3> QED
            BY <1>1, <2>3, <3>1, <3>5 DEF SplitTurned
    <2>4. CASE /\ s.con.socket # "open"
               /\ sent.known => s.con.accum = <<>> /\ \E j \in 0..NSent : Over(s, j, a)
        <3>1. ~sent.known => s.told = <<>>
            <4>1. ~sent.known => m = 0 /\ v.told = HeardOf[m]
                BY <2>1 DEF Reading
            <4>2. ~sent.known => v.told = <<>>
                BY <4>1, HearFacts
            <4> QED
                BY <1>1, <4>2 DEF Unopened
        <3> QED
            BY <1>1, <2>4, <3>1 DEF SplitTurned, StreamGone
    <2>5. \/ s = v /\ Waiting(m, a)
          \/ sent.known /\ m < NSent /\ Reading(s, m + 1, a)
          \/ /\ s.con.socket # "open"
             /\ sent.known => s.con.accum = <<>> /\ \E j \in 0..NSent : Over(s, j, a)
        BY <1>1, <2>1, TurnReads
    <2> QED
        BY <2>2, <2>3, <2>4, <2>5
<1>4. CASE StreamGone(v, a)
    <2>1. v.con.socket # "open" /\ s.con.socket # "open"
        BY <1>1, <1>4 DEF StreamGone, Unopened
    <2>2. CASE sent.known
        <3>1. v.con.accum = <<>>
            BY <1>4, <2>2 DEF StreamGone
        <3>2. HeaderBytes \in Nat /\ HeaderBytes > 0 /\ Len(v.con.accum) = 0
            BY <3>1, SentFacts
        <3>3. s = v
            BY <3>2 DEF SplitOnce
        <3> QED
            BY <1>1, <1>4, <3>3 DEF SplitTurned
    <2>3. CASE ~sent.known
        <3>1. s.told = <<>>
            BY <1>1, <1>4, <2>3 DEF StreamGone, Unopened
        <3> QED
            BY <1>1, <2>1, <2>3, <3>1 DEF SplitTurned, StreamGone
    <2> QED
        BY <2>2, <2>3
<1> QED
    BY <1>2, <1>3, <1>4 DEF SplitTurned

\* What is left when the loop is over.
LEMMA SplitReads ==
    ASSUME StreamAssumption, SentRight, NEW a \in 0..EndOf[NSent], NEW w \in StreamWorld,
           NEW m \in 0..NSent, Reading(w, m, a)
    PROVE  Split(w) \in StreamWorld /\ StreamGoes(Split(w), a)
<1> DEFINE L == Len(w.con.accum)
           W == StreamWorld
           F == [x \in (1..L) \X W |-> SplitOnce(x[2])]
           turn[k \in 0..L] == IF k = 0 THEN w ELSE SplitOnce(turn[k - 1])
<1>1. L \in Nat
    <2>1. w.con.accum \in Seq(SentByte)
        BY DEF StreamWorld
    <2> QED
        BY <2>1, LenProperties
<1>2. F \in [(1..L) \X W -> W]
    <2>1. \A v \in W : SplitOnce(v) \in W
        BY SplitIsUnopened DEF Unopened
    <2> HIDE DEF W
    <2> QED
        BY <2>1
<1>3. Split(w) = turn[L]
    BY DEF Split
<1> HIDE DEF L
<1>4. PICK g \in [0..L -> W] : \A k \in 0..L : g[k] = IF k = 0 THEN w ELSE F[<<k, g[k - 1]>>]
    <2> HIDE DEF F
    <2>1. PICK g : g \in Courses(W, w, L, F)
        BY <1>1, <1>2, LoopExists
    <2> QED
        BY <2>1 DEF Courses
<1> HIDE DEF W
<1>5. \A k \in 0..L : g[k] = IF k = 0 THEN w ELSE SplitOnce(g[k - 1])
    <2> TAKE k \in 0..L
    <2>1. CASE k # 0
        <3>1. k \in 1..L /\ k - 1 \in 0..L
            BY <1>1, <2>1
        <3>2. F[<<k, g[k - 1]>>] = SplitOnce(g[k - 1])
            BY <1>4, <3>1
        <3> QED
            BY <1>4, <2>1, <3>2
    <2> QED
        BY <1>4, <2>1
<1>6. g = [k \in 0..L |-> IF k = 0 THEN w ELSE SplitOnce(g[k - 1])]
    BY <1>4, <1>5
<1>7. \E h : h = [k \in 0..L |-> IF k = 0 THEN w ELSE SplitOnce(h[k - 1])]
    BY <1>6
<1>8. turn = [k \in 0..L |-> IF k = 0 THEN w ELSE SplitOnce(turn[k - 1])]
    BY <1>7, Zenon DEF turn
<1> HIDE DEF turn
<1> DEFINE S == {k \in Nat : k <= L => SplitTurned(turn[k], a, k, L)}
<1>9. 0 \in S
    <2>1. turn[0] = w
        BY <1>1, <1>8
    <2>2. Len(w.con.accum) + 0 <= L
        BY <1>1 DEF L
    <2> QED
        BY <2>1, <2>2 DEF SplitTurned
<1>10. \A k \in Nat : k \in S => k + 1 \in S
    <2> SUFFICES ASSUME NEW k \in Nat, k \in S, k + 1 <= L
                 PROVE  SplitTurned(turn[k + 1], a, k + 1, L)
        OBVIOUS
    <2>1. k + 1 \in 0..L /\ k + 1 # 0 /\ (k + 1) - 1 = k
        BY <1>1
    <2>2. turn[k + 1] = SplitOnce(turn[k])
        BY <1>8, <2>1
    <2>3. SplitTurned(turn[k], a, k, L)
        BY <1>1
    <2> QED
        BY <1>1, <2>2, <2>3, TurnTurns
<1>11. SplitTurned(turn[L], a, L, L)
    <2>1. Nat \subseteq S
        <3> HIDE DEF S
        <3> QED
            BY <1>9, <1>10, EveryNumber
    <2> QED
        BY <1>1, <2>1
<1> DEFINE v == Split(w)
<1>12. SplitTurned(v, a, L, L)
    BY <1>3, <1>11
<1> HIDE DEF v
<1>13. v \in StreamWorld
    BY <1>12 DEF SplitTurned
<1>14. CASE \E j \in 0..NSent : Reading(v, j, a) /\ Waiting(j, a)
    <2>1. StreamGoes(v, a)
        BY <1>13, <1>14 DEF StreamGoes, Reading
    <2> QED
        BY <1>13, <2>1 DEF v
<1>15. CASE \E j \in 0..NSent : Reading(v, j, a) /\ Len(v.con.accum) + L <= L
    <2>1. PICK j \in 0..NSent : Reading(v, j, a) /\ Len(v.con.accum) + L <= L
        BY <1>15
    <2>2. Len(v.con.accum) = a - EndOf[j] /\ a - EndOf[j] \in Nat
        BY <2>1, KeptFacts DEF Reading
    <2>3. /\ NSent \in Nat /\ HeaderBytes \in Nat /\ HeaderBytes > 0 /\ MaxPayload \in Nat
          /\ NSent \in 0..NSent /\ EndOf[NSent] \in Nat /\ EndOf[j] \in Nat
        BY SentFacts, EndOfFacts
    <2>4. a = EndOf[j] /\ a - EndOf[j] < HeaderBytes + MaxPayload
        BY <1>1, <2>1, <2>2, <2>3
    <2>5. j < NSent => a < EndOf[j + 1]
        <3>1. j < NSent => j + 1 \in 0..NSent /\ j < j + 1
            BY <2>3
        <3> QED
            BY <2>4, <3>1, EndOfGrows
    <2>6. Waiting(j, a)
        BY <2>3, <2>4, <2>5 DEF Waiting
    <2> QED
        BY <1>14, <2>1, <2>6
<1>16. CASE StreamGone(v, a)
    <2>1. StreamGoes(v, a)
        BY <1>13, <1>16 DEF StreamGoes, StreamGone
    <2> QED
        BY <1>13, <2>1 DEF v
<1> QED
    BY <1>12, <1>13, <1>14, <1>15, <1>16 DEF SplitTurned, v

\* What was told so far is right also if the connection is over now.
LEMMA AlreadyTaken ==
    ASSUME StreamAssumption, SentRight, NEW w, NEW a, StreamGoes(w, a)
    PROVE  /\ w \in StreamWorld
           /\ sent.known => \E m \in 0..NSent : Over(w, m, a)
           /\ ~sent.known => w.told = <<>>
<1>1. w \in StreamWorld
    BY DEF StreamGoes
<1>2. CASE w.con.socket = "open"
    <2>1. PICK m \in 0..NSent : Reading(w, m, a) /\ Waiting(m, a)
        BY <1>2 DEF StreamGoes
    <2>2. NSent \in Nat /\ m \in Nat /\ \A i \in 1..(m - 1) : i \in 1..m
        BY SentFacts
    <2>3. Taken(m, a)
        BY <2>1, <2>2 DEF Taken, Reading, Waiting, GoodFrame
    <2>4. w.told = Closing(w.con, HeardOf[m])
        BY <2>1 DEF Reading, Closing
    <2>5. Over(w, m, a)
        BY <2>1, <2>3, <2>4 DEF Over, Reading
    <2>6. ~sent.known => w.told = <<>>
        BY <2>1, HearFacts DEF Reading
    <2> QED
        BY <1>1, <2>5, <2>6
<1>3. CASE w.con.socket # "open"
    BY <1>1, <1>3 DEF StreamGoes
<1> QED
    BY <1>2, <1>3

\* A connection that is over stays so, and no frame is told of it any more.
LEMMA StillOver ==
    ASSUME StreamAssumption, SentRight, NEW w, NEW a, StreamGoes(w, a), NEW r \in StreamWorld,
           r.con.socket # "open",
           ~sent.known => r.told = w.told,
           \A m \in 0..NSent : sent.known /\ Over(w, m, a) => Over(r, m, a)
    PROVE  StreamGoes(r, a)
BY AlreadyTaken DEF StreamGoes

\* A connection that is destroyed keeps what it told.
LEMMA DestroyKeeps ==
    ASSUME StreamAssumption, SentRight, NEW w, NEW a, StreamGoes(w, a)
    PROVE  StreamGoes(Destroy(w), a)
<1> DEFINE r == Destroy(w)
<1>1. w \in StreamWorld
    BY DEF StreamGoes
<1>2. /\ r \in StreamWorld /\ r.told = w.told
      /\ r.con.socket = IF w.con.socket = "closed" THEN "closed" ELSE "destroyed"
      /\ r.con.failed = w.con.failed /\ r.con.id = w.con.id
    BY <1>1, DestroyedOnly DEF Unopened
<1> HIDE DEF r
<1>3. ASSUME NEW m \in 0..NSent, Over(w, m, a)
      PROVE  Over(r, m, a)
    <2>1. Closing(r.con, HeardOf[m]) = Closing(w.con, HeardOf[m])
        BY <1>2 DEF Closing
    <2> QED
        BY <1>2, <1>3, <2>1 DEF Over
<1>4. StreamGoes(r, a)
    BY <1>2, <1>3, StillOver
<1> QED
    BY <1>4 DEF r

\* Of a connection that fails its Device is told, after the messages.
LEMMA FailureTold ==
    ASSUME StreamAssumption, SentRight, NEW w, NEW a, StreamGoes(w, a), w.con.socket # "closed",
           NEW r \in StreamWorld, r.con.failed, r.con.id = w.con.id,
           w.con.failed => r.con.socket = w.con.socket /\ r.told = w.told,
           ~w.con.failed =>
               /\ r.con.socket = "destroyed"
               /\ r.told = IF w.con.id /\ sent.known THEN Append(w.told, <<"error", 0>>) ELSE w.told
    PROVE  StreamGoes(r, a)
<1>1. /\ w \in StreamWorld
      /\ sent.known => \E m \in 0..NSent : Over(w, m, a)
    BY AlreadyTaken
<1>2. ASSUME NEW m \in 0..NSent, sent.known, Over(w, m, a)
      PROVE  Over(r, m, a)
    <2>1. w.told = Closing(w.con, HeardOf[m])
        BY <1>2 DEF Over
    <2>2. CASE w.con.failed
        <3>1. r.told = Closing(r.con, HeardOf[m])
            BY <2>1, <2>2 DEF Closing
        <3> QED
            BY <1>2, <2>2, <3>1 DEF Over
    <2>3. CASE ~w.con.failed
        <3>1. w.told = HeardOf[m]
            BY <2>1, <2>3 DEF Closing
        <3>2. r.told = Closing(r.con, HeardOf[m])
            BY <1>2, <2>3, <3>1 DEF Closing
        <3> QED
            BY <1>2, <2>3, <3>2 DEF Over
    <2> QED
        BY <2>2, <2>3
<1>3. r.con.socket # "open"
    <2>1. w.con.failed => w.con.socket # "open"
        BY DEF StreamGoes, Reading
    <2> QED
        BY <2>1
<1>4. ~sent.known => r.told = w.told
    OBVIOUS
<1> QED
    BY <1>2, <1>3, <1>4, StillOver

\* The state after a step.
LEMMA StreamStays ==
    ASSUME SentRight, sent' = sent, NEW w, NEW a, StreamGoes(w, a), a \in 0..EndOf[NSent],
           con' = w.con, told' = w.told, arrived' = a
    PROVE  StreamInv'
<1>1. w \in StreamWorld
    BY DEF StreamGoes
<1>2. World' = w
    BY <1>1 DEF World, StreamWorld
<1>3. NSent' = NSent /\ SentRight'
    BY DEF NSent, SentRight
<1>4. EndOf' = EndOf
    BY DEF EndOf, SizeOf
<1>5. Stream' = Stream
    BY <1>4 DEF Stream
<1>6. HeardOf' = HeardOf
    BY <1>3 DEF HeardOf, Says, Event
<1>7. StreamWorld' = StreamWorld
    BY <1>3 DEF StreamWorld, SentByte, ToldEvent
<1>8. \A m : Waiting(m, a) <=> (m = NSent' \/ (a < EndOf'[m + 1] /\ a - EndOf'[m] < HeaderBytes + MaxPayload))
    BY <1>3, <1>4 DEF Waiting
<1>9. \A m : KeptBehind(m, a) = [p \in 1..(a - EndOf'[m]) |-> Stream'[EndOf'[m] + p]]
    BY <1>4, <1>5 DEF KeptBehind
<1>10. StreamGoes(World, arrived)'
    <2>1. /\ w \in StreamWorld'
          /\ w.con.socket = "open" => \E m \in 0..NSent' : Reading(w, m, a)' /\ Waiting(m, a)'
          /\ w.con.socket # "open" /\ sent'.known => \E m \in 0..NSent' : Over(w, m, a)'
          /\ w.con.socket # "open" /\ ~sent'.known => w.told = <<>>
        <3>1. \A m : Reading(w, m, a)' <=> Reading(w, m, a)
            <4> TAKE m
            <4>1. KeptBehind(m, a)' = KeptBehind(m, a)
                BY <1>9 DEF KeptBehind
            <4> QED
                BY <1>4, <1>6, <4>1 DEF Reading, GoodFrame, Says
        <3>2. \A m : Over(w, m, a)' <=> Over(w, m, a)
            BY <1>3, <1>4, <1>6 DEF Over, Taken, GoodFrame, Says, Closing
        <3>3. \A m : Waiting(m, a)' <=> Waiting(m, a)
            BY <1>8 DEF Waiting
        <3> QED
            BY <1>3, <1>7, <3>1, <3>2, <3>3 DEF StreamGoes
    <2> QED
        BY <1>2, <2>1 DEF StreamGoes, Reading, Waiting, Over, Taken, GoodFrame, Says, Closing, KeptBehind
<1> QED
    BY <1>3, <1>4, <1>10 DEF StreamInv

\* A chunk goes behind the bytes that are kept.
LEMMA BytesAreAdded ==
    ASSUME StreamAssumption, SentRight, NEW m \in 0..NSent, NEW a \in 0..EndOf[NSent], NEW n \in Nat,
           EndOf[m] <= a, a + n <= EndOf[NSent]
    PROVE  KeptBehind(m, a) \o SubSeq(Stream, a + 1, a + n) = KeptBehind(m, a + n)
<1> DEFINE b == KeptBehind(m, a)
           c == SubSeq(Stream, a + 1, a + n)
           k == KeptBehind(m, a + n)
           l == a - EndOf[m]
           f == EndOf[m]
<1>1. f \in Nat /\ EndOf[NSent] \in Nat /\ a \in Nat /\ a + n \in 0..EndOf[NSent]
    <2>1. NSent \in 0..NSent
        BY SentFacts
    <2> QED
        BY <2>1, EndOfFacts
<1>2. b \in Seq(SentByte) /\ Len(b) = l /\ l \in Nat /\ \A p \in 1..l : b[p] = Stream[f + p]
    BY KeptFacts
<1>3. /\ k \in Seq(SentByte) /\ Len(k) = (a + n) - f
      /\ \A p \in 1..((a + n) - f) : k[p] = Stream[f + p]
    <2>1. EndOf[m] <= a + n
        BY <1>1
    <2> QED
        BY <1>1, <2>1, KeptFacts
<1>4. /\ c \in Seq(SentByte) /\ Len(c) = n
      /\ \A p \in 1..n : c[p] = Stream[a + p]
    <2> DEFINE x == a + 1
               y == a + n
    <2>1. Stream \in Seq(SentByte) /\ Len(Stream) = EndOf[NSent]
        BY StreamBytes
    <2>2. /\ x \in Nat \ {0} /\ y \in Int /\ y <= Len(Stream)
          /\ y - x + 1 = n /\ (x <= y <=> n > 0)
          /\ \A p \in 1..n : x + p - 1 = a + p
        BY <1>1, <2>1
    <2> HIDE DEF x, y
    <2>3. /\ SubSeq(Stream, x, y) \in Seq(SentByte)
          /\ Len(SubSeq(Stream, x, y)) = IF x <= y THEN y - x + 1 ELSE 0
          /\ \A p \in 1..(y - x + 1) : SubSeq(Stream, x, y)[p] = Stream[x + p - 1]
        <3>1. x \in Nat \ {0} /\ y \in Int /\ y <= Len(Stream)
            BY <2>2
        <3> QED
            BY <2>1, <3>1, SubSeqOf
    <2>4. c = SubSeq(Stream, x, y)
        BY DEF x, y
    <2> HIDE DEF c
    <2>5. c \in Seq(SentByte) /\ Len(c) = n
        BY <2>2, <2>3, <2>4
    <2>6. \A p \in 1..n : c[p] = Stream[a + p]
        <3> TAKE p \in 1..n
        <3>1. c[p] = Stream[x + p - 1] /\ x + p - 1 = a + p
            BY <2>2, <2>3, <2>4
        <3> QED
            BY <3>1
    <2> QED
        BY <2>5, <2>6
<1> HIDE DEF b, c, k, f, l
<1>5. /\ b \o c \in Seq(SentByte) /\ Len(b \o c) = l + n
      /\ \A p \in 1..(l + n) : (b \o c)[p] = IF p <= l THEN b[p] ELSE c[p - l]
    <2>1. b \in Seq(SentByte) /\ c \in Seq(SentByte) /\ Len(b) = l /\ Len(c) = n
        BY <1>2, <1>4
    <2>2. /\ b \o c \in Seq(SentByte) /\ Len(b \o c) = Len(b) + Len(c)
          /\ \A p \in 1..(Len(b) + Len(c)) : (b \o c)[p] = IF p <= Len(b) THEN b[p] ELSE c[p - Len(b)]
        BY <2>1, ConcatProperties
    <2> QED
        BY <2>1, <2>2
<1>6. l = a - f /\ l + n = (a + n) - f
    BY <1>1 DEF f, l
<1>7. \A p \in 1..(l + n) : (b \o c)[p] = k[p]
    <2> TAKE p \in 1..(l + n)
    <2>1. k[p] = Stream[f + p]
        BY <1>3, <1>6
    <2>2. CASE p <= l
        <3>1. p \in 1..l
            BY <1>2, <2>2
        <3> QED
            BY <1>2, <1>5, <2>1, <2>2, <3>1
    <2>3. CASE ~(p <= l)
        <3>1. p - l \in 1..n /\ a + (p - l) = f + p
            <4>1. p \in Nat /\ l \in Nat /\ n \in Nat /\ p <= l + n /\ p > l
                BY <1>2, <2>3
            <4>2. p - l \in 1..n
                BY <4>1
            <4> QED
                BY <1>1, <1>6, <4>1
        <3> QED
            BY <1>4, <1>5, <2>1, <2>3, <3>1
    <2> QED
        BY <2>2, <2>3
<1>8. b \o c = k
    <2>1. Len(b \o c) = Len(k) /\ \A p \in 1..Len(k) : (b \o c)[p] = k[p]
        BY <1>3, <1>5, <1>6, <1>7
    <2> QED
        BY <1>3, <1>5, <2>1, SeqEqual
<1> QED
    BY <1>8 DEF b, c, k

\* A chunk of any size.
LEMMA DataKeeps ==
    ASSUME StreamAssumption, StreamInv, NEW n \in Nat, Data(n)
    PROVE  StreamInv'
<1>1. SentRight /\ StreamGoes(World, arrived) /\ arrived \in 0..EndOf[NSent]
    BY DEF StreamInv
<1>2. World.con = con /\ World.told = told /\ con.socket = "open"
    BY DEF World, Data
<1>3. PICK m \in 0..NSent : Reading(World, m, arrived)
    BY <1>1, <1>2 DEF StreamGoes
<1> DEFINE a == arrived + n
           x == [World EXCEPT !.con.accum = @ \o SubSeq(Stream, arrived + 1, arrived + n)]
<1>4. EndOf[NSent] \in Nat /\ EndOf[m] \in Nat /\ Len(Stream) = EndOf[NSent]
    <2>1. NSent \in 0..NSent
        BY <1>1, SentFacts
    <2> QED
        BY <1>1, <2>1, EndOfFacts, StreamBytes
<1>5. a \in 0..EndOf[NSent] /\ EndOf[m] <= arrived /\ EndOf[m] <= a
    BY <1>1, <1>3, <1>4 DEF Data, Reading
<1>6. World \in StreamWorld
    BY <1>1 DEF StreamGoes
<1>7. con.accum \o SubSeq(Stream, arrived + 1, arrived + n) = KeptBehind(m, a)
    <2>1. con.accum = KeptBehind(m, arrived)
        BY <1>2, <1>3 DEF Reading
    <2>2. arrived + n <= EndOf[NSent]
        BY <1>5
    <2> QED
        BY <1>1, <1>5, <2>1, <2>2, BytesAreAdded
<1>8. KeptBehind(m, a) \in Seq(SentByte)
    BY <1>1, <1>5, KeptFacts
<1>9. x = [World EXCEPT !.con.accum = KeptBehind(m, a)]
    BY <1>2, <1>7
<1> HIDE DEF x
<1>10. /\ x \in StreamWorld /\ x.told = told /\ x.con.accum = KeptBehind(m, a)
       /\ x.con.socket = con.socket /\ x.con.failed = con.failed /\ x.con.broken = con.broken
       /\ x.con.id = con.id
    BY <1>2, <1>6, <1>8, <1>9 DEF StreamWorld
<1>11. Reading(x, m, a)
    BY <1>2, <1>3, <1>5, <1>10 DEF Reading
<1>12. Split(x) \in StreamWorld /\ StreamGoes(Split(x), a)
    BY <1>1, <1>5, <1>10, <1>11, SplitReads
<1>13. con' = Split(x).con /\ told' = Split(x).told /\ sent' = sent /\ arrived' = a
    <2>1. ~con.broken
        BY <1>2, <1>3 DEF Reading
    <2> QED
        BY <2>1 DEF Data, Becomes, x
<1> HIDE DEF a
<1>14. PICK v, b : v = Split(x) /\ b = a
    OBVIOUS
<1> QED
    BY <1>1, <1>5, <1>12, <1>13, <1>14, StreamStays

\* The end of the stream, with half a frame or none.
LEMMA EndKeeps ==
    ASSUME StreamAssumption, StreamInv, End
    PROVE  StreamInv'
<1>1. SentRight /\ StreamGoes(World, arrived) /\ arrived \in 0..EndOf[NSent]
    BY DEF StreamInv
<1>2. World.con = con /\ World.told = told /\ con.socket = "open"
    BY DEF World, End
<1>3. World \in StreamWorld
    BY <1>1 DEF StreamGoes
<1> DEFINE x == [World EXCEPT !.con.socket = "ended"]
<1>4. /\ x \in StreamWorld /\ x.told = told /\ x.con.socket = "ended" /\ x.con.id = con.id
      /\ x.con.failed = con.failed /\ x.con.broken = con.broken /\ x.con.accum = con.accum
    BY <1>2, <1>3 DEF StreamWorld
<1>5. ~con.failed
    BY <1>1, <1>2 DEF StreamGoes, Reading
<1> HIDE DEF x
<1>6. StreamGoes(x, arrived)
    <2>1. ASSUME NEW m \in 0..NSent, Over(World, m, arrived)
          PROVE  Over(x, m, arrived)
        <3>1. Closing(x.con, HeardOf[m]) = Closing(World.con, HeardOf[m])
            BY <1>2, <1>4, <1>5 DEF Closing
        <3> QED
            BY <1>2, <1>4, <1>5, <2>1, <3>1 DEF Over
    <2> QED
        BY <1>1, <1>2, <1>4, <2>1, StillOver
<1>7. StreamGoes(Broken(x), arrived)
    <2>1. /\ Unopened(x, Broken(x)) /\ Broken(x).con.failed /\ Broken(x).con.id = x.con.id
          /\ ~x.con.failed =>
                /\ Broken(x).con.socket = IF x.con.socket = "closed" THEN "closed" ELSE "destroyed"
                /\ Broken(x).told = IF x.con.id /\ sent.known THEN Append(x.told, <<"error", 0>>) ELSE x.told
        BY <1>4, BrokenOnly
    <2>2. Broken(x) \in StreamWorld
        BY <2>1 DEF Unopened
    <2> QED
        BY <1>1, <1>4, <1>5, <1>6, <2>1, <2>2, FailureTold
<1>8. PICK v : v = (IF con.accum # <<>> /\ ~con.broken THEN Broken(x) ELSE x)
    OBVIOUS
<1>9. StreamGoes(v, arrived)
    BY <1>6, <1>7, <1>8
<1>10. con' = v.con /\ told' = v.told /\ sent' = sent /\ arrived' = arrived
    BY <1>8 DEF End, Becomes, x
<1>11. PICK b : b = arrived
    OBVIOUS
<1> QED
    BY <1>1, <1>9, <1>10, <1>11, StreamStays

\* An error of the socket, before or after its end.
LEMMA SocketErrorKeeps ==
    ASSUME StreamAssumption, StreamInv, SocketError
    PROVE  StreamInv'
<1>1. SentRight /\ StreamGoes(World, arrived) /\ arrived \in 0..EndOf[NSent]
    BY DEF StreamInv
<1>2. World.con = con /\ World.told = told /\ con.socket # "closed"
    BY DEF World, SocketError
<1>3. World \in StreamWorld
    BY <1>1 DEF StreamGoes
<1>4. PICK v : v = Fail(World)
    OBVIOUS
<1>5. StreamGoes(v, arrived)
    <2>1. /\ Unopened(World, v) /\ v.con.failed /\ v.con.id = World.con.id
          /\ World.con.failed => v = World
          /\ ~World.con.failed =>
                /\ v.con.socket = IF World.con.socket = "closed" THEN "closed" ELSE "destroyed"
                /\ v.told = IF World.con.id /\ sent.known THEN Append(World.told, <<"error", 0>>) ELSE World.told
        BY <1>3, <1>4, FailedOnly
    <2>2. v \in StreamWorld
        BY <2>1 DEF Unopened
    <2> QED
        BY <1>1, <1>2, <2>1, <2>2, FailureTold
<1>6. con' = v.con /\ told' = v.told /\ sent' = sent /\ arrived' = arrived
    BY <1>4 DEF SocketError, Becomes
<1>7. PICK b : b = arrived
    OBVIOUS
<1> QED
    BY <1>1, <1>5, <1>6, <1>7, StreamStays

\* The idle timer, and a newer connection of the appliance.
LEMMA TimerAndReplacementKeep ==
    ASSUME StreamAssumption, StreamInv, IdleTimer \/ Replaced
    PROVE  StreamInv'
<1>1. SentRight /\ StreamGoes(World, arrived) /\ arrived \in 0..EndOf[NSent]
    BY DEF StreamInv
<1>2. World.con = con /\ World.told = told
    BY DEF World
<1>3. World \in StreamWorld
    BY <1>1 DEF StreamGoes
<1>4. PICK b : b = arrived
    OBVIOUS
<1>5. CASE IdleTimer
    <2> DEFINE x == [World EXCEPT !.con.timer = FALSE]
    <2>1. /\ x \in StreamWorld /\ x.told = told /\ x.con.socket = con.socket /\ x.con.id = con.id
          /\ x.con.failed = con.failed /\ x.con.broken = con.broken /\ x.con.accum = con.accum
        BY <1>2, <1>3 DEF StreamWorld
    <2> HIDE DEF x
    <2>2. StreamGoes(x, arrived)
        <3>1. ASSUME NEW m, Reading(World, m, arrived)
              PROVE  Reading(x, m, arrived)
            BY <1>2, <2>1, <3>1 DEF Reading
        <3>2. ASSUME NEW m, Over(World, m, arrived)
              PROVE  Over(x, m, arrived)
            <4>1. Closing(x.con, HeardOf[m]) = Closing(World.con, HeardOf[m])
                BY <1>2, <2>1 DEF Closing
            <4> QED
                BY <1>2, <2>1, <3>2, <4>1 DEF Over
        <3> QED
            BY <1>1, <1>2, <2>1, <3>1, <3>2 DEF StreamGoes
    <2>3. PICK v : v = Destroy(x)
        OBVIOUS
    <2>4. StreamGoes(v, arrived)
        BY <1>1, <2>2, <2>3, DestroyKeeps
    <2>5. con' = v.con /\ told' = v.told /\ sent' = sent /\ arrived' = arrived
        BY <1>5, <2>3 DEF IdleTimer, Becomes, x
    <2> QED
        BY <1>1, <1>4, <2>4, <2>5, StreamStays
<1>6. CASE Replaced
    <2>1. PICK v : v = Destroy(World)
        OBVIOUS
    <2>2. StreamGoes(v, arrived)
        BY <1>1, <2>1, DestroyKeeps
    <2>3. con' = v.con /\ told' = v.told /\ sent' = sent /\ arrived' = arrived
        BY <1>6, <2>1 DEF Replaced, Becomes
    <2> QED
        BY <1>1, <1>4, <2>2, <2>3, StreamStays
<1> QED
    BY <1>5, <1>6

\* The close of the socket, told last.
LEMMA SocketClosesKeeps ==
    ASSUME StreamAssumption, StreamInv, SocketCloses
    PROVE  StreamInv'
<1>1. SentRight /\ StreamGoes(World, arrived) /\ arrived \in 0..EndOf[NSent]
    BY DEF StreamInv
<1>2. World.con = con /\ World.told = told /\ con.socket \in {"ended", "destroyed"}
    BY DEF World, SocketCloses
<1>3. World \in StreamWorld
    BY <1>1 DEF StreamGoes
<1> DEFINE y == [World EXCEPT !.con.socket = "closed"]
           x == [World EXCEPT !.con.socket = "closed", !.con.timer = FALSE]
<1>4. /\ y \in StreamWorld /\ y.told = told /\ y.con.socket = "closed" /\ y.con.id = con.id
      /\ y.con.failed = con.failed
    BY <1>2, <1>3 DEF StreamWorld
<1>5. x = [y EXCEPT !.con.timer = FALSE]
    OBVIOUS
<1> HIDE DEF x, y
<1>6. /\ x \in StreamWorld /\ x.told = told /\ x.con.socket = "closed" /\ x.con.id = con.id
      /\ x.con.failed = con.failed
    BY <1>4, <1>5 DEF StreamWorld
<1>7. <<"close", 0>> \in ToldEvent
    BY DEF ToldEvent, StreamAssumption
<1>8. PICK v : v = Tell(x, <<"close", 0>>)
    OBVIOUS
<1>9. /\ Unopened(x, v) /\ v.con = x.con
      /\ v.told = IF x.con.id /\ sent.known THEN Append(x.told, <<"close", 0>>) ELSE x.told
    BY <1>6, <1>7, <1>8, ToldOnly
<1>10. v \in StreamWorld
    BY <1>9 DEF Unopened
<1>11. ASSUME NEW m \in 0..NSent, sent.known, Over(World, m, arrived)
       PROVE  Over(v, m, arrived)
    <2>1. told = Closing(con, HeardOf[m])
        BY <1>2, <1>11 DEF Over
    <2>2. v.told = Closing(v.con, HeardOf[m])
        BY <1>2, <1>6, <1>9, <1>11, <2>1 DEF Closing
    <2> QED
        BY <1>2, <1>6, <1>9, <1>11, <2>2 DEF Over
<1>12. StreamGoes(v, arrived)
    BY <1>1, <1>2, <1>6, <1>9, <1>10, <1>11, StillOver
<1>13. con' = v.con /\ told' = v.told /\ sent' = sent /\ arrived' = arrived
    BY <1>8 DEF SocketCloses, Becomes, x
<1>14. PICK b : b = arrived
    OBVIOUS
<1> QED
    BY <1>1, <1>12, <1>13, <1>14, StreamStays

\* A new connection has taken nothing.
LEMMA StreamBegins ==
    ASSUME StreamAssumption, StreamInit
    PROVE  StreamInv
<1>1. SentRight
    <2>1. PICK n \in 0..MaxFrames : sent.frames \in [1..n -> StreamFrame]
        BY DEF StreamInit
    <2>2. sent \in [frames : [1..n -> StreamFrame], known : BOOLEAN]
        BY <2>1 DEF StreamInit
    <2> QED
        BY <2>2 DEF SentRight
<1>2. /\ NSent \in Nat /\ 0 \in 0..NSent /\ NSent \in 0..NSent /\ HeaderBytes \in Nat /\ HeaderBytes > 0
      /\ MaxPayload \in Nat /\ MaxPayload > 0
    BY <1>1, SentFacts
<1>3. EndOf[0] = 0 /\ EndOf[NSent] \in Nat /\ HeardOf[0] = <<>>
    BY <1>1, <1>2, EndOfFacts, HearFacts
<1>4. arrived = 0 /\ arrived \in 0..EndOf[NSent]
    BY <1>3 DEF StreamInit
<1>5. World = [con |-> [socket |-> "open", accum |-> <<>>, broken |-> FALSE, failed |-> FALSE,
                        id |-> FALSE, timer |-> TRUE], told |-> <<>>]
    BY DEF World, StreamInit
<1>6. World \in StreamWorld
    BY <1>5 DEF StreamWorld
<1>7. KeptBehind(0, 0) = <<>>
    <2>1. 0 - EndOf[0] = 0
        BY <1>3
    <2> QED
        BY <2>1 DEF KeptBehind
<1>8. Reading(World, 0, arrived)
    BY <1>3, <1>4, <1>5, <1>7 DEF Reading
<1>9. Waiting(0, arrived)
    <2>1. CASE NSent = 0
        BY <2>1 DEF Waiting
    <2>2. CASE NSent # 0
        <3>1. 0 + 1 \in 0..NSent /\ 0 < 0 + 1
            BY <1>2, <2>2
        <3>2. EndOf[0] < EndOf[0 + 1]
            BY <1>1, <1>2, <3>1, EndOfGrows
        <3> QED
            BY <1>2, <1>3, <1>4, <3>2 DEF Waiting
    <2> QED
        BY <2>1, <2>2
<1>10. StreamGoes(World, arrived)
    <2>1. World.con.socket = "open"
        BY <1>5
    <2> QED
        BY <1>2, <1>6, <1>8, <1>9, <2>1 DEF StreamGoes
<1> QED
    BY <1>1, <1>4, <1>10 DEF StreamInv

\* Every event of a connection keeps the invariant.
LEMMA StreamStep ==
    ASSUME StreamAssumption, StreamInv, [StreamNext]_streamVars
    PROVE  StreamInv'
<1>1. ASSUME NEW n \in 1..(MaxFrames * (HeaderBytes + MaxPayload + 1)), Data(n)
      PROVE  StreamInv'
    <2>1. n \in Nat
        BY DEF StreamAssumption
    <2> QED
        BY <1>1, <2>1, DataKeeps
<1>2. CASE End
    BY <1>2, EndKeeps
<1>3. CASE SocketError
    BY <1>3, SocketErrorKeeps
<1>4. CASE IdleTimer \/ Replaced
    BY <1>4, TimerAndReplacementKeep
<1>5. CASE SocketCloses
    BY <1>5, SocketClosesKeeps
<1>6. CASE UNCHANGED streamVars
    <2>1. SentRight /\ StreamGoes(World, arrived) /\ arrived \in 0..EndOf[NSent]
        BY DEF StreamInv
    <2>2. PICK v, b : v = World /\ b = arrived
        OBVIOUS
    <2>3. con' = v.con /\ told' = v.told /\ sent' = sent /\ arrived' = b
        BY <1>6, <2>2 DEF streamVars, World
    <2> QED
        BY <2>1, <2>2, <2>3, StreamStays
<1> QED
    BY <1>1, <1>2, <1>3, <1>4, <1>5, <1>6 DEF StreamNext

\* The invariant holds the types.
LEMMA StreamTyped ==
    ASSUME StreamAssumption, StreamInv
    PROVE  StreamTypeOK
<1>1. SentRight /\ World \in StreamWorld
    BY DEF StreamInv, StreamGoes
<1>2. con = World.con /\ told = World.told
    BY DEF World
<1>3. NSent \in Nat /\ NSent \in 0..NSent /\ NSent <= MaxFrames /\ MaxFrames \in Nat
    BY <1>1, SentFacts
<1>4. EndOf[NSent] \in Nat /\ arrived \in Nat
    <2>1. EndOf[NSent] \in Nat
        BY <1>1, <1>3, EndOfFacts
    <2> QED
        BY <2>1 DEF StreamInv
<1>5. Seq(SentByte) \subseteq Seq(Byte)
    <2>1. SentByte \subseteq Byte
        BY <1>3 DEF SentByte, Byte
    <2> HIDE DEF SentByte, Byte
    <2> QED
        BY <2>1
<1>6. con \in Con
    BY <1>1, <1>2, <1>5 DEF StreamWorld, Con
<1>7. told \in Seq({"data", "response", "error", "close"} \X (0..MaxFrames))
    BY <1>1, <1>2 DEF StreamWorld, ToldEvent
<1> QED
    BY <1>4, <1>6, <1>7 DEF StreamTypeOK

-----------------------------------------------------------------------------
\* The frames that arrived whole are the first ones.
LEMMA WholeAreTheFirst ==
    ASSUME StreamAssumption, SentRight, NEW m \in 0..NSent, Taken(m, arrived), arrived \in Nat
    PROVE  ArrivedWhole = 1..m
<1>1. NSent \in Nat /\ m \in Nat
    BY SentFacts
<1>2. \A i \in 0..NSent : EndOf[i] \in Nat
    BY EndOfFacts
<1>3. ArrivedWhole = {i \in 1..NSent : /\ EndOf[i] <= arrived /\ Says(i) # "garbage"
                                   /\ \A j \in 1..(i - 1) : GoodFrame(j)}
    BY DEF ArrivedWhole, NSent, Says, GoodFrame
<1>4. ASSUME NEW i \in 1..m
      PROVE  i \in ArrivedWhole
    <2>1. i \in 1..NSent /\ i \in 0..NSent /\ \A j \in 1..(i - 1) : j \in 1..(m - 1)
        BY <1>1
    <2>2. EndOf[i] <= arrived
        <3>1. CASE i = m
            BY <3>1 DEF Taken
        <3>2. CASE i < m
            <4>1. EndOf[i] < EndOf[m]
                BY <2>1, <3>2, EndOfGrows
            <4> QED
                BY <1>2, <2>1, <4>1 DEF Taken
        <3> QED
            BY <1>1, <3>1, <3>2
    <2> QED
        BY <1>3, <2>1, <2>2 DEF Taken
<1>5. ASSUME NEW i \in ArrivedWhole, i > m
      PROVE  FALSE
    <2>1. i \in 1..NSent /\ EndOf[i] <= arrived /\ Says(i) # "garbage" /\ \A j \in 1..(i - 1) : GoodFrame(j)
        BY <1>3
    <2>2. m # NSent
        BY <1>1, <1>5, <2>1
    <2>3. m + 1 \in 0..NSent /\ i \in 0..NSent
        BY <1>1, <1>5, <2>1
    <2>4. CASE arrived < EndOf[m + 1]
        <3>1. EndOf[m + 1] <= EndOf[i]
            <4>1. CASE i = m + 1
                BY <1>2, <2>3, <4>1
            <4>2. CASE i > m + 1
                <5>1. EndOf[m + 1] < EndOf[i]
                    BY <2>3, <4>2, EndOfGrows
                <5> QED
                    BY <1>2, <2>3, <5>1
            <4> QED
                BY <1>1, <1>5, <2>1, <4>1, <4>2
        <3> QED
            BY <1>2, <2>1, <2>3, <2>4, <3>1
    <2>5. CASE Says(m + 1) = "garbage"
        <3>1. i # m + 1
            BY <2>1, <2>5
        <3>2. m + 1 \in 1..(i - 1)
            BY <1>1, <1>5, <2>1, <3>1
        <3> QED
            BY <2>1, <2>5, <3>2 DEF GoodFrame
    <2>6. CASE m > 0 /\ ~GoodFrame(m)
        <3>1. m \in 1..(i - 1)
            BY <1>1, <1>5, <2>1, <2>6
        <3> QED
            BY <2>1, <2>6, <3>1
    <2> QED
        BY <2>2, <2>4, <2>5, <2>6 DEF Taken
<1>6. \A i \in ArrivedWhole : i \in 1..m
    <2> TAKE i \in ArrivedWhole
    <2>1. i \in 1..NSent /\ ~(i > m)
        BY <1>3, <1>5
    <2> QED
        BY <1>1, <2>1
<1> QED
    BY <1>4, <1>6

\* The messages of the frames that arrived whole are those of the frames that were taken.
LEMMA MessagesHeard ==
    ASSUME StreamAssumption, SentRight, NEW m \in 0..NSent, Taken(m, arrived), arrived \in Nat, sent.known
    PROVE  Messages = HeardOf[m]
<1> DEFINE Upto(i) == IF i <= m THEN i ELSE m
           heard[i \in 0..Len(sent.frames)] ==
               IF i = 0 THEN <<>>
               ELSE IF i \in ArrivedWhole /\ sent.frames[i].says # "alive" THEN Append(heard[i - 1], Event(i))
               ELSE heard[i - 1]
           R(i, h) == IF i \in ArrivedWhole /\ Says(i) # "alive" THEN Append(h, Event(i)) ELSE h
           g == [i \in 0..NSent |-> HeardOf[Upto(i)]]
<1>1. NSent \in Nat /\ m \in Nat /\ ArrivedWhole = 1..m
    BY SentFacts, WholeAreTheFirst
<1>2. Messages = heard[NSent]
    BY DEF Messages, NSent
<1>3. \A i \in 1..NSent : HeardOf[Upto(i)] = R(i, HeardOf[Upto(i - 1)])
    <2> TAKE i \in 1..NSent
    <2>1. CASE i <= m
        <3>1. Upto(i) = i /\ Upto(i - 1) = i - 1 /\ i \in ArrivedWhole
            BY <1>1, <2>1
        <3>2. HeardOf[i] = IF Says(i) = "alive" THEN HeardOf[i - 1] ELSE Append(HeardOf[i - 1], Event(i))
            BY HearFacts
        <3> HIDE DEF Upto
        <3> QED
            BY <3>1, <3>2
    <2>2. CASE i > m
        <3>1. Upto(i) = m /\ Upto(i - 1) = m /\ i \notin ArrivedWhole
            BY <1>1, <2>2
        <3> HIDE DEF Upto
        <3> QED
            BY <3>1
    <2> QED
        BY <1>1, <2>1, <2>2
<1>4. HeardOf[Upto(0)] = <<>>
    BY <1>1, HearFacts
<1> HIDE DEF Upto, R
<1>5. \A i \in 0..NSent : g[i] = IF i = 0 THEN <<>> ELSE R(i, g[i - 1])
    <2> TAKE i \in 0..NSent
    <2>1. CASE i # 0
        <3>1. i \in 1..NSent /\ i - 1 \in 0..NSent
            BY <1>1, <2>1
        <3>2. g[i] = HeardOf[Upto(i)] /\ g[i - 1] = HeardOf[Upto(i - 1)]
            BY <3>1
        <3> HIDE DEF g
        <3> QED
            BY <1>3, <2>1, <3>1, <3>2
    <2> QED
        BY <1>4, <2>1
<1>6. g = [i \in 0..NSent |-> g[i]]
    OBVIOUS
<1> HIDE DEF g
<1>7. g = [i \in 0..NSent |-> IF i = 0 THEN <<>> ELSE R(i, g[i - 1])]
    BY <1>5, <1>6
<1>8. \E h : h = [i \in 0..NSent |-> IF i = 0 THEN <<>>
                                 ELSE IF i \in ArrivedWhole /\ sent.frames[i].says # "alive"
                                      THEN Append(h[i - 1], Event(i))
                                 ELSE h[i - 1]]
    BY <1>7 DEF R, Says
<1>9. heard = [i \in 0..NSent |-> IF i = 0 THEN <<>> ELSE R(i, heard[i - 1])]
    BY <1>8, Zenon DEF heard, R, Says, NSent
<1> HIDE DEF heard
<1> DEFINE S == {i \in Nat : i <= NSent => heard[i] = HeardOf[Upto(i)]}
<1>10. 0 \in S
    BY <1>1, <1>4, <1>9
<1>11. \A i \in Nat : i \in S => i + 1 \in S
    <2> SUFFICES ASSUME NEW i \in Nat, i \in S, i + 1 <= NSent
                 PROVE  heard[i + 1] = HeardOf[Upto(i + 1)]
        OBVIOUS
    <2>1. i + 1 \in 1..NSent /\ i + 1 \in 0..NSent /\ i + 1 # 0 /\ (i + 1) - 1 = i
        BY <1>1
    <2>2. heard[i + 1] = R(i + 1, heard[i])
        BY <1>9, <2>1
    <2>3. heard[i] = HeardOf[Upto(i)]
        BY <1>1
    <2> QED
        BY <1>3, <2>1, <2>2, <2>3
<1>12. heard[NSent] = HeardOf[Upto(NSent)]
    <2>1. Nat \subseteq S
        <3> HIDE DEF S
        <3> QED
            BY <1>10, <1>11, EveryNumber
    <2> QED
        BY <1>1, <2>1
<1>13. Upto(NSent) = m
    BY <1>1 DEF Upto
<1> QED
    BY <1>2, <1>12, <1>13

\* What the Device was told are the messages in order and then the end.
LEMMA MessagesAreInOrder ==
    ASSUME StreamAssumption, StreamInv
    PROVE  MessagesInOrder
<1> DEFINE Tail0(ends) == [i \in 1..Len(ends) |-> <<ends[i], 0>>]
<1>1. SentRight /\ StreamGoes(World, arrived) /\ arrived \in 0..EndOf[NSent]
    BY DEF StreamInv
<1>2. /\ sent.known => \E m \in 0..NSent : Over(World, m, arrived)
      /\ ~sent.known => told = <<>>
    BY <1>1, AlreadyTaken DEF World
<1>3. CASE ~sent.known
    <2>1. Messages = <<>> /\ told = <<>>
        BY <1>2, <1>3 DEF Messages
    <2>2. Tail0(<<>>) = <<>>
        OBVIOUS
    <2>3. told = Messages \o Tail0(<<>>)
        BY <2>1, <2>2
    <2> HIDE DEF Tail0
    <2>4. <<>> \in {<<>>, <<"error">>, <<"close">>, <<"error", "close">>}
        OBVIOUS
    <2>5. \E ends \in {<<>>, <<"error">>, <<"close">>, <<"error", "close">>} : told = Messages \o Tail0(ends)
        BY <2>3, <2>4
    <2> QED
        BY <2>5 DEF MessagesInOrder, Tail0
<1>4. CASE sent.known
    <2>1. PICK m \in 0..NSent : Over(World, m, arrived)
        BY <1>2, <1>4
    <2>2. arrived \in Nat /\ NSent \in 0..NSent
        <3>1. NSent \in 0..NSent
            BY <1>1, SentFacts
        <3>2. EndOf[NSent] \in Nat
            BY <1>1, <3>1, EndOfFacts
        <3> QED
            BY <1>1, <3>1, <3>2
    <2> DEFINE H == HeardOf[m]
               e == <<"error", 0>>
               c == <<"close", 0>>
    <2>3. Messages = H
        BY <1>1, <1>4, <2>1, <2>2, MessagesHeard DEF Over
    <2>4. H \in Seq(ToldEvent) /\ e \in ToldEvent /\ c \in ToldEvent
        BY <1>1, HearFacts DEF ToldEvent, StreamAssumption
    <2>5. told \in {H, Append(H, e), Append(H, c), Append(Append(H, e), c)}
        BY <2>1 DEF Over, Closing, World
    <2>6. /\ Tail0(<<>>) = <<>> /\ Tail0(<<"error">>) = <<e>> /\ Tail0(<<"close">>) = <<c>>
          /\ Tail0(<<"error", "close">>) = <<e, c>>
        OBVIOUS
    <2> HIDE DEF H, e, c, Tail0
    <2>7. /\ H = H \o <<>> /\ Append(H, e) = H \o <<e>> /\ Append(H, c) = H \o <<c>>
          /\ Append(Append(H, e), c) = H \o <<e, c>>
        <3>1. H = H \o <<>> /\ Append(H, e) = H \o <<e>> /\ Append(H, c) = H \o <<c>>
            BY <2>4, ConcatEmptySeq, AppendIsConcat
        <3>2. <<e>> \in Seq(ToldEvent) /\ <<c>> \in Seq(ToldEvent)
            BY <2>4
        <3>3. H \o <<e>> \in Seq(ToldEvent)
            BY <2>4, <3>2, ConcatProperties
        <3>4. Append(H \o <<e>>, c) = (H \o <<e>>) \o <<c>>
            BY <2>4, <3>3, AppendIsConcat
        <3>5. (H \o <<e>>) \o <<c>> = H \o (<<e>> \o <<c>>)
            BY <2>4, <3>2, ConcatAssociative
        <3>6. <<e>> \o <<c>> = <<e, c>>
            <4> DEFINE x == <<e>>
                       y == <<c>>
                       z == <<e, c>>
            <4>1. /\ x \in Seq(ToldEvent) /\ Len(x) = 1 /\ x[1] = e
                  /\ y \in Seq(ToldEvent) /\ Len(y) = 1 /\ y[1] = c
                  /\ z \in Seq(ToldEvent) /\ Len(z) = 2 /\ z[1] = e /\ z[2] = c
                BY <2>4
            <4> HIDE DEF x, y, z
            <4>2. /\ x \o y \in Seq(ToldEvent) /\ Len(x \o y) = Len(x) + Len(y)
                  /\ \A p \in 1..(Len(x) + Len(y)) : (x \o y)[p] = IF p <= Len(x) THEN x[p] ELSE y[p - Len(x)]
                BY <4>1, ConcatProperties
            <4>3. Len(x \o y) = Len(z) /\ \A p \in 1..Len(z) : (x \o y)[p] = z[p]
                <5>1. \A p \in 1..2 : p = 1 \/ p = 2
                    OBVIOUS
                <5>2. (x \o y)[1] = z[1] /\ (x \o y)[2] = z[2]
                    BY <4>1, <4>2
                <5> QED
                    BY <4>1, <4>2, <5>1, <5>2
            <4>4. x \o y = z
                BY <4>1, <4>2, <4>3, SeqEqual
            <4> QED
                BY <4>4 DEF x, y, z
        <3> QED
            BY <3>1, <3>4, <3>5, <3>6
    <2>8. \E ends \in {<<>>, <<"error">>, <<"close">>, <<"error", "close">>} : told = Messages \o Tail0(ends)
        BY <2>3, <2>5, <2>6, <2>7, Zenon
    <2> QED
        BY <2>8 DEF MessagesInOrder, Tail0
<1> QED
    BY <1>3, <1>4

\* An open connection keeps less than a frame, and just the bytes that no frame was made of.
LEMMA LittleIsKeptAlways ==
    ASSUME StreamAssumption, StreamInv
    PROVE  LittleIsKept
<1>1. SentRight /\ StreamGoes(World, arrived) /\ arrived \in 0..EndOf[NSent] /\ World.con = con
    BY DEF StreamInv, World
<1>2. SUFFICES ASSUME con.socket = "open"
               PROVE  /\ Len(con.accum) < HeaderBytes + MaxPayload
                      /\ Len(con.accum) = arrived - EndOf[Cardinality(ArrivedWhole)]
    BY DEF LittleIsKept
<1>3. PICK m \in 0..NSent : Reading(World, m, arrived) /\ Waiting(m, arrived)
    BY <1>1, <1>2 DEF StreamGoes
<1>4. /\ NSent \in Nat /\ m \in Nat /\ NSent \in 0..NSent /\ HeaderBytes \in Nat /\ HeaderBytes > 0 /\ MaxPayload \in Nat
      /\ EndOf[NSent] \in Nat /\ EndOf[m] \in Nat /\ arrived \in Nat
    <2>1. /\ NSent \in Nat /\ m \in Nat /\ NSent \in 0..NSent /\ HeaderBytes \in Nat /\ HeaderBytes > 0 /\ MaxPayload \in Nat
        BY <1>1, SentFacts
    <2>2. EndOf[NSent] \in Nat /\ EndOf[m] \in Nat
        BY <1>1, <2>1, EndOfFacts
    <2> QED
        BY <1>1, <2>1, <2>2
<1>5. Taken(m, arrived)
    <2>1. \A i \in 1..(m - 1) : i \in 1..m
        BY <1>4
    <2> QED
        BY <1>3, <2>1 DEF Taken, Reading, Waiting, GoodFrame
<1>6. Cardinality(ArrivedWhole) = m
    <2>1. ArrivedWhole = 1..m
        BY <1>1, <1>4, <1>5, WholeAreTheFirst
    <2>2. Cardinality(1..m) = IF 1 > m THEN 0 ELSE m - 1 + 1
        BY <1>4, FS_Interval
    <2> QED
        BY <1>4, <2>1, <2>2
<1>7. Len(con.accum) = arrived - EndOf[m]
    BY <1>1, <1>3, KeptFacts DEF Reading
<1>8. arrived - EndOf[m] < HeaderBytes + MaxPayload
    <2>1. CASE m = NSent
        <3>1. arrived <= EndOf[m]
            BY <1>1, <1>4, <2>1
        <3> QED
            BY <1>4, <3>1
    <2>2. CASE m # NSent
        BY <1>3, <2>2 DEF Waiting
    <2> QED
        BY <2>1, <2>2
<1> QED
    BY <1>6, <1>7, <1>8

\* Whatever the chunks and whenever the socket ends, the splitter keeps the bytes behind the
\* frames that it took, and the Device was told these and then perhaps the end.
THEOREM StreamInvariantHolds ==
    ASSUME StreamAssumption
    PROVE  StreamSpec => []StreamInv
<1>1. StreamInit => StreamInv
    BY StreamBegins
<1>2. StreamInv /\ [StreamNext]_streamVars => StreamInv'
    BY StreamStep
<1> QED
    BY <1>1, <1>2, PTL DEF StreamSpec

-----------------------------------------------------------------------------
(* The properties that the runs check of all of them.                      *)

\* The meters follow each other from what was read to what is shown, the laundry and the
\* refrigerators from a record to what is shown of it, and the air conditioners write what
\* they were asked to; of the bytes of an appliance the first frames and fields are taken.
\* The inductive invariants of the five handlers and of the two readers hold together.
THEOREM AppliancesInvariantHolds ==
    ASSUME AppliancesAssumption
    PROVE  AppliancesSpec => [](/\ RacInv /\ PacInv /\ EnergyInv /\ LaundryInv /\ FridgeInv
                                /\ StreamInv /\ BytesInv)
<1>1. RacSpec => []RacInv
    BY RacInvariantHolds DEF AppliancesAssumption
<1>2. PacSpec => []PacInv
    BY PacInvariantHolds DEF AppliancesAssumption
<1>3. EnergySpec => []EnergyInv
    BY EnergyInvariantHolds DEF AppliancesAssumption
<1>4. LaundrySpec => []LaundryInv
    BY LaundryInvariantHolds DEF AppliancesAssumption
<1>5. FridgeSpec => []FridgeInv
    BY FridgeInvariantHolds DEF AppliancesAssumption
<1>6. StreamSpec => []StreamInv
    BY StreamInvariantHolds DEF AppliancesAssumption
<1>7. RecordsSpec => []BytesInv
    BY RecordsInvariantHolds DEF AppliancesAssumption
<1> QED
    BY <1>1, <1>2, <1>3, <1>4, <1>5, <1>6, <1>7, PTL DEF AppliancesSpec

\* Every frame, record and reading leaves what a handler keeps within its types, whatever
\* the handler does with it.
THEOREM AppliancesTypeCorrect ==
    ASSUME AppliancesAssumption
    PROVE  AppliancesSpec => []AppliancesTypeOK
<1>1. RacInv /\ PacInv /\ EnergyInv /\ LaundryInv /\ FridgeInv /\ StreamInv /\ BytesInv
        => AppliancesTypeOK
    BY LaundryGood, FridgeGood, StreamTyped
    DEF AppliancesAssumption, AppliancesTypeOK, RacInv, PacInv, EnergyInv, BytesInv
<1> QED
    BY <1>1, AppliancesInvariantHolds, PTL

\* A handler starts once however often the appliance answers, a stopped one writes nothing,
\* and a mode alone is written only to an appliance that is on.
THEOREM AppliancesStartAndStop ==
    ASSUME AppliancesAssumption
    PROVE  AppliancesSpec => []HandlersStartAndStop
<1>1. RacInv /\ PacInv => HandlersStartAndStop
    BY DEF HandlersStartAndStop, RacInv, PacInv
<1> QED
    BY <1>1, AppliancesInvariantHolds, PTL

\* What is shown of a meter, a laundry model or a refrigerator is what the appliance is.
THEOREM AppliancesShown ==
    ASSUME AppliancesAssumption
    PROVE  AppliancesSpec => []ShownIsReal
<1>1. EnergyInv /\ LaundryInv /\ FridgeInv => ShownIsReal
    BY LaundryGood, FridgeGood DEF AppliancesAssumption, ShownIsReal, EnergyInv
<1> QED
    BY <1>1, AppliancesInvariantHolds, PTL

\* The Device of a ThinQ1 appliance hears the messages of the frames as they were sent,
\* however the bytes are cut into chunks, and of a ThinQ2 record the fields that are whole
\* are read as they were built.
THEOREM AppliancesArrive ==
    ASSUME AppliancesAssumption
    PROVE  AppliancesSpec => []ArrivesAsSent
<1>1. StreamInv /\ BytesInv => ArrivesAsSent
    BY MessagesAreInOrder, LittleIsKeptAlways, FieldsAreReadAlways DEF AppliancesAssumption, ArrivesAsSent
<1> QED
    BY <1>1, AppliancesInvariantHolds, PTL

\* No step of a handler writes settings back over what the appliance changed itself, shows
\* an overlapping field another way than the frame has it, or sends a washer a start that
\* it is not shown ready for.
THEOREM PowerIsFollowed ==
    ASSUME AppliancesAssumption
    PROVE  AppliancesSpec => PowerChangesFollowed
<1>1. RacSpec => SettingsWrittenBack
    BY SettingsBack DEF AppliancesAssumption
<1>2. PacSpec => PacFollows
    BY PacIsFollowed DEF AppliancesAssumption
<1>3. LaundrySpec => CommandsAreShownPossible
    BY CommandsPossible DEF AppliancesAssumption
<1> QED
    BY <1>1, <1>2, <1>3, PTL DEF AppliancesSpec, PowerChangesFollowed

-----------------------------------------------------------------------------
(* The registration of appliances.  The maps of the three components are   *)
(* related to dv, the device object of every connection: an event first    *)
(* takes a connection its device, then perhaps gives one a new device, and *)
(* each of the two keeps that relation.                                    *)

DeviceMap == [c \in Conns |-> conn[c].device]

\* The index of the acceptors and the list of DeviceManager.
Registered(h, dv) ==
    \A id \in Ids :
        /\ h.byId[id] # None => dv[h.byId[id]] # None /\ dv[h.byId[id]].id = id
        /\ h.all[id] = IF h.byId[id] = None THEN None ELSE dv[h.byId[id]]

\* The handlers, and those of them that poll.
InCharge(h) ==
    /\ \A id \in Ids : h.handler[id] # None => h.handler[id].id = id
    /\ h.running = {h.handler[id] : id \in Ids} \ {None}

\* The present appliances and their handlers, and what Home Assistant was told.
Shown(h) ==
    /\ \A id \in h.announced : h.available[id] = "online"
    /\ \A id \in Ids : h.all[id] # None /\ h.all[id].handled =>
        h.handler[id] = h.all[id] /\ h.pending[id] = None

\* Two connections never have the same device object.
Distinct(dv) == \A c, k \in Conns : dv[c] # None /\ dv[c] = dv[k] => c = k

Good(h, dv) ==
    /\ h \in Home
    /\ dv \in [Conns -> Devices \cup {None}]
    /\ Registered(h, dv) /\ InCharge(h) /\ Shown(h) /\ Distinct(dv)

IInv == TypeOK /\ Good(home, DeviceMap)

-----------------------------------------------------------------------------
\* What the listeners of the devices do to the maps.

LEMMA DeviceParts ==
    ASSUME NEW d \in Devices
    PROVE  d.id \in Ids /\ d.handled \in BOOLEAN /\ d.serial \in Serials /\ d # None
BY NoDeviceAssumption DEF Devices

LEMMA CloseParts ==
    ASSUME NEW h \in Home, NEW d \in Devices
    PROVE  /\ CloseDevice(h, d) \in Home
           /\ CloseDevice(h, d).byId = h.byId
           /\ CloseDevice(h, d).all =
                  IF h.all[d.id] = d THEN [h.all EXCEPT ![d.id] = None] ELSE h.all
           /\ CloseDevice(h, d).handler = h.handler
           /\ CloseDevice(h, d).pending =
                  IF h.handler[d.id] = d THEN [h.pending EXCEPT ![d.id] = d] ELSE h.pending
           /\ CloseDevice(h, d).running = h.running
           /\ CloseDevice(h, d).announced = h.announced
           /\ CloseDevice(h, d).available = h.available
<1>1. d.id \in Ids
    BY DeviceParts
<1> QED
    BY <1>1 DEF CloseDevice, HaDrop, Home

LEMMA AcceptParts ==
    ASSUME NEW h \in Home, NEW d \in Devices
    PROVE  /\ AcceptDevice(h, d) \in Home
           /\ AcceptDevice(h, d).byId = h.byId
           /\ AcceptDevice(h, d).all = [h.all EXCEPT ![d.id] = d]
           /\ AcceptDevice(h, d).available = h.available
           /\ ~d.handled =>
                  /\ AcceptDevice(h, d).handler = h.handler
                  /\ AcceptDevice(h, d).pending = h.pending
                  /\ AcceptDevice(h, d).running = h.running
                  /\ AcceptDevice(h, d).announced = h.announced
           /\ d.handled =>
                  /\ AcceptDevice(h, d).handler = [h.handler EXCEPT ![d.id] = d]
                  /\ AcceptDevice(h, d).pending = [h.pending EXCEPT ![d.id] = None]
                  /\ AcceptDevice(h, d).running = (h.running \ {h.handler[d.id]}) \cup {d}
                  /\ AcceptDevice(h, d).announced = h.announced \ {d.id}
<1>1. d.id \in Ids
    BY DeviceParts
<1> QED
    BY <1>1 DEF AcceptDevice, HaNew, Home

-----------------------------------------------------------------------------
\* A connection loses its device object.
Dropped(h, c, d) ==
    CloseDevice(IF h.byId[d.id] = c THEN [h EXCEPT !.byId[d.id] = None] ELSE h, d)

LEMMA DroppedGood ==
    ASSUME NEW h, NEW dv, NEW c \in Conns, Good(h, dv), dv[c] # None
    PROVE  Good(Dropped(h, c, dv[c]), [dv EXCEPT ![c] = None])
<1> DEFINE d == dv[c]
           g == IF h.byId[d.id] = c THEN [h EXCEPT !.byId[d.id] = None] ELSE h
           r == Dropped(h, c, d)
           ev == [dv EXCEPT ![c] = None]
<1>1. d \in Devices /\ d.id \in Ids
    BY DeviceParts DEF Good
<1>2. /\ g \in Home
      /\ g.byId = IF h.byId[d.id] = c THEN [h.byId EXCEPT ![d.id] = None] ELSE h.byId
      /\ g.all = h.all /\ g.handler = h.handler /\ g.pending = h.pending
      /\ g.running = h.running /\ g.announced = h.announced /\ g.available = h.available
    BY <1>1 DEF Home, Good
<1>3. /\ r \in Home
      /\ r.byId = g.byId
      /\ r.all = IF h.all[d.id] = d THEN [h.all EXCEPT ![d.id] = None] ELSE h.all
      /\ r.handler = h.handler
      /\ r.pending = IF h.handler[d.id] = d THEN [h.pending EXCEPT ![d.id] = d] ELSE h.pending
      /\ r.running = h.running /\ r.announced = h.announced /\ r.available = h.available
    <2>1. r = CloseDevice(g, d)
        BY DEF Dropped
    <2> HIDE DEF d, g, r
    <2> QED
        BY <1>1, <1>2, <2>1, CloseParts
<1>4. ev \in [Conns -> Devices \cup {None}] /\ Distinct(ev)
    BY DEF Good, Distinct
<1>5. h.byId \in [Ids -> Conns \cup {None}] /\ h.all \in [Ids -> Devices \cup {None}]
    BY DEF Good, Home
<1> HIDE DEF d, g, r, ev
<1>6. Registered(r, ev)
    <2> SUFFICES ASSUME NEW id \in Ids
                 PROVE  /\ r.byId[id] # None => ev[r.byId[id]] # None /\ ev[r.byId[id]].id = id
                        /\ r.all[id] = IF r.byId[id] = None THEN None ELSE ev[r.byId[id]]
        BY DEF Registered
    <2>1. /\ h.byId[id] # None => dv[h.byId[id]] # None /\ dv[h.byId[id]].id = id
          /\ h.all[id] = IF h.byId[id] = None THEN None ELSE dv[h.byId[id]]
        BY DEF Good, Registered
    <2>2. \A k \in Conns : ev[k] = IF k = c THEN None ELSE dv[k]
        BY DEF ev, Good
    <2>3. \A k \in Conns : dv[k] = d => k = c
        BY DEF d, Good, Distinct
    <2>4. CASE h.byId[id] = c
        <3>1. id = d.id /\ h.all[id] = d
            BY <2>1, <2>4, RegistryAssumption DEF d, Conns
        <3> QED
            BY <1>2, <1>3, <1>5, <2>4, <3>1
    <2>5. CASE h.byId[id] # c
        <3>1. r.byId[id] = h.byId[id]
            BY <1>1, <1>2, <1>3, <1>5, <2>5
        <3>2. h.all[id] # d
            BY <1>1, <1>5, <2>1, <2>3, <2>5, DeviceParts
        <3>3. r.all[id] = h.all[id]
            BY <1>1, <1>3, <1>5, <3>2
        <3> QED
            BY <1>5, <2>1, <2>2, <2>5, <3>1, <3>3
    <2> QED
        BY <2>4, <2>5
<1>7. InCharge(r)
    BY <1>3 DEF Good, InCharge
<1>8. Shown(r)
    <2>1. \A id \in r.announced : r.available[id] = "online"
        BY <1>3 DEF Good, Shown
    <2>2. ASSUME NEW id \in Ids, r.all[id] # None, r.all[id].handled
          PROVE  r.handler[id] = r.all[id] /\ r.pending[id] = None
        <3>1. r.all[id] = h.all[id] /\ (id = d.id => h.all[id] # d)
            BY <1>1, <1>3, <1>5, <2>2
        <3>2. h.handler[id] = h.all[id] /\ h.pending[id] = None
            BY <2>2, <3>1 DEF Good, Shown
        <3>3. h.pending \in [Ids -> Devices \cup {None}]
            BY DEF Good, Home
        <3> QED
            BY <1>1, <1>3, <3>1, <3>2, <3>3
    <2> QED
        BY <2>1, <2>2 DEF Shown
<1> QED
    BY <1>3, <1>4, <1>6, <1>7, <1>8 DEF Good, d, r, ev

LEMMA DisconnectedGood ==
    ASSUME IInv, NEW c \in Conns
    PROVE  Good(Disconnected(home, c), [DeviceMap EXCEPT ![c] = None])
<1>1. DeviceMap[c] = conn[c].device /\ Good(home, DeviceMap)
    BY DEF IInv, DeviceMap
<1>2. CASE conn[c].device = None
    <2>1. [DeviceMap EXCEPT ![c] = None] = DeviceMap
        BY <1>1, <1>2 DEF DeviceMap
    <2> QED
        BY <1>1, <1>2, <2>1 DEF Disconnected
<1>3. CASE conn[c].device # None
    <2>1. Disconnected(home, c) = Dropped(home, c, DeviceMap[c])
        BY <1>1, <1>3 DEF Disconnected, Dropped
    <2> QED
        BY <1>1, <1>3, <2>1, DroppedGood
<1> QED
    BY <1>2, <1>3

-----------------------------------------------------------------------------
\* A connection that has no device object gets one that nothing refers to.
Indexed(h, c, d) == AcceptDevice([h EXCEPT !.byId[d.id] = c], d)

LEMMA IndexedGood ==
    ASSUME NEW h, NEW dv, NEW c \in Conns, NEW d \in Devices, Good(h, dv), dv[c] = None,
           \A k \in Conns : dv[k] # d
    PROVE  Good(Indexed(h, c, d), [dv EXCEPT ![c] = d])
<1> DEFINE g == [h EXCEPT !.byId[d.id] = c]
           r == Indexed(h, c, d)
           ev == [dv EXCEPT ![c] = d]
<1>1. d.id \in Ids /\ d # None /\ d.handled \in BOOLEAN
    BY DeviceParts
<1>2. /\ g \in Home
      /\ g.byId = [h.byId EXCEPT ![d.id] = c]
      /\ g.all = h.all /\ g.handler = h.handler /\ g.pending = h.pending
      /\ g.running = h.running /\ g.announced = h.announced /\ g.available = h.available
    BY <1>1 DEF Home, Good
<1>3. /\ r \in Home
      /\ r.byId = [h.byId EXCEPT ![d.id] = c]
      /\ r.all = [h.all EXCEPT ![d.id] = d]
      /\ r.available = h.available
      /\ ~d.handled =>
            /\ r.handler = h.handler /\ r.pending = h.pending
            /\ r.running = h.running /\ r.announced = h.announced
      /\ d.handled =>
            /\ r.handler = [h.handler EXCEPT ![d.id] = d]
            /\ r.pending = [h.pending EXCEPT ![d.id] = None]
            /\ r.running = (h.running \ {h.handler[d.id]}) \cup {d}
            /\ r.announced = h.announced \ {d.id}
    <2>1. r = AcceptDevice(g, d)
        BY DEF Indexed
    <2> HIDE DEF g, r
    <2> QED
        BY <1>1, <1>2, <2>1, AcceptParts
<1>4. ev \in [Conns -> Devices \cup {None}] /\ Distinct(ev)
    BY <1>1 DEF Good, Distinct
<1>5. /\ h.byId \in [Ids -> Conns \cup {None}] /\ h.all \in [Ids -> Devices \cup {None}]
      /\ h.handler \in [Ids -> Devices \cup {None}] /\ h.pending \in [Ids -> Devices \cup {None}]
      /\ dv \in [Conns -> Devices \cup {None}]
    BY DEF Good, Home
<1> HIDE DEF g, r, ev
<1>6. Registered(r, ev)
    <2> SUFFICES ASSUME NEW id \in Ids
                 PROVE  /\ r.byId[id] # None => ev[r.byId[id]] # None /\ ev[r.byId[id]].id = id
                        /\ r.all[id] = IF r.byId[id] = None THEN None ELSE ev[r.byId[id]]
        BY DEF Registered
    <2>1. /\ h.byId[id] # None => dv[h.byId[id]] # None /\ dv[h.byId[id]].id = id
          /\ h.all[id] = IF h.byId[id] = None THEN None ELSE dv[h.byId[id]]
        BY DEF Good, Registered
    <2>2. \A k \in Conns : ev[k] = IF k = c THEN d ELSE dv[k]
        BY <1>5 DEF ev
    <2>3. c # None
        BY RegistryAssumption DEF Conns
    <2>4. CASE id = d.id
        BY <1>1, <1>3, <1>5, <2>2, <2>3, <2>4
    <2>5. CASE id # d.id
        <3>1. r.byId[id] = h.byId[id] /\ r.all[id] = h.all[id]
            BY <1>1, <1>3, <1>5, <2>5
        <3>2. h.byId[id] # c
            BY <2>1, <2>3
        <3> QED
            BY <1>5, <2>1, <2>2, <3>1, <3>2
    <2> QED
        BY <2>4, <2>5
<1>7. InCharge(r)
    <2>1. /\ \A id \in Ids : h.handler[id] # None => h.handler[id].id = id
          /\ h.running = {h.handler[id] : id \in Ids} \ {None}
        BY DEF Good, InCharge
    <2>2. CASE ~d.handled
        BY <1>3, <2>1, <2>2 DEF InCharge
    <2>3. CASE d.handled
        <3>1. \A id \in Ids : r.handler[id] = IF id = d.id THEN d ELSE h.handler[id]
            BY <1>1, <1>3, <1>5, <2>3
        <3>2. \A id \in Ids : r.handler[id] # None => r.handler[id].id = id
            BY <2>1, <3>1
        <3>3. ASSUME NEW x \in r.running  PROVE x \in {r.handler[id] : id \in Ids} \ {None}
            <4>1. CASE x = d
                BY <1>1, <3>1, <4>1
            <4>2. CASE x # d
                <5>1. x \in h.running /\ x # h.handler[d.id]
                    BY <1>3, <2>3, <3>3, <4>2
                <5>2. PICK id \in Ids : x = h.handler[id] /\ x # None
                    BY <2>1, <5>1
                <5> QED
                    BY <3>1, <5>1, <5>2
            <4> QED
                BY <4>1, <4>2
        <3>4. ASSUME NEW id \in Ids, r.handler[id] # None  PROVE r.handler[id] \in r.running
            <4>1. CASE id = d.id
                BY <1>3, <2>3, <3>1, <4>1
            <4>2. CASE id # d.id
                <5>1. r.handler[id] = h.handler[id] /\ h.handler[id] \in h.running
                    BY <2>1, <3>1, <3>4, <4>2
                <5>2. h.handler[id] # h.handler[d.id]
                    BY <1>1, <2>1, <3>4, <4>2, <5>1
                <5> QED
                    BY <1>3, <2>3, <5>1, <5>2
            <4> QED
                BY <4>1, <4>2
        <3>5. r.running = {r.handler[id] : id \in Ids} \ {None}
            BY <3>3, <3>4
        <3> QED
            BY <3>2, <3>5 DEF InCharge
    <2> QED
        BY <1>1, <2>2, <2>3
<1>8. Shown(r)
    <2>1. \A id \in r.announced : r.available[id] = "online"
        BY <1>1, <1>3 DEF Good, Shown
    <2>2. ASSUME NEW id \in Ids, r.all[id] # None, r.all[id].handled
          PROVE  r.handler[id] = r.all[id] /\ r.pending[id] = None
        <3>1. CASE id = d.id
            BY <1>1, <1>3, <1>5, <2>2, <3>1
        <3>2. CASE id # d.id
            <4>1. h.handler[id] = h.all[id] /\ h.pending[id] = None /\ r.all[id] = h.all[id]
                BY <1>1, <1>3, <1>5, <2>2, <3>2 DEF Good, Shown
            <4> QED
                BY <1>1, <1>3, <1>5, <3>2, <4>1
        <3> QED
            BY <3>1, <3>2
    <2> QED
        BY <2>1, <2>2 DEF Shown
<1> QED
    BY <1>3, <1>4, <1>6, <1>7, <1>8 DEF Good, r, ev

LEMMA NewDeviceUnused ==
    ASSUME IInv, NEW id \in Ids, NEW handled \in BOOLEAN, Unused(id) # {}
    PROVE  /\ NewDevice(id, handled) \in Devices
           /\ NewDevice(id, handled).id = id
           /\ \A k \in Conns : DeviceMap[k] # NewDevice(id, handled)
<1> DEFINE d == NewDevice(id, handled)
<1>1. d.serial \in Unused(id) /\ d.id = id /\ d \in Devices
    BY DEF NewDevice, Unused, Devices
<1>2. ASSUME NEW k \in Conns, DeviceMap[k] = d  PROVE FALSE
    <2>1. conn[k].device = d /\ d # None
        BY <1>1, <1>2, DeviceParts DEF DeviceMap
    <2>2. d \in InUse(id)
        BY <2>1 DEF InUse
    <2> QED
        BY <1>1, <2>2 DEF Unused
<1> QED
    BY <1>1, <1>2

\* The connection that had the identifier, if any, is gone before the new one has it.
Survivors(id) == [k \in Conns |-> IF k = home.byId[id] THEN None ELSE DeviceMap[k]]

LEMMA EvictedGood ==
    ASSUME IInv, NEW id \in Ids
    PROVE  Good(Evicted(home, id), Survivors(id))
<1>1. Good(home, DeviceMap) /\ home.byId[id] \in Conns \cup {None} /\ None \notin Conns
    BY RegistryAssumption DEF IInv, Good, Home, Conns
<1>2. DeviceMap \in [Conns -> Devices \cup {None}]
    BY <1>1 DEF Good
<1>3. CASE home.byId[id] = None
    <2>1. Survivors(id) = DeviceMap
        BY <1>1, <1>2, <1>3 DEF Survivors
    <2> QED
        BY <1>1, <1>3, <2>1 DEF Evicted
<1>4. CASE home.byId[id] # None
    <2>1. Survivors(id) = [DeviceMap EXCEPT ![home.byId[id]] = None]
        BY <1>1, <1>2, <1>4 DEF Survivors
    <2> QED
        BY <1>1, <1>4, <2>1, DisconnectedGood DEF Evicted
<1> QED
    BY <1>3, <1>4

LEMMA ProvisionedGood ==
    ASSUME IInv, NEW id \in Ids, NEW c \in Conns, NEW d \in Devices, d.id = id,
           conn[c].device = None, \A k \in Conns : DeviceMap[k] # d
    PROVE  Good(Provisioned(c, d), [Survivors(id) EXCEPT ![c] = d])
<1>1. Good(Evicted(home, id), Survivors(id))
    BY EvictedGood
<1>2. Survivors(id)[c] = None /\ \A k \in Conns : Survivors(id)[k] # d
    BY DeviceParts DEF Survivors, DeviceMap
<1>3. Provisioned(c, d) = Indexed(Evicted(home, id), c, d)
    BY DEF Provisioned, Indexed
<1> QED
    BY <1>1, <1>2, <1>3, IndexedGood

-----------------------------------------------------------------------------
\* Steps that leave the device objects of the connections alone.
LEMMA SameDevices ==
    ASSUME Good(home, DeviceMap), NEW h \in Home, h.byId = home.byId, h.all = home.all,
           InCharge(h), Shown(h)
    PROVE  Good(h, DeviceMap)
BY DEF Good, Registered

LEMMA GraceOverGood ==
    ASSUME Good(home, DeviceMap), NEW id \in Ids, GraceOver(id)
    PROVE  Good(home', DeviceMap)
<1> DEFINE d == home.pending[id]
<1>1. d \in Devices
    BY DEF Good, Home, GraceOver
<1>2. home \in Home /\ InCharge(home) /\ Shown(home)
    BY DEF Good
<1>3. CASE home.handler[id] # d
    <2>1. home' = [home EXCEPT !.pending[id] = None]
        BY <1>3 DEF GraceOver
    <2>2. /\ home' \in Home
          /\ home'.byId = home.byId /\ home'.all = home.all /\ home'.handler = home.handler
          /\ home'.pending = [home.pending EXCEPT ![id] = None]
          /\ home'.running = home.running /\ home'.announced = home.announced
          /\ home'.available = home.available
        BY <1>2, <2>1 DEF Home
    <2>3. home.pending \in [Ids -> Devices \cup {None}]
        BY <1>2 DEF Home
    <2>4. InCharge(home') /\ Shown(home')
        BY <1>2, <2>2, <2>3 DEF InCharge, Shown
    <2> QED
        BY <2>2, <2>4, SameDevices
<1>4. CASE home.handler[id] = d
    <2>1. home' = [home EXCEPT !.pending[id] = None, !.handler[id] = None,
                               !.running = home.running \ {d},
                               !.announced = home.announced \ {id},
                               !.available[id] = "offline"]
        BY <1>4 DEF GraceOver
    <2>2. /\ home' \in Home
          /\ home'.byId = home.byId /\ home'.all = home.all
          /\ home'.handler = [home.handler EXCEPT ![id] = None]
          /\ home'.pending = [home.pending EXCEPT ![id] = None]
          /\ home'.running = home.running \ {d}
          /\ home'.announced = home.announced \ {id}
          /\ home'.available = [home.available EXCEPT ![id] = "offline"]
        BY <1>2, <2>1 DEF Home
    <2>3. /\ home.handler \in [Ids -> Devices \cup {None}]
          /\ home.pending \in [Ids -> Devices \cup {None}]
          /\ home.available \in [Ids -> {"unknown", "online", "offline"}]
          /\ home.announced \in SUBSET Ids
          /\ None \notin Devices
        BY <1>2, NoDeviceAssumption DEF Home
    <2>4. \A o \in Ids : home'.handler[o] = IF o = id THEN None ELSE home.handler[o]
        BY <2>2, <2>3
    <2>5. /\ \A o \in Ids : home.handler[o] # None => home.handler[o].id = o
          /\ home.running = {home.handler[o] : o \in Ids} \ {None}
        BY <1>2 DEF InCharge
    <2>6. \A o \in Ids \ {id} : home.handler[o] # d
        BY <1>1, <1>4, <2>3, <2>5
    <2> HIDE DEF d
    <2>7. InCharge(home')
        BY <1>4, <2>2, <2>4, <2>5, <2>6 DEF InCharge
    <2>8. Shown(home')
        <3>1. \A o \in home'.announced : home'.available[o] = "online"
            BY <1>2, <2>2, <2>3 DEF Shown
        <3>2. ASSUME NEW o \in Ids, home'.all[o] # None, home'.all[o].handled
              PROVE  home'.handler[o] = home'.all[o] /\ home'.pending[o] = None
            <4>1. home.handler[o] = home.all[o] /\ home.pending[o] = None
                BY <1>2, <2>2, <3>2 DEF Shown
            <4>2. o # id
                BY <1>1, <2>3, <4>1 DEF d
            <4> QED
                BY <2>2, <2>3, <2>4, <4>1, <4>2
        <3> QED
            BY <3>1, <3>2 DEF Shown
    <2> QED
        BY <2>2, <2>7, <2>8, SameDevices
<1> QED
    BY <1>3, <1>4

LEMMA AnnounceGood ==
    ASSUME Good(home, DeviceMap), NEW announced \in SUBSET Ids,
           NEW available \in [Ids -> {"unknown", "online", "offline"}],
           \A o \in announced : available[o] = "online",
           home' = [home EXCEPT !.announced = announced, !.available = available]
    PROVE  Good(home', DeviceMap)
<1>1. home \in Home /\ InCharge(home) /\ Shown(home)
    BY DEF Good
<1>2. /\ home' \in Home
      /\ home'.byId = home.byId /\ home'.all = home.all /\ home'.handler = home.handler
      /\ home'.pending = home.pending /\ home'.running = home.running
      /\ home'.announced = announced /\ home'.available = available
    BY <1>1 DEF Home
<1>3. InCharge(home') /\ Shown(home')
    BY <1>1, <1>2 DEF InCharge, Shown
<1> QED
    BY <1>2, <1>3, SameDevices

-----------------------------------------------------------------------------
\* The connections themselves.
ConnsOK(cn) ==
    /\ cn \in [Conns -> Conn]
    /\ \A c \in T2Conns : cn[c].device # None => cn[c].deploy = cn[c].device.id

LEMMA TypeByParts ==
    ASSUME home \in Home, ConnsOK(conn)
    PROVE  TypeOK
BY DEF TypeOK, ConnsOK, Holds

LEMMA InvParts ==
    ASSUME IInv
    PROVE  ConnsOK(conn) /\ Good(home, DeviceMap) /\ DeviceMap \in [Conns -> Devices \cup {None}]
BY DEF IInv, TypeOK, ConnsOK, Holds, Good

\* A step that leaves everything but one connection's phase and deploy message.
LEMMA QuietStep ==
    ASSUME IInv, NEW c \in Conns, NEW k \in Conn, conn' = [conn EXCEPT ![c] = k],
           k.device = conn[c].device, k.device # None => k.deploy = conn[c].deploy, home' = home
    PROVE  IInv'
<1>1. conn \in [Conns -> Conn] /\ ConnsOK(conn) /\ T2Conns \subseteq Conns
    BY InvParts DEF ConnsOK, Conns
<1>2. ConnsOK(conn')
    BY <1>1 DEF ConnsOK
<1>3. DeviceMap' = DeviceMap
    BY <1>1 DEF DeviceMap
<1>4. Good(home', DeviceMap')
    BY <1>3, InvParts
<1>5. TypeOK'
    BY <1>2, <1>4 DEF TypeOK, ConnsOK, Holds, Good
<1> QED
    BY <1>4, <1>5 DEF IInv

\* A step that takes a connection its device object.
LEMMA LosingStep ==
    ASSUME IInv, NEW c \in Conns, NEW k \in Conn, conn' = [conn EXCEPT ![c] = k],
           k.device = None, home' = Disconnected(home, c)
    PROVE  IInv'
<1>1. conn \in [Conns -> Conn] /\ ConnsOK(conn) /\ T2Conns \subseteq Conns
    BY InvParts DEF ConnsOK, Conns
<1>2. ConnsOK(conn')
    BY <1>1 DEF ConnsOK
<1>3. DeviceMap' = [DeviceMap EXCEPT ![c] = None]
    BY <1>1 DEF DeviceMap
<1>4. Good(home', DeviceMap')
    BY <1>3, DisconnectedGood
<1>5. TypeOK'
    BY <1>2, <1>4 DEF TypeOK, ConnsOK, Holds, Good
<1> QED
    BY <1>4, <1>5 DEF IInv

\* A step after which the maps and the device objects agree again.
LEMMA AgreeingStep ==
    ASSUME ConnsOK(conn'), Good(home', DeviceMap')
    PROVE  IInv'
BY DEF IInv, TypeOK, ConnsOK, Holds, Good

LEMMA CompleteProvisioningKeeps ==
    ASSUME IInv, NEW c \in T2Conns, NEW id \in T2Ids, NEW handled \in BOOLEAN,
           CompleteProvisioning(c, id, handled)
    PROVE  IInv'
<1> DEFINE d == NewDevice(id, handled)
<1>1. id \in Ids /\ c \in Conns /\ T2Conns \subseteq Conns /\ None \notin Conns /\ None \notin Ids
    BY RegistryAssumption DEF Ids, Conns
<1>2. d \in Devices /\ d.id = id /\ \A k \in Conns : DeviceMap[k] # d
    BY <1>1, NewDeviceUnused DEF CompleteProvisioning
<1>3. /\ ConnsOK(conn) /\ conn \in [Conns -> Conn] /\ Good(home, DeviceMap)
    BY InvParts DEF ConnsOK
<1>4. /\ conn[c].device = None /\ conn[c].deploy = id
      /\ home' = Provisioned(c, d)
      /\ conn' = [k \in Conns |->
                    IF k = c THEN [conn[c] EXCEPT !.device = d]
                    ELSE IF k = home.byId[id] THEN Gone ELSE conn[k]]
    BY DEF CompleteProvisioning, Provisionable
<1> HIDE DEF d
<1>5. ConnsOK(conn')
    BY <1>1, <1>2, <1>3, <1>4 DEF ConnsOK, Conn, Gone
<1>6. DeviceMap' = [Survivors(id) EXCEPT ![c] = d]
    BY <1>1, <1>3, <1>4 DEF DeviceMap, Survivors, Gone, Conn
<1>7. Good(home', DeviceMap')
    BY <1>1, <1>2, <1>4, <1>6, ProvisionedGood
<1> QED
    BY <1>5, <1>7, AgreeingStep

LEMMA CloseWithAckKeeps ==
    ASSUME IInv, NEW c \in T2Conns, NEW id \in T2Ids, NEW handled \in BOOLEAN,
           CloseWithAck(c, id, handled)
    PROVE  IInv'
<1> DEFINE d == NewDevice(id, handled)
           p == Provisioned(c, d)
           ev == [Survivors(id) EXCEPT ![c] = d]
<1>1. id \in Ids /\ c \in Conns /\ T2Conns \subseteq Conns /\ None \notin Conns /\ None \notin Ids
    BY RegistryAssumption DEF Ids, Conns
<1>2. d \in Devices /\ d.id = id /\ d # None /\ \A k \in Conns : DeviceMap[k] # d
    BY <1>1, NewDeviceUnused, DeviceParts DEF CloseWithAck
<1>3. /\ ConnsOK(conn) /\ conn \in [Conns -> Conn] /\ Good(home, DeviceMap)
    BY InvParts DEF ConnsOK
<1>4. /\ conn[c].device = None /\ conn[c].deploy = id
      /\ home' = CloseDevice([p EXCEPT !.byId[id] = None], d)
      /\ conn' = [k \in Conns |-> IF k \in {c, home.byId[id]} THEN Gone ELSE conn[k]]
    BY DEF CloseWithAck, Provisionable
<1> HIDE DEF d
<1>5. Good(p, ev)
    BY <1>1, <1>2, <1>4, ProvisionedGood
<1>6. ev[c] = d
    BY <1>1 DEF Survivors
<1>7. p.byId[id] = c
    <2>1. Good(Evicted(home, id), Survivors(id))
        BY <1>1, EvictedGood
    <2> DEFINE g == [Evicted(home, id) EXCEPT !.byId[id] = c]
    <2>2. g \in Home /\ g.byId[id] = c
        BY <1>1, <2>1 DEF Good, Home
    <2>3. p = AcceptDevice(g, d)
        BY <1>2 DEF Provisioned
    <2> HIDE DEF g, p
    <2> QED
        BY <1>2, <2>2, <2>3, AcceptParts
<1>8. home' = Dropped(p, c, ev[c])
    BY <1>2, <1>4, <1>6, <1>7 DEF Dropped
<1>9. DeviceMap' = [ev EXCEPT ![c] = None]
    BY <1>1, <1>3, <1>4 DEF DeviceMap, Survivors, Gone, Conn
<1>10. Good(home', DeviceMap')
    <2> HIDE DEF p, ev
    <2> QED
        BY <1>1, <1>2, <1>5, <1>6, <1>8, <1>9, DroppedGood
<1>11. ConnsOK(conn')
    BY <1>1, <1>3, <1>4 DEF ConnsOK, Conn, Gone
<1> QED
    BY <1>10, <1>11, AgreeingStep

LEMMA IdentifyKeeps ==
    ASSUME IInv, NEW c \in T1Conns, NEW id \in T1Ids, NEW handled \in BOOLEAN,
           Identify(c, id, handled)
    PROVE  IInv'
<1> DEFINE d == NewDevice(id, handled)
<1>1. /\ id \in Ids /\ c \in Conns /\ c \notin T2Conns /\ T2Conns \subseteq Conns
      /\ None \notin Conns /\ None \notin Ids
    BY RegistryAssumption DEF Ids, Conns
<1>2. d \in Devices /\ d.id = id /\ \A k \in Conns : DeviceMap[k] # d
    BY <1>1, NewDeviceUnused DEF Identify
<1>3. ConnsOK(conn) /\ conn \in [Conns -> Conn] /\ Good(home, DeviceMap)
    BY InvParts DEF ConnsOK
<1>4. /\ conn[c].device = None
      /\ home' = AcceptDevice([home EXCEPT !.byId[id] = c], d)
      /\ conn' = [k \in Conns |->
                    IF k = c THEN [conn[c] EXCEPT !.device = d]
                    ELSE IF k = home.byId[id] THEN [conn[k] EXCEPT !.phase = "closing"]
                    ELSE conn[k]]
    BY DEF Identify
<1> HIDE DEF d
<1>5. ConnsOK(conn')
    BY <1>1, <1>2, <1>3, <1>4 DEF ConnsOK, Conn
<1>6. DeviceMap' = [DeviceMap EXCEPT ![c] = d]
    BY <1>1, <1>3, <1>4 DEF DeviceMap, Conn
<1>7. home' = Indexed(home, c, d)
    BY <1>2, <1>4 DEF Indexed
<1>8. DeviceMap[c] = None
    BY <1>1, <1>4 DEF DeviceMap
<1>9. Good(home', DeviceMap')
    BY <1>1, <1>2, <1>3, <1>6, <1>7, <1>8, IndexedGood
<1> QED
    BY <1>5, <1>9, AgreeingStep

-----------------------------------------------------------------------------
LEMMA InitHolds ==
    ASSUME Init
    PROVE  IInv
<1>1. ConnsOK(conn)
    BY DEF Init, ConnsOK, Conn, Gone, Conns
<1>2. home \in Home
    BY DEF Init, Home
<1>3. DeviceMap = [c \in Conns |-> None]
    BY DEF Init, DeviceMap, Gone
<1>4. Registered(home, DeviceMap) /\ InCharge(home) /\ Shown(home) /\ Distinct(DeviceMap)
    BY <1>3 DEF Init, Registered, InCharge, Shown, Distinct
<1> QED
    BY <1>1, <1>2, <1>3, <1>4, TypeByParts DEF IInv, Good

LEMMA StepKeeps ==
    ASSUME IInv, [Next]_vars
    PROVE  IInv'
<1>1. /\ ConnsOK(conn) /\ conn \in [Conns -> Conn] /\ Good(home, DeviceMap) /\ home \in Home
      /\ T1Conns \subseteq Conns /\ T2Conns \subseteq Conns /\ T2Ids \subseteq Ids
    BY InvParts DEF ConnsOK, Conns, Ids, Good
<1>2. Gone \in Conn /\ Gone.device = None
    BY DEF Gone, Conn
<1>3. ASSUME NEW c \in Conns, Open(c)  PROVE IInv'
    <2> DEFINE k == [conn[c] EXCEPT !.phase = "open"]
    <2>1. k \in Conn /\ k.device = conn[c].device /\ k.deploy = conn[c].deploy
        BY <1>1, <1>3 DEF Conn
    <2>2. conn' = [conn EXCEPT ![c] = k] /\ home' = home
        BY <1>1, <1>3 DEF Open
    <2> HIDE DEF k
    <2> QED
        BY <1>3, <2>1, <2>2, QuietStep
<1>4. ASSUME NEW c \in T2Conns, NEW id \in T2Ids, Deploy(c, id)  PROVE IInv'
    <2> DEFINE k == [conn[c] EXCEPT !.deploy = id]
    <2>1. k \in Conn /\ k.device = conn[c].device /\ k.deploy = id
        BY <1>1, <1>4 DEF Conn
    <2>2. k.device # None => k.deploy = conn[c].deploy
        BY <1>1, <1>4, <2>1 DEF Deploy, Holds, ConnsOK
    <2>3. conn' = [conn EXCEPT ![c] = k] /\ home' = home
        BY <1>1, <1>4 DEF Deploy
    <2> HIDE DEF k
    <2> QED
        BY <1>1, <1>4, <2>1, <2>2, <2>3, QuietStep
<1>5. ASSUME NEW c \in T2Conns, NEW id \in T2Ids, Undeploy(c, id)  PROVE IInv'
    <2> DEFINE k == [conn[c] EXCEPT !.device = None, !.deploy = None]
    <2>1. k \in Conn /\ k.device = None
        BY <1>1, <1>5 DEF Conn
    <2>2. conn' = [conn EXCEPT ![c] = k] /\ home' = Disconnected(home, c)
        BY <1>1, <1>5 DEF Undeploy
    <2> HIDE DEF k
    <2> QED
        BY <1>1, <1>5, <2>1, <2>2, LosingStep
<1>6. ASSUME NEW c \in Conns, Close(c) \/ SocketClosed(c)  PROVE IInv'
    BY <1>2, <1>6, LosingStep DEF Close, SocketClosed
<1>7. ASSUME NEW c \in T1Conns, Abandon(c)  PROVE IInv'
    <2> DEFINE k == [conn[c] EXCEPT !.phase = "closing"]
    <2>1. k \in Conn /\ k.device = conn[c].device /\ k.deploy = conn[c].deploy
        BY <1>1, <1>7 DEF Conn
    <2>2. conn' = [conn EXCEPT ![c] = k] /\ home' = home
        BY <1>1, <1>7 DEF Abandon
    <2> HIDE DEF k
    <2> QED
        BY <1>1, <1>7, <2>1, <2>2, QuietStep
<1>8. ASSUME Good(home', DeviceMap), conn' = conn  PROVE IInv'
    BY <1>1, <1>8, AgreeingStep DEF ConnsOK, DeviceMap
<1>9. ASSUME NEW id \in Ids, GraceOver(id)  PROVE IInv'
    BY <1>1, <1>8, <1>9, GraceOverGood DEF GraceOver
<1>10. ASSUME NEW id \in Ids, Announce(id)  PROVE IInv'
    <2> DEFINE announced == home.announced \cup {id}
               available == [home.available EXCEPT ![id] = "online"]
    <2>1. home' = [home EXCEPT !.announced = announced, !.available = available] /\ conn' = conn
        BY <1>10 DEF Announce
    <2>2. announced \in SUBSET Ids /\ available \in [Ids -> {"unknown", "online", "offline"}]
        BY <1>1, <1>10 DEF Home
    <2>3. \A o \in announced : available[o] = "online"
        BY <1>1, <1>10 DEF Home, Good, Shown
    <2> HIDE DEF announced, available
    <2> QED
        BY <1>1, <1>8, <2>1, <2>2, <2>3, AnnounceGood
<1>11. ASSUME Discovery  PROVE IInv'
    <2> DEFINE available ==
            [id \in Ids |-> IF id \in home.announced THEN "online" ELSE home.available[id]]
    <2>1. home' = [home EXCEPT !.announced = home.announced, !.available = available]
        BY <1>1, <1>11 DEF Discovery, Home
    <2>2. home.announced \in SUBSET Ids /\ available \in [Ids -> {"unknown", "online", "offline"}]
        BY <1>1 DEF Home
    <2>3. \A o \in home.announced : available[o] = "online"
        BY <2>2
    <2>4. conn' = conn
        BY <1>11 DEF Discovery
    <2> HIDE DEF available
    <2> QED
        BY <1>1, <1>8, <2>1, <2>2, <2>3, <2>4, AnnounceGood
<1>12. CASE UNCHANGED vars
    <2>1. home' = home /\ conn' = conn
        BY <1>12 DEF vars
    <2> QED
        BY <1>1, <1>8, <2>1
<1>13. ASSUME NEW c \in T2Conns, T2Next(c)  PROVE IInv'
    BY <1>1, <1>3, <1>4, <1>5, <1>6, <1>13, CompleteProvisioningKeeps, CloseWithAckKeeps DEF T2Next
<1>14. ASSUME NEW c \in T1Conns, T1Next(c)  PROVE IInv'
    BY <1>1, <1>3, <1>6, <1>7, <1>14, IdentifyKeeps DEF T1Next
<1> QED
    BY <1>9, <1>10, <1>11, <1>12, <1>13, <1>14 DEF Next

LEMMA Consequences ==
    ASSUME IInv
    PROVE  OneRegistration /\ OnlyHandlerInChargePolls /\ ConnectedIsAvailable
<1>1. /\ Registered(home, DeviceMap) /\ InCharge(home) /\ Shown(home)
      /\ home.byId \in [Ids -> Conns \cup {None}] /\ None \notin Conns
    BY RegistryAssumption DEF IInv, Good, Home, Conns
<1>2. OneRegistration
    <2>1. \A id \in Ids :
             /\ home.byId[id] # None => DeviceMap[home.byId[id]] # None /\ DeviceMap[home.byId[id]].id = id
             /\ home.all[id] = IF home.byId[id] = None THEN None ELSE DeviceMap[home.byId[id]]
        BY <1>1 DEF Registered
    <2>2. \A c \in Conns : DeviceMap[c] = conn[c].device
        BY DEF DeviceMap
    <2> QED BY <1>1, <2>1, <2>2 DEF OneRegistration, Holds, DeviceOf
<1>3. OnlyHandlerInChargePolls
    BY <1>1 DEF OnlyHandlerInChargePolls, InCharge
<1>4. ConnectedIsAvailable
    BY <1>1 DEF ConnectedIsAvailable, Shown
<1> QED
    BY <1>2, <1>3, <1>4

-----------------------------------------------------------------------------
\* The maps of the acceptors, of DeviceManager and of HA_bridge fit the device
\* objects of the connections after every step.
THEOREM InvariantHolds == Spec => []IInv
<1>1. Init => IInv
    BY InitHolds
<1>2. IInv /\ [Next]_vars => IInv'
    BY StepKeeps
<1> QED
    BY <1>1, <1>2, PTL DEF Spec

\* A ThinQ2 device object has the identifier its connection was deployed with.
THEOREM TypeCorrect == Spec => []TypeOK
<1>1. IInv => TypeOK
    BY DEF IInv
<1> QED
    BY <1>1, InvariantHolds, PTL

\* Neither a late close of a replaced connection nor an undeploy takes the
\* replacement out, and no registration outlives its connection.
THEOREM RegistrationUnique == Spec => []OneRegistration
<1>1. IInv => OneRegistration
    BY Consequences
<1> QED
    BY <1>1, InvariantHolds, PTL

\* A replaced handler stops polling, and a dropped one too (stopTimers()).
THEOREM ReplacedStops == Spec => []OnlyHandlerInChargePolls
<1>1. IInv => OnlyHandlerInChargePolls
    BY Consequences
<1> QED
    BY <1>1, InvariantHolds, PTL

\* No old connection and no old grace timer makes a connected appliance unavailable.
THEOREM ConnectedShown == Spec => []ConnectedIsAvailable
<1>1. IInv => ConnectedIsAvailable
    BY Consequences
<1> QED
    BY <1>1, InvariantHolds, PTL

\* HA_bridge: whatever is replaced, dropped or closes late, exactly the handler
\* of the present connection polls, and what it announced stays available.
THEOREM ChargeIsKept == Spec => []HandlerInCharge
BY ReplacedStops, ConnectedShown, PTL DEF HandlerInCharge
=============================================================================
