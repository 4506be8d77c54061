--------------------------- MODULE RouterDnatProofs ---------------------------
(***************************************************************************)
(* Theorems about RouterDnat, for any inventory, any number of faults and  *)
(* any platforms: what was switched off stays off.  The argument is about  *)
(* what a job may still do when a fault interrupts it, and about the three *)
(* places that remember an Off - the saved intent, the latch of a release  *)
(* and what was verified on the router - of which at least one survives.   *)
(* The last part is about the rules themselves: none outlives its entry.   *)
(***************************************************************************)
EXTENDS RouterDnat, TLAPS

\* A job is about entries that are listed, since all edits wait for it; one that
\* removes rules on release has latched them, one that puts rules back is not
\* about an entry the owner switched off.
JobGood ==
    /\ Idle => job.at = Nobody /\ job.todo = {} /\ job.seen = {}
    /\ job.todo \cup job.seen \subseteq Listed
    /\ job.at = Nobody \/ job.at \in Listed
    /\ job.at = Nobody => job.port = 0
    /\ job.op \in {"enable", "save on", "disable", "save off"} => job.at # Nobody
    /\ job.op = "release" => (job.todo \cup {job.at}) \ {Nobody} \subseteq released
    /\ job.op \in {"enable", "save on", "restore"} =>
         \A e \in (job.todo \cup {job.at}) \ {Nobody} : wish[e] = "none"
    /\ job.op = "save on" => verified[job.at] = "on"

\* An acknowledged Off is in the inventory; a release is in the latch, and so is
\* whatever was verified as off.
HistoryGood ==
    \A e \in Entries :
        /\ wish[e] = "off" => e \in Listed /\ config.devices[e].desired = "off"
        /\ wish[e] = "release" => e \in released
        /\ verified[e] = "off" => e \in released

IInv == TypeOK /\ IntentDurable /\ JobGood /\ HistoryGood

-----------------------------------------------------------------------------
\* What the store does to an inventory.

\* A listed entry is a Device.
LEMMA ListedIsDevice ==
    ASSUME NEW c \in Config, NEW e \in ListedIn(c)
    PROVE  e \in Entries /\ c.devices[e] \in Device /\ c.devices[e].ip \in Ips
BY DEF Config, ListedIn, Device

\* Setting the intent of listed entries changes nothing else.
LEMMA WithDesiredParts ==
    ASSUME NEW c \in Config, NEW S \in SUBSET ListedIn(c), NEW want \in {"on", "off"}
    PROVE  /\ WithDesired(c, S, want) \in Config
           /\ WithDesired(c, S, want).target = c.target
           /\ ListedIn(WithDesired(c, S, want)) = ListedIn(c)
           /\ \A e \in Entries \ S : WithDesired(c, S, want).devices[e] = c.devices[e]
           /\ \A e \in S : WithDesired(c, S, want).devices[e]
                             = [c.devices[e] EXCEPT !.desired = want]
<1> DEFINE D == [e \in Entries |->
                   IF e \in S THEN [c.devices[e] EXCEPT !.desired = want] ELSE c.devices[e]]
<1>1. \A e \in S : /\ c.devices[e] \in Device
                   /\ [c.devices[e] EXCEPT !.desired = want] \in Device
    BY ListedIsDevice DEF Device
<1>2. S \subseteq Entries
    BY ListedIsDevice
<1>3. D \in [Entries -> Device \cup {Unlisted}]
    BY <1>1 DEF Config
<1>4. WithDesired(c, S, want) = [c EXCEPT !.devices = D]
    BY DEF WithDesired
<1>5. /\ WithDesired(c, S, want).devices = D
      /\ WithDesired(c, S, want).target = c.target
      /\ WithDesired(c, S, want) \in Config
    BY <1>3, <1>4 DEF Config
<1>6. ListedIn(WithDesired(c, S, want)) = ListedIn(c)
    BY <1>1, <1>2, <1>5, UnlistedAssumption DEF ListedIn
<1> QED
    BY <1>2, <1>5, <1>6

\* Storing one entry leaves the others alone.
LEMMA StoredParts ==
    ASSUME NEW c \in Config, NEW e \in Entries, NEW d \in Device \cup {Unlisted}
    PROVE  /\ [c EXCEPT !.devices[e] = d] \in Config
           /\ [c EXCEPT !.devices[e] = d].devices = [c.devices EXCEPT ![e] = d]
BY DEF Config

\* The rules of an entry are rules for its own address.
LEMMA RuleParts ==
    ASSUME NEW c \in Config, NEW e \in ListedIn(c), NEW i \in 1..2
    PROVE  /\ Rule(c, e, i) \in Ips \X {443, 8883, 46030, 47878} \X Targets
           /\ Rule(c, e, i)[1] = c.devices[e].ip
<1>1. c.devices[e].ip \in Ips /\ c.target \in Targets
    BY ListedIsDevice DEF Config
<1>2. Ports(c.devices[e])[i] \in {443, 8883, 46030, 47878}
    <2>1. CASE i = 1
        BY <2>1 DEF Ports
    <2>2. CASE i = 2
        BY <2>2 DEF Ports
    <2> QED
        BY <2>1, <2>2
<1> QED
    BY <1>1, <1>2 DEF Rule

-----------------------------------------------------------------------------
\* The record of the job.

LEMMA NoJobParts ==
    /\ NoJob \in Job
    /\ NoJob.op = "idle" /\ NoJob.at = Nobody /\ NoJob.port = 0 /\ NoJob.todo = {} /\ NoJob.seen = {}
BY DEF NoJob, Job

LEMMA JobUpdates ==
    ASSUME NEW j \in Job
    PROVE  /\ \A a \in Entries \cup {Nobody} : [j EXCEPT !.at = a] \in Job
           /\ \A p \in 0..3 : [j EXCEPT !.port = p] \in Job
           /\ \A t \in SUBSET Entries : [j EXCEPT !.todo = t] \in Job
           /\ \A s \in SUBSET Entries : [j EXCEPT !.seen = s] \in Job
<1>1. \A a \in Entries \cup {Nobody} : [j EXCEPT !.at = a] \in Job
    BY DEF Job
<1>2. \A p \in 0..3 : [j EXCEPT !.port = p] \in Job
    BY DEF Job
<1>3. \A t \in SUBSET Entries : [j EXCEPT !.todo = t] \in Job
    BY DEF Job
<1>4. \A s \in SUBSET Entries : [j EXCEPT !.seen = s] \in Job
    BY DEF Job
<1> QED
    BY <1>1, <1>2, <1>3, <1>4

\* The job goes to an entry.
LEMMA JobMoves ==
    ASSUME job \in Job, NEW a \in Entries, NEW t \in SUBSET Entries,
           job' = [job EXCEPT !.at = a, !.port = 1, !.todo = t]
    PROVE  /\ job' \in Job
           /\ job'.op = job.op /\ job'.at = a /\ job'.port = 1 /\ job'.todo = t /\ job'.seen = job.seen
<1>1. job' = [[[job EXCEPT !.at = a] EXCEPT !.port = 1] EXCEPT !.todo = t]
    BY Zenon
<1>2. [job EXCEPT !.at = a] \in Job
    BY JobUpdates, Zenon
<1>3. 1 \in 0..3
    OBVIOUS
<1>4. [[job EXCEPT !.at = a] EXCEPT !.port = 1] \in Job
    BY <1>2, <1>3, JobUpdates, Zenon
<1>5. job' \in Job
    BY <1>1, <1>4, JobUpdates, Zenon
<1>6. job'.op = job.op /\ job'.at = a /\ job'.port = 1 /\ job'.todo = t /\ job'.seen = job.seen
    BY DEF Job
<1> QED
    BY <1>5, <1>6

\* The rules of an entry are as asked, its intent is still to be saved.
LEMMA JobSaves ==
    ASSUME job \in Job, NEW op \in {"save on", "save off"}, job' = [job EXCEPT !.op = op]
    PROVE  /\ job' \in Job
           /\ job'.op = op /\ job'.at = job.at /\ job'.port = job.port
           /\ job'.todo = job.todo /\ job'.seen = job.seen
BY DEF Job

\* The job is done with an entry.
LEMMA JobLeaves ==
    ASSUME job \in Job, job' = [job EXCEPT !.at = Nobody, !.port = 0]
    PROVE  /\ job' \in Job
           /\ job'.op = job.op /\ job'.at = Nobody /\ job'.port = 0
           /\ job'.todo = job.todo /\ job'.seen = job.seen
<1>1. job' = [[job EXCEPT !.at = Nobody] EXCEPT !.port = 0]
    BY Zenon
<1>2. [job EXCEPT !.at = Nobody] \in Job
    BY JobUpdates, Zenon
<1>3. 0 \in 0..3
    OBVIOUS
<1>4. job' \in Job
    BY <1>1, <1>2, <1>3, JobUpdates, Zenon
<1>5. /\ job'.op = job.op /\ job'.at = Nobody /\ job'.port = 0
      /\ job'.todo = job.todo /\ job'.seen = job.seen
    BY DEF Job
<1> QED
    BY <1>4, <1>5

LEMMA JobParts ==
    ASSUME NEW j \in Job
    PROVE  /\ j.at \in Entries \cup {Nobody} /\ j.port \in 0..3
           /\ j.todo \in SUBSET Entries /\ j.seen \in SUBSET Entries
BY DEF Job

-----------------------------------------------------------------------------
\* The start.

LEMMA InitHolds == Init => IInv
<1> SUFFICES ASSUME Init
             PROVE  IInv
    OBVIOUS
<1>1. config \in Config /\ disk = config /\ job = NoJob
      /\ \A e, o \in Listed : e # o => config.devices[e].ip # config.devices[o].ip
    BY DEF Init, Listed
<1>2. rules \subseteq Ips \X {443, 8883, 46030, 47878} \X Targets
    <2>1. PICK S \in SUBSET {e \in Entries : Managed(e)} :
              rules = UNION {EntryRules(config, e) : e \in S}
        BY DEF Init
    <2>2. ASSUME NEW e \in S
          PROVE  EntryRules(config, e) \subseteq Ips \X {443, 8883, 46030, 47878} \X Targets
        <3>1. e \in ListedIn(config)
            BY DEF Managed, Listed
        <3> QED
            BY <1>1, <3>1, RuleParts DEF EntryRules
    <2> QED
        BY <2>1, <2>2
<1>4. TypeOK
    BY <1>1, <1>2, NoJobParts, DnatAssumption DEF TypeOK, Init
<1>5. JobGood
    BY <1>1, NoJobParts DEF JobGood, Idle
<1>6. HistoryGood
    BY DEF HistoryGood, Init
<1> QED
    BY <1>1, <1>4, <1>5, <1>6 DEF IInv, IntentDurable

-----------------------------------------------------------------------------
\* What a check that lets an edit in does to the history.
LEMMA OverlookParts ==
    ASSUME IInv, NEW present \in SUBSET rules, Overlook(present)
    PROVE  /\ faults' \in 0..MaxFaults
           /\ overlooked' \subseteq rules /\ overlooked \cup present \subseteq overlooked'
<1>1. faults \in 0..MaxFaults /\ overlooked \subseteq rules
    BY DEF IInv, TypeOK
<1>2. CASE present = {}
    BY <1>1, <1>2 DEF Overlook
<1>3. CASE present # {}
    BY <1>1, <1>3, DnatAssumption DEF Overlook, Fault
<1> QED
    BY <1>2, <1>3

LEMMA RequireOffParts ==
    ASSUME IInv, NEW e, RequireOff(e)
    PROVE  /\ faults' \in 0..MaxFaults /\ overlooked' \subseteq rules /\ overlooked \subseteq overlooked'
           /\ Managed(e) => EntryRules(config, e) \cap rules \subseteq overlooked'
<1>1. faults \in 0..MaxFaults /\ overlooked \subseteq rules
    BY DEF IInv, TypeOK
<1>2. CASE config.pinned
    <2>1. Overlook(EntryRules(config, e) \cap rules) /\ EntryRules(config, e) \cap rules \in SUBSET rules
        BY <1>2 DEF RequireOff
    <2> QED
        BY <2>1, OverlookParts
<1>3. CASE ~config.pinned
    BY <1>1, <1>3 DEF RequireOff
<1> QED
    BY <1>2, <1>3

\* An edit that the store takes, with no job under way: the address of the entry
\* is free, and an Off of it is still in the inventory, or forgotten with it.
LEMMA StoreKeeps ==
    ASSUME IInv, NEW e \in Entries, NEW d \in Device \cup {Unlisted}, Store(e, d),
           d # Unlisted => \A o \in Listed \ {e} : config.devices[o].ip # d.ip,
           faults' \in 0..MaxFaults, overlooked' \subseteq rules,
           wish' = wish \/ wish' = [wish EXCEPT ![e] = "none"],
           wish'[e] = "off" => d # Unlisted /\ d.desired = "off"
    PROVE  IInv'
<1>0. config' = [config EXCEPT !.devices[e] = d] /\ disk' = [config EXCEPT !.devices[e] = d]
    BY Zenon DEF Store, SaveOk
<1>1. /\ config \in Config /\ job' = job /\ Idle
      /\ config' = [config EXCEPT !.devices[e] = d] /\ disk' = config'
      /\ released' = released /\ rules' = rules /\ verified' = verified
    BY <1>0 DEF IInv, TypeOK, Store
<1>2. config' \in Config /\ config'.devices = [config.devices EXCEPT ![e] = d]
    BY <1>1, StoredParts
<1>3. \A o \in Entries \ {e} : config'.devices[o] = config.devices[o] /\ (o \in Listed' <=> o \in Listed)
    BY <1>1, <1>2 DEF Listed, ListedIn, Config
<1>4. config'.devices[e] = d /\ (e \in Listed' <=> d # Unlisted)
    BY <1>1, <1>2 DEF Listed, ListedIn, Config
<1>5. \A x, y \in Listed' : x # y => config'.devices[x].ip # config'.devices[y].ip
    <2> TAKE x, y \in Listed'
    <2>1. x \in Entries /\ y \in Entries
        BY DEF Listed, ListedIn
    <2> QED
        BY <2>1, <1>3, <1>4 DEF IInv, TypeOK
<1>6. wish' \in [Entries -> {"none", "off", "release"}]
    BY DEF IInv, TypeOK
<1>7. TypeOK'
    BY <1>1, <1>2, <1>5, <1>6 DEF IInv, TypeOK
<1>8. JobGood'
    BY <1>1 DEF IInv, JobGood, Idle
<1>9. HistoryGood'
    <2> SUFFICES ASSUME NEW o \in Entries
                 PROVE  /\ wish'[o] = "off" => o \in Listed' /\ config'.devices[o].desired = "off"
                        /\ wish'[o] = "release" => o \in released'
                        /\ verified'[o] = "off" => o \in released'
        BY DEF HistoryGood
    <2>1. wish'[o] = wish[o] \/ wish'[o] = "none"
        BY DEF IInv, TypeOK
    <2>2. CASE o = e
        BY <1>1, <1>4, <2>1, <2>2 DEF IInv, HistoryGood
    <2>3. CASE o # e
        BY <1>1, <1>3, <2>1, <2>3 DEF IInv, HistoryGood
    <2> QED
        BY <2>2, <2>3
<1> QED
    BY <1>1, <1>7, <1>8, <1>9 DEF IInv, IntentDurable

\* The edits of one entry.
LEMMA EditKeeps ==
    ASSUME IInv, NEW e \in Entries,
           \/ \E ip \in Ips, mode \in {"dnat", "local"} : AddDevice(e, ip, mode)
           \/ \E ip \in Ips : MoveDevice(e, ip)
           \/ ChangeMode(e) \/ DeleteDevice(e) \/ UnlinkDevice(e)
           \/ \E platform \in Platforms : LinkDevice(e, platform)
    PROVE  IInv'
<1>1. /\ config \in Config /\ Listed = ListedIn(config)
      /\ \A x, y \in Listed : x # y => config.devices[x].ip # config.devices[y].ip
      /\ wish[e] = "off" => e \in Listed /\ config.devices[e].desired = "off"
      /\ wish \in [Entries -> {"none", "off", "release"}]
    BY DEF IInv, TypeOK, HistoryGood, Listed
<1>0. /\ UNCHANGED <<faults, overlooked>> => faults' \in 0..MaxFaults /\ overlooked' \subseteq rules
      /\ RequireOff(e) => faults' \in 0..MaxFaults /\ overlooked' \subseteq rules
    BY RequireOffParts DEF IInv, TypeOK
<1>2. e \in Listed => config.devices[e] \in Device
    BY <1>1, ListedIsDevice
<1>3. ASSUME NEW ip \in Ips, NEW mode \in {"dnat", "local"}, AddDevice(e, ip, mode)
      PROVE  IInv'
    <2> DEFINE d == [ip |-> ip, platform |-> "none", linked |-> FALSE, mode |-> mode,
                     desired |-> "unset"]
    <2>1. d \in Device /\ d.ip = ip
        BY DEF Device
    <2>2. /\ Store(e, d) /\ wish' = wish /\ e \notin Listed
          /\ \A o \in Listed : config.devices[o].ip # ip
          /\ faults' \in 0..MaxFaults /\ overlooked' \subseteq rules
        BY <1>0, <1>3 DEF AddDevice, FreeIp
    <2> HIDE DEF d
    <2> QED
        BY <1>1, <2>1, <2>2, StoreKeeps
<1>4. ASSUME NEW ip \in Ips, MoveDevice(e, ip)
      PROVE  IInv'
    <2> DEFINE d == [config.devices[e] EXCEPT !.ip = ip, !.platform = "none", !.linked = FALSE]
    <2>1. e \in Listed
        BY <1>4 DEF MoveDevice
    <2>2. d \in Device /\ d.ip = ip /\ d.desired = config.devices[e].desired
        BY <1>2, <2>1 DEF Device
    <2>3. /\ Store(e, d) /\ wish' = wish
          /\ \A o \in Listed : config.devices[o].ip # ip
          /\ faults' \in 0..MaxFaults /\ overlooked' \subseteq rules
        BY <1>0, <1>4 DEF MoveDevice, FreeIp
    <2>4. d # Unlisted
        BY <2>2, UnlistedAssumption
    <2> HIDE DEF d
    <2> QED
        BY <1>1, <2>2, <2>3, <2>4, StoreKeeps
<1>5. ASSUME ChangeMode(e)
      PROVE  IInv'
    <2> DEFINE d == [config.devices[e] EXCEPT !.mode = IF @ = "dnat" THEN "local" ELSE "dnat"]
    <2>1. e \in Listed
        BY <1>5 DEF ChangeMode
    <2>2. /\ d \in Device /\ d.ip = config.devices[e].ip
          /\ d.desired = config.devices[e].desired
        BY <1>2, <2>1 DEF Device
    <2>3. Store(e, d) /\ wish' = wish /\ faults' \in 0..MaxFaults /\ overlooked' \subseteq rules
        BY <1>0, <1>5 DEF ChangeMode
    <2>4. d # Unlisted
        BY <2>2, UnlistedAssumption
    <2> HIDE DEF d
    <2> QED
        BY <1>1, <2>1, <2>2, <2>3, <2>4, StoreKeeps
<1>6. ASSUME DeleteDevice(e)
      PROVE  IInv'
    <2>1. /\ Store(e, Unlisted) /\ wish' = [wish EXCEPT ![e] = "none"]
          /\ faults' \in 0..MaxFaults /\ overlooked' \subseteq rules
        BY <1>0, <1>6 DEF DeleteDevice
    <2>2. wish'[e] = "none"
        BY <1>1, <2>1
    <2> QED
        BY <2>1, <2>2, StoreKeeps
<1>7. ASSUME UnlinkDevice(e)
      PROVE  IInv'
    <2> DEFINE d == [config.devices[e] EXCEPT !.linked = FALSE, !.platform = "none"]
    <2>1. e \in Listed
        BY <1>7 DEF UnlinkDevice
    <2>2. /\ d \in Device /\ d.ip = config.devices[e].ip
          /\ d.desired = config.devices[e].desired
        BY <1>2, <2>1 DEF Device
    <2>3. Store(e, d) /\ wish' = wish /\ faults' \in 0..MaxFaults /\ overlooked' \subseteq rules
        BY <1>0, <1>7 DEF UnlinkDevice
    <2>4. d # Unlisted
        BY <2>2, UnlistedAssumption
    <2> HIDE DEF d
    <2> QED
        BY <1>1, <2>1, <2>2, <2>3, <2>4, StoreKeeps
<1>8. ASSUME NEW platform \in Platforms, LinkDevice(e, platform)
      PROVE  IInv'
    <2> DEFINE d == [config.devices[e] EXCEPT !.linked = TRUE, !.platform = platform]
    <2>1. e \in Listed
        BY <1>8 DEF LinkDevice
    <2>2. /\ d \in Device /\ d.ip = config.devices[e].ip
          /\ d.desired = config.devices[e].desired
        BY <1>2, <2>1, DnatAssumption DEF Device
    <2>3. Store(e, d) /\ wish' = wish /\ faults' \in 0..MaxFaults /\ overlooked' \subseteq rules
        BY <1>0, <1>8 DEF LinkDevice
    <2>4. d # Unlisted
        BY <2>2, UnlistedAssumption
    <2> HIDE DEF d
    <2> QED
        BY <1>1, <2>1, <2>2, <2>3, <2>4, StoreKeeps
<1> QED
    BY <1>3, <1>4, <1>5, <1>6, <1>7, <1>8

-----------------------------------------------------------------------------
\* The steps of the jobs.

\* What a step that edits no entry finds.
LEMMA Facts ==
    ASSUME IInv
    PROVE  /\ config \in Config /\ disk = config /\ Listed \subseteq Entries /\ Listed = ListedIn(config)
           /\ job \in Job /\ faults \in 0..MaxFaults /\ released \subseteq Entries /\ overlooked \subseteq rules
           /\ rules \subseteq Ips \X {443, 8883, 46030, 47878} \X Targets
           /\ wish \in [Entries -> {"none", "off", "release"}]
           /\ verified \in [Entries -> {"none", "on", "off"}]
BY DEF IInv, TypeOK, IntentDurable, Listed, ListedIn

LEMMA NoJobGood ==
    ASSUME job' = NoJob
    PROVE  JobGood' /\ job' \in Job
BY NoJobParts DEF JobGood, Idle

\* A step that leaves the inventory and the history alone, but for a rule that was
\* verified as in place.
LEMMA QuietKeeps ==
    ASSUME IInv, config' = config, disk' = disk, released' = released, wish' = wish,
           verified' = verified \/ verified' = [verified EXCEPT ![job.at] = "on"],
           faults' \in 0..MaxFaults, rules' \subseteq Ips \X {443, 8883, 46030, 47878} \X Targets,
           overlooked' \subseteq rules', job' \in Job, JobGood'
    PROVE  IInv'
<1>1. Listed' = Listed
    BY DEF Listed, ListedIn
<1>2. TypeOK'
    BY <1>1 DEF IInv, TypeOK
<1>3. HistoryGood'
    <2>1. \A e \in Entries : verified'[e] = verified[e] \/ verified'[e] = "on"
        BY Facts
    <2> QED
        BY <1>1, <2>1 DEF IInv, HistoryGood
<1> QED
    BY <1>2, <1>3 DEF IInv, IntentDurable

\* A step that saves an intent for listed entries.
LEMMA IntentKeeps ==
    ASSUME IInv, NEW S \in SUBSET Listed, NEW want \in {"on", "off"},
           SaveOk(WithDesired(config, S, want)),
           faults' \in 0..MaxFaults, rules' = rules, overlooked' = overlooked, job' \in Job,
           released' \in SUBSET Entries, wish' \in [Entries -> {"none", "off", "release"}],
           verified' \in [Entries -> {"none", "on", "off"}]
    PROVE  TypeOK' /\ IntentDurable' /\ Listed' = Listed
<1> DEFINE c == WithDesired(config, S, want)
<1>1. config' = c /\ disk' = c
    BY DEF SaveOk
<1>2. /\ c \in Config /\ ListedIn(c) = ListedIn(config)
      /\ \A e \in Entries \ S : c.devices[e] = config.devices[e]
      /\ \A e \in S : c.devices[e] = [config.devices[e] EXCEPT !.desired = want]
    BY Facts, WithDesiredParts
<1>3. \A e \in Listed : config.devices[e] \in Device
    BY Facts, ListedIsDevice
<1>4. \A e \in Listed : c.devices[e].ip = config.devices[e].ip
    <2> TAKE e \in Listed
    <2>1. CASE e \in S
        <3>1. c.devices[e] = [config.devices[e] EXCEPT !.desired = want]
            BY <1>2, <2>1
        <3>2. config.devices[e] \in Device
            BY <1>3
        <3> QED BY <3>1, <3>2 DEF Device
    <2>2. CASE e \notin S
        BY <1>2, <2>2, Facts
    <2> QED
        BY <2>1, <2>2
<1> HIDE DEF c
<1>5. Listed' = Listed
    BY <1>1, <1>2 DEF Listed
<1>6. \A x, y \in Listed : x # y => config.devices[x].ip # config.devices[y].ip
    BY DEF IInv, TypeOK
<1>7. TypeOK'
    BY <1>1, <1>2, <1>4, <1>5, <1>6, Facts DEF TypeOK
<1> QED
    BY <1>1, <1>5, <1>7 DEF IntentDurable

\* A reading that is wrong is a fault.
LEMMA ReadParts ==
    ASSUME IInv, NEW e, NEW state, Read(e, state)
    PROVE  faults' \in 0..MaxFaults
<1>1. faults \in 0..MaxFaults
    BY DEF IInv, TypeOK
<1>2. faults' = faults \/ (faults < MaxFaults /\ faults' = faults + 1)
    BY DEF Read, Fault
<1> QED
    BY <1>1, <1>2, DnatAssumption

\* The steps of a job that only talk to the router.
LEMMA NextEntryKeeps ==
    ASSUME IInv, NEW e \in Entries, NextEntry(e)
    PROVE  IInv'
<1> DEFINE t == job.todo \ {e}
<1>1. job \in Job /\ t \in SUBSET Entries
    BY Facts, JobParts
<1>2. job' = [job EXCEPT !.at = e, !.port = 1, !.todo = t]
    BY DEF NextEntry
<1>4. /\ job' \in Job
      /\ job'.op = job.op /\ job'.at = e /\ job'.port = 1 /\ job'.todo = t
      /\ job'.seen = job.seen
    <2> HIDE DEF t
    <2> QED
        BY <1>1, <1>2, JobMoves
<1>5. /\ e \in job.todo /\ job.op \in {"release", "restore"}
      /\ config' = config /\ disk' = disk /\ released' = released
      /\ rules' = rules /\ overlooked' = overlooked
      /\ faults' = faults /\ wish' = wish /\ verified' = verified
    BY DEF NextEntry
<1>6. Listed' = Listed
    BY <1>5 DEF Listed, ListedIn
<1>7. JobGood'
    BY <1>4, <1>5, <1>6, DnatAssumption DEF IInv, JobGood, Idle
<1> QED
    BY <1>4, <1>5, <1>7, Facts, QuietKeeps

LEMMA ReadStatusKeeps ==
    ASSUME IInv, NEW e \in Entries, NEW state, ReadStatus(e, state)
    PROVE  IInv'
<1> DEFINE t == job.todo \ {e}
           s == IF state = "on" THEN job.seen \cup {e} ELSE job.seen
           k == [[job EXCEPT !.todo = t] EXCEPT !.seen = s]
<1>1. job \in Job /\ t \in SUBSET Entries /\ s \in SUBSET Entries
    BY Facts, JobParts
<1>2. job' = k
    BY Zenon DEF ReadStatus
<1>3. [job EXCEPT !.todo = t] \in Job
    BY <1>1, JobUpdates, Zenon
<1>4. k \in Job
    BY <1>1, <1>3, JobUpdates, Zenon
<1>5. /\ k.op = job.op /\ k.at = job.at /\ k.port = job.port /\ k.todo = t /\ k.seen = s
    <2> HIDE DEF t, s
    <2> QED
        BY <1>1 DEF Job
<1>6. s \subseteq job.seen \cup {e}
    OBVIOUS
<1> HIDE DEF k, s
<1>7. /\ e \in job.todo /\ job.op = "status"
      /\ config' = config /\ disk' = disk /\ released' = released
      /\ rules' = rules /\ overlooked' = overlooked
      /\ faults' \in 0..MaxFaults /\ wish' = wish /\ verified' = verified
    BY ReadParts DEF ReadStatus
<1>8. Listed' = Listed
    BY <1>7 DEF Listed, ListedIn
<1>9. JobGood'
    BY <1>2, <1>5, <1>6, <1>7, <1>8 DEF IInv, JobGood, Idle
<1> QED
    BY <1>2, <1>4, <1>7, <1>9, Facts, QuietKeeps

LEMMA AllEntriesDoneKeeps ==
    ASSUME IInv, AllEntriesDone
    PROVE  IInv'
<1>1. /\ job' = NoJob
      /\ config' = config /\ disk' = disk /\ released' = released
      /\ rules' = rules /\ overlooked' = overlooked
      /\ faults' = faults /\ wish' = wish /\ verified' = verified
    BY DEF AllEntriesDone
<1> QED
    BY <1>1, Facts, NoJobGood, QuietKeeps

LEMMA PortStepKeeps ==
    ASSUME IInv, AddRule \/ RemoveRule \/ ChangeMissed
    PROVE  IInv'
<1>1. /\ job.port \in 1..2 /\ job' = [job EXCEPT !.port = job.port + 1]
      /\ job.op \in {"enable", "restore", "disable", "release"}
      /\ config' = config /\ disk' = disk /\ released' = released
      /\ wish' = wish /\ verified' = verified
    BY DEF AddRule, RemoveRule, ChangeMissed, NextPort
<1>0. faults' \in 0..MaxFaults
    <2>1. faults' = faults \/ (faults < MaxFaults /\ faults' = faults + 1)
        BY DEF AddRule, RemoveRule, ChangeMissed, Fault
    <2> QED
        BY <2>1, Facts, DnatAssumption
<1>2. job.port + 1 \in 0..3 /\ job.port # 0
    BY <1>1
<1>3. job.at \in Listed /\ job.at # Nobody
    <2>1. JobGood
        BY DEF IInv
    <2> QED
        BY <1>2, <2>1 DEF JobGood
<1>4. rules' \subseteq Ips \X {443, 8883, 46030, 47878} \X Targets /\ overlooked' \subseteq rules'
    <2>1. Rule(config, job.at, job.port) \in Ips \X {443, 8883, 46030, 47878} \X Targets
        BY <1>1, <1>3, Facts, RuleParts
    <2>2. rules \subseteq Ips \X {443, 8883, 46030, 47878} \X Targets /\ overlooked \subseteq rules
        BY Facts
    <2> QED
        BY <2>1, <2>2 DEF AddRule, RemoveRule, ChangeMissed
<1>5. job' \in Job
    <2> DEFINE p == job.port + 1
    <2>1. job' = [job EXCEPT !.port = p] /\ p \in 0..3 /\ job \in Job
        BY <1>1, <1>2, Facts
    <2> HIDE DEF p
    <2> QED
        BY <2>1, JobUpdates, Zenon
<1>6. /\ job'.op = job.op /\ job'.at = job.at /\ job'.todo = job.todo /\ job'.seen = job.seen
    <2>1. job \in Job
        BY Facts
    <2> DEFINE p == job.port + 1
    <2>2. job' = [job EXCEPT !.port = p]
        BY <1>1
    <2> HIDE DEF p
    <2> QED
        BY <2>1, <2>2 DEF Job
<1>7. Listed' = Listed
    BY <1>1 DEF Listed, ListedIn
<1>8. JobGood'
    <2>1. JobGood
        BY DEF IInv
    <2>2. job.op # "idle" /\ job.op # "save on" /\ released' = released /\ wish' = wish
        BY <1>1
    <2> QED
        BY <1>3, <1>6, <1>7, <2>1, <2>2 DEF JobGood, Idle
<1> QED
    BY <1>0, <1>1, <1>4, <1>5, <1>8, Facts, QuietKeeps

\* A job ends, or a restoration leaves an entry that failed.
LEMMA CommandFailsKeeps ==
    ASSUME IInv, CommandFails
    PROVE  IInv'
<1>1. /\ config' = config /\ disk' = disk /\ released' = released
      /\ rules' = rules /\ overlooked' = overlooked
      /\ wish' = wish /\ verified' = verified /\ faults' = faults + 1 /\ faults < MaxFaults
    BY DEF CommandFails, Fault
<1>2. faults' \in 0..MaxFaults
    BY <1>1, Facts, DnatAssumption
<1>3. Listed' = Listed
    BY <1>1 DEF Listed, ListedIn
<1>4. CASE job' = NoJob
    BY <1>1, <1>2, <1>4, Facts, NoJobGood, QuietKeeps
<1>5. CASE job.op = "restore" /\ job' = [job EXCEPT !.at = Nobody, !.port = 0]
    <2>0. job \in Job
        BY Facts
    <2>1. job' \in Job /\ job'.op = job.op /\ job'.at = Nobody /\ job'.port = 0
          /\ job'.todo = job.todo /\ job'.seen = job.seen
        BY <1>5, <2>0, JobLeaves
    <2>2. JobGood
        BY DEF IInv
    <2>3. JobGood'
        BY <1>1, <1>3, <1>5, <2>1, <2>2 DEF JobGood, Idle
    <2> QED
        BY <1>1, <1>2, <2>1, <2>3, Facts, QuietKeeps
<1> QED
    BY <1>4, <1>5 DEF CommandFails

\* A job that hangs is about no entry any more.
LEMMA CommandHangsKeeps ==
    ASSUME IInv, CommandHangs
    PROVE  IInv'
<1>1. /\ config' = config /\ disk' = disk /\ released' = released /\ rules' = rules
      /\ overlooked' = overlooked /\ wish' = wish /\ verified' = verified
      /\ faults' = faults + 1 /\ faults < MaxFaults /\ job' = [NoJob EXCEPT !.op = "hung"]
    BY DEF CommandHangs, Fault
<1>2. faults' \in 0..MaxFaults
    BY <1>1, Facts, DnatAssumption
<1>3. /\ job' \in Job
      /\ job'.op = "hung" /\ job'.at = Nobody /\ job'.port = 0 /\ job'.todo = {} /\ job'.seen = {}
    <2>1. job' = [op |-> "hung", at |-> Nobody, port |-> 0, todo |-> {}, seen |-> {}]
        BY <1>1 DEF NoJob
    <2> QED
        BY <2>1 DEF Job
<1>4. JobGood'
    BY <1>3 DEF JobGood, Idle
<1> QED
    BY <1>1, <1>2, <1>3, <1>4, Facts, QuietKeeps

LEMMA RouterRebootsKeeps ==
    ASSUME IInv, RouterReboots
    PROVE  IInv'
<1>1. /\ config' = config /\ disk' = disk /\ released' = released /\ rules' = {} /\ overlooked' = {}
      /\ wish' = wish /\ verified' = verified /\ faults' = faults + 1 /\ faults < MaxFaults
      /\ job' = job
    BY DEF RouterReboots, Fault
<1>2. faults' \in 0..MaxFaults
    BY <1>1, Facts, DnatAssumption
<1>3. Listed' = Listed
    BY <1>1 DEF Listed, ListedIn
<1>4. JobGood'
    BY <1>1, <1>3 DEF IInv, JobGood, Idle
<1> QED
    BY <1>1, <1>2, <1>4, Facts, QuietKeeps

\* A save that fails puts back what the file holds, which is what was there.
LEMMA UnsavedKeeps ==
    ASSUME IInv, EnableUnsaved \/ OffUnsaved
    PROVE  IInv'
<1>1. /\ config' = disk /\ disk' = disk /\ released' = released
      /\ rules' = rules /\ overlooked' = overlooked
      /\ wish' = wish /\ faults' = faults + 1 /\ faults < MaxFaults /\ job' = NoJob
      /\ verified' = verified
    BY DEF EnableUnsaved, OffUnsaved, SaveFails, Fault
<1>2. faults' \in 0..MaxFaults /\ config' = config
    BY <1>1, Facts, DnatAssumption
<1> QED
    BY <1>1, <1>2, Facts, NoJobGood, QuietKeeps

\* A job begins.
LEMMA BeginParts ==
    ASSUME NEW op \in {"enable", "disable"}, NEW e \in Entries, Begin(op, e)
    PROVE  /\ job' \in Job
           /\ job'.op = op /\ job'.at = e /\ job'.port = 1 /\ job'.todo = {} /\ job'.seen = {}
<1>1. job' = [op |-> op, at |-> e, port |-> 1, todo |-> {}, seen |-> {}]
    BY DEF Begin, NoJob
<1>2. e \in Entries \cup {Nobody} /\ 1 \in 0..3
    OBVIOUS
<1> QED
    BY <1>1, <1>2 DEF Job

LEMMA StartDisableKeeps ==
    ASSUME IInv, NEW e \in Entries, StartDisable(e)
    PROVE  IInv'
<1>1. /\ config' = config /\ disk' = disk /\ released' = released
      /\ rules' = rules /\ overlooked' = overlooked
      /\ faults' = faults /\ wish' = wish /\ verified' = verified
      /\ e \in Listed /\ Begin("disable", e)
    BY DEF StartDisable
<1>2. /\ job' \in Job
      /\ job'.op = "disable" /\ job'.at = e /\ job'.port = 1 /\ job'.todo = {} /\ job'.seen = {}
    BY <1>1, BeginParts
<1>3. Listed' = Listed
    BY <1>1 DEF Listed, ListedIn
<1>4. JobGood'
    BY <1>1, <1>2, <1>3, DnatAssumption DEF JobGood, Idle
<1> QED
    BY <1>1, <1>2, <1>4, Facts, QuietKeeps

\* From here on the owner wants the entry on.
LEMMA StartEnableKeeps ==
    ASSUME IInv, NEW e \in Entries, StartEnable(e)
    PROVE  IInv'
<1>1. /\ config' = config /\ disk' = disk /\ released' = released
      /\ rules' = rules /\ overlooked' = overlooked
      /\ faults' = faults /\ wish' = [wish EXCEPT ![e] = "none"] /\ verified' = verified
      /\ e \in Listed /\ Begin("enable", e)
    BY DEF StartEnable, Managed
<1>2. /\ job' \in Job
      /\ job'.op = "enable" /\ job'.at = e /\ job'.port = 1 /\ job'.todo = {} /\ job'.seen = {}
    BY <1>1, BeginParts
<1>3. Listed' = Listed
    BY <1>1 DEF Listed, ListedIn
<1>4. /\ wish' \in [Entries -> {"none", "off", "release"}]
      /\ wish'[e] = "none" /\ \A o \in Entries : wish'[o] = wish[o] \/ wish'[o] = "none"
    BY <1>1, Facts
<1>5. TypeOK'
    BY <1>1, <1>2, <1>3, <1>4 DEF IInv, TypeOK
<1>6. JobGood'
    BY <1>1, <1>2, <1>3, <1>4, DnatAssumption DEF JobGood, Idle
<1>7. HistoryGood'
    BY <1>1, <1>3, <1>4 DEF IInv, HistoryGood
<1> QED
    BY <1>1, <1>5, <1>6, <1>7 DEF IInv, IntentDurable

\* The reconciler has not yet looked at any entry.
LEMMA StartReconcileKeeps ==
    ASSUME IInv, StartReconcile
    PROVE  IInv'
<1> DEFINE t == {e \in Entries : Managed(e)} \ released
<1>1. /\ config' = config /\ disk' = disk /\ released' = released
      /\ rules' = rules /\ overlooked' = overlooked
      /\ faults' = faults /\ wish' = wish /\ verified' = verified
      /\ job' = [NoJob EXCEPT !.op = "status", !.todo = t]
    BY DEF StartReconcile
<1>2. t \subseteq Listed /\ t \in SUBSET Entries
    BY DEF Managed
<1> HIDE DEF t
<1>3. job' = [op |-> "status", at |-> Nobody, port |-> 0, todo |-> t, seen |-> {}]
    BY <1>1 DEF NoJob
<1>4. /\ job' \in Job
      /\ job'.op = "status" /\ job'.at = Nobody /\ job'.port = 0 /\ job'.todo = t /\ job'.seen = {}
    BY <1>2, <1>3 DEF Job
<1>5. Listed' = Listed
    BY <1>1 DEF Listed, ListedIn
<1>6. JobGood'
    BY <1>1, <1>2, <1>4, <1>5 DEF JobGood, Idle
<1> QED
    BY <1>1, <1>4, <1>6, Facts, QuietKeeps

\* All entries of a release are latched before it is about any of them.
LEMMA StartReleaseKeeps ==
    ASSUME IInv, StartRelease
    PROVE  IInv'
<1> DEFINE t == {e \in Entries : Managed(e)}
<1>1. /\ config' = config /\ disk' = disk /\ released' = released \cup t
      /\ rules' = rules /\ overlooked' = overlooked
      /\ faults' = faults /\ verified' = verified
      /\ wish' = [e \in Entries |-> IF e \in t /\ wish[e] = "none" THEN "release" ELSE wish[e]]
      /\ job' = [NoJob EXCEPT !.op = "release", !.todo = t]
    BY DEF StartRelease
<1>2. t \subseteq Listed /\ t \in SUBSET Entries
    BY DEF Managed
<1> HIDE DEF t
<1>3. job' = [op |-> "release", at |-> Nobody, port |-> 0, todo |-> t, seen |-> {}]
    BY <1>1 DEF NoJob
<1>4. /\ job' \in Job
      /\ job'.op = "release" /\ job'.at = Nobody /\ job'.port = 0 /\ job'.todo = t /\ job'.seen = {}
    BY <1>2, <1>3 DEF Job
<1>5. Listed' = Listed
    BY <1>1 DEF Listed, ListedIn
<1>6. JobGood'
    BY <1>1, <1>2, <1>4, <1>5 DEF JobGood, Idle
<1>7. /\ wish' \in [Entries -> {"none", "off", "release"}]
      /\ \A e \in Entries : wish'[e] = wish[e] \/ (wish'[e] = "release" /\ e \in t)
    BY <1>1, Facts
<1>8. released' \subseteq Entries
    BY <1>1, <1>2, Facts
<1>9. TypeOK'
    BY <1>1, <1>4, <1>5, <1>7, <1>8 DEF IInv, TypeOK
<1>10. HistoryGood'
    BY <1>1, <1>5, <1>7 DEF IInv, HistoryGood
<1> QED
    BY <1>1, <1>6, <1>9, <1>10 DEF IInv, IntentDurable

-----------------------------------------------------------------------------
\* The steps that verify and the steps that save.

\* A restoration or a release goes on, in the same state but for its entry.
LEMMA LeavesGood ==
    ASSUME IInv, EntryDone, job.op \in {"enable", "restore", "disable", "release"},
           config' = config, released' = released, wish' = wish
    PROVE  job' \in Job /\ JobGood'
<1>1. job \in Job /\ JobGood
    BY Facts DEF IInv
<1>2. CASE job.op \in {"release", "restore"}
    <2>1. job' = [job EXCEPT !.at = Nobody, !.port = 0]
        BY <1>2 DEF EntryDone
    <2>2. /\ job' \in Job
          /\ job'.op = job.op /\ job'.at = Nobody /\ job'.port = 0
          /\ job'.todo = job.todo /\ job'.seen = job.seen
        BY <1>1, <2>1, JobLeaves
    <2>3. Listed' = Listed
        BY DEF Listed, ListedIn
    <2> QED
        BY <1>1, <1>2, <2>2, <2>3 DEF JobGood, Idle
<1>3. CASE job.op \notin {"release", "restore"}
    BY <1>3, NoJobGood DEF EntryDone
<1> QED
    BY <1>2, <1>3

\* What an intent that is saved for some entries says of each.
LEMMA SavedParts ==
    ASSUME IInv, NEW S \in SUBSET Listed, NEW want \in {"on", "off"},
           SaveOk(WithDesired(config, S, want))
    PROVE  /\ \A e \in Entries \ S : config'.devices[e] = config.devices[e]
           /\ \A e \in S : config'.devices[e].desired = want
<1>1. config \in Config /\ S \in SUBSET ListedIn(config)
    BY Facts
<1>2. config' = WithDesired(config, S, want)
    BY Zenon DEF SaveOk
<1>3. /\ \A e \in Entries \ S : config'.devices[e] = config.devices[e]
      /\ \A e \in S : config'.devices[e] = [config.devices[e] EXCEPT !.desired = want]
    BY <1>1, <1>2, WithDesiredParts
<1>4. \A e \in S : config.devices[e] \in Device
    BY <1>1, ListedIsDevice
<1> QED
    BY <1>3, <1>4 DEF Device

\* An entry that reads "on" is left, or its intent is about to be saved.
LEMMA VerifyOnKeeps ==
    ASSUME IInv, NEW state, VerifyOn(state)
    PROVE  IInv'
<1>1. /\ rules' = rules /\ overlooked' = overlooked /\ wish' = wish
      /\ config' = config /\ disk' = disk /\ released' = released
      /\ verified' = verified \/ verified' = [verified EXCEPT ![job.at] = "on"]
      /\ job.op \in {"enable", "restore"} /\ job.port = 3
      /\ faults' \in 0..MaxFaults
    BY ReadParts DEF VerifyOn
<1>2. job' \in Job /\ JobGood'
    <2>1. CASE EntryDone
        BY <1>1, <2>1, LeavesGood
    <2>2. CASE job.op = "enable" /\ job' = [job EXCEPT !.op = "save on"]
        <3>1. JobGood /\ job \in Job
            BY Facts DEF IInv
        <3>2. /\ job' \in Job
              /\ job'.op = "save on" /\ job'.at = job.at /\ job'.port = job.port
              /\ job'.todo = job.todo /\ job'.seen = job.seen
            BY <2>2, <3>1, JobSaves
        <3>3. Listed' = Listed
            BY <1>1 DEF Listed, ListedIn
        <3>4. verified'[job.at] = "on"
            <4>1. job.at \in Entries
                BY <2>2, <3>1, JobParts DEF JobGood
            <4>2. EntryDone => job' = NoJob
                BY <2>2 DEF EntryDone
            <4>3. verified' = [verified EXCEPT ![job.at] = "on"]
                BY <2>2, <3>2, <4>2, NoJobParts DEF VerifyOn
            <4> QED
                BY <4>1, <4>3, Facts
        <3>5. /\ job.todo \cup job.seen \subseteq Listed /\ job.at # Nobody /\ job.at \in Listed
              /\ \A e \in (job.todo \cup {job.at}) \ {Nobody} : wish[e] = "none"
            BY <2>2, <3>1 DEF JobGood
        <3>6. JobGood'
            BY <1>1, <3>2, <3>3, <3>4, <3>5 DEF JobGood, Idle
        <3> QED
            BY <3>2, <3>6
    <2> QED
        BY <2>1, <2>2 DEF VerifyOn
<1> QED
    BY <1>1, <1>2, Facts, QuietKeeps

\* Only the owner's Enable lifts the latch, and then the entry is wanted.
LEMMA SaveOnKeeps ==
    ASSUME IInv, SaveOn
    PROVE  IInv'
<1>1. /\ job.op = "save on" /\ SaveOk(WithDesired(config, {job.at}, "on"))
      /\ released' = released \ {job.at} /\ job' = NoJob
      /\ wish' = wish /\ rules' = rules /\ overlooked' = overlooked
      /\ faults' = faults /\ verified' = verified
    BY DEF SaveOn
<1>2. job.at \in Listed /\ job.at \in Entries /\ wish[job.at] = "none"
    <2>1. JobGood /\ Listed \subseteq Entries
        BY Facts DEF IInv
    <2> QED
        BY <1>1, <2>1 DEF JobGood
<1>3. JobGood' /\ job' \in Job
    BY <1>1, NoJobGood
<1>4. TypeOK' /\ IntentDurable' /\ Listed' = Listed
    <2>1. {job.at} \in SUBSET Listed
        BY <1>2
    <2>2. /\ released' \in SUBSET Entries /\ verified' \in [Entries -> {"none", "on", "off"}]
          /\ faults' \in 0..MaxFaults /\ wish' \in [Entries -> {"none", "off", "release"}]
        <3>1. released \subseteq Entries /\ faults \in 0..MaxFaults
            BY Facts
        <3>2. verified \in [Entries -> {"none", "on", "off"}]
            BY Facts
        <3>3. wish \in [Entries -> {"none", "off", "release"}]
            BY Facts
        <3> QED
            BY <1>1, <3>1, <3>2, <3>3
    <2> QED
        BY <1>1, <1>3, <2>1, <2>2, IntentKeeps
<1>5. \A o \in Entries \ {job.at} : config'.devices[o] = config.devices[o]
    BY <1>1, <1>2, SavedParts
<1>6. verified[job.at] # "off"
    BY <1>1 DEF IInv, JobGood
<1>7. HistoryGood'
    BY <1>1, <1>2, <1>4, <1>5, <1>6 DEF IInv, HistoryGood
<1> QED
    BY <1>3, <1>4, <1>7 DEF IInv

\* What is verified as off is latched, by this step or by the release itself.
LEMMA VerifyOffKeeps ==
    ASSUME IInv, NEW state, VerifyOff(state)
    PROVE  IInv'
<1>1. /\ config' = config /\ disk' = disk /\ rules' = rules /\ overlooked' = overlooked
      /\ faults' \in 0..MaxFaults /\ wish' = wish
      /\ job.op \in {"disable", "release"} /\ job.port = 3
    BY ReadParts DEF VerifyOff
<1>2. /\ JobGood /\ job \in Job /\ job.at \in Listed /\ job.at \in Entries /\ job.at # Nobody
      /\ Listed' = Listed
    <2>1. JobGood /\ Listed \subseteq Entries /\ job \in Job
        BY Facts DEF IInv
    <2>2. job.port # 0
        BY <1>1
    <2>3. Listed' = Listed
        BY <1>1 DEF Listed, ListedIn
    <2> QED
        BY <1>1, <2>1, <2>2, <2>3, DnatAssumption DEF JobGood
<1>3. CASE state # "off"
    <2>1. job' = NoJob /\ verified' = verified /\ released' = released
        BY <1>3 DEF VerifyOff
    <2> QED
        BY <1>1, <2>1, Facts, NoJobGood, QuietKeeps
<1>4. CASE state = "off"
    <2>1. verified' = [verified EXCEPT ![job.at] = "off"]
        BY <1>4 DEF VerifyOff
    <2>2. /\ verified' \in [Entries -> {"none", "on", "off"}]
          /\ \A o \in Entries \ {job.at} : verified'[o] = verified[o]
        BY <1>2, <2>1, Facts
    <2>3. job' \in Job /\ JobGood' /\ released' = released \cup {job.at}
        <3>1. CASE job.op = "disable"
            <4>1. job' = [job EXCEPT !.op = "save off"] /\ released' = released \cup {job.at}
                BY <1>4, <3>1 DEF VerifyOff
            <4>2. /\ job' \in Job
                  /\ job'.op = "save off" /\ job'.at = job.at /\ job'.port = job.port
                  /\ job'.todo = job.todo /\ job'.seen = job.seen
                BY <1>2, <4>1, JobSaves
            <4>3. job'.todo \cup job'.seen \subseteq Listed'
                BY <1>2, <4>2 DEF JobGood
            <4>4. job'.op = "save off" /\ job'.at # Nobody /\ job'.at \in Listed'
                BY <1>2, <4>2
            <4> QED
                BY <4>1, <4>2, <4>3, <4>4 DEF JobGood, Idle
        <3>2. CASE job.op = "release"
            <4>1. EntryDone /\ released' = released
                BY <1>4, <3>2 DEF VerifyOff
            <4>2. job.at \in released
                BY <1>2, <3>2 DEF JobGood
            <4> QED
                BY <1>1, <3>2, <4>1, <4>2, LeavesGood
        <3> QED
            BY <1>1, <3>1, <3>2
    <2>4. released' \subseteq Entries
        BY <1>2, <2>3, Facts
    <2>5. TypeOK'
        BY <1>1, <1>2, <2>2, <2>3, <2>4 DEF IInv, TypeOK
    <2>6. HistoryGood'
        BY <1>1, <1>2, <2>2, <2>3 DEF IInv, HistoryGood
    <2> QED
        BY <1>1, <2>3, <2>5, <2>6 DEF IInv, IntentDurable
<1> QED
    BY <1>3, <1>4

\* The answer to an Off is given with the intent saved.
LEMMA SaveOffKeeps ==
    ASSUME IInv, SaveOff
    PROVE  IInv'
<1>1. /\ job.op = "save off" /\ SaveOk(WithDesired(config, {job.at}, "off"))
      /\ wish' = [wish EXCEPT ![job.at] = "off"] /\ job' = NoJob
      /\ released' = released
      /\ rules' = rules /\ overlooked' = overlooked /\ faults' = faults /\ verified' = verified
    BY DEF SaveOff
<1>2. job.at \in Listed /\ job.at \in Entries
    <2>1. JobGood /\ Listed \subseteq Entries
        BY Facts DEF IInv
    <2> QED
        BY <1>1, <2>1 DEF JobGood
<1>3. JobGood' /\ job' \in Job
    BY <1>1, NoJobGood
<1>4. /\ wish' \in [Entries -> {"none", "off", "release"}] /\ wish'[job.at] = "off"
      /\ \A o \in Entries \ {job.at} : wish'[o] = wish[o]
    <2>1. wish \in [Entries -> {"none", "off", "release"}]
        BY Facts
    <2> QED
        BY <1>1, <1>2, <2>1
<1>5. TypeOK' /\ IntentDurable' /\ Listed' = Listed
    <2>1. {job.at} \in SUBSET Listed
        BY <1>2
    <2>2. /\ released' \in SUBSET Entries /\ verified' \in [Entries -> {"none", "on", "off"}]
          /\ faults' \in 0..MaxFaults
        <3>1. released \subseteq Entries /\ faults \in 0..MaxFaults
            BY Facts
        <3>2. verified \in [Entries -> {"none", "on", "off"}]
            BY Facts
        <3>3. released' = released /\ verified' = verified /\ faults' = faults
            BY <1>1
        <3> QED
            BY <3>1, <3>2, <3>3
    <2> QED
        BY <1>1, <1>3, <1>4, <2>1, <2>2, IntentKeeps
<1>6. /\ \A o \in Entries \ {job.at} : config'.devices[o] = config.devices[o]
      /\ config'.devices[job.at].desired = "off"
    BY <1>1, <1>2, SavedParts
<1>7. HistoryGood'
    <2> SUFFICES ASSUME NEW o \in Entries
                 PROVE  /\ wish'[o] = "off" => o \in Listed' /\ config'.devices[o].desired = "off"
                        /\ wish'[o] = "release" => o \in released'
                        /\ verified'[o] = "off" => o \in released'
        BY DEF HistoryGood
    <2>1. /\ wish[o] = "off" => o \in Listed /\ config.devices[o].desired = "off"
          /\ wish[o] = "release" => o \in released
          /\ verified[o] = "off" => o \in released
        BY DEF IInv, HistoryGood
    <2>2. CASE o = job.at
        BY <1>1, <1>2, <1>4, <1>5, <1>6, <2>1, <2>2
    <2>3. CASE o # job.at
        BY <1>1, <1>4, <1>5, <1>6, <2>1, <2>3
    <2> QED BY <2>2, <2>3
<1> QED
    BY <1>3, <1>5, <1>7 DEF IInv

\* Only entries without an intent are adopted, and an Off is an intent.
LEMMA AdoptionKeeps ==
    ASSUME IInv, NEW S \in SUBSET Adoptable, SaveOk(WithDesired(config, S, "on")),
           released' = released, rules' = rules, overlooked' = overlooked, wish' = wish,
           verified' = verified,
           faults' \in 0..MaxFaults, job' \in Job
    PROVE  TypeOK' /\ IntentDurable' /\ Listed' = Listed /\ HistoryGood'
<1>1. S \in SUBSET Listed
    BY DEF Adoptable, IInv, JobGood
<1>2. /\ released' \in SUBSET Entries /\ wish' \in [Entries -> {"none", "off", "release"}]
      /\ verified' \in [Entries -> {"none", "on", "off"}]
    BY Facts
<1>3. TypeOK' /\ IntentDurable' /\ Listed' = Listed
    BY <1>1, <1>2, IntentKeeps
<1>4. \A o \in Entries \ S : config'.devices[o] = config.devices[o]
    BY <1>1, SavedParts
<1>5. \A o \in S : config.devices[o].desired = "unset"
    BY DEF Adoptable
<1>6. HistoryGood'
    BY <1>3, <1>4, <1>5 DEF IInv, HistoryGood
<1> QED
    BY <1>3, <1>6

\* What is to be put back was neither switched off nor released.
LEMMA AdoptKeeps ==
    ASSUME IInv, Adopt
    PROVE  IInv'
<1> DEFINE t == Wanted(job.seen)
<1>1. /\ SaveOk(WithDesired(config, Adoptable, "on"))
      /\ job' = [NoJob EXCEPT !.op = "restore", !.todo = t]
      /\ released' = released /\ rules' = rules /\ overlooked' = overlooked /\ faults' = faults
      /\ wish' = wish /\ verified' = verified
    BY DEF Adopt
<1>2. /\ t \subseteq Listed /\ t \in SUBSET Entries
      /\ \A e \in t : config.devices[e].desired = "on" /\ e \notin released
    BY Facts DEF Wanted, Forwarding, Desires
<1> HIDE DEF t
<1>3. job' = [op |-> "restore", at |-> Nobody, port |-> 0, todo |-> t, seen |-> {}]
    BY <1>1 DEF NoJob
<1>4. /\ job' \in Job
      /\ job'.op = "restore" /\ job'.at = Nobody /\ job'.port = 0 /\ job'.todo = t /\ job'.seen = {}
    BY <1>2, <1>3 DEF Job
<1>5. TypeOK' /\ IntentDurable' /\ Listed' = Listed /\ HistoryGood'
    BY <1>1, <1>4, Facts, AdoptionKeeps
<1>6. \A e \in t : wish[e] = "none"
    <2> TAKE e \in t
    <2>1. e \in Entries /\ wish[e] \in {"none", "off", "release"}
        BY <1>2, Facts
    <2> QED
        BY <1>2, <2>1 DEF IInv, HistoryGood
<1>7. JobGood'
    BY <1>1, <1>2, <1>4, <1>5, <1>6 DEF JobGood, Idle
<1> QED
    BY <1>5, <1>7 DEF IInv

LEMMA AdoptUnsavedKeeps ==
    ASSUME IInv, NEW S \in SUBSET Entries, AdoptUnsaved(S)
    PROVE  IInv'
<1>1. /\ SaveOk(WithDesired(config, S, "on")) /\ S \in SUBSET Adoptable /\ job' = NoJob
      /\ released' = released
      /\ rules' = rules /\ overlooked' = overlooked /\ faults' = faults + 1 /\ faults < MaxFaults
      /\ wish' = wish /\ verified' = verified
    BY DEF AdoptUnsaved, Fault
<1>2. faults' \in 0..MaxFaults
    BY <1>1, Facts, DnatAssumption
<1>3. JobGood' /\ job' \in Job
    BY <1>1, NoJobGood
<1>4. TypeOK' /\ IntentDurable' /\ Listed' = Listed /\ HistoryGood'
    BY <1>1, <1>2, <1>3, AdoptionKeeps
<1> QED
    BY <1>3, <1>4 DEF IInv

-----------------------------------------------------------------------------
\* The process ends and starts again, and the router's settings change.

\* The latch is lost, and with it every release; an Off is in the file.
LEMMA RestartKeeps ==
    ASSUME IInv, Restart
    PROVE  IInv'
<1>1. /\ config' = config /\ disk' = disk /\ released' = {} /\ job' = NoJob
      /\ rules' = rules /\ overlooked' = overlooked
      /\ wish' = [e \in Entries |-> IF wish[e] = "release" THEN "none" ELSE wish[e]]
      /\ verified' = [e \in Entries |-> "none"]
    BY Facts DEF Restart
<1>2. faults' \in 0..MaxFaults
    <2>1. faults' = faults \/ (faults < MaxFaults /\ faults' = faults + 1)
        BY DEF Restart, Fault
    <2> QED
        BY <2>1, Facts, DnatAssumption
<1>3. JobGood' /\ job' \in Job
    BY <1>1, NoJobGood
<1>4. Listed' = Listed
    BY <1>1 DEF Listed, ListedIn
<1>5. /\ wish' \in [Entries -> {"none", "off", "release"}]
      /\ \A e \in Entries : wish'[e] # "release" /\ (wish'[e] = "off" => wish[e] = "off")
    BY <1>1, Facts
<1>6. TypeOK'
    BY <1>1, <1>2, <1>3, <1>4, <1>5 DEF IInv, TypeOK
<1>7. HistoryGood'
    BY <1>1, <1>4, <1>5 DEF IInv, HistoryGood
<1> QED
    BY <1>1, <1>3, <1>6, <1>7 DEF IInv, IntentDurable

LEMMA SettingsKeep ==
    ASSUME IInv,
           RecoverHostKey \/ \E target \in Targets, pinned \in BOOLEAN : UpdateRouter(target, pinned)
    PROVE  IInv'
<1>1. PICK target \in Targets, pinned \in BOOLEAN :
          /\ config' = [config EXCEPT !.target = target, !.pinned = pinned] /\ disk' = config'
          /\ released' = released /\ rules' = rules /\ job' = job
          /\ faults' \in 0..MaxFaults /\ overlooked' \subseteq rules
          /\ wish' = wish /\ verified' = verified
    <2>1. CASE RecoverHostKey
        <3>1. /\ config' = [config EXCEPT !.target = config.target, !.pinned = TRUE] /\ disk' = config'
              /\ config.target \in Targets
            <4>1. config' = [config EXCEPT !.pinned = TRUE] /\ disk' = config' /\ config \in Config
                BY <2>1, Facts DEF RecoverHostKey, SaveOk
            <4> QED
                BY <4>1 DEF Config
        <3>2. faults' \in 0..MaxFaults /\ overlooked' \subseteq rules
            BY <2>1, Facts DEF RecoverHostKey
        <3>3. /\ released' = released /\ rules' = rules /\ job' = job
              /\ wish' = wish /\ verified' = verified
            BY <2>1 DEF RecoverHostKey
        <3> QED
            BY <3>1, <3>2, <3>3
    <2>2. CASE \E target \in Targets, pinned \in BOOLEAN : UpdateRouter(target, pinned)
        <3>1. PICK target \in Targets, pinned \in BOOLEAN : UpdateRouter(target, pinned)
            BY <2>2
        <3> DEFINE present == rules \cap UNION {EntryRules(config, e) : e \in Listed}
        <3>2. present \in SUBSET rules /\ (Overlook(present) \/ UNCHANGED <<faults, overlooked>>)
            BY <3>1 DEF UpdateRouter
        <3> HIDE DEF present
        <3>3. faults' \in 0..MaxFaults /\ overlooked' \subseteq rules
            BY <3>2, OverlookParts, Facts
        <3> QED
            BY <3>1, <3>3 DEF UpdateRouter, SaveOk
    <2> QED
        BY <2>1, <2>2
<1>2. config \in Config
    BY Facts
<1>3. config' \in Config /\ config'.devices = config.devices
    BY <1>1, <1>2 DEF Config
<1>4. Listed' = Listed
    BY <1>3 DEF Listed, ListedIn
<1>5. TypeOK'
    BY <1>1, <1>3, <1>4 DEF IInv, TypeOK
<1>6. JobGood'
    BY <1>1, <1>4 DEF IInv, JobGood, Idle
<1>7. HistoryGood'
    BY <1>1, <1>3, <1>4 DEF IInv, HistoryGood
<1> QED
    BY <1>1, <1>5, <1>6, <1>7 DEF IInv, IntentDurable

-----------------------------------------------------------------------------
LEMMA StepKeeps ==
    ASSUME IInv, [Next]_vars
    PROVE  IInv'
<1>1. CASE UNCHANGED vars
    <2>1. /\ config' = config /\ disk' = disk /\ released' = released /\ rules' = rules
          /\ overlooked' = overlooked /\ job' = job /\ faults' = faults /\ wish' = wish /\ verified' = verified
        BY <1>1 DEF vars
    <2>2. Listed' = Listed
        BY <2>1 DEF Listed, ListedIn
    <2>3. JobGood'
        BY <2>1, <2>2 DEF IInv, JobGood, Idle
    <2> QED
        BY <2>1, <2>3, Facts, QuietKeeps
<1>2. CASE JobNext
    BY <1>2, NextEntryKeeps, AllEntriesDoneKeeps, PortStepKeeps, VerifyOnKeeps, VerifyOffKeeps,
       SaveOnKeeps, SaveOffKeeps, ReadStatusKeeps, AdoptKeeps DEF JobNext
<1>3. CASE StartReconcile
    BY <1>3, StartReconcileKeeps
<1>4. CASE FaultNext
    BY <1>4, CommandFailsKeeps, PortStepKeeps, CommandHangsKeeps, UnsavedKeeps, AdoptUnsavedKeeps,
       RouterRebootsKeeps, RestartKeeps
       DEF FaultNext
<1>5. CASE OwnerNext
    <2>1. ASSUME NEW e \in Entries, StartEnable(e) \/ StartDisable(e)
          PROVE  IInv'
        BY <2>1, StartEnableKeeps, StartDisableKeeps
    <2>2. CASE StartRelease
        BY <2>2, StartReleaseKeeps
    <2>3. ASSUME NEW e \in Entries, NEW ip \in Ips,
                 MoveDevice(e, ip) \/ \E mode \in {"dnat", "local"} : AddDevice(e, ip, mode)
          PROVE  IInv'
        BY <2>3, EditKeeps
    <2>4. ASSUME NEW e \in Entries,
                 \/ ChangeMode(e) \/ DeleteDevice(e) \/ UnlinkDevice(e)
                 \/ \E platform \in Platforms : LinkDevice(e, platform)
          PROVE  IInv'
        BY <2>4, EditKeeps
    <2>5. CASE RecoverHostKey \/ \E target \in Targets, pinned \in BOOLEAN : UpdateRouter(target, pinned)
        BY <2>5, SettingsKeep
    <2> QED
        BY <1>5, <2>1, <2>2, <2>3, <2>4, <2>5 DEF OwnerNext
<1> QED
    BY <1>1, <1>2, <1>3, <1>4, <1>5 DEF Next

\* A rule is added for the entry of an Enable or of a restoration, and at its address.
LEMMA OnlyWantedRulesComeBack ==
    ASSUME IInv, [Next]_vars
    PROVE  KeepsOff
<1>1. SUFFICES ASSUME NEW e \in Listed, wish[e] # "none", NEW r \in EntryRules(config, e), r \in rules' \ rules
               PROVE  FALSE
    BY DEF KeepsOff
<1>2. AddRule
    <2>1. rules' \subseteq rules \/ AddRule
        BY DEF Next, vars, JobNext, FaultNext, OwnerNext, NextEntry, AllEntriesDone, RemoveRule, VerifyOn,
               VerifyOff, SaveOn, SaveOff, ReadStatus, Adopt, CommandFails, ChangeMissed, CommandHangs,
               EnableUnsaved, OffUnsaved,
               AdoptUnsaved, RouterReboots, Restart, StartReconcile, StartEnable, StartDisable,
               StartRelease, AddDevice, MoveDevice, ChangeMode, DeleteDevice, LinkDevice, UnlinkDevice,
               UpdateRouter, RecoverHostKey, Store
    <2> QED
        BY <1>1, <2>1
<1>3. /\ job.op \in {"enable", "restore"} /\ job.port \in 1..2 /\ job.port # 0
      /\ rules' = rules \cup {Rule(config, job.at, job.port)}
    BY <1>2 DEF AddRule
<1>4. job.at \in Listed /\ wish[job.at] = "none"
    <2>1. JobGood /\ Listed \subseteq Entries
        BY Facts DEF IInv
    <2> QED
        BY <1>3, <2>1, DnatAssumption DEF JobGood
<1>5. r = Rule(config, job.at, job.port) /\ job.at # e
    BY <1>1, <1>3, <1>4
<1>6. r[1] = config.devices[e].ip
    BY Facts, RuleParts DEF EntryRules
<1>7. r[1] = config.devices[job.at].ip
    BY <1>3, <1>4, <1>5, Facts, RuleParts
<1>8. \A x, y \in Listed : x # y => config.devices[x].ip # config.devices[y].ip
    BY DEF IInv, TypeOK
<1> QED
    BY <1>4, <1>5, <1>6, <1>7, <1>8

-----------------------------------------------------------------------------
\* Whatever fails or dies between two commands, a job is about listed entries and
\* an Off is remembered by the file, the latch or both.
THEOREM InvariantHolds == Spec => []IInv
<1>1. Init => IInv
    BY InitHolds
<1>2. IInv /\ [Next]_vars => IInv'
    BY StepKeeps
<1> QED
    BY <1>1, <1>2, PTL DEF Spec

\* Two entries never have the same address (addDevice(), updateDevice()).
THEOREM TypeCorrect == Spec => []TypeOK
<1>1. IInv => TypeOK
    BY DEF IInv
<1> QED
    BY <1>1, InvariantHolds, PTL

\* What was verified as off is neither forwarded nor lost by a failed save: memory
\* and file agree, and the latch covers what could not be saved.
THEOREM OffKept == Spec => []OffIsKept
<1>1. IInv => OffIsKept
    BY DEF IInv, HistoryGood, OffIsKept, NoForwardingAfterOff, Forwarding, Listed, ListedIn
<1> QED
    BY <1>1, InvariantHolds, PTL

\* No job, periodic cycle or restart adds a rule for an entry that was switched off,
\* nor for a released one before a restart.
THEOREM OffStays == Spec => OffStaysOff
<1>1. IInv /\ [Next]_vars => [KeepsOff]_vars
    BY OnlyWantedRulesComeBack
<1> QED
    BY <1>1, InvariantHolds, PTL DEF Spec, OffStaysOff
-----------------------------------------------------------------------------
(***************************************************************************)
(* No rule is orphaned, while the inventory holds no ThinQ1 appliance: the *)
(* ports of an entry are then the same whatever is linked to it.           *)
(***************************************************************************)

\* No appliance of the inventory runs ThinQ1, whose ports are others.
SamePorts == \A e \in Listed : config.devices[e].platform # "thinq1"

\* An entry in "local" mode has no rules on the router that a check was to see, and
\* nothing puts any there.
OnlyManagedHaveRules ==
    /\ rules \ overlooked \subseteq UNION {EntryRules(config, e) : e \in {x \in Entries : Managed(x)}}
    /\ job.op \in {"enable", "restore"} =>
         \A e \in (job.todo \cup {job.at}) \ {Nobody} : Managed(e)

RulesGood == SamePorts /\ OnlyManagedHaveRules

\* The rules of an entry depend on its address, its ports and the target.
LEMMA RulesOfEntry ==
    ASSUME NEW c, NEW d, NEW e, d.target = c.target, d.devices[e].ip = c.devices[e].ip,
           d.devices[e].platform = "thinq1" <=> c.devices[e].platform = "thinq1"
    PROVE  EntryRules(d, e) = EntryRules(c, e)
<1>1. Ports(d.devices[e]) = Ports(c.devices[e])
    BY DEF Ports
<1>2. \A i \in 1..2 : Rule(d, e, i) = Rule(c, e, i)
    BY <1>1 DEF Rule
<1> QED
    BY <1>2 DEF EntryRules

LEMMA RulesAtStart == Init => RulesGood
<1> SUFFICES ASSUME Init
             PROVE  RulesGood
    OBVIOUS
<1>1. SamePorts
    BY DEF SamePorts, Init, Listed
<1>2. PICK S \in SUBSET {e \in Entries : Managed(e)} :
          rules = UNION {EntryRules(config, e) : e \in S}
    BY DEF Init
<1>3. OnlyManagedHaveRules
    BY <1>2, NoJobParts DEF OnlyManagedHaveRules, Init
<1> QED
    BY <1>1, <1>3 DEF RulesGood

\* A saved intent changes neither what is managed nor what the rules would be.
LEMMA IntentKeepsRules ==
    ASSUME IInv, SamePorts, NEW S \in SUBSET Listed, NEW want \in {"on", "off"},
           config' = config \/ config' = WithDesired(config, S, want)
    PROVE  /\ SamePorts'
           /\ \A e \in Entries : Managed(e)' <=> Managed(e)
           /\ \A e \in Listed : EntryRules(config', e) = EntryRules(config, e)
<1>1. config \in Config /\ S \in SUBSET ListedIn(config) /\ Listed = ListedIn(config) /\ Listed \subseteq Entries
    BY Facts
<1>2. CASE config' = config
    BY <1>2 DEF SamePorts, Managed, Listed, ListedIn
<1>3. CASE config' = WithDesired(config, S, want)
    <2>1. /\ config'.target = config.target /\ Listed' = Listed
          /\ \A e \in Entries \ S : config'.devices[e] = config.devices[e]
          /\ \A e \in S : config'.devices[e] = [config.devices[e] EXCEPT !.desired = want]
        BY <1>1, <1>3, WithDesiredParts DEF Listed
    <2>2. ASSUME NEW e \in Listed
          PROVE  /\ config'.devices[e].ip = config.devices[e].ip
                 /\ config'.devices[e].mode = config.devices[e].mode
                 /\ config'.devices[e].platform = config.devices[e].platform
        <3>1. config.devices[e] \in Device
            BY <1>1, ListedIsDevice
        <3>2. CASE e \in S
            <4>1. config'.devices[e] = [config.devices[e] EXCEPT !.desired = want]
                BY <2>1, <3>2
            <4> QED
                BY <3>1, <4>1 DEF Device
        <3> QED
            BY <1>1, <2>1, <3>2
    <2>3. \A e \in Listed : EntryRules(config', e) = EntryRules(config, e)
        BY <2>1, <2>2, RulesOfEntry
    <2> QED
        BY <2>1, <2>2, <2>3 DEF SamePorts, Managed
<1> QED
    BY <1>2, <1>3

\* The steps that edit no entry: a rule is only added for a managed entry, and a
\* job only goes to one.
LEMMA RulesAndJobKept ==
    ASSUME IInv, RulesGood, NEW S \in SUBSET Listed, NEW want \in {"on", "off"},
           config' = config \/ config' = WithDesired(config, S, want),
           \A r \in rules' \ overlooked' :
              r \in rules \ overlooked \/ \E e \in Entries : Managed(e) /\ r \in EntryRules(config, e),
           job'.op \in {"enable", "restore"} =>
              \A e \in (job'.todo \cup {job'.at}) \ {Nobody} : e \in Entries /\ Managed(e)
    PROVE  RulesGood'
<1>1. /\ SamePorts'
      /\ \A e \in Entries : Managed(e)' <=> Managed(e)
      /\ \A e \in Listed : EntryRules(config', e) = EntryRules(config, e)
    BY IntentKeepsRules DEF RulesGood
<1>2. ASSUME NEW r \in rules' \ overlooked'
      PROVE  \E e \in Entries : Managed(e)' /\ r \in EntryRules(config', e)
    <2>1. PICK e \in Entries : Managed(e) /\ r \in EntryRules(config, e)
        BY <1>2 DEF RulesGood, OnlyManagedHaveRules
    <2> QED
        BY <1>1, <2>1 DEF Managed
<1>3. rules' \ overlooked' \subseteq UNION {EntryRules(config', e) : e \in {x \in Entries : Managed(x)'}}
    BY <1>2
<1> QED
    BY <1>1, <1>3 DEF RulesGood, OnlyManagedHaveRules

\* The same, of a step that leaves the inventory alone too.
LEMMA NoRuleAdded ==
    ASSUME IInv, RulesGood, config' = config, rules' \ overlooked' \subseteq rules \ overlooked,
           \/ job'.op \notin {"enable", "restore"}
           \/ job'.op = job.op /\ job'.todo \cup {job'.at} \subseteq job.todo \cup {job.at, Nobody}
    PROVE  RulesGood'
<1>1. job'.op \in {"enable", "restore"} =>
          \A e \in (job'.todo \cup {job'.at}) \ {Nobody} : e \in Entries /\ Managed(e)
    BY DEF RulesGood, OnlyManagedHaveRules, Managed, Listed, ListedIn
<1> QED
    BY <1>1, RulesAndJobKept

\* An edited entry has no rules that were not overlooked, since its check was passed
\* or it was not managed, or keeps the rules it has.
LEMMA EditKeepsRules ==
    ASSUME IInv, RulesGood, NEW e \in Entries, NEW d \in Device \cup {Unlisted}, Store(e, d),
           d # Unlisted => d.platform # "thinq1",
           \/ e \notin Listed /\ UNCHANGED overlooked
           \/ RequireOff(e)
           \/ UNCHANGED overlooked /\ d # Unlisted /\ d.ip = config.devices[e].ip /\ d.mode = config.devices[e].mode
    PROVE  RulesGood'
<1>0. config' = [config EXCEPT !.devices[e] = d] /\ rules' = rules /\ job' = job /\ Idle
    BY Zenon DEF Store, SaveOk
<1>1. config' \in Config /\ config'.devices = [config.devices EXCEPT ![e] = d] /\ config'.target = config.target
    BY <1>0, StoredParts, Facts DEF Config
<1>2. \A o \in Entries \ {e} : config'.devices[o] = config.devices[o] /\ (o \in Listed' <=> o \in Listed)
    BY <1>1, Facts DEF Listed, ListedIn, Config
<1>3. config'.devices[e] = d /\ (e \in Listed' <=> d # Unlisted)
    BY <1>1, Facts DEF Listed, ListedIn, Config
<1>4. SamePorts'
    <2>1. Listed' \subseteq Entries
        BY DEF Listed, ListedIn
    <2> QED
        BY <1>2, <1>3, <2>1 DEF RulesGood, SamePorts
<1>5. ASSUME NEW r \in rules' \ overlooked'
      PROVE  \E o \in Entries : Managed(o)' /\ r \in EntryRules(config', o)
    <2>0. r \in rules \ overlooked
        BY <1>0, <1>5, RequireOffParts
    <2>1. PICK o \in Entries : Managed(o) /\ r \in EntryRules(config, o) /\ r \in rules
        BY <2>0 DEF RulesGood, OnlyManagedHaveRules
    <2>2. CASE o # e
        <3>1. Managed(o)'
            BY <1>2, <2>1, <2>2 DEF Managed
        <3>2. config'.devices[o] = config.devices[o] /\ config'.target = config.target
            BY <1>1, <1>2, <2>2
        <3>3. EntryRules(config', o) = EntryRules(config, o)
            BY <3>2, RulesOfEntry
        <3> QED
            BY <2>1, <3>1, <3>3
    <2>3. CASE o = e
        <3>1. e \in Listed /\ ~RequireOff(e)
            BY <1>5, <2>1, <2>3, RequireOffParts DEF Managed
        <3>2. d # Unlisted /\ d.ip = config.devices[e].ip /\ d.mode = config.devices[e].mode
            BY <3>1
        <3>3. Managed(e)'
            BY <1>3, <2>1, <2>3, <3>2 DEF Managed
        <3>4. /\ config'.devices[e].ip = config.devices[e].ip /\ config'.target = config.target
              /\ config'.devices[e].platform # "thinq1" /\ config.devices[e].platform # "thinq1"
            BY <1>1, <1>3, <3>1, <3>2 DEF RulesGood, SamePorts
        <3>5. EntryRules(config', e) = EntryRules(config, e)
            BY <3>4, RulesOfEntry
        <3> QED
            BY <2>1, <2>3, <3>3, <3>5
    <2> QED
        BY <2>2, <2>3
<1>6. rules' \ overlooked' \subseteq UNION {EntryRules(config', o) : o \in {x \in Entries : Managed(x)'}}
    BY <1>5
<1> QED
    BY <1>0, <1>4, <1>6 DEF RulesGood, OnlyManagedHaveRules, Idle

\* The edits of one entry, when only ThinQ2 appliances connect.
LEMMA EditsOrphanNothing ==
    ASSUME IInv, RulesGood, Platforms \subseteq {"thinq2"}, NEW e \in Entries,
           \/ \E ip \in Ips, mode \in {"dnat", "local"} : AddDevice(e, ip, mode)
           \/ \E ip \in Ips : MoveDevice(e, ip)
           \/ ChangeMode(e) \/ DeleteDevice(e) \/ UnlinkDevice(e)
           \/ \E platform \in Platforms : LinkDevice(e, platform)
    PROVE  RulesGood'
<1>1. e \in Listed => config.devices[e] \in Device /\ config.devices[e].platform # "thinq1"
    BY Facts, ListedIsDevice DEF RulesGood, SamePorts
<1>2. ASSUME NEW ip \in Ips, NEW mode \in {"dnat", "local"}, AddDevice(e, ip, mode)
      PROVE  RulesGood'
    <2> DEFINE d == [ip |-> ip, platform |-> "none", linked |-> FALSE, mode |-> mode,
                     desired |-> "unset"]
    <2>1. d \in Device /\ d.platform # "thinq1"
        BY DEF Device
    <2>2. Store(e, d) /\ e \notin Listed /\ UNCHANGED overlooked
        BY <1>2 DEF AddDevice
    <2> HIDE DEF d
    <2> QED
        BY <2>1, <2>2, EditKeepsRules
<1>3. ASSUME NEW ip \in Ips, MoveDevice(e, ip)
      PROVE  RulesGood'
    <2> DEFINE d == [config.devices[e] EXCEPT !.ip = ip, !.platform = "none", !.linked = FALSE]
    <2>1. Store(e, d) /\ e \in Listed /\ RequireOff(e)
        BY <1>3 DEF MoveDevice
    <2>2. d \in Device /\ d.platform # "thinq1"
        BY <1>1, <2>1 DEF Device
    <2> HIDE DEF d
    <2> QED
        BY <2>1, <2>2, EditKeepsRules
<1>4. ASSUME ChangeMode(e)
      PROVE  RulesGood'
    <2> DEFINE d == [config.devices[e] EXCEPT !.mode = IF @ = "dnat" THEN "local" ELSE "dnat"]
    <2>1. Store(e, d) /\ e \in Listed /\ RequireOff(e)
        BY <1>4 DEF ChangeMode
    <2>2. d \in Device /\ d.platform # "thinq1"
        BY <1>1, <2>1 DEF Device
    <2> HIDE DEF d
    <2> QED
        BY <2>1, <2>2, EditKeepsRules
<1>5. ASSUME DeleteDevice(e)
      PROVE  RulesGood'
    <2>1. Store(e, Unlisted) /\ RequireOff(e)
        BY <1>5 DEF DeleteDevice
    <2> QED
        BY <2>1, EditKeepsRules
<1>6. ASSUME UnlinkDevice(e)
      PROVE  RulesGood'
    <2> DEFINE d == [config.devices[e] EXCEPT !.linked = FALSE, !.platform = "none"]
    <2>1. Store(e, d) /\ e \in Listed /\ RequireOff(e)
        BY <1>6 DEF UnlinkDevice
    <2>2. d \in Device /\ d.platform # "thinq1"
        BY <1>1, <2>1 DEF Device
    <2> HIDE DEF d
    <2> QED
        BY <2>1, <2>2, EditKeepsRules
<1>7. ASSUME NEW platform \in Platforms, LinkDevice(e, platform)
      PROVE  RulesGood'
    <2> DEFINE d == [config.devices[e] EXCEPT !.linked = TRUE, !.platform = platform]
    <2>1. Store(e, d) /\ e \in Listed /\ (RequireOff(e) \/ UNCHANGED overlooked)
        BY <1>7 DEF LinkDevice
    <2>2. platform = "thinq2"
        OBVIOUS
    <2>3. /\ d \in Device /\ d.platform # "thinq1"
          /\ d.ip = config.devices[e].ip /\ d.mode = config.devices[e].mode
        BY <1>1, <2>1, <2>2 DEF Device
    <2>4. d # Unlisted
        BY <2>3, UnlistedAssumption
    <2> HIDE DEF d
    <2> QED
        BY <2>1, <2>3, <2>4, EditKeepsRules
<1> QED
    BY <1>2, <1>3, <1>4, <1>5, <1>6, <1>7

\* A new target finds no rules on the router; a learned host key changes none.
LEMMA SettingsOrphanNothing ==
    ASSUME IInv, RulesGood,
           RecoverHostKey \/ \E target \in Targets, pinned \in BOOLEAN : UpdateRouter(target, pinned)
    PROVE  RulesGood'
<1>1. config \in Config /\ Listed \subseteq Entries
    BY Facts
<1>2. CASE RecoverHostKey
    <2>1. /\ config' = [config EXCEPT !.pinned = TRUE]
          /\ rules' = rules /\ overlooked' = overlooked /\ job' = job /\ Idle
        BY <1>2, Zenon DEF RecoverHostKey, SaveOk
    <2>2. config'.devices = config.devices /\ config'.target = config.target
        BY <1>1, <2>1 DEF Config
    <2>3. Listed' = Listed /\ \A o \in Entries : Managed(o)' <=> Managed(o)
        BY <2>2 DEF Managed, Listed, ListedIn
    <2>4. \A o \in Entries : EntryRules(config', o) = EntryRules(config, o)
        BY <2>2, RulesOfEntry
    <2>5. rules' \ overlooked' \subseteq UNION {EntryRules(config', o) : o \in {x \in Entries : Managed(x)'}}
        BY <2>1, <2>3, <2>4 DEF RulesGood, OnlyManagedHaveRules
    <2> QED
        BY <2>1, <2>2, <2>3, <2>5 DEF RulesGood, OnlyManagedHaveRules, SamePorts, Idle
<1>3. ASSUME NEW target \in Targets, NEW pinned \in BOOLEAN, UpdateRouter(target, pinned)
      PROVE  RulesGood'
    <2>1. /\ config' = [config EXCEPT !.target = target, !.pinned = pinned]
          /\ rules' = rules /\ job' = job /\ Idle
        BY <1>3, Zenon DEF UpdateRouter, SaveOk
    <2>2. config'.devices = config.devices
        BY <1>1, <2>1 DEF Config
    <2>3. Listed' = Listed
        BY <2>2 DEF Listed, ListedIn
    <2>4. rules' \ overlooked' = {}
        <3>1. ASSUME NEW r \in rules, r \notin overlooked'
              PROVE  FALSE
            <4> DEFINE present == rules \cap UNION {EntryRules(config, x) : x \in Listed}
            <4>1. IF config.pinned THEN Overlook(present)
                  ELSE (\A x \in Listed : ~Managed(x)) /\ UNCHANGED <<faults, overlooked>>
                BY <1>3, Zenon DEF UpdateRouter
            <4>2. present \in SUBSET rules
                OBVIOUS
            <4>3. /\ overlooked \subseteq overlooked'
                  /\ config.pinned => present \subseteq overlooked'
                <5> HIDE DEF present
                <5> QED
                    BY <4>1, <4>2, OverlookParts
            <4>4. r \in rules \ overlooked
                BY <3>1, <4>3
            <4>5. PICK o \in Entries : Managed(o) /\ r \in EntryRules(config, o)
                BY <4>4 DEF RulesGood, OnlyManagedHaveRules
            <4>6. o \in Listed /\ r \in present
                BY <4>5 DEF Managed
            <4> HIDE DEF present
            <4> QED
                BY <3>1, <4>1, <4>3, <4>5, <4>6
        <3> QED
            BY <2>1, <3>1
    <2> QED
        BY <2>1, <2>2, <2>3, <2>4 DEF RulesGood, OnlyManagedHaveRules, SamePorts, Idle
<1> QED
    BY <1>2, <1>3

LEMMA JobOrphansNothing ==
    ASSUME IInv, RulesGood, JobNext
    PROVE  RulesGood'
<1>1. Listed \subseteq Entries /\ job \in Job /\ JobGood
    BY Facts DEF IInv
<1>2. ASSUME NEW e \in Entries, NextEntry(e)
      PROVE  RulesGood'
    <2>1. /\ config' = config /\ rules' = rules /\ overlooked' = overlooked
          /\ job' = [job EXCEPT !.at = e, !.port = 1, !.todo = job.todo \ {e}] /\ e \in job.todo
        BY <1>2 DEF NextEntry
    <2>2. job'.op = job.op /\ job'.at = e /\ job'.todo = job.todo \ {e}
        BY <1>1, <2>1 DEF Job
    <2> QED
        BY <2>1, <2>2, NoRuleAdded
<1>3. CASE AllEntriesDone
    BY <1>3, NoRuleAdded, NoJobParts DEF AllEntriesDone
<1>4. CASE AddRule
    <2>1. /\ config' = config /\ job.port \in 1..2 /\ job.op \in {"enable", "restore"}
          /\ rules' = rules \cup {Rule(config, job.at, job.port)}
          /\ overlooked' = overlooked \ {Rule(config, job.at, job.port)}
          /\ job' = [job EXCEPT !.port = @ + 1]
        BY <1>4 DEF AddRule, NextPort
    <2>2. job'.op = job.op /\ job'.at = job.at /\ job'.todo = job.todo
        BY <1>1, <2>1 DEF Job
    <2>3. job.at \in Entries /\ job.at # Nobody
        <3>1. job.port # 0
            BY <2>1
        <3> QED
            BY <1>1, <3>1, DnatAssumption DEF JobGood
    <2>4. Managed(job.at) /\ Rule(config, job.at, job.port) \in EntryRules(config, job.at)
        BY <2>1, <2>3 DEF RulesGood, OnlyManagedHaveRules, EntryRules
    <2>5. \A r \in rules' \ overlooked' : r \in rules \ overlooked \/ \E e \in Entries : Managed(e) /\ r \in EntryRules(config, e)
        BY <2>1, <2>3, <2>4
    <2>6. \A e \in (job'.todo \cup {job'.at}) \ {Nobody} : e \in Entries /\ Managed(e)
        BY <1>1, <2>1, <2>2, <2>3 DEF RulesGood, OnlyManagedHaveRules, JobGood
    <2> QED
        BY <2>1, <2>5, <2>6, RulesAndJobKept
<1>5. CASE RemoveRule
    <2>1. /\ config' = config /\ rules' \ overlooked' \subseteq rules \ overlooked /\ job.op \in {"disable", "release"}
          /\ job' = [job EXCEPT !.port = @ + 1]
        BY <1>5 DEF RemoveRule, NextPort
    <2>2. job'.op = job.op
        BY <1>1, <2>1 DEF Job
    <2> QED
        BY <2>1, <2>2, NoRuleAdded
<1>6. ASSUME NEW state, VerifyOn(state)
      PROVE  RulesGood'
    <2>1. config' = config /\ rules' = rules /\ overlooked' = overlooked
        BY <1>6 DEF VerifyOn
    <2>2. \/ job' = NoJob
          \/ job' = [job EXCEPT !.at = Nobody, !.port = 0]
          \/ job' = [job EXCEPT !.op = "save on"]
        BY <1>6 DEF VerifyOn, EntryDone
    <2>3. \/ job'.op \in {"idle", "save on"}
          \/ job'.op = job.op /\ job'.at = Nobody /\ job'.todo = job.todo
        <3>1. CASE job' = NoJob
            BY <3>1, NoJobParts
        <3>2. CASE job' = [job EXCEPT !.at = Nobody, !.port = 0]
            BY <1>1, <3>2 DEF Job
        <3>3. CASE job' = [job EXCEPT !.op = "save on"]
            BY <1>1, <3>3 DEF Job
        <3> QED
            BY <2>2, <3>1, <3>2, <3>3
    <2> QED
        BY <2>1, <2>3, NoRuleAdded
<1>7. ASSUME NEW state, VerifyOff(state)
      PROVE  RulesGood'
    <2>1. config' = config /\ rules' = rules /\ overlooked' = overlooked /\ job.op \in {"disable", "release"}
        BY <1>7 DEF VerifyOff
    <2>2. \/ job' = NoJob
          \/ job' = [job EXCEPT !.at = Nobody, !.port = 0]
          \/ job' = [job EXCEPT !.op = "save off"]
        BY <1>7 DEF VerifyOff, EntryDone
    <2>3. job'.op \in {"idle", "disable", "release", "save off"}
        BY <1>1, <2>1, <2>2, NoJobParts DEF Job
    <2> QED
        BY <2>1, <2>3, NoRuleAdded
<1>11. CASE SaveOn
    <2>1. /\ config' = WithDesired(config, {job.at}, "on") /\ job' = NoJob
          /\ rules' = rules /\ overlooked' = overlooked /\ job.at \in Listed
        BY <1>1, <1>11, Zenon DEF SaveOn, SaveOk, JobGood
    <2>2. job'.op \notin {"enable", "restore"}
        BY <2>1, NoJobParts
    <2> QED
        BY <2>1, <2>2, RulesAndJobKept
<1>8. CASE SaveOff
    <2>1. /\ config' = WithDesired(config, {job.at}, "off")
          /\ rules' = rules /\ overlooked' = overlooked /\ job' = NoJob
          /\ job.at \in Listed
        BY <1>1, <1>8, Zenon DEF SaveOff, SaveOk, JobGood
    <2>2. job'.op \notin {"enable", "restore"}
        BY <2>1, NoJobParts
    <2> QED
        BY <2>1, <2>2, RulesAndJobKept
<1>9. ASSUME NEW e \in Entries, NEW state, ReadStatus(e, state)
      PROVE  RulesGood'
    <2>1. config' = config /\ rules' = rules /\ overlooked' = overlooked /\ job'.op = job.op /\ job.op = "status"
        BY <1>1, <1>9 DEF ReadStatus, Job
    <2> QED
        BY <2>1, NoRuleAdded
<1>10. CASE Adopt
    <2>1. /\ config' = WithDesired(config, Adoptable, "on")
          /\ rules' = rules /\ overlooked' = overlooked
          /\ job' = [NoJob EXCEPT !.op = "restore", !.todo = Wanted(job.seen)]
          /\ Adoptable \in SUBSET Listed
        BY <1>1, <1>10, Zenon DEF Adopt, SaveOk, JobGood, Adoptable
    <2>2. job'.at = Nobody /\ job'.todo = Wanted(job.seen)
        BY <2>1 DEF NoJob
    <2>3. \A e \in (job'.todo \cup {job'.at}) \ {Nobody} : e \in Entries /\ Managed(e)
        BY <1>1, <2>2 DEF Wanted, Forwarding
    <2> QED
        BY <2>1, <2>3, RulesAndJobKept
<1> QED
    BY <1>2, <1>3, <1>4, <1>5, <1>6, <1>7, <1>8, <1>9, <1>10, <1>11 DEF JobNext

LEMMA FaultsOrphanNothing ==
    ASSUME IInv, RulesGood, FaultNext
    PROVE  RulesGood'
<1>1. Listed \subseteq Entries /\ job \in Job /\ JobGood /\ disk = config
    BY Facts DEF IInv
<1>2. CASE CommandFails
    <2>1. config' = config /\ rules' = rules /\ overlooked' = overlooked
        BY <1>2 DEF CommandFails
    <2>2. \/ job' = NoJob
          \/ job' = [job EXCEPT !.at = Nobody, !.port = 0]
        BY <1>2 DEF CommandFails
    <2>3. \/ job'.op = "idle"
          \/ job'.op = job.op /\ job'.at = Nobody /\ job'.todo = job.todo
        <3>1. CASE job' = NoJob
            BY <3>1, NoJobParts
        <3>2. CASE job' = [job EXCEPT !.at = Nobody, !.port = 0]
            BY <1>1, <3>2 DEF Job
        <3> QED
            BY <2>2, <3>1, <3>2
    <2> QED
        BY <2>1, <2>3, NoRuleAdded
<1>7. CASE ChangeMissed
    <2>1. /\ config' = config /\ rules' = rules /\ overlooked' = overlooked
          /\ job' = [job EXCEPT !.port = @ + 1]
        BY <1>7 DEF ChangeMissed, NextPort
    <2>2. job'.op = job.op /\ job'.at = job.at /\ job'.todo = job.todo
        BY <1>1, <2>1 DEF Job
    <2> QED
        BY <2>1, <2>2, NoRuleAdded
<1>8. CASE CommandHangs
    <2>1. /\ config' = config /\ rules' = rules /\ overlooked' = overlooked
          /\ job' = [NoJob EXCEPT !.op = "hung"]
        BY <1>8 DEF CommandHangs
    <2>2. job'.op = "hung"
        BY <2>1 DEF NoJob
    <2> QED
        BY <2>1, <2>2, NoRuleAdded
<1>3. CASE EnableUnsaved \/ OffUnsaved
    BY <1>1, <1>3, NoRuleAdded, NoJobParts DEF EnableUnsaved, OffUnsaved, SaveFails
<1>4. ASSUME NEW S \in SUBSET Entries, AdoptUnsaved(S)
      PROVE  RulesGood'
    <2>1. /\ config' = WithDesired(config, S, "on")
          /\ rules' = rules /\ overlooked' = overlooked /\ job' = NoJob
          /\ S \in SUBSET Listed
        BY <1>1, <1>4, Zenon DEF AdoptUnsaved, SaveOk, Adoptable, JobGood
    <2>2. job'.op \notin {"enable", "restore"}
        BY <2>1, NoJobParts
    <2> QED
        BY <2>1, <2>2, RulesAndJobKept
<1>5. CASE RouterReboots
    BY <1>5, NoRuleAdded DEF RouterReboots
<1>6. CASE Restart
    BY <1>1, <1>6, NoRuleAdded, NoJobParts DEF Restart
<1> QED
    BY <1>2, <1>3, <1>4, <1>5, <1>6, <1>7, <1>8 DEF FaultNext

\* The jobs that start: an Enable is of a managed entry.
LEMMA StartsOrphanNothing ==
    ASSUME IInv, RulesGood,
           StartReconcile \/ StartRelease \/ \E e \in Entries : StartEnable(e) \/ StartDisable(e)
    PROVE  RulesGood'
<1>1. CASE StartReconcile \/ StartRelease \/ \E e \in Entries : StartDisable(e)
    <2>1. config' = config /\ rules' = rules /\ overlooked' = overlooked
        BY <1>1 DEF StartReconcile, StartRelease, StartDisable
    <2>2. \/ \E t : job' = [NoJob EXCEPT !.op = "status", !.todo = t]
          \/ \E t : job' = [NoJob EXCEPT !.op = "release", !.todo = t]
          \/ \E e \in Entries : job' = [NoJob EXCEPT !.op = "disable", !.at = e, !.port = 1]
        BY <1>1, Zenon DEF StartReconcile, StartRelease, StartDisable, Begin
    <2>3. job'.op \in {"status", "release", "disable"}
        BY <2>2 DEF NoJob
    <2> QED
        BY <2>1, <2>3, NoRuleAdded
<1>2. ASSUME NEW e \in Entries, StartEnable(e)
      PROVE  RulesGood'
    <2>1. config' = config /\ rules' = rules /\ overlooked' = overlooked /\ Managed(e)
        BY <1>2 DEF StartEnable
    <2>2. job'.at = e /\ job'.todo = {}
        BY <1>2 DEF StartEnable, Begin, NoJob
    <2> QED
        BY <2>1, <2>2, RulesAndJobKept
<1> QED
    BY <1>1, <1>2

LEMMA StepOrphansNothing ==
    ASSUME IInv, RulesGood, Platforms \subseteq {"thinq2"}, [Next]_vars
    PROVE  RulesGood'
<1>1. CASE UNCHANGED vars
    BY <1>1, NoRuleAdded DEF vars
<1>2. CASE JobNext
    BY <1>2, JobOrphansNothing
<1>3. CASE FaultNext
    BY <1>3, FaultsOrphanNothing
<1>4. CASE StartReconcile
    BY <1>4, StartsOrphanNothing
<1>5. CASE OwnerNext
    <2>1. CASE StartRelease \/ \E e \in Entries : StartEnable(e) \/ StartDisable(e)
        BY <2>1, StartsOrphanNothing
    <2>2. ASSUME NEW e \in Entries,
                 \/ \E ip \in Ips, mode \in {"dnat", "local"} : AddDevice(e, ip, mode)
                 \/ \E ip \in Ips : MoveDevice(e, ip)
                 \/ ChangeMode(e) \/ DeleteDevice(e) \/ UnlinkDevice(e)
                 \/ \E platform \in Platforms : LinkDevice(e, platform)
          PROVE  RulesGood'
        BY <2>2, EditsOrphanNothing
    <2>3. CASE RecoverHostKey \/ \E target \in Targets, pinned \in BOOLEAN : UpdateRouter(target, pinned)
        BY <2>3, SettingsOrphanNothing
    <2> QED
        BY <1>5, <2>1, <2>2, <2>3 DEF OwnerNext
<1> QED
    BY <1>1, <1>2, <1>3, <1>4, <1>5 DEF Next

\* With ThinQ2 appliances alone, no edit, misread check, failure or crash between two
\* commands leaves a rule that the inventory does not account for, but for those that
\* the very check made for the edit failed to see (requireOff(), the checks of PUT
\* /api/router/config).  That exception is the code's: hasRule() takes any exit status
\* but 0 for "no rule".
THEOREM NoRuleIsOrphaned ==
    ASSUME Platforms \subseteq {"thinq2"}
    PROVE  Spec => []NoOrphanRules
<1>1. Init => RulesGood
    BY RulesAtStart
<1>2. IInv /\ RulesGood /\ [Next]_vars => RulesGood'
    BY StepOrphansNothing
<1>3. RulesGood => NoOrphanRules
    BY DEF RulesGood, OnlyManagedHaveRules, NoOrphanRules, Managed
<1> QED
    BY <1>1, <1>2, <1>3, InvariantHolds, PTL DEF Spec
=============================================================================
