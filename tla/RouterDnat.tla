------------------------------ MODULE RouterDnat ------------------------------
(***************************************************************************)
(* The forwarding rules of the appliances on the home router.              *)
(*                                                                         *)
(* The rules live on the router, which forgets them when it reboots; what  *)
(* the owner asked for lives in router-dnat.json.  RouterAPI               *)
(* (management/router-api.ts) and DNATReconciler (router/dnat-reconciler)  *)
(* change both through DNATManager and RouterConfigStore, one job at a     *)
(* time, but a job is a sequence of SSH commands: the router may reboot,   *)
(* a command may fail, be misread or never end, a save may fail, and the   *)
(* process may die between any two.                                        *)
(***************************************************************************)
EXTENDS Naturals, FiniteSets, Sequences

CONSTANTS
    Entries,     \* entryId values
    Ips,         \* addresses of appliances
    Targets,     \* values of rethinkIp, where the rules point to
    Platforms,   \* platforms of the appliances that may connect
    Unlisted,    \* an inventory slot nobody registered
    Nobody,      \* no entry: a job that is between two entries
    MaxFaults    \* reboots, crashes, failures and misreadings in one behaviour

ASSUME DnatAssumption ==
    /\ Platforms \subseteq {"thinq1", "thinq2"}
    /\ MaxFaults \in Nat
    /\ Nobody \notin Entries

VARIABLES
    config,    \* RouterConfigStore.config
    disk,      \* RouterConfigStore.persisted, the content of the file
    released,  \* RouterConfigStore.released
    rules,     \* the rules present on the router
    job,       \* what holds the exclusive queue
    faults,    \* faults so far
    overlooked, \* history: rules a failed check took for absent when an edit was let in
    wish,      \* history: "off" was acknowledged, or "release" was asked
    verified   \* history: the state last read when a job was done with an entry

vars == <<config, disk, released, rules, job, faults, overlooked, wish, verified>>

Device ==
    [ip : Ips, platform : {"none", "thinq1", "thinq2"}, linked : BOOLEAN,
     mode : {"dnat", "local"}, desired : {"unset", "on", "off"}]

ASSUME UnlistedAssumption == Unlisted \notin Device

Config == [devices : [Entries -> Device \cup {Unlisted}], target : Targets, pinned : BOOLEAN]

NoJob == [op |-> "idle", at |-> Nobody, port |-> 0, todo |-> {}, seen |-> {}]

Job ==
    [op : {"idle", "enable", "save on", "disable", "save off", "release", "status", "restore",
           "hung"},
     at : Entries \cup {Nobody}, port : 0..3, todo : SUBSET Entries, seen : SUBSET Entries]

-----------------------------------------------------------------------------
ListedIn(c) == {e \in Entries : c.devices[e] # Unlisted}

Listed == ListedIn(config)

\* ports(): an entry whose platform is unknown is taken for a ThinQ2 appliance.
Ports(d) == IF d.platform = "thinq1" THEN <<46030, 47878>> ELSE <<443, 8883>>

Rule(c, e, i) == <<c.devices[e].ip, Ports(c.devices[e])[i], c.target>>

EntryRules(c, e) == {Rule(c, e, i) : i \in 1..2}

On(e) == EntryRules(config, e) \subseteq rules

Off(e) == EntryRules(config, e) \cap rules = {}

\* deviceStatus()
Status(e) == IF On(e) THEN "on" ELSE IF Off(e) THEN "off" ELSE "partial"

Managed(e) == e \in Listed /\ config.devices[e].mode = "dnat"

Desires(c, e) == c.devices[e].desired = "on"

\* BridgePolicy.forwarding()
Forwarding(e) == Managed(e) /\ Desires(config, e) /\ e \notin released

\* What the reconciler is to put back.
Wanted(seen) == {e \in Listed : Forwarding(e)} \ seen

WithDesired(c, S, want) ==
    [c EXCEPT !.devices = [e \in Entries |->
        IF e \in S THEN [c.devices[e] EXCEPT !.desired = want] ELSE c.devices[e]]]

\* save(): the temporary file is renamed over the old one; on an error the
\* memory goes back to what the file holds.
SaveOk(c) == config' = c /\ disk' = c

SaveFailsKeepingMemory(c) ==
    /\ config' = c
    /\ UNCHANGED disk

SaveFails(c) ==
    /\ config' = disk
    /\ UNCHANGED disk

Fault == faults < MaxFaults /\ faults' = faults + 1

\* What a reading of an entry answers.  hasRule() takes every exit status but 0 for
\* "no rule" (a lock on the table that is held, say), and exec() a channel that was
\* closed without a status for a 0: a check that fails is an answer like any other.
Read(e, state) ==
    IF state = Status(e) THEN UNCHANGED faults ELSE Fault

Idle == job.op = "idle"

Begin(op, e) == job' = [NoJob EXCEPT !.op = op, !.at = e, !.port = 1]

NextPort == job' = [job EXCEPT !.port = @ + 1]

\* The entry is done with: a release and a reconcile go on to the next one.
EntryDone ==
    IF job.op \in {"release", "restore"}
    THEN job' = [job EXCEPT !.at = Nobody, !.port = 0]
    ELSE job' = NoJob

-----------------------------------------------------------------------------
\* Handlers of RouterAPI that run SSH commands.

StartEnable(e) ==
    /\ Idle
    /\ config.pinned
    /\ Managed(e)
    /\ Begin("enable", e)
    /\ wish' = [wish EXCEPT ![e] = "none"]
    /\ UNCHANGED <<config, disk, released, rules, faults, overlooked, verified>>

StartDisable(e) ==
    /\ Idle
    /\ config.pinned
    /\ e \in Listed
    /\ Begin("disable", e)
    /\ UNCHANGED <<config, disk, released, rules, faults, overlooked, wish, verified>>

\* Every entry is latched before the first command is sent.
StartRelease ==
    LET entries == {e \in Entries : Managed(e)} IN
    /\ Idle
    /\ config.pinned
    /\ entries # {}
    /\ released' = released \cup entries
    /\ wish' = [e \in Entries |-> IF e \in entries /\ wish[e] = "none" THEN "release" ELSE wish[e]]
    /\ job' = [NoJob EXCEPT !.op = "release", !.todo = entries]
    /\ UNCHANGED <<config, disk, rules, faults, overlooked, verified>>

\* The reconciler's timer; the queue lets it in once nothing else holds it.
StartReconcile ==
    LET entries == {e \in Entries : Managed(e)} \ released IN
    /\ Idle
    /\ config.pinned
    /\ entries # {}
    /\ job' = [NoJob EXCEPT !.op = "status", !.todo = entries]
    /\ UNCHANGED <<config, disk, released, rules, faults, overlooked, wish, verified>>

-----------------------------------------------------------------------------
\* The steps of a job; each is one command on the router.

NextEntry(e) ==
    /\ job.op \in {"release", "restore"}
    /\ job.at = Nobody
    /\ e \in job.todo
    /\ job' = [job EXCEPT !.at = e, !.port = 1, !.todo = @ \ {e}]
    /\ UNCHANGED <<config, disk, released, rules, faults, overlooked, wish, verified>>

AllEntriesDone ==
    /\ job.op \in {"release", "restore"}
    /\ job.at = Nobody
    /\ job.todo = {}
    /\ job' = NoJob
    /\ UNCHANGED <<config, disk, released, rules, faults, overlooked, wish, verified>>

\* hasRule() finds the rule or -A adds it.
AddRule ==
    LET r == Rule(config, job.at, job.port) IN
    /\ job.op \in {"enable", "restore"}
    /\ job.port \in 1..2
    /\ rules' = rules \cup {r}
    /\ overlooked' = overlooked \ {r}
    /\ NextPort
    /\ UNCHANGED <<config, disk, released, faults, wish, verified>>

\* -D until -C fails: all copies of the rule, of which there are at most ten here.
RemoveRule ==
    LET r == Rule(config, job.at, job.port) IN
    /\ job.op \in {"disable", "release"}
    /\ job.port \in 1..2
    /\ rules' = rules \ {r}
    /\ overlooked' = overlooked \ {r}
    /\ NextPort
    /\ UNCHANGED <<config, disk, released, faults, wish, verified>>

\* Only an entry that reads "on" goes on to the save; a restoration saves nothing.
VerifyOn(state) ==
    LET e == job.at IN
    /\ job.op \in {"enable", "restore"}
    /\ job.port = 3
    /\ Read(e, state)
    /\ verified' = IF state = "on" THEN [verified EXCEPT ![e] = "on"] ELSE verified
    /\ IF state = "on" /\ job.op = "enable"
       THEN job' = [job EXCEPT !.op = "save on"]
       ELSE EntryDone
    /\ UNCHANGED <<config, disk, released, rules, overlooked, wish>>

\* setDnatDesired(true): only now is the intent recorded and the latch lifted.
SaveOn ==
    /\ job.op = "save on"
    /\ SaveOk(WithDesired(config, {job.at}, "on"))
    /\ released' = released \ {job.at}
    /\ job' = NoJob
    /\ UNCHANGED <<rules, faults, overlooked, wish, verified>>

\* The rules read as gone: forwarding is paused before the intent is saved, and
\* Bridge.reconcile runs in between.
VerifyOff(state) ==
    LET e == job.at IN
    /\ job.op \in {"disable", "release"}
    /\ job.port = 3
    /\ Read(e, state)
    /\ IF state = "off"
       THEN /\ verified' = [verified EXCEPT ![e] = "off"]
            /\ IF job.op = "disable"
               THEN job' = [job EXCEPT !.op = "save off"] /\ released' = released \cup {e}
               ELSE EntryDone /\ UNCHANGED released
       ELSE job' = NoJob /\ UNCHANGED <<verified, released>>
    /\ UNCHANGED <<config, disk, rules, overlooked, wish>>

SaveOffForgotten ==
    /\ job.op = "save off"
    /\ wish' = [wish EXCEPT ![job.at] = "off"]
    /\ job' = NoJob
    /\ UNCHANGED <<config, disk, released, rules, faults, overlooked, verified>>

\* setDnatDesired(false) and the answer to the owner.
SaveOff ==
    /\ job.op = "save off"
    /\ SaveOk(WithDesired(config, {job.at}, "off"))
    /\ wish' = [wish EXCEPT ![job.at] = "off"]
    /\ job' = NoJob
    /\ UNCHANGED <<released, rules, faults, overlooked, verified>>

ReadStatus(e, state) ==
    /\ job.op = "status"
    /\ e \in job.todo
    /\ Read(e, state)
    /\ job' = [job EXCEPT !.todo = @ \ {e}, !.seen = IF state = "on" THEN @ \cup {e} ELSE @]
    /\ UNCHANGED <<config, disk, released, rules, overlooked, wish, verified>>

Adoptable == {e \in job.seen : config.devices[e].desired = "unset"}

AdoptNothing ==
    /\ job.op = "status"
    /\ job.todo = {}
    /\ job' = NoJob
    /\ UNCHANGED <<config, disk, released, rules, faults, overlooked, wish, verified>>

\* Rules found in place become the intent, then what is missing is queued.
Adopt ==
    /\ job.op = "status"
    /\ job.todo = {}
    /\ SaveOk(WithDesired(config, Adoptable, "on"))
    /\ job' = [NoJob EXCEPT !.op = "restore", !.todo = Wanted(job.seen)]
    /\ UNCHANGED <<released, rules, faults, overlooked, wish, verified>>

-----------------------------------------------------------------------------
\* What can go wrong in the middle of a job.

\* The connection is lost, or a command that changes a rule is refused: the handler
\* answers with the error, a status reading ends the cycle, a restoration goes on to
\* the next entry.
CommandFails ==
    /\ job.op \in {"enable", "disable", "release", "status", "restore"}
    /\ job.at # Nobody \/ job.op = "status"
    /\ Fault
    /\ job' = IF job.op = "restore" THEN [job EXCEPT !.at = Nobody, !.port = 0] ELSE NoJob
    /\ UNCHANGED <<config, disk, released, rules, overlooked, wish, verified>>

\* The check before a change is misread, or the change ends without a status and
\* counts as done: the rule stays as it was and the job goes on.
ChangeMissed ==
    /\ job.op \in {"enable", "disable", "release", "restore"}
    /\ job.port \in 1..2
    /\ Fault
    /\ NextPort
    /\ UNCHANGED <<config, disk, released, rules, overlooked, wish, verified>>

\* A command, of a job or of the check of an edit, is never answered: exec() is given
\* no time limit, and a peer that died is not noticed.  The queue is held from then on.
CommandHangs ==
    /\ config.pinned
    /\ job.op \notin {"save on", "save off", "hung"}
    /\ Fault
    /\ job' = [NoJob EXCEPT !.op = "hung"]
    /\ UNCHANGED <<config, disk, released, rules, overlooked, wish, verified>>

EnableUnsaved ==
    /\ job.op = "save on"
    /\ Fault
    /\ SaveFails(WithDesired(config, {job.at}, "on"))
    /\ job' = NoJob
    /\ UNCHANGED <<released, rules, overlooked, wish, verified>>

OffUnsaved ==
    /\ job.op = "save off"
    /\ Fault
    /\ SaveFails(WithDesired(config, {job.at}, "off"))
    /\ job' = NoJob
    /\ UNCHANGED <<released, rules, overlooked, wish, verified>>

\* Adoptions are saved one by one; the first failure ends the cycle.
AdoptUnsaved(S) ==
    /\ job.op = "status"
    /\ job.todo = {}
    /\ S \subseteq Adoptable
    /\ S # Adoptable
    /\ Fault
    /\ SaveOk(WithDesired(config, S, "on"))
    /\ job' = NoJob
    /\ UNCHANGED <<released, rules, overlooked, wish, verified>>

RouterReboots ==
    /\ Fault
    /\ rules' = {}
    /\ overlooked' = {}
    /\ UNCHANGED <<config, disk, released, job, wish, verified>>

\* It may come at any moment, and is what ends a command that hangs.
Restart ==
    /\ IF job.op = "hung" THEN UNCHANGED faults ELSE Fault
    /\ config' = disk
    /\ released' = {}
    /\ job' = NoJob
    /\ wish' = [e \in Entries |-> IF wish[e] = "release" THEN "none" ELSE wish[e]]
    /\ verified' = [e \in Entries |-> "none"]
    /\ UNCHANGED <<disk, rules, overlooked>>

-----------------------------------------------------------------------------
\* Edits of the inventory and of the router settings; each holds the queue from
\* its status reading to its save, and one that fails changes nothing.

\* An edit is let in although the rules of `present` are on the router: the check
\* failed, and was taken for an "off".
Overlook(present) ==
    IF present = {}
    THEN UNCHANGED <<faults, overlooked>>
    ELSE Fault /\ overlooked' = overlooked \cup present

RequireOffUnread(e) == ~Desires(config, e) /\ UNCHANGED <<faults, overlooked>>

\* requireOff()
RequireOff(e) ==
    /\ ~Desires(config, e)
    /\ IF config.pinned
       THEN Overlook(EntryRules(config, e) \cap rules)
       ELSE ~Managed(e) /\ UNCHANGED <<faults, overlooked>>

Store(e, d) ==
    /\ Idle
    /\ SaveOk([config EXCEPT !.devices[e] = d])
    /\ UNCHANGED <<released, rules, job, verified>>

FreeIpIgnored(ip) == TRUE

FreeIp(ip) == \A o \in Listed : config.devices[o].ip # ip

AddDevice(e, ip, mode) ==
    /\ e \notin Listed
    /\ FreeIp(ip)
    /\ Store(e, [ip |-> ip, platform |-> "none", linked |-> FALSE, mode |-> mode,
                 desired |-> "unset"])
    /\ UNCHANGED <<faults, overlooked, wish>>

MoveDevice(e, ip) ==
    /\ e \in Listed
    /\ RequireOff(e)
    /\ FreeIp(ip)
    /\ Store(e, [config.devices[e] EXCEPT !.ip = ip, !.platform = "none", !.linked = FALSE])
    /\ UNCHANGED wish

ChangeMode(e) ==
    /\ e \in Listed
    /\ RequireOff(e)
    /\ Store(e, [config.devices[e] EXCEPT !.mode = IF @ = "dnat" THEN "local" ELSE "dnat"])
    /\ UNCHANGED wish

DeleteDevice(e) ==
    /\ e \in Listed
    /\ RequireOff(e)
    /\ Store(e, Unlisted)
    /\ wish' = [wish EXCEPT ![e] = "none"]

\* linkDevice() from the page and linkByIp() when the appliance shows up; only
\* replacing one appliance by another asks for the rules to be off.
LinkDevice(e, platform) ==
    /\ e \in Listed
    /\ IF config.devices[e].linked THEN RequireOff(e) ELSE UNCHANGED <<faults, overlooked>>
    /\ Store(e, [config.devices[e] EXCEPT !.linked = TRUE, !.platform = platform])
    /\ UNCHANGED wish

UnlinkDevice(e) ==
    /\ e \in Listed
    /\ config.devices[e].linked
    /\ RequireOff(e)
    /\ Store(e, [config.devices[e] EXCEPT !.linked = FALSE, !.platform = "none"])
    /\ UNCHANGED wish

UpdateRouter(target, pinned) ==
    /\ Idle
    /\ \A e \in Listed : ~Desires(config, e)
    /\ IF config.pinned
       THEN Overlook(rules \cap UNION {EntryRules(config, e) : e \in Listed})
       ELSE (\A e \in Listed : ~Managed(e)) /\ UNCHANGED <<faults, overlooked>>
    /\ SaveOk([config EXCEPT !.target = target, !.pinned = pinned])
    /\ UNCHANGED <<released, rules, job, wish, verified>>

RecoverHostKey ==
    /\ Idle
    /\ ~config.pinned
    /\ SaveOk([config EXCEPT !.pinned = TRUE])
    /\ UNCHANGED <<released, rules, job, faults, overlooked, wish, verified>>

-----------------------------------------------------------------------------
\* At start-up the file holds any inventory the store may have written, and the
\* router rules that were set up for its DNAT entries.
Init ==
    /\ config \in {c \in Config : \A e, o \in ListedIn(c) :
            /\ e # o => c.devices[e].ip # c.devices[o].ip
            /\ c.devices[e].platform = "none" /\ ~c.devices[e].linked
            /\ c.devices[e].mode = "local" => ~Desires(c, e)}
    /\ disk = config
    /\ released = {}
    /\ \E S \in SUBSET {e \in Entries : Managed(e)} : rules = UNION {EntryRules(config, e) : e \in S}
    /\ job = NoJob
    /\ faults = 0
    /\ overlooked = {}
    /\ wish = [e \in Entries |-> "none"]
    /\ verified = [e \in Entries |-> "none"]

JobNext ==
    \/ \E e \in Entries : NextEntry(e)
    \/ AllEntriesDone
    \/ AddRule
    \/ RemoveRule
    \/ \E state \in {"on", "off", "partial"} : VerifyOn(state) \/ VerifyOff(state)
    \/ SaveOn
    \/ SaveOff
    \/ \E e \in Entries, state \in {"on", "off", "partial"} : ReadStatus(e, state)
    \/ Adopt

FaultNext ==
    \/ CommandFails
    \/ ChangeMissed
    \/ CommandHangs
    \/ EnableUnsaved
    \/ OffUnsaved
    \/ \E S \in SUBSET Entries : AdoptUnsaved(S)
    \/ RouterReboots
    \/ Restart

OwnerNext ==
    \/ \E e \in Entries : StartEnable(e) \/ StartDisable(e)
    \/ StartRelease
    \/ \E e \in Entries, ip \in Ips, mode \in {"dnat", "local"} : AddDevice(e, ip, mode)
    \/ \E e \in Entries, ip \in Ips : MoveDevice(e, ip)
    \/ \E e \in Entries : ChangeMode(e) \/ DeleteDevice(e) \/ UnlinkDevice(e)
    \/ \E e \in Entries, platform \in Platforms : LinkDevice(e, platform)
    \/ \E target \in Targets, pinned \in BOOLEAN : UpdateRouter(target, pinned)
    \/ RecoverHostKey

Next == JobNext \/ StartReconcile \/ FaultNext \/ OwnerNext

Spec == Init /\ [][Next]_vars

\* A command that does not hang is answered or fails, and the reconciler, whose timer
\* keeps firing, gets its turn in the first-come first-served queue when it is free.
\* Nothing is assumed of a command that hangs, nor of who restarts the process then.
FairSpec == Spec /\ WF_vars(JobNext) /\ SF_vars(StartReconcile)

-----------------------------------------------------------------------------
\* Type invariant; the addresses of the inventory are distinct, since a rule is
\* known by its address alone (addDevice(), updateDevice()).
TypeOK ==
    /\ config \in Config
    /\ disk \in Config
    /\ released \subseteq Entries
    /\ rules \subseteq Ips \X {443, 8883, 46030, 47878} \X Targets
    /\ job \in Job
    /\ faults \in 0..MaxFaults
    /\ overlooked \subseteq rules
    /\ wish \in [Entries -> {"none", "off", "release"}]
    /\ verified \in [Entries -> {"none", "on", "off"}]
    /\ \A e, o \in Listed : e # o => config.devices[e].ip # config.devices[o].ip

\* The intent acted on is the intent a restart would read: a failed save leaves
\* neither a new intent in memory nor a half-written one on disk (save()).
IntentDurable == config = disk

\* Appliances whose rules were read as removed are never forwarded to the
\* manufacturer's cloud until they are enabled again, even if saving the intent
\* failed ("keep forwarding paused" in the disable handler, forwarding()).
NoForwardingAfterOff ==
    \A e \in Listed : Forwarding(e) => verified[e] # "off"

\* What was switched off is off for whoever asks: in memory and on disk, on the
\* router and for the bridge.
OffIsKept == IntentDurable /\ NoForwardingAfterOff

\* Every rule on the router is one the inventory knows how to remove, but for those
\* that the check made for an edit failed to see: no edit of the address, the
\* platform, the target or the entry, no missed change, failure or crash leaves any
\* other behind (requireOff(), the checks of PUT /api/router/config).
NoOrphanRules ==
    rules \ overlooked \subseteq UNION {EntryRules(config, e) : e \in Listed}

KeepsOff ==
    \A e \in Listed :
        wish[e] # "none" => EntryRules(config, e) \cap (rules' \ rules) = {}

\* No rule comes back for an entry whose Off was acknowledged, across restarts,
\* or for one released for maintenance, even partially, until a restart: only
\* the owner's Enable brings it back (reconcileLocked(), setDnatDesired()).
OffStaysOff == [][KeepsOff]_vars

\* An entry meant to be forwarded gets its rules back after the last reboot, crash,
\* failure or misreading, with nobody at the page (the reconciler's promise), unless
\* a command hangs; and it gets them back after the restart that ends the hang.
WantedIsRestored ==
    \A e \in Entries : []<>((config.pinned /\ Forwarding(e) => On(e)) \/ job.op = "hung")

\* README: Off removes the rules of that address for ports 443 and 8883.
OffRemovesRules ==
    \A e \in Listed : Idle /\ wish[e] = "off" =>
        \A r \in rules : r[1] = config.devices[e].ip => r[2] \notin {443, 8883}

=============================================================================
