--------------------------- MODULE BridgeForwarding ---------------------------
(***************************************************************************)
(* Forwarding an appliance to the manufacturer's cloud.                    *)
(*                                                                         *)
(* Bridge (bridge/index.ts) keeps one BridgedDevice, with one upstream     *)
(* connection, for each appliance that is present, registered and wanted.  *)
(* What is wanted is decided by the router inventory (bridge/policy.ts) or *)
(* by a saved switch; registrations are files (bridge/state.ts).  The      *)
(* requests of the owner take turns in one queue (RouterConfigStore.       *)
(* exclusive), but wait there for the router or for the cloud, and         *)
(* appliances and upstream connections come and go in the meantime.        *)
(***************************************************************************)
EXTENDS Naturals, FiniteSets

CONSTANTS
    Ids,        \* appliance identifiers; an entry's address names its appliance
    Thinq1,     \* those that speak ThinQ1
    Elsewhere,  \* addresses no appliance has
    Entries,    \* entryId values
    Devs,       \* objects of class Device
    Keys,       \* upstream Connection objects
    None,       \* undefined
    Unlisted,   \* an inventory slot nobody registered
    NoBridge,   \* no BridgedDevice
    MaxRegs,    \* registrations made for one appliance
    MaxPlaced,  \* entries added, moved to another address, or uncovered
    MaxFaults   \* crashes, failed requests and failed saves

ASSUME BridgeAssumption ==
    /\ Thinq1 \subseteq Ids
    /\ None \notin Ids \cup Devs \cup Keys \cup Entries
    /\ MaxRegs \in Nat /\ MaxPlaced \in Nat /\ MaxFaults \in Nat

Entry ==
    [addr : Ids \cup Elsewhere, linked : Ids \cup {None}, auto : BOOLEAN,
     mode : {"dnat", "local"}, desired : {"unset", "on", "off"}]

BridgedDevice ==
    [dev : Devs, reg : 1..MaxRegs, destroyed : BOOLEAN,
     conn : Keys \cup {None}, timer : BOOLEAN, connected : BOOLEAN]

ASSUME AbsentAssumption == Unlisted \notin Entry /\ NoBridge \notin BridgedDevice

VARIABLES
    present,   \* DeviceManager.allDevices
    closing,   \* replaced ThinQ1 devices whose socket has not closed yet
    entry,     \* RouterConfigStore.config.devices
    released,  \* RouterConfigStore.released
    live,      \* device_<id>.json: the registration in use, 0 when absent
    archive,   \* device_<id>.archived.json
    intent,    \* intent_<id>.json
    bridge,    \* Bridge and its BridgedDevices
    syncs,     \* newDevice events whose turn in the queue has not come
    job,       \* what holds the exclusive queue across an await
    placed,    \* entries that came to count for an appliance unnoticed: see FollowsPolicy
    faults,    \* faults so far
    saved      \* history: the registration last written for an appliance

vars == <<present, closing, entry, released, live, archive, intent, bridge,
          syncs, job, placed, faults, saved>>

files == <<archive, saved>>

policy == <<entry, released, live, intent, present>>

Link == [id : Ids, key : Keys, phase : {"fetching", "opening", "up"}, dead : BOOLEAN]

Bridges == [map : [Ids -> BridgedDevice \cup {NoBridge}], links : SUBSET Link,
            restarted : SUBSET Ids]

NoJob == [op |-> "idle", at |-> None, id |-> None, dev |-> None, todo |-> {}]

Job == [op : {"idle", "enable", "disable", "release", "renew", "cycle", "restoring"},
        at : Entries \cup {None}, id : Ids \cup {None}, dev : Devs \cup {None},
        todo : SUBSET Entries]

TypeOK ==
    /\ present \in [Ids -> Devs \cup {None}]
    /\ closing \in SUBSET (Thinq1 \X Devs)
    /\ entry \in [Entries -> Entry \cup {Unlisted}]
    /\ released \in SUBSET Entries
    /\ live \in [Ids -> 0..MaxRegs]
    /\ archive \in [Ids -> 0..MaxRegs]
    /\ intent \in [Ids -> {"unset", "on", "off"}]
    /\ bridge \in Bridges
    /\ syncs \in SUBSET Ids
    /\ job \in Job
    /\ placed \in 0..MaxPlaced /\ faults \in 0..MaxFaults
    /\ saved \in [Ids -> 0..MaxRegs]

-----------------------------------------------------------------------------
\* What Bridge reads when it decides; an action changes it before Bridge runs.
World == [entry |-> entry, released |-> released, live |-> live,
          intent |-> intent, present |-> present]

Becomes(w) ==
    /\ entry' = w.entry /\ released' = w.released /\ live' = w.live
    /\ intent' = w.intent /\ present' = w.present

\* BridgePolicy.entry(): the linked entry, else the unlinked one at the address
\* of the connected appliance (a ThinQ1 device has no sourceIp).
LinkedTo(w, id) == {e \in Entries : w.entry[e] # Unlisted /\ w.entry[e].linked = id}

AtAddress(w, id) ==
    {e \in Entries :
        /\ w.entry[e] # Unlisted /\ w.entry[e].linked = None
        /\ w.entry[e].auto /\ w.entry[e].addr = id
        /\ w.present[id] # None /\ id \notin Thinq1}

EntryOf(w, id) == IF LinkedTo(w, id) # {} THEN LinkedTo(w, id) ELSE AtAddress(w, id)

Mode(w, id) == IF \E e \in EntryOf(w, id) : w.entry[e].mode = "dnat" THEN "dnat" ELSE "local"

Forwarding(w, id) ==
    \E e \in EntryOf(w, id) :
        w.entry[e].mode = "dnat" /\ w.entry[e].desired = "on" /\ e \notin w.released

Wanted(w, id) ==
    \/ Mode(w, id) = "dnat" /\ Forwarding(w, id)
    \/ Mode(w, id) = "local" /\ w.intent[id] = "on"
    \/ Mode(w, id) = "local" /\ w.intent[id] = "unset" /\ w.live[id] # 0

-----------------------------------------------------------------------------
\* BridgedDevice and its Connection, as functions from one bridge to the next.

Runs(b, id) == b.map[id] # NoBridge /\ ~b.map[id].destroyed

LinkOf(b, id) == {l \in b.links : b.map[id] # NoBridge /\ l.id = id /\ l.key = b.map[id].conn}

\* Connection.destroy(): the socket is gone at once; a ThinQ1 connection that is
\* still waiting for the gateway's answer only notices when the answer comes.
Destroyed(b, id) ==
    (b.links \ LinkOf(b, id))
        \cup {[l EXCEPT !.dead = TRUE] : l \in {x \in LinkOf(b, id) : x.phase = "fetching"}}

NewLink(id, c) ==
    IF c = None THEN {}
    ELSE {[id |-> id, key |-> c, phase |-> IF id \in Thinq1 THEN "fetching" ELSE "opening",
           dead |-> FALSE]}

\* Objects that nothing refers to any more.
FreshDev(id) ==
    {n \in Devs : /\ n # present[id] /\ <<id, n>> \notin closing
                  /\ bridge.map[id] # NoBridge => bridge.map[id].dev # n
                  /\ job.id = id => job.dev # n}

\* reconnectNow(): c is the connection made, None when connect() threw.
Connect(b, id, c) ==
    LET m == [b.map[id] EXCEPT !.conn = c, !.timer = (c = None), !.connected = FALSE] IN
    [b EXCEPT !.map[id] = m, !.links = b.links \cup NewLink(id, c)]

Disconnect(b, id) ==
    LET m == [b.map[id] EXCEPT !.conn = None, !.timer = TRUE, !.connected = FALSE] IN
    [b EXCEPT !.map[id] = m, !.links = Destroyed(b, id)]

\* BridgedDevice.destroy(), called when the appliance's connection closes.
Destroy(b, id) ==
    LET m == [b.map[id] EXCEPT !.conn = None, !.timer = FALSE, !.destroyed = TRUE,
                               !.connected = FALSE]
    IN [b EXCEPT !.map[id] = m, !.links = Destroyed(b, id)]

\* Bridge.#stop(): the generation moves on even when nothing was running.
Stop(b, id) ==
    [map |-> [b.map EXCEPT ![id] = NoBridge], links |-> Destroyed(b, id),
     restarted |-> b.restarted \cup {id}]

AttachedToAny(b, id, dev) == b.map[id] # NoBridge /\ dev \in Devs

Attached(b, id, dev) == b.map[id] # NoBridge /\ b.map[id].dev = dev

StartUnregistered(w, b, id, dev, c) ==
    IF ~Wanted(w, id) \/ Attached(b, id, dev) THEN b
    ELSE Connect([Stop(b, id) EXCEPT !.map[id] =
                     [dev |-> dev, reg |-> w.live[id], destroyed |-> FALSE,
                      conn |-> None, timer |-> FALSE, connected |-> FALSE]], id, c)

\* Bridge.#start() and BridgedDevice's constructor.
Start(w, b, id, dev, c) ==
    LET stopped == Stop(b, id) IN
    IF ~Wanted(w, id) \/ Attached(b, id, dev) THEN b
    ELSE IF w.live[id] = 0 THEN stopped
    ELSE Connect([stopped EXCEPT !.map[id] =
                     [dev |-> dev, reg |-> w.live[id], destroyed |-> FALSE,
                      conn |-> None, timer |-> FALSE, connected |-> FALSE]], id, c)

StartPresent(w, b, id, c) ==
    IF w.present[id] = None THEN b ELSE Start(w, b, id, w.present[id], c)

\* Bridge.reconcile()
Reconcile(w, b, id, c) ==
    IF Wanted(w, id) THEN StartPresent(w, b, id, c) ELSE Stop(b, id)

\* Bridge.disable() once the switch is saved.
SwitchOff(w, id) == [w EXCEPT !.intent[id] = "off"]

\* What a connect() may give: an object no socket belongs to, or a failure.  Two
\* appliances never refer to the same object, and nothing compares theirs.
Conns == {c \in Keys \cup {None} : \A l \in bridge.links : l.key # c}

-----------------------------------------------------------------------------
\* Appliances: DeviceManager.accept() and the events it passes on.

Idle == job.op = "idle"

Fault == faults < MaxFaults /\ faults' = faults + 1

\* A ThinQ2 acceptor closes the connection it replaces first; the socket of a
\* replaced ThinQ1 connection closes later.
Accept(id, n, c) ==
    LET w == [World EXCEPT !.present[id] = n]
        replaced == present[id] # None
        b == IF replaced /\ id \notin Thinq1 THEN Stop(bridge, id) ELSE bridge
    IN
    /\ n \in FreshDev(id)
    /\ present' = w.present
    /\ closing' = IF replaced /\ id \in Thinq1 THEN closing \cup {<<id, present[id]>>} ELSE closing
    /\ bridge' = Start(w, b, id, n, c)
    /\ syncs' = syncs \cup {id}
    /\ UNCHANGED <<entry, released, live, intent, files, job, placed, faults>>

Closed(id) ==
    /\ present[id] # None
    /\ present' = [present EXCEPT ![id] = None]
    /\ bridge' = Stop(bridge, id)
    /\ UNCHANGED <<closing, entry, released, live, intent, files, syncs, job, placed, faults>>

\* DeviceManager ignores a device it has replaced; its BridgedDevice does not.
LateClose(id, n) ==
    /\ <<id, n>> \in closing
    /\ closing' = closing \ {<<id, n>>}
    /\ bridge' = IF Attached(bridge, id, n) THEN Destroy(bridge, id) ELSE bridge
    /\ UNCHANGED <<present, entry, released, live, intent, files, syncs, job, placed, faults>>

Appliance ==
    \E id \in Ids :
        \/ \E n \in Devs, c \in Conns : Accept(id, n, c)
        \/ Closed(id)
        \/ \E n \in Devs : LateClose(id, n)

-----------------------------------------------------------------------------
\* The upstream connections.

Moves(l, phase) == (bridge.links \ {l}) \cup {[l EXCEPT !.phase = phase]}

FetchAnswersAnyway(l) ==
    /\ l.phase = "fetching"
    /\ bridge' = [bridge EXCEPT !.links = Moves(l, "opening")]

\* start() goes on after the gateway's answer, unless it was destroyed meanwhile.
FetchAnswers(l) ==
    /\ l.phase = "fetching"
    /\ bridge' = [bridge EXCEPT !.links = IF l.dead THEN bridge.links \ {l} ELSE Moves(l, "opening")]

FetchFailsSilently(l) ==
    /\ l.phase = "fetching"
    /\ bridge' = [bridge EXCEPT !.links = bridge.links \ {l}]

\* fail() says "error" and "close", so that BridgedDevice tries again.
FetchFails(l) ==
    /\ l.phase = "fetching"
    /\ bridge' = IF l.dead THEN [bridge EXCEPT !.links = bridge.links \ {l}]
                 ELSE LET d == Disconnect(bridge, l.id) IN
                      [d EXCEPT !.links = bridge.links \ {l}]

LinkUp(l) ==
    /\ l.phase = "opening"
    /\ bridge' = [bridge EXCEPT !.links = Moves(l, "up"), !.map[l.id].connected = TRUE]

\* An error that does not close the connection, or comes before the close.
LinkError(l) ==
    /\ l.phase # "fetching"
    /\ bridge.map[l.id].connected
    /\ bridge' = [bridge EXCEPT !.map[l.id].connected = FALSE]

\* The connection closes, is refused, or a frame cannot be sent or read.
LinkCloses(l) ==
    /\ l.phase # "fetching"
    /\ bridge' = Disconnect(bridge, l.id)

TimerFires(id, c) ==
    /\ Runs(bridge, id) /\ bridge.map[id].timer
    /\ bridge' = Connect(bridge, id, c)

Upstream ==
    /\ \/ \E l \in bridge.links :
              \/ FetchAnswers(l)
              \/ FetchFails(l)
              \/ LinkUp(l)
              \/ LinkError(l)
              \/ LinkCloses(l)
       \/ \E id \in Ids, c \in Conns : TimerFires(id, c)
    /\ UNCHANGED <<present, closing, entry, released, live, intent, files, syncs, job, placed, faults>>

-----------------------------------------------------------------------------
\* Jobs that are done in one turn of the exclusive queue.

Rest == <<closing, job, placed>>

\* RouterConfigStore.linkByIp(), for one or several appliances.
Found(w, id) ==
    {e \in Entries :
        /\ w.entry[e] # Unlisted /\ w.entry[e].linked = None
        /\ w.entry[e].auto /\ w.entry[e].addr = id
        /\ LinkedTo(w, id) = {} /\ id \notin Thinq1}

LinkByIp(w, ids) ==
    [w EXCEPT !.entry = [e \in Entries |->
        IF \E id \in ids : e \in Found(w, id)
        THEN [w.entry[e] EXCEPT !.linked = w.entry[e].addr] ELSE w.entry[e]]]

Connected == {id \in Ids : present[id] # None}

\* RouterAPI.snapshot() links whoever is connected first, and reconciles nobody.  A save
\* may fail at any of them.
Snapshot(w) ==
    \/ Becomes(LinkByIp(w, Connected)) /\ UNCHANGED faults
    \/ \E ids \in SUBSET Connected : Becomes(LinkByIp(w, ids)) /\ Fault

\* The owner looks at the router page, or names were loaded.
Status ==
    /\ Idle
    /\ Snapshot(World)
    /\ UNCHANGED <<bridge, Rest, syncs, files>>

\* RouterAPI's newDevice listener; the appliance may have gone in the meantime.
Sync(id, c) ==
    LET w == LinkByIp(World, {id}) IN
    /\ Idle /\ id \in syncs
    /\ syncs' = syncs \ {id}
    /\ Becomes(w)
    /\ bridge' = Reconcile(w, bridge, id, c)
    /\ UNCHANGED <<Rest, files, faults>>

\* The inventory cannot be saved: it is as before, and nothing is reconciled.
SyncFails(id) ==
    /\ Idle /\ id \in syncs /\ Fault
    /\ Found(World, id) # {}
    /\ syncs' = syncs \ {id}
    /\ UNCHANGED <<policy, bridge, Rest, files>>

\* Local switch: Bridge.enable() and Bridge.disable().
Resume(id, c) ==
    LET w == [World EXCEPT !.intent[id] = "on"] IN
    /\ Idle /\ Mode(World, id) = "local" /\ live[id] # 0
    /\ Becomes(w)
    /\ bridge' = StartPresent(w, bridge, id, c)
    /\ UNCHANGED <<Rest, syncs, files, faults>>

Suspend(id) ==
    /\ Idle /\ Mode(World, id) = "local"
    /\ Becomes(SwitchOff(World, id))
    /\ bridge' = Stop(bridge, id)
    /\ UNCHANGED <<Rest, syncs, files, faults>>

RestoreAlways(id, c) ==
    LET w == [World EXCEPT !.live[id] = archive[id]] IN
    /\ Idle /\ archive[id] # 0
    /\ Becomes(w)
    /\ bridge' = IF Wanted(w, id) THEN StartPresent(w, bridge, id, c) ELSE bridge
    /\ UNCHANGED <<Rest, syncs, files, faults>>

\* Bridge.restore(): a registration made since the archive was taken wins.
Restore(id, c) ==
    LET w == [World EXCEPT !.live[id] = archive[id]] IN
    /\ Idle /\ live[id] = 0 /\ archive[id] # 0
    /\ Becomes(w)
    /\ bridge' = IF Wanted(w, id) THEN StartPresent(w, bridge, id, c) ELSE bridge
    /\ UNCHANGED <<Rest, syncs, files, faults>>

-----------------------------------------------------------------------------
\* Edits of the inventory.  requireOff() asks the router first; here it is only
\* known that the entry must not be meant to be on.

IsOff(e) == entry[e] # Unlisted /\ entry[e].desired # "on"

Linked(e) == entry[e].linked

\* An appliance that loses its entry falls back to the one at its address, if there is one,
\* and nothing reconciles its bridge with that one.
Uncovers(w, id) == id # None /\ LinkedTo(w, id) = {} /\ AtAddress(w, id) # {}

CountPlaced(appears) ==
    IF appears THEN placed < MaxPlaced /\ placed' = placed + 1 ELSE UNCHANGED placed

AddressFree(a) == \A e \in Entries : entry[e] # Unlisted => entry[e].addr # a

Edit(w, b) ==
    /\ Becomes(w)
    /\ bridge' = b
    /\ UNCHANGED <<closing, job, syncs, saved>>

Add(e, a, m) ==
    /\ Idle
    /\ placed < MaxPlaced /\ placed' = placed + 1
    /\ entry[e] = Unlisted /\ AddressFree(a)
    /\ Edit([World EXCEPT !.entry[e] =
                [addr |-> a, linked |-> None, auto |-> TRUE, mode |-> m, desired |-> "unset"]],
            bridge)
    /\ UNCHANGED <<archive, faults>>

\* A new address forgets the appliance, which is then treated as a Local one.
Move(e, a, c) ==
    LET id == Linked(e)
        moved == [World EXCEPT !.entry[e] =
                     [entry[e] EXCEPT !.addr = a, !.linked = None, !.auto = TRUE]]
        w == SwitchOff(moved, id)
    IN
    /\ Idle
    /\ placed < MaxPlaced /\ placed' = placed + 1
    /\ IsOff(e) /\ AddressFree(a)
    /\ IF id = None THEN Edit(moved, bridge)
       ELSE Edit(w, Reconcile(w, Stop(bridge, id), id, c))
    /\ UNCHANGED <<archive, faults>>

ChangeMode(e, m, c) ==
    LET id == Linked(e)
        w == [World EXCEPT !.entry[e].mode = m]
    IN
    /\ Idle /\ IsOff(e) /\ entry[e].mode # m
    /\ Edit(w, IF id = None THEN bridge ELSE Reconcile(w, bridge, id, c))
    /\ UNCHANGED <<archive, placed, faults>>

\* The appliance that was linked before loses its switch.
LinkTo(e, id, c) ==
    LET previous == Linked(e)
        other == previous \notin {None, id}
        linked == [World EXCEPT !.entry[e] = [entry[e] EXCEPT !.linked = id, !.auto = TRUE]]
        w == IF other THEN SwitchOff(linked, previous) ELSE linked
        b == IF other THEN Stop(bridge, previous) ELSE bridge
    IN
    /\ Idle /\ entry[e] # Unlisted
    /\ other => IsOff(e)
    /\ present[id] # None
    /\ LinkedTo(World, id) \subseteq {e}
    /\ Edit(w, Reconcile(w, b, id, c))
    /\ CountPlaced(other /\ Uncovers(w, previous))
    /\ UNCHANGED <<archive, faults>>

\* disable() comes first: it stays done when the inventory cannot be saved.
Unlink(e) ==
    LET id == Linked(e)
        off == IF id = None THEN World ELSE SwitchOff(World, id)
        w == [off EXCEPT !.entry[e] = [entry[e] EXCEPT !.linked = None, !.auto = FALSE]]
        b == IF id = None THEN bridge ELSE Stop(bridge, id)
    IN
    /\ Idle /\ IsOff(e)
    /\ \/ Edit(w, b) /\ CountPlaced(Uncovers(w, id)) /\ UNCHANGED faults
       \/ Edit(off, b) /\ Fault /\ UNCHANGED placed
    /\ UNCHANGED archive

\* archiveDeviceState() writes the copy, and only then removes the original.
Archived(id) == IF live[id] = 0 THEN archive ELSE [archive EXCEPT ![id] = live[id]]

Discarded(w, id) == SwitchOff([w EXCEPT !.live[id] = 0], id)

\* A slot stands for a new entryId when it is used again.
Remove(e) ==
    LET id == Linked(e)
        off == IF id = None THEN World ELSE Discarded(World, id)
        w == [off EXCEPT !.entry[e] = Unlisted, !.released = released \ {e}]
        b == IF id = None THEN bridge ELSE Stop(bridge, id)
    IN
    /\ Idle /\ IsOff(e)
    /\ archive' = IF id = None THEN archive ELSE Archived(id)
    /\ \/ Edit(w, b) /\ CountPlaced(Uncovers(w, id)) /\ UNCHANGED faults
       \/ Edit(off, b) /\ Fault /\ UNCHANGED placed

Turn ==
    \/ Status
    \/ \E e \in Entries, id \in Ids, c \in Conns :
           \/ Sync(id, c) \/ SyncFails(id)
           \/ Resume(id, c) \/ Suspend(id) \/ Restore(id, c)
           \/ \E m \in {"dnat", "local"} : ChangeMode(e, m, c)
           \/ \E a \in Ids \cup Elsewhere :
                  Move(e, a, c) \/ \E m \in {"dnat", "local"} : Add(e, a, m)
           \/ LinkTo(e, id, c) \/ Unlink(e) \/ Remove(e)

-----------------------------------------------------------------------------
\* Jobs that wait, for the router or for the cloud.

Wait(op, e) == job' = [NoJob EXCEPT !.op = op, !.at = e]

Still == <<closing, syncs, placed>>

ReconcileOnlyStarting(w, e, c) ==
    IF Linked(e) = None \/ ~Wanted(w, Linked(e)) THEN bridge ELSE Reconcile(w, bridge, Linked(e), c)

\* The linked appliance, if any, is reconciled.
ReconcileLinked(w, e, c) ==
    IF Linked(e) = None THEN bridge ELSE Reconcile(w, bridge, Linked(e), c)

Managed(e) == entry[e] # Unlisted /\ entry[e].mode = "dnat"

StartEnable(e) ==
    /\ Idle /\ Managed(e)
    /\ Wait("enable", e)
    /\ UNCHANGED <<policy, bridge, Still, files, faults>>

EnableDone(c) ==
    LET e == job.at
        w == [World EXCEPT !.entry[e].desired = "on", !.released = released \ {e}]
    IN
    /\ job.op = "enable"
    /\ bridge' = ReconcileLinked(w, e, c)
    /\ Snapshot(w)
    /\ job' = NoJob
    /\ UNCHANGED <<Still, files>>

StartDisable(e) ==
    /\ Idle /\ entry[e] # Unlisted
    /\ Wait("disable", e)
    /\ UNCHANGED <<policy, bridge, Still, files, faults>>

\* Forwarding stops once the rules are gone, even if that cannot be saved.
DisableDone(c) ==
    LET e == job.at
        w == [World EXCEPT !.released = released \cup {e}]
    IN
    /\ job.op = "disable"
    /\ bridge' = ReconcileLinked(w, e, c)
    /\ \/ Snapshot([w EXCEPT !.entry[e].desired = "off"])
       \/ Becomes(w) /\ Fault
    /\ job' = NoJob
    /\ UNCHANGED <<Still, files>>

\* All entries are latched before the first one is waited for.
StartRelease ==
    LET entries == {e \in Entries : Managed(e)} IN
    /\ Idle /\ entries # {}
    /\ Becomes([World EXCEPT !.released = released \cup entries])
    /\ job' = [NoJob EXCEPT !.op = "release", !.todo = entries]
    /\ UNCHANGED <<bridge, Still, files, faults>>

ReleaseOne(e, c) ==
    /\ job.op = "release" /\ e \in job.todo
    /\ bridge' = ReconcileLinked(World, e, c)
    /\ job' = IF job.todo = {e} THEN NoJob ELSE [job EXCEPT !.todo = job.todo \ {e}]
    /\ UNCHANGED <<policy, Still, files, faults>>

\* Bridge.renew(): the generation, and the device, are remembered.
StartRenew(id) ==
    /\ Idle /\ present[id] # None
    /\ saved[id] < MaxRegs
    /\ job' = [NoJob EXCEPT !.op = "renew", !.id = id, !.dev = present[id]]
    /\ bridge' = [bridge EXCEPT !.restarted = bridge.restarted \ {id}]
    /\ UNCHANGED <<policy, Still, files, faults>>

RenewDoneKeepingOld(c) ==
    LET id == job.id
        w == [World EXCEPT !.live[id] = saved[id] + 1]
    IN
    /\ job.op = "renew"
    /\ present[id] = job.dev /\ id \notin bridge.restarted
    /\ Becomes(w)
    /\ saved' = [saved EXCEPT ![id] = w.live[id]]
    /\ bridge' = IF Wanted(w, id) THEN Start(w, bridge, id, job.dev, c) ELSE bridge
    /\ job' = NoJob
    /\ UNCHANGED <<Still, archive, faults>>

RenewDoneUnchecked(c) ==
    LET id == job.id
        w == [World EXCEPT !.live[id] = saved[id] + 1]
        b == Stop(bridge, id)
    IN
    /\ job.op = "renew"
    /\ Becomes(w)
    /\ saved' = [saved EXCEPT ![id] = w.live[id]]
    /\ bridge' = IF Wanted(w, id) THEN Start(w, b, id, job.dev, c) ELSE b
    /\ job' = NoJob
    /\ UNCHANGED <<Still, archive, faults>>

RenewDone(c) ==
    LET id == job.id
        w == [World EXCEPT !.live[id] = saved[id] + 1]
        b == Stop(bridge, id)
    IN
    /\ job.op = "renew"
    /\ present[id] = job.dev /\ id \notin bridge.restarted
    /\ Becomes(w)
    /\ saved' = [saved EXCEPT ![id] = w.live[id]]
    /\ bridge' = IF Wanted(w, id) THEN Start(w, b, id, job.dev, c) ELSE b
    /\ job' = NoJob
    /\ UNCHANGED <<Still, archive, faults>>

\* The cloud refuses, the appliance was replaced, or its forwarding changed.
RenewFails ==
    /\ job.op = "renew"
    /\ job' = NoJob
    /\ UNCHANGED <<policy, bridge, Still, files, faults>>

\* DNATReconciler: nothing to do when no entry is to be looked at.
StartCycle ==
    /\ Idle
    /\ \E e \in Entries : Managed(e) /\ e \notin released
    /\ job' = [NoJob EXCEPT !.op = "cycle"]
    /\ UNCHANGED <<policy, bridge, Still, files, faults>>

\* Rules found in place are taken for the owner's wish when none is recorded.
CycleAdopts(adopted) ==
    /\ job.op = "cycle"
    /\ \A e \in adopted : Managed(e) /\ e \notin released /\ entry[e].desired = "unset"
    /\ Becomes([World EXCEPT !.entry = [e \in Entries |->
                   IF e \in adopted THEN [entry[e] EXCEPT !.desired = "on"] ELSE entry[e]]])
    /\ job' = [job EXCEPT !.op = "restoring"]
    /\ UNCHANGED <<bridge, Still, files, faults>>

\* Bridge.reconcileAll(): the appliances do not affect each other.
ReconcileAll(b, conns) ==
    LET each(id) == IF present[id] = None THEN b ELSE Reconcile(World, b, id, conns[id]) IN
    [map |-> [id \in Ids |-> each(id).map[id]],
     links |-> UNION {{l \in each(id).links : l.id = id} : id \in Ids},
     restarted |-> UNION {each(id).restarted : id \in Ids}]

CycleEnds(conns) ==
    /\ job.op = "restoring"
    /\ bridge' = ReconcileAll(bridge, conns)
    /\ job' = NoJob
    /\ UNCHANGED <<policy, Still, files, faults>>

\* A command, or the save after it, fails; what was done before stays done.
JobFails ==
    /\ job.op \in {"enable", "disable", "release", "cycle", "restoring"}
    /\ Fault
    /\ job' = NoJob
    /\ UNCHANGED <<policy, bridge, Still, files>>

Answer ==
    \/ \E c \in Conns :
           \/ EnableDone(c) \/ DisableDone(c) \/ RenewDone(c)
           \/ \E e \in Entries : ReleaseOne(e, c)
    \/ \E adopted \in SUBSET Entries : CycleAdopts(adopted)
    \/ \E conns \in [Ids -> Conns] : CycleEnds(conns)

Waiting ==
    \/ \E e \in Entries : StartEnable(e) \/ StartDisable(e)
    \/ StartRelease \/ StartCycle
    \/ \E id \in Ids : StartRenew(id)
    \/ Answer \/ RenewFails \/ JobFails

-----------------------------------------------------------------------------
\* The process dies: only the files are left.
NoBridges == [map |-> [id \in Ids |-> NoBridge], links |-> {}, restarted |-> {}]

Dies ==
    /\ Fault
    /\ present' = [id \in Ids |-> None]
    /\ closing' = {} /\ released' = {} /\ syncs' = {}
    /\ bridge' = NoBridges
    /\ job' = NoJob
    /\ UNCHANGED <<entry, placed, saved>>

Crash == Dies /\ UNCHANGED <<live, archive, intent>>

\* It dies in the middle of a removal.
CrashWhileRemoving(e) ==
    LET id == Linked(e) IN
    /\ Idle /\ IsOff(e) /\ id # None
    /\ Dies
    /\ archive' = Archived(id)
    /\ \/ UNCHANGED <<live, intent>>
       \/ live' = [live EXCEPT ![id] = 0] /\ UNCHANGED intent
       \/ live' = Discarded(World, id).live /\ intent' = Discarded(World, id).intent

Init ==
    /\ present = [id \in Ids |-> None]
    /\ closing = {} /\ released = {} /\ syncs = {}
    /\ entry \in [Entries -> Entry \cup {Unlisted}]
    /\ \A e, f \in Entries :
           e # f /\ entry[e] # Unlisted /\ entry[f] # Unlisted =>
               /\ entry[e].addr # entry[f].addr
               /\ entry[e].linked = None \/ entry[e].linked # entry[f].linked
    /\ \A e \in Entries : entry[e] # Unlisted /\ entry[e].linked # None => entry[e].auto
    /\ saved \in [Ids -> 0..(IF MaxRegs = 0 THEN 0 ELSE 1)]
    /\ live \in [Ids -> 0..MaxRegs] /\ archive \in [Ids -> 0..MaxRegs]
    /\ \A id \in Ids : live[id] \in {0, saved[id]} /\ archive[id] \in {0, saved[id]}
    /\ \A id \in Ids : saved[id] \in {live[id], archive[id]}
    /\ intent \in [Ids -> {"unset", "on", "off"}]
    /\ bridge = NoBridges
    /\ job = NoJob
    /\ placed = 0 /\ faults = 0

Next == Appliance \/ Upstream \/ Turn \/ Waiting \/ Crash \/ \E e \in Entries : CrashWhileRemoving(e)

Spec == Init /\ [][Next]_vars

\* Requests to the router are answered or fail (that one may hang is in RouterDnat;
\* here the queue would never move again), the queue is first come first served, and
\* the reconciler runs every five minutes.
FairSpec ==
    /\ Spec
    /\ WF_vars(Answer \/ RenewFails)
    /\ SF_vars(StartCycle)
    /\ \A id \in Ids : SF_vars(\E c \in Conns : Sync(id, c))

-----------------------------------------------------------------------------
\* Properties

\* A registration cannot be rebuilt without the appliance (bridge/state.ts): the
\* newest one is in use or in the archive, whatever request fails and wherever
\* the process dies, and an older one never takes its place.
LatestRegistrationKept ==
    \A id \in Ids :
        /\ live[id] \in {0, saved[id]}
        /\ saved[id] \in {live[id], archive[id]}

\* What speaks for the appliance to the cloud is the registration in use.
RunningUsesSaved ==
    \A id \in Ids : Runs(bridge, id) => bridge.map[id].reg = live[id]

\* Commands from the cloud go to the appliance's present connection, also when
\* it was replaced while a request was waiting.
AttachedToPresent ==
    \A id \in Ids :
        Runs(bridge, id) /\ Wanted(World, id) => bridge.map[id].dev = present[id]

\* Two connections for one appliance would keep closing each other: every open
\* socket is the current connection of a running BridgedDevice, and "connected"
\* is shown only for an established one.
OneUpstream ==
    /\ \A l \in bridge.links :
           l.dead \/ (Runs(bridge, l.id) /\ bridge.map[l.id].conn = l.key)
    /\ \A l \in bridge.links : l.dead => l.phase = "fetching"
    /\ \A id \in Ids :
           Runs(bridge, id) /\ bridge.map[id].connected =>
               \E l \in LinkOf(bridge, id) : l.phase = "up"

\* A running BridgedDevice is connecting, connected, or about to try again.
NeverStuck ==
    \A id \in Ids :
        Runs(bridge, id) =>
            IF bridge.map[id].timer THEN bridge.map[id].conn = None
            ELSE \E l \in LinkOf(bridge, id) : ~l.dead

\* Between requests, what runs is what the inventory and the switches ask for.
\* Only a failed save, and an entry that comes to count for an appliance that is
\* already connected, because it is put at its address or was there when the
\* appliance lost its own, leave a bridge as it was.
FollowsPolicy ==
    Idle /\ syncs = {} /\ faults = 0 /\ placed = 0 =>
        \A id \in Ids :
            Runs(bridge, id) <=> (present[id] # None /\ live[id] # 0 /\ Wanted(World, id))

\* The newest registration is never lost, and it is the one in use.
RegistrationsSound == LatestRegistrationKept /\ RunningUsesSaved

\* What runs is what is wanted, and it serves the connection that is there.
RunsWhatIsWanted == AttachedToPresent /\ FollowsPolicy

Held(e, id) == e \in released /\ e \in LinkedTo(World, id) /\ Managed(e)

\* README.md:111: a release keeps the entries off until an explicit Enable or a
\* restart, even when it failed half way.
ReleaseStopsForwarding ==
    \A e \in Entries, id \in Ids :
        Held(e, id) ~> (~Held(e, id) \/ ~Runs(bridge, id))
=============================================================================
