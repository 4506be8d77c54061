# A TLA+ model of rethink

rethink is a local replacement for the cloud of LG ThinQ appliances.  Appliances are led
to it by DNAT rules on the home router, or connect to it directly; it translates their
reports for Home Assistant and can forward them to the manufacturer's cloud.  It is one
Node.js process: there are no data races, but almost every operation is spread over
callbacks and awaits, and appliances, the router, the manufacturer's cloud and the owner
interrupt each other between them.  This directory models that: what state the parts keep,
what one handler or one continuation does to it, and what holds in whatever order they run.

Every definition is translated from the code; `PROJECT.json` names the lines.  A module
with the name `X` is a component, `MCX` instantiates it for TLC (where a configuration
alone does not suffice), and `XProofs` holds the theorems about it; `HandlersProofs` is about
the parts of `MCHandlers`, `AppliancesProofs` about those of `Appliances` and about
`ApplianceRegistry`.  `SequenceLemmas` has facts that they share about sequences without
repetition, about loops over a sequence and about what is behind what in a queue.

## 1. The system

| Part | Code | State | Operations | Hard because of |
| --- | --- | --- | --- | --- |
| Device access policy | `cloud/mqtt-access.ts` | `sessions` per connection, `claims` per appliance | connect, publish, subscribe, deliver, disconnect | the inventory changes behind open connections; the source address is looked up over SSH |
| MQTT broker | `cloud/mqtt-broker.ts` | clients, deferred packets, budgets, retained topics | accept, packets, will, close, shutdown | packets arrive while the decision is pending; every exit must give its budget back |
| Appliance acceptors | `cloud/thinq1/device.ts`, `cloud/thinq2/device.ts` | connection by identifier, provisioning state | deploy, acknowledgement, undeploy, init, close | a replaced ThinQ1 connection closes late; messages come in any order |
| DeviceManager, handler bridge | `cloud/devmgr.ts`, `cloud/ha_bridge.ts` | present devices; handlers, grace timers | newDevice, dropDevice, discovery | the grace timer races the reconnection |
| Home Assistant connection | `cloud/homeassistant.ts` | live properties, retained topics, sweep timers | connect, publish, sweep | retained topics outlive the process |
| Router inventory | `router/config-store.ts`, `management/router-api.ts` | `router-dnat.json`, its memory, the release latch | add, edit, move, link, unlink, remove, on, off, release | a save or a command fails half way; the process dies |
| Rules on the router | `router/dnat-manager.ts`, `router/ssh-client.ts` | iptables rules | status, enable, disable | the router forgets them when it reboots |
| Reconciler | `router/dnat-reconciler.ts` | its timer | adopt, restore | must not undo an Off that runs beside it |
| Cloud bridge | `bridge/index.ts`, `bridge/policy.ts`, `bridge/state.ts`, `bridge/thinq*connection.ts` | registrations and switches on disk, one upstream connection per appliance | enable, disable, restore, renew, reconcile, reconnect | an upstream connection fails at any stage; a renewal waits while appliances come and go |
| LG account | `bridge/index.ts` (`register()`), `bridge/thinqApi.ts` | the cached gateway of a country, the request under way | log in, list, remove, pair, add, reset | answers are lost and requests repeated, while the owner changes the same list |
| Source resolver, SNI router, certificates | `router/mqtt-source.ts`, `cloud/sni_router.ts`, `util/sni-certificates.ts` | bounded pools, queues, caches | request, finish, time out, close | slots must be released on every path |
| Session authority, gateway | `management-gateway/` | sessions, attachments; the tunnel's state | grant, extend, revoke, attach; start, stop | revocation, late saves and eviction race attached sockets |
| Appliance handlers | `cloud/devices/` | properties, questions asked, up to eight timers, meters | reports, commands, polls | the appliance answers late, something else, or not at all; settings and units change at its panel while commands are on the way; mostly tables otherwise |
| Codecs | `util/` | what is kept of a frame between two chunks | split, parse, build | chunks end anywhere; one chunk may hold messages behind the one that ends the connection |
| Locale, configuration, tools, pages | `util/`, `tools/`, `scripts/`, `html/` | none or local | pure functions, display | not concurrent |

**How they interact.**  An appliance connects to the broker (ThinQ2) or to the ThinQ1
acceptor.  The broker asks the access policy whether the connection may speak and listen;
the policy reads the router inventory.  An acceptor that has identified an appliance hands
a `Device` to the DeviceManager, which tells, in this order, the handler bridge, the cloud
bridge and RouterAPI.  RouterAPI links the inventory entry with the appliance's address and
reconciles the cloud bridge, in the one exclusive queue that all requests of the owner and
the reconciler also take their turn in.  The cloud bridge reads the inventory to decide
what to forward.

**What makes each part correct.**

* Policy: no connection speaks or listens for an appliance that belongs to another entry;
  the rightful owner is never locked out; nothing survives a close.
* Inventory and rules: what was switched off is not forwarded and never comes back by
  itself; what is wanted comes back after a reboot; no rule is left that nothing can remove.
* Acceptors and handlers: at most one registration for an appliance and all three
  components agree on it; only the handler in charge polls; an appliance that is connected
  is available, one that stays away is dropped.
* Cloud bridge: one upstream connection, for the present device with the present
  registration; it is always retried; the newest registration is never lost; what runs is
  what is wanted.
* LG account: a registration that preserves takes nothing away; a repeated request does not make it
  fail; the cloud that watches a ThinQ1 appliance has its newest report.
* Broker: deferred packets are replayed in order or not at all; budgets return to zero.
* Home Assistant connection: orphans, and only orphans, are swept.
* Pools and SNI router: never more than the allowed jobs, no slot lost or given back twice, every
  waiter answered.
* Sessions: nothing attached survives a revocation; renewal never revives a revoked one.
* Handlers: an appliance that answers is announced in the end; it is shown as unavailable
  when, and only when, it does not answer; polling follows what the appliance does; what is shown
  is the newest record of the appliance, in the unit it stands in; what the owner set is what
  happens; energy totals never fall and nothing is counted twice.

## 2. Plan

| # | Module | What it composes | State |
| --- | --- | --- | --- |
| 1 | `DeviceAccess` | policy, the broker's calls of it, the inventory | done, safety proved |
| 2 | `RouterDnat` | inventory, file, rules, jobs, reconciler | done, Off and rules proved |
| 3 | `ApplianceRegistry` | both acceptors, DeviceManager, handler bridge | done, safety proved |
| 4 | `BridgeForwarding` | cloud bridge, registrations, upstream connections, the queue | done, safety proved |
| 5 | `MqttBroker` | pending decisions, deferral, budgets, retained topics; implements `AdmissionGate` | done, safety and refinement proved |
| 6 | `SessionAuthority` | sessions, logins, renewals, upgraded connections, eviction | done, safety proved |
| 7 | `TlvHandler` | TLVDevice and the air conditioners' start, polling and availability | done, safety proved |
| 8 | `SniCertificates`, `SourceLookups` | the two pools of slow jobs; both implement `BoundedPool` | done, safety and both refinements proved |
| 9 | `SniRouter` | connections on port 443 and the limit on those being read | done, safety proved |
| 10 | `HaConnection` | discovery, live properties, retained topics and the sweep | done, safety proved |
| 11 | `MonitorLoop` | the ThinQ1 handlers that have to ask for everything | done, safety proved |
| 12 | `RacClimate`, `PacClimate` | what two families of air conditioners remember and write back | done, safety proved |
| 13 | `EnergyTotals` | meters over restarts, the outdoor unit several heads share | done, safety proved |
| 14 | `Laundry`, `Fridges` | records, models and units of sixteen laundry models and eight refrigerators | done, safety proved |
| 15 | `Thinq1Stream`, `TlvRecords` | frames of a ThinQ1 appliance from its socket to its Device; records of ThinQ2 appliances | done, safety proved |
| 16 | `LgAccount`, `CloudReports` | registering an appliance with LG's service; what the cloud is told of a ThinQ1 appliance | done, safety proved |
| 17 | `FridgeStats` | the door and energy statistics of 2RES2VE300UA2 | left |
| 18 | gateway.py, JSON splitter, packet codec | the life of the tunnel; what else is put into bytes and read from them | left |

Parts that share no state are put into one run: `MCAccess`, `MCServices`, `MCHandlers`,
`MCAppliances` and `MCBridgeForwardingThinq2` put several modules together, and `part` says which
of them moves.  Their properties are conjunctions of one named property of each part; `Services`
states those of sessions, broker, certificates, SNI router and lookups for any instance, and
`Appliances` those of the air conditioners, meters, laundry, refrigerators, streams and records.

Abstract specifications: `AdmissionGate` and `BoundedPool` are written and shown to be
implemented.  Worth stating beside them: an *owner registry* (each appliance has at most one
owner) that `DeviceAccess` implements, and an *intent register* (the forwarding of an entry
follows the last acknowledged request) that `RouterDnat` implements.

Theorems worth proving next: that `DeviceAccess` and `RouterDnat` implement these two, once they are
written, and the safety of 17 and 18.

## 3. The modules

### DeviceAccess

Variables: `inventory` (what the policy reads), `sessions` and `claims` (its two maps), and
the broker's clients with their state, their will and the lookup they wait for.  Actions:
`Connect`, `ConnectAppliance`, `ConnectDiagnostic`, `LateAnswer`, `Publish`, `Subscribe`,
`ServerPublish`, `Close`, and one action for each edit of the inventory.  `Bind` is `bind()`
with everything it does: pruning of stale claimants, the conflict test, the identity.

Abstractions.  The decision of a connection and its admission are one step after the lookup
has been answered, because only a microtask lies between them.  Reasons for a refusal that
have nothing to do with ownership (TLS, password, names) are one nondeterministic refusal.
The edits are a superset of what RouterAPI allows: its precondition that DNAT be off belongs
to `RouterDnat`.  The initial inventory is any a hand-edited file may hold, duplicate
addresses and identifiers included, except that entry identifiers are distinct.

### RouterDnat

Variables: `config` and `disk` (memory and file), `released` (the latch), `rules` (on the
router), `job` (what holds the exclusive queue) and three history variables: `wish`, what was
last acknowledged to the owner, `verified`, what the check at the end of a job read, and
`overlooked`, the rules that were on the router when the check of an edit read "off".  A handler
that talks to the router is a job: every SSH command is a step of its own, so a reboot, a command
that fails, is misread or never ends, a failing save or the death of the process may come between
any two.  Edits with no other SSH command than their check are one step.

What a check of the router says need not be so.  `hasRule()` takes every exit status of
`iptables -C` but 0 for "no rule", and `exec()` takes a channel closed without a status for a 0.
`Read(e, state)` therefore lets the status of an entry be any of the three at the price of a fault,
at the end of an enable or an Off (`VerifyOn`, `VerifyOff`) and in a cycle (`ReadStatus`);
`ChangeMissed` is the same for the check before a rule is added or removed; `Overlook` for
`requireOff()`, which may let an edit in although the rules are there.  Only a connection that
breaks, or a change that is refused, raises an error (`CommandFails`).  `CommandHangs` is a command
that is never answered: it is given no time limit, so it holds the queue until a `Restart`.

Abstractions.  The old PREROUTING copies, the chain and conntrack are left out; so are copies of a
rule beyond the ten that an Off removes.  The two rules of an entry are read in one step, and one
fault is enough to misread both.  The order in which a release or a cycle treats the entries is arbitrary.  `linkByIp()` is not modelled here
but in `BridgeForwarding`; `LinkDevice` covers its effect on the rules.

### ApplianceRegistry

Variables: the ThinQ1 and ThinQ2 connections and the acceptors' indices, `allDevices`, the
handlers and grace timers of `HA_bridge`, and which handlers still poll.  An event and the
listeners it reaches synchronously are one step.  The socket of a replaced ThinQ1 connection
closes in a later step.  A device object is identified by its appliance, whether its model has
a handler, and a serial number.  An appliance speaks one protocol.  A handler announces its
appliance, and reports it "online", when it is made or later, when the appliance has answered
(`Announce`); what a handler does about an appliance that is connected and silent is left to
`TlvHandler`, so `ConnectedIsAvailable` is about connections only.

### BridgeForwarding

Variables: `present` (DeviceManager), `closing` (replaced ThinQ1 devices whose socket has not
closed), `entry` and `released` (the inventory), `live`, `archive` and `intent` (three files of
each appliance), `bridge` (the map of BridgedDevices, the upstream connections, and which
appliances were stopped since a renewal began), `syncs` (newDevice events that wait for their
turn in the queue) and `job`.  `Start`, `Stop`, `Reconcile`, `Connect`, `Disconnect` and
`Destroy` are functions from one bridge to the next, so that a handler that stops one appliance
and reconciles another is their composition in one step, as it is in the code: between the
awaits on the router or the cloud everything runs without interruption, because the queue of
`Bridge.serialize()` is always empty when a job of the exclusive queue gets there.
`snapshot()` writes: every status request, and every On or Off in its answer, first links the
connected appliances with the entries at their addresses (`Snapshot`, `Status`); it reconciles no
bridge, and it fails at any of these when a save does.  That nothing more is needed is a part of
what `FollowsPolicy` asks.

`placed` counts the edits after which an entry counts for an appliance that is connected and that
nobody reconciles: an entry that is added or moved to its address, or one that is there already when
the appliance loses the entry it was linked to (`Uncovers`).

Abstractions.  A generation counter is only ever compared with an earlier value of itself, so
it is the set `restarted`.  Registrations are numbers in the order they were made.  An
address is named after the appliance that has it, or is one that no appliance has.  An appliance and its
registration speak the same protocol.  The rules on the router are not here: `requireOff()` is
its test of the intent, and whether an unrecorded rule is adopted is open.  A slot of the
inventory stands for a new entry when it is used again.

### MqttBroker and AdmissionGate

Variables: `conn` (each `Client` with its stream and its deadline), the three budgets
(`pending`, `budget`, `retained` with `retainedBytes`) and `trace`, the history of each
connection.  A handler is a function from one world to the next (`RunPacket`, `DestroyClient`,
`Replay`), because ending one connection may publish its will to all others in the same step, and
admitting one may do several packets: `Replay` is the loop over them, one `RunDeferred` after the
other.  Actions: `AcceptClient`, `Data` (a part of a packet), `ConnectPacket`, `Packet`,
`DisconnectPacket`, the policy's answer (`Admit`, `Refuse`, `DecisionFails`), `ConnectDeadline`,
`Breaks` (the socket is destroyed and has not yet said so), `Closes`, and `PublishOwn` for rethink's
own messages.

`AdmissionGate` is what a connection is promised while it waits: packets that arrive before the
decision are done after it, in order, up to some point.  `DeferredInOrder` says that `MqttBroker`
implements it, with the states "new" and "pending" mapped to "held".

Abstractions.  The policy's answer to a packet is a part of the packet, so that a handler is
deterministic; what a client may read is fixed when it connects (its changes are the subject of
`DeviceAccess`).  A packet counts as one chunk of data; the separate limit on the deferred bytes
is never reached before the one on received bytes, which counts the same packets and the CONNECT
packet as well.  The subscription budgets by number and by length are one.  A message published
by a listener during a publication is a publication of its own.

### SessionAuthority

Variables: `record` (the authority's), `store` and `stored` (the sessions that express-session
keeps, in order of use, and the renewal whose expiry each has), `responses` (requests that have
loaded a session and may still save it), `login` and `tunnel` (logins and upgraded connections
with what they wait for).  `Revoke`, `Look` (whoever looks at an overdue session ends it) and
`Keep` (store.set, with the eviction) are functions from one state to the next; a handler is
their composition.  A login waits three times (password, old session destroyed, new one saved),
an upgrade once (the backend's handshake).

Abstractions.  Hosts, cookies and the password are left out.  A deadline is the flag `overdue`;
the store compares with another clock than the authority, so it may dispose of any session
(`Disposes`).  A new identifier is one that nothing refers to any more.  A tunnel whose client
closed before it was attached stays in the record until the session ends, as in the code.

### TlvHandler

Variables: the appliance's `link`, the `timers` that run (of eight), the `handler`'s flags and
its counter, `asked` (questions that may still be answered), `available` (the retained topic)
and `trace` (history: whether the appliance was last heard active, and polls since it was heard
at all).  An answer may hold capabilities, values, both or neither, whatever was asked, and
may never come.  Actions: an answer or report, a filter answer, one action per timer, a write,
a reset, a discovery, and the appliance coming and going.

Abstractions.  Fields and frames are tables; of their content there remains whether it answers a
question and whether the appliance is active.  Packets sent but not answered are a set, so two
questions of one kind are one.  Fixed-layout reports are never a complete snapshot here, so they
never cancel the query after a write.  Times appear only as order: between the first values and
the configuration lie at most 5.5 seconds, less than two polls, which is a guard of `Poll`.

### BoundedPool, SniCertificates and SourceLookups

`BoundedPool` is what the two pools of slow jobs promise: a job starts while there is a slot,
waits while there is a place and is refused otherwise; who waits starts in order, gives up, or is
dropped with all others.

`SniCertificates`: `task` (the provider's map by host name), `queue`, `active`, `cache`, `closed`
and the handshakes that wait.  Actions: `Issue`, the deadline of a task, the end of its openssl
job (`Generated`, with success or without), `CloseProvider` and its completion (`ClosedAll`).  An
aborted job keeps its slot until openssl has ended.  `FinishTask` is the whole of what the end of a
task does, draining the queue included.

`SourceLookups`: `lookup` (the SSH operation each one waits for, the settings it was asked with),
the number that runs, the queue, and the router's settings and inventory that are edited
meanwhile.  `Cancel` is the abort of the caller and the ten seconds; `Connected`, `SshFails`,
`Executed` and `Ended` are the answers of the SSH client, which gives the slot back only when its
connection has ended.

Abstractions.  Certificates and their keys, the directories openssl works in and what the router
prints are left out: an answer is an address or "denied".  A version of the router's settings
stands for all of them.

### SniRouter

Variables: `pendingPrefaces` and `socket` (the phase of each connection, whether it is settled,
its two timers, and how much of the hello is buffered).  What is done with those bytes is left out.  Actions:
`Accept`, `OnReadable` (bytes arrive; the name is known, not yet known, or never will be), `End`,
errors before and after the decision, the two timers, the upstream socket that connects or fails,
and `Close`.  A hello is a number of chunks.  After the splice the bytes are the kernel's.

### HaConnection

Variables: `haLink`, `retained` (what the broker keeps, of earlier processes too), `deliveries`
(retained messages on their way after a subscription), `memory` (the three maps of the
Connection), `announcer` (the handler of each appliance and its discovery) and `haTrace`.  A
publication without a connection may be lost or queued.  Actions: `Connected`, `Disconnected`,
`HaOnline` (Home Assistant asks for a discovery), the deliveries (`ClearAvailability`,
`ClearIfOrphaned`), the end of a sweep, a new handler, its announcement and publications, its drop,
and the death of the process.  No property is called "availability", which is the topic beside them
(`HaAssumption`).

Abstractions.  Names, languages and the payload of a discovery are reduced to whether
`validateDeviceDiscovery` accepts it.  An entity is its state topic.

### MonitorLoop

The ThinQ1 handlers of the purifier and of the old dehumidifier.  Variables: `loop` (started,
a monitor in flight, the filter asked for), `ticking` (which of four timers are set), `power`
(last, shown, and what the appliance is), `acks` (acknowledgements on their way: of the loop's own
requests or of the panel, and whether the window in which they are ignored is open) and `owed` (a
command was sent since the last monitor was started).  One action per timer, answer and command.

### RacClimate and PacClimate

`RacClimate`: the start of the handler (questions, blacklist, filter), what it keeps of the last
frames (raw power and mode, the previous ones, the three remembered settings), `written` (what the
last step wrote back) and the polling interval.  A frame is a sequence of power, mode and setting
entries in any order, read one after the other as `processTLV` does; commands write the raw state
ahead of the appliance.

`PacClimate`: the raw state with the level to return to, what is shown, the timers (`fanOnlyStop`,
`longPower`, `slowAgain`) and the writes of the last step.  The fan level doubles as the long
power switch, and long power and cool power undo each other.

Abstractions.  Both leave out fields that no other field depends on (temperatures, swings, humidity, the
numeric sensors).

### EnergyTotals

Variables: `meter` (an appliance's own and the group's: what is in memory, saved, and shown),
`reading` (OutdoorUnit's map), `heads` (with a handler, and running), `attached` (the publisher)
and `interval` (which of the intervals the appliance measures itself was sent last, and whether it
is still a repeat).  A sample carries the watts, the time since the last one (in intervals, capped)
and whether a save is due.  Energy is counted in units of the smallest reading over the shortest
interval.  `Restart` loses what was not saved.

### Laundry

An appliance (`washer`), its connection and what the handler keeps, the frames under way
(`washerLine`), what is shown and the last command.  The model is a constant of the initial state:
each of the sixteen has the entities it announces (`Config`) and how its record is read
(`Layout`): where the newest record of a pair stands, which values are zeroed, blanked or left as
they are while off, which come in frames of their own.  A handler is one loop over that table.

What is shown is what is retained between two turns of the handler.  Within a turn each entity is a
message of its own, and power comes before the times (`F3L2CYU__.ts:294`, `Hd0C_F.ts:225`): a
subscriber sees OFF beside the old time until the next messages reach it, and for longer if the
connection to the broker breaks there.  `OffHasNoTime` says that no turn ends like that.

Abstractions.  A record is its phase and one value that stands for all others; the values'
encodings are left out, and so is the check of `Hd0C_F` that a button's payload is PRESS.

### Fridges

An appliance with a unit, raw steps of its rooms and a switch (`fridge`), the connection and what
the handler keeps, records and commands under way, what is shown, and `fridgeWanted`, what the
owner set last and nobody changed since.  Conversions between degrees and steps are the code's own
formulas and tables, per model and unit.  The panel may change anything at any time; a command
carries the unit the handler last heard of; 2REF12EJIS__2 sends back its last record with one byte
changed.  As with the laundry, what is shown is what is retained between two turns of the handler: a
new unit is published, in a discovery, ahead of the numbers that belong to it
(`2RES1VE61NFA2.ts:105`), so a subscriber sees the old number beside the new unit in between.

Abstractions.  Two steps of each room; the door, express modes and the like are one switch
("rest").  Events that are shown but not kept (a door warning until midnight) are left out.

### Thinq1Stream

`sent` is what an appliance puts on its connection, `arrived` how much of it was read, `con` the
`Connection` with the splitter's `accum` and `failed`, and `told` what the listeners of the Device
heard.  A byte stands for its frame and its place there, so the length is read from four bytes only
if they are a header; other bytes are read as a length beyond the limit.  One `Data` is the whole
loop of the splitter (`Split`, with `SplitOnce` its body) and the callback of every frame in the chunk:
the first may identify the appliance, be refused by a handler, or end the connection, and the loop goes
on unless it failed.  `End`, `SocketError`, `IdleTimer`, `Replaced` (a newer connection of the
appliance) and `SocketCloses` come between chunks.  Whether the acceptor knows the appliance is one flag;
acknowledgements are left out.

`MessagesInOrder` compares `told` with what was sent, however it was cut into chunks, and
`LittleIsKept` says that the splitter holds the beginning of one frame and nothing else.

### TlvRecords

`Build` and `Parse` of `util/tlv.ts` with the arithmetic of their shifts and masks, both loops as
functions of the number of turns (`BuiltOf`, `ParseOnce`).  `Cut` is a frame that says its record is
shorter than it was built.  `FieldsAreRead` compares what is read with what was built; the run does so
at both sides of every boundary between the four lengths of a value, the theorem for every value.

### LgAccount

Variables: `home` (where the service has the appliance), `platform`, `gateway` (the client's cache
for a country) and `request` (which call of `register()` is under way, its answer, how often it was
repeated).  `Serve` is the service, which may serve a request whose answer is lost (`FetchFails`) and
is then asked again; the continuations `Listed`, `Removed`, `Added`, `Relisted` and `WasReset` take
the next call or fail.  `OwnerChanges` is the owner in LG's app, at any time.  `Restarts` forgets
request and cache.

Abstractions.  The service is external and modelled from the answers the code distinguishes.  The
login is one step that succeeds or fails, and so are the two calls of the pairing.  A request whose
connection failed is not served later.  `BridgeForwarding` sees all of this as one renewal that takes
its time and succeeds or fails.

### CloudReports

`newest` (the Device's last report), `upstream` (the ThinQ1 connection with its last state and
whether the cloud watches), what is on the wire each way, and `cloud`.  A report is a number: only
its age matters.  The cloud starts and stops watching; a connection is lost at any stage and another
one made.  Commands and acknowledgements pass through and are left out.

## 4. The runs

| Run | Instance | Question |
| --- | --- | --- |
| `access` | policy: 2 connections, 2 entries, 2 appliances, 1 diagnostic account; broker: 3 connections, 2 topics, 2 overlapping filters | ownership in any order of connections, lookups, wills and edits; the broker's budgets balance, retained messages reach subscribers |
| `router_dnat` | 2 entries, 2 faults (failures, misreadings, hangs, reboots, restarts) | what was switched off stays off, memory and file agree |
| `router_dnat_restored` | 2 entries, 2 targets, only ThinQ2 appliances, 1 fault, fairness | an edit leaves no rule that its check saw, and the inventory knows all others; wanted rules come back, unless a command hangs, and after the restart then |
| `router_dnat_off` | violation | Off leaves rules of another platform behind |
| `appliance_registry` | 2 ThinQ2 and 2 ThinQ1 connections, 1 appliance of each kind, fairness | the components agree on who is connected; one that stays away is taken offline |
| `bridge` | 1 ThinQ1 appliance, 2 devices, 3 upstream connections, 2 registrations, 1 fault | one upstream connection, current and retried; registrations survive; what runs is what is wanted |
| `bridge_thinq2` | 1 ThinQ2 appliance, 2 addresses, 1 entry added or moved, 2 registrations, 1 fault; 2 ThinQ2 appliances registered from the start, 1 entry, no faults; and 1 of them, 2 entries, of which one has its address and the other is linked to it | renewals attach to the present device; what runs is what is wanted when an entry changes appliance, or an appliance its entry |
| `bridge_release` | violation, fairness | a failed release goes on forwarding |
| `services` | sessions: 3, a store for 2, 1 login, 1 upgraded connection; broker: 2 connections, 1 place, 2 deferred packets; certificates: 4 names, 3 handshakes, 2 slots, 1 place, a cache for 1; SNI router: 3 sockets, 2 being read, a hello of 2 chunks; lookups: 3, 1 slot, 1 place; fairness | places and slots are given back exactly once and in the end; queues keep what they promise; nothing outlives its session |
| `handlers` | 1 air conditioner; 1 purifier; 1 appliance with 2 entities on Home Assistant's broker; 1 appliance registered with LG, 3 repetitions; its cloud: 3 reports, 2 messages on the wire; fairness | an appliance that answers is shown; the loop goes on and reads every command back; what Home Assistant and the cloud are told is true; a registration takes nothing away that is to be preserved |
| `handler_silent` | violation | a silent appliance is shown as available after a discovery |
| `appliances` | RAC: 2 modes, both of which have the jet, frames of 3 entries; PAC: 2 modes, 2 levels, frames of 2; energy: 2 heads, 2 readings, a gap of 1, totals to 3; 16 laundry models, 2 frames under way; 7 models for 8 refrigerators (two differ in nothing modelled), 2 messages under way; ThinQ1 stream: 2 frames of up to 2 bytes behind a header of 4, in any chunks; records: 2 fields, 3 tags, 8 values | messages and fields are read as they were sent; settings are written back exactly when they should be; what is shown is the appliance; totals never fall |

`router_dnat` has the ports of both protocols (those of ThinQ2 are also those of an entry whose
appliance has not shown up, so only ThinQ1 appliances connect in it); `NoOrphanRules` is only asked, and proved, where appliances
of one protocol connect, since the run `router_dnat_off` shows it does not hold otherwise.  A ThinQ2
upstream connection needs no gateway and its library retries by itself, so
the last two instances of `bridge_thinq2` need no upstream objects.

**Why the bounds are enough.**  Ownership is a relation between two connections and at most
two entries: a claim is compared with one other at a time.  A fault matters by where it comes,
so one or two of them at any place reach every partial effect; two are needed for a reboot
followed by a failed restore.  A registry needs two connections of a kind so that one can
replace the other while that is still closing; a closed connection object is used again, so a
replacement can be replaced in turn.  Three serial numbers suffice: a device may be held by the
other connection and by a handler in its grace period while a new one is made.  An upstream
connection can be referred to as the current one, or wait for an answer after it was destroyed; three
objects leave one free.  Two registrations tell an old copy from a new one.  `MaxFaults`, `MaxRegs`, `MaxPlaced` and
`Serials` are the only bounds on counters; identities that nothing refers to any more are used
again, so the number of reconnections is not bounded.  In the broker two deferred packets show
any change of order, a third connection shows a budget that two others have used up, and one
retained topic of two shows a full table.  Three sessions and a store for two show an eviction
while both others are in use; the handler's counter goes to its real limit of three.

For the pools one slot and one place are a full pool with two jobs and refuse the third; the
certificates have two slots so that one can end while another is aborted.  Three sockets with two
places show a full router.  A frame of three entries holds power, mode and a setting in every
order, which is all that the hooks of the air conditioner compare.  With two frames or messages
under way one overtakes nothing (the line is in order) but crosses a command or a reconnection.
Two heads with two readings make the maximum change hands; `MaxTotal` is the only bound that cuts
a run short, and every step of a total is judged by itself.  `MaxWire`, `MaxLine`, `MaxTotal` and
`MaxFrame`/`PacFrame` are the other bounds on counters and inputs of theirs; `MaxFrames` and
`MaxPayload` those of `Thinq1Stream`, `MaxFields` that of `TlvRecords`, `MaxReports` and `MaxOnWire`
those of `CloudReports`.  `MaxRepeats` has the code's value, three.

`FollowsPolicy` says nothing about states after a fault, or after an entry came to count for a
connected appliance unnoticed (`placed`).  The exclusions are real: when a save fails, when an entry
is added or moved to the address of an appliance that is already connected, or when such an appliance
is unlinked from another entry and falls back to the one at its address, nothing reconciles its
bridge until the next cycle of the reconciler.

**Fairness.**  `RouterDnat`: the code does not see to it that an SSH command ends.  `DNATManager`
calls `exec()` without `timeoutMs`, which then sets no timer (`ssh-client.ts:89`), and `connect()`
asks for no keepalive.  A command that is never answered is therefore an action of the model
(`CommandHangs`) which nothing undoes but a restart, and nothing is assumed of who restarts.  A
command that does not hang is answered or fails, so the step of the running job is weakly fair; the
queue is first come first served and the timer periodic, so a cycle that is possible again and again
takes place (strong fairness).  `WantedIsRestored` promises nothing while a command hangs, and the
rules again after the restart that ends it.
`ApplianceRegistry`: a timer fires and a destroyed socket reports its close (weak fairness).
`BridgeForwarding`: the same, without hangs; only the run of a violation uses it, whose
counterexample is one where every command is answered or fails.
`MqttBroker`: the deadline of a connection fires (weak fairness); the policy may never answer.
`TlvHandler`: timers fire (weak fairness; strong for the poll, which is restarted in between),
and an appliance that is asked for the same thing again and again answers at last (strong
fairness).  The last is an assumption about the appliance, under which `AnsweringIsShown` is
asked; the safety properties do without.
`SniRouter`: the two timers fire and a destroyed socket reports its close; `SourceLookups`: the ten
seconds pass and a connection that was ended ends (weak fairness).  `MonitorLoop`: timers fire and
the acknowledgement of the loop's own request arrives; the refresh timer is restarted by every
command, so it is strongly fair while no monitor is in flight.  Nothing assumes that an appliance connects, that
the owner acts, or that a command succeeds.

**What the violations show.**

* `router_dnat_off`: Off removes the ports of the entry's present platform.  The platform
  may change while the rules are in place, and then two rules stay although Off was verified.
* `bridge_release`: when the first command of a release fails, all entries are latched but
  no bridge is reconciled, and the reconciler ignores latched entries.
* `handler_silent`: an appliance that does not answer is reported offline once; a discovery
  reports every handler online, and nothing reports the silent one offline again.

**Other disagreements met while modelling.**  They are not runs of their own; two are stated as
properties that TLC refutes when it is asked.

* `RouterDnat`: a check that fails reads as "no rule" (`dnat-manager.ts:132`).  When that is the check
  of `requireOff()`, the edit is let in and the rules stay on the router with nothing that knows them;
  `NoOrphanRules` says that this is the only way.
* `RouterDnat`: a command that is never answered holds the exclusive queue, and with it every handler
  of the router page and the reconciler, until the process restarts (`ssh-client.ts:89`).
* `SniRouter`: a client that ends after a part of its hello is destroyed, where the comment in
  `onEnd()` leaves it to the local server.
* `HaConnection!DiscoverySweeps`: a discovery while a sweep is under way changes what is live, but
  does not subscribe again, so values already delivered are not looked at once more.
* `EnergyTotals!GroupNeverFalls`: the configuration of a head publishes the group's total without
  saving it, so it may be lower after a restart; "it only ever goes up" holds for an appliance's
  own meter, which is published and saved together.
* `PacClimate`: the long-power timer, once started, is not cancelled by a later command.
* `RacClimate`: a command sets the mode the handler goes by before the appliance has it.  A frame that
  turns nothing and shows first that mode and then the one the appliance is in runs the mode hooks
  twice, so the jet and the energy saving are written twice (`overtaken` in `WrittenBack`); that they
  are written once for a change was found not to hold where two modes have the jet.
* `LgAccount`: a gateway request that fails stays in `Client.gatewayCache` as a rejected promise
  (`thinqApi.ts:144`), so every later login of that country fails until the process restarts.  A
  registration that does not preserve and fails after the removal leaves the appliance in no home.
* `Fridges`: a command before the first record is taken in Celsius whatever the unit; two commands
  to 2REF12EJIS__2 in a row copy the same record, so the second takes the first back.
  `SettingsAreKept` excludes both by what it counts as wanted.
* `Laundry`: RV13U6 and T1789EFH read the first record of a pair, and the comment of RH16KR says
  the second is the newest.
* `HaConnection`: if the broker loses its retained messages, values that do not change are not
  published again.

## 5. Proofs

`DeviceAccessProofs` proves for every instance of `DeviceAccess` (any sets of connections,
entries, appliances and addresses): `TypeOK`, `SessionsMatchClaims`, `SingleOwner`,
`LinkedOwnerAdmitted`, `ClosedLeavesNothing` and the action property `IdentityStable`.

The argument.  `SessionsMatchClaims` (a connection is in a claim exactly when its session says
so, and with the same entry) is not inductive alone: `bind()` walks over the claimants, and a
connection whose session was refreshed in the meantime could be in two claims.  The inductive
invariant `IInv` adds that a connection that is not active has no session, that only active
connections have a will waiting, and that the owner of a will is an identified appliance.  The
step lemmas follow the code: what `Refresh` does to one session, `Prune` to a claim, `Bind` to
both maps, and `DropClaim` at a close; each action of `Next` is then a case of its own.
`SingleOwner` and `LinkedOwnerAdmitted` follow from `IInv` without another induction, because
both ask only what `Bind` and `MayDeliver` answer in one state.

`BridgeForwardingProofs` proves for every instance of `BridgeForwarding`: `TypeOK`,
`LatestRegistrationKept`, `RunningUsesSaved`, `OneUpstream`, `NeverStuck` and `RunsWhatIsWanted`.  It assumes
`BridgeAssumption` (the bounds are numbers and `None` is no identifier or object) and
`AbsentAssumption` (an unlisted slot is no entry, "no bridge" is no BridgedDevice).

The argument.  `OneUpstream` and `NeverStuck` speak of the sockets of all appliances; they are
proved one appliance at a time.  `GoodAt` relates a BridgedDevice to the set of its own sockets,
and `Good(b)` says it of every appliance; each of `Stop`, `Connect`, `Start`, `Reconcile` and a
given-up or moved socket keeps `Good` and touches no other appliance, so a handler that composes
several of them keeps it too.  `Good` adds to the two properties that two sockets of an
appliance have different keys, without which a late answer could be taken for the current one.
`RunningUsesSaved` needs `UsesLive` for all appliances (also those a handler does not touch).
`LatestRegistrationKept` needs `ArchiveIsReal` (an archive exists only for an appliance that was
registered) and `JobHolds`: what a waiting job looked at, the entry of an enable or disable and
the device of a renewal, is still there when its answer comes, because all edits take turns
in the queue.

`RunsWhatIsWanted`, which is `AttachedToPresent` and `FollowsPolicy`, is proved by a second
invariant on top of the first, `Settled`.  Of every state it says (`Serves`) that no two entries have
an address or an appliance in common, and that a BridgedDevice that runs serves the present device,
unless it is the bridge of a ThinQ1 appliance whose entry a release has just latched; and
(`ClosingIsOld`) that a replaced device is never the present one, so its late close ends no bridge
that is needed.  While no fault and no `placed` has happened, each appliance is either as it is wanted
or somebody waits to see to it (`Settles`): its newDevice event in the queue, the reconciler after its
adoptions, or the release that still has its entry to do.  An unlinked entry at the address of a
connected appliance means that the event is still in the queue, which is why the linking in
`snapshot()` changes nothing that a bridge follows.  Most requests change one entry and reconcile
the appliances they name; `EditSettled` says once what such an edit has to do, and each request is
a case of it.

The last section of `AppliancesProofs` proves for every instance of `ApplianceRegistry`: `TypeOK`,
`OneRegistration`, `OnlyHandlerInChargePolls` and `ConnectedIsAvailable`.  It assumes
`RegistryAssumption` (connections and identifiers of the two platforms are different, `None` is
neither) and `NoDeviceAssumption`.

The argument.  Every event takes a connection its device object (`DroppedGood`), or gives one a
device object that nothing refers to (`IndexedGood`), or both in that order.  Each keeps `Good`,
which relates the maps to the device objects of the connections.  `Good` adds to the properties
that two connections never have the same device object, without which the late close of a replaced
connection could clear its replacement; that a handler is filed under the appliance it is for; and
that what was announced is online, also while its connection is gone.

The runs check conjunctions of these: `ClaimsSound` and `OwnersServed` of the policy,
`HandlerInCharge` of the handlers and `RegistrationsSound` and `RunsWhatIsWanted` of
the cloud bridge.  `ClaimsAreSound`, `OwnersAreServed`, `ChargeIsKept`, `RegistrationsAreSound` and
`RunningIsWanted` state them as theorems.

`RouterDnatProofs` proves for every instance of `RouterDnat`: `TypeOK`, `OffIsKept` and the action
property `OffStaysOff`.  It assumes `DnatAssumption` and `UnlistedAssumption` (an unlisted slot is
no entry).

The argument.  A job waits for SSH between its steps, so what it read may be old; but edits wait
for the job, so what it is about is still listed, and its latch is still set (`JobGood`).  An Off is
remembered in up to three places: the saved intent, the latch of a release, and what was verified
on the router; `HistoryGood` says which of them covers which wish.  A fault may undo one of them in
the middle of a job and never both; a check misread as "off" sets the latch without need, and only
the save of an enable lifts one.  A rule is only added by an enable or a restoration, both of which
are about entries whose wish is none; that no other entry has that rule follows from distinct
addresses, which is why `TypeOK` says so.

`NoRuleIsOrphaned` states `NoOrphanRules` for ThinQ2 appliances, as the run does: what rules an entry
has depends on the platform of its appliance, and `router_dnat_off` shows that they outlive a change
of it.  It says that a rule the inventory cannot remove is one that the check of some edit misread
(`overlooked`): `Overlook` adds exactly what that edit should have been refused for, and neither
another misread check, nor a change that was missed, nor an unpinned key, under which nothing is
checked at all, leaves one behind.  Its invariant, `RulesGood`, also says that only entries in "dnat"
mode have rules that were not overlooked, or have a job about to add any (`OnlyManagedHaveRules`):
without a pinned key `requireOff()` looks at the mode instead of the router, and would otherwise let
an entry go whose rules are still there.

`ServicesProofs` is about the five parts of `Services`, each of which is proved alone:

* Sessions (`SessionsAgree`, under `SessionAssumption`), for any numbers of sessions, logins and
  upgraded connections and any capacity of the store.  The handlers are functions from one state to
  the next, and so is the proof: `Revoke`, `Look` and `Keep` keep `GoodAuthority`, and a handler that
  composes several keeps it too.  While a session is granted or renewed the store lags behind the
  record, so the lemmas speak of states that are sound except for one session (`SoundBut`); the
  eviction of the full store then revokes another one, or that one.
* The SNI router (`PlacesBalance`, under `SniAssumption`: connections are
  finite).  A connection counts exactly while it is not settled, which is while it is peeked at and
  has its timer (`SocketGood`).  One lemma says that the count stays right for every change of one
  connection that settles it, leaves it, or begins it; each action is one of the three.
* Lookups (`LookupSlotsBalance`, the action property `AnswersAreCurrent`, and that `SourceLookups`
  implements `BoundedPool`, under `LookupAssumption`).  The invariant speaks of the state that
  `finish()` and the release of a slot map to a good one: the number of active lookups is that of
  those talking to the router, who is in the queue waits and is unanswered, and the queue is empty
  unless all slots are held.  Each action is then a step of the pool or a stutter: a request starts
  or queues, the end of an operation hands its slot to the head of the queue, the abort of one that
  waits gives up, and the abort of one that runs is not yet a step of the pool, because its slot
  comes back only when SSH has ended.
* Certificates (`TaskSlotsBalance`, `WaitersHaveTask`, `ClosedIsEmpty`, `AbortedIsNotKept`, and that
  `SniCertificates` implements `BoundedPool`, under `CertificateAssumption`).  `active` counts the
  tasks that run, every task runs or is in the queue once, and what is cached has no task any more
  (`CertSound`).  The end of a task frees its slot before it drains the queue, and in between a slot
  is free while a job waits; so `CertGood`, which excludes that, is shown of a state from `CertSound`
  of the one before the draining.
* The broker, in `MqttBrokerProofs`; see below.

`SlotsBalanceAlways`, `ServicesTypeCorrect` and `PromisesAreKept` put the parts together.

`MqttBrokerProofs` proves `BrokerTypeOK`, `BrokerAccounts`, `WillWhenLost` and that `MqttBroker`
implements `AdmissionGate` (`DeferredInOrder`), under `BrokerAssumption` and `PacketsAssumption`,
which say of what types the constants are.  Connections, topics and filters need not be finite: what
the broker holds of them is, because its budgets count it.

The argument.  `Good` says of a world that each connection fits its history (`Sound`), and that the
three budgets count what they are for: undecided connections (`PlacesKept`), subscriptions
(`SubscriptionsKept`) and bytes of retained messages (`RetainedKept`).  The last two are sums over
all connections or topics; as sets of pairs (a connection and a filter of it; a topic and one of the
bytes retained for it) they are cardinalities, and a handler adds or takes away one set.  A will is
published in the middle of ending its own connection, so `ClientEnded` keeps all of `Good` except that
one count of wills.  Each part of a handler keeps `Good` and leaves the packets and the state of the
other connections alone (`Apart`); for the refinement, what is left to say of the connection itself is
which step of the gate it makes (`Moves`).  The replay of the deferred packets is a loop: `LoopExists`
has that its recursive definition defines a function, and after each round, by induction, the world is
`Good` and the packets done so far are a beginning of those deferred, all of them while the connection
stands.  `WillsFollowTheLoss` needs that, too: any of the packets may lose the connection.

`HandlersProofs` is about `HandlersSpec`, under the assumptions that TLC checks with `MCHandlers` (no
property is called "availability", bounds are numbers), for any properties, appliances, reports and
repetitions: `HandlersTypeOK`, `PollingGoesOn`, `ToldIsTrue`, `RegistrationKeeps`, and of
`CommandsAreReadBack` the half that is no liveness property, `OwnAcksAreIgnored`.  Each part has an
inductive invariant of its own.

* `TlvInv`: only polls are counted against an appliance, and frequent polling ends by a timer that an
  active one has not (`Polled`); as long as its handler has no configuration, one of the timers that
  lead to it runs (`Underway`).
* `MonInv`: a monitor in flight has its timeout, a command its refresh, and between two monitors one
  of the timers runs that start the next (`Scheduled`, `Awake`); the acknowledgement of the loop's own
  request comes within the second in which it is ignored.
* `HaInv`, for one appliance at a time: that something retained is stale is on the wire to where it is
  noticed, and a sweep has all it must clear on the wire (`SweptFor`); what was announced is
  retained and known (`ShownFor`).
* `AccountInv`: which requests a registration makes, and, as long as the owner leaves the appliance
  alone, what each answer still says of its home (`HomeKnown`), whether or not it was lost before.
* `ReportsInv`: a connection's last state is the newest report, written or not, and the reports on the
  wire grow; of `Start` and `Stop` the last that is on the wire decides whether the cloud watches.

`AppliancesProofs` is about `AppliancesSpec`, under `AppliancesAssumption`: the bounds are numbers, the
modes and levels have the ones the code names, one of the heads is the primary, header and payload are
not empty, tags have ten bits and values twenty-four, and the tables of the models are as TLC finds them
with `MCAppliances`.  For any modes, heads, frames, chunks and commands it proves all that the run checks:
`AppliancesTypeOK`, `HandlersStartAndStop`, `ShownIsReal`, `ArrivesAsSent`, `PowerChangesFollowed` and
`EnergyIsCounted`.  Again each part has its inductive invariant.

* `RacInv`: until the handler is made it has made nothing and written nothing.  The hard part is the
  action property, whatever the length and order of a frame: the fields are read in a loop, so
  `SettingsBack` is an induction over the entries read so far.  What was written after k of them is
  told by which of power, mode and settings they held (`Carried`), in one relation for a frame that
  turns the appliance on or off (`Turned`) and one for a frame that does not (`Steady`).
* `PacInv`: no long power without a handler, no mode alone to an appliance known to be off.  It is an
  invariant together with the types alone; `PacIsFollowed` is an induction over a frame, too, which
  relates the level to return to and what is shown to the level read last.
* `EnergyInv`: what a meter published is what it saved, a living meter is not behind it, and the interval
  that may still be repeated is the one saved last.  The first makes the published total monotonic over
  restarts, the last keeps a repeated interval from being counted after one.  Only the own meter saves
  whatever it publishes, which is why `GroupNeverFalls` is false.
* `LaundryInv`: of the frames under way the last record is the appliance's, and an announcement that it
  is on is followed by a record (`LineInv`); what is shown when a turn of the handler is over is the record heard last.  The sixteen layouts
  enter by what `LayoutOK` says of them, above all that no entity is read in two ways.
* `FridgeInv`: behind the last record under way there is nothing the appliance changed (`RecordsInv`);
  a field the owner wants has the last command for it giving the degrees wanted, and every later command
  for another field, if it copies a record, copying those degrees (`WantedOK`).  `Followed(w, P, R, Q)`
  of `SequenceLemmas` says such things of a queue: an element of P has one of R behind it, or is in Q;
  its lemmas say what sending and receiving do to that.  That a step comes back as
  the degrees it stands for is proved for the formulas and tables of every model (`StepFacts`).
* `StreamInv`: while its socket is open, a connection has taken the first m frames, told its Device what
  they say, and kept the bytes behind them (`Reading`), and the next frame is not there yet (`Waiting`);
  afterwards nothing is told of the frames but of those it took, then the end (`Over`).  That the next
  frame is missing holds only between two chunks.  Within one, `Split` is an induction over the turns of
  its loop (`TurnTurns`): a turn takes the next frame and leaves the bytes behind it, or leaves
  everything as it is because the frame is not there yet, or the connection is over (`TurnReads`); as
  many turns as there are bytes are enough, since a turn that takes something takes a header.
  `NextFrame` is what makes a turn right: the bytes kept begin with the header and the payload of the
  next frame and of no other.
* `BytesInv`: what is left of a record is a beginning of what was built.  `FieldBytesFacts` has the
  arithmetic of one field, over all tags and values; `WholeFieldsAreParsed` is the induction over the
  turns of the parser, which stops at the first field that is not whole.

**Induction.**  The library's induction theorems take an operator as a parameter, which the
installed provers cannot instantiate.  `SequenceLemmas` has the same in terms of sets: a set of numbers
that is not empty has a least element, from the library's theorem that `<` on the numbers is
well-founded, so a set that has 0 and the successor of each member has every number (`EveryNumber`).
That suffices for the loops here.

Only model-checked: all liveness properties (fairness is beyond the proof system): `PlacesComeBack`,
`GoneIsDropped`, `WantedIsRestored`, `AnsweringIsShown` and `OwedIsReadBack`.  `RunsWhatIsWanted` is
proved of `BridgeForwarding` for any constants (`RunningIsWanted`); the run `bridge_thinq2` checks it on
three more instances at once.

## 6. What is not modelled

* The value tables and byte offsets of the handlers, fields that nothing else depends on,
  names and translations: they are data, and a check of them would repeat the table.
* The handlers of which only the start and the polling are modelled (the TLV handlers other than
  the two air conditioners), the newer dehumidifier's comfort modes, and the door and energy
  statistics of 2RES2VE300UA2.
* The packet codec, its checksum, the MTOSP envelope and the splitter of JSON texts; what is
  written to a ThinQ1 appliance; the HTTP provisioning replies, of the LG
  account API the sign-in, the names of appliances, and their control and monitoring through it (it
  is an external service; registration is in `LgAccount`); the monitor and the pages (display).
* gateway.py, the setup programs, tools and scripts: programs that run once, or deployment.
* The iptables commands themselves, passwords, keys and certificates.

Where one of these matters to a module, its outcome is a nondeterministic choice.

## 7. Left for later

Modules 17 and 18 of the plan, the theorems and the two abstract specifications named in section 2.
