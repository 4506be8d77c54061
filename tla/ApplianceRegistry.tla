-------------------------- MODULE ApplianceRegistry --------------------------
(***************************************************************************)
(* From a connection to an available appliance in Home Assistant.          *)
(*                                                                         *)
(* The acceptors (cloud/thinq2/device.ts, cloud/thinq1/device.ts) turn a   *)
(* provisioned connection into a device object, DeviceManager              *)
(* (cloud/devmgr.ts) lists it, and HA_bridge (cloud/ha_bridge.ts) gives it *)
(* a handler that polls it and reports its availability.  An appliance may *)
(* reconnect before its old connection is gone, and one that drops off is  *)
(* kept available for a grace period.  The cascade behind one event is     *)
(* synchronous, so it is one step here.                                    *)
(***************************************************************************)
EXTENDS FiniteSets

CONSTANTS
    T1Conns,  \* connections of ThinQ1 appliances
    T2Conns,  \* MQTT connections of ThinQ2 appliances
    T1Ids,    \* identifiers of ThinQ1 appliances
    T2Ids,    \* identifiers of ThinQ2 appliances
    Serials,  \* tell the device objects of one appliance apart
    None      \* no identifier, connection or device

Conns == T1Conns \cup T2Conns

Ids == T1Ids \cup T2Ids

ASSUME RegistryAssumption ==
    /\ T1Conns \cap T2Conns = {}
    /\ T1Ids \cap T2Ids = {}
    /\ None \notin Conns \cup Ids

VARIABLES
    conn,  \* per connection: phase, the deploy message kept, the device object
    home   \* the maps of the acceptors, of DeviceManager and of HA_bridge

vars == <<conn, home>>

\* A device object, and the handler made for it when its model has one.
Devices == [id : Ids, handled : BOOLEAN, serial : Serials]

ASSUME NoDeviceAssumption == None \notin Devices

Conn == [phase : {"closed", "open", "closing"}, deploy : Ids \cup {None},
         device : Devices \cup {None}]

Gone == [phase |-> "closed", deploy |-> None, device |-> None]

Home ==
    [byId : [Ids -> Conns \cup {None}],         \* clientsById, connectionsById
     all : [Ids -> Devices \cup {None}],        \* allDevices
     handler : [Ids -> Devices \cup {None}],    \* haDevices
     pending : [Ids -> Devices \cup {None}],    \* pendingDrops and their timers
     running : SUBSET Devices,                  \* handlers whose timers run
     announced : SUBSET Ids,                    \* whose handler has called setConfig()
     available : [Ids -> {"unknown", "online", "offline"}]]

-----------------------------------------------------------------------------
\* HA_bridge.dropDevice(): only the handler in charge gets a grace timer.
HaDropUnguarded(h, d) == IF d.handled THEN [h EXCEPT !.pending[d.id] = d] ELSE h

HaDrop(h, d) == IF h.handler[d.id] = d THEN [h EXCEPT !.pending[d.id] = d] ELSE h

\* HA_bridge.newDevice(): a model without a handler changes nothing at all.
HaNewLeavingTimers(h, d) ==
    IF ~d.handled THEN h
    ELSE [h EXCEPT !.pending[d.id] = None,
                   !.handler[d.id] = d,
                   !.running = @ \cup {d},
                   !.announced = @ \ {d.id}]

HaNewCancellingFirst(h, d) ==
    IF ~d.handled THEN [h EXCEPT !.pending[d.id] = None]
    ELSE [h EXCEPT !.pending[d.id] = None,
                   !.handler[d.id] = d,
                   !.running = (@ \ {h.handler[d.id]}) \cup {d},
                   !.announced = @ \ {d.id}]

HaNew(h, d) ==
    IF ~d.handled THEN h
    ELSE [h EXCEPT !.pending[d.id] = None,
                   !.handler[d.id] = d,
                   !.running = (@ \ {h.handler[d.id]}) \cup {d},
                   !.announced = @ \ {d.id}]

\* The listeners of the device's "close": DeviceManager, then HA_bridge.
CloseDevice(h, d) ==
    HaDrop(IF h.all[d.id] = d THEN [h EXCEPT !.all[d.id] = None] ELSE h, d)

\* DeviceManager.accept()
AcceptDevice(h, d) == HaNew([h EXCEPT !.all[d.id] = d], d)

\* disconnected() of the ThinQ2 acceptor, and the close listeners of a ThinQ1
\* connection: the index is cleared only if it still names this connection.
DisconnectedClearingIndex(h, c) ==
    LET d == conn[c].device
    IN  IF d = None THEN h ELSE CloseDevice([h EXCEPT !.byId[d.id] = None], d)

Disconnected(h, c) ==
    LET d == conn[c].device
    IN  IF d = None THEN h
        ELSE CloseDevice(IF h.byId[d.id] = c THEN [h EXCEPT !.byId[d.id] = None] ELSE h, d)

\* The device objects of an appliance that something still refers to.
InUse(id) ==
    ({conn[c].device : c \in Conns} \cup {home.all[id], home.handler[id], home.pending[id]}
        \cup home.running) \ {None}

Unused(id) == {s \in Serials : \A d \in InUse(id) : d.id = id => d.serial # s}

NewDevice(id, handled) ==
    [id |-> id, handled |-> handled, serial |-> CHOOSE s \in Unused(id) : TRUE]

Holds(c, id) == conn[c].device # None /\ conn[c].device.id = id

-----------------------------------------------------------------------------
\* A connection is admitted by the broker, or a ThinQ1 socket accepted.
Open(c) ==
    /\ conn[c].phase = "closed"
    /\ conn' = [conn EXCEPT ![c].phase = "open"]
    /\ UNCHANGED home

\* preDeploy or deploy on the provisioning topic.
Deploy(c, id) ==
    /\ conn[c].phase = "open"
    /\ conn[c].deploy \in {None, id}
    /\ conn[c].device = None \/ Holds(c, id)
    /\ conn' = [conn EXCEPT ![c].deploy = id]
    /\ UNCHANGED home

UndeployKeepingDevice(c, id) ==
    /\ conn[c].phase = "open"
    /\ conn[c].deploy \in {None, id}
    /\ home' = Disconnected(home, c)
    /\ conn' = [conn EXCEPT ![c].deploy = None]

\* undeploy: the registration goes, the connection stays.
Undeploy(c, id) ==
    /\ conn[c].phase = "open"
    /\ conn[c].deploy \in {None, id}
    /\ conn[c].device = None \/ Holds(c, id)
    /\ home' = Disconnected(home, c)
    /\ conn' = [conn EXCEPT ![c].device = None, ![c].deploy = None]

\* completeProvisioning(): a connection that had the identifier is destroyed,
\* all its listeners included, before the new one takes its place.
Provisionable(c, id) == conn[c].deploy = id /\ conn[c].device = None

Evicted(h, id) == IF h.byId[id] = None THEN h ELSE Disconnected(h, h.byId[id])

Provisioned(c, d) == AcceptDevice([Evicted(home, d.id) EXCEPT !.byId[d.id] = c], d)

CompleteProvisioning(c, id, handled) ==
    LET d == NewDevice(id, handled) IN
    /\ conn[c].phase = "open"
    /\ Provisionable(c, id)
    /\ Unused(id) # {}
    /\ home' = Provisioned(c, d)
    /\ conn' = [k \in Conns |->
                    IF k = c THEN [conn[c] EXCEPT !.device = d]
                    ELSE IF k = home.byId[id] THEN Gone ELSE conn[k]]

Close(c) ==
    /\ conn[c].phase = "open"
    /\ home' = Disconnected(home, c)
    /\ conn' = [conn EXCEPT ![c] = Gone]

\* The will of a connection is handled while it is being destroyed; when it is
\* the missing acknowledgement, the appliance is registered and dropped at once.
CloseWithAck(c, id, handled) ==
    LET d == NewDevice(id, handled) IN
    /\ conn[c].phase = "open"
    /\ Provisionable(c, id)
    /\ Unused(id) # {}
    /\ home' = CloseDevice([Provisioned(c, d) EXCEPT !.byId[id] = None], d)
    /\ conn' = [k \in Conns |-> IF k \in {c, home.byId[id]} THEN Gone ELSE conn[k]]

-----------------------------------------------------------------------------
\* A ThinQ1 connection says who it is; the one it replaces closes later.
Identify(c, id, handled) ==
    LET d == NewDevice(id, handled) IN
    /\ conn[c].phase = "open"
    /\ conn[c].device = None
    /\ Unused(id) # {}
    /\ home' = AcceptDevice([home EXCEPT !.byId[id] = c], d)
    /\ conn' = [k \in Conns |->
                    IF k = c THEN [conn[c] EXCEPT !.device = d]
                    ELSE IF k = home.byId[id] THEN [conn[k] EXCEPT !.phase = "closing"]
                    ELSE conn[k]]

\* The idle timer, a bad frame or unknown metadata destroys the socket.
Abandon(c) ==
    /\ conn[c].phase = "open"
    /\ conn' = [conn EXCEPT ![c].phase = "closing"]
    /\ UNCHANGED home

SocketClosed(c) ==
    /\ conn[c].phase \in {"open", "closing"}
    /\ home' = Disconnected(home, c)
    /\ conn' = [conn EXCEPT ![c] = Gone]

-----------------------------------------------------------------------------
\* The grace period of an appliance is over: drop() stops and reports offline.
GraceOver(id) ==
    LET d == home.pending[id] IN
    /\ d # None
    /\ home' = IF home.handler[id] = d
               THEN [home EXCEPT !.pending[id] = None, !.handler[id] = None,
                                 !.running = @ \ {d}, !.announced = @ \ {id},
                                 !.available[id] = "offline"]
               ELSE [home EXCEPT !.pending[id] = None]
    /\ UNCHANGED conn

\* setConfig(), for some models when the handler is made, for others when the
\* appliance has answered.  An appliance that falls silent is TlvHandler's matter.
Announce(id) ==
    /\ home.handler[id] # None
    /\ home' = [home EXCEPT !.announced = @ \cup {id}, !.available[id] = "online"]
    /\ UNCHANGED conn

\* Home Assistant asks for discovery: who has announced itself does so again.
Discovery ==
    /\ home' = [home EXCEPT !.available =
                    [id \in Ids |-> IF id \in home.announced THEN "online" ELSE @[id]]]
    /\ UNCHANGED conn

Init ==
    /\ conn = [c \in Conns |-> Gone]
    /\ home = [byId |-> [id \in Ids |-> None], all |-> [id \in Ids |-> None],
               handler |-> [id \in Ids |-> None], pending |-> [id \in Ids |-> None],
               running |-> {}, announced |-> {}, available |-> [id \in Ids |-> "unknown"]]

T2Next(c) ==
    \/ Open(c)
    \/ \E id \in T2Ids : Deploy(c, id) \/ Undeploy(c, id)
    \/ \E id \in T2Ids, handled \in BOOLEAN :
        CompleteProvisioning(c, id, handled) \/ CloseWithAck(c, id, handled)
    \/ Close(c)

T1Next(c) ==
    \/ Open(c)
    \/ \E id \in T1Ids, handled \in BOOLEAN : Identify(c, id, handled)
    \/ Abandon(c)
    \/ SocketClosed(c)

Next ==
    \/ \E c \in T2Conns : T2Next(c)
    \/ \E c \in T1Conns : T1Next(c)
    \/ \E id \in Ids : GraceOver(id) \/ Announce(id)
    \/ Discovery

Spec == Init /\ [][Next]_vars

\* A grace timer that is not cancelled fires, and a destroyed socket reports its close.
FairSpec ==
    /\ Spec
    /\ \A id \in Ids : WF_vars(GraceOver(id))
    /\ \A c \in T1Conns : WF_vars(conn[c].phase = "closing" /\ SocketClosed(c))

-----------------------------------------------------------------------------
\* Type invariant; a ThinQ2 device object has the identifier its connection was
\* deployed with, whatever is acknowledged or undeployed in between.
TypeOK ==
    /\ conn \in [Conns -> Conn]
    /\ home \in Home
    /\ \A c \in T2Conns : conn[c].device # None => Holds(c, conn[c].deploy)

DeviceOf(c) == IF c = None THEN None ELSE conn[c].device

\* The index of the acceptors, the device objects on the connections and the
\* list of DeviceManager, cleared by three separate listeners, name the same
\* device: neither a late close of a replaced connection nor an undeploy takes
\* the replacement out, and none outlives its connection.
OneRegistration ==
    \A id \in Ids :
        /\ home.all[id] = DeviceOf(home.byId[id])
        /\ home.byId[id] # None => home.all[id] # None /\ Holds(home.byId[id], id)

\* Only the handler in charge of an appliance polls it: a replaced one would
\* hear no answer and report a healthy appliance as unavailable (stopTimers()).
OnlyHandlerInChargePolls ==
    home.running = {home.handler[id] : id \in Ids} \ {None}

\* A connected appliance whose handler has announced it is available in Home
\* Assistant and stays so whichever old connection closes and whichever old grace
\* timer is pending.
ConnectedIsAvailable ==
    \A id \in Ids :
        home.all[id] # None /\ home.all[id].handled =>
            /\ home.handler[id] = home.all[id]
            /\ home.pending[id] = None
            /\ id \in home.announced => home.available[id] = "online"

\* Exactly the handler of the present connection speaks for an appliance: others
\* are silent, and what it announced is not taken back by anything older.
HandlerInCharge == OnlyHandlerInChargePolls /\ ConnectedIsAvailable

\* An appliance that went away does not stay available forever: unless it comes
\* back, its handler is dropped once the grace period is over, even if what
\* reconnected meanwhile has no handler (newDevice() returning early).
GoneIsDropped ==
    \A id \in Ids : []<>(home.all[id] # None \/ home.handler[id] = None)

=============================================================================
