----------------------------- MODULE HaConnection -----------------------------
(***************************************************************************)
(* The connection to Home Assistant's MQTT broker (cloud/homeassistant.ts) *)
(* with what handlers publish through it (devices/base.ts).                *)
(*                                                                         *)
(* Values, availability and discovery are retained, so they outlive the    *)
(* connection and the process.  What an earlier process left is cleared:   *)
(* availability once after a connection, values during a sweep after a     *)
(* discovery.  Both learn what is retained from deliveries that arrive     *)
(* while handlers go on publishing.                                        *)
(***************************************************************************)
EXTENDS Naturals

CONSTANTS Appliances, Properties

\* stateProperties() leaves the availability topic out of what a sweep looks for.
HaAssumption == "availability" \notin Properties

VARIABLES
    haLink,      \* isConnected
    retained,    \* by the broker, for each appliance
    deliveries,  \* of retained messages that have not arrived: <<appliance, topic>>
    memory,      \* of the Connection
    announcer,   \* the handler of each appliance
    haTrace      \* history, for each appliance

haVars == <<haLink, retained, deliveries, memory, announcer, haTrace>>

Entities == (SUBSET Properties) \ {{}}

Retained == [values : SUBSET Properties, available : {"none", "online", "offline"}]

\* publishedAvailability, liveProperties ({}: none) and sweepTimers
Memory == [published : SUBSET Appliances, live : [Appliances -> Entities \cup {{}}],
           sweeping : SUBSET Appliances]

NoMemory == [published |-> {}, live |-> [a \in Appliances |-> {}], sweeping |-> {}]

\* valid: its discovery passes validateDeviceDiscovery(); announced: setConfig() was called.
Announcer == [entities : Entities, valid : BOOLEAN, announced : BOOLEAN]

NoAnnouncer == [entities |-> {}, valid |-> FALSE, announced |-> FALSE]

\* What the last sweep was about from its beginning ({}: it began without a connection,
\* or the entities changed); what was published since, or of what it left alone.
SweepTrace == [swept : Entities \cup {{}}, fresh : SUBSET Properties]

HaTypeOK ==
    /\ haLink \in BOOLEAN
    /\ retained \in [Appliances -> Retained]
    /\ deliveries \subseteq Appliances \X (Properties \cup {"availability"})
    /\ memory \in Memory
    /\ announcer \in [Appliances -> Announcer \cup {NoAnnouncer}]
    /\ haTrace \in [Appliances -> SweepTrace]

-----------------------------------------------------------------------------
HaWorld == [link |-> haLink, retained |-> retained, deliveries |-> deliveries,
          memory |-> memory, announcer |-> announcer, trace |-> haTrace]

HaBecomes(w) ==
    /\ haLink' = w.link /\ retained' = w.retained /\ deliveries' = w.deliveries
    /\ memory' = w.memory /\ announcer' = w.announcer /\ haTrace' = w.trace

\* What is published without a connection is queued by the library: it arrives later,
\* or never if the process dies first.  Here it arrives at once or never.
Arrives(w) == IF w.link THEN {TRUE} ELSE BOOLEAN

\* publishProperty(a, 'availability', status)
PublishAvailability(w, a, status, arrives) ==
    [w EXCEPT !.memory.published = @ \cup {a},
              !.retained[a].available = IF arrives THEN status ELSE @]

\* The retained values of an appliance are delivered to whoever subscribes to them.
Subscribe(w, a) ==
    [w EXCEPT !.deliveries = @ \cup IF w.link THEN {a} \X w.retained[a].values ELSE {}]

SweepWithOldEntities(w, a, entities) ==
    LET known == [w EXCEPT !.trace[a].fresh = @ \cap entities \cap w.memory.live[a]]
    IN  IF w.memory.live[a] = entities THEN w
        ELSE IF a \in w.memory.sweeping THEN [known EXCEPT !.trace[a].swept = {}]
        ELSE [Subscribe([known EXCEPT !.memory.live[a] = entities], a)
              EXCEPT !.memory.sweeping = @ \cup {a},
                     !.trace[a].swept = IF w.link THEN entities ELSE {}]

\* sweepRetainedState(): an unchanged set of entities can have left nothing behind.
SweepRetainedState(w, a, entities) ==
    LET known == [w EXCEPT !.memory.live[a] = entities, !.trace[a].fresh = @ \cap entities \cap w.memory.live[a]]
    IN  IF w.memory.live[a] = entities THEN w
        ELSE IF a \in w.memory.sweeping THEN [known EXCEPT !.trace[a].swept = {}]
        ELSE [Subscribe(known, a) EXCEPT !.memory.sweeping = @ \cup {a},
                                         !.trace[a].swept = IF w.link THEN entities ELSE {}]

\* publishConfig() of a handler and then of the connection.
Announced(w, a, arrives) ==
    IF ~w.announcer[a].announced THEN w
    ELSE LET online == PublishAvailability(w, a, "online", arrives)
         IN  IF w.announcer[a].valid THEN SweepRetainedState(online, a, w.announcer[a].entities)
             ELSE online

PublishAll(w) == \* refreshDiscovery(), on a connection
    LET after == [a \in Appliances |-> Announced(w, a, TRUE)]
    IN  [w EXCEPT
            !.retained = [a \in Appliances |-> after[a].retained[a]],
            !.deliveries = UNION {after[a].deliveries : a \in Appliances},
            !.memory = [published |-> UNION {after[a].memory.published : a \in Appliances},
                        live |-> [a \in Appliances |-> after[a].memory.live[a]],
                        sweeping |-> UNION {after[a].memory.sweeping : a \in Appliances}],
            !.trace = [a \in Appliances |-> after[a].trace[a]]]

-----------------------------------------------------------------------------
\* connected(): the subscriptions bring what was retained; then all is announced again.
ConnectedOnto(memoryOf) ==
    LET online == {a \in Appliances : retained[a].available = "online"}
        w == [HaWorld EXCEPT
                 !.link = TRUE,
                 !.memory = memoryOf,
                 !.deliveries = (online \X {"availability"})
                     \cup UNION {{a} \X retained[a].values : a \in memory.sweeping}]
    IN  ~haLink /\ HaBecomes(PublishAll(w))

Connected == ConnectedOnto([memory EXCEPT !.published = {}])

ConnectedKeepingPublished == ConnectedOnto(memory)

\* disconnected()
Disconnected ==
    /\ haLink
    /\ HaBecomes([HaWorld EXCEPT !.link = FALSE, !.deliveries = {},
                             !.memory.live = NoMemory.live, !.memory.sweeping = {}])

\* received(): 'online' on Home Assistant's status topic.
HaOnline == haLink /\ HaBecomes(PublishAll(HaWorld))

\* received(): a retained availability, of an appliance nothing was published for.
ClearAvailability(a) ==
    LET w == [HaWorld EXCEPT !.deliveries = @ \ {<<a, "availability">>}] IN
    /\ <<a, "availability">> \in deliveries
    /\ HaBecomes(IF a \in memory.published THEN w ELSE [w EXCEPT !.retained[a].available = "offline"])

\* clearIfOrphaned(), within a sweep.
ClearIfOrphaned(a, p) ==
    LET w == [HaWorld EXCEPT !.deliveries = @ \ {<<a, p>>}] IN
    /\ <<a, p>> \in deliveries
    /\ HaBecomes(IF a \notin memory.sweeping \/ p \in memory.live[a] THEN w
               ELSE [w EXCEPT !.retained[a].values = @ \ {p}])

\* The window outlasts the deliveries, if there is a connection that they come over.
SweepTimer(a) ==
    /\ a \in memory.sweeping
    /\ haLink => \A p \in Properties : <<a, p>> \notin deliveries
    /\ HaBecomes([HaWorld EXCEPT !.memory.sweeping = @ \ {a}])

-----------------------------------------------------------------------------
\* HA_bridge: a handler for an appliance that connects, possibly of another model.
NewDevice(a, entities, valid) ==
    HaBecomes([HaWorld EXCEPT
        !.announcer[a] = [entities |-> entities, valid |-> valid, announced |-> FALSE]])

\* setConfig()
Announce(a) ==
    /\ announcer[a] # NoAnnouncer /\ ~announcer[a].announced
    /\ \E arrives \in Arrives(HaWorld) :
           HaBecomes(Announced([HaWorld EXCEPT !.announcer[a].announced = TRUE], a, arrives))

\* publishProperty() of a handler that has announced what it publishes.
PublishProperty(a, p) ==
    /\ announcer[a].announced /\ p \in announcer[a].entities
    /\ \E arrives \in Arrives(HaWorld) :
           HaBecomes(IF arrives THEN [HaWorld EXCEPT !.retained[a].values = @ \cup {p},
                                                 !.trace[a].fresh = @ \cup {p}]
                   ELSE HaWorld)

\* drop()
DropDevice(a) ==
    /\ announcer[a] # NoAnnouncer
    /\ \E arrives \in Arrives(HaWorld) :
           HaBecomes([PublishAvailability(HaWorld, a, "offline", arrives) EXCEPT
                       !.announcer[a] = NoAnnouncer])

\* The process dies and is started again.
Restart ==
    /\ haLink' = FALSE /\ deliveries' = {} /\ memory' = NoMemory
    /\ announcer' = [a \in Appliances |-> NoAnnouncer]
    /\ haTrace' = [a \in Appliances |-> [swept |-> {}, fresh |-> {}]]
    /\ UNCHANGED retained

HaInit ==
    /\ haLink = FALSE /\ deliveries = {} /\ memory = NoMemory
    /\ retained \in [Appliances -> Retained]
    /\ announcer = [a \in Appliances |-> NoAnnouncer]
    /\ haTrace = [a \in Appliances |-> [swept |-> {}, fresh |-> {}]]

HaNext ==
    \/ Connected \/ Disconnected \/ HaOnline \/ Restart
    \/ \E a \in Appliances :
        \/ ClearAvailability(a) \/ SweepTimer(a) \/ Announce(a) \/ DropDevice(a)
        \/ \E p \in Properties : ClearIfOrphaned(a, p) \/ PublishProperty(a, p)
        \/ \E entities \in Entities, valid \in BOOLEAN : NewDevice(a, entities, valid)

HaSpec == HaInit /\ [][HaNext]_haVars

-----------------------------------------------------------------------------
\* "Phantom" appliances of an earlier process are taken offline after a connection, and
\* the answer that does it, on its way while an appliance is announced, does not hit it.
AvailabilityIsTrue ==
    haLink => \A a \in Appliances :
        /\ announcer[a].announced => retained[a].available = "online"
        /\ announcer[a] = NoAnnouncer /\ <<a, "availability">> \notin deliveries
               => retained[a].available # "online"

\* A sweep that had a connection clears all that no entity refers to, if no discovery
\* overtook it, and never a value that an announced entity has published.
SweepIsExact ==
    haLink => \A a \in Appliances :
        /\ a \notin memory.sweeping /\ memory.live[a] # {} /\ haTrace[a].swept = memory.live[a]
               => retained[a].values \subseteq memory.live[a] \cup haTrace[a].fresh
        /\ announcer[a].announced /\ announcer[a].valid
               => haTrace[a].fresh \cap announcer[a].entities \subseteq retained[a].values

\* "After publishing a device's discovery we look at what is actually retained under it
\* and clear anything the config no longer refers to."
DiscoverySweeps ==
    haLink => \A a \in Appliances :
        memory.live[a] # {} /\ a \notin memory.sweeping
            => retained[a].values \subseteq memory.live[a] \cup haTrace[a].fresh
=============================================================================
