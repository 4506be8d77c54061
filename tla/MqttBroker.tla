------------------------------- MODULE MqttBroker -------------------------------
(***************************************************************************)
(* The MQTT broker that ThinQ2 appliances and diagnostic clients connect   *)
(* to (cloud/mqtt-broker.ts).                                              *)
(*                                                                         *)
(* A connection is "new" until its CONNECT packet, "pending" while the     *)
(* access policy decides, then "active"; packets that were read before the *)
(* stream could be paused are deferred.  Connections share three budgets:  *)
(* undecided connections, subscriptions and retained messages.  A handler  *)
(* runs to its end before the next, and may reach any number of other      *)
(* connections: it is a function from one world to the next.  What the     *)
(* policy answers is the matter of DeviceAccess and is arbitrary here.     *)
(***************************************************************************)
EXTENDS Naturals, FiniteSets, Sequences, SequencesExt

CONSTANTS
    BrokerClients,     \* objects of class Client
    Topics,
    Filters,           \* valid topic filters
    Covers,            \* the topics each filter matches
    Packets,           \* what a client sends; see AnyPacket
    Readable,          \* sets of topics the policy may let a client read
    Wills,             \* topics of wills the policy lets through, or NoWill
    NoWill,            \* no will
    MaxUndecided,      \* MAX_PENDING
    MaxDeferred,       \* MAX_DEFERRED_PACKETS
    MaxBytes,          \* MAX_DEFERRED_BYTES, in chunks
    MaxSize,           \* of a retained message
    MaxOwn,            \* MAX_CLIENT_SUBSCRIPTIONS
    MaxAll,            \* MAX_SUBSCRIPTIONS, and MAX_FILTER_BYTES
    MaxRetained,       \* MAX_RETAINED_TOPICS
    MaxRetainedBytes   \* MAX_RETAINED_BYTES

\* What the policy will say of a packet is a part of it: whether a publication is
\* allowed, and which of the filters may be subscribed to (in their order).
Publication == [kind : {"publish"}, topic : Topics, size : 0..MaxSize, retain : BOOLEAN,
                allowed : BOOLEAN]
AnyPacket ==
    Publication
        \cup [kind : {"subscribe"}, filters : Seq(Filters)]
        \cup [kind : {"unsubscribe"}, filters : SUBSET Filters]
        \cup [kind : {"answered"}]  \* pingreq and pubrel

BrokerAssumption ==
    /\ Covers \in [Filters -> SUBSET Topics]
    /\ Readable \subseteq SUBSET Topics
    /\ NoWill \notin Topics /\ Wills \subseteq Topics \cup {NoWill}
    /\ MaxUndecided \in Nat /\ MaxDeferred \in Nat /\ MaxBytes \in Nat /\ MaxSize \in Nat
    /\ MaxOwn \in Nat /\ MaxAll \in Nat /\ MaxRetained \in Nat /\ MaxRetainedBytes \in Nat

PacketsAssumption == \A p \in Packets : p \in AnyPacket

VARIABLES
    conn,           \* Client, its stream and its deadline
    pending,        \* Broker.pending
    budget,         \* subscriptionBudget.count
    retained,       \* retainMap: the size of what is retained, 0 when nothing is
    retainedBytes,
    trace           \* history of each connection

brokerVars == <<conn, pending, budget, retained, retainedBytes, trace>>

Client ==
    [state : {"new", "pending", "active", "closed"}, deferred : Seq(Packets),
     bytes : 0..MaxBytes, subs : SUBSET Filters, reads : SUBSET Topics,
     will : Wills \cup {NoWill}, deciding : BOOLEAN, deadline : BOOLEAN,
     stream : {"open", "broken", "gone"}]

\* arrived, ran: packets before the admission, and those done; left: "kept" until the
\* connection ends, gracefully or not; wills: published; behind: topics whose retained
\* message is newer than anything the client was sent.
Trace ==
    [arrived : Seq(Packets), ran : Seq(Packets), admitted : BOOLEAN,
     left : {"kept", "graceful", "lost"}, wills : Nat, behind : SUBSET Topics]

Waits(c) == conn[c].state \in {"new", "pending"}

BrokerTypeOK ==
    /\ conn \in [BrokerClients -> Client]
    /\ \A c \in BrokerClients : Len(conn[c].deferred) <= MaxDeferred
    /\ pending \in SUBSET BrokerClients
    /\ budget \in 0..MaxAll
    /\ retained \in [Topics -> 0..MaxSize]
    /\ retainedBytes \in 0..MaxRetainedBytes
    /\ trace \in [BrokerClients -> Trace]

-----------------------------------------------------------------------------
BrokerWorld ==
    [conn |-> conn, pending |-> pending, budget |-> budget, retained |-> retained,
     retainedBytes |-> retainedBytes, trace |-> trace]

BrokerBecomes(w) ==
    /\ conn' = w.conn /\ pending' = w.pending /\ budget' = w.budget
    /\ retained' = w.retained /\ retainedBytes' = w.retainedBytes /\ trace' = w.trace

Covered(subs) == UNION {Covers[f] : f \in subs}

\* Client.try_publish()
Receives(w, c, t) ==
    w.conn[c].state = "active" /\ t \in w.conn[c].reads /\ t \in Covered(w.conn[c].subs)

Sent(w, c, ts) == [w EXCEPT !.trace[c].behind = w.trace[c].behind \ ts]

FanOutPacket(w, t) ==
    [w EXCEPT !.trace = [c \in BrokerClients |->
        IF Receives(w, c, t) THEN [w.trace[c] EXCEPT !.behind = w.trace[c].behind \ {t}]
        ELSE w.trace[c]]]

Stored(w) == {t \in Topics : w.retained[t] # 0}

\* A message that exceeds the budget is not retained, and what was before stays.
OverBudget(w, p) ==
    \/ w.retained[p.topic] = 0 /\ Cardinality(Stored(w)) >= MaxRetained
    \/ w.retainedBytes - w.retained[p.topic] + p.size > MaxRetainedBytes

RetainForgettingPrevious(w, p) ==
    IF p.size # 0 /\ OverBudget(w, p) THEN w
    ELSE [w EXCEPT !.retained[p.topic] = p.size,
                   !.retainedBytes = IF p.size = 0 THEN w.retainedBytes - w.retained[p.topic]
                                     ELSE w.retainedBytes + p.size]

\* An empty message removes what is retained.
Retain(w, p) ==
    IF p.size # 0 /\ OverBudget(w, p) THEN w
    ELSE [w EXCEPT !.retained[p.topic] = p.size,
                   !.retainedBytes = w.retainedBytes - w.retained[p.topic] + p.size,
                   !.trace = [c \in BrokerClients |->
                       IF p.size = 0
                       THEN [w.trace[c] EXCEPT !.behind = w.trace[c].behind \ {p.topic}]
                       ELSE IF w.conn[c].state # "closed" /\ ~Receives(w, c, p.topic)
                       THEN [w.trace[c] EXCEPT !.behind = w.trace[c].behind \cup {p.topic}]
                       ELSE w.trace[c]]]

\* Broker.publishAllowed()
PublishAllowed(w, p) ==
    LET told == FanOutPacket(w, p.topic) IN IF p.retain THEN Retain(told, p) ELSE told

WillPacket(t) ==
    [kind |-> "publish", topic |-> t, size |-> 0, retain |-> FALSE, allowed |-> TRUE]

ClientEnded(w, c, graceful) ==
    [w EXCEPT
        !.conn[c] = [w.conn[c] EXCEPT !.state = "closed", !.deferred = <<>>, !.bytes = 0,
                                      !.subs = {}, !.reads = {}, !.deadline = FALSE],
        !.pending = w.pending \ {c},
        !.budget = w.budget - Cardinality(w.conn[c].subs),
        !.trace[c] = [w.trace[c] EXCEPT !.left = IF graceful THEN "graceful" ELSE "lost",
                                        !.behind = {}]]

Announced(w, c) ==
    PublishAllowed([w EXCEPT !.trace[c].wills = w.trace[c].wills + 1],
                   WillPacket(w.conn[c].will))

DestroyTellingAll(w, c, graceful) ==
    LET ended == ClientEnded(w, c, graceful) IN
    IF w.conn[c].state = "closed" THEN w
    ELSE IF w.conn[c].state = "active" /\ w.conn[c].will # NoWill THEN Announced(ended, c)
    ELSE ended

\* Client.destroy() and Broker's listener: a will the policy lets through is published
\* when an admitted client ends without DISCONNECT.
DestroyClient(w, c, graceful) ==
    LET ended == ClientEnded(w, c, graceful) IN
    IF w.conn[c].state = "closed" THEN w
    ELSE IF w.conn[c].state = "active" /\ ~graceful /\ w.conn[c].will # NoWill
         THEN Announced(ended, c)
    ELSE ended

-----------------------------------------------------------------------------
\* What is done with a packet of an active client.

Least(m, n) == IF m < n THEN m ELSE n

\* The filters of the packet that are new, among the first i of it.
New(w, c, p, i) == {p.filters[k] : k \in 1..i} \ w.conn[c].subs

\* Those that are granted, in their order, as far as the budgets go.
Added(w, c, p) ==
    LET room == Least(MaxOwn - Cardinality(w.conn[c].subs), MaxAll - w.budget) IN
    UNION {New(w, c, p, i) :
               i \in {k \in 0..Len(p.filters) : Cardinality(New(w, c, p, k)) <= room}}

SubscribeComparingLater(w, c, p) ==
    LET added == Added(w, c, p) IN
    [w EXCEPT !.conn[c].subs = w.conn[c].subs \cup added,
              !.budget = w.budget + Cardinality(added)]

\* Client.subscribe(): retained messages go to a subscriber that is new to their topic.
SubscribeFilters(w, c, p) ==
    LET added == Added(w, c, p)
        new == (Covered(added) \ Covered(w.conn[c].subs)) \cap w.conn[c].reads
    IN Sent([w EXCEPT !.conn[c].subs = w.conn[c].subs \cup added,
                      !.budget = w.budget + Cardinality(added)],
            c, new \cap Stored(w))

UnsubscribeAnything(w, c, p) ==
    [w EXCEPT !.conn[c].subs = w.conn[c].subs \ p.filters,
              !.budget = IF w.budget < Cardinality(p.filters) THEN 0
                         ELSE w.budget - Cardinality(p.filters)]

\* Client.unsubscribe(): filters it does not have cost nothing.
Unsubscribe(w, c, p) ==
    [w EXCEPT !.conn[c].subs = w.conn[c].subs \ p.filters,
              !.budget = w.budget - Cardinality(w.conn[c].subs \cap p.filters)]

RunPacket(w, c, p) ==
    CASE p.kind = "publish" ->
             IF p.allowed THEN PublishAllowed(w, p) ELSE DestroyClient(w, c, FALSE)
      [] p.kind = "subscribe" -> SubscribeFilters(w, c, p)
      [] p.kind = "unsubscribe" -> Unsubscribe(w, c, p)
      [] p.kind = "answered" -> w

\* The deferred packets, until one of them ends the connection.
RunDeferred(w, c, p) ==
    IF w.conn[c].state # "active" THEN w
    ELSE RunPacket([w EXCEPT !.trace[c].ran = Append(w.trace[c].ran, p)], c, p)

Replay(w, c, packets) ==
    LET after[n \in 0..Len(packets)] ==
            IF n = 0 THEN w ELSE RunDeferred(after[n - 1], c, packets[n])
    IN after[Len(packets)]

\* The listener of "data": everything read before the decision counts.
Counted(w, c) ==
    IF w.conn[c].state \notin {"new", "pending"} THEN w
    ELSE IF w.conn[c].bytes < MaxBytes THEN [w EXCEPT !.conn[c].bytes = w.conn[c].bytes + 1]
    ELSE DestroyClient(w, c, FALSE)

Held(w, c, p) ==
    [w EXCEPT !.conn[c].deferred = Append(w.conn[c].deferred, p),
              !.trace[c].arrived = Append(w.trace[c].arrived, p)]

OperationUnbounded(w, c, p) ==
    IF w.conn[c].state = "active" THEN RunPacket(w, c, p)
    ELSE IF w.conn[c].state = "pending" THEN Held(w, c, p)
    ELSE DestroyClient(w, c, FALSE)

\* operation()
Operation(w, c, p) ==
    IF w.conn[c].state = "active" THEN RunPacket(w, c, p)
    ELSE IF w.conn[c].state = "pending" /\ Len(w.conn[c].deferred) < MaxDeferred
         THEN Held(w, c, p)
    ELSE DestroyClient(w, c, FALSE)

Admitted(w, c) ==
    [w EXCEPT !.conn[c] = [w.conn[c] EXCEPT !.state = "active", !.deadline = FALSE,
                                            !.deferred = <<>>, !.bytes = 0],
              !.pending = w.pending \ {c}, !.trace[c].admitted = TRUE]

-----------------------------------------------------------------------------
\* Broker.accept(); the object of an earlier connection is used again when
\* nothing refers to it any more.
AcceptClient(c) ==
    /\ conn[c].state = "closed" /\ conn[c].stream = "gone" /\ ~conn[c].deciding
    /\ Cardinality(pending) < MaxUndecided
    /\ BrokerBecomes([BrokerWorld EXCEPT
           !.conn[c] = [state |-> "new", deferred |-> <<>>, bytes |-> 0, subs |-> {},
                        reads |-> {}, will |-> NoWill, deciding |-> FALSE, deadline |-> TRUE,
                        stream |-> "open"],
           !.pending = pending \cup {c},
           !.trace[c] = [arrived |-> <<>>, ran |-> <<>>, admitted |-> FALSE, left |-> "kept",
                         wills |-> 0, behind |-> Stored(BrokerWorld)]])

\* A part of a packet.
Data(c) ==
    /\ conn[c].stream = "open" /\ Waits(c)
    /\ BrokerBecomes(Counted(BrokerWorld, c))

ConnectClearingDeadline(c, reads, will) ==
    LET w == Counted(BrokerWorld, c) IN
    /\ conn[c].stream = "open"
    /\ BrokerBecomes(IF w.conn[c].state # "new" THEN DestroyClient(w, c, FALSE)
                     ELSE [w EXCEPT !.conn[c] = [w.conn[c] EXCEPT
                              !.state = "pending", !.deciding = TRUE, !.deadline = FALSE,
                              !.reads = reads, !.will = will]])

\* A CONNECT packet; a second one ends the connection.
ConnectPacket(c, reads, will) ==
    LET w == Counted(BrokerWorld, c) IN
    /\ conn[c].stream = "open"
    /\ BrokerBecomes(IF w.conn[c].state # "new" THEN DestroyClient(w, c, FALSE)
                     ELSE [w EXCEPT !.conn[c] = [w.conn[c] EXCEPT
                              !.state = "pending", !.deciding = TRUE,
                              !.reads = reads, !.will = will]])

Packet(c, p) ==
    /\ conn[c].stream = "open"
    /\ BrokerBecomes(Operation(Counted(BrokerWorld, c), c, p))

DisconnectPacket(c) ==
    /\ conn[c].stream = "open"
    /\ BrokerBecomes(DestroyClient(Counted(BrokerWorld, c), c, TRUE))

AdmitLate(c) ==
    /\ conn[c].deciding
    /\ BrokerBecomes(Replay(Admitted([BrokerWorld EXCEPT !.conn[c].deciding = FALSE], c),
                            c, conn[c].deferred))

\* The policy lets it in.  The answer is ignored when the connection ended meanwhile.
Admit(c) ==
    /\ conn[c].deciding
    /\ LET w == [BrokerWorld EXCEPT !.conn[c].deciding = FALSE] IN
       BrokerBecomes(IF conn[c].state = "pending" /\ conn[c].stream = "open"
                     THEN Replay(Admitted(w, c), c, conn[c].deferred) ELSE w)

Refuse(c) ==
    /\ conn[c].deciding
    /\ LET w == [BrokerWorld EXCEPT !.conn[c].deciding = FALSE] IN
       BrokerBecomes(IF conn[c].state = "pending" /\ conn[c].stream = "open"
                     THEN DestroyClient(w, c, TRUE) ELSE w)

DecisionFails(c) ==
    /\ conn[c].deciding
    /\ BrokerBecomes(DestroyClient([BrokerWorld EXCEPT !.conn[c].deciding = FALSE], c, FALSE))

\* Ten seconds without a decision.
ConnectDeadline(c) ==
    /\ conn[c].deadline
    /\ BrokerBecomes(DestroyClient(BrokerWorld, c, FALSE))

\* The socket is destroyed some time before it says so.
Breaks(c) ==
    /\ conn[c].stream = "open"
    /\ BrokerBecomes([BrokerWorld EXCEPT !.conn[c].stream = "broken"])

\* "close" of the stream, also after an error, a timeout or a shutdown.
Closes(c) ==
    /\ conn[c].stream # "gone"
    /\ BrokerBecomes([DestroyClient(BrokerWorld, c, FALSE) EXCEPT !.conn[c].stream = "gone"])

\* A publication of rethink itself.
PublishOwn(p) ==
    /\ p.kind = "publish"
    /\ BrokerBecomes(PublishAllowed(BrokerWorld, p))

BrokerInit ==
    /\ conn = [c \in BrokerClients |->
           [state |-> "closed", deferred |-> <<>>, bytes |-> 0, subs |-> {}, reads |-> {},
            will |-> NoWill, deciding |-> FALSE, deadline |-> FALSE, stream |-> "gone"]]
    /\ pending = {} /\ budget = 0
    /\ retained = [t \in Topics |-> 0] /\ retainedBytes = 0
    /\ trace = [c \in BrokerClients |->
           [arrived |-> <<>>, ran |-> <<>>, admitted |-> FALSE, left |-> "lost", wills |-> 0,
            behind |-> {}]]

BrokerNext ==
    \/ \E c \in BrokerClients :
           \/ AcceptClient(c) \/ Data(c) \/ DisconnectPacket(c)
           \/ \E reads \in Readable, will \in Wills : ConnectPacket(c, reads, will)
           \/ \E p \in Packets : Packet(c, p)
           \/ Admit(c) \/ Refuse(c) \/ DecisionFails(c)
           \/ ConnectDeadline(c) \/ Breaks(c) \/ Closes(c)
    \/ \E p \in Packets : PublishOwn(p)

BrokerSpec == BrokerInit /\ [][BrokerNext]_brokerVars

\* A timer fires.  Nothing else is sure: the policy may never answer.
BrokerFairSpec == BrokerSpec /\ \A c \in BrokerClients : WF_brokerVars(ConnectDeadline(c))

-----------------------------------------------------------------------------
\* Properties

\* Packets that were read before the decision are done after it, in order, once,
\* or not at all from the one on that ended the connection; a decision that comes
\* too late does none.
Phase(c) ==
    IF Waits(c) THEN "held" ELSE IF conn[c].state = "active" THEN "open" ELSE "shut"

Gate == INSTANCE AdmissionGate WITH
            Clients <- BrokerClients,
            phase <- [c \in BrokerClients |-> Phase(c)],
            arrived <- [c \in BrokerClients |-> trace[c].arrived],
            ran <- [c \in BrokerClients |-> trace[c].ran]

DeferredInOrder == Gate!GateSpec

\* Every path that ends a connection, or its admission, gives back what it took
\* from the budgets that all connections share, and no more.
BudgetsBalance ==
    /\ pending = {c \in BrokerClients : Waits(c)}
    /\ Cardinality(pending) <= MaxUndecided
    /\ budget = Cardinality({p \in BrokerClients \X Filters : p[2] \in conn[p[1]].subs})
    /\ \A c \in BrokerClients : conn[c].state # "active" => conn[c].subs = {}

\* The retained bytes are those of the retained messages.
RetainedAccounted ==
    /\ retainedBytes = Cardinality({b \in Topics \X (1..MaxSize) : b[2] <= retained[b[1]]})
    /\ Cardinality(Stored(BrokerWorld)) <= MaxRetained

\* A subscriber has been sent what is retained for its topics, or something newer,
\* however its subscriptions overlap and whenever it subscribed.
SubscribersCurrent ==
    \A c \in BrokerClients : \A t \in Topics :
        Receives(BrokerWorld, c, t) => t \notin trace[c].behind

\* The broker's counters are what its clients and its retained messages add up to,
\* and no subscriber lags behind what is retained.
BrokerAccounts == BudgetsBalance /\ RetainedAccounted /\ SubscribersCurrent

\* The will of a client is published exactly when it was admitted and lost.
WillWhenLost ==
    \A c \in BrokerClients :
        trace[c].wills =
            IF trace[c].admitted /\ trace[c].left = "lost" /\ conn[c].will # NoWill
            THEN 1 ELSE 0

\* Nobody holds one of the few places of undecided connections for ever, even when
\* the policy never answers.
PlaceOfIsFreed(c) == c \in pending ~> c \notin pending

PlaceIsFreed == \A c \in BrokerClients : PlaceOfIsFreed(c)
=============================================================================
