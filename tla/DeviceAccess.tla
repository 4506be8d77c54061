---------------------------- MODULE DeviceAccess ----------------------------
(***************************************************************************)
(* Which MQTT connection may speak and listen for which appliance.         *)
(*                                                                         *)
(* DeviceMQTTAccess (cloud/mqtt-access.ts) admits a connection by its      *)
(* source address, binds it to one appliance identity, and revokes it when *)
(* the inventory of RouterConfigStore no longer agrees.  Nothing tells it  *)
(* that the inventory changed: a session is compared with the inventory    *)
(* only when the connection is used, so edits, connections, pending        *)
(* address lookups and disconnections interleave freely.                   *)
(***************************************************************************)
EXTENDS FiniteSets

CONSTANTS
    Clients,     \* connection objects of the broker
    Entries,     \* entryId values of the router inventory
    Ips,         \* IPv4 source addresses
    Ids,         \* appliance identifiers
    Accounts,    \* diagnostic accounts of the configuration
    AccountIds,  \* the appliances each account may follow
    Writers,     \* the accounts with allow_publish
    None,        \* an absent identifier or an unresolved address
    NoEntry      \* an inventory slot nobody registered

ASSUME AccessAssumption ==
    /\ AccountIds \in [Accounts -> SUBSET Ids]
    /\ Writers \subseteq Accounts
    /\ None \notin Ids \cup Ips
    /\ Accounts \cap (Ips \cup {None}) = {}

VARIABLES
    inventory,  \* what RouterConfigStore.devices() returns
    phase,      \* Client.state: "closed", "pending" or "active"
    awaiting,   \* connections whose address lookup has not answered yet
    session,    \* the WeakMap from connections to sessions
    claims,     \* per entry, the identity claimed and the connections behind it
    will        \* connections admitted with a will message

vars == <<inventory, phase, awaiting, session, claims, will>>

MaybeId == Ids \cup {None}

Entry == [ip : Ips, deviceId : MaybeId, autoLink : BOOLEAN, thinq1 : BOOLEAN]

ASSUME NoEntryAssumption == NoEntry \notin Entry

ApplianceSession ==
    [kind : {"appliance"}, entry : Entries, ip : Ips, id : MaybeId,
     linked : BOOLEAN, revoked : BOOLEAN]

DiagnosticSession == [kind : {"diagnostic"}, account : Accounts]

NoSession == [kind |-> "none"]

Session == ApplianceSession \cup DiagnosticSession \cup {NoSession}

Claim == [id : MaybeId, clients : SUBSET Clients]

NoClaim == [id |-> None, clients |-> {}]

\* A will: none, one on a topic that names no uplink, or one for an appliance.
Will ==
    [kind : {"none", "badTopic"}]
        \cup [kind : {"device"}, id : Ids, wellFormed : BOOLEAN]

\* A publication on a complete device topic.  "acceptable" stands for a payload
\* that parses and repeats the identifier of the topic and, from a diagnostic
\* account, for one that is not retained.
Message ==
    [kind : {"lime", "message", "provisioning"}, id : Ids, acceptable : BOOLEAN]

-----------------------------------------------------------------------------
\* What a session is worth under the present inventory.

Listed == {e \in Entries : inventory[e] # NoEntry}

Eligible(e) ==
    /\ e \in Listed
    /\ inventory[e].autoLink
    /\ ~inventory[e].thinq1

UniqueIp(e) == \A o \in Listed \ {e} : inventory[o].ip # inventory[e].ip

HeldElsewhere(e, id) == \E o \in Listed \ {e} : inventory[o].deviceId = id

\* Revoked sessions stay revoked; the others are compared with the inventory.
Current(s) ==
    /\ ~s.revoked
    /\ Eligible(s.entry)
    /\ inventory[s.entry].ip = s.ip
    /\ UniqueIp(s.entry)
    /\ inventory[s.entry].deviceId \in {None, s.id} \/ s.id = None
    /\ s.linked => inventory[s.entry].deviceId = s.id
    /\ s.id # None => ~HeldElsewhere(s.entry, s.id)

\* The memory current() leaves in the session it looked at.
RefreshFollowingInventory(s) ==
    IF inventory[s.entry] # NoEntry /\ inventory[s.entry].deviceId # None
    THEN [s EXCEPT !.id = inventory[s.entry].deviceId, !.linked = TRUE]
    ELSE [s EXCEPT !.revoked = ~Current(s)]

Refresh(s) ==
    IF Current(s)
    THEN [s EXCEPT !.linked = s.linked \/ (inventory[s.entry].deviceId # None /\ s.id # None)]
    ELSE [s EXCEPT !.revoked = TRUE]

IsAppliance(s) == s.kind = "appliance"

RefreshAll(ss, cs) ==
    [k \in Clients |-> IF k \in cs /\ IsAppliance(ss[k]) THEN Refresh(ss[k]) ELSE ss[k]]

Result(ok, ss, cl) == [ok |-> ok, session |-> ss, claims |-> cl]

-----------------------------------------------------------------------------
\* bind(): the connection asks to be the appliance "id".

Permitted(s, id) ==
    /\ Current(s)
    /\ inventory[s.entry].deviceId \in {None, id}
    /\ s.id \in {None, id}
    /\ ~HeldElsewhere(s.entry, id)

\* Claims keep only the connections whose session is still current.
PruneKeepingStale(cl, ss) == cl

Prune(cl, ss) ==
    [e \in Entries |->
        LET live == {k \in cl[e].clients : IsAppliance(ss[k]) /\ Current(ss[k])}
        IN  IF live = {} THEN NoClaim ELSE [id |-> cl[e].id, clients |-> live]]

ConflictIgnoringOthers(cl, e, id) == cl[e].clients # {} /\ cl[e].id # id

Conflict(cl, e, id) ==
    \/ \E o \in Entries \ {e} : cl[o].clients # {} /\ cl[o].id = id
    \/ cl[e].clients # {} /\ cl[e].id # id

Identified(s, id) ==
    [s EXCEPT !.id = id, !.linked = s.linked \/ inventory[s.entry].deviceId # None]

Claimants(cl) == UNION {cl[e].clients : e \in Entries}

Bind(ss, cl, c, id) ==
    LET e      == ss[c].entry
        own    == RefreshAll(ss, {c})
        fresh  == RefreshAll(own, Claimants(cl))
        pruned == Prune(cl, own)
    IN  IF ~Permitted(ss[c], id) THEN Result(FALSE, own, cl)
        ELSE IF Conflict(pruned, e, id) THEN Result(FALSE, fresh, pruned)
        ELSE Result(TRUE,
                    [fresh EXCEPT ![c] = Identified(fresh[c], id)],
                    [pruned EXCEPT ![e] = [id |-> id, clients |-> pruned[e].clients \cup {c}]])

-----------------------------------------------------------------------------
\* The decisions of the policy: each returns its verdict and what it changed.

\* publish()
AllowPublish(ss, cl, c, m) ==
    LET s == ss[c] IN
    CASE s.kind = "none" \/ ~m.acceptable -> Result(FALSE, ss, cl)
      [] s.kind = "diagnostic" ->
            Result(/\ s.account \in Writers
                   /\ m.kind = "lime"
                   /\ m.id \in AccountIds[s.account], ss, cl)
      [] OTHER ->
            IF \/ ~Current(s)
               \/ m.kind = "lime"
               \/ s.id = None /\ m.kind # "provisioning"
            THEN Result(FALSE, RefreshAll(ss, {c}), cl)
            ELSE Bind(ss, cl, c, m.id)

\* deliver(): the verdict only; a fan-out refreshes every session it asks.
MayDeliver(c, id) ==
    CASE session[c].kind = "diagnostic" -> id \in AccountIds[session[c].account]
      [] session[c].kind = "appliance" -> Current(session[c]) /\ session[c].id = id
      [] OTHER -> FALSE

\* disconnect()
DropClaimLeavingId(cl, ss, c) ==
    IF IsAppliance(ss[c]) THEN [cl EXCEPT ![ss[c].entry].clients = @ \ {c}] ELSE cl

DropClaim(cl, ss, c) ==
    IF IsAppliance(ss[c])
    THEN LET e    == ss[c].entry
             rest == cl[e].clients \ {c}
         IN  [cl EXCEPT ![e] = IF rest = {} THEN NoClaim
                               ELSE [id |-> cl[e].id, clients |-> rest]]
    ELSE cl

Disconnect(r, c) ==
    /\ session' = [r.session EXCEPT ![c] = NoSession]
    /\ claims' = DropClaim(r.claims, r.session, c)

\* connect(), once the source address is known to be "ip".
Matches(e, ip) == Eligible(e) /\ inventory[e].ip = ip /\ UniqueIp(e)

Admission(c, e, w) ==
    LET id      == inventory[e].deviceId
        started == [session EXCEPT ![c] =
                        [kind |-> "appliance", entry |-> e, ip |-> inventory[e].ip,
                         id |-> id, linked |-> id # None, revoked |-> FALSE]]
        bound   == IF id = None THEN Result(TRUE, started, claims)
                   ELSE Bind(started, claims, c, id)
        willed  == Bind(bound.session, bound.claims, c, w.id)
    IN  IF ~bound.ok \/ w.kind = "none" THEN bound
        ELSE IF w.kind = "badTopic" THEN Result(FALSE, bound.session, bound.claims)
        ELSE Result(willed.ok /\ w.wellFormed, willed.session, willed.claims)

AdmissionFrom(c, ip, w) ==
    IF \E e \in Entries : Matches(e, ip)
    THEN Admission(c, CHOOSE e \in Entries : Matches(e, ip), w)
    ELSE Result(FALSE, session, claims)

-----------------------------------------------------------------------------
Active == {c \in Clients : phase[c] = "active"}

\* Broker.publishAllowed asks deliver() of every active connection.
FanOut(r, cs) == Result(r.ok, RefreshAll(r.session, cs), r.claims)

\* What the policy sees of Client.destroy: the will of an active connection that
\* did not say goodbye is authorised and delivered first, then the policy forgets it.
LastWill(ss, cl, c, graceful) ==
    LET w == AllowPublish(ss, cl, c,
                          [kind |-> "message", id |-> ss[c].id, acceptable |-> TRUE])
    IN  IF graceful \/ phase[c] # "active" \/ c \notin will THEN Result(TRUE, ss, cl)
        ELSE IF w.ok THEN FanOut(w, Active \ {c})
        ELSE w

Destroy(ss, cl, c, graceful) ==
    /\ phase' = [phase EXCEPT ![c] = "closed"]
    /\ will' = will \ {c}
    /\ Disconnect(LastWill(ss, cl, c, graceful), c)

\* A CONNECT packet arrives: the policy starts to look the address up.
Connect(c) ==
    /\ phase[c] = "closed"
    /\ c \notin awaiting
    /\ phase' = [phase EXCEPT ![c] = "pending"]
    /\ awaiting' = awaiting \cup {c}
    /\ UNCHANGED <<inventory, session, claims, will>>

Decided(c, r, hasWill) ==
    IF r.ok
    THEN /\ phase' = [phase EXCEPT ![c] = "active"]
         /\ will' = IF hasWill THEN will \cup {c} ELSE will
         /\ session' = r.session
         /\ claims' = r.claims
    ELSE Destroy(r.session, r.claims, c, TRUE)

\* The lookup answers while the connection still waits for it.
ConnectAppliance(c, ip, w) ==
    /\ c \in awaiting
    /\ phase[c] = "pending"
    /\ awaiting' = awaiting \ {c}
    /\ Decided(c, AdmissionFrom(c, ip, w), w.kind = "device")
    /\ UNCHANGED inventory

ConnectDiagnostic(c, a) ==
    /\ c \in awaiting
    /\ phase[c] = "pending"
    /\ awaiting' = awaiting \ {c}
    /\ Decided(c, Result(TRUE, [session EXCEPT ![c] = [kind |-> "diagnostic", account |-> a]],
                         claims), FALSE)
    /\ UNCHANGED inventory

\* The lookup answers a connection that has gone: its signal was aborted.
LateAnswerTrusted(c) ==
    /\ c \in awaiting
    /\ phase[c] = "closed"
    /\ awaiting' = awaiting \ {c}
    /\ \E ip \in Ips :
        /\ session' = AdmissionFrom(c, ip, [kind |-> "none"]).session
        /\ claims' = AdmissionFrom(c, ip, [kind |-> "none"]).claims
    /\ UNCHANGED <<inventory, phase, will>>

LateAnswer(c) ==
    /\ c \in awaiting
    /\ phase[c] = "closed"
    /\ awaiting' = awaiting \ {c}
    /\ UNCHANGED <<inventory, phase, session, claims, will>>

\* A refused publication costs the connection; an accepted one is fanned out.
Publish(c, m) ==
    LET r == AllowPublish(session, claims, c, m) IN
    /\ phase[c] = "active"
    /\ IF r.ok
       THEN /\ session' = FanOut(r, Active).session
            /\ claims' = r.claims
            /\ UNCHANGED <<phase, will>>
       ELSE Destroy(r.session, r.claims, c, FALSE)
    /\ UNCHANGED <<inventory, awaiting>>

\* subscribe() on a downlink topic by an appliance connection.
Subscribe(c, id) ==
    LET r == Bind(session, claims, c, id) IN
    /\ phase[c] = "active"
    /\ IsAppliance(session[c])
    /\ session' = r.session
    /\ claims' = r.claims
    /\ UNCHANGED <<inventory, phase, awaiting, will>>

\* The program itself publishes on a device topic.
ServerPublish ==
    /\ session' = RefreshAll(session, Active)
    /\ UNCHANGED <<inventory, phase, awaiting, claims, will>>

Close(c, graceful) ==
    /\ phase[c] # "closed"
    /\ Destroy(session, claims, c, graceful)
    /\ UNCHANGED <<inventory, awaiting>>

-----------------------------------------------------------------------------
\* The inventory changes under the sessions: RouterConfigStore's operations.

EditInventory(e, x) ==
    /\ inventory' = [inventory EXCEPT ![e] = x]
    /\ UNCHANGED <<phase, awaiting, session, claims, will>>

IpFree(ip) == \A o \in Listed : inventory[o].ip # ip

Unidentified(ip) == [ip |-> ip, deviceId |-> None, autoLink |-> TRUE, thinq1 |-> FALSE]

AddDevice(e, ip) ==
    /\ e \notin Listed
    /\ IpFree(ip)
    /\ EditInventory(e, Unidentified(ip))

MoveDevice(e, ip) ==
    /\ e \in Listed
    /\ IpFree(ip)
    /\ EditInventory(e, Unidentified(ip))

DeleteDevice(e) ==
    /\ e \in Listed
    /\ EditInventory(e, NoEntry)

LinkDevice(e, id, thinq1) ==
    /\ e \in Listed
    /\ ~HeldElsewhere(e, id)
    /\ EditInventory(e, [ip |-> inventory[e].ip, deviceId |-> id,
                         autoLink |-> TRUE, thinq1 |-> thinq1])

LinkByIp(e, id, thinq1) ==
    /\ e \in Listed
    /\ inventory[e].autoLink
    /\ inventory[e].deviceId \in {None, id}
    /\ ~HeldElsewhere(e, id)
    /\ EditInventory(e, [inventory[e] EXCEPT !.deviceId = id, !.thinq1 = thinq1])

UnlinkDevice(e) ==
    /\ e \in Listed
    /\ EditInventory(e, [Unidentified(inventory[e].ip) EXCEPT !.autoLink = FALSE])

-----------------------------------------------------------------------------
\* The file is read at start-up; a hand-edited one may repeat an address or an
\* identifier, which no operation of the store would do.
Init ==
    /\ inventory \in [Entries -> Entry \cup {NoEntry}]
    /\ phase = [c \in Clients |-> "closed"]
    /\ awaiting = {}
    /\ session = [c \in Clients |-> NoSession]
    /\ claims = [e \in Entries |-> NoClaim]
    /\ will = {}

ClientNext(c) ==
    \/ Connect(c)
    \/ \E ip \in Ips \cup {None}, w \in Will : ConnectAppliance(c, ip, w)
    \/ \E a \in Accounts : ConnectDiagnostic(c, a)
    \/ LateAnswer(c)
    \/ \E m \in Message : Publish(c, m)
    \/ \E id \in Ids : Subscribe(c, id)
    \/ \E graceful \in BOOLEAN : Close(c, graceful)

InventoryNext(e) ==
    \/ \E ip \in Ips : AddDevice(e, ip) \/ MoveDevice(e, ip)
    \/ DeleteDevice(e)
    \/ \E id \in Ids, thinq1 \in BOOLEAN : LinkDevice(e, id, thinq1) \/ LinkByIp(e, id, thinq1)
    \/ UnlinkDevice(e)

Next ==
    \/ \E c \in Clients : ClientNext(c)
    \/ ServerPublish
    \/ \E e \in Entries : InventoryNext(e)

Spec == Init /\ [][Next]_vars

-----------------------------------------------------------------------------
\* Type invariant; a claim goes away with the last connection behind it, so an
\* identity without connections is never kept (bind() and disconnect()).
TypeOK ==
    /\ inventory \in [Entries -> Entry \cup {NoEntry}]
    /\ phase \in [Clients -> {"closed", "pending", "active"}]
    /\ awaiting \subseteq Clients
    /\ session \in [Clients -> Session]
    /\ claims \in [Entries -> Claim]
    /\ \A e \in Entries : claims[e].clients = {} <=> claims[e].id = None
    /\ will \subseteq Clients

\* Everyone behind a claim has a session of that entry with the claimed identity.
Grounded(ss, cl) ==
    \A e \in Entries : \A k \in cl[e].clients :
        IsAppliance(ss[k]) /\ ss[k].entry = e /\ ss[k].id = cl[e].id

\* No identity is claimed for two entries.
Disjoint(cl) ==
    \A e, o \in Entries :
        e # o /\ cl[e].clients # {} /\ cl[o].clients # {} => cl[e].id # cl[o].id

\* The sessions of cs that are not revoked and have an identity are behind a claim.
Backed(ss, cl, cs) ==
    \A k \in cs :
        IsAppliance(ss[k]) /\ ~ss[k].revoked /\ ss[k].id # None
        => k \in cl[ss[k].entry].clients

\* Sessions and claims, two maps the code keeps apart, agree: bind() adds to a
\* claim, prunes claims and revokes sessions in one go, and disconnect() takes a
\* connection out of both, so neither ever records what the other denies.
SessionsMatchClaims ==
    /\ Grounded(session, claims)
    /\ Disjoint(claims)
    /\ Backed(session, claims, Active)

\* Only one inventory entry can act as an appliance: while one connection would
\* be given its downlink, no connection of another entry is accepted as its
\* uplink, whatever was linked, moved or claimed before (publish() and deliver()).
SingleOwner ==
    \A c, d \in Active, id \in Ids :
        /\ IsAppliance(session[c])
        /\ IsAppliance(session[d])
        /\ AllowPublish(session, claims, c,
                        [kind |-> "provisioning", id |-> id, acceptable |-> TRUE]).ok
        /\ MayDeliver(d, id)
        => session[c].entry = session[d].entry

\* A connection that has closed, even during its address lookup, leaves neither
\* a session nor a place in a claim behind (connect() after signal.aborted,
\* disconnect()).
ClosedLeavesNothing ==
    \A c \in Clients : phase[c] # "active" =>
        /\ session[c] = NoSession
        /\ \A e \in Entries : c \notin claims[e].clients

\* An appliance the owner linked is never locked out: a new connection from the
\* address of its entry is admitted whatever claims earlier connections left
\* behind (bind() prunes before it looks for a conflict).
LinkedOwnerAdmitted ==
    \A c \in Clients, e \in Entries :
        /\ phase[c] = "closed"
        /\ Eligible(e)
        /\ UniqueIp(e)
        /\ inventory[e].deviceId # None
        /\ ~HeldElsewhere(e, inventory[e].deviceId)
        => AdmissionFrom(c, inventory[e].ip, [kind |-> "none"]).ok

\* The two maps agree, and what has ended is in neither of them.
ClaimsSound == SessionsMatchClaims /\ ClosedLeavesNothing

\* Nobody speaks for another entry's appliance, and the owner's is not kept out
\* by what others did before.
OwnersServed == SingleOwner /\ LinkedOwnerAdmitted

KeepsIdentity ==
    \A c \in Clients :
        /\ IsAppliance(session[c])
        /\ session[c].id # None
        /\ session'[c].kind # "none"
        => /\ session'[c].id = session[c].id
           /\ session'[c].entry = session[c].entry

\* A connection never changes the appliance it speaks for, nor the entry it was
\* admitted under: only a new connection can (bind() on session.id).
IdentityStable == [][KeepsIdentity]_vars

=============================================================================
