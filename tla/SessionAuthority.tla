--------------------------- MODULE SessionAuthority ---------------------------
(***************************************************************************)
(* Sessions of the management pages (management-gateway/session-proxy).    *)
(*                                                                         *)
(* The authority (session-store.mjs) alone says which sessions are alive.  *)
(* Beside it express-session keeps their data in a store that drops the    *)
(* least recently used when it is full, and connections that were upgraded *)
(* (service.mjs) live on after the request they began with.  Logins,       *)
(* upgrades and responses wait for others, and meanwhile a session may be  *)
(* revoked, renewed, dropped from the store, or expire.                    *)
(***************************************************************************)
EXTENDS Naturals, Sequences, SequencesExt

CONSTANTS
    Sessions,   \* session identifiers
    Logins,     \* requests to log in
    Tunnels,    \* upgraded connections
    NoSession,  \* no session, or a new one that is not stored
    MaxStored,  \* SESSION_LIMIT
    MaxGeneration

ASSUME SessionAssumption ==
    /\ NoSession \notin Sessions
    /\ MaxStored \in Nat \ {0} /\ MaxGeneration \in Nat \ {0}

VARIABLES
    record,     \* records of the authority
    store,      \* what the store holds, the least recently used first
    stored,     \* the generation whose expiry the stored session has
    responses,  \* sessions that a response not yet ended has loaded
    login,
    tunnel

vars == <<record, store, stored, responses, login, tunnel>>

Record == [generation : 1..MaxGeneration, overdue : BOOLEAN,
           clients : SUBSET Tunnels, upstreams : SUBSET Tunnels]

NoRecord == [generation |-> 0]

Login == [phase : {"idle", "verifying", "regenerating", "saving"}, id : Sessions \cup {NoSession}]

Tunnel == [phase : {"idle", "waiting", "up"}, id : Sessions \cup {NoSession},
           client : BOOLEAN, upstream : BOOLEAN]

NoTunnel == [phase |-> "idle", id |-> NoSession, client |-> FALSE, upstream |-> FALSE]

TypeOK ==
    /\ record \in [Sessions -> Record \cup {NoRecord}]
    /\ store \in Seq(Sessions) /\ IsInjective(store)
    /\ stored \in [Sessions -> 0..MaxGeneration]
    /\ responses \in SUBSET Sessions
    /\ login \in [Logins -> Login]
    /\ tunnel \in [Tunnels -> Tunnel]

-----------------------------------------------------------------------------
\* The authority, as functions from one state of it to the next.
Now == [record |-> record, store |-> store, stored |-> stored, tunnel |-> tunnel]

Becomes(w) ==
    /\ record' = w.record /\ store' = w.store /\ stored' = w.stored /\ tunnel' = w.tunnel

Alive(w, id) == id \in Sessions /\ w.record[id] # NoRecord

\* revoke(): every attached socket is destroyed, and the store forgets the session.
Revoke(w, id) ==
    IF ~Alive(w, id) THEN w
    ELSE [record |-> [w.record EXCEPT ![id] = NoRecord],
          store |-> RemoveFirst(w.store, id),
          stored |-> [w.stored EXCEPT ![id] = 0],
          tunnel |-> [t \in Tunnels |->
              [w.tunnel[t] EXCEPT
                  !.client = w.tunnel[t].client /\ t \notin w.record[id].clients,
                  !.upstream = w.tunnel[t].upstream /\ t \notin w.record[id].upstreams]]]

\* active(): who looks at a session that is overdue ends it.
Look(w, id) == IF Alive(w, id) /\ w.record[id].overdue THEN Revoke(w, id) ELSE w

KeepTwice(w, id) ==
    LET looked == Look(w, id)
    IN  IF ~Alive(looked, id) \/ Len(looked.store) = MaxStored THEN looked
        ELSE [looked EXCEPT !.store = Append(looked.store, id),
                            !.stored[id] = looked.record[id].generation]

KeepUnchecked(w, id) ==
    LET kept == [w EXCEPT !.store = Append(RemoveFirst(w.store, id), id),
                          !.stored[id] = w.record[id].generation]
    IN  IF Len(kept.store) > MaxStored THEN Revoke(kept, Head(kept.store)) ELSE kept

\* store.set(): ignored without a record; otherwise the present expiry is stored,
\* and a full store disposes of the least recently used session.
Keep(w, id) ==
    LET looked == Look(w, id)
        kept == [looked EXCEPT !.store = Append(RemoveFirst(looked.store, id), id),
                               !.stored[id] = looked.record[id].generation]
    IN  IF ~Alive(looked, id) THEN looked
        ELSE IF Len(kept.store) > MaxStored THEN Revoke(kept, Head(kept.store)) ELSE kept

\* grant()
Grant(w, id) ==
    [w EXCEPT !.record[id] = [generation |-> 1, overdue |-> FALSE, clients |-> {}, upstreams |-> {}]]

Fresh(id) ==
    /\ ~Alive(Now, id) /\ id \notin responses
    /\ \A l \in Logins : login[l].id # id
    /\ \A t \in Tunnels : tunnel[t].id # id

-----------------------------------------------------------------------------
\* Requests.  express-session loads the session first, which counts as a use.
Load(id) ==
    LET looked == Look(Now, id) IN
    /\ id \in Range(store)
    /\ Becomes(IF Alive(looked, id)
               THEN [looked EXCEPT !.store = Append(RemoveFirst(looked.store, id), id)] ELSE looked)
    /\ responses' = responses \cup {id}
    /\ UNCHANGED login

\* At the end of a response express-session may save the session it has loaded.
ResponseEnds(id, saves) ==
    /\ id \in responses
    /\ Becomes(IF saves THEN Keep(Now, id) ELSE Now)
    /\ responses' = responses \ {id}
    /\ UNCHANGED login

\* extend(), with the generation the page has seen, and the save after it.
Extend(id, generation) ==
    LET looked == Look(Now, id)
        renewed == [looked EXCEPT !.record[id].generation = generation + 1]
    IN
    /\ id \in responses
    /\ generation < MaxGeneration
    /\ Becomes(IF Alive(looked, id) /\ looked.record[id].generation = generation
               THEN Keep(renewed, id) ELSE looked)
    /\ UNCHANGED <<responses, login>>

Logout(id) ==
    /\ id \in responses
    /\ Becomes(Revoke(Now, id))
    /\ UNCHANGED <<responses, login>>

-----------------------------------------------------------------------------
\* Logging in waits for the password check, for the old session to be destroyed,
\* and for the new one to be saved.
Begin(l, old) ==
    /\ login[l].phase = "idle"
    /\ old \in responses \cup {NoSession}
    /\ login' = [login EXCEPT ![l] = [phase |-> "verifying", id |-> old]]
    /\ UNCHANGED <<record, store, stored, responses, tunnel>>

Verified(l) ==
    /\ login[l].phase = "verifying"
    /\ Becomes(Revoke(Now, login[l].id))
    /\ login' = [login EXCEPT ![l] = [phase |-> "regenerating", id |-> NoSession]]
    /\ UNCHANGED responses

\* The password is wrong, or the store fails.
LoginFails(l) ==
    /\ login[l].phase \in {"verifying", "regenerating"}
    /\ login' = [login EXCEPT ![l] = [phase |-> "idle", id |-> NoSession]]
    /\ UNCHANGED <<record, store, stored, responses, tunnel>>

Regenerated(l, id) ==
    /\ login[l].phase = "regenerating" /\ Fresh(id)
    /\ Becomes(Keep(Grant(Now, id), id))
    /\ login' = [login EXCEPT ![l] = [phase |-> "saving", id |-> id]]
    /\ UNCHANGED responses

\* Saved; a save that failed, or came too late, ends the session.
Saved(l, failed) ==
    LET looked == Look(Now, login[l].id) IN
    /\ login[l].phase = "saving"
    /\ Becomes(IF failed THEN Revoke(looked, login[l].id) ELSE looked)
    /\ login' = [login EXCEPT ![l] = [phase |-> "idle", id |-> NoSession]]
    /\ UNCHANGED responses

-----------------------------------------------------------------------------
\* Upgraded connections.  The client is attached before the backend is asked; it
\* may have gone already, and then nothing detaches it before the session ends.
Upgrade(t, id, open) ==
    LET looked == Look(Now, id) IN
    /\ tunnel[t] = NoTunnel
    /\ id \in responses
    /\ Becomes(IF Alive(looked, id)
               THEN [looked EXCEPT
                        !.record[id].clients = looked.record[id].clients \cup {t},
                        !.tunnel[t] = [phase |-> "waiting", id |-> id, client |-> open, upstream |-> FALSE]]
               ELSE looked)
    /\ UNCHANGED <<responses, login>>

UpstreamOpensUnchecked(t) ==
    /\ tunnel[t].phase = "waiting"
    /\ Becomes([Now EXCEPT !.tunnel[t].phase = "up", !.tunnel[t].upstream = tunnel[t].client])
    /\ UNCHANGED <<responses, login>>

\* The backend has answered: its socket is attached too, or destroyed when the
\* client or the session has gone in the meantime.
UpstreamOpens(t) ==
    LET id == tunnel[t].id
        looked == IF tunnel[t].client THEN Look(Now, id) ELSE Now
        attached == tunnel[t].client /\ Alive(looked, id)
    IN
    /\ tunnel[t].phase = "waiting"
    /\ Becomes(IF attached
               THEN [looked EXCEPT !.record[id].upstreams = looked.record[id].upstreams \cup {t},
                                   !.tunnel[t].phase = "up", !.tunnel[t].upstream = TRUE]
               ELSE [looked EXCEPT !.tunnel[t].phase = "up"])
    /\ UNCHANGED <<responses, login>>

Detached(w, t, id) ==
    IF ~Alive(w, id) THEN w
    ELSE [w EXCEPT !.record[id].clients = IF w.tunnel[t].client THEN @ \ {t} ELSE @,
                   !.tunnel[t].client = FALSE]

\* The backend refuses: the client is destroyed.
UpstreamFails(t) ==
    /\ tunnel[t].phase = "waiting"
    /\ Becomes([Detached(Now, t, tunnel[t].id) EXCEPT !.tunnel[t].phase = "up"])
    /\ UNCHANGED <<responses, login>>

ClientCloses(t) ==
    /\ tunnel[t].client
    /\ Becomes(Detached(Now, t, tunnel[t].id))
    /\ UNCHANGED <<responses, login>>

UpstreamCloses(t) ==
    LET id == tunnel[t].id IN
    /\ tunnel[t].upstream
    /\ Becomes([Now EXCEPT !.record[id].upstreams = record[id].upstreams \ {t},
                           !.tunnel[t].upstream = FALSE])
    /\ UNCHANGED <<responses, login>>

\* Both ends are gone; the object stands for another connection.
Collected(t) ==
    /\ tunnel[t].phase = "up" /\ ~tunnel[t].client /\ ~tunnel[t].upstream
    /\ tunnel' = [tunnel EXCEPT ![t] = NoTunnel]
    /\ record' = [id \in Sessions |->
           IF record[id] = NoRecord THEN NoRecord
           ELSE [record[id] EXCEPT !.clients = @ \ {t}]]
    /\ UNCHANGED <<store, stored, responses, login>>

-----------------------------------------------------------------------------
\* Time passes.
Expires(id) ==
    /\ Alive(Now, id) /\ ~record[id].overdue
    /\ record' = [record EXCEPT ![id].overdue = TRUE]
    /\ UNCHANGED <<store, stored, responses, login, tunnel>>

TimerFires(id) ==
    /\ Alive(Now, id) /\ record[id].overdue
    /\ Becomes(Look(Now, id))
    /\ UNCHANGED <<responses, login>>

\* The store goes by the wall clock, which may be ahead, and disposes by itself.
Disposes(id) ==
    /\ id \in Range(store)
    /\ Becomes(Revoke(Now, id))
    /\ UNCHANGED <<responses, login>>

\* close() of the authority revokes every session, and the store holds no others.
Shutdown ==
    /\ record' = [id \in Sessions |-> NoRecord]
    /\ store' = <<>> /\ stored' = [id \in Sessions |-> 0]
    /\ tunnel' = [t \in Tunnels |->
           [tunnel[t] EXCEPT
               !.client = tunnel[t].client
                   /\ \A id \in Sessions : Alive(Now, id) => t \notin record[id].clients,
               !.upstream = tunnel[t].upstream
                   /\ \A id \in Sessions : Alive(Now, id) => t \notin record[id].upstreams]]
    /\ UNCHANGED <<responses, login>>

Init ==
    /\ record = [id \in Sessions |-> NoRecord]
    /\ store = <<>> /\ stored = [id \in Sessions |-> 0]
    /\ responses = {}
    /\ login = [l \in Logins |-> [phase |-> "idle", id |-> NoSession]]
    /\ tunnel = [t \in Tunnels |-> NoTunnel]

Next ==
    \/ \E id \in Sessions :
           \/ Load(id) \/ Logout(id) \/ Expires(id) \/ TimerFires(id) \/ Disposes(id)
           \/ \E saves \in BOOLEAN : ResponseEnds(id, saves)
           \/ \E generation \in 1..MaxGeneration : Extend(id, generation)
    \/ \E l \in Logins :
           \/ \E old \in Sessions \cup {NoSession} : Begin(l, old)
           \/ Verified(l) \/ LoginFails(l)
           \/ \E id \in Sessions : Regenerated(l, id)
           \/ \E failed \in BOOLEAN : Saved(l, failed)
    \/ \E t \in Tunnels :
           \/ \E id \in Sessions, open \in BOOLEAN : Upgrade(t, id, open)
           \/ UpstreamOpens(t) \/ UpstreamFails(t) \/ ClientCloses(t) \/ UpstreamCloses(t)
           \/ Collected(t)
    \/ Shutdown

Spec == Init /\ [][Next]_vars

-----------------------------------------------------------------------------
\* Properties

\* Nothing that was attached survives its session, whichever way that ends and
\* whatever still waits for an answer: an open socket belongs to a live session
\* that knows it.
NothingOutlivesSession ==
    \A t \in Tunnels :
        LET id == tunnel[t].id IN
        /\ tunnel[t].client => Alive(Now, id) /\ t \in record[id].clients
        /\ tunnel[t].upstream => Alive(Now, id) /\ t \in record[id].upstreams

\* "A late response cannot resurrect logout or overwrite a newer renewal": the
\* store holds exactly the sessions that are alive, no more than it may, each with
\* the expiry of its last renewal.
StoreFollowsAuthority ==
    /\ Range(store) = {id \in Sessions : Alive(Now, id)}
    /\ Len(store) <= MaxStored
    /\ \A id \in Sessions : Alive(Now, id) => stored[id] = record[id].generation

\* The authority, the store and the upgraded connections agree.
SessionsAgree == NothingOutlivesSession /\ StoreFollowsAuthority
=============================================================================
