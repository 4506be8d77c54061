------------------------- MODULE DeviceAccessProofs -------------------------
(***************************************************************************)
(* Theorems about DeviceAccess, for any numbers of connections, entries,   *)
(* addresses and identifiers.  What the connections may do rests on the    *)
(* agreement of two maps the code keeps apart: the sessions, one per       *)
(* connection, and the claims, one per inventory entry.                    *)
(***************************************************************************)
EXTENDS DeviceAccess, TLAPS

Typed(ss, cl) ==
    /\ ss \in [Clients -> Session]
    /\ cl \in [Entries -> Claim]
    /\ \A e \in Entries : cl[e].clients = {} <=> cl[e].id = None

Sound(ss, cl, cs) ==
    /\ Typed(ss, cl)
    /\ Grounded(ss, cl)
    /\ Disjoint(cl)
    /\ Backed(ss, cl, cs)

\* What no decision of the policy changes in the sessions.
SameIdentity(ss, tt) ==
    \A k \in Clients :
        /\ ~IsAppliance(ss[k]) => tt[k] = ss[k]
        /\ IsAppliance(ss[k]) =>
            /\ tt[k] \in ApplianceSession
            /\ tt[k].entry = ss[k].entry
            /\ ss[k].id # None => tt[k].id = ss[k].id

-----------------------------------------------------------------------------
\* A session that is an appliance's has the fields of one.
LEMMA ApplianceType ==
    ASSUME NEW s \in Session, IsAppliance(s)
    PROVE  s \in ApplianceSession
BY DEF Session, ApplianceSession, DiagnosticSession, NoSession, IsAppliance

\* refresh() of one session keeps who it is, and says whether its entry is still there.
LEMMA RefreshFields ==
    ASSUME NEW s \in ApplianceSession
    PROVE  /\ Refresh(s) \in ApplianceSession
           /\ Refresh(s).entry = s.entry
           /\ Refresh(s).id = s.id
           /\ ~Refresh(s).revoked => Current(s)
<1>1. CASE Current(s)
    BY <1>1 DEF Refresh, ApplianceSession, Current
<1>2. CASE ~Current(s)
    BY <1>2 DEF Refresh, ApplianceSession
<1> QED BY <1>1, <1>2

\* Refreshing sessions only ever revokes: identities and claims still agree.
LEMMA RefreshAllSound ==
    ASSUME NEW ss, NEW cl, NEW cs, NEW ds, Sound(ss, cl, ds), ds \subseteq Clients
    PROVE  /\ Sound(RefreshAll(ss, cs), cl, ds)
           /\ SameIdentity(ss, RefreshAll(ss, cs))
           /\ \A k \in Clients :
                IsAppliance(ss[k]) =>
                    /\ RefreshAll(ss, cs)[k].id = ss[k].id
                    /\ k \in cs => (RefreshAll(ss, cs)[k].revoked \/ Current(ss[k]))
                    /\ k \notin cs => RefreshAll(ss, cs)[k] = ss[k]
<1> DEFINE tt == RefreshAll(ss, cs)
<1>1. \A k \in Clients : IsAppliance(ss[k]) => ss[k] \in ApplianceSession
    BY ApplianceType DEF Sound, Typed
<1>2. ASSUME NEW k \in Clients, IsAppliance(ss[k]), k \in cs
      PROVE  /\ tt[k] = Refresh(ss[k])
             /\ tt[k] \in ApplianceSession
             /\ tt[k].entry = ss[k].entry
             /\ tt[k].id = ss[k].id
             /\ ~tt[k].revoked => Current(ss[k])
    BY <1>1, <1>2, RefreshFields DEF RefreshAll
<1>3. ASSUME NEW k \in Clients, ~IsAppliance(ss[k]) \/ k \notin cs
      PROVE  tt[k] = ss[k]
    BY <1>3 DEF RefreshAll
<1>4. SameIdentity(ss, tt)
    BY <1>1, <1>2, <1>3 DEF SameIdentity
<1>5. tt \in [Clients -> Session]
    <2>1. \A k \in Clients : tt[k] \in Session
        BY <1>2, <1>3 DEF Sound, Typed, Session
    <2> QED BY <2>1 DEF RefreshAll
<1>6. Typed(tt, cl)
    BY <1>5 DEF Sound, Typed
<1>7. Grounded(tt, cl)
    <2> SUFFICES ASSUME NEW e \in Entries, NEW k \in cl[e].clients
                 PROVE  IsAppliance(tt[k]) /\ tt[k].entry = e /\ tt[k].id = cl[e].id
        BY DEF Grounded
    <2>1. k \in Clients
        BY DEF Sound, Typed, Claim
    <2>2. IsAppliance(ss[k]) /\ ss[k].entry = e /\ ss[k].id = cl[e].id
        BY DEF Sound, Grounded
    <2>3. CASE k \in cs
        BY <1>2, <2>1, <2>2, <2>3 DEF IsAppliance, ApplianceSession
    <2>4. CASE k \notin cs
        BY <1>3, <2>1, <2>2, <2>4
    <2> QED BY <2>3, <2>4
<1>8. Backed(tt, cl, ds)
    <2> SUFFICES ASSUME NEW k \in ds, IsAppliance(tt[k]), ~tt[k].revoked, tt[k].id # None
                 PROVE  k \in cl[tt[k].entry].clients
        BY DEF Backed
    <2>1. k \in Clients
        OBVIOUS
    <2>2. CASE IsAppliance(ss[k]) /\ k \in cs
        BY <1>2, <2>1, <2>2 DEF Sound, Backed, Current
    <2>3. CASE ~(IsAppliance(ss[k]) /\ k \in cs)
        BY <1>3, <2>1, <2>3 DEF Sound, Backed
    <2> QED BY <2>2, <2>3
<1> QED BY <1>2, <1>3, <1>4, <1>6, <1>7, <1>8 DEF Sound

\* bind() keeps sessions and claims in agreement and, when it accepts, puts the
\* connection behind the claim of its entry.
LEMMA BindSound ==
    ASSUME NEW ss, NEW cl, NEW ds, Sound(ss, cl, ds), ds \subseteq Clients,
           NEW c \in Clients, IsAppliance(ss[c]), NEW id \in Ids
    PROVE  LET r == Bind(ss, cl, c, id)
           IN  /\ Sound(r.session, r.claims, ds)
               /\ SameIdentity(ss, r.session)
               /\ r.ok => /\ r.session[c].id = id
                          /\ c \in r.claims[ss[c].entry].clients
<1> DEFINE e      == ss[c].entry
           own    == RefreshAll(ss, {c})
           fresh  == RefreshAll(own, Claimants(cl))
           pruned == Prune(cl, own)
           tt     == [fresh EXCEPT ![c] = Identified(fresh[c], id)]
           nn     == [pruned EXCEPT ![e] = [id |-> id, clients |-> pruned[e].clients \cup {c}]]
<1>1. Sound(own, cl, ds) /\ SameIdentity(ss, own)
    BY RefreshAllSound
<1>2. Sound(fresh, cl, ds) /\ SameIdentity(own, fresh)
    BY <1>1, RefreshAllSound
<1> HIDE DEF own
<1>0. \A k \in Clients :
        IsAppliance(own[k]) /\ k \in Claimants(cl) => fresh[k].revoked \/ Current(own[k])
    BY <1>1, RefreshAllSound
<1> HIDE DEF fresh
<1>3. SameIdentity(ss, fresh)
    BY <1>1, <1>2 DEF SameIdentity, IsAppliance, ApplianceSession
<1>4. ASSUME NEW o \in Entries
      PROVE  /\ pruned[o] \in Claim
             /\ pruned[o].clients \subseteq cl[o].clients
             /\ pruned[o].clients = {} <=> pruned[o].id = None
             /\ pruned[o].clients # {} => pruned[o].id = cl[o].id
             /\ \A k \in cl[o].clients :
                    IsAppliance(own[k]) /\ Current(own[k]) => k \in pruned[o].clients
    <2> DEFINE live == {k \in cl[o].clients : IsAppliance(own[k]) /\ Current(own[k])}
    <2>1. /\ cl[o] \in Claim
          /\ cl[o].clients = {} <=> cl[o].id = None
        BY DEF Sound, Typed
    <2>2. pruned[o] = IF live = {} THEN NoClaim ELSE [id |-> cl[o].id, clients |-> live]
        BY DEF Prune
    <2>3. \A k : k \in live <=> k \in cl[o].clients /\ IsAppliance(own[k]) /\ Current(own[k])
        OBVIOUS
    <2> HIDE DEF pruned, live
    <2>4. CASE live = {}
        <3>1. pruned[o] = [id |-> None, clients |-> {}]
            BY <2>2, <2>4 DEF NoClaim
        <3>2. pruned[o].clients = {} /\ pruned[o].id = None
            BY <3>1
        <3>3. pruned[o] \in Claim
            BY <3>1 DEF Claim, MaybeId
        <3> QED BY <2>3, <2>4, <3>2, <3>3
    <2>5. CASE live # {}
        <3>1. pruned[o] = [id |-> cl[o].id, clients |-> live]
            BY <2>2, <2>5
        <3>2. pruned[o].clients = live /\ pruned[o].id = cl[o].id
            BY <3>1
        <3>3. live \subseteq cl[o].clients
            BY <2>3
        <3>4. cl[o].id \in MaybeId /\ cl[o].clients \subseteq Clients
            BY <2>1 DEF Claim
        <3>5. pruned[o] \in Claim
            BY <3>1, <3>3, <3>4 DEF Claim
        <3>6. cl[o].clients # {} /\ cl[o].id # None
            BY <2>1, <2>5, <3>3
        <3> QED BY <2>3, <2>5, <3>2, <3>3, <3>5, <3>6
    <2> QED BY <2>4, <2>5
<1>5. pruned \in [Entries -> Claim]
    BY <1>4 DEF Prune
<1>6. Sound(fresh, pruned, ds)
    <2>1. Typed(fresh, pruned)
        BY <1>2, <1>4, <1>5 DEF Sound, Typed
    <2>2. Grounded(fresh, pruned)
        <3> SUFFICES ASSUME NEW o \in Entries, NEW k \in pruned[o].clients
                     PROVE  /\ IsAppliance(fresh[k])
                            /\ fresh[k].entry = o
                            /\ fresh[k].id = pruned[o].id
            BY DEF Grounded
        <3>1. k \in cl[o].clients /\ pruned[o].id = cl[o].id
            BY <1>4
        <3> QED BY <1>2, <3>1 DEF Sound, Grounded
    <2>3. Disjoint(pruned)
        <3> SUFFICES ASSUME NEW o \in Entries, NEW p \in Entries, o # p,
                            pruned[o].clients # {}, pruned[p].clients # {}
                     PROVE  pruned[o].id # pruned[p].id
            BY DEF Disjoint
        <3> HIDE DEF pruned
        <3>1. /\ cl[o].clients # {} /\ pruned[o].id = cl[o].id
              /\ cl[p].clients # {} /\ pruned[p].id = cl[p].id
            BY <1>4
        <3> QED BY <3>1 DEF Sound, Disjoint
    <2>4. Backed(fresh, pruned, ds)
        <3> SUFFICES ASSUME NEW k \in ds, IsAppliance(fresh[k]),
                            ~fresh[k].revoked, fresh[k].id # None
                     PROVE  k \in pruned[fresh[k].entry].clients
            BY DEF Backed
        <3>1. k \in cl[fresh[k].entry].clients
            BY <1>2 DEF Sound, Backed
        <3>2. k \in Clients /\ fresh[k].entry \in Entries
            BY <1>2, ApplianceType DEF Sound, Typed, ApplianceSession
        <3>3. IsAppliance(own[k])
            BY <1>2, <3>2 DEF SameIdentity
        <3>4. k \in Claimants(cl)
            BY <3>1, <3>2 DEF Claimants
        <3>5. Current(own[k])
            BY <1>0, <3>2, <3>3, <3>4
        <3> QED BY <1>4, <3>1, <3>2, <3>3, <3>5
    <2> QED BY <2>1, <2>2, <2>3, <2>4 DEF Sound
<1> HIDE DEF pruned
<1>7. CASE ~Permitted(ss[c], id)
    <2>1. Bind(ss, cl, c, id) = Result(FALSE, own, cl)
        BY <1>7 DEF Bind, own
    <2> QED BY <1>1, <2>1 DEF Result
<1>8. CASE Permitted(ss[c], id) /\ Conflict(pruned, e, id)
    <2>1. Bind(ss, cl, c, id) = Result(FALSE, fresh, pruned)
        BY <1>8 DEF Bind, own, fresh, pruned
    <2> QED BY <1>3, <1>6, <2>1 DEF Result
<1>9. CASE Permitted(ss[c], id) /\ ~Conflict(pruned, e, id)
    <2>1. Bind(ss, cl, c, id) = Result(TRUE, tt, nn)
        BY <1>9 DEF Bind, own, fresh, pruned
    <2>2. /\ e \in Entries
          /\ ss[c].id \in {None, id}
          /\ fresh \in [Clients -> Session]
          /\ fresh[c] \in ApplianceSession
          /\ fresh[c].entry = e
          /\ id # None
        BY <1>3, <1>6, <1>9, ApplianceType, AccessAssumption
        DEF Sound, Typed, SameIdentity, Permitted, ApplianceSession
    <2>3. /\ tt[c] \in ApplianceSession
          /\ tt[c].entry = e
          /\ tt[c].id = id
          /\ tt[c].revoked = fresh[c].revoked
          /\ IsAppliance(tt[c])
          /\ \A k \in Clients \ {c} : tt[k] = fresh[k]
          /\ tt \in [Clients -> Session]
        <3> DEFINE f == Identified(fresh[c], id)
        <3>1. /\ f \in ApplianceSession
              /\ f.entry = e
              /\ f.id = id
              /\ f.revoked = fresh[c].revoked
            BY <2>2 DEF Identified, ApplianceSession, MaybeId
        <3>2. tt = [fresh EXCEPT ![c] = f]
            OBVIOUS
        <3> HIDE DEF f, tt
        <3> QED BY <2>2, <3>1, <3>2 DEF Session, IsAppliance, ApplianceSession
    <2>4. /\ nn[e] = [id |-> id, clients |-> pruned[e].clients \cup {c}]
          /\ \A o \in Entries \ {e} : nn[o] = pruned[o]
          /\ nn \in [Entries -> Claim]
        BY <1>5, <2>2 DEF Claim, MaybeId
    <2> HIDE DEF tt, nn
    <2>5. Typed(tt, nn)
        <3>1. \A o \in Entries : nn[o].clients = {} <=> nn[o].id = None
            <4>1. nn[e].clients # {} /\ nn[e].id # None
                BY <2>2, <2>4
            <4>2. ASSUME NEW o \in Entries, o # e
                  PROVE  nn[o].clients = {} <=> nn[o].id = None
                BY <1>4, <2>4, <4>2
            <4> QED BY <4>1, <4>2
        <3> QED BY <2>3, <2>4, <3>1 DEF Typed
    <2>6. Grounded(tt, nn)
        <3> SUFFICES ASSUME NEW o \in Entries, NEW k \in nn[o].clients
                     PROVE  IsAppliance(tt[k]) /\ tt[k].entry = o /\ tt[k].id = nn[o].id
            BY DEF Grounded
        <3>1. k \in Clients
            BY <2>4 DEF Claim
        <3>2. CASE o = e /\ k = c
            BY <2>3, <2>4, <3>2
        <3>3. CASE k # c
            <4>1. k \in pruned[o].clients
                BY <2>4, <3>3
            <4>2. IsAppliance(fresh[k]) /\ fresh[k].entry = o /\ fresh[k].id = pruned[o].id
                BY <1>6, <4>1 DEF Sound, Grounded
            <4>3. o = e => pruned[e].id = id
                BY <1>9, <4>1 DEF Conflict
            <4> QED BY <2>3, <2>4, <3>1, <3>3, <4>2, <4>3
        <3>4. CASE o # e /\ k = c
            <4>1. c \in pruned[o].clients
                BY <2>4, <3>4
            <4> QED BY <1>6, <2>2, <3>4, <4>1 DEF Sound, Grounded
        <3> QED BY <3>2, <3>3, <3>4
    <2>7. Disjoint(nn)
        <3>1. \A o \in Entries \ {e} : nn[o].clients # {} => nn[o].id # id
            BY <1>9, <2>4 DEF Conflict
        <3> QED BY <1>6, <2>4, <3>1 DEF Sound, Disjoint
    <2>8. Backed(tt, nn, ds)
        <3> SUFFICES ASSUME NEW k \in ds, IsAppliance(tt[k]), ~tt[k].revoked, tt[k].id # None
                     PROVE  k \in nn[tt[k].entry].clients
            BY DEF Backed
        <3>1. CASE k = c
            BY <2>3, <2>4, <3>1
        <3>2. CASE k # c
            <4>1. k \in pruned[fresh[k].entry].clients /\ fresh[k].entry \in Entries
                BY <1>6, <2>3, <3>2, ApplianceType DEF Sound, Backed, Typed, ApplianceSession
            <4> QED BY <2>3, <2>4, <3>2, <4>1
        <3> QED BY <3>1, <3>2
    <2>9. SameIdentity(ss, tt)
        BY <1>3, <2>2, <2>3 DEF SameIdentity
    <2> QED
        BY <2>1, <2>3, <2>4, <2>5, <2>6, <2>7, <2>8, <2>9 DEF Sound, Result
<1> QED BY <1>7, <1>8, <1>9

-----------------------------------------------------------------------------
\* Two changes that keep every identity keep it together.
LEMMA SameIdentityTrans ==
    ASSUME NEW ss, NEW tt, NEW uu, SameIdentity(ss, tt), SameIdentity(tt, uu)
    PROVE  SameIdentity(ss, uu)
BY DEF SameIdentity, IsAppliance, ApplianceSession

\* No change keeps every identity.
LEMMA SameIdentitySelf ==
    ASSUME NEW ss \in [Clients -> Session]
    PROVE  SameIdentity(ss, ss)
BY ApplianceType DEF SameIdentity

\* canPublish(), with the identification it may bring about, keeps the agreement.
LEMMA AllowPublishSound ==
    ASSUME NEW ss, NEW cl, NEW ds, Sound(ss, cl, ds), ds \subseteq Clients,
           NEW c \in Clients, NEW m, m.id \in Ids
    PROVE  LET r == AllowPublish(ss, cl, c, m)
           IN  Sound(r.session, r.claims, ds) /\ SameIdentity(ss, r.session)
<1>1. SameIdentity(ss, ss)
    BY SameIdentitySelf DEF Sound, Typed
<1>2. ss[c].kind \in {"none", "diagnostic", "appliance"}
    BY DEF Sound, Typed, Session, ApplianceSession, DiagnosticSession, NoSession
<1>3. CASE ss[c].kind # "appliance" \/ ~m.acceptable
    BY <1>1, <1>2, <1>3 DEF AllowPublish, Result
<1>4. CASE ss[c].kind = "appliance" /\ m.acceptable
    <2>1. CASE \/ ~Current(ss[c])
               \/ m.kind = "lime"
               \/ ss[c].id = None /\ m.kind # "provisioning"
        <3>1. AllowPublish(ss, cl, c, m) = Result(FALSE, RefreshAll(ss, {c}), cl)
            BY <1>4, <2>1 DEF AllowPublish
        <3> QED BY <3>1, RefreshAllSound DEF Result
    <2>2. CASE ~(\/ ~Current(ss[c])
                 \/ m.kind = "lime"
                 \/ ss[c].id = None /\ m.kind # "provisioning")
        <3>1. AllowPublish(ss, cl, c, m) = Bind(ss, cl, c, m.id)
            BY <1>4, <2>2 DEF AllowPublish
        <3> QED BY <1>4, <3>1, BindSound DEF IsAppliance
    <2> QED BY <2>1, <2>2
<1> QED BY <1>3, <1>4

\* disconnect() takes the connection out of the agreement without breaking it.
LEMMA DropSound ==
    ASSUME NEW ss, NEW cl, NEW ds, Sound(ss, cl, ds), ds \subseteq Clients,
           NEW c \in Clients
    PROVE  /\ Sound([ss EXCEPT ![c] = NoSession], DropClaim(cl, ss, c), ds \ {c})
           /\ \A e \in Entries : c \notin DropClaim(cl, ss, c)[e].clients
<1> DEFINE tt == [ss EXCEPT ![c] = NoSession]
           nn == DropClaim(cl, ss, c)
<1>1. /\ tt \in [Clients -> Session]
      /\ tt[c] = NoSession
      /\ \A k \in Clients \ {c} : tt[k] = ss[k]
    BY DEF Sound, Typed, Session
<1>2. \A o \in Entries : cl[o] \in Claim /\ (cl[o].clients = {} <=> cl[o].id = None)
    BY DEF Sound, Typed
<1>3. \A o \in Entries : c \in cl[o].clients => IsAppliance(ss[c]) /\ ss[c].entry = o
    BY DEF Sound, Grounded
<1>4. ASSUME NEW o \in Entries
      PROVE  /\ nn[o] \in Claim
             /\ nn[o].clients = cl[o].clients \ {c}
             /\ nn[o].clients = {} <=> nn[o].id = None
             /\ nn[o].clients # {} => nn[o].id = cl[o].id
    <2>1. CASE IsAppliance(ss[c]) /\ ss[c].entry = o
        <3> DEFINE rest == cl[o].clients \ {c}
        <3>1. nn[o] = IF rest = {} THEN NoClaim ELSE [id |-> cl[o].id, clients |-> rest]
            BY <2>1 DEF DropClaim, Sound, Typed
        <3> HIDE DEF nn
        <3>2. CASE rest = {}
            BY <3>1, <3>2 DEF NoClaim, Claim, MaybeId
        <3>3. CASE rest # {}
            <4>1. cl[o].id # None /\ cl[o].id \in MaybeId /\ cl[o].clients \subseteq Clients
                BY <1>2, <3>3 DEF Claim
            <4> QED BY <3>1, <3>3, <4>1 DEF Claim
        <3> QED BY <3>2, <3>3
    <2>2. CASE ~(IsAppliance(ss[c]) /\ ss[c].entry = o)
        <3>1. nn[o] = cl[o]
            BY <2>2, ApplianceType DEF DropClaim, Sound, Typed, ApplianceSession
        <3>2. c \notin cl[o].clients
            BY <1>3, <2>2
        <3> HIDE DEF nn
        <3>3. cl[o].clients \ {c} = cl[o].clients
            BY <3>2
        <3> QED BY <1>2, <3>1, <3>3
    <2> QED BY <2>1, <2>2
<1>5. nn \in [Entries -> Claim]
    <2>1. nn = [o \in Entries |-> nn[o]]
        BY DEF DropClaim, Sound, Typed
    <2> QED BY <1>4, <2>1
<1> HIDE DEF tt, nn
<1>6. Typed(tt, nn)
    BY <1>1, <1>4, <1>5 DEF Typed
<1>7. Grounded(tt, nn)
    <2> SUFFICES ASSUME NEW o \in Entries, NEW k \in nn[o].clients
                 PROVE  IsAppliance(tt[k]) /\ tt[k].entry = o /\ tt[k].id = nn[o].id
        BY DEF Grounded
    <2>1. k \in cl[o].clients /\ k # c /\ k \in Clients /\ nn[o].id = cl[o].id
        BY <1>2, <1>4 DEF Claim
    <2> QED BY <1>1, <2>1 DEF Sound, Grounded
<1>8. Disjoint(nn)
    <2> SUFFICES ASSUME NEW o \in Entries, NEW p \in Entries, o # p,
                        nn[o].clients # {}, nn[p].clients # {}
                 PROVE  nn[o].id # nn[p].id
        BY DEF Disjoint
    <2>1. /\ cl[o].clients # {} /\ nn[o].id = cl[o].id
          /\ cl[p].clients # {} /\ nn[p].id = cl[p].id
        BY <1>4
    <2> QED BY <2>1 DEF Sound, Disjoint
<1>9. Backed(tt, nn, ds \ {c})
    <2> SUFFICES ASSUME NEW k \in ds \ {c}, IsAppliance(tt[k]), ~tt[k].revoked, tt[k].id # None
                 PROVE  k \in nn[tt[k].entry].clients
        BY DEF Backed
    <2>1. tt[k] = ss[k]
        BY <1>1
    <2>2. k \in cl[ss[k].entry].clients /\ ss[k].entry \in Entries
        BY <2>1, ApplianceType DEF Sound, Backed, Typed, ApplianceSession
    <2> QED BY <1>4, <2>1, <2>2
<1>10. \A o \in Entries : c \notin nn[o].clients
    BY <1>4
<1> QED BY <1>6, <1>7, <1>8, <1>9, <1>10 DEF Sound, tt, nn

-----------------------------------------------------------------------------
\* The inductive invariant: types, the agreement of sessions and claims, and that
\* only admitted connections have a session or a will.
IInv ==
    /\ TypeOK
    /\ SessionsMatchClaims
    /\ \A c \in Clients \ Active : session[c] = NoSession
    /\ will \subseteq Active
    /\ \A c \in will : IsAppliance(session[c]) /\ session[c].id # None

\* SameIdentity for everyone but one connection.
OthersSame(tt, c) ==
    \A k \in Clients \ {c} :
        /\ ~IsAppliance(session[k]) => tt[k] = session[k]
        /\ IsAppliance(session[k]) =>
            /\ tt[k] \in ApplianceSession
            /\ tt[k].entry = session[k].entry
            /\ session[k].id # None => tt[k].id = session[k].id

\* The invariant contains the agreement of sessions and claims.
LEMMA IInvSound ==
    ASSUME IInv
    PROVE  Sound(session, claims, Active) /\ Active \subseteq Clients
BY DEF IInv, TypeOK, SessionsMatchClaims, Sound, Typed, Active

\* Two changes that leave the other connections alone do so together.
LEMMA OthersSameTrans ==
    ASSUME NEW c \in Clients, NEW tt, NEW uu, OthersSame(tt, c), SameIdentity(tt, uu)
    PROVE  OthersSame(uu, c)
BY DEF OthersSame, SameIdentity, IsAppliance, ApplianceSession

\* The will of a destroyed connection is published through the same policy.
LEMMA LastWillSound ==
    ASSUME NEW ss, NEW cl, Sound(ss, cl, Active), NEW c \in Clients, NEW graceful,
           c \in will => IsAppliance(ss[c]) /\ ss[c].id # None
    PROVE  LET w == LastWill(ss, cl, c, graceful)
           IN  Sound(w.session, w.claims, Active) /\ SameIdentity(ss, w.session)
<1> DEFINE m == [kind |-> "message", id |-> ss[c].id, acceptable |-> TRUE]
           w == AllowPublish(ss, cl, c, m)
<1>0. Active \subseteq Clients
    BY DEF Active
<1>1. CASE graceful \/ phase[c] # "active" \/ c \notin will
    <2>1. LastWill(ss, cl, c, graceful) = Result(TRUE, ss, cl)
        BY <1>1 DEF LastWill
    <2> QED BY <2>1, SameIdentitySelf DEF Result, Sound, Typed
<1>2. CASE ~(graceful \/ phase[c] # "active" \/ c \notin will)
    <2>1. LastWill(ss, cl, c, graceful) = IF w.ok THEN FanOut(w, Active \ {c}) ELSE w
        BY <1>2 DEF LastWill
    <2>2. m.id \in Ids
        BY <1>2, ApplianceType DEF Sound, Typed, ApplianceSession, MaybeId
    <2> HIDE DEF m
    <2>3. Sound(w.session, w.claims, Active) /\ SameIdentity(ss, w.session)
        BY <1>0, <2>2, AllowPublishSound
    <2> HIDE DEF w
    <2>4. /\ Sound(RefreshAll(w.session, Active \ {c}), w.claims, Active)
          /\ SameIdentity(w.session, RefreshAll(w.session, Active \ {c}))
        BY <1>0, <2>3, RefreshAllSound
    <2>5. SameIdentity(ss, RefreshAll(w.session, Active \ {c}))
        BY <2>3, <2>4, SameIdentityTrans
    <2> QED BY <2>1, <2>3, <2>4, <2>5 DEF FanOut, Result
<1> QED BY <1>1, <1>2

\* A destroyed connection is forgotten and the others keep what they had.
LEMMA DestroySound ==
    ASSUME IInv, NEW ss, NEW cl, Sound(ss, cl, Active), NEW c \in Clients,
           NEW graceful, OthersSame(ss, c),
           c \in will => IsAppliance(ss[c]) /\ ss[c].id # None,
           Destroy(ss, cl, c, graceful), inventory' = inventory, awaiting' \subseteq Clients
    PROVE  IInv' /\ KeepsIdentity
<1> DEFINE w == LastWill(ss, cl, c, graceful)
<1>0. Active \subseteq Clients
    BY DEF Active
<1>1. Sound(w.session, w.claims, Active) /\ OthersSame(w.session, c)
    BY LastWillSound, OthersSameTrans
<1> HIDE DEF w
<1>2. /\ session' = [w.session EXCEPT ![c] = NoSession]
      /\ claims' = DropClaim(w.claims, w.session, c)
      /\ phase' = [phase EXCEPT ![c] = "closed"]
      /\ will' = will \ {c}
    BY DEF Destroy, Disconnect, w
<1>3. Active' = Active \ {c}
    BY <1>2 DEF Active, IInv, TypeOK
<1>4. Sound(session', claims', Active')
    BY <1>0, <1>1, <1>2, <1>3, DropSound
<1>5. session'[c] = NoSession /\ \A k \in Clients \ {c} : session'[k] = w.session[k]
    BY <1>1, <1>2 DEF Sound, Typed
<1>6. TypeOK'
    BY <1>2, <1>4 DEF IInv, TypeOK, Sound, Typed
<1>7. SessionsMatchClaims'
    BY <1>4 DEF Sound, SessionsMatchClaims, Grounded, Disjoint, Backed, IsAppliance
<1>8. \A k \in Clients \ Active' : session'[k] = NoSession
    BY <1>1, <1>3, <1>5 DEF IInv, OthersSame, IsAppliance, NoSession
<1>9. /\ will' \subseteq Active'
      /\ \A k \in will' : session'[k].kind = "appliance" /\ session'[k].id # None
    BY <1>0, <1>1, <1>2, <1>3, <1>5 DEF IInv, OthersSame, IsAppliance, ApplianceSession
<1>10. KeepsIdentity
    BY <1>1, <1>5 DEF KeepsIdentity, OthersSame, NoSession
<1> QED BY <1>6, <1>7, <1>8, <1>9, <1>10 DEF IInv, IsAppliance

\* A step that destroys nobody keeps the invariant if the policy's outcome is sound.
LEMMA StaySound ==
    ASSUME IInv, Sound(session', claims', Active'), SameIdentity(session, session'),
           inventory' \in [Entries -> Entry \cup {NoEntry}],
           phase' \in [Clients -> {"closed", "pending", "active"}], Active' = Active,
           awaiting' \subseteq Clients, will' = will
    PROVE  IInv' /\ KeepsIdentity
<1>1. TypeOK'
    BY DEF IInv, TypeOK, Sound, Typed
<1>2. SessionsMatchClaims'
    BY DEF Sound, SessionsMatchClaims, Grounded, Disjoint, Backed, IsAppliance
<1>3. \A k \in Clients \ Active' : session'[k] = NoSession
    BY DEF IInv, SameIdentity, IsAppliance, NoSession
<1>4. /\ will' \subseteq Active'
      /\ \A k \in will' : session'[k].kind = "appliance" /\ session'[k].id # None
    BY DEF IInv, Active, SameIdentity, IsAppliance, ApplianceSession
<1>5. KeepsIdentity
    BY DEF KeepsIdentity, SameIdentity
<1> QED BY <1>1, <1>2, <1>3, <1>4, <1>5 DEF IInv, IsAppliance

\* connect() of an appliance: whatever it decides, the others keep what they had,
\* and when it admits the connection, its session is behind a claim or anonymous.
LEMMA AdmissionSound ==
    ASSUME IInv, NEW c \in Clients \ Active, NEW ip, NEW w \in Will
    PROVE  LET r == AdmissionFrom(c, ip, w)
           IN  /\ Sound(r.session, r.claims, Active)
               /\ OthersSame(r.session, c)
               /\ r.ok => /\ IsAppliance(r.session[c])
                          /\ Sound(r.session, r.claims, Active \cup {c})
                          /\ w.kind = "device" => r.session[c].id # None
<1> DEFINE e  == CHOOSE x \in Entries : Matches(x, ip)
           id == inventory[e].deviceId
           started == [session EXCEPT ![c] =
                        [kind |-> "appliance", entry |-> e, ip |-> inventory[e].ip,
                         id |-> id, linked |-> id # None, revoked |-> FALSE]]
           bound  == IF id = None THEN Result(TRUE, started, claims)
                     ELSE Bind(started, claims, c, id)
           willed == Bind(bound.session, bound.claims, c, w.id)
           r      == AdmissionFrom(c, ip, w)
<1>0. /\ Active \subseteq Clients
      /\ Sound(session, claims, Active)
      /\ \A o \in Entries : c \notin claims[o].clients
      /\ c \notin will
    BY IInvSound DEF IInv, SessionsMatchClaims, Grounded, IsAppliance, NoSession
<1>1. CASE ~\E x \in Entries : Matches(x, ip)
    <2>1. r = Result(FALSE, session, claims)
        BY <1>1 DEF AdmissionFrom
    <2>2. OthersSame(session, c)
        BY <1>0, ApplianceType DEF OthersSame, Sound, Typed
    <2> QED BY <1>0, <2>1, <2>2 DEF Result
<1>2. CASE \E x \in Entries : Matches(x, ip)
    <2>1. e \in Entries /\ Matches(e, ip)
        BY <1>2
    <2>2. r = Admission(c, e, w)
        BY <1>2 DEF AdmissionFrom
    <2> HIDE DEF e
    <2>3. id \in MaybeId /\ inventory[e].ip \in Ips
        BY <2>1 DEF Matches, Eligible, Listed, IInv, TypeOK, Entry
    <2>4. /\ started[c] \in ApplianceSession
          /\ started[c].id = id
          /\ started[c].entry = e
          /\ IsAppliance(started[c])
          /\ \A k \in Clients \ {c} : started[k] = session[k]
          /\ started \in [Clients -> Session]
        <3> DEFINE s == [kind |-> "appliance", entry |-> e, ip |-> inventory[e].ip,
                         id |-> id, linked |-> id # None, revoked |-> FALSE]
        <3>1. /\ s \in ApplianceSession
              /\ s.id = id
              /\ s.entry = e
              /\ IsAppliance(s)
            BY <2>1, <2>3 DEF ApplianceSession, IsAppliance
        <3> HIDE DEF s
        <3> QED BY <1>0, <3>1 DEF Sound, Typed, Session, s
    <2>5. r = IF ~bound.ok \/ w.kind = "none" THEN bound
              ELSE IF w.kind = "badTopic" THEN Result(FALSE, bound.session, bound.claims)
              ELSE Result(willed.ok /\ w.wellFormed, willed.session, willed.claims)
        BY <2>2 DEF Admission
    <2> HIDE DEF started
    <2>6. Sound(started, claims, Active) /\ OthersSame(started, c)
        <3>1. Typed(started, claims)
            BY <1>0, <2>4 DEF Sound, Typed
        <3>2. Grounded(started, claims)
            <4> SUFFICES ASSUME NEW o \in Entries, NEW k \in claims[o].clients
                         PROVE  /\ IsAppliance(started[k])
                                /\ started[k].entry = o
                                /\ started[k].id = claims[o].id
                BY DEF Grounded
            <4>1. k \in Clients \ {c}
                BY <1>0 DEF Sound, Typed, Claim
            <4> QED BY <1>0, <2>4, <4>1 DEF Sound, Grounded
        <3>3. Backed(started, claims, Active)
            BY <1>0, <2>4 DEF Sound, Backed
        <3>4. OthersSame(started, c)
            BY <1>0, <2>4, ApplianceType DEF OthersSame, Sound, Typed
        <3> QED BY <1>0, <3>1, <3>2, <3>3, <3>4 DEF Sound
    <2> DEFINE Placed(b) ==
            /\ Sound(b.session, b.claims, Active)
            /\ SameIdentity(started, b.session)
            /\ b.ok => Sound(b.session, b.claims, Active \cup {c})
    <2>7. ASSUME NEW ss, NEW cl, Sound(ss, cl, Active), SameIdentity(started, ss),
                 NEW i \in Ids
          PROVE  /\ Placed(Bind(ss, cl, c, i))
                 /\ Bind(ss, cl, c, i).ok => Bind(ss, cl, c, i).session[c].id # None
        <3> DEFINE b == Bind(ss, cl, c, i)
        <3>1. IsAppliance(ss[c]) /\ c \in Clients
            BY <2>4, <2>7 DEF SameIdentity, IsAppliance, ApplianceSession
        <3>2. /\ Sound(b.session, b.claims, Active)
              /\ SameIdentity(ss, b.session)
              /\ b.ok => b.session[c].id = i /\ c \in b.claims[ss[c].entry].clients
            BY <1>0, <2>7, <3>1, BindSound
        <3> HIDE DEF b
        <3>3. SameIdentity(started, b.session)
            BY <2>7, <3>2, SameIdentityTrans
        <3>4. b.ok => Backed(b.session, b.claims, Active \cup {c})
            BY <3>1, <3>2 DEF Sound, Backed, SameIdentity
        <3>5. b.ok => b.session[c].id # None
            BY <3>2, AccessAssumption
        <3> QED BY <3>2, <3>3, <3>4, <3>5 DEF Sound, b
    <2>8. Placed(bound)
        <3>1. CASE id = None
            <4>1. bound = Result(TRUE, started, claims)
                BY <3>1
            <4>2. Backed(started, claims, Active \cup {c})
                BY <2>4, <2>6, <3>1 DEF Sound, Backed
            <4>3. SameIdentity(started, started)
                BY <2>4, SameIdentitySelf
            <4> QED BY <2>6, <4>1, <4>2, <4>3 DEF Result, Sound
        <3>2. CASE id # None
            <4>1. bound = Bind(started, claims, c, id) /\ id \in Ids
                BY <2>3, <3>2 DEF MaybeId
            <4>2. SameIdentity(started, started)
                BY <2>4, SameIdentitySelf
            <4> HIDE DEF bound, id
            <4> QED BY <2>6, <2>7, <4>1, <4>2
        <3> QED BY <3>1, <3>2
    <2> HIDE DEF bound
    <2>9. w.kind = "device" =>
            Placed(willed) /\ (willed.ok => willed.session[c].id # None)
        <3> SUFFICES ASSUME w.kind = "device"
                     PROVE  Placed(willed) /\ (willed.ok => willed.session[c].id # None)
            OBVIOUS
        <3>1. w.id \in Ids
            BY DEF Will
        <3> QED BY <2>7, <2>8, <3>1
    <2> HIDE DEF willed, r
    <2>10. w.kind \in {"none", "badTopic", "device"}
        BY DEF Will
    <2>11. Placed(r) /\ (r.ok /\ w.kind = "device" => r.session[c].id # None)
        <3>1. CASE ~bound.ok \/ w.kind = "none"
            BY <2>5, <2>8, <3>1
        <3>2. CASE bound.ok /\ w.kind = "badTopic"
            BY <2>5, <2>8, <3>2 DEF Result
        <3>3. CASE bound.ok /\ w.kind = "device"
            BY <2>5, <2>9, <3>3 DEF Result
        <3> QED BY <2>10, <3>1, <3>2, <3>3
    <2>12. OthersSame(r.session, c)
        BY <2>6, <2>11, OthersSameTrans
    <2>13. IsAppliance(r.session[c])
        BY <2>4, <2>11 DEF SameIdentity, IsAppliance, ApplianceSession
    <2> QED BY <2>11, <2>12, <2>13 DEF r
<1> QED BY <1>1, <1>2

-----------------------------------------------------------------------------
\* A connection that opens has no session yet.
LEMMA ConnectStep ==
    ASSUME IInv, NEW c \in Clients, Connect(c)
    PROVE  IInv' /\ KeepsIdentity
<1>1. Active' = Active
    BY DEF Connect, Active, IInv, TypeOK
<1> QED BY <1>1, IInvSound, StaySound, SameIdentitySelf
        DEF Connect, IInv, TypeOK, Sound, Typed, Grounded, Disjoint, Backed, IsAppliance,
            SameIdentity, SessionsMatchClaims

\* Admission or refusal of a connection that was waiting.
LEMMA DecidedStep ==
    ASSUME IInv, NEW c \in Clients \ Active, NEW r, NEW hasWill \in BOOLEAN,
           Sound(r.session, r.claims, Active),
           OthersSame(r.session, c),
           r.ok => Sound(r.session, r.claims, Active \cup {c}),
           r.ok /\ hasWill => IsAppliance(r.session[c]) /\ r.session[c].id # None,
           Decided(c, r, hasWill), inventory' = inventory, awaiting' \subseteq Clients
    PROVE  IInv' /\ KeepsIdentity
<1>1. CASE ~r.ok
    <2>1. Destroy(r.session, r.claims, c, TRUE)
        BY <1>1 DEF Decided
    <2>2. c \notin will
        BY DEF IInv
    <2> QED BY <2>1, <2>2, DestroySound
<1>2. CASE r.ok
    <2>1. /\ phase' = [phase EXCEPT ![c] = "active"]
          /\ will' = IF hasWill THEN will \cup {c} ELSE will
          /\ session' = r.session
          /\ claims' = r.claims
        BY <1>2 DEF Decided
    <2>2. Active' = Active \cup {c} /\ Active \subseteq Clients
        BY <2>1 DEF Active, IInv, TypeOK
    <2>3. Sound(session', claims', Active')
        BY <1>2, <2>1, <2>2
    <2>4. TypeOK'
        BY <2>1, <2>3 DEF IInv, TypeOK, Sound, Typed
    <2>5. SessionsMatchClaims'
        BY <2>3 DEF Sound, SessionsMatchClaims, Grounded, Disjoint, Backed, IsAppliance
    <2>6. \A k \in Clients \ Active' : session'[k] = NoSession
        BY <2>1, <2>2 DEF IInv, OthersSame, IsAppliance, NoSession
    <2>7. /\ will' \subseteq Active'
          /\ \A k \in will' : session'[k].kind = "appliance" /\ session'[k].id # None
        BY <1>2, <2>1, <2>2 DEF IInv, OthersSame, IsAppliance, ApplianceSession
    <2>8. KeepsIdentity
        BY <2>1 DEF KeepsIdentity, OthersSame, IInv, IsAppliance, NoSession
    <2> QED BY <2>4, <2>5, <2>6, <2>7, <2>8 DEF IInv, IsAppliance
<1> QED BY <1>1, <1>2

\* An appliance's connection, before and after its address is known.
LEMMA ConnectApplianceStep ==
    ASSUME IInv, NEW c \in Clients, NEW ip, NEW w \in Will, ConnectAppliance(c, ip, w)
    PROVE  IInv' /\ KeepsIdentity
<1> DEFINE r == AdmissionFrom(c, ip, w)
<1>1. /\ c \in Clients \ Active
      /\ awaiting' \subseteq Clients
      /\ Decided(c, r, w.kind = "device")
      /\ inventory' = inventory
    BY DEF ConnectAppliance, Active, IInv, TypeOK
<1>2. /\ Sound(r.session, r.claims, Active)
      /\ OthersSame(r.session, c)
      /\ r.ok => /\ IsAppliance(r.session[c])
                 /\ Sound(r.session, r.claims, Active \cup {c})
                 /\ w.kind = "device" => r.session[c].id # None
    BY <1>1, AdmissionSound
<1> HIDE DEF r
<1> QED BY <1>1, <1>2, DecidedStep

\* A diagnostic account has a session that is nobody's appliance.
LEMMA ConnectDiagnosticStep ==
    ASSUME IInv, NEW c \in Clients, NEW a \in Accounts, ConnectDiagnostic(c, a)
    PROVE  IInv' /\ KeepsIdentity
<1> DEFINE tt == [session EXCEPT ![c] = [kind |-> "diagnostic", account |-> a]]
           r  == Result(TRUE, tt, claims)
<1>1. /\ c \in Clients \ Active
      /\ awaiting' \subseteq Clients
      /\ Decided(c, r, FALSE)
      /\ inventory' = inventory
    BY DEF ConnectDiagnostic, Active, IInv, TypeOK
<1>2. Sound(session, claims, Active) /\ session[c] = NoSession
    BY <1>1, IInvSound DEF IInv
<1>3. /\ tt \in [Clients -> Session]
      /\ ~IsAppliance(tt[c])
      /\ \A k \in Clients \ {c} : tt[k] = session[k]
    BY <1>2 DEF Sound, Typed, Session, DiagnosticSession, IsAppliance
<1> HIDE DEF tt
<1>4. Sound(tt, claims, Active \cup {c})
    <2>1. \A e \in Entries : claims[e].clients \subseteq Clients \ {c}
        BY <1>2 DEF Sound, Typed, Claim, Grounded, IsAppliance, NoSession
    <2>2. Typed(tt, claims) /\ Disjoint(claims)
        BY <1>2, <1>3 DEF Sound, Typed
    <2>3. Grounded(tt, claims)
        BY <1>2, <1>3, <2>1 DEF Sound, Grounded
    <2>4. Backed(tt, claims, Active \cup {c})
        BY <1>2, <1>3 DEF Sound, Backed, Active
    <2> QED BY <2>2, <2>3, <2>4 DEF Sound
<1>5. Sound(tt, claims, Active)
    BY <1>4 DEF Sound, Backed
<1>6. OthersSame(tt, c)
    BY <1>2, <1>3, ApplianceType DEF OthersSame, Sound, Typed
<1>7. r.session = tt /\ r.claims = claims
    BY DEF Result
<1> HIDE DEF r
<1> QED BY <1>1, <1>4, <1>5, <1>6, <1>7, DecidedStep

\* A publication, accepted or the end of its connection.
LEMMA PublishStep ==
    ASSUME IInv, NEW c \in Clients, NEW m \in Message, Publish(c, m)
    PROVE  IInv' /\ KeepsIdentity
<1> DEFINE r == AllowPublish(session, claims, c, m)
<1>1. Sound(session, claims, Active) /\ Active \subseteq Clients /\ m.id \in Ids
    BY IInvSound DEF Message
<1>2. Sound(r.session, r.claims, Active) /\ SameIdentity(session, r.session)
    BY <1>1, AllowPublishSound
<1>3. CASE r.ok
    <2>1. /\ session' = RefreshAll(r.session, Active)
          /\ claims' = r.claims
          /\ UNCHANGED <<phase, will, inventory, awaiting>>
        BY <1>3 DEF Publish, FanOut, Result
    <2> HIDE DEF r
    <2>2. /\ Sound(session', claims', Active)
          /\ SameIdentity(r.session, session')
        BY <1>1, <1>2, <2>1, RefreshAllSound
    <2>3. SameIdentity(session, session')
        BY <1>2, <2>2, SameIdentityTrans
    <2>4. Active' = Active
        BY <2>1 DEF Active
    <2> QED BY <2>1, <2>2, <2>3, <2>4, StaySound DEF IInv, TypeOK
<1>4. CASE ~r.ok
    <2>1. Destroy(r.session, r.claims, c, FALSE) /\ UNCHANGED <<inventory, awaiting>>
        BY <1>4 DEF Publish
    <2> HIDE DEF r
    <2>2. OthersSame(r.session, c)
        BY <1>2 DEF OthersSame, SameIdentity
    <2>3. c \in will => IsAppliance(r.session[c]) /\ r.session[c].id # None
        BY <1>2 DEF IInv, SameIdentity, IsAppliance, ApplianceSession
    <2> QED BY <1>2, <2>1, <2>2, <2>3, DestroySound DEF IInv, TypeOK
<1> QED BY <1>3, <1>4

\* A subscription, accepted or the end of its connection.
LEMMA SubscribeStep ==
    ASSUME IInv, NEW c \in Clients, NEW id \in Ids, Subscribe(c, id)
    PROVE  IInv' /\ KeepsIdentity
<1>1. /\ session' = Bind(session, claims, c, id).session
      /\ claims' = Bind(session, claims, c, id).claims
      /\ IsAppliance(session[c])
      /\ UNCHANGED <<inventory, phase, awaiting, will>>
    BY DEF Subscribe
<1>2. Sound(session', claims', Active) /\ SameIdentity(session, session')
    BY <1>1, IInvSound, BindSound
<1>3. Active' = Active
    BY <1>1 DEF Active
<1> QED BY <1>1, <1>2, <1>3, StaySound DEF IInv, TypeOK

\* A message of the server, delivered to whom the policy lets receive it.
LEMMA ServerPublishStep ==
    ASSUME IInv, ServerPublish
    PROVE  IInv' /\ KeepsIdentity
<1>1. Active' = Active
    BY DEF ServerPublish, Active
<1>2. Sound(session', claims', Active) /\ SameIdentity(session, session')
    BY IInvSound, RefreshAllSound DEF ServerPublish
<1> QED BY <1>1, <1>2, StaySound DEF ServerPublish, IInv, TypeOK

\* A connection that closes, with its will.
LEMMA CloseStep ==
    ASSUME IInv, NEW c \in Clients, NEW graceful, Close(c, graceful)
    PROVE  IInv' /\ KeepsIdentity
<1>1. OthersSame(session, c)
    BY ApplianceType DEF OthersSame, IInv, TypeOK
<1> QED BY <1>1, IInvSound, DestroySound DEF Close, IInv, TypeOK

\* Steps that leave every variable of the policy alone.
LEMMA QuietStep ==
    ASSUME IInv, UNCHANGED <<phase, session, claims, will>>, awaiting' \subseteq Clients,
           inventory' \in [Entries -> Entry \cup {NoEntry}]
    PROVE  IInv' /\ KeepsIdentity
<1>1. Active' = Active
    BY DEF Active
<1>2. Sound(session', claims', Active') /\ SameIdentity(session, session')
    BY <1>1, IInvSound, SameIdentitySelf DEF Sound, Typed
<1> QED BY <1>1, <1>2, StaySound DEF IInv, TypeOK

\* The edits of the inventory, which the policy only notices when it looks.
LEMMA InventoryStep ==
    ASSUME IInv, NEW e \in Entries, InventoryNext(e)
    PROVE  IInv' /\ KeepsIdentity
<1>1. inventory \in [Entries -> Entry \cup {NoEntry}] /\ awaiting \subseteq Clients
    BY DEF IInv, TypeOK
<1>2. e \in Listed => inventory[e] \in Entry
    BY <1>1 DEF Listed
<1>3. \A ip \in Ips : Unidentified(ip) \in Entry
    BY DEF Unidentified, Entry, MaybeId
<1>4. ASSUME NEW x \in Entry \cup {NoEntry}, EditInventory(e, x)
      PROVE  IInv' /\ KeepsIdentity
    BY <1>1, <1>4, QuietStep DEF EditInventory
<1>5. ASSUME NEW ip \in Ips, AddDevice(e, ip) \/ MoveDevice(e, ip)
      PROVE  IInv' /\ KeepsIdentity
    BY <1>3, <1>4, <1>5 DEF AddDevice, MoveDevice
<1>6. ASSUME DeleteDevice(e)
      PROVE  IInv' /\ KeepsIdentity
    BY <1>4, <1>6 DEF DeleteDevice
<1>7. ASSUME NEW id \in Ids, NEW thinq1 \in BOOLEAN, LinkDevice(e, id, thinq1)
      PROVE  IInv' /\ KeepsIdentity
    BY <1>2, <1>4, <1>7 DEF LinkDevice, Entry, MaybeId
<1>8. ASSUME NEW id \in Ids, NEW thinq1 \in BOOLEAN, LinkByIp(e, id, thinq1)
      PROVE  IInv' /\ KeepsIdentity
    BY <1>2, <1>4, <1>8 DEF LinkByIp, Entry, MaybeId
<1>9. ASSUME UnlinkDevice(e)
      PROVE  IInv' /\ KeepsIdentity
    BY <1>2, <1>4, <1>9 DEF UnlinkDevice, Entry, Unidentified, MaybeId
<1> QED BY <1>5, <1>6, <1>7, <1>8, <1>9 DEF InventoryNext

\* Every step keeps the invariant.
LEMMA NextStep ==
    ASSUME IInv, [Next]_vars
    PROVE  IInv' /\ [KeepsIdentity]_vars
<1>1. ASSUME NEW c \in Clients, ClientNext(c)
      PROVE  IInv' /\ KeepsIdentity
    <2>1. ASSUME LateAnswer(c)
          PROVE  IInv' /\ KeepsIdentity
        BY <2>1, QuietStep DEF LateAnswer, IInv, TypeOK
    <2> QED BY <1>1, <2>1, ConnectStep, ConnectApplianceStep, ConnectDiagnosticStep,
               PublishStep, SubscribeStep, CloseStep DEF ClientNext
<1>2. CASE UNCHANGED vars
    BY <1>2, QuietStep DEF vars, IInv, TypeOK
<1> QED BY <1>1, <1>2, ServerPublishStep, InventoryStep DEF Next

\* The invariant holds before the first connection.
LEMMA InitIInv == Init => IInv
<1> SUFFICES ASSUME Init PROVE IInv
    OBVIOUS
<1>1. Active = {}
    BY DEF Init, Active
<1>2. \A c \in Clients : session[c] = NoSession
    BY DEF Init
<1>3. \A e \in Entries : claims[e].clients = {} /\ claims[e].id = None
    BY DEF Init, NoClaim
<1>4. TypeOK
    BY <1>3 DEF Init, TypeOK, Session, Claim, NoClaim, MaybeId
<1>5. SessionsMatchClaims
    BY <1>1, <1>3 DEF SessionsMatchClaims, Grounded, Disjoint, Backed
<1> QED BY <1>1, <1>2, <1>4, <1>5 DEF IInv, Init

\* The inductive invariant of DeviceAccess holds in every reachable state.
LEMMA Invariance == Spec => []IInv
<1>1. IInv /\ [Next]_vars => IInv'
    BY NextStep
<1> QED BY <1>1, InitIInv, PTL DEF Spec

-----------------------------------------------------------------------------
\* Two connections of different entries cannot both act as one appliance: the
\* listener's session is behind a claim, and bind() refuses a claimed identity.
LEMMA SingleOwnerFromIInv == IInv => SingleOwner
<1> SUFFICES ASSUME IInv, NEW c \in Active, NEW d \in Active, NEW id \in Ids,
                    IsAppliance(session[c]), IsAppliance(session[d]),
                    AllowPublish(session, claims, c,
                        [kind |-> "provisioning", id |-> id, acceptable |-> TRUE]).ok,
                    MayDeliver(d, id), c # d
             PROVE  session[c].entry = session[d].entry
    BY DEF SingleOwner
<1> DEFINE e      == session[c].entry
           o      == session[d].entry
           own    == RefreshAll(session, {c})
           pruned == Prune(claims, own)
<1>1. c \in Clients /\ d \in Clients /\ e \in Entries /\ o \in Entries /\ id # None
    BY ApplianceType, AccessAssumption DEF Active, IInv, TypeOK, ApplianceSession
<1>2. Bind(session, claims, c, id).ok
    BY DEF AllowPublish, IsAppliance, Result
<1>3. ~Conflict(pruned, e, id)
    BY <1>2 DEF Bind, Result
<1>4. Current(session[d]) /\ session[d].id = id /\ ~session[d].revoked
    BY DEF MayDeliver, IsAppliance, Current
<1>5. d \in claims[o].clients /\ claims[o].id = id
    BY <1>1, <1>4 DEF IInv, SessionsMatchClaims, Backed, Grounded
<1>6. own[d] = session[d]
    BY <1>1 DEF RefreshAll
<1>7. pruned[o].clients # {} /\ pruned[o].id = id
    <2> DEFINE live == {k \in claims[o].clients : IsAppliance(own[k]) /\ Current(own[k])}
    <2>1. d \in live
        BY <1>4, <1>5, <1>6
    <2>2. pruned[o] = [id |-> claims[o].id, clients |-> live]
        BY <1>1, <2>1 DEF Prune
    <2> HIDE DEF live, pruned
    <2> QED BY <1>5, <2>1, <2>2
<1> HIDE DEF pruned, own
<1> QED BY <1>1, <1>3, <1>7 DEF Conflict

\* A connection from the address of a linked entry finds no live claim against it:
\* whoever stands behind one cannot be current while the entry is linked.
LEMMA LinkedOwnerFromIInv == IInv => LinkedOwnerAdmitted
<1> SUFFICES ASSUME IInv, NEW c \in Clients, NEW e \in Entries,
                    phase[c] = "closed", Eligible(e), UniqueIp(e),
                    inventory[e].deviceId # None,
                    ~HeldElsewhere(e, inventory[e].deviceId)
             PROVE  AdmissionFrom(c, inventory[e].ip, [kind |-> "none"]).ok
    BY DEF LinkedOwnerAdmitted
<1> DEFINE ip == inventory[e].ip
           id == inventory[e].deviceId
           w  == [kind |-> "none"]
           s  == [kind |-> "appliance", entry |-> e, ip |-> ip,
                  id |-> id, linked |-> id # None, revoked |-> FALSE]
           started == [session EXCEPT ![c] = s]
           own     == RefreshAll(started, {c})
           pruned  == Prune(claims, own)
<1>1. Matches(e, ip) /\ \A x \in Entries : Matches(x, ip) => x = e
    BY DEF Matches, Eligible, UniqueIp, Listed
<1>2. (CHOOSE x \in Entries : Matches(x, ip)) = e
    BY <1>1
<1>3. AdmissionFrom(c, ip, w) = Admission(c, e, w)
    BY <1>1, <1>2 DEF AdmissionFrom
<1>4. Admission(c, e, w).ok = Bind(started, claims, c, id).ok
    BY DEF Admission
<1>5. started[c] = s
    BY DEF IInv, TypeOK
<1>6. Permitted(s, id)
    BY DEF Permitted, Current
<1>7. \A k \in Clients \ {c} : own[k] = session[k]
    BY DEF RefreshAll, IInv, TypeOK
<1>8. \A o \in Entries : c \notin claims[o].clients
    BY DEF IInv, Active, SessionsMatchClaims, Grounded, IsAppliance, NoSession
<1>9. ASSUME NEW o \in Entries, pruned[o].clients # {}
      PROVE  o = e <=> pruned[o].id = id
    <2> DEFINE live == {k \in claims[o].clients : IsAppliance(own[k]) /\ Current(own[k])}
    <2>1. pruned[o] = IF live = {} THEN NoClaim ELSE [id |-> claims[o].id, clients |-> live]
        BY DEF Prune
    <2> HIDE DEF pruned
    <2>2. live # {} /\ pruned[o].id = claims[o].id
        <3> HIDE DEF live
        <3>1. NoClaim.clients = {}
            BY DEF NoClaim
        <3> QED BY <1>9, <2>1, <3>1
    <2>3. PICK k \in claims[o].clients : IsAppliance(own[k]) /\ Current(own[k])
        BY <2>2
    <2>4. k \in Clients \ {c}
        BY <1>8, <2>3 DEF IInv, TypeOK, Claim
    <2>5. /\ Current(session[k])
          /\ session[k].entry = o
          /\ session[k].id = claims[o].id
        BY <1>7, <2>3, <2>4 DEF IInv, SessionsMatchClaims, Grounded
    <2>6. claims[o].id # None
        BY <2>3 DEF IInv, TypeOK
    <2>7. CASE o = e
        BY <2>2, <2>5, <2>6, <2>7 DEF Current
    <2>8. CASE o # e
        <3>1. ~HeldElsewhere(o, claims[o].id)
            BY <2>5, <2>6 DEF Current
        <3>2. claims[o].id # id
            BY <2>8, <3>1 DEF HeldElsewhere, Eligible, Listed
        <3> QED BY <2>2, <2>8, <3>2
    <2> QED BY <2>7, <2>8
<1> HIDE DEF pruned, own, started, s
<1>10. ~Conflict(pruned, e, id)
    BY <1>9 DEF Conflict
<1>11. s.entry = e
    BY DEF s
<1>12. Bind(started, claims, c, id).ok
    BY <1>5, <1>6, <1>10, <1>11 DEF Bind, Result, own, pruned
<1> QED BY <1>3, <1>4, <1>12

\* The policy's state is well typed, whatever connects and whatever is edited.
THEOREM TypeCorrect == Spec => []TypeOK
BY Invariance, PTL DEF IInv

\* bind() and disconnect() keep the two maps in agreement.
THEOREM ClaimsAgree == Spec => []SessionsMatchClaims
BY Invariance, PTL DEF IInv

\* publish() and deliver() never serve two entries as the same appliance.
THEOREM OneOwner == Spec => []SingleOwner
BY Invariance, SingleOwnerFromIInv, PTL

\* bind() cannot be made to refuse the appliance that the inventory names.
THEOREM OwnerAdmitted == Spec => []LinkedOwnerAdmitted
BY Invariance, LinkedOwnerFromIInv, PTL

\* Nothing of a connection outlives it, lookup in flight or not.
THEOREM NothingLeft == Spec => []ClosedLeavesNothing
<1>1. IInv => ClosedLeavesNothing
    BY DEF IInv, ClosedLeavesNothing, Active, SessionsMatchClaims, Grounded,
           IsAppliance, NoSession
<1> QED BY <1>1, Invariance, PTL

\* bind(), disconnect() and the late answer of a lookup keep the two maps in
\* agreement and leave nothing of a connection that ended.
THEOREM ClaimsAreSound == Spec => []ClaimsSound
BY ClaimsAgree, NothingLeft, PTL DEF ClaimsSound

\* bind(), publish() and deliver(): one entry at a time acts as an appliance,
\* and the one that the inventory names can.
THEOREM OwnersAreServed == Spec => []OwnersServed
BY OneOwner, OwnerAdmitted, PTL DEF OwnersServed

\* bind() never lets a connection change the appliance it speaks for.
THEOREM IdentityKept == Spec => IdentityStable
<1>1. IInv /\ [Next]_vars => [KeepsIdentity]_vars
    BY NextStep
<1> QED BY <1>1, Invariance, PTL DEF Spec, IdentityStable

=============================================================================
