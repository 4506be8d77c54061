------------------------ MODULE BridgeForwardingProofs ------------------------
(***************************************************************************)
(* Theorems about BridgeForwarding, for any numbers of appliances, devices, *)
(* upstream connections and entries, and any bounds.  The bridges of two    *)
(* appliances do not touch each other, so that everything about them is     *)
(* said of one appliance: its BridgedDevice and its upstream connections.   *)
(***************************************************************************)
EXTENDS BridgeForwarding, TLAPS

LinksFor(b, id) == {l \in b.links : l.id = id}

\* A BridgedDevice m and the upstream connections L of its appliance.
GoodAt(m, L) ==
    /\ \A l \in L : l.dead \/ (m # NoBridge /\ ~m.destroyed /\ m.conn = l.key)
    /\ \A l \in L : l.dead => l.phase = "fetching"
    /\ \A l, k \in L : l.key = k.key => l = k
    /\ m # NoBridge /\ m.destroyed => m.conn = None
    /\ m # NoBridge /\ ~m.destroyed =>
        /\ m.timer => m.conn = None
        /\ ~m.timer => \E l \in L : l.key = m.conn /\ ~l.dead
        /\ m.connected => \E l \in L : l.key = m.conn /\ l.phase = "up"

Good(b) == b \in Bridges /\ \A id \in Ids : GoodAt(b.map[id], LinksFor(b, id))

\* What runs uses the registration of the file.
UsesLive(b, lv) == \A id \in Ids : Runs(b, id) => b.map[id].reg = lv[id]

\* c is a connection that no socket of the appliance belongs to, or a failure.
Fresh(b, id, c) == c \in Keys \cup {None} /\ \A l \in b.links : l.id = id => l.key # c

\* Two bridges that differ in one appliance only.
SameElsewhere(b, d, id) ==
    \A o \in Ids \ {id} : d.map[o] = b.map[o] /\ LinksFor(d, o) = LinksFor(b, o)

-----------------------------------------------------------------------------
\* The inductive invariant.

\* What a job that waits has looked at stays as it is.
JobHolds ==
    /\ job.op \in {"enable", "disable"} => job.at \in Entries /\ entry[job.at] # Unlisted
    /\ job.op = "release" => \A e \in job.todo : entry[e] # Unlisted
    /\ job.op = "renew" => job.id \in Ids /\ job.dev \in Devs /\ saved[job.id] < MaxRegs

\* An appliance that was never registered has no copy in the archive.
ArchiveIsReal == \A id \in Ids : saved[id] = 0 => archive[id] = 0

IInv ==
    /\ TypeOK
    /\ Good(bridge)
    /\ UsesLive(bridge, live)
    /\ LatestRegistrationKept
    /\ ArchiveIsReal
    /\ JobHolds

-----------------------------------------------------------------------------
\* What holds of every appliance but one, and of that one, holds of all.
LEMMA GoodByParts ==
    ASSUME NEW b, NEW d, NEW id \in Ids, Good(b), d \in Bridges, SameElsewhere(b, d, id),
           GoodAt(d.map[id], LinksFor(d, id))
    PROVE  Good(d)
BY DEF Good, SameElsewhere

\* destroy() leaves no socket but those that wait for the gateway, marked dead.
LEMMA DestroyedLinks ==
    ASSUME NEW b, NEW id \in Ids, Good(b)
    PROVE  /\ Destroyed(b, id) \in SUBSET Link
           /\ \A l \in Destroyed(b, id) : l.id = id => l.dead /\ l.phase = "fetching"
           /\ \A l, k \in Destroyed(b, id) : l.id = id /\ k.id = id /\ l.key = k.key => l = k
           /\ \A l \in Destroyed(b, id) : l.id = id => \E k \in b.links : k.id = id /\ k.key = l.key
           /\ \A l : l.id # id => (l \in Destroyed(b, id) <=> l \in b.links)
<1> DEFINE gone == LinkOf(b, id)
           D == Destroyed(b, id)
           kill(x) == [x EXCEPT !.dead = TRUE]
<1>1. b.links \in SUBSET Link /\ GoodAt(b.map[id], LinksFor(b, id))
    BY DEF Good, Bridges
<1>2. \A l \in gone : l \in b.links /\ l.id = id
    BY DEF LinkOf
<1>3. ASSUME NEW x \in b.links
      PROVE  /\ kill(x) \in Link /\ kill(x).id = x.id /\ kill(x).key = x.key
             /\ kill(x).phase = x.phase /\ kill(x).dead
    BY <1>1 DEF Link
<1>4. \A l : l \in D <=> \/ l \in b.links /\ l \notin gone
                         \/ \E x \in gone : x.phase = "fetching" /\ l = kill(x)
    BY DEF Destroyed
<1>5. \A l \in b.links : l.id = id /\ l \notin gone => l.dead
    BY <1>1 DEF GoodAt, LinksFor, LinkOf
<1>6. \A l \in b.links : l.id = id /\ l.dead => l.phase = "fetching"
    BY <1>1 DEF GoodAt, LinksFor
<1>7. \A l, k \in b.links : l.id = id /\ k.id = id /\ l.key = k.key => l = k
    BY <1>1 DEF GoodAt, LinksFor
<1> HIDE DEF gone, D, kill
<1>8. D \in SUBSET Link
    BY <1>1, <1>2, <1>3, <1>4
<1>9. \A l \in D : l.id = id => l.dead /\ l.phase = "fetching"
    BY <1>2, <1>3, <1>4, <1>5, <1>6
<1>10. ASSUME NEW l \in D
       PROVE  \E x \in b.links : /\ x.id = l.id /\ x.key = l.key
                                 /\ l = IF x \in gone THEN kill(x) ELSE x
    BY <1>2, <1>3, <1>4
<1>11. ASSUME NEW l \in D, NEW k \in D, l.id = id, k.id = id, l.key = k.key
       PROVE  l = k
    <2>1. PICK x \in b.links : x.id = l.id /\ x.key = l.key /\ l = IF x \in gone THEN kill(x) ELSE x
        BY <1>10
    <2>2. PICK y \in b.links : y.id = k.id /\ y.key = k.key /\ k = IF y \in gone THEN kill(y) ELSE y
        BY <1>10
    <2>3. x = y
        BY <1>7, <1>11, <2>1, <2>2
    <2> QED BY <2>1, <2>2, <2>3
<1>12. \A l : l.id # id => (l \in D <=> l \in b.links)
    BY <1>2, <1>3, <1>4
<1>13. \A l \in D : l.id = id => \E k \in b.links : k.id = id /\ k.key = l.key
    BY <1>10
<1> QED BY <1>8, <1>9, <1>11, <1>12, <1>13 DEF D

\* #stop(): nothing runs for the appliance, and nothing else changes.
LEMMA StopGood ==
    ASSUME NEW b, NEW id \in Ids, Good(b)
    PROVE  /\ Good(Stop(b, id))
           /\ SameElsewhere(b, Stop(b, id), id)
           /\ Stop(b, id).map[id] = NoBridge
           /\ \A c, o : Fresh(b, o, c) => Fresh(Stop(b, id), o, c)
<1> DEFINE s == Stop(b, id)
<1>1. /\ s.map = [b.map EXCEPT ![id] = NoBridge]
      /\ s.links = Destroyed(b, id)
      /\ s.restarted = b.restarted \cup {id}
      /\ s = [map |-> s.map, links |-> s.links, restarted |-> s.restarted]
    BY DEF Stop
<1>2. b.map \in [Ids -> BridgedDevice \cup {NoBridge}] /\ b.restarted \in SUBSET Ids
    BY DEF Good, Bridges
<1> HIDE DEF s
<1>3. s \in Bridges
    <2>1. s.map \in [Ids -> BridgedDevice \cup {NoBridge}] /\ s.restarted \in SUBSET Ids
        BY <1>1, <1>2
    <2>2. s.links \in SUBSET Link
        BY <1>1, DestroyedLinks
    <2> QED BY <1>1, <2>1, <2>2 DEF Bridges
<1>4. SameElsewhere(b, s, id)
    BY <1>1, <1>2, DestroyedLinks DEF SameElsewhere, LinksFor
<1>5. s.map[id] = NoBridge
    BY <1>1, <1>2
<1>6. GoodAt(s.map[id], LinksFor(s, id))
    BY <1>1, <1>5, DestroyedLinks DEF GoodAt, LinksFor
<1>7. Good(s)
    BY <1>3, <1>4, <1>6, GoodByParts
<1>8. \A c, o : Fresh(b, o, c) => Fresh(s, o, c)
    <2> SUFFICES ASSUME NEW c, NEW o, Fresh(b, o, c)
                 PROVE  Fresh(s, o, c)
        OBVIOUS
    <2>1. CASE o = id
        BY <1>1, <2>1, DestroyedLinks DEF Fresh
    <2>2. CASE o # id
        BY <1>1, <2>2, DestroyedLinks DEF Fresh
    <2> QED BY <2>1, <2>2
<1> QED BY <1>4, <1>5, <1>7, <1>8 DEF s

\* An appliance without a living socket: what connect() and #start() find.
Free(b, id) ==
    /\ \A l \in LinksFor(b, id) : l.dead /\ l.phase = "fetching"
    /\ \A l, k \in LinksFor(b, id) : l.key = k.key => l = k

\* connect(): the BridgedDevice has a new connection, or tries again later.
LEMMA ConnectGood ==
    ASSUME NEW b \in Bridges, NEW id \in Ids, Runs(b, id), Free(b, id),
           \A o \in Ids \ {id} : GoodAt(b.map[o], LinksFor(b, o)),
           NEW c, Fresh(b, id, c)
    PROVE  /\ Good(Connect(b, id, c))
           /\ SameElsewhere(b, Connect(b, id, c), id)
           /\ Connect(b, id, c).map[id].reg = b.map[id].reg
<1> DEFINE d == Connect(b, id, c)
           m == b.map[id]
           n == [m EXCEPT !.conn = c, !.timer = (c = None), !.connected = FALSE]
<1>1. m \in BridgedDevice /\ m # NoBridge /\ ~m.destroyed
    BY DEF Runs, Bridges
<1>2. b.map \in [Ids -> BridgedDevice \cup {NoBridge}] /\ b.links \in SUBSET Link
    BY DEF Bridges
<1>3. c \in Keys \cup {None} /\ None \notin Keys
    BY BridgeAssumption DEF Fresh
<1>4. /\ n \in BridgedDevice /\ n # NoBridge /\ ~n.destroyed /\ ~n.connected
      /\ n.conn = c /\ (n.timer <=> c = None) /\ n.reg = m.reg
    <2>1. (c = None) \in BOOLEAN
        OBVIOUS
    <2>2. /\ n \in BridgedDevice
          /\ n.destroyed = m.destroyed /\ n.connected = FALSE
          /\ n.conn = c /\ n.timer = (c = None) /\ n.reg = m.reg
        BY <1>1, <1>3, <2>1 DEF BridgedDevice
    <2> QED BY <1>1, <2>2, AbsentAssumption
<1>5. /\ d.map = [b.map EXCEPT ![id] = n]
      /\ d.links = b.links \cup NewLink(id, c)
      /\ d.restarted = b.restarted
      /\ d = [map |-> d.map, links |-> d.links, restarted |-> d.restarted]
    <2>1. d = [b EXCEPT !.map[id] = n, !.links = b.links \cup NewLink(id, c)]
        BY DEF Connect
    <2> HIDE DEF n, d
    <2> QED BY <2>1 DEF Bridges
<1> HIDE DEF n, d
<1>6. /\ NewLink(id, c) \in SUBSET Link
      /\ \A l \in NewLink(id, c) : l.id = id /\ l.key = c /\ ~l.dead /\ l.phase # "up"
      /\ c # None => \E l \in NewLink(id, c) : TRUE
      /\ c = None => NewLink(id, c) = {}
      /\ \A l, k \in NewLink(id, c) : l = k
    <2> DEFINE new == [id |-> id, key |-> c, phase |-> IF id \in Thinq1 THEN "fetching" ELSE "opening",
                       dead |-> FALSE]
    <2>1. /\ c # None => new \in Link
          /\ new.id = id /\ new.key = c /\ ~new.dead /\ new.phase # "up"
        BY <1>3 DEF Link
    <2>2. NewLink(id, c) = IF c = None THEN {} ELSE {new}
        BY DEF NewLink
    <2> HIDE DEF new
    <2> QED BY <2>1, <2>2
<1>7. d \in Bridges
    BY <1>2, <1>4, <1>5, <1>6 DEF Bridges
<1>8. SameElsewhere(b, d, id)
    BY <1>2, <1>5, <1>6 DEF SameElsewhere, LinksFor
<1>9. d.map[id] = n
    BY <1>2, <1>5
<1>10. \A l : l \in LinksFor(d, id) <=> l \in LinksFor(b, id) \/ l \in NewLink(id, c)
    BY <1>5, <1>6 DEF LinksFor
<1>11. \A l \in LinksFor(b, id) : l.key # c
    BY DEF Fresh, LinksFor
<1>12. GoodAt(n, LinksFor(d, id))
    BY <1>4, <1>6, <1>10, <1>11 DEF GoodAt, Free
<1>13. \A o \in Ids : GoodAt(d.map[o], LinksFor(d, o))
    BY <1>8, <1>9, <1>12 DEF SameElsewhere
<1> QED BY <1>4, <1>7, <1>8, <1>9, <1>13 DEF Good, d

\* #start(), whatever it decides.
LEMMA StartGood ==
    ASSUME NEW b, Good(b), NEW id \in Ids, NEW w, w.live \in [Ids -> 0..MaxRegs],
           NEW dev \in Devs, NEW c, Fresh(b, id, c), UsesLive(b, w.live)
    PROVE  Good(Start(w, b, id, dev, c)) /\ UsesLive(Start(w, b, id, dev, c), w.live)
<1> DEFINE s == Stop(b, id)
           new == [dev |-> dev, reg |-> w.live[id], destroyed |-> FALSE,
                   conn |-> None, timer |-> FALSE, connected |-> FALSE]
           t == [s EXCEPT !.map[id] = new]
<1>1. /\ Good(s) /\ SameElsewhere(b, s, id) /\ s.map[id] = NoBridge /\ Fresh(s, id, c)
      /\ s \in Bridges
    BY StopGood DEF Good
<1>2. UsesLive(s, w.live)
    BY <1>1 DEF UsesLive, SameElsewhere, Runs
<1> HIDE DEF s
<1>3. ASSUME w.live[id] # 0
      PROVE  Good(Connect(t, id, c)) /\ UsesLive(Connect(t, id, c), w.live)
    <2>1. new \in BridgedDevice /\ new # NoBridge /\ ~new.destroyed /\ new.reg = w.live[id]
        <3>1. w.live[id] \in 1..MaxRegs
            BY <1>3, BridgeAssumption
        <3>2. new \in BridgedDevice
            BY <3>1 DEF BridgedDevice
        <3> QED BY <3>2, AbsentAssumption
    <2> HIDE DEF new
    <2>2. /\ t.map = [s.map EXCEPT ![id] = new] /\ t.links = s.links
          /\ t.restarted = s.restarted /\ t \in Bridges
        BY <1>1, <2>1 DEF Bridges
    <2> HIDE DEF t
    <2>3. /\ t.map[id] = new /\ SameElsewhere(s, t, id)
          /\ \A o : LinksFor(t, o) = LinksFor(s, o)
        BY <1>1, <2>2 DEF SameElsewhere, LinksFor, Bridges
    <2>4. Runs(t, id)
        BY <2>1, <2>3 DEF Runs
    <2>5. Free(t, id)
        BY <1>1, <2>3 DEF Free, Good, GoodAt
    <2>6. \A o \in Ids \ {id} : GoodAt(t.map[o], LinksFor(t, o))
        BY <1>1, <2>3 DEF Good, SameElsewhere
    <2>7. Fresh(t, id, c)
        BY <1>1, <2>2 DEF Fresh
    <2>8. /\ Good(Connect(t, id, c)) /\ SameElsewhere(t, Connect(t, id, c), id)
          /\ Connect(t, id, c).map[id].reg = t.map[id].reg
        <3>1. t \in Bridges
            BY <2>2
        <3> QED
            BY <3>1, <2>4, <2>5, <2>6, <2>7, ConnectGood
    <2>9. UsesLive(Connect(t, id, c), w.live)
        BY <1>2, <2>1, <2>3, <2>8 DEF UsesLive, SameElsewhere, Runs
    <2> QED BY <2>8, <2>9
<1>4. \/ Start(w, b, id, dev, c) = b
      \/ Start(w, b, id, dev, c) = s
      \/ w.live[id] # 0 /\ Start(w, b, id, dev, c) = Connect(t, id, c)
    BY DEF Start, s
<1> QED BY <1>1, <1>2, <1>3, <1>4

\* reconcile(), and the start of an appliance that may have gone.
LEMMA ReconcileGood ==
    ASSUME NEW b, Good(b), NEW id \in Ids, NEW w, w.live \in [Ids -> 0..MaxRegs],
           w.present \in [Ids -> Devs \cup {None}],
           NEW c, Fresh(b, id, c), UsesLive(b, w.live)
    PROVE  /\ Good(StartPresent(w, b, id, c)) /\ UsesLive(StartPresent(w, b, id, c), w.live)
           /\ Good(Reconcile(w, b, id, c)) /\ UsesLive(Reconcile(w, b, id, c), w.live)
<1>1. Good(StartPresent(w, b, id, c)) /\ UsesLive(StartPresent(w, b, id, c), w.live)
    BY StartGood DEF StartPresent
<1>2. Good(Stop(b, id)) /\ UsesLive(Stop(b, id), w.live)
    BY StopGood DEF UsesLive, SameElsewhere, Runs
<1> QED BY <1>1, <1>2 DEF Reconcile

-----------------------------------------------------------------------------
\* Events of the upstream connections.

\* The BridgedDevice gives its connection up, to try again or for good.
LEMMA GivenUpGood ==
    ASSUME NEW b, Good(b), NEW id \in Ids, NEW n \in BridgedDevice,
           n.conn = None, ~n.connected,
           n.destroyed \/ (n.timer /\ Runs(b, id)), n.reg = b.map[id].reg,
           NEW lv, UsesLive(b, lv)
    PROVE  LET d == [b EXCEPT !.map[id] = n, !.links = Destroyed(b, id)]
           IN  Good(d) /\ UsesLive(d, lv)
<1> DEFINE d == [b EXCEPT !.map[id] = n, !.links = Destroyed(b, id)]
<1>1. b \in Bridges
    BY DEF Good
<1>2. /\ d.map = [b.map EXCEPT ![id] = n] /\ d.links = Destroyed(b, id)
      /\ d \in Bridges
    BY <1>1, DestroyedLinks DEF Bridges
<1> HIDE DEF d
<1>4. SameElsewhere(b, d, id) /\ d.map[id] = n
    BY <1>1, <1>2, DestroyedLinks DEF SameElsewhere, LinksFor, Bridges
<1>5. GoodAt(n, LinksFor(d, id))
    BY <1>2, DestroyedLinks DEF GoodAt, LinksFor
<1>6. Good(d)
    BY <1>2, <1>4, <1>5, GoodByParts
<1>7. UsesLive(d, lv)
    BY <1>4 DEF UsesLive, SameElsewhere, Runs
<1> QED BY <1>6, <1>7 DEF d

\* Taking away a socket that was destroyed already.
LEMMA DeadLinkRemoved ==
    ASSUME NEW b, Good(b), NEW l \in b.links, l.dead
    PROVE  LET d == [b EXCEPT !.links = b.links \ {l}]
           IN  Good(d) /\ \A lv : UsesLive(b, lv) => UsesLive(d, lv)
<1> DEFINE d == [b EXCEPT !.links = b.links \ {l}]
<1>1. b \in Bridges /\ \A id \in Ids : GoodAt(b.map[id], LinksFor(b, id))
    BY DEF Good
<1>2. d.map = b.map /\ d.links = b.links \ {l} /\ d \in Bridges
    BY <1>1 DEF Bridges
<1> HIDE DEF d
<1>3. ASSUME NEW id \in Ids
      PROVE  GoodAt(d.map[id], LinksFor(d, id))
    <2>1. GoodAt(b.map[id], LinksFor(b, id))
        BY <1>1
    <2>2. \A k : k \in LinksFor(d, id) <=> k \in LinksFor(b, id) /\ k # l
        BY <1>2 DEF LinksFor
    <2> QED BY <1>2, <2>1, <2>2 DEF GoodAt
<1> QED BY <1>2, <1>3 DEF Good, UsesLive, Runs, d

\* A living socket goes on to its next stage; the BridgedDevice may say so.
LEMMA LinkMoves ==
    ASSUME NEW b, Good(b), NEW l \in b.links, ~l.dead, NEW ph \in {"opening", "up"},
           NEW said \in BOOLEAN, said => ph = "up",
           NEW lv, UsesLive(b, lv)
    PROVE  LET moved == [l EXCEPT !.phase = ph]
               n == [b.map[l.id] EXCEPT !.connected = said]
               d == [b EXCEPT !.map[l.id] = n, !.links = (b.links \ {l}) \cup {moved}]
           IN  Good(d) /\ UsesLive(d, lv)
<1> DEFINE id == l.id
           moved == [l EXCEPT !.phase = ph]
           n == [b.map[id] EXCEPT !.connected = said]
           d == [b EXCEPT !.map[id] = n, !.links = (b.links \ {l}) \cup {moved}]
<1>1. b \in Bridges
    BY DEF Good
<1>2. /\ l \in Link /\ id \in Ids /\ moved \in Link /\ moved.id = id /\ moved.key = l.key
      /\ moved.phase = ph /\ ~moved.dead
    BY <1>1 DEF Bridges, Link
<1>3. GoodAt(b.map[id], LinksFor(b, id)) /\ l \in LinksFor(b, id)
    BY <1>2 DEF Good, LinksFor
<1>4. b.map[id] \in BridgedDevice /\ Runs(b, id) /\ b.map[id].conn = l.key
    BY <1>1, <1>2, <1>3 DEF GoodAt, Bridges, Runs
<1>5. /\ n \in BridgedDevice /\ n.destroyed = b.map[id].destroyed /\ n.conn = l.key
      /\ n.timer = b.map[id].timer /\ n.connected = said /\ n.reg = b.map[id].reg
    BY <1>4 DEF BridgedDevice
<1> HIDE DEF n, moved
<1>6. /\ d.map = [b.map EXCEPT ![id] = n] /\ d.links = (b.links \ {l}) \cup {moved}
      /\ d \in Bridges
    BY <1>1, <1>2, <1>5 DEF Bridges
<1> HIDE DEF d
<1>7. d.map[id] = n /\ SameElsewhere(b, d, id)
    BY <1>1, <1>2, <1>6 DEF SameElsewhere, LinksFor, Bridges
<1>8. \A k : k \in LinksFor(d, id) <=> (k \in LinksFor(b, id) /\ k # l) \/ k = moved
    BY <1>2, <1>6 DEF LinksFor
<1>9. GoodAt(n, LinksFor(d, id))
    <2>1. n # NoBridge /\ b.map[id] # NoBridge /\ ~b.map[id].destroyed
        BY <1>4, <1>5, AbsentAssumption DEF Runs
    <2>2. \A k \in LinksFor(b, id) : k # l => k.dead /\ k.phase = "fetching" /\ k.key # l.key
        BY <1>3, <1>4 DEF GoodAt
    <2>3. ~n.timer
        BY <1>2, <1>3, <1>4, <1>5, <2>1, BridgeAssumption DEF GoodAt, Link
    <2>4. \A k, j \in LinksFor(d, id) : k.key = j.key => k = j
        BY <1>2, <1>3, <1>8, <2>2 DEF GoodAt
    <2>5. \A k \in LinksFor(d, id) : k = moved \/ (k.dead /\ k.phase = "fetching")
        BY <1>8, <2>2
    <2>6. moved \in LinksFor(d, id)
        BY <1>8
    <2> QED BY <1>2, <1>5, <2>1, <2>3, <2>4, <2>5, <2>6, <1>4 DEF GoodAt
<1>10. Good(d)
    BY <1>2, <1>6, <1>7, <1>9, GoodByParts
<1>11. UsesLive(d, lv)
    BY <1>2, <1>4, <1>5, <1>7 DEF UsesLive, SameElsewhere, Runs
<1> QED BY <1>10, <1>11 DEF d, n, moved

-----------------------------------------------------------------------------
\* The actions.

\* After a stop the registration of that appliance may be any.
LEMMA StopUses ==
    ASSUME NEW b, Good(b), NEW id \in Ids, NEW lv, UsesLive(b, lv),
           NEW mv, \A o \in Ids \ {id} : mv[o] = lv[o]
    PROVE  UsesLive(Stop(b, id), mv)
BY StopGood DEF UsesLive, SameElsewhere, Runs

\* Steps that change nothing but the bridges.
LEMMA BridgeOnly ==
    ASSUME IInv, Good(bridge'), UsesLive(bridge', live),
           UNCHANGED <<present, closing, entry, released, live, intent, files, syncs, job,
                       placed, faults>>
    PROVE  IInv'
BY DEF IInv, TypeOK, Good, LatestRegistrationKept, ArchiveIsReal, JobHolds, files

\* A new connection of an appliance, its close, and the late close of a replaced one.
LEMMA ApplianceStep ==
    ASSUME IInv, Appliance
    PROVE  IInv'
<1> USE DEF IInv
<1>1. ASSUME NEW id \in Ids, NEW n \in Devs, NEW c \in Conns, Accept(id, n, c)
      PROVE  IInv'
    <2> DEFINE w == [World EXCEPT !.present[id] = n]
               b == IF present[id] # None /\ id \notin Thinq1 THEN Stop(bridge, id) ELSE bridge
    <2>1. w.live = live /\ w.present = [present EXCEPT ![id] = n]
        BY DEF World
    <2>2. Fresh(bridge, id, c)
        BY DEF Fresh, Conns
    <2>3. Good(b) /\ UsesLive(b, live) /\ Fresh(b, id, c)
        BY <2>2, StopGood, StopUses
    <2>4. bridge' = Start(w, b, id, n, c) /\ present' = w.present
        BY <1>1 DEF Accept
    <2> HIDE DEF w, b
    <2>5. Good(bridge') /\ UsesLive(bridge', live)
        BY <2>1, <2>3, <2>4, StartGood DEF TypeOK
    <2>6. present' \in [Ids -> Devs \cup {None}] /\ syncs' \in SUBSET Ids
        BY <1>1, <2>1, <2>4 DEF Accept, TypeOK
    <2>7. closing' \in SUBSET (Thinq1 \X Devs)
        <3>1. present[id] # None => present[id] \in Devs
            BY DEF TypeOK
        <3> QED BY <1>1, <3>1 DEF Accept, TypeOK
    <2> QED BY <1>1, <2>5, <2>6, <2>7
            DEF Accept, TypeOK, Good, LatestRegistrationKept, ArchiveIsReal, JobHolds, files
<1>2. ASSUME NEW id \in Ids, Closed(id)
      PROVE  IInv'
    <2>1. Good(bridge') /\ UsesLive(bridge', live)
        BY <1>2, StopGood, StopUses DEF Closed
    <2>2. present' \in [Ids -> Devs \cup {None}]
        BY <1>2 DEF Closed, TypeOK
    <2> QED BY <1>2, <2>1, <2>2
            DEF Closed, TypeOK, Good, LatestRegistrationKept, ArchiveIsReal, JobHolds, files
<1>3. ASSUME NEW id \in Ids, NEW n \in Devs, LateClose(id, n)
      PROVE  IInv'
    <2>1. CASE Attached(bridge, id, n)
        <3> DEFINE m == bridge.map[id]
                   e == [m EXCEPT !.conn = None, !.timer = FALSE, !.destroyed = TRUE,
                                  !.connected = FALSE]
        <3>1. bridge' = [bridge EXCEPT !.map[id] = e, !.links = Destroyed(bridge, id)]
            BY <1>3, <2>1 DEF LateClose, Destroy
        <3>2. m \in BridgedDevice
            BY <2>1 DEF Attached, TypeOK, Bridges
        <3>3. /\ e \in BridgedDevice /\ e.conn = None /\ ~e.connected /\ e.destroyed /\ ~e.timer
              /\ e.reg = m.reg
            BY <3>2 DEF BridgedDevice
        <3> HIDE DEF e
        <3>4. Good(bridge') /\ UsesLive(bridge', live)
            BY <3>1, <3>3, GivenUpGood
        <3> QED BY <1>3, <3>4
                DEF LateClose, TypeOK, Good, LatestRegistrationKept, ArchiveIsReal, JobHolds, files
    <2>2. CASE ~Attached(bridge, id, n)
        BY <1>3, <2>2
        DEF LateClose, TypeOK, Good, LatestRegistrationKept, ArchiveIsReal, JobHolds, files
    <2> QED BY <2>1, <2>2
<1> QED BY <1>1, <1>2, <1>3 DEF Appliance

\* Every event of an upstream connection, and the timer that tries again.
LEMMA UpstreamStep ==
    ASSUME IInv, Upstream
    PROVE  IInv'
<1>0. bridge \in Bridges /\ Good(bridge) /\ UsesLive(bridge, live)
    BY DEF IInv, TypeOK
<1>1. ASSUME NEW l \in bridge.links
      PROVE  /\ l \in Link /\ l.id \in Ids
             /\ l.dead => l.phase = "fetching"
             /\ ~l.dead => /\ Runs(bridge, l.id) /\ bridge.map[l.id] \in BridgedDevice
                           /\ bridge.map[l.id].conn = l.key
                           /\ l.phase = "fetching" => ~bridge.map[l.id].connected
    <2>1. l \in Link /\ l.id \in Ids
        BY <1>0 DEF Bridges, Link
    <2>2. GoodAt(bridge.map[l.id], LinksFor(bridge, l.id)) /\ l \in LinksFor(bridge, l.id)
        BY <1>0, <2>1 DEF Good, LinksFor
    <2>3. ASSUME ~l.dead
          PROVE  /\ Runs(bridge, l.id) /\ bridge.map[l.id] \in BridgedDevice
                 /\ bridge.map[l.id].conn = l.key
        BY <1>0, <2>1, <2>2, <2>3 DEF GoodAt, Runs, Bridges
    <2>4. ASSUME ~l.dead, l.phase = "fetching" PROVE ~bridge.map[l.id].connected
        BY <2>2, <2>3, <2>4 DEF GoodAt, Runs
    <2> QED BY <2>1, <2>2, <2>3, <2>4 DEF GoodAt
<1>2. ASSUME NEW l \in bridge.links, FetchAnswers(l)
      PROVE  Good(bridge') /\ UsesLive(bridge', live)
    <2>1. CASE l.dead
        BY <1>0, <1>2, <2>1, DeadLinkRemoved DEF FetchAnswers
    <2>2. CASE ~l.dead
        <3> DEFINE m == bridge.map[l.id]
                   n == [m EXCEPT !.connected = FALSE]
        <3>1. n = m
            BY <1>1, <1>2, <2>2 DEF FetchAnswers, BridgedDevice
        <3>2. bridge' = [bridge EXCEPT !.links = (bridge.links \ {l}) \cup {[l EXCEPT !.phase = "opening"]}]
            BY <1>2, <2>2 DEF FetchAnswers, Moves
        <3> HIDE DEF n
        <3>3. bridge' = [bridge EXCEPT !.map[l.id] = n, !.links = (bridge.links \ {l}) \cup {[l EXCEPT !.phase = "opening"]}]
            BY <1>0, <1>1, <3>1, <3>2 DEF Bridges
        <3> USE DEF n
        <3> QED BY <1>0, <2>2, <3>3, LinkMoves
    <2> QED BY <2>1, <2>2
<1>3. ASSUME NEW l \in bridge.links, NEW n \in BridgedDevice, n.conn = None, ~n.connected, n.timer,
             n.reg = bridge.map[l.id].reg, Runs(bridge, l.id)
      PROVE  LET d == [bridge EXCEPT !.map[l.id] = n, !.links = Destroyed(bridge, l.id)]
             IN  Good(d) /\ UsesLive(d, live)
    BY <1>0, <1>1, <1>3, GivenUpGood
<1>4. ASSUME NEW l \in bridge.links, LinkUp(l)
      PROVE  Good(bridge') /\ UsesLive(bridge', live)
    <2>1. ~l.dead
        BY <1>1, <1>4 DEF LinkUp
    <2>2. bridge' = [bridge EXCEPT !.map[l.id] = [bridge.map[l.id] EXCEPT !.connected = TRUE],
                                   !.links = (bridge.links \ {l}) \cup {[l EXCEPT !.phase = "up"]}]
        BY <1>0, <1>4 DEF LinkUp, Moves, Bridges
    <2> QED BY <1>0, <2>1, <2>2, LinkMoves
<1>5. ASSUME NEW l \in bridge.links, LinkError(l)
      PROVE  Good(bridge') /\ UsesLive(bridge', live)
    <2>1. ~l.dead
        BY <1>1, <1>5 DEF LinkError
    <2>2. l.phase \in {"opening", "up"}
        BY <1>1, <1>5 DEF LinkError, Link
    <2>3. [l EXCEPT !.phase = l.phase] = l
        BY <1>1 DEF Link
    <2>4. (bridge.links \ {l}) \cup {l} = bridge.links
        OBVIOUS
    <2>5. bridge' = [bridge EXCEPT !.map[l.id] = [bridge.map[l.id] EXCEPT !.connected = FALSE],
                                   !.links = (bridge.links \ {l}) \cup {[l EXCEPT !.phase = l.phase]}]
        <3>1. bridge' = [bridge EXCEPT !.map[l.id] = [bridge.map[l.id] EXCEPT !.connected = FALSE]]
            BY <1>5 DEF LinkError
        <3> QED BY <1>0, <2>3, <2>4, <3>1 DEF Bridges
    <2> QED BY <1>0, <2>1, <2>2, <2>5, LinkMoves
<1>6. ASSUME NEW l \in bridge.links, ~l.dead
      PROVE  Good(Disconnect(bridge, l.id)) /\ UsesLive(Disconnect(bridge, l.id), live)
    <2> DEFINE m == bridge.map[l.id]
               n == [m EXCEPT !.conn = None, !.timer = TRUE, !.connected = FALSE]
    <2>1. /\ n \in BridgedDevice /\ n.conn = None /\ ~n.connected /\ n.timer /\ n.reg = m.reg
        BY <1>1, <1>6 DEF BridgedDevice
    <2>2. Disconnect(bridge, l.id) = [bridge EXCEPT !.map[l.id] = n, !.links = Destroyed(bridge, l.id)]
        BY DEF Disconnect
    <2>3. Runs(bridge, l.id)
        BY <1>1, <1>6
    <2> HIDE DEF n
    <2> QED BY <1>3, <2>1, <2>2, <2>3
<1>7. ASSUME NEW l \in bridge.links, LinkCloses(l)
      PROVE  Good(bridge') /\ UsesLive(bridge', live)
    BY <1>1, <1>6, <1>7 DEF LinkCloses
<1>8. ASSUME NEW l \in bridge.links, FetchFails(l)
      PROVE  Good(bridge') /\ UsesLive(bridge', live)
    <2>1. CASE l.dead
        BY <1>0, <1>8, <2>1, DeadLinkRemoved DEF FetchFails
    <2>2. CASE ~l.dead
        <3> DEFINE d == Disconnect(bridge, l.id)
                   corpse == [l EXCEPT !.dead = TRUE]
        <3>1. Good(d) /\ UsesLive(d, live)
            BY <1>6, <2>2
        <3>2. d.links = Destroyed(bridge, l.id) /\ d \in Bridges
            BY <1>0, <3>1 DEF Disconnect, Good, Bridges
        <3>3. LinkOf(bridge, l.id) = {l}
            <4>1. \A k \in bridge.links : k.id = l.id /\ k.key = l.key => k = l
                BY <1>0, <1>1 DEF Good, GoodAt, LinksFor
            <4> QED BY <1>1, <2>2, <4>1 DEF LinkOf, Runs
        <3>4. /\ corpse.dead /\ corpse.id = l.id /\ corpse.key = l.key /\ corpse # l
              /\ l.phase = "fetching"
            BY <1>1, <1>8, <2>2 DEF Link, FetchFails
        <3>5. Destroyed(bridge, l.id) = (bridge.links \ {l}) \cup {corpse}
            BY <3>3, <3>4 DEF Destroyed
        <3>6. corpse \notin bridge.links
            BY <3>3, <3>4, <1>1, <2>2 DEF LinkOf, Runs
        <3>7. bridge' = [d EXCEPT !.links = bridge.links \ {l}]
            BY <1>8, <2>2 DEF FetchFails
        <3> HIDE DEF d, corpse
        <3>8. bridge' = [d EXCEPT !.links = d.links \ {corpse}] /\ corpse \in d.links
            BY <3>2, <3>5, <3>6, <3>7
        <3> QED BY <3>1, <3>4, <3>8, DeadLinkRemoved
    <2> QED BY <2>1, <2>2
<1>9. ASSUME NEW id \in Ids, NEW c \in Conns, TimerFires(id, c)
      PROVE  Good(bridge') /\ UsesLive(bridge', live)
    <2>1. Runs(bridge, id) /\ bridge.map[id].timer /\ bridge' = Connect(bridge, id, c)
        BY <1>9 DEF TimerFires
    <2>2. GoodAt(bridge.map[id], LinksFor(bridge, id))
        BY <1>0 DEF Good
    <2>3. bridge.map[id].conn = None
        BY <2>1, <2>2 DEF GoodAt, Runs
    <2>4. \A l \in LinksFor(bridge, id) : l.key # None
        BY <1>1, BridgeAssumption DEF LinksFor, Link
    <2>5. Free(bridge, id)
        BY <2>2, <2>3, <2>4 DEF Free, GoodAt
    <2>6. Fresh(bridge, id, c)
        BY DEF Fresh, Conns
    <2>7. /\ Good(bridge') /\ SameElsewhere(bridge, bridge', id)
          /\ bridge'.map[id].reg = bridge.map[id].reg
        BY <1>0, <2>1, <2>5, <2>6, ConnectGood DEF Good
    <2>8. UsesLive(bridge', live)
        BY <1>0, <2>1, <2>7 DEF UsesLive, SameElsewhere, Runs
    <2> QED BY <2>7, <2>8
<1>10. Good(bridge') /\ UsesLive(bridge', live)
    BY <1>2, <1>4, <1>5, <1>7, <1>8, <1>9 DEF Upstream
<1> QED BY <1>10, BridgeOnly DEF Upstream

-----------------------------------------------------------------------------
\* The files of one appliance, and what a step has to show.
Kept(lv, ar, sv) ==
    /\ lv \in [Ids -> 0..MaxRegs] /\ ar \in [Ids -> 0..MaxRegs] /\ sv \in [Ids -> 0..MaxRegs]
    /\ \A id \in Ids :
           /\ lv[id] \in {0, sv[id]}
           /\ sv[id] \in {lv[id], ar[id]}
           /\ sv[id] = 0 => ar[id] = 0

Worlds ==
    [entry : [Entries -> Entry \cup {Unlisted}], released : SUBSET Entries,
     live : [Ids -> 0..MaxRegs], intent : [Ids -> {"unset", "on", "off"}],
     present : [Ids -> Devs \cup {None}]]

\* The invariant, taken apart.
LEMMA Before ==
    ASSUME IInv
    PROVE  /\ World \in Worlds /\ World.live = live /\ World.present = present
           /\ World.entry = entry /\ World.released = released /\ World.intent = intent
           /\ Kept(live, archive, saved) /\ Good(bridge) /\ UsesLive(bridge, live)
           /\ entry \in [Entries -> Entry \cup {Unlisted}]
           /\ \A id \in Ids : \A c \in Conns : Fresh(bridge, id, c)
BY DEF IInv, TypeOK, World, Worlds, Kept, LatestRegistrationKept, ArchiveIsReal, Fresh, Conns

\* A step that leaves a sound world, sound files and a sound bridge.
LEMMA After ==
    ASSUME IInv, NEW w \in Worlds, Becomes(w), Kept(w.live, archive', saved'),
           Good(bridge'), UsesLive(bridge', w.live), UNCHANGED closing,
           syncs' \in SUBSET Ids, placed' \in 0..MaxPlaced, faults' \in 0..MaxFaults,
           job' \in Job, JobHolds'
    PROVE  IInv'
BY DEF IInv, TypeOK, Becomes, Worlds, Kept, LatestRegistrationKept, ArchiveIsReal, Good

\* A fault is counted below its bound.
LEMMA FaultCount ==
    ASSUME IInv, Fault \/ UNCHANGED faults
    PROVE  faults' \in 0..MaxFaults
BY BridgeAssumption DEF IInv, TypeOK, Fault

\* While no job waits, an edit may change any entry.
LEMMA IdleHolds ==
    ASSUME IInv, Idle, UNCHANGED job
    PROVE  job' \in Job /\ JobHolds'
BY DEF IInv, TypeOK, Idle, JobHolds

\* Switching an appliance off, as far as the files and the world are concerned.
LEMMA SwitchOffWorld ==
    ASSUME NEW w \in Worlds, NEW id \in Ids
    PROVE  /\ SwitchOff(w, id) \in Worlds /\ SwitchOff(w, id).live = w.live
           /\ SwitchOff(w, id).present = w.present /\ SwitchOff(w, id).entry = w.entry
           /\ SwitchOff(w, id).released = w.released
BY DEF SwitchOff, Worlds

\* linkByIp(): entries get a link, and nothing else changes.
LEMMA LinkedWorld ==
    ASSUME NEW w \in Worlds, NEW ids \in SUBSET Ids
    PROVE  /\ LinkByIp(w, ids) \in Worlds /\ LinkByIp(w, ids).live = w.live
           /\ LinkByIp(w, ids).present = w.present /\ LinkByIp(w, ids).intent = w.intent
           /\ LinkByIp(w, ids).released = w.released
           /\ \A e \in Entries : LinkByIp(w, ids).entry[e] =
                  IF \E id \in ids : e \in Found(w, id)
                  THEN [w.entry[e] EXCEPT !.linked = w.entry[e].addr] ELSE w.entry[e]
<1> DEFINE f == [e \in Entries |->
                    IF \E id \in ids : e \in Found(w, id)
                    THEN [w.entry[e] EXCEPT !.linked = w.entry[e].addr] ELSE w.entry[e]]
<1>1. ASSUME NEW e \in Entries, NEW id \in ids, e \in Found(w, id)
      PROVE  [w.entry[e] EXCEPT !.linked = w.entry[e].addr] \in Entry
    <2>1. w.entry[e] \in Entry /\ w.entry[e].addr = id /\ id \in Ids
        BY <1>1 DEF Found, Worlds
    <2> QED BY <2>1 DEF Entry
<1>2. f \in [Entries -> Entry \cup {Unlisted}]
    BY <1>1 DEF Worlds
<1>3. LinkByIp(w, ids) = [w EXCEPT !.entry = f]
    BY DEF LinkByIp
<1>4. \A e \in Entries : f[e] = IF \E id \in ids : e \in Found(w, id)
                                THEN [w.entry[e] EXCEPT !.linked = w.entry[e].addr] ELSE w.entry[e]
    OBVIOUS
<1> HIDE DEF f
<1> QED BY <1>2, <1>3, <1>4 DEF Worlds

\* snapshot() links some of those that are connected, all of them unless a save fails.
LEMMA SnapshotWorld ==
    ASSUME NEW w \in Worlds, Snapshot(w)
    PROVE  \E ids \in SUBSET Ids :
               /\ Becomes(LinkByIp(w, ids)) /\ (Fault \/ UNCHANGED faults)
               /\ ids \subseteq Connected
BY DEF Snapshot, Connected

\* A turn of the queue that links whoever is connected.
LEMMA StatusStep ==
    ASSUME IInv, Status
    PROVE  IInv'
<1>1. /\ Idle /\ Snapshot(World)
      /\ UNCHANGED <<bridge, closing, job, placed, syncs, archive, saved>>
    BY DEF Status, Rest, files
<1>2. PICK ids \in SUBSET Ids :
        Becomes(LinkByIp(World, ids)) /\ (Fault \/ UNCHANGED faults)
    BY <1>1, Before, SnapshotWorld
<1>3. LinkByIp(World, ids) \in Worlds /\ LinkByIp(World, ids).live = live
    BY Before, LinkedWorld
<1>4. placed \in 0..MaxPlaced /\ syncs \in SUBSET Ids
    BY DEF IInv, TypeOK
<1> QED BY <1>1, <1>2, <1>3, <1>4, Before, IdleHolds, FaultCount, After

\* Turns of the queue that concern the bridge of one appliance.
LEMMA TurnStep ==
    ASSUME IInv, NEW id \in Ids, NEW c \in Conns,
           \/ Sync(id, c) \/ SyncFails(id)
           \/ Resume(id, c) \/ Suspend(id) \/ Restore(id, c)
    PROVE  IInv'
<1>0. /\ World \in Worlds /\ World.live = live /\ World.present = present
      /\ World.entry = entry /\ World.released = released /\ World.intent = intent
      /\ Kept(live, archive, saved) /\ Good(bridge) /\ UsesLive(bridge, live)
      /\ entry \in [Entries -> Entry \cup {Unlisted}] /\ Fresh(bridge, id, c)
    BY Before
<1>1. placed \in 0..MaxPlaced /\ faults \in 0..MaxFaults /\ syncs \in SUBSET Ids
    BY DEF IInv, TypeOK
<1>2. CASE Sync(id, c)
    <2> DEFINE w == LinkByIp(World, {id})
    <2>2. w \in Worlds /\ w.live = live /\ w.present = present
        BY <1>0, LinkedWorld
    <2>3. /\ Idle /\ Becomes(w) /\ bridge' = Reconcile(w, bridge, id, c) /\ syncs' = syncs \ {id}
          /\ UNCHANGED <<closing, job, placed, archive, saved, faults>>
        BY <1>2 DEF Sync, Rest, files
    <2> HIDE DEF w
    <2>4. Good(bridge') /\ UsesLive(bridge', live)
        BY <1>0, <2>2, <2>3, ReconcileGood DEF Kept, Worlds
    <2> QED BY <1>0, <1>1, <2>2, <2>3, <2>4, IdleHolds, After
<1>3. CASE SyncFails(id)
    <2>1. /\ Idle /\ Fault /\ syncs' = syncs \ {id} /\ Becomes(World)
          /\ UNCHANGED <<closing, job, placed, archive, saved, bridge>>
        BY <1>0, <1>3 DEF SyncFails, Rest, files, policy, Becomes
    <2> QED BY <1>0, <1>1, <2>1, IdleHolds, FaultCount, After
<1>4. CASE Resume(id, c)
    <2> DEFINE w == [World EXCEPT !.intent[id] = "on"]
    <2>1. w \in Worlds /\ w.live = live /\ w.present = present
        BY <1>0 DEF Worlds
    <2>2. /\ Idle /\ Becomes(w) /\ bridge' = StartPresent(w, bridge, id, c)
          /\ UNCHANGED <<closing, job, placed, syncs, archive, saved, faults>>
        BY <1>4 DEF Resume, Rest, files
    <2> HIDE DEF w
    <2>3. Good(bridge') /\ UsesLive(bridge', live)
        BY <1>0, <2>1, <2>2, ReconcileGood DEF Kept, Worlds
    <2> QED BY <1>0, <1>1, <2>1, <2>2, <2>3, IdleHolds, After
<1>5. CASE Suspend(id)
    <2>1. /\ Idle /\ Becomes(SwitchOff(World, id)) /\ bridge' = Stop(bridge, id)
          /\ UNCHANGED <<closing, job, placed, syncs, archive, saved, faults>>
        BY <1>5 DEF Suspend, Rest, files
    <2>2. Good(bridge') /\ UsesLive(bridge', live)
        BY <1>0, <2>1, StopGood, StopUses
    <2> QED BY <1>0, <1>1, <2>1, <2>2, SwitchOffWorld, IdleHolds, After
<1>6. CASE Restore(id, c)
    <2> DEFINE w == [World EXCEPT !.live[id] = archive[id]]
    <2>1. /\ Idle /\ live[id] = 0 /\ archive[id] # 0 /\ Becomes(w)
          /\ bridge' = IF Wanted(w, id) THEN StartPresent(w, bridge, id, c) ELSE bridge
          /\ UNCHANGED <<closing, job, placed, syncs, archive, saved, faults>>
        BY <1>6 DEF Restore, Rest, files
    <2>2. w \in Worlds /\ w.live = [live EXCEPT ![id] = archive[id]] /\ w.present = present
        BY <1>0 DEF Worlds, Kept
    <2> HIDE DEF w
    <2>3. Kept(w.live, archive, saved)
        BY <1>0, <2>1, <2>2 DEF Kept
    <2>4. ~Runs(bridge, id)
        BY <1>0, <2>1 DEF UsesLive, Runs, Good, Bridges, BridgedDevice
    <2>5. UsesLive(bridge, w.live)
        BY <1>0, <2>2, <2>4 DEF UsesLive, Kept
    <2>6. Good(bridge') /\ UsesLive(bridge', w.live)
        BY <1>0, <2>1, <2>2, <2>3, <2>5, ReconcileGood DEF Kept, Worlds
    <2> QED BY <1>0, <1>1, <2>1, <2>2, <2>3, <2>6, IdleHolds, After
<1> QED BY <1>2, <1>3, <1>4, <1>5, <1>6

\* An entry is replaced by another one.
LEMMA EntryWorld ==
    ASSUME NEW w \in Worlds, NEW e \in Entries, NEW x \in Entry \cup {Unlisted}
    PROVE  /\ [w EXCEPT !.entry[e] = x] \in Worlds
           /\ [w EXCEPT !.entry[e] = x].live = w.live
           /\ [w EXCEPT !.entry[e] = x].present = w.present
BY DEF Worlds

\* Stopping the bridge of one appliance, and perhaps archiving its registration.
LEMMA RemovalKept ==
    ASSUME Kept(live, archive, saved), NEW id \in Ids
    PROVE  /\ Kept(live, Archived(id), saved)
           /\ Kept([live EXCEPT ![id] = 0], Archived(id), saved)
<1>1. Archived(id) \in [Ids -> 0..MaxRegs] /\ \A o \in Ids \ {id} : Archived(id)[o] = archive[o]
    BY DEF Kept, Archived
<1>2. Archived(id)[id] = IF live[id] = 0 THEN archive[id] ELSE live[id]
    BY DEF Kept, Archived
<1>3. [live EXCEPT ![id] = 0] \in [Ids -> 0..MaxRegs]
    BY BridgeAssumption DEF Kept
<1> HIDE DEF Archived
<1> QED BY <1>1, <1>2, <1>3 DEF Kept

\* discardDeviceState(): no registration and no wish is left in use.
LEMMA DiscardedWorld ==
    ASSUME NEW w \in Worlds, NEW id \in Ids
    PROVE  /\ Discarded(w, id) \in Worlds /\ Discarded(w, id).live = [w.live EXCEPT ![id] = 0]
           /\ Discarded(w, id).present = w.present /\ Discarded(w, id).entry = w.entry
           /\ Discarded(w, id).intent \in [Ids -> {"unset", "on", "off"}]
<1> DEFINE v == [w EXCEPT !.live[id] = 0]
<1>1. /\ v \in Worlds /\ v.live = [w.live EXCEPT ![id] = 0]
      /\ v.present = w.present /\ v.entry = w.entry
    BY BridgeAssumption DEF Worlds
<1> HIDE DEF v
<1>2. Discarded(w, id) = SwitchOff(v, id)
    BY DEF Discarded, v
<1>3. \A u \in Worlds : u.intent \in [Ids -> {"unset", "on", "off"}]
    BY DEF Worlds
<1> QED BY <1>1, <1>2, <1>3, SwitchOffWorld

\* A new connection object is new for every appliance.
LEMMA AllFresh ==
    ASSUME NEW c \in Conns, NEW id
    PROVE  Fresh(bridge, id, c)
BY DEF Fresh, Conns

\* An entry that comes to count for an appliance is counted below its bound.
LEMMA PlacedCount ==
    ASSUME IInv, NEW appears, CountPlaced(appears)
    PROVE  placed' \in 0..MaxPlaced
BY BridgeAssumption DEF IInv, TypeOK, CountPlaced

\* Turns of the queue that edit the inventory.
LEMMA EditStep ==
    ASSUME IInv, NEW e \in Entries, NEW id \in Ids, NEW c \in Conns,
           NEW a \in Ids \cup Elsewhere, NEW m \in {"dnat", "local"},
           \/ Add(e, a, m) \/ Move(e, a, c) \/ ChangeMode(e, m, c)
           \/ LinkTo(e, id, c) \/ Unlink(e) \/ Remove(e)
    PROVE  IInv'
<1>0. /\ World \in Worlds /\ World.live = live /\ World.present = present
      /\ World.entry = entry /\ World.released = released /\ World.intent = intent
      /\ Kept(live, archive, saved) /\ Good(bridge) /\ UsesLive(bridge, live)
      /\ entry \in [Entries -> Entry \cup {Unlisted}] /\ Fresh(bridge, id, c)
    BY Before
<1>1. placed \in 0..MaxPlaced /\ faults \in 0..MaxFaults /\ syncs \in SUBSET Ids
    BY DEF IInv, TypeOK
<1>2. ASSUME entry[e] # Unlisted
      PROVE  entry[e] \in Entry /\ Linked(e) \in Ids \cup {None}
    BY <1>0, <1>2 DEF Entry, Linked
<1>3. CASE Add(e, a, m)
    <2> DEFINE x == [addr |-> a, linked |-> None, auto |-> TRUE, mode |-> m, desired |-> "unset"]
    <2>1. /\ Idle /\ placed < MaxPlaced /\ placed' = placed + 1
          /\ Becomes([World EXCEPT !.entry[e] = x])
          /\ UNCHANGED <<bridge, closing, job, syncs, saved, archive, faults>>
        BY <1>3 DEF Add, Edit
    <2>2. x \in Entry
        BY DEF Entry
    <2> HIDE DEF x
    <2>3. placed' \in 0..MaxPlaced
        BY <1>1, <2>1, BridgeAssumption
    <2> QED BY <1>0, <1>1, <2>1, <2>2, <2>3, EntryWorld, IdleHolds, After
<1>5. CASE ChangeMode(e, m, c)
    <2> DEFINE w == [World EXCEPT !.entry[e].mode = m]
               b == IF Linked(e) = None THEN bridge ELSE Reconcile(w, bridge, Linked(e), c)
    <2>1. /\ Idle /\ IsOff(e) /\ Becomes(w) /\ bridge' = b
          /\ UNCHANGED <<closing, job, syncs, saved, archive, placed, faults>>
        BY <1>5 DEF ChangeMode, Edit
    <2>2. [entry[e] EXCEPT !.mode = m] \in Entry
        BY <1>2, <2>1 DEF IsOff, Entry
    <2>3. w = [World EXCEPT !.entry[e] = [entry[e] EXCEPT !.mode = m]]
        BY <1>0
    <2>4. w \in Worlds /\ w.live = live /\ w.present = present
        BY <1>0, <2>2, <2>3, EntryWorld
    <2> HIDE DEF w
    <2>5. Good(bridge') /\ UsesLive(bridge', live)
        <3>1. CASE Linked(e) = None
            BY <1>0, <2>1, <3>1
        <3>2. CASE Linked(e) # None
            BY <1>0, <1>2, <2>1, <2>4, <3>2, AllFresh, ReconcileGood DEF IsOff, Kept, Worlds
        <3> QED BY <3>1, <3>2
    <2> QED BY <1>0, <1>1, <2>1, <2>4, <2>5, IdleHolds, After
<1>6. CASE LinkTo(e, id, c)
    <2> DEFINE previous == Linked(e)
               other == previous \notin {None, id}
               linked == [World EXCEPT !.entry[e] = [entry[e] EXCEPT !.linked = id, !.auto = TRUE]]
               w == IF other THEN SwitchOff(linked, previous) ELSE linked
               b == IF other THEN Stop(bridge, previous) ELSE bridge
    <2>1. /\ Idle /\ entry[e] # Unlisted /\ Becomes(w) /\ bridge' = Reconcile(w, b, id, c)
          /\ UNCHANGED <<closing, job, syncs, saved, archive, faults>>
          /\ placed' \in 0..MaxPlaced
        BY <1>6, PlacedCount DEF LinkTo, Edit
    <2>2. [entry[e] EXCEPT !.linked = id, !.auto = TRUE] \in Entry
        BY <1>2, <2>1 DEF Entry
    <2>3. linked \in Worlds /\ linked.live = live /\ linked.present = present
        BY <1>0, <2>2, EntryWorld
    <2>4. other => previous \in Ids
        BY <1>2, <2>1
    <2> HIDE DEF linked, previous
    <2>5. w \in Worlds /\ w.live = live /\ w.present = present
        BY <2>3, <2>4, SwitchOffWorld
    <2>6. Good(b) /\ UsesLive(b, live) /\ Fresh(b, id, c)
        BY <1>0, <2>4, StopGood, StopUses
    <2> HIDE DEF w, b
    <2>7. Good(bridge') /\ UsesLive(bridge', live)
        BY <1>0, <2>1, <2>5, <2>6, ReconcileGood DEF Kept, Worlds
    <2> QED BY <1>0, <1>1, <2>1, <2>5, <2>7, IdleHolds, After
<1>7. CASE Move(e, a, c)
    <2> DEFINE linked == Linked(e)
               moved == [World EXCEPT !.entry[e] =
                            [entry[e] EXCEPT !.addr = a, !.linked = None, !.auto = TRUE]]
               w == SwitchOff(moved, linked)
    <2>1. /\ Idle /\ placed < MaxPlaced /\ placed' = placed + 1 /\ IsOff(e)
          /\ IF linked = None THEN Edit(moved, bridge)
             ELSE Edit(w, Reconcile(w, Stop(bridge, linked), linked, c))
          /\ UNCHANGED <<archive, faults>>
        BY <1>7 DEF Move
    <2>2. [entry[e] EXCEPT !.addr = a, !.linked = None, !.auto = TRUE] \in Entry
        BY <1>2, <2>1 DEF Entry, IsOff
    <2>3. moved \in Worlds /\ moved.live = live /\ moved.present = present
        BY <1>0, <2>2, EntryWorld
    <2>4. linked # None => linked \in Ids
        BY <1>2, <2>1 DEF IsOff
    <2> HIDE DEF moved, linked
    <2>5. linked # None => w \in Worlds /\ w.live = live /\ w.present = present
        BY <2>3, <2>4, SwitchOffWorld
    <2> HIDE DEF w
    <2>6. placed' \in 0..MaxPlaced
        BY <1>1, <2>1, BridgeAssumption
    <2>7. CASE linked = None
        BY <1>0, <1>1, <2>1, <2>3, <2>6, <2>7, IdleHolds, After DEF Edit
    <2>8. CASE linked # None
        <3>1. /\ Good(Stop(bridge, linked)) /\ UsesLive(Stop(bridge, linked), live)
              /\ Fresh(Stop(bridge, linked), linked, c)
            BY <1>0, <2>4, <2>8, AllFresh, StopGood, StopUses
        <3>2. Good(bridge') /\ UsesLive(bridge', live)
            BY <1>0, <2>1, <2>4, <2>5, <2>8, <3>1, ReconcileGood DEF Edit, Kept, Worlds
        <3> QED BY <1>0, <1>1, <2>1, <2>5, <2>6, <2>8, <3>2, IdleHolds, After DEF Edit
    <2> QED BY <2>7, <2>8
<1>8. CASE Unlink(e)
    <2> DEFINE linked == Linked(e)
               off == IF linked = None THEN World ELSE SwitchOff(World, linked)
               b == IF linked = None THEN bridge ELSE Stop(bridge, linked)
               x == [entry[e] EXCEPT !.linked = None, !.auto = FALSE]
    <2>1. /\ Idle /\ IsOff(e) /\ bridge' = b /\ (Fault \/ UNCHANGED faults)
          /\ Becomes([off EXCEPT !.entry[e] = x]) \/ Becomes(off)
          /\ UNCHANGED <<closing, job, syncs, saved, archive>>
          /\ placed' \in 0..MaxPlaced
        BY <1>1, <1>8, PlacedCount DEF Unlink, Edit
    <2>2. x \in Entry
        BY <1>2, <2>1 DEF Entry, IsOff
    <2>3. linked # None => linked \in Ids
        BY <1>2, <2>1 DEF IsOff
    <2> HIDE DEF x, linked
    <2>4. off \in Worlds /\ off.live = live
        BY <1>0, <2>3, SwitchOffWorld
    <2>5. Good(b) /\ UsesLive(b, live)
        BY <1>0, <2>3, StopGood, StopUses
    <2> HIDE DEF off, b
    <2>6. [off EXCEPT !.entry[e] = x] \in Worlds /\ [off EXCEPT !.entry[e] = x].live = live
        BY <2>2, <2>4, EntryWorld
    <2>7. faults' \in 0..MaxFaults /\ job' \in Job /\ JobHolds'
        BY <2>1, FaultCount, IdleHolds
    <2>8. CASE Becomes(off)
        BY <1>0, <1>1, <2>1, <2>4, <2>5, <2>7, <2>8, After
    <2>9. CASE Becomes([off EXCEPT !.entry[e] = x])
        BY <1>0, <1>1, <2>1, <2>5, <2>6, <2>7, <2>9, After
    <2> QED BY <2>1, <2>8, <2>9
<1>9. CASE Remove(e)
    <2> DEFINE linked == Linked(e)
               off == IF linked = None THEN World ELSE Discarded(World, linked)
               b == IF linked = None THEN bridge ELSE Stop(bridge, linked)
               v == [off EXCEPT !.entry[e] = Unlisted, !.released = released \ {e}]
    <2>1. /\ Idle /\ IsOff(e) /\ bridge' = b /\ (Fault \/ UNCHANGED faults)
          /\ archive' = IF linked = None THEN archive ELSE Archived(linked)
          /\ Becomes(v) \/ Becomes(off)
          /\ UNCHANGED <<closing, job, syncs, saved>>
          /\ placed' \in 0..MaxPlaced
        BY <1>1, <1>9, PlacedCount DEF Remove, Edit
    <2>2. linked # None => linked \in Ids
        BY <1>2, <2>1 DEF IsOff
    <2> HIDE DEF linked
    <2>3. /\ off \in Worlds /\ Kept(off.live, archive', saved)
          /\ Good(b) /\ UsesLive(b, off.live)
        <3>1. CASE linked = None
            BY <1>0, <2>1, <3>1
        <3>2. CASE linked # None
            <4>1. linked \in Ids
                BY <2>2, <3>2
            <4>2. off \in Worlds /\ off.live = [live EXCEPT ![linked] = 0]
                BY <1>0, <3>2, <4>1, DiscardedWorld
            <4>3. Kept(off.live, archive', saved)
                BY <1>0, <2>1, <3>2, <4>1, <4>2, RemovalKept
            <4>4. \A o \in Ids \ {linked} : off.live[o] = live[o]
                BY <1>0, <4>2 DEF Kept
            <4>5. b = Stop(bridge, linked)
                BY <3>2
            <4> HIDE DEF off, b
            <4>6. Good(Stop(bridge, linked)) /\ UsesLive(Stop(bridge, linked), off.live)
                <5>1. Good(Stop(bridge, linked))
                    BY <1>0, <4>1, StopGood
                <5>2. UsesLive(bridge, live) /\ Good(bridge)
                    BY <1>0
                <5>3. UsesLive(Stop(bridge, linked), off.live)
                    BY <4>1, <4>4, <5>2, StopUses
                <5> QED BY <5>1, <5>3
            <4> QED BY <4>2, <4>3, <4>5, <4>6
        <3> QED BY <3>1, <3>2
    <2>31. released \in SUBSET Entries
        BY DEF IInv, TypeOK
    <2>4. v \in Worlds /\ v.live = off.live
        BY <2>3, <2>31 DEF Worlds
    <2>5. faults' \in 0..MaxFaults /\ job' \in Job /\ JobHolds'
        BY <2>1, FaultCount, IdleHolds
    <2> HIDE DEF off, b, v
    <2>6. CASE Becomes(off)
        BY <1>1, <2>1, <2>3, <2>5, <2>6, After
    <2>7. CASE Becomes(v)
        BY <1>1, <2>1, <2>3, <2>4, <2>5, <2>7, After
    <2> QED BY <2>1, <2>6, <2>7
<1> QED BY <1>3, <1>5, <1>6, <1>7, <1>8, <1>9

\* reconcileAll(): each appliance is reconciled, and none disturbs another.
LEMMA ReconcileAllGood ==
    ASSUME IInv, NEW conns \in [Ids -> Conns]
    PROVE  Good(ReconcileAll(bridge, conns)) /\ UsesLive(ReconcileAll(bridge, conns), live)
<1> DEFINE each(id) == IF present[id] = None THEN bridge
                       ELSE Reconcile(World, bridge, id, conns[id])
           R == ReconcileAll(bridge, conns)
<1>1. ASSUME NEW id \in Ids
      PROVE  Good(each(id)) /\ UsesLive(each(id), live) /\ each(id) \in Bridges
    <2>1. /\ World \in Worlds /\ World.live = live /\ World.present = present
          /\ Good(bridge) /\ UsesLive(bridge, live)
        BY Before
    <2>2. Fresh(bridge, id, conns[id])
        BY AllFresh
    <2>3. Good(Reconcile(World, bridge, id, conns[id]))
          /\ UsesLive(Reconcile(World, bridge, id, conns[id]), live)
        BY <2>1, <2>2, ReconcileGood DEF Worlds
    <2> QED BY <2>1, <2>3 DEF Good
<1>2. R = [map |-> [id \in Ids |-> each(id).map[id]],
           links |-> UNION {{l \in each(id).links : l.id = id} : id \in Ids},
           restarted |-> UNION {each(id).restarted : id \in Ids}]
    BY DEF ReconcileAll
<1> HIDE DEF each, R
<1>3. R \in Bridges
    BY <1>1, <1>2 DEF Bridges
<1>4. ASSUME NEW id \in Ids
      PROVE  R.map[id] = each(id).map[id] /\ LinksFor(R, id) = LinksFor(each(id), id)
    BY <1>2 DEF LinksFor
<1>5. Good(R)
    BY <1>1, <1>3, <1>4 DEF Good
<1>6. UsesLive(R, live)
    BY <1>1, <1>4 DEF UsesLive, Runs
<1> QED BY <1>5, <1>6 DEF R

\* A request that begins to wait.
LEMMA StartStep ==
    ASSUME IInv,
           \/ \E e \in Entries : StartEnable(e) \/ StartDisable(e)
           \/ StartRelease \/ StartCycle
           \/ \E id \in Ids : StartRenew(id)
           \/ RenewFails \/ JobFails
    PROVE  IInv'
<1>0. /\ World \in Worlds /\ World.live = live /\ World.present = present
      /\ World.entry = entry /\ World.released = released /\ World.intent = intent
      /\ Kept(live, archive, saved) /\ Good(bridge) /\ UsesLive(bridge, live)
    BY Before
<1>1. /\ placed \in 0..MaxPlaced /\ faults \in 0..MaxFaults /\ syncs \in SUBSET Ids
      /\ NoJob \in Job /\ released \in SUBSET Entries
    BY DEF IInv, TypeOK, NoJob, Job
<1>2. ASSUME NEW e \in Entries, StartEnable(e) \/ StartDisable(e)
      PROVE  IInv'
    <2>1. /\ entry[e] # Unlisted /\ (Wait("enable", e) \/ Wait("disable", e)) /\ Becomes(World)
          /\ UNCHANGED <<bridge, closing, syncs, placed, archive, saved, faults>>
        BY <1>0, <1>2 DEF StartEnable, StartDisable, Managed, policy, Still, files, Becomes
    <2>2. job' \in Job /\ job'.op \in {"enable", "disable"} /\ job'.at = e
        BY <1>1, <2>1 DEF Wait, Job, NoJob
    <2>3. JobHolds'
        BY <1>0, <2>1, <2>2 DEF JobHolds, Becomes
    <2> QED BY <1>0, <1>1, <2>1, <2>2, <2>3, After
<1>3. CASE StartRelease
    <2> DEFINE entries == {e \in Entries : Managed(e)}
               w == [World EXCEPT !.released = released \cup entries]
    <2>1. /\ Becomes(w) /\ job' = [NoJob EXCEPT !.op = "release", !.todo = entries]
          /\ UNCHANGED <<bridge, closing, syncs, placed, archive, saved, faults>>
        BY <1>3 DEF StartRelease, Still, files
    <2>2. w \in Worlds /\ w.live = live /\ w.entry = entry
        BY <1>0, <1>1 DEF Worlds
    <2>3. entries \subseteq Entries /\ \A e \in entries : entry[e] # Unlisted
        BY DEF Managed
    <2> HIDE DEF w, entries
    <2>4. job' \in Job /\ job'.op = "release" /\ job'.todo = entries
        BY <1>1, <2>1, <2>3 DEF Job, NoJob
    <2>5. JobHolds'
        BY <2>1, <2>2, <2>3, <2>4 DEF JobHolds, Becomes
    <2> QED BY <1>0, <1>1, <2>1, <2>2, <2>4, <2>5, After
<1>4. CASE StartCycle
    <2>1. /\ Becomes(World) /\ job' = [NoJob EXCEPT !.op = "cycle"]
          /\ UNCHANGED <<bridge, closing, syncs, placed, archive, saved, faults>>
        BY <1>0, <1>4 DEF StartCycle, policy, Still, files, Becomes
    <2>2. job' \in Job /\ job'.op = "cycle"
        BY <1>1, <2>1 DEF Job, NoJob
    <2>3. JobHolds'
        BY <2>2 DEF JobHolds
    <2> QED BY <1>0, <1>1, <2>1, <2>2, <2>3, After
<1>5. ASSUME NEW id \in Ids, StartRenew(id)
      PROVE  IInv'
    <2> DEFINE b == [bridge EXCEPT !.restarted = bridge.restarted \ {id}]
    <2>1. /\ Becomes(World) /\ present[id] # None /\ saved[id] < MaxRegs /\ bridge' = b
          /\ job' = [NoJob EXCEPT !.op = "renew", !.id = id, !.dev = present[id]]
          /\ UNCHANGED <<closing, syncs, placed, archive, saved, faults>>
        BY <1>0, <1>5 DEF StartRenew, policy, Still, files, Becomes
    <2>2. b \in Bridges /\ b.map = bridge.map /\ b.links = bridge.links
        BY <1>0 DEF Good, Bridges
    <2> HIDE DEF b
    <2>3. Good(b) /\ UsesLive(b, live)
        BY <1>0, <2>2 DEF Good, UsesLive, Runs, LinksFor
    <2>4. present[id] \in Devs
        BY <2>1 DEF IInv, TypeOK
    <2>5. job' \in Job /\ job'.op = "renew" /\ job'.id = id /\ job'.dev = present[id]
        BY <1>1, <2>1, <2>4 DEF Job, NoJob
    <2>6. JobHolds'
        BY <2>1, <2>4, <2>5 DEF JobHolds
    <2> QED BY <1>0, <1>1, <2>1, <2>3, <2>5, <2>6, After
<1>6. CASE RenewFails \/ JobFails
    <2>1. /\ Becomes(World) /\ job' = NoJob /\ (Fault \/ UNCHANGED faults)
          /\ UNCHANGED <<bridge, closing, syncs, placed, archive, saved>>
        BY <1>0, <1>6 DEF RenewFails, JobFails, policy, Still, files, Becomes
    <2>2. JobHolds'
        BY <2>1 DEF JobHolds, NoJob
    <2> QED BY <1>0, <1>1, <2>1, <2>2, FaultCount, After
<1> QED BY <1>2, <1>3, <1>4, <1>5, <1>6

\* A request that is answered.
LEMMA AnswerStep ==
    ASSUME IInv, Answer
    PROVE  IInv'
<1>0. /\ World \in Worlds /\ World.live = live /\ World.present = present
      /\ World.entry = entry /\ World.released = released /\ World.intent = intent
      /\ Kept(live, archive, saved) /\ Good(bridge) /\ UsesLive(bridge, live)
      /\ entry \in [Entries -> Entry \cup {Unlisted}]
    BY Before
<1>1. /\ placed \in 0..MaxPlaced /\ faults \in 0..MaxFaults /\ syncs \in SUBSET Ids
      /\ NoJob \in Job /\ released \in SUBSET Entries /\ job \in Job /\ JobHolds
    BY DEF IInv, TypeOK, NoJob, Job
<1>2. ASSUME job' = NoJob
      PROVE  job' \in Job /\ JobHolds'
    BY <1>1, <1>2 DEF JobHolds, NoJob
<1>3. ASSUME NEW e \in Entries, entry[e] # Unlisted, NEW w \in Worlds, NEW c \in Conns,
             w.live = live, w.present = present
      PROVE  Good(ReconcileLinked(w, e, c)) /\ UsesLive(ReconcileLinked(w, e, c), live)
    <2>1. Linked(e) # None => Linked(e) \in Ids
        BY <1>0, <1>3 DEF Linked, Entry
    <2>2. CASE Linked(e) = None
        BY <1>0, <2>2 DEF ReconcileLinked
    <2>3. CASE Linked(e) # None
        BY <1>0, <1>3, <2>1, <2>3, AllFresh, ReconcileGood DEF ReconcileLinked, Kept, Worlds
    <2> QED BY <2>2, <2>3
<1>4. ASSUME NEW c \in Conns, EnableDone(c)
      PROVE  IInv'
    <2> DEFINE e == job.at
               w == [World EXCEPT !.entry[e].desired = "on", !.released = released \ {e}]
    <2>1. /\ job.op = "enable" /\ Snapshot(w) /\ bridge' = ReconcileLinked(w, e, c) /\ job' = NoJob
          /\ UNCHANGED <<closing, syncs, placed, archive, saved>>
        BY <1>4 DEF EnableDone, Still, files
    <2>2. e \in Entries /\ entry[e] # Unlisted
        BY <1>1, <2>1 DEF JobHolds
    <2>3. [entry[e] EXCEPT !.desired = "on"] \in Entry
        BY <1>0, <2>2 DEF Entry
    <2> HIDE DEF e
    <2>4. w \in Worlds /\ w.live = live /\ w.present = present
        BY <1>0, <1>1, <2>2, <2>3 DEF Worlds
    <2> HIDE DEF w
    <2>5. Good(bridge') /\ UsesLive(bridge', live)
        BY <1>3, <2>1, <2>2, <2>4
    <2>6. PICK ids \in SUBSET Ids : Becomes(LinkByIp(w, ids)) /\ (Fault \/ UNCHANGED faults)
        BY <2>1, <2>4, SnapshotWorld
    <2>7. LinkByIp(w, ids) \in Worlds /\ LinkByIp(w, ids).live = live
        BY <2>4, LinkedWorld
    <2> QED BY <1>0, <1>1, <1>2, <2>1, <2>5, <2>6, <2>7, FaultCount, After
<1>5. ASSUME NEW c \in Conns, DisableDone(c)
      PROVE  IInv'
    <2> DEFINE e == job.at
               w == [World EXCEPT !.released = released \cup {e}]
               v == [w EXCEPT !.entry[e].desired = "off"]
    <2>1. /\ job.op = "disable" /\ bridge' = ReconcileLinked(w, e, c) /\ job' = NoJob
          /\ Snapshot(v) \/ (Becomes(w) /\ Fault)
          /\ UNCHANGED <<closing, syncs, placed, archive, saved>>
        BY <1>5 DEF DisableDone, Still, files
    <2>2. e \in Entries /\ entry[e] # Unlisted
        BY <1>1, <2>1 DEF JobHolds
    <2>3. [entry[e] EXCEPT !.desired = "off"] \in Entry
        BY <1>0, <2>2 DEF Entry
    <2> HIDE DEF e
    <2>4. w \in Worlds /\ w.live = live /\ w.present = present /\ w.entry = entry
        BY <1>0, <1>1, <2>2 DEF Worlds
    <2> HIDE DEF w
    <2>5. v \in Worlds /\ v.live = live
        BY <1>0, <2>2, <2>3, <2>4 DEF Worlds
    <2> HIDE DEF v
    <2>6. Good(bridge') /\ UsesLive(bridge', live)
        BY <1>3, <2>1, <2>2, <2>4
    <2>7. CASE Becomes(w) /\ Fault
        BY <1>0, <1>1, <1>2, <2>1, <2>4, <2>6, <2>7, FaultCount, After
    <2>8. CASE Snapshot(v)
        <3>1. PICK ids \in SUBSET Ids : Becomes(LinkByIp(v, ids)) /\ (Fault \/ UNCHANGED faults)
            BY <2>5, <2>8, SnapshotWorld
        <3>2. LinkByIp(v, ids) \in Worlds /\ LinkByIp(v, ids).live = live
            BY <2>5, LinkedWorld
        <3> QED BY <1>0, <1>1, <1>2, <2>1, <2>6, <3>1, <3>2, FaultCount, After
    <2> QED BY <2>1, <2>7, <2>8
<1>6. ASSUME NEW c \in Conns, RenewDone(c)
      PROVE  IInv'
    <2> DEFINE id == job.id
               w == [World EXCEPT !.live[id] = saved[id] + 1]
               b == Stop(bridge, id)
    <2>1. /\ job.op = "renew" /\ Becomes(w) /\ saved' = [saved EXCEPT ![id] = w.live[id]]
          /\ bridge' = IF Wanted(w, id) THEN Start(w, b, id, job.dev, c) ELSE b
          /\ job' = NoJob
          /\ UNCHANGED <<closing, syncs, placed, archive, faults>>
        BY <1>6 DEF RenewDone, Still
    <2>2. id \in Ids /\ job.dev \in Devs /\ saved[id] < MaxRegs
        BY <1>1, <2>1 DEF JobHolds
    <2> HIDE DEF id
    <2>3. saved[id] \in 0..MaxRegs /\ saved[id] + 1 \in 0..MaxRegs /\ saved[id] + 1 # 0
        BY <1>0, <2>2, BridgeAssumption DEF Kept
    <2>4. w \in Worlds /\ w.live = [live EXCEPT ![id] = saved[id] + 1]
        BY <1>0, <2>2, <2>3 DEF Worlds
    <2> HIDE DEF w
    <2>5. Kept(w.live, archive', saved')
        BY <1>0, <2>1, <2>2, <2>3, <2>4 DEF Kept
    <2>6. \A o \in Ids \ {id} : w.live[o] = live[o]
        BY <1>0, <2>4 DEF Kept
    <2>7. Good(b) /\ Fresh(b, id, c)
        BY <1>0, <2>2, AllFresh, StopGood
    <2>8. UsesLive(b, w.live)
        BY <1>0, <2>2, <2>6, StopUses
    <2> HIDE DEF b
    <2>9. Good(bridge') /\ UsesLive(bridge', w.live)
        BY <2>1, <2>2, <2>5, <2>7, <2>8, StartGood DEF Kept
    <2> QED BY <1>1, <1>2, <2>1, <2>4, <2>5, <2>9, After
<1>7. ASSUME NEW e \in Entries, NEW c \in Conns, ReleaseOne(e, c)
      PROVE  IInv'
    <2>1. /\ job.op = "release" /\ e \in job.todo /\ Becomes(World)
          /\ bridge' = ReconcileLinked(World, e, c)
          /\ job' = IF job.todo = {e} THEN NoJob ELSE [job EXCEPT !.todo = job.todo \ {e}]
          /\ UNCHANGED <<closing, syncs, placed, archive, saved, faults>>
        BY <1>0, <1>7 DEF ReleaseOne, policy, Still, files, Becomes
    <2>2. \A o \in job.todo : entry[o] # Unlisted
        BY <1>1, <2>1 DEF JobHolds
    <2>3. Good(bridge') /\ UsesLive(bridge', live)
        BY <1>0, <1>3, <2>1, <2>2
    <2>4. job' \in Job /\ JobHolds'
        <3>1. CASE job.todo = {e}
            BY <1>2, <2>1, <3>1
        <3>2. CASE job.todo # {e}
            <4>1. /\ job' \in Job /\ job'.op = "release" /\ job'.todo \subseteq job.todo
                BY <1>1, <2>1, <3>2 DEF Job
            <4> QED BY <1>0, <2>1, <2>2, <4>1 DEF JobHolds, Becomes
        <3> QED BY <3>1, <3>2
    <2> QED BY <1>0, <1>1, <2>1, <2>3, <2>4, After
<1>8. ASSUME NEW adopted \in SUBSET Entries, CycleAdopts(adopted)
      PROVE  IInv'
    <2> DEFINE f == [e \in Entries |->
                        IF e \in adopted THEN [entry[e] EXCEPT !.desired = "on"] ELSE entry[e]]
               w == [World EXCEPT !.entry = f]
    <2>1. /\ \A e \in adopted : entry[e] # Unlisted
          /\ Becomes(w) /\ job.op = "cycle" /\ job' = [job EXCEPT !.op = "restoring"]
          /\ UNCHANGED <<bridge, closing, syncs, placed, archive, saved, faults>>
        BY <1>8 DEF CycleAdopts, Managed, Still, files
    <2>2. f \in [Entries -> Entry \cup {Unlisted}]
        <3>1. \A e \in adopted : [entry[e] EXCEPT !.desired = "on"] \in Entry
            BY <1>0, <2>1 DEF Entry
        <3> QED BY <1>0, <3>1
    <2> HIDE DEF f
    <2>3. w \in Worlds /\ w.live = live
        BY <1>0, <2>2 DEF Worlds
    <2>4. job' \in Job /\ job'.op = "restoring"
        BY <1>1, <2>1 DEF Job
    <2>5. JobHolds'
        BY <2>4 DEF JobHolds
    <2> HIDE DEF w
    <2> QED BY <1>0, <1>1, <2>1, <2>3, <2>4, <2>5, After
<1>9. ASSUME NEW conns \in [Ids -> Conns], CycleEnds(conns)
      PROVE  IInv'
    <2>1. /\ Becomes(World) /\ bridge' = ReconcileAll(bridge, conns) /\ job' = NoJob
          /\ UNCHANGED <<closing, syncs, placed, archive, saved, faults>>
        BY <1>0, <1>9 DEF CycleEnds, policy, Still, files, Becomes
    <2>2. Good(bridge') /\ UsesLive(bridge', live)
        BY <2>1, ReconcileAllGood
    <2> QED BY <1>0, <1>1, <1>2, <2>1, <2>2, After
<1> QED BY <1>4, <1>5, <1>6, <1>7, <1>8, <1>9 DEF Answer

\* A process without bridges.
LEMMA NoBridgesGood == Good(NoBridges) /\ \A lv : UsesLive(NoBridges, lv)
<1>1. NoBridges \in Bridges
    BY DEF NoBridges, Bridges
<1>2. \A id \in Ids : NoBridges.map[id] = NoBridge /\ LinksFor(NoBridges, id) = {}
    BY DEF NoBridges, LinksFor
<1> HIDE DEF NoBridges
<1> QED BY <1>1, <1>2 DEF Good, GoodAt, UsesLive, Runs

\* The process dies, perhaps in the middle of a removal.
LEMMA CrashStep ==
    ASSUME IInv, Crash \/ \E e \in Entries : CrashWhileRemoving(e)
    PROVE  IInv'
<1>0. /\ Kept(live, archive, saved) /\ entry \in [Entries -> Entry \cup {Unlisted}]
      /\ World \in Worlds /\ World.live = live
    BY Before
<1>1. intent \in [Ids -> {"unset", "on", "off"}] /\ placed \in 0..MaxPlaced
    BY DEF IInv, TypeOK
<1>2. /\ Dies
      /\ intent' \in [Ids -> {"unset", "on", "off"}]
      /\ Kept(live', archive', saved)
    <2>1. CASE Crash
        BY <1>0, <1>1, <2>1 DEF Crash
    <2>2. ASSUME NEW e \in Entries, CrashWhileRemoving(e)
          PROVE  /\ Dies
                 /\ intent' \in [Ids -> {"unset", "on", "off"}]
                 /\ Kept(live', archive', saved)
        <3> DEFINE id == Linked(e)
        <3>1. id \in Ids
            BY <1>0, <2>2 DEF CrashWhileRemoving, IsOff, Linked, Entry
        <3>2. /\ Dies /\ archive' = Archived(id)
              /\ \/ UNCHANGED <<live, intent>>
                 \/ live' = [live EXCEPT ![id] = 0] /\ UNCHANGED intent
                 \/ live' = Discarded(World, id).live /\ intent' = Discarded(World, id).intent
            BY <2>2 DEF CrashWhileRemoving
        <3> HIDE DEF id
        <3>3. /\ Discarded(World, id).live = [live EXCEPT ![id] = 0]
              /\ Discarded(World, id).intent \in [Ids -> {"unset", "on", "off"}]
            BY <1>0, <3>1, DiscardedWorld
        <3>4. live' = live \/ live' = [live EXCEPT ![id] = 0]
            BY <3>2, <3>3
        <3>5. Kept(live', archive', saved)
            BY <1>0, <3>1, <3>2, <3>4, RemovalKept
        <3> QED BY <1>1, <3>2, <3>3, <3>5
    <2> QED BY <2>1, <2>2
<1>3. /\ present' \in [Ids -> Devs \cup {None}] /\ closing' = {} /\ released' = {} /\ syncs' = {}
      /\ bridge' = NoBridges /\ job' = NoJob /\ UNCHANGED <<entry, placed, saved>>
    BY <1>2 DEF Dies
<1>4. faults' \in 0..MaxFaults
    BY <1>2, FaultCount DEF Dies
<1>5. Good(bridge') /\ UsesLive(bridge', live') /\ bridge' \in Bridges
    BY <1>3, NoBridgesGood DEF Good
<1>6. job' \in Job /\ JobHolds'
    BY <1>3 DEF NoJob, Job, JobHolds
<1> QED BY <1>0, <1>1, <1>2, <1>3, <1>4, <1>5, <1>6
        DEF IInv, TypeOK, Kept, LatestRegistrationKept, ArchiveIsReal, Good

\* The first state: files of any age, and nobody connected.
LEMMA InitIInv ==
    ASSUME Init
    PROVE  IInv
<1>1. Good(bridge) /\ UsesLive(bridge, live) /\ bridge \in Bridges
    BY NoBridgesGood DEF Init, Good
<1>2. job \in Job /\ JobHolds
    BY DEF Init, NoJob, Job, JobHolds
<1>3. saved \in [Ids -> 0..MaxRegs] /\ placed \in 0..MaxPlaced /\ faults \in 0..MaxFaults
    BY BridgeAssumption DEF Init
<1>4. LatestRegistrationKept
    BY DEF Init, LatestRegistrationKept
<1>5. ArchiveIsReal
    BY DEF Init, ArchiveIsReal
<1> QED BY <1>1, <1>2, <1>3, <1>4, <1>5 DEF Init, IInv, TypeOK

\* The invariant is inductive.
LEMMA NextIInv ==
    ASSUME IInv, [Next]_vars
    PROVE  IInv'
<1>1. CASE Appliance
    BY <1>1, ApplianceStep
<1>2. CASE Upstream
    BY <1>2, UpstreamStep
<1>3. CASE Turn
    <2>1. ASSUME NEW e \in Entries, NEW id \in Ids, NEW c \in Conns,
                 \/ Sync(id, c) \/ SyncFails(id)
                 \/ Resume(id, c) \/ Suspend(id) \/ Restore(id, c)
                 \/ \E m \in {"dnat", "local"} : ChangeMode(e, m, c)
                 \/ \E a \in Ids \cup Elsewhere :
                        Move(e, a, c) \/ \E m \in {"dnat", "local"} : Add(e, a, m)
                 \/ LinkTo(e, id, c) \/ Unlink(e) \/ Remove(e)
          PROVE  IInv'
        <3>1. CASE Sync(id, c) \/ SyncFails(id) \/ Resume(id, c) \/ Suspend(id) \/ Restore(id, c)
            BY <3>1, TurnStep
        <3>2. CASE \E m \in {"dnat", "local"}, a \in Ids \cup Elsewhere :
                      \/ ChangeMode(e, m, c) \/ Move(e, a, c) \/ Add(e, a, m)
                      \/ LinkTo(e, id, c) \/ Unlink(e) \/ Remove(e)
            BY <3>2, EditStep
        <3> QED BY <2>1, <3>1, <3>2
    <2>2. CASE Status
        BY <2>2, StatusStep
    <2> QED BY <1>3, <2>1, <2>2 DEF Turn
<1>4. CASE Waiting
    BY <1>4, StartStep, AnswerStep DEF Waiting
<1>5. CASE Crash \/ \E e \in Entries : CrashWhileRemoving(e)
    BY <1>5, CrashStep
<1>6. CASE UNCHANGED vars
    BY <1>6 DEF vars, IInv, TypeOK, Good, UsesLive, Runs, LatestRegistrationKept, ArchiveIsReal,
                JobHolds
<1> QED BY <1>1, <1>2, <1>3, <1>4, <1>5, <1>6 DEF Next

-----------------------------------------------------------------------------
\* In every reachable state the invariant holds, whatever is bridged, edited,
\* renewed or lost, and wherever the process dies.
THEOREM InvariantHolds == Spec => []IInv
<1> QED BY InitIInv, NextIInv, PTL DEF Spec

\* Every variable keeps its type: no handler works on a BridgedDevice, an entry
\* or a job that is not there.
THEOREM TypeCorrect == Spec => []TypeOK
<1>1. IInv => TypeOK
    BY DEF IInv
<1> QED BY <1>1, InvariantHolds, PTL

\* archiveDeviceState(), restore() and renew(): the newest registration of an
\* appliance is in use or in the archive, and no older one replaces it.
THEOREM RegistrationsKept == Spec => []LatestRegistrationKept
<1>1. IInv => LatestRegistrationKept
    BY DEF IInv
<1> QED BY <1>1, InvariantHolds, PTL

\* Bridge.#start(), renew() and discard(): what runs for an appliance uses the
\* registration that is in its file.
THEOREM RunningCurrent == Spec => []RunningUsesSaved
<1>1. IInv => RunningUsesSaved
    BY DEF IInv, UsesLive, RunningUsesSaved
<1> QED BY <1>1, InvariantHolds, PTL

\* archiveDeviceState(), restore(), renew() and #start(): the newest registration
\* is never lost, and it is the one that runs.
THEOREM RegistrationsAreSound == Spec => []RegistrationsSound
BY RegistrationsKept, RunningCurrent, PTL DEF RegistrationsSound

\* BridgedDevice and Connection: every living socket is the current connection
\* of a running BridgedDevice, and "connected" is said of an established one.
THEOREM UpstreamUnique == Spec => []OneUpstream
<1>1. ASSUME IInv
      PROVE  OneUpstream
    <2>1. bridge \in Bridges /\ \A id \in Ids : GoodAt(bridge.map[id], LinksFor(bridge, id))
        BY <1>1 DEF IInv, Good
    <2>2. \A l \in bridge.links : l.id \in Ids /\ l \in LinksFor(bridge, l.id)
        BY <2>1 DEF Bridges, Link, LinksFor
    <2>3. \A l \in bridge.links : l.dead \/ (Runs(bridge, l.id) /\ bridge.map[l.id].conn = l.key)
        BY <2>1, <2>2 DEF GoodAt, Runs
    <2>4. \A l \in bridge.links : l.dead => l.phase = "fetching"
        BY <2>1, <2>2 DEF GoodAt
    <2>5. ASSUME NEW id \in Ids, Runs(bridge, id), bridge.map[id].connected
          PROVE  \E l \in LinkOf(bridge, id) : l.phase = "up"
        BY <2>1, <2>5 DEF GoodAt, Runs, LinkOf, LinksFor
    <2> QED BY <2>3, <2>4, <2>5 DEF OneUpstream
<1> QED BY <1>1, InvariantHolds, PTL

\* connect(), disconnect() and the retry timer: a running BridgedDevice has a
\* living socket or is going to try again.
THEOREM AlwaysRetried == Spec => []NeverStuck
<1>1. ASSUME IInv
      PROVE  NeverStuck
    <2> SUFFICES ASSUME NEW id \in Ids, Runs(bridge, id)
                 PROVE  IF bridge.map[id].timer THEN bridge.map[id].conn = None
                        ELSE \E l \in LinkOf(bridge, id) : ~l.dead
        BY DEF NeverStuck
    <2>1. GoodAt(bridge.map[id], LinksFor(bridge, id))
        BY <1>1 DEF IInv, Good
    <2> QED BY <2>1 DEF GoodAt, Runs, LinkOf, LinksFor
<1> QED BY <1>1, InvariantHolds, PTL

-----------------------------------------------------------------------------
\* What runs is what is wanted.  A second invariant, of the policy and the bridges.

\* The entry that is linked to an appliance is released: its bridge may be late to stop,
\* and may still serve a ThinQ1 connection that was replaced.
Latched(w, id) == \E e \in LinkedTo(w, id) : w.entry[e].mode = "dnat" /\ e \in w.released

OneEntryEach(w) ==
    \A e, f \in Entries :
        w.entry[e] # Unlisted /\ w.entry[f] # Unlisted /\ e # f =>
            /\ w.entry[e].addr # w.entry[f].addr
            /\ w.entry[e].linked = None \/ w.entry[e].linked # w.entry[f].linked

\* Whom a BridgedDevice serves, and that a destroyed one is no appliance's present one.
AttachedAt(w, b, id) ==
    /\ Runs(b, id) =>
        /\ w.present[id] # None
        /\ b.map[id].dev = w.present[id] \/ (id \in Thinq1 /\ Latched(w, id))
        /\ id \in Thinq1 => Wanted(w, id) \/ Latched(w, id)
    /\ b.map[id] # NoBridge /\ b.map[id].destroyed => b.map[id].dev # w.present[id]

FollowsAt(w, b, id) ==
    Runs(b, id) <=> w.present[id] # None /\ w.live[id] # 0 /\ Wanted(w, id)

\* What is yet to be done for an appliance by those that wait, or by a job.
Waits(w, q, j, id) ==
    \/ id \in q
    \/ j.op = "restoring"
    \/ j.op = "release" /\ \E e \in j.todo : e \in LinkedTo(w, id)

\* An appliance whose entry is not linked yet has been announced.
Announced(w, q, id) == LinkedTo(w, id) = {} /\ AtAddress(w, id) # {} => id \in q

Unfaulted == faults = 0 /\ placed = 0

Serves(w, b) == OneEntryEach(w) /\ \A id \in Ids : AttachedAt(w, b, id)

ClosingIsOld == \A id \in Ids, n \in Devs : <<id, n>> \in closing => n # present[id]

Settles(w, b, q, j) ==
    \A id \in Ids : Announced(w, q, id) /\ (FollowsAt(w, b, id) \/ Waits(w, q, j, id))

Settled ==
    /\ Serves(World, bridge)
    /\ ClosingIsOld
    /\ Unfaulted => Settles(World, bridge, syncs, job)

\* Bounds are counted from zero.
LEMMA Unfaulting ==
    ASSUME IInv, Next
    PROVE  /\ Fault => ~Unfaulted'
           /\ placed' = placed + 1 => ~Unfaulted'
BY BridgeAssumption DEF IInv, TypeOK, Unfaulted, Fault

\* A step to a world w.
LEMMA SettledAfter ==
    ASSUME NEW w \in Worlds, Becomes(w), Serves(w, bridge'), ClosingIsOld',
           Unfaulted' => Settles(w, bridge', syncs', job')
    PROVE  Settled'
<1>1. World' = w
    BY DEF World, Becomes, Worlds
<1> QED BY <1>1 DEF Settled

\* An appliance is linked to one entry at most.
LEMMA OneLinked ==
    ASSUME NEW w \in Worlds, OneEntryEach(w), NEW id \in Ids,
           NEW e \in LinkedTo(w, id), NEW f \in LinkedTo(w, id)
    PROVE  e = f
BY BridgeAssumption DEF OneEntryEach, LinkedTo

\* A released entry asks for nothing.
LEMMA LatchedUnwanted ==
    ASSUME NEW w \in Worlds, OneEntryEach(w), NEW id \in Ids, Latched(w, id)
    PROVE  ~Wanted(w, id)
<1>1. PICK e \in LinkedTo(w, id) : w.entry[e].mode = "dnat" /\ e \in w.released
    BY DEF Latched
<1>2. \A f \in LinkedTo(w, id) : f = e
    BY OneLinked
<1>3. EntryOf(w, id) = LinkedTo(w, id)
    BY <1>1 DEF EntryOf
<1>4. Mode(w, id) = "dnat"
    BY <1>1, <1>3 DEF Mode
<1>5. ~Forwarding(w, id)
    BY <1>1, <1>2, <1>3 DEF Forwarding
<1> QED BY <1>4, <1>5 DEF Wanted

\* #stop() ends one bridge, whatever the others do.
LEMMA StopMap ==
    ASSUME NEW b \in Bridges, NEW id \in Ids
    PROVE  /\ Stop(b, id).map[id] = NoBridge
           /\ \A o \in Ids \ {id} : Stop(b, id).map[o] = b.map[o]
           /\ Stop(b, id).map \in [Ids -> BridgedDevice \cup {NoBridge}]
BY DEF Stop, Bridges

\* #start() leaves who is attached already, or begins anew.
LEMMA StartMap ==
    ASSUME NEW b \in Bridges, NEW id \in Ids, NEW w \in Worlds, NEW dev \in Devs,
           NEW c \in Keys \cup {None}
    PROVE  /\ \A o \in Ids \ {id} : Start(w, b, id, dev, c).map[o] = b.map[o]
           /\ ~Wanted(w, id) \/ Attached(b, id, dev) => Start(w, b, id, dev, c) = b
           /\ Wanted(w, id) /\ ~Attached(b, id, dev) /\ w.live[id] = 0 =>
                  Start(w, b, id, dev, c).map[id] = NoBridge
           /\ Wanted(w, id) /\ ~Attached(b, id, dev) /\ w.live[id] # 0 =>
                  /\ Runs(Start(w, b, id, dev, c), id)
                  /\ Start(w, b, id, dev, c).map[id].dev = dev
<1> DEFINE s == Stop(b, id)
           new == [dev |-> dev, reg |-> w.live[id], destroyed |-> FALSE,
                   conn |-> None, timer |-> FALSE, connected |-> FALSE]
           t == [s EXCEPT !.map[id] = new]
           m == [t.map[id] EXCEPT !.conn = c, !.timer = (c = None), !.connected = FALSE]
           u == [t EXCEPT !.map[id] = m, !.links = t.links \cup NewLink(id, c)]
<1>1. /\ s.map \in [Ids -> BridgedDevice \cup {NoBridge}] /\ s.map[id] = NoBridge
      /\ \A o \in Ids \ {id} : s.map[o] = b.map[o]
    BY StopMap
<1>2. s = [map |-> s.map, links |-> s.links, restarted |-> s.restarted]
    BY DEF Stop
<1> HIDE DEF s
<1>3. t.map = [s.map EXCEPT ![id] = new] /\ t.map[id] = new /\ t = [s EXCEPT !.map = t.map]
    BY <1>1, <1>2
<1>4. /\ u.map = [t.map EXCEPT ![id] = m] /\ u.map[id] = m
      /\ m.dev = dev /\ ~m.destroyed
    BY <1>1, <1>2, <1>3
<1>5. w.live[id] # 0 => m # NoBridge
    <2>1. w.live[id] # 0 => w.live[id] \in 1..MaxRegs
        BY BridgeAssumption DEF Worlds
    <2>2. w.live[id] # 0 => new \in BridgedDevice
        BY <2>1 DEF BridgedDevice
    <2>3. (c = None) \in BOOLEAN
        OBVIOUS
    <2>4. w.live[id] # 0 => m \in BridgedDevice
        BY <1>3, <2>2, <2>3 DEF BridgedDevice
    <2> QED BY <2>4, AbsentAssumption
<1>6. \A o \in Ids \ {id} : u.map[o] = b.map[o]
    BY <1>1, <1>3, <1>4
<1>7. Connect(t, id, c) = u
    BY DEF Connect
<1> HIDE DEF u, t, m
<1>8. w.live[id] # 0 => Runs(u, id) /\ u.map[id].dev = dev
    BY <1>4, <1>5 DEF Runs
<1>9. /\ ~Wanted(w, id) \/ Attached(b, id, dev) => Start(w, b, id, dev, c) = b
      /\ Wanted(w, id) /\ ~Attached(b, id, dev) /\ w.live[id] = 0 => Start(w, b, id, dev, c) = s
      /\ Wanted(w, id) /\ ~Attached(b, id, dev) /\ w.live[id] # 0 => Start(w, b, id, dev, c) = u
    BY <1>7 DEF Start, s, t
<1> QED BY <1>1, <1>6, <1>8, <1>9

\* What runs has a registration.
LEMMA RunsRegistered ==
    ASSUME NEW b \in Bridges, NEW id \in Ids, NEW lv, UsesLive(b, lv), Runs(b, id)
    PROVE  lv[id] # 0
<1>1. b.map[id] \in BridgedDevice /\ b.map[id].reg = lv[id]
    BY DEF UsesLive, Runs, Bridges
<1>2. b.map[id].reg \in 1..MaxRegs
    BY <1>1 DEF BridgedDevice
<1> QED BY <1>1, <1>2, BridgeAssumption

\* A BridgedDevice that serves nobody who left, or a destroyed one.
Live(w, b, id) ==
    /\ Runs(b, id) => w.present[id] # None
    /\ b.map[id] # NoBridge /\ b.map[id].destroyed => b.map[id].dev # w.present[id]

\* #start() for the present device and reconcile() do what is wanted, for that appliance.
LEMMA StartFollows ==
    ASSUME NEW b \in Bridges, NEW id \in Ids, NEW w \in Worlds, NEW c \in Keys \cup {None},
           UsesLive(b, w.live), Live(w, b, id), Wanted(w, id)
    PROVE  /\ \A o \in Ids \ {id} : StartPresent(w, b, id, c).map[o] = b.map[o]
           /\ FollowsAt(w, StartPresent(w, b, id, c), id)
           /\ AttachedAt(w, StartPresent(w, b, id, c), id)
<1> DEFINE r == StartPresent(w, b, id, c)
<1>1. CASE w.present[id] = None
    <2>1. r = b
        BY <1>1 DEF StartPresent
    <2>2. ~Runs(b, id)
        BY <1>1 DEF Live
    <2> QED BY <1>1, <2>1, <2>2 DEF FollowsAt, AttachedAt, Live
<1>2. CASE w.present[id] # None
    <2> DEFINE dev == w.present[id]
    <2>1. dev \in Devs /\ r = Start(w, b, id, dev, c)
        BY <1>2 DEF StartPresent, Worlds
    <2> HIDE DEF r
    <2>2. CASE Attached(b, id, dev)
        <3>1. r = b /\ Runs(b, id) /\ b.map[id].dev = dev
            BY <2>1, <2>2, StartMap DEF Attached, Live, Runs
        <3>2. w.live[id] # 0
            BY <3>1, RunsRegistered
        <3> QED BY <1>2, <3>1, <3>2 DEF FollowsAt, AttachedAt, Live, r
    <2>3. CASE ~Attached(b, id, dev) /\ w.live[id] = 0
        <3>1. r.map[id] = NoBridge /\ \A o \in Ids \ {id} : r.map[o] = b.map[o]
            BY <2>1, <2>3, StartMap
        <3> QED BY <2>3, <3>1 DEF FollowsAt, AttachedAt, Runs, r
    <2>4. CASE ~Attached(b, id, dev) /\ w.live[id] # 0
        <3>1. /\ Runs(r, id) /\ r.map[id].dev = dev
              /\ \A o \in Ids \ {id} : r.map[o] = b.map[o]
            BY <2>1, <2>4, StartMap
        <3> QED BY <1>2, <2>4, <3>1 DEF FollowsAt, AttachedAt, Runs, r
    <2> QED BY <2>2, <2>3, <2>4
<1> QED BY <1>1, <1>2

\* reconcile() leaves an appliance as it is wanted, and no other one is touched.
LEMMA ReconcileFollows ==
    ASSUME NEW b \in Bridges, NEW id \in Ids, NEW w \in Worlds, NEW c \in Keys \cup {None},
           UsesLive(b, w.live), Live(w, b, id)
    PROVE  /\ \A o \in Ids \ {id} : Reconcile(w, b, id, c).map[o] = b.map[o]
           /\ FollowsAt(w, Reconcile(w, b, id, c), id)
           /\ AttachedAt(w, Reconcile(w, b, id, c), id)
<1>1. CASE Wanted(w, id)
    BY <1>1, StartFollows DEF Reconcile
<1>2. CASE ~Wanted(w, id)
    <2>1. Reconcile(w, b, id, c) = Stop(b, id)
        BY <1>2 DEF Reconcile
    <2>2. /\ Stop(b, id).map[id] = NoBridge
          /\ \A o \in Ids \ {id} : Stop(b, id).map[o] = b.map[o]
        BY StopMap
    <2> QED BY <1>2, <2>1, <2>2 DEF FollowsAt, AttachedAt, Runs
<1> QED BY <1>1, <1>2

\* What is attached is live, and stays so for whoever has the same present device.
LEMMA AttachedLive ==
    ASSUME NEW w, NEW v, NEW b, NEW id, AttachedAt(w, b, id), v.present[id] = w.present[id]
    PROVE  Live(v, b, id)
BY DEF AttachedAt, Live

\* What a step leaves to an appliance it does not touch.
Keeps(w, v, o) ==
    /\ v.present[o] = w.present[o]
    /\ v.live[o] = w.live[o]
    /\ Wanted(v, o) <=> Wanted(w, o)
    /\ o \in Thinq1 => (Latched(v, o) <=> Latched(w, o))

\* A bridge that is left alone still serves its appliance when nobody new wants it.
LEMMA KeptAttached ==
    ASSUME NEW w, NEW v, NEW b, NEW d, NEW o, AttachedAt(w, b, o), d.map[o] = b.map[o],
           v.present[o] = w.present[o],
           o \in Thinq1 => /\ Wanted(w, o) => Wanted(v, o) \/ Latched(v, o)
                           /\ Latched(w, o) => Latched(v, o)
    PROVE  AttachedAt(v, d, o)
BY DEF AttachedAt, Runs

\* A bridge that is left alone is still as wanted when its policy is as it was.
LEMMA KeptFollows ==
    ASSUME NEW w, NEW v, NEW b, NEW d, NEW o, FollowsAt(w, b, o), d.map[o] = b.map[o],
           Keeps(w, v, o)
    PROVE  FollowsAt(v, d, o)
BY DEF FollowsAt, Runs, Keeps

\* After a stop nothing is attached; it is as wanted if nothing is.
LEMMA StoppedAt ==
    ASSUME NEW w, NEW b, NEW id, b.map[id] = NoBridge
    PROVE  /\ AttachedAt(w, b, id)
           /\ ~Wanted(w, id) \/ w.present[id] = None \/ w.live[id] = 0 => FollowsAt(w, b, id)
BY DEF AttachedAt, FollowsAt, Runs

\* Two worlds with the same entries for an appliance.
LEMMA SamePolicy ==
    ASSUME NEW w \in Worlds, NEW v \in Worlds, NEW o \in Ids,
           v.present[o] = w.present[o], v.live[o] = w.live[o], v.intent[o] = w.intent[o],
           EntryOf(v, o) = EntryOf(w, o),
           \A e \in EntryOf(w, o) : /\ v.entry[e].mode = w.entry[e].mode
                                    /\ v.entry[e].desired = w.entry[e].desired
                                    /\ e \in v.released <=> e \in w.released
    PROVE  Keeps(w, v, o)
<1>2. (Mode(v, o) = "dnat") <=> (Mode(w, o) = "dnat")
    BY DEF Mode
<1>3. Forwarding(v, o) <=> Forwarding(w, o)
    BY DEF Forwarding
<1>4. (Mode(v, o) = "local") <=> (Mode(w, o) = "local")
    BY DEF Mode
<1>5. o \in Thinq1 => LinkedTo(w, o) = EntryOf(w, o) /\ LinkedTo(v, o) = EntryOf(v, o)
    BY DEF EntryOf, AtAddress
<1>6. o \in Thinq1 => (Latched(v, o) <=> Latched(w, o))
    BY <1>5 DEF Latched
<1> QED BY <1>2, <1>3, <1>4, <1>6 DEF Keeps, Wanted

\* An edit of one entry that is not linked to an appliance, and will not be.
LEMMA EditKeeps ==
    ASSUME NEW w \in Worlds, NEW v \in Worlds, NEW e \in Entries, NEW o \in Ids,
           \A f \in Entries \ {e} : /\ v.entry[f] = w.entry[f]
                                    /\ f \in v.released <=> f \in w.released,
           v.present[o] = w.present[o], v.live[o] = w.live[o], v.intent[o] = w.intent[o],
           e \notin LinkedTo(w, o), e \notin LinkedTo(v, o)
    PROVE  /\ LinkedTo(v, o) = LinkedTo(w, o)
           /\ \A f \in Entries \ {e} : f \in AtAddress(v, o) <=> f \in AtAddress(w, o)
           /\ \/ LinkedTo(w, o) # {}
              \/ e \notin AtAddress(w, o) /\ e \notin AtAddress(v, o)
              => Keeps(w, v, o)
           /\ o \in Thinq1 => Keeps(w, v, o)
<1>1. LinkedTo(v, o) = LinkedTo(w, o)
    BY DEF LinkedTo
<1>2. \A f \in Entries \ {e} : f \in AtAddress(v, o) <=> f \in AtAddress(w, o)
    BY DEF AtAddress
<1>3. /\ AtAddress(w, o) \subseteq Entries /\ AtAddress(v, o) \subseteq Entries
      /\ LinkedTo(w, o) \subseteq Entries
    BY DEF AtAddress, LinkedTo
<1>4. ASSUME \/ LinkedTo(w, o) # {}
             \/ e \notin AtAddress(w, o) /\ e \notin AtAddress(v, o)
      PROVE  Keeps(w, v, o)
    <2>1. EntryOf(v, o) = EntryOf(w, o)
        <3>1. ASSUME LinkedTo(w, o) = {}
              PROVE  AtAddress(v, o) = AtAddress(w, o)
            <4>1. e \notin AtAddress(w, o) /\ e \notin AtAddress(v, o)
                BY <1>4, <3>1
            <4>2. AtAddress(v, o) \subseteq AtAddress(w, o)
                BY <1>2, <1>3, <4>1
            <4>3. AtAddress(w, o) \subseteq AtAddress(v, o)
                BY <1>2, <1>3, <4>1
            <4> QED BY <4>2, <4>3
        <3> QED BY <1>1, <3>1 DEF EntryOf
    <2>2. \A f \in EntryOf(w, o) : f \in Entries \ {e}
        BY <1>3, <1>4 DEF EntryOf
    <2> QED BY <2>1, <2>2, SamePolicy
<1>5. o \in Thinq1 => AtAddress(w, o) = {} /\ AtAddress(v, o) = {}
    BY DEF AtAddress
<1> QED BY <1>1, <1>2, <1>4, <1>5

\* linkByIp() links an appliance to the entry that already counted for it.
LEMMA LinkKeeps ==
    ASSUME NEW w \in Worlds, NEW ids \in SUBSET Ids, NEW o \in Ids,
           o \in ids => w.present[o] # None
    PROVE  /\ Keeps(w, LinkByIp(w, ids), o)
           /\ AtAddress(LinkByIp(w, ids), o) \subseteq AtAddress(w, o)
           /\ LinkedTo(w, o) \subseteq LinkedTo(LinkByIp(w, ids), o)
<1> DEFINE v == LinkByIp(w, ids)
           Gets(e) == \E id \in ids : e \in Found(w, id)
<1>1. /\ v \in Worlds /\ v.live = w.live /\ v.present = w.present /\ v.intent = w.intent
      /\ v.released = w.released
      /\ \A e \in Entries : v.entry[e] = IF Gets(e) THEN [w.entry[e] EXCEPT !.linked = w.entry[e].addr]
                                         ELSE w.entry[e]
    BY LinkedWorld
<1> HIDE DEF v
<1>2. ASSUME NEW e \in Entries, Gets(e)
      PROVE  /\ v.entry[e] # Unlisted /\ w.entry[e] # Unlisted /\ w.entry[e].linked = None
             /\ v.entry[e].linked = w.entry[e].addr /\ v.entry[e].linked # None
             /\ v.entry[e].mode = w.entry[e].mode /\ v.entry[e].desired = w.entry[e].desired
             /\ e \in Found(w, w.entry[e].addr) /\ w.entry[e].addr \in ids
    <2>1. PICK id \in ids : e \in Found(w, id)
        BY <1>2
    <2>2. w.entry[e] \in Entry /\ w.entry[e].addr = id /\ w.entry[e].linked = None
        BY <2>1 DEF Found, Worlds
    <2>3. v.entry[e] = [w.entry[e] EXCEPT !.linked = w.entry[e].addr]
        BY <1>1, <1>2
    <2>4. v.entry[e] \in Entry /\ v.entry[e].linked = id
        BY <2>2, <2>3 DEF Entry
    <2>5. v.entry[e].mode = w.entry[e].mode /\ v.entry[e].desired = w.entry[e].desired
        BY <2>2, <2>3 DEF Entry
    <2> QED BY <2>1, <2>2, <2>4, <2>5, AbsentAssumption, BridgeAssumption
<1>3. ASSUME NEW e \in Entries, ~Gets(e)
      PROVE  v.entry[e] = w.entry[e]
    BY <1>1, <1>3
<1>4. AtAddress(v, o) \subseteq AtAddress(w, o)
    BY <1>1, <1>2, <1>3 DEF AtAddress
<1>5. LinkedTo(w, o) \subseteq LinkedTo(v, o)
    <2>1. None # o
        BY BridgeAssumption
    <2> QED BY <1>2, <1>3, <2>1 DEF LinkedTo
<1>6. EntryOf(v, o) = EntryOf(w, o)
    <2>1. CASE o \in ids /\ Found(w, o) # {}
        <3>1. LinkedTo(w, o) = {} /\ AtAddress(w, o) = Found(w, o)
            BY <2>1 DEF Found, AtAddress
        <3>2. \A e \in Found(w, o) : e \in Entries /\ Gets(e) /\ w.entry[e].addr = o
            BY <2>1 DEF Found
        <3> HIDE DEF Gets
        <3>3. Found(w, o) \subseteq LinkedTo(v, o)
            BY <1>2, <3>2 DEF LinkedTo
        <3>4. ASSUME NEW e \in LinkedTo(v, o)
              PROVE  e \in Found(w, o)
            <4>1. e \in Entries /\ v.entry[e] # Unlisted /\ v.entry[e].linked = o
                BY DEF LinkedTo
            <4>2. Gets(e)
                BY <1>3, <3>1, <4>1 DEF LinkedTo
            <4> QED BY <1>2, <4>1, <4>2
        <3> QED BY <2>1, <3>1, <3>3, <3>4 DEF EntryOf
    <2>2. CASE ~(o \in ids /\ Found(w, o) # {})
        <3>1. \A e \in Entries : Gets(e) => w.entry[e].addr # o
            BY <1>2, <2>2
        <3> HIDE DEF Gets
        <3>2. LinkedTo(v, o) = LinkedTo(w, o)
            BY <1>2, <1>3, <1>5, <3>1 DEF LinkedTo
        <3>3. AtAddress(w, o) \subseteq AtAddress(v, o)
            BY <1>1, <1>3, <3>1 DEF AtAddress
        <3>4. AtAddress(v, o) = AtAddress(w, o)
            BY <1>4, <3>3
        <3> QED BY <3>2, <3>4 DEF EntryOf
    <2> QED BY <2>1, <2>2
<1>7. \A e \in EntryOf(w, o) : e \in Entries
    BY DEF EntryOf, LinkedTo, AtAddress
<1>8. \A e \in EntryOf(w, o) : v.entry[e].mode = w.entry[e].mode /\ v.entry[e].desired = w.entry[e].desired
    BY <1>2, <1>3, <1>7
<1>9. Keeps(w, v, o)
    BY <1>1, <1>6, <1>8, SamePolicy
<1> QED BY <1>4, <1>5, <1>9 DEF v

\* An appliance that was looked up is linked, if there is an entry at its address.
LEMMA LinkedNow ==
    ASSUME NEW w \in Worlds, NEW id \in Ids
    PROVE  LinkedTo(LinkByIp(w, {id}), id) # {} \/ AtAddress(LinkByIp(w, {id}), id) = {}
<1> DEFINE v == LinkByIp(w, {id})
<1> SUFFICES ASSUME NEW e \in AtAddress(v, id)
             PROVE  LinkedTo(v, id) # {}
    OBVIOUS
<1>1. /\ v.present = w.present
      /\ \A f \in Entries : v.entry[f] = IF f \in Found(w, id)
                                         THEN [w.entry[f] EXCEPT !.linked = w.entry[f].addr]
                                         ELSE w.entry[f]
    BY LinkedWorld
<1> HIDE DEF v
<1>2. \A f \in Found(w, id) : f \in Entries /\ w.entry[f] \in Entry /\ w.entry[f].addr = id
    BY DEF Found, Worlds
<1>3. \A f \in Found(w, id) : v.entry[f] \in Entry /\ v.entry[f].linked = id
    BY <1>1, <1>2 DEF Entry
<1>4. e \in Entries /\ e \notin Found(w, id) /\ v.entry[e] = w.entry[e]
    BY <1>1, <1>3, BridgeAssumption DEF AtAddress
<1>5. LinkedTo(w, id) # {}
    BY <1>4 DEF AtAddress, Found
<1>6. PICK f \in LinkedTo(w, id) : TRUE
    BY <1>5
<1>7. f \in Entries /\ f \notin Found(w, id)
    BY <1>6, BridgeAssumption DEF LinkedTo, Found
<1>8. f \in LinkedTo(v, id)
    BY <1>1, <1>6, <1>7 DEF LinkedTo
<1> QED BY <1>8

\* Each entry has an address of its own, so that an address links one entry at most.
LEMMA LinkOneEach ==
    ASSUME NEW w \in Worlds, OneEntryEach(w), NEW ids \in SUBSET Ids
    PROVE  OneEntryEach(LinkByIp(w, ids))
<1> DEFINE v == LinkByIp(w, ids)
           Gets(e) == \E id \in ids : e \in Found(w, id)
<1>1. \A e \in Entries : v.entry[e] = IF Gets(e) THEN [w.entry[e] EXCEPT !.linked = w.entry[e].addr]
                                      ELSE w.entry[e]
    BY LinkedWorld
<1> HIDE DEF v
<1>2. ASSUME NEW e \in Entries, Gets(e)
      PROVE  /\ w.entry[e] # Unlisted /\ v.entry[e].addr = w.entry[e].addr
             /\ v.entry[e].linked = w.entry[e].addr
             /\ LinkedTo(w, w.entry[e].addr) = {}
    <2>1. PICK id \in ids : e \in Found(w, id)
        BY <1>2
    <2>2. w.entry[e] \in Entry /\ w.entry[e].addr = id /\ LinkedTo(w, id) = {}
        BY <2>1 DEF Found, Worlds
    <2>3. v.entry[e] = [w.entry[e] EXCEPT !.linked = w.entry[e].addr]
        BY <1>1, <1>2
    <2>4. v.entry[e].addr = w.entry[e].addr /\ v.entry[e].linked = w.entry[e].addr
        BY <2>2, <2>3 DEF Entry
    <2> QED BY <2>2, <2>4, AbsentAssumption
<1>3. \A e \in Entries : ~Gets(e) => v.entry[e] = w.entry[e]
    BY <1>1
<1> HIDE DEF Gets
<1> SUFFICES ASSUME NEW e \in Entries, NEW f \in Entries, e # f,
                    v.entry[e] # Unlisted, v.entry[f] # Unlisted
             PROVE  /\ v.entry[e].addr # v.entry[f].addr
                    /\ v.entry[e].linked = None \/ v.entry[e].linked # v.entry[f].linked
    BY DEF OneEntryEach, v
<1>4. /\ w.entry[e] # Unlisted /\ w.entry[f] # Unlisted
      /\ v.entry[e].addr = w.entry[e].addr /\ v.entry[f].addr = w.entry[f].addr
    BY <1>2, <1>3
<1>5. w.entry[e].addr # w.entry[f].addr
    BY <1>4 DEF OneEntryEach
<1>6. w.entry[e].linked = None \/ w.entry[e].linked # w.entry[f].linked
    BY <1>4 DEF OneEntryEach
<1>7. CASE Gets(e) /\ Gets(f)
    BY <1>2, <1>4, <1>5, <1>7
<1>8. CASE Gets(e) /\ ~Gets(f)
    BY <1>2, <1>3, <1>4, <1>5, <1>8 DEF LinkedTo
<1>9. CASE ~Gets(e) /\ Gets(f)
    BY <1>2, <1>3, <1>4, <1>5, <1>9 DEF LinkedTo
<1>10. CASE ~Gets(e) /\ ~Gets(f)
    BY <1>3, <1>4, <1>5, <1>6, <1>10
<1> QED BY <1>7, <1>8, <1>9, <1>10

-----------------------------------------------------------------------------
\* What a step to w has to show of each appliance.
SettledFor(w, o) ==
    /\ AttachedAt(w, bridge', o)
    /\ Unfaulted' => /\ Announced(w, syncs', o)
                     /\ FollowsAt(w, bridge', o) \/ Waits(w, syncs', job', o)

\* The second invariant after a step, one appliance at a time.
LEMMA SettledByParts ==
    ASSUME NEW w \in Worlds, Becomes(w), OneEntryEach(w), ClosingIsOld',
           \A o \in Ids : SettledFor(w, o)
    PROVE  Settled'
BY SettledAfter DEF SettledFor, Serves, Settles

\* The second invariant, taken apart.
LEMMA BeforeSettled ==
    ASSUME Settled
    PROVE  /\ OneEntryEach(World) /\ ClosingIsOld
           /\ \A o \in Ids : AttachedAt(World, bridge, o)
           /\ Unfaulted => \A o \in Ids :
                  /\ Announced(World, syncs, o)
                  /\ FollowsAt(World, bridge, o) \/ Waits(World, syncs, job, o)
BY DEF Settled, Serves, Settles

\* Nothing waits for an appliance but its turn in the queue.
LEMMA WaitsInQueue ==
    ASSUME NEW w, NEW q, NEW j, NEW o, j.op \notin {"release", "restoring"}
    PROVE  Waits(w, q, j, o) <=> o \in q
BY DEF Waits

\* An appliance that the step does not touch.
LEMMA Untouched ==
    ASSUME NEW w, NEW o, AttachedAt(World, bridge, o), bridge'.map[o] = bridge.map[o],
           Keeps(World, w, o),
           Unfaulted' => /\ Announced(w, syncs', o)
                         /\ FollowsAt(World, bridge, o) \/ Waits(World, syncs, job, o)
                         /\ Waits(World, syncs, job, o) => Waits(w, syncs', job', o)
    PROVE  SettledFor(w, o)
<1>1. AttachedAt(w, bridge', o)
    BY KeptAttached DEF Keeps
<1>2. FollowsAt(World, bridge, o) => FollowsAt(w, bridge', o)
    BY KeptFollows
<1> QED BY <1>1, <1>2 DEF SettledFor

\* Two worlds with the same inventory.
LEMMA SameInventory ==
    ASSUME NEW w \in Worlds, NEW v \in Worlds, NEW o \in Ids,
           v.entry = w.entry, v.released = w.released,
           v.present[o] = w.present[o], v.live[o] = w.live[o], v.intent[o] = w.intent[o]
    PROVE  /\ Keeps(w, v, o)
           /\ LinkedTo(v, o) = LinkedTo(w, o) /\ AtAddress(v, o) = AtAddress(w, o)
<1>1. LinkedTo(v, o) = LinkedTo(w, o)
    BY DEF LinkedTo
<1>2. AtAddress(v, o) = AtAddress(w, o)
    BY DEF AtAddress
<1>3. EntryOf(v, o) = EntryOf(w, o)
    BY <1>1, <1>2 DEF EntryOf
<1> QED BY <1>1, <1>2, <1>3, SamePolicy

\* One appliance is dealt with, the switches and files of the others are as they were.
LEMMA OthersSettled ==
    ASSUME Settled, NEW w \in Worlds, World \in Worlds, NEW o \in Ids,
           w.entry = World.entry, w.released = World.released,
           w.present[o] = World.present[o], w.live[o] = World.live[o],
           w.intent[o] = World.intent[o],
           bridge'.map[o] = bridge.map[o], UNCHANGED <<placed, faults>>,
           o \in syncs => o \in syncs',
           job' = job \/ (job.op \notin {"release", "restoring"} /\ job'.op \notin {"release", "restoring"})
    PROVE  SettledFor(w, o)
<1>1. /\ Keeps(World, w, o)
      /\ LinkedTo(w, o) = LinkedTo(World, o) /\ AtAddress(w, o) = AtAddress(World, o)
    BY SameInventory
<1>2. Unfaulted' => Unfaulted
    BY DEF Unfaulted
<1>3. Waits(World, syncs, job, o) => Waits(w, syncs', job', o)
    BY <1>1 DEF Waits
<1>4. Announced(World, syncs, o) => Announced(w, syncs', o)
    BY <1>1 DEF Announced
<1> QED BY <1>1, <1>2, <1>3, <1>4, BeforeSettled, Untouched

\* A new connection of an appliance, its close, and the late close of a replaced one.
LEMMA ApplianceSettled ==
    ASSUME IInv, Settled, Appliance
    PROVE  Settled'
<1>0. /\ World \in Worlds /\ World.live = live /\ World.present = present
      /\ World.entry = entry /\ World.released = released /\ World.intent = intent
      /\ Good(bridge) /\ UsesLive(bridge, live) /\ bridge \in Bridges
    BY Before DEF Good
<1>1. /\ OneEntryEach(World) /\ ClosingIsOld
      /\ \A o \in Ids : AttachedAt(World, bridge, o)
      /\ Unfaulted => \A o \in Ids :
             FollowsAt(World, bridge, o) \/ Waits(World, syncs, job, o)
    BY BeforeSettled
<1>2. ASSUME NEW id \in Ids, NEW n \in Devs, NEW c \in Conns, Accept(id, n, c)
      PROVE  Settled'
    <2> DEFINE w == [World EXCEPT !.present[id] = n]
               b == IF present[id] # None /\ id \notin Thinq1 THEN Stop(bridge, id) ELSE bridge
    <2>1. /\ w \in Worlds /\ w.entry = World.entry /\ w.released = World.released
          /\ w.live = World.live /\ w.intent = World.intent /\ w.present[id] = n
          /\ \A o \in Ids \ {id} : w.present[o] = World.present[o]
          /\ w.present = [present EXCEPT ![id] = n]
        BY <1>0 DEF Worlds
    <2>2. /\ bridge' = Start(w, b, id, n, c) /\ syncs' = syncs \cup {id} /\ n \in FreshDev(id)
          /\ present' = w.present
          /\ closing' \subseteq closing \cup {<<id, present[id]>>}
          /\ UNCHANGED <<entry, released, live, intent, job, placed, faults>>
        BY <1>2 DEF Accept
    <2> HIDE DEF w
    <2>3. Becomes(w)
        BY <1>0, <2>1, <2>2 DEF Becomes
    <2>4. ClosingIsOld'
        <3> SUFFICES ASSUME NEW o \in Ids, NEW k \in Devs, <<o, k>> \in closing'
                     PROVE  k # present'[o]
            BY DEF ClosingIsOld
        <3>1. o # id => present'[o] = present[o] /\ <<o, k>> \in closing
            BY <1>0, <2>1, <2>2
        <3>2. o = id => present'[o] = n /\ (<<id, k>> \in closing \/ k = present[id])
            BY <1>0, <2>1, <2>2
        <3>3. n # present[id] /\ <<id, n>> \notin closing
            BY <2>2 DEF FreshDev
        <3> QED BY <1>1, <3>1, <3>2, <3>3 DEF ClosingIsOld
    <2>5. OneEntryEach(w)
        BY <1>1, <2>1 DEF OneEntryEach
    <2>6. /\ b \in Bridges /\ UsesLive(b, w.live) /\ \A o \in Ids \ {id} : b.map[o] = bridge.map[o]
          /\ b.map[id] = NoBridge \/ b = bridge
        BY <1>0, <2>1, StopGood, StopUses, StopMap DEF Good
    <2>7. b = bridge => present[id] = None \/ id \in Thinq1 \/ b.map[id] = NoBridge
        BY <1>0, StopMap
    <2>8. n # None /\ (bridge.map[id] # NoBridge => bridge.map[id].dev # n)
        BY <2>2, BridgeAssumption DEF FreshDev
    <2> HIDE DEF b
    <2>9. Live(w, b, id)
        BY <2>1, <2>6, <2>8 DEF Live, Runs
    <2>10. c \in Keys \cup {None}
        BY DEF Conns
    <2>11. AttachedAt(w, bridge', id)
        <3>1. CASE Wanted(w, id)
            <4>1. bridge' = StartPresent(w, b, id, c)
                BY <2>1, <2>2, <2>8 DEF StartPresent
            <4> QED BY <2>1, <2>6, <2>9, <2>10, <3>1, <4>1, StartFollows
        <3>2. CASE ~Wanted(w, id)
            <4>1. bridge' = b
                BY <2>2, <3>2 DEF Start
            <4>2. CASE b.map[id] = NoBridge
                BY <4>1, <4>2, StoppedAt
            <4>3. CASE b = bridge /\ present[id] = None
                BY <1>0, <1>1, <2>1, <2>8, <4>1, <4>3 DEF AttachedAt
            <4>4. CASE b = bridge /\ id \in Thinq1
                <5>1. LinkedTo(w, id) = LinkedTo(World, id)
                    BY <2>1 DEF LinkedTo
                <5>2. EntryOf(w, id) = LinkedTo(w, id) /\ EntryOf(World, id) = LinkedTo(World, id)
                    BY <4>4 DEF EntryOf, AtAddress
                <5>3. Latched(World, id) => Latched(w, id)
                    BY <2>1, <5>1 DEF Latched
                <5>4. Mode(World, id) = Mode(w, id) /\ (Forwarding(World, id) <=> Forwarding(w, id))
                    BY <2>1, <5>1, <5>2 DEF Mode, Forwarding
                <5>5. Wanted(World, id) => Wanted(w, id)
                    BY <2>1, <5>4 DEF Wanted
                <5> QED BY <1>1, <2>1, <2>8, <3>2, <4>1, <4>4, <5>3, <5>5 DEF AttachedAt
            <4> QED BY <2>6, <2>7, <4>2, <4>3, <4>4
        <3> QED BY <3>1, <3>2
    <2>12. ASSUME NEW o \in Ids \ {id}
           PROVE  SettledFor(w, o)
        <3>1. bridge'.map[o] = bridge.map[o]
            BY <2>1, <2>2, <2>6, <2>10, StartMap
        <3> QED BY <1>0, <2>1, <2>2, <3>1, OthersSettled
    <2>13. SettledFor(w, id)
        BY <2>2, <2>11 DEF SettledFor, Announced, Waits
    <2> QED BY <2>1, <2>3, <2>4, <2>5, <2>12, <2>13, SettledByParts
<1>3. ASSUME NEW id \in Ids, Closed(id)
      PROVE  Settled'
    <2> DEFINE w == [World EXCEPT !.present[id] = None]
    <2>1. /\ w \in Worlds /\ w.entry = World.entry /\ w.released = World.released
          /\ w.live = World.live /\ w.intent = World.intent /\ w.present[id] = None
          /\ \A o \in Ids \ {id} : w.present[o] = World.present[o]
          /\ w.present = [present EXCEPT ![id] = None]
        BY <1>0 DEF Worlds
    <2>2. /\ bridge' = Stop(bridge, id) /\ present' = w.present
          /\ UNCHANGED <<closing, syncs, entry, released, live, intent, job, placed, faults>>
        BY <1>3, <2>1 DEF Closed
    <2> HIDE DEF w
    <2>3. Becomes(w)
        BY <1>0, <2>1, <2>2 DEF Becomes
    <2>4. ClosingIsOld'
        <3>1. \A o \in Ids : present'[o] = None \/ present'[o] = present[o]
            BY <1>0, <2>1, <2>2
        <3> QED BY <1>1, <2>2, <3>1, BridgeAssumption DEF ClosingIsOld
    <2>5. OneEntryEach(w)
        BY <1>1, <2>1 DEF OneEntryEach
    <2>6. bridge'.map[id] = NoBridge /\ \A o \in Ids \ {id} : bridge'.map[o] = bridge.map[o]
        BY <1>0, <2>2, StopMap
    <2>7. SettledFor(w, id)
        BY <2>1, <2>6, StoppedAt DEF SettledFor, Announced, AtAddress
    <2>8. \A o \in Ids \ {id} : SettledFor(w, o)
        BY <1>0, <2>1, <2>2, <2>6, OthersSettled
    <2> QED BY <2>1, <2>3, <2>4, <2>5, <2>7, <2>8, SettledByParts
<1>4. ASSUME NEW id \in Ids, NEW n \in Devs, LateClose(id, n)
      PROVE  Settled'
    <2>1. /\ <<id, n>> \in closing /\ closing' \subseteq closing
          /\ bridge' = IF Attached(bridge, id, n) THEN Destroy(bridge, id) ELSE bridge
          /\ UNCHANGED <<present, syncs, entry, released, live, intent, job, placed, faults>>
        BY <1>4 DEF LateClose
    <2>2. Becomes(World) /\ ClosingIsOld'
        BY <1>0, <1>1, <2>1 DEF Becomes, ClosingIsOld
    <2>3. ASSUME NEW o \in Ids, bridge'.map[o] = bridge.map[o]
          PROVE  SettledFor(World, o)
        BY <1>0, <2>1, <2>3, OthersSettled
    <2>4. CASE ~Attached(bridge, id, n)
        BY <1>0, <1>1, <2>1, <2>2, <2>3, <2>4, SettledByParts
    <2>5. CASE Attached(bridge, id, n)
        <3> DEFINE m == [bridge.map[id] EXCEPT !.conn = None, !.timer = FALSE, !.destroyed = TRUE,
                                               !.connected = FALSE]
        <3>1. bridge.map[id] \in BridgedDevice /\ bridge.map[id].dev = n
            BY <1>0, <2>5 DEF Attached, Bridges
        <3>2. m.dev = n /\ m.destroyed
            BY <3>1 DEF BridgedDevice
        <3>3. bridge'.map = [bridge.map EXCEPT ![id] = m]
            BY <1>0, <2>1, <2>5 DEF Destroy, Bridges
        <3> HIDE DEF m
        <3>4. /\ bridge'.map[id] = m
              /\ \A o \in Ids \ {id} : bridge'.map[o] = bridge.map[o]
            BY <1>0, <3>3 DEF Bridges
        <3>5. n # present[id]
            BY <1>1, <2>1 DEF ClosingIsOld
        <3>6. ~Runs(bridge', id) /\ AttachedAt(World, bridge', id)
            BY <1>0, <3>2, <3>4, <3>5 DEF Runs, AttachedAt
        <3>7. Runs(bridge, id) => ~FollowsAt(World, bridge, id)
            BY <1>0, <1>1, <3>1, <3>5, LatchedUnwanted DEF AttachedAt, FollowsAt
        <3>8. FollowsAt(World, bridge, id) => FollowsAt(World, bridge', id)
            BY <3>6, <3>7 DEF FollowsAt
        <3>9. SettledFor(World, id)
            <4>1. Unfaulted' => Unfaulted
                BY <2>1 DEF Unfaulted
            <4>2. syncs' = syncs /\ job' = job
                BY <2>1
            <4> QED BY <3>6, <3>8, <4>1, <4>2, BeforeSettled DEF SettledFor
        <3> QED BY <1>0, <1>1, <2>2, <2>3, <3>4, <3>9, SettledByParts
    <2> QED BY <2>4, <2>5
<1> QED BY <1>2, <1>3, <1>4 DEF Appliance

\* Two bridges with the same BridgedDevices, whatever their connections are doing.
SameService(b, d) ==
    \A o \in Ids :
        /\ d.map[o] # NoBridge <=> b.map[o] # NoBridge
        /\ b.map[o] # NoBridge => /\ d.map[o].dev = b.map[o].dev
                                  /\ d.map[o].destroyed = b.map[o].destroyed

\* What goes on upstream changes neither who is served nor what is wanted.
LEMMA ServiceKept ==
    ASSUME Settled, SameService(bridge, bridge'),
           UNCHANGED <<present, closing, entry, released, live, intent, syncs, job, placed, faults>>
    PROVE  Settled'
<1>1. World' = World /\ (Unfaulted' <=> Unfaulted) /\ (ClosingIsOld' <=> ClosingIsOld)
    BY DEF World, Unfaulted, ClosingIsOld
<1>2. ASSUME NEW o \in Ids
      PROVE  /\ AttachedAt(World, bridge, o) => AttachedAt(World, bridge', o)
             /\ FollowsAt(World, bridge, o) => FollowsAt(World, bridge', o)
    BY DEF SameService, AttachedAt, FollowsAt, Runs
<1> QED BY <1>1, <1>2 DEF Settled, Serves, Settles

\* A BridgedDevice whose connection changes.
LEMMA ServiceOf ==
    ASSUME bridge \in Bridges, NEW id \in Ids, bridge.map[id] \in BridgedDevice,
           NEW m \in BridgedDevice, m.dev = bridge.map[id].dev,
           m.destroyed = bridge.map[id].destroyed,
           NEW d, d.map = [bridge.map EXCEPT ![id] = m]
    PROVE  SameService(bridge, d)
BY AbsentAssumption DEF SameService, Bridges

\* Every event of an upstream connection, and the timer that tries again.
LEMMA UpstreamSettled ==
    ASSUME IInv, Settled, Upstream
    PROVE  Settled'
<1>0. bridge \in Bridges /\ Good(bridge)
    BY DEF IInv, TypeOK
<1>1. ASSUME NEW l \in bridge.links, ~l.dead
      PROVE  l.id \in Ids /\ bridge.map[l.id] \in BridgedDevice
    <2>1. l.id \in Ids /\ l \in LinksFor(bridge, l.id)
        BY <1>0 DEF Bridges, Link, LinksFor
    <2>2. GoodAt(bridge.map[l.id], LinksFor(bridge, l.id))
        BY <1>0, <2>1 DEF Good
    <2> QED BY <1>0, <1>1, <2>1, <2>2 DEF GoodAt, Bridges
<1>2. ASSUME NEW l \in bridge.links, l.phase # "fetching"
      PROVE  ~l.dead
    <2>1. l.id \in Ids /\ l \in LinksFor(bridge, l.id)
        BY <1>0 DEF Bridges, Link, LinksFor
    <2> QED BY <1>0, <1>2, <2>1 DEF Good, GoodAt
<1>4. ASSUME NEW id \in Ids, bridge.map[id] \in BridgedDevice, NEW up \in BOOLEAN,
             NEW d, d.map = [bridge.map EXCEPT ![id] = [bridge.map[id] EXCEPT !.connected = up]]
      PROVE  SameService(bridge, d)
    <2> DEFINE m == [bridge.map[id] EXCEPT !.connected = up]
    <2>1. /\ m \in BridgedDevice /\ m.dev = bridge.map[id].dev
          /\ m.destroyed = bridge.map[id].destroyed
        BY <1>4 DEF BridgedDevice
    <2> HIDE DEF m
    <2>2. d.map = [bridge.map EXCEPT ![id] = m]
        BY <1>4 DEF m
    <2> QED BY <1>0, <1>4, <2>1, <2>2, ServiceOf
<1>5. ASSUME NEW d, d.map = bridge.map
      PROVE  SameService(bridge, d)
    BY <1>5 DEF SameService
<1>6. ASSUME NEW id \in Ids, bridge.map[id] \in BridgedDevice,
             NEW d, d.map = Disconnect(bridge, id).map
      PROVE  SameService(bridge, d)
    <2> DEFINE m == [bridge.map[id] EXCEPT !.conn = None, !.timer = TRUE, !.connected = FALSE]
    <2>1. /\ m \in BridgedDevice /\ m.dev = bridge.map[id].dev
          /\ m.destroyed = bridge.map[id].destroyed
        BY <1>6 DEF BridgedDevice
    <2>2. d.map = [bridge.map EXCEPT ![id] = m]
        BY <1>0, <1>6 DEF Disconnect, Bridges
    <2> HIDE DEF m
    <2> QED BY <1>0, <1>6, <2>1, <2>2, ServiceOf
<1>7. ASSUME NEW l \in bridge.links,
             FetchAnswers(l) \/ FetchFails(l) \/ LinkUp(l) \/ LinkError(l) \/ LinkCloses(l)
      PROVE  SameService(bridge, bridge')
    <2>1. CASE FetchAnswers(l)
        <3>1. bridge'.map = bridge.map
            BY <1>0, <2>1 DEF FetchAnswers, Bridges
        <3> QED BY <3>1, <1>5
    <2>2. CASE FetchFails(l) /\ l.dead
        <3>1. bridge'.map = bridge.map
            BY <1>0, <2>2 DEF FetchFails, Bridges
        <3> QED BY <3>1, <1>5
    <2>3. CASE FetchFails(l) /\ ~l.dead
        <3> DEFINE d == Disconnect(bridge, l.id)
        <3>1. bridge' = [d EXCEPT !.links = bridge.links \ {l}]
            BY <2>3 DEF FetchFails
        <3> DEFINE m == [bridge.map[l.id] EXCEPT !.conn = None, !.timer = TRUE,
                                                 !.connected = FALSE]
        <3>2. d = [map |-> [bridge.map EXCEPT ![l.id] = m], links |-> Destroyed(bridge, l.id),
                   restarted |-> bridge.restarted]
            <4>1. bridge = [map |-> bridge.map, links |-> bridge.links,
                            restarted |-> bridge.restarted]
                BY <1>0 DEF Bridges
            <4>2. d = [bridge EXCEPT !.map[l.id] = m, !.links = Destroyed(bridge, l.id)]
                BY DEF Disconnect
            <4> HIDE DEF m, d
            <4> QED BY <4>1, <4>2
        <3> HIDE DEF d, m
        <3>3. bridge'.map = d.map
            BY <3>1, <3>2
        <3> USE DEF d
        <3> QED BY <1>1, <1>6, <2>3, <3>3
    <2>4. CASE LinkUp(l)
        <3>1. ~l.dead
            BY <1>2, <2>4 DEF LinkUp
        <3>2. bridge'.map = [bridge.map EXCEPT ![l.id] = [bridge.map[l.id] EXCEPT !.connected = TRUE]]
            BY <1>0, <2>4 DEF LinkUp, Bridges
        <3> QED BY <1>1, <1>4, <3>1, <3>2
    <2>5. CASE LinkError(l)
        <3>1. ~l.dead
            BY <1>2, <2>5 DEF LinkError
        <3>2. bridge'.map = [bridge.map EXCEPT ![l.id] = [bridge.map[l.id] EXCEPT !.connected = FALSE]]
            BY <1>0, <2>5 DEF LinkError, Bridges
        <3> QED BY <1>1, <1>4, <3>1, <3>2
    <2>6. CASE LinkCloses(l)
        <3>1. ~l.dead /\ bridge' = Disconnect(bridge, l.id)
            BY <1>2, <2>6 DEF LinkCloses
        <3> QED BY <1>1, <1>6, <3>1
    <2> QED BY <1>7, <2>1, <2>2, <2>3, <2>4, <2>5, <2>6
<1>8. ASSUME NEW id \in Ids, NEW c \in Conns, TimerFires(id, c)
      PROVE  SameService(bridge, bridge')
    <2>1. bridge.map[id] \in BridgedDevice /\ bridge' = Connect(bridge, id, c)
        BY <1>0, <1>8 DEF TimerFires, Runs, Bridges
    <2> DEFINE m == [bridge.map[id] EXCEPT !.conn = c, !.timer = (c = None), !.connected = FALSE]
    <2>2. c \in Keys \cup {None} /\ (c = None) \in BOOLEAN
        BY DEF Conns
    <2>3. /\ m \in BridgedDevice /\ m.dev = bridge.map[id].dev
          /\ m.destroyed = bridge.map[id].destroyed
        BY <2>1, <2>2 DEF BridgedDevice
    <2>4. bridge'.map = [bridge.map EXCEPT ![id] = m]
        BY <1>0, <2>1 DEF Connect, Bridges
    <2> HIDE DEF m
    <2> QED BY <1>0, <2>1, <2>3, <2>4, ServiceOf
<1> QED BY <1>7, <1>8, ServiceKept DEF Upstream

-----------------------------------------------------------------------------
\* snapshot() and linkByIp() change nothing that counts for whoever is connected.
LEMMA LinkSettles ==
    ASSUME NEW w \in Worlds, NEW ids \in SUBSET Ids, \A o \in ids : w.present[o] # None,
           NEW b, Serves(w, b), NEW q, NEW j
    PROVE  /\ Serves(LinkByIp(w, ids), b)
           /\ Settles(w, b, q, j) => Settles(LinkByIp(w, ids), b, q, j)
<1> DEFINE v == LinkByIp(w, ids)
<1>1. OneEntryEach(v)
    BY LinkOneEach DEF Serves
<1>2. ASSUME NEW o \in Ids
      PROVE  /\ Keeps(w, v, o) /\ AtAddress(v, o) \subseteq AtAddress(w, o)
             /\ LinkedTo(w, o) \subseteq LinkedTo(v, o)
    BY LinkKeeps
<1> HIDE DEF v
<1>3. ASSUME NEW o \in Ids
      PROVE  /\ AttachedAt(v, b, o)
             /\ FollowsAt(w, b, o) => FollowsAt(v, b, o)
             /\ Announced(w, q, o) => Announced(v, q, o)
             /\ Waits(w, q, j, o) => Waits(v, q, j, o)
    <2>1. AttachedAt(v, b, o)
        BY <1>2, KeptAttached DEF Keeps, Serves
    <2>2. FollowsAt(w, b, o) => FollowsAt(v, b, o)
        BY <1>2, KeptFollows
    <2> QED BY <1>2, <2>1, <2>2 DEF Announced, Waits
<1> QED BY <1>1, <1>3 DEF Serves, Settles, v

\* A snapshot of a world in which everything is settled.
LEMMA SnapshotSettled ==
    ASSUME IInv, NEW w \in Worlds, w.present = present, Snapshot(w),
           Serves(w, bridge'), ClosingIsOld, UNCHANGED <<closing, placed>>,
           Unfaulted => Settles(w, bridge', syncs', job')
    PROVE  Settled'
<1>1. PICK ids \in SUBSET Ids :
          /\ Becomes(LinkByIp(w, ids)) /\ (Fault \/ UNCHANGED faults)
          /\ ids \subseteq Connected
    BY SnapshotWorld
<1> DEFINE v == LinkByIp(w, ids)
<1>2. v \in Worlds /\ v.present = present
    BY LinkedWorld
<1>3. \A o \in ids : w.present[o] # None
    BY <1>1 DEF Connected
<1>4. /\ Serves(v, bridge')
      /\ Settles(w, bridge', syncs', job') => Settles(v, bridge', syncs', job')
    BY <1>3, LinkSettles
<1> HIDE DEF v
<1>5. ClosingIsOld'
    BY <1>1, <1>2 DEF ClosingIsOld, Becomes, v
<1>6. Unfaulted' => Unfaulted
    BY <1>1, BridgeAssumption DEF Unfaulted, Fault, IInv, TypeOK
<1> QED BY <1>1, <1>2, <1>4, <1>5, <1>6, SettledAfter DEF v

\* Looking at the router page.
LEMMA StatusSettled ==
    ASSUME IInv, Settled, Status
    PROVE  Settled'
<1>1. Snapshot(World) /\ UNCHANGED <<bridge, closing, placed, syncs, job>>
    BY DEF Status, Rest
<1> QED BY <1>1, Before, SnapshotSettled DEF Settled

\* Turns of the queue that concern the bridge of one appliance.
LEMMA TurnSettled ==
    ASSUME IInv, Settled, NEW id \in Ids, NEW c \in Conns,
           \/ Sync(id, c) \/ SyncFails(id)
           \/ Resume(id, c) \/ Suspend(id) \/ Restore(id, c)
    PROVE  Settled'
<1>0. /\ World \in Worlds /\ World.live = live /\ World.present = present
      /\ World.entry = entry /\ World.released = released /\ World.intent = intent
      /\ Kept(live, archive, saved)
      /\ Good(bridge) /\ UsesLive(bridge, live) /\ bridge \in Bridges
      /\ c \in Keys \cup {None}
    BY Before DEF Good, Conns
<1>1. /\ OneEntryEach(World) /\ ClosingIsOld
      /\ \A o \in Ids : AttachedAt(World, bridge, o)
      /\ Unfaulted => \A o \in Ids :
             /\ Announced(World, syncs, o)
             /\ FollowsAt(World, bridge, o) \/ Waits(World, syncs, job, o)
    BY BeforeSettled
<1>2. CASE Sync(id, c)
    <2> DEFINE w == LinkByIp(World, {id})
    <2>1. w \in Worlds /\ w.live = live /\ w.present = present
        BY <1>0, LinkedWorld
    <2>2. OneEntryEach(w) /\ (LinkedTo(w, id) # {} \/ AtAddress(w, id) = {})
        BY <1>0, <1>1, LinkOneEach, LinkedNow
    <2>3. ASSUME NEW o \in Ids \ {id}
          PROVE  /\ Keeps(World, w, o) /\ AtAddress(w, o) \subseteq AtAddress(World, o)
                 /\ LinkedTo(World, o) \subseteq LinkedTo(w, o)
        BY <1>0, LinkKeeps
    <2>4. /\ Becomes(w) /\ bridge' = Reconcile(w, bridge, id, c) /\ syncs' = syncs \ {id}
          /\ UNCHANGED <<closing, job, placed, faults>>
        BY <1>2 DEF Sync, Rest
    <2> HIDE DEF w
    <2>5. ClosingIsOld' /\ (Unfaulted' => Unfaulted)
        BY <1>1, <2>1, <2>4 DEF ClosingIsOld, Becomes, Unfaulted
    <2>6. Live(w, bridge, id)
        BY <1>0, <1>1, <2>1, AttachedLive
    <2>7. /\ FollowsAt(w, bridge', id) /\ AttachedAt(w, bridge', id)
          /\ \A o \in Ids \ {id} : bridge'.map[o] = bridge.map[o]
        BY <1>0, <2>1, <2>4, <2>6, ReconcileFollows
    <2>8. SettledFor(w, id)
        BY <2>2, <2>7 DEF SettledFor, Announced
    <2>9. ASSUME NEW o \in Ids \ {id}
          PROVE  SettledFor(w, o)
        <3>1. Announced(World, syncs, o) => Announced(w, syncs', o)
            BY <2>3, <2>4 DEF Announced
        <3>2. Waits(World, syncs, job, o) => Waits(w, syncs', job', o)
            BY <2>3, <2>4 DEF Waits
        <3> QED BY <1>1, <2>3, <2>5, <2>7, <3>1, <3>2, Untouched
    <2> QED BY <2>1, <2>2, <2>4, <2>5, <2>8, <2>9, SettledByParts
<1>3. CASE SyncFails(id)
    <2>1. Becomes(World) /\ Fault /\ UNCHANGED <<bridge, closing>>
        BY <1>0, <1>3 DEF SyncFails, Rest, policy, Becomes
    <2>2. ~Unfaulted'
        BY <2>1, BridgeAssumption DEF Unfaulted, Fault, IInv, TypeOK
    <2>3. ClosingIsOld' /\ Serves(World, bridge')
        BY <1>0, <1>1, <2>1 DEF ClosingIsOld, Becomes, Serves
    <2> QED BY <1>0, <2>1, <2>2, <2>3, SettledAfter
<1>4. ASSUME NEW w \in Worlds, Becomes(w), w.entry = entry, w.released = released,
             w.present = present,
             \A o \in Ids \ {id} : /\ w.live[o] = live[o] /\ w.intent[o] = intent[o]
                                   /\ bridge'.map[o] = bridge.map[o],
             AttachedAt(w, bridge', id), Unfaulted => FollowsAt(w, bridge', id) \/ id \in syncs,
             UNCHANGED <<closing, job, placed, syncs, faults>>
      PROVE  Settled'
    <2>1. OneEntryEach(w) /\ ClosingIsOld'
        BY <1>0, <1>1, <1>4 DEF OneEntryEach, ClosingIsOld, Becomes
    <2>2. LinkedTo(w, id) = LinkedTo(World, id) /\ AtAddress(w, id) = AtAddress(World, id)
        BY <1>0, <1>4 DEF LinkedTo, AtAddress
    <2>3. SettledFor(w, id)
        <3>1. Unfaulted' => Unfaulted
            BY <1>4 DEF Unfaulted
        <3>2. Announced(World, syncs, id) => Announced(w, syncs', id)
            BY <1>4, <2>2 DEF Announced
        <3>3. id \in syncs => Waits(w, syncs', job', id)
            BY <1>4 DEF Waits
        <3> QED BY <1>1, <1>4, <3>1, <3>2, <3>3 DEF SettledFor
    <2>4. \A o \in Ids \ {id} : SettledFor(w, o)
        BY <1>0, <1>4, OthersSettled
    <2> QED BY <1>4, <2>1, <2>3, <2>4, SettledByParts
<1>5. CASE Resume(id, c)
    <2> DEFINE w == [World EXCEPT !.intent[id] = "on"]
    <2>1. /\ w \in Worlds /\ w.live = live /\ w.present = present /\ w.entry = entry
          /\ w.released = released /\ w.intent = [intent EXCEPT ![id] = "on"] /\ w.intent[id] = "on"
          /\ \A o \in Ids \ {id} : w.intent[o] = intent[o]
        BY <1>0 DEF Worlds
    <2>2. /\ Mode(World, id) = "local" /\ Becomes(w) /\ bridge' = StartPresent(w, bridge, id, c)
          /\ UNCHANGED <<closing, job, placed, syncs, faults>>
        BY <1>5 DEF Resume, Rest
    <2> HIDE DEF w
    <2>3. Wanted(w, id)
        <3>1. Mode(w, id) = Mode(World, id)
            BY <1>0, <2>1 DEF Mode, EntryOf, LinkedTo, AtAddress
        <3> QED BY <2>1, <2>2, <3>1 DEF Wanted
    <2>4. Live(w, bridge, id)
        BY <1>0, <1>1, <2>1, AttachedLive
    <2>5. /\ FollowsAt(w, bridge', id) /\ AttachedAt(w, bridge', id)
          /\ \A o \in Ids \ {id} : bridge'.map[o] = bridge.map[o]
        BY <1>0, <2>1, <2>2, <2>3, <2>4, StartFollows
    <2> QED BY <1>4, <2>1, <2>2, <2>5
<1>6. CASE Suspend(id)
    <2> DEFINE w == SwitchOff(World, id)
    <2>1. /\ w \in Worlds /\ w.live = live /\ w.present = present /\ w.entry = entry
          /\ w.released = released /\ w.intent[id] = "off"
          /\ \A o \in Ids \ {id} : w.intent[o] = intent[o]
        BY <1>0 DEF Worlds, SwitchOff
    <2>2. /\ Mode(World, id) = "local" /\ Becomes(w) /\ bridge' = Stop(bridge, id)
          /\ UNCHANGED <<closing, job, placed, syncs, faults>>
        BY <1>6 DEF Suspend, Rest
    <2> HIDE DEF w
    <2>3. ~Wanted(w, id)
        <3>1. Mode(w, id) = Mode(World, id)
            BY <1>0, <2>1 DEF Mode, EntryOf, LinkedTo, AtAddress
        <3> QED BY <2>1, <2>2, <3>1 DEF Wanted
    <2>4. bridge'.map[id] = NoBridge /\ \A o \in Ids \ {id} : bridge'.map[o] = bridge.map[o]
        BY <1>0, <2>2, StopMap
    <2>5. FollowsAt(w, bridge', id) /\ AttachedAt(w, bridge', id)
        BY <2>3, <2>4, StoppedAt
    <2> QED BY <1>4, <2>1, <2>2, <2>4, <2>5
<1>7. CASE Restore(id, c)
    <2> DEFINE w == [World EXCEPT !.live[id] = archive[id]]
    <2>1. /\ w \in Worlds /\ w.present = present /\ w.entry = entry
          /\ w.released = released /\ w.intent = intent
          /\ \A o \in Ids \ {id} : w.live[o] = live[o]
        BY <1>0 DEF Worlds, Kept
    <2>2. /\ live[id] = 0 /\ Becomes(w)
          /\ bridge' = IF Wanted(w, id) THEN StartPresent(w, bridge, id, c) ELSE bridge
          /\ UNCHANGED <<closing, job, placed, syncs, faults>>
        BY <1>7 DEF Restore, Rest
    <2> HIDE DEF w
    <2>3. ~Runs(bridge, id)
        BY <1>0, <2>2, RunsRegistered
    <2>4. UsesLive(bridge, w.live)
        BY <1>0, <2>1, <2>3 DEF UsesLive
    <2>5. Live(w, bridge, id)
        BY <1>0, <1>1, <2>1, AttachedLive
    <2>6. CASE Wanted(w, id)
        <3>1. /\ FollowsAt(w, bridge', id) /\ AttachedAt(w, bridge', id)
              /\ \A o \in Ids \ {id} : bridge'.map[o] = bridge.map[o]
            BY <1>0, <2>1, <2>2, <2>4, <2>5, <2>6, StartFollows
        <3> QED BY <1>4, <2>1, <2>2, <3>1
    <2>7. CASE ~Wanted(w, id)
        <3>1. bridge' = bridge
            BY <2>2, <2>7
        <3>2. AttachedAt(w, bridge', id)
            BY <2>3, <2>5, <3>1 DEF AttachedAt, Live
        <3>3. FollowsAt(w, bridge', id)
            BY <2>3, <2>7, <3>1 DEF FollowsAt
        <3> QED BY <1>4, <2>1, <2>2, <3>1, <3>2, <3>3
    <2> QED BY <2>6, <2>7
<1> QED BY <1>2, <1>3, <1>5, <1>6, <1>7

-----------------------------------------------------------------------------
\* Edits of the inventory.

\* An edit of one entry, for an appliance it is not linked to: nothing is waiting for it,
\* unless it counted for the appliance, which is then still to be linked.
LEMMA EditOther ==
    ASSUME NEW w \in Worlds, NEW v \in Worlds, NEW e \in Entries, NEW o \in Ids,
           \A f \in Entries \ {e} : /\ v.entry[f] = w.entry[f]
                                    /\ f \in v.released <=> f \in w.released,
           v.present[o] = w.present[o], v.live[o] = w.live[o], v.intent[o] = w.intent[o],
           e \notin LinkedTo(w, o), e \notin LinkedTo(v, o),
           NEW b, NEW d, d.map[o] = b.map[o], AttachedAt(w, b, o), NEW q, NEW j
    PROVE  /\ AttachedAt(v, d, o)
           /\ /\ e \in AtAddress(v, o) => e \in AtAddress(w, o)
              /\ Announced(w, q, o) /\ (FollowsAt(w, b, o) \/ Waits(w, q, j, o))
              => Announced(v, q, o) /\ (FollowsAt(v, d, o) \/ Waits(v, q, j, o))
<1>1. /\ LinkedTo(v, o) = LinkedTo(w, o)
      /\ \A f \in Entries \ {e} : f \in AtAddress(v, o) <=> f \in AtAddress(w, o)
      /\ \/ LinkedTo(w, o) # {}
         \/ e \notin AtAddress(w, o) /\ e \notin AtAddress(v, o)
         => Keeps(w, v, o)
      /\ o \in Thinq1 => Keeps(w, v, o)
    BY EditKeeps
<1>2. AttachedAt(v, d, o)
    BY <1>1, KeptAttached DEF Keeps
<1>3. ASSUME e \in AtAddress(v, o) => e \in AtAddress(w, o), Announced(w, q, o),
             FollowsAt(w, b, o) \/ Waits(w, q, j, o)
      PROVE  Announced(v, q, o) /\ (FollowsAt(v, d, o) \/ Waits(v, q, j, o))
    <2>1. AtAddress(v, o) \subseteq AtAddress(w, o)
        BY <1>1, <1>3 DEF AtAddress
    <2>2. Announced(v, q, o)
        BY <1>1, <1>3, <2>1 DEF Announced
    <2>3. Waits(w, q, j, o) => Waits(v, q, j, o)
        BY <1>1 DEF Waits
    <2>4. o \in q => Waits(v, q, j, o)
        BY DEF Waits
    <2>5. o \notin q => Keeps(w, v, o)
        BY <1>1, <1>3 DEF Announced
    <2>6. o \notin q /\ FollowsAt(w, b, o) => FollowsAt(v, d, o)
        BY <2>5, KeptFollows
    <2> QED BY <1>3, <2>2, <2>3, <2>4, <2>6
<1> QED BY <1>2, <1>3

\* An edit of one entry, after which the appliances of S have been dealt with.
Edits(w, e, S) ==
    /\ Becomes(w) /\ OneEntryEach(w) /\ w.present = present
    /\ \A f \in Entries \ {e} : /\ w.entry[f] = entry[f]
                                /\ f \in w.released <=> f \in released
    /\ \A o \in Ids \ S : /\ w.live[o] = live[o] /\ w.intent[o] = intent[o]
                          /\ e \notin LinkedTo(World, o) /\ e \notin LinkedTo(w, o)
                          /\ bridge'.map[o] = bridge.map[o]
    /\ UNCHANGED <<closing, job, syncs>>
    /\ Unfaulted' => /\ Unfaulted
                     /\ \A o \in Ids \ S : e \in AtAddress(w, o) => e \in AtAddress(World, o)
    /\ \A o \in S : /\ AttachedAt(w, bridge', o)
                    /\ Unfaulted' => Announced(w, syncs, o) /\ FollowsAt(w, bridge', o)

\* Every request of the owner that is done in one turn is such an edit.
LEMMA EditSettled ==
    ASSUME IInv, Settled, NEW w \in Worlds, NEW e \in Entries, NEW S \in SUBSET Ids,
           Edits(w, e, S)
    PROVE  Settled'
<1> USE DEF Edits
<1>1. /\ World \in Worlds /\ World.live = live /\ World.present = present
      /\ World.entry = entry /\ World.released = released /\ World.intent = intent
    BY Before
<1>2. /\ OneEntryEach(World) /\ ClosingIsOld
      /\ \A o \in Ids : AttachedAt(World, bridge, o)
      /\ Unfaulted => \A o \in Ids :
             /\ Announced(World, syncs, o)
             /\ FollowsAt(World, bridge, o) \/ Waits(World, syncs, job, o)
    BY BeforeSettled
<1>3. ClosingIsOld'
    BY <1>2 DEF ClosingIsOld, Becomes
<1>4. ASSUME NEW o \in S
      PROVE  SettledFor(w, o)
    BY DEF SettledFor
<1>5. ASSUME NEW o \in Ids \ S
      PROVE  SettledFor(w, o)
    <2>1. /\ AttachedAt(w, bridge', o)
          /\ /\ e \in AtAddress(w, o) => e \in AtAddress(World, o)
             /\ Announced(World, syncs, o)
             /\ FollowsAt(World, bridge, o) \/ Waits(World, syncs, job, o)
             => /\ Announced(w, syncs, o)
                /\ FollowsAt(w, bridge', o) \/ Waits(w, syncs, job, o)
        BY <1>1, <1>2, EditOther
    <2> QED BY <1>2, <2>1 DEF SettledFor
<1> QED BY <1>3, <1>4, <1>5, SettledByParts

\* An entry keeps its address and its appliance to itself.
LEMMA EditOneEach ==
    ASSUME NEW w \in Worlds, OneEntryEach(w), NEW v, NEW e \in Entries,
           \A f \in Entries \ {e} : v.entry[f] = w.entry[f],
           \/ v.entry[e] = Unlisted
           \/ \A f \in Entries \ {e} :
                  w.entry[f] # Unlisted =>
                      /\ v.entry[e].addr # w.entry[f].addr
                      /\ v.entry[e].linked = None \/ v.entry[e].linked # w.entry[f].linked
    PROVE  OneEntryEach(v)
BY DEF OneEntryEach

\* An entry of the world becomes x.
LEMMA EditedWorld ==
    ASSUME NEW w \in Worlds, NEW e \in Entries, NEW x \in Entry \cup {Unlisted},
           NEW v, v = [w EXCEPT !.entry[e] = x]
    PROVE  /\ v \in Worlds /\ v.live = w.live /\ v.present = w.present
           /\ v.released = w.released /\ v.intent = w.intent
           /\ v.entry[e] = x /\ \A f \in Entries \ {e} : v.entry[f] = w.entry[f]
BY DEF Worlds

\* disable() turns one switch off and leaves the others.
LEMMA SwitchedOff ==
    ASSUME NEW w \in Worlds, NEW id \in Ids
    PROVE  /\ SwitchOff(w, id).intent[id] = "off"
           /\ \A o \in Ids \ {id} : SwitchOff(w, id).intent[o] = w.intent[o]
BY DEF SwitchOff, Worlds

\* Who was linked to nothing else is left without an entry, and switched off.
LEMMA Orphaned ==
    ASSUME NEW w \in Worlds, NEW id \in Ids, LinkedTo(w, id) = {}, ~Uncovers(w, id),
           w.intent[id] = "off", NEW q
    PROVE  ~Wanted(w, id) /\ Announced(w, q, id)
<1>1. AtAddress(w, id) = {}
    BY BridgeAssumption DEF Uncovers
<1>2. EntryOf(w, id) = {}
    BY <1>1 DEF EntryOf
<1>3. Mode(w, id) = "local"
    BY <1>2 DEF Mode
<1> QED BY <1>1, <1>3 DEF Wanted, Announced

\* Counting an entry that comes to count for an appliance ends the promise.
LEMMA Uncovered ==
    ASSUME IInv, NEW appears, CountPlaced(appears), Unfaulted', UNCHANGED faults
    PROVE  ~appears /\ Unfaulted
BY BridgeAssumption DEF IInv, TypeOK, CountPlaced, Unfaulted

\* Only e was linked to the appliance.
LEMMA OnlyLink ==
    ASSUME NEW w \in Worlds, OneEntryEach(w), NEW e \in Entries, w.entry[e] # Unlisted,
           NEW v, \A f \in Entries \ {e} : v.entry[f] = w.entry[f],
           NEW id \in Ids, w.entry[e].linked = id, e \notin LinkedTo(v, id)
    PROVE  LinkedTo(v, id) = {}
BY BridgeAssumption DEF OneEntryEach, LinkedTo

\* What an edit may take for granted.
LEMMA BeforeEdit ==
    ASSUME IInv, Settled
    PROVE  /\ World \in Worlds /\ World.live = live /\ World.present = present
           /\ World.entry = entry /\ World.released = released /\ World.intent = intent
           /\ Good(bridge) /\ UsesLive(bridge, live) /\ bridge \in Bridges
           /\ OneEntryEach(World) /\ \A o \in Ids : AttachedAt(World, bridge, o)
           /\ \A e \in Entries : entry[e] # Unlisted =>
                  /\ entry[e] \in Entry /\ entry[e].linked \in Ids \cup {None}
                  /\ \A o \in Ids : e \in LinkedTo(World, o) <=> entry[e].linked = o
           /\ \A e \in Entries : entry[e] = Unlisted => \A o \in Ids : e \notin LinkedTo(World, o)
<1>1. /\ World \in Worlds /\ World.live = live /\ World.present = present
      /\ World.entry = entry /\ World.released = released /\ World.intent = intent
      /\ Good(bridge) /\ UsesLive(bridge, live) /\ bridge \in Bridges
      /\ entry \in [Entries -> Entry \cup {Unlisted}]
    BY Before DEF Good
<1>2. ASSUME NEW e \in Entries, entry[e] # Unlisted
      PROVE  /\ entry[e] \in Entry /\ entry[e].linked \in Ids \cup {None}
             /\ \A o \in Ids : e \in LinkedTo(World, o) <=> entry[e].linked = o
    BY <1>1, <1>2 DEF Entry, LinkedTo
<1>3. ASSUME NEW e \in Entries, entry[e] = Unlisted
      PROVE  \A o \in Ids : e \notin LinkedTo(World, o)
    BY <1>1, <1>3 DEF LinkedTo
<1> QED BY <1>1, <1>2, <1>3, BeforeSettled

\* A new entry, and one that gets another address.
LEMMA PlaceSettled ==
    ASSUME IInv, Settled, NEW e \in Entries, NEW c \in Conns, NEW a \in Ids \cup Elsewhere,
           NEW m \in {"dnat", "local"}, Add(e, a, m) \/ Move(e, a, c)
    PROVE  Settled'
<1>0. /\ World \in Worlds /\ World.live = live /\ World.present = present
      /\ World.entry = entry /\ World.released = released /\ World.intent = intent
      /\ Good(bridge) /\ UsesLive(bridge, live) /\ bridge \in Bridges
      /\ OneEntryEach(World) /\ \A o \in Ids : AttachedAt(World, bridge, o)
      /\ entry[e] # Unlisted =>
             /\ entry[e] \in Entry /\ entry[e].linked \in Ids \cup {None}
             /\ \A o \in Ids : e \in LinkedTo(World, o) <=> entry[e].linked = o
      /\ entry[e] = Unlisted => \A o \in Ids : e \notin LinkedTo(World, o)
    BY BeforeEdit
<1>1. c \in Keys \cup {None}
    BY DEF Conns
<1>2. AddressFree(a) /\ placed' = placed + 1 /\ ~Unfaulted'
    <2>1. AddressFree(a) /\ placed' = placed + 1
        BY DEF Add, Move
    <2>2. placed \in Nat
        BY BridgeAssumption DEF IInv, TypeOK
    <2> QED BY <2>1, <2>2 DEF Unfaulted
<1>3. ASSUME NEW x \in Entry, x.addr = a, x.linked = None,
             NEW w, w = [World EXCEPT !.entry[e] = x]
      PROVE  /\ w \in Worlds /\ w.live = live /\ w.present = present /\ w.intent = intent
             /\ \A f \in Entries \ {e} : w.entry[f] = entry[f]
             /\ w.released = released /\ OneEntryEach(w)
             /\ \A o \in Ids : e \notin LinkedTo(w, o)
    <2>1. /\ w \in Worlds /\ w.live = live /\ w.present = present /\ w.intent = intent
          /\ w.released = released /\ w.entry[e] = x
          /\ \A f \in Entries \ {e} : w.entry[f] = entry[f]
        BY <1>0, <1>3, EditedWorld
    <2>2. \A f \in Entries \ {e} : entry[f] # Unlisted => x.addr # entry[f].addr
        BY <1>2, <1>3 DEF AddressFree
    <2>3. OneEntryEach(w)
        <3>1. \A f \in Entries \ {e} : w.entry[f] = World.entry[f]
            BY <1>0, <2>1
        <3>2. \A f \in Entries \ {e} :
                  World.entry[f] # Unlisted =>
                      /\ w.entry[e].addr # World.entry[f].addr
                      /\ w.entry[e].linked = None
            BY <1>0, <1>3, <2>1, <2>2
        <3> QED BY <1>0, <3>1, <3>2, EditOneEach
    <2>4. \A o \in Ids : e \notin LinkedTo(w, o)
        BY <1>3, <2>1, BridgeAssumption DEF LinkedTo
    <2> QED BY <2>1, <2>3, <2>4
<1>4. CASE Add(e, a, m)
    <2> DEFINE x == [addr |-> a, linked |-> None, auto |-> TRUE, mode |-> m, desired |-> "unset"]
               w == [World EXCEPT !.entry[e] = x]
    <2>1. x \in Entry /\ x.addr = a /\ x.linked = None
        BY DEF Entry
    <2>2. entry[e] = Unlisted /\ Becomes(w) /\ UNCHANGED <<bridge, closing, job, syncs>>
        BY <1>4 DEF Add, Edit
    <2> HIDE DEF x
    <2>3. /\ w \in Worlds /\ w.live = live /\ w.present = present /\ w.intent = intent
          /\ \A f \in Entries \ {e} : w.entry[f] = entry[f]
          /\ w.released = released /\ OneEntryEach(w)
          /\ \A o \in Ids : e \notin LinkedTo(w, o)
        BY <1>3, <2>1
    <2> HIDE DEF w
    <2>4. Edits(w, e, {})
        BY <1>0, <1>2, <2>2, <2>3 DEF Edits
    <2> QED BY <2>3, <2>4, EditSettled
<1>5. CASE Move(e, a, c)
    <2> DEFINE id == Linked(e)
               x == [entry[e] EXCEPT !.addr = a, !.linked = None, !.auto = TRUE]
               w == [World EXCEPT !.entry[e] = x]
               v == SwitchOff(w, id)
    <2>1. /\ IsOff(e)
          /\ IF id = None THEN Edit(w, bridge)
             ELSE Edit(v, Reconcile(v, Stop(bridge, id), id, c))
        BY <1>5 DEF Move
    <2>2. entry[e] # Unlisted /\ x \in Entry /\ x.addr = a /\ x.linked = None
        BY <1>0, <2>1 DEF IsOff, Entry
    <2>3. id \in Ids \cup {None} /\ \A o \in Ids : e \in LinkedTo(World, o) <=> id = o
        BY <1>0, <2>2 DEF Linked
    <2> HIDE DEF x, id
    <2>4. /\ w \in Worlds /\ w.live = live /\ w.present = present /\ w.intent = intent
          /\ \A f \in Entries \ {e} : w.entry[f] = entry[f]
          /\ w.released = released /\ OneEntryEach(w)
          /\ \A o \in Ids : e \notin LinkedTo(w, o)
        BY <1>3, <2>2
    <2> HIDE DEF w
    <2>5. CASE id = None
        <3>1. \A o \in Ids : e \notin LinkedTo(World, o)
            BY <2>3, <2>5, BridgeAssumption
        <3>2. Becomes(w) /\ UNCHANGED <<bridge, closing, job, syncs>>
            BY <2>1, <2>5 DEF Edit
        <3>3. Edits(w, e, {})
            BY <1>0, <1>2, <2>4, <3>1, <3>2 DEF Edits
        <3> QED BY <2>4, <3>3, EditSettled
    <2>6. CASE id # None
        <3>1. id \in Ids
            BY <2>3, <2>6
        <3>2. /\ v \in Worlds /\ v.live = live /\ v.present = present /\ v.entry = w.entry
              /\ v.released = released
              /\ \A o \in Ids \ {id} : v.intent[o] = intent[o]
            BY <2>4, <3>1, SwitchOffWorld, SwitchedOff
        <3> HIDE DEF v
        <3>3. OneEntryEach(v) /\ \A o \in Ids : e \notin LinkedTo(v, o)
            BY <2>4, <3>2 DEF OneEntryEach, LinkedTo
        <3> DEFINE b == Stop(bridge, id)
        <3>4. Becomes(v) /\ bridge' = Reconcile(v, b, id, c) /\ UNCHANGED <<closing, job, syncs>>
            BY <2>1, <2>6 DEF Edit
        <3>5. /\ b \in Bridges /\ UsesLive(b, v.live) /\ b.map[id] = NoBridge
              /\ \A o \in Ids \ {id} : b.map[o] = bridge.map[o]
            BY <1>0, <3>1, <3>2, StopGood, StopUses, StopMap DEF Good
        <3> HIDE DEF b
        <3>6. Live(v, b, id)
            BY <3>5 DEF Live, Runs
        <3>7. /\ AttachedAt(v, bridge', id)
              /\ \A o \in Ids \ {id} : bridge'.map[o] = bridge.map[o]
            BY <1>1, <3>1, <3>2, <3>4, <3>5, <3>6, ReconcileFollows
        <3>8. \A o \in Ids \ {id} : e \notin LinkedTo(World, o)
            BY <2>3
        <3>9. \A f \in Entries \ {e} : v.entry[f] = entry[f]
            BY <2>4, <3>2
        <3>10. {id} \in SUBSET Ids
            BY <3>1
        <3>11. Edits(v, e, {id})
            BY <1>2, <3>2, <3>3, <3>4, <3>7, <3>8, <3>9 DEF Edits
        <3> QED BY <3>2, <3>10, <3>11, EditSettled
    <2> QED BY <2>5, <2>6
<1> QED BY <1>4, <1>5

\* An entry gets another mode, and its appliance what follows from it.
LEMMA ModeSettled ==
    ASSUME IInv, Settled, NEW e \in Entries, NEW c \in Conns, NEW m \in {"dnat", "local"},
           ChangeMode(e, m, c)
    PROVE  Settled'
<1>0. /\ World \in Worlds /\ World.live = live /\ World.present = present
      /\ World.entry = entry /\ World.released = released /\ World.intent = intent
      /\ Good(bridge) /\ UsesLive(bridge, live) /\ bridge \in Bridges
      /\ OneEntryEach(World) /\ \A o \in Ids : AttachedAt(World, bridge, o)
      /\ entry[e] # Unlisted =>
             /\ entry[e] \in Entry /\ entry[e].linked \in Ids \cup {None}
             /\ \A o \in Ids : e \in LinkedTo(World, o) <=> entry[e].linked = o
    BY BeforeEdit
<1> DEFINE id == Linked(e)
           x == [entry[e] EXCEPT !.mode = m]
           w == [World EXCEPT !.entry[e].mode = m]
<1>1. /\ IsOff(e) /\ Becomes(w)
      /\ bridge' = IF id = None THEN bridge ELSE Reconcile(w, bridge, id, c)
      /\ UNCHANGED <<closing, job, syncs, placed, faults>>
    BY DEF ChangeMode, Edit
<1>2. /\ entry[e] # Unlisted /\ x \in Entry /\ x.addr = entry[e].addr
      /\ x.linked = entry[e].linked /\ x.auto = entry[e].auto
    BY <1>0, <1>1 DEF IsOff, Entry
<1>3. w = [World EXCEPT !.entry[e] = x]
    BY <1>0
<1>4. id \in Ids \cup {None} /\ \A o \in Ids : e \in LinkedTo(World, o) <=> id = o
    BY <1>0, <1>2 DEF Linked
<1> HIDE DEF x, id
<1>5. /\ w \in Worlds /\ w.live = live /\ w.present = present /\ w.intent = intent
      /\ w.released = released /\ w.entry[e] = x
      /\ \A f \in Entries \ {e} : w.entry[f] = entry[f]
    BY <1>0, <1>2, <1>3, EditedWorld
<1> HIDE DEF w
<1>6. OneEntryEach(w)
    BY <1>0, <1>2, <1>5 DEF OneEntryEach
<1>7. ASSUME NEW o \in Ids
      PROVE  /\ e \in LinkedTo(w, o) <=> id = o
             /\ e \in AtAddress(w, o) => e \in AtAddress(World, o)
    <2>1. x # Unlisted
        BY <1>2, AbsentAssumption
    <2>2. e \in LinkedTo(w, o) <=> e \in LinkedTo(World, o)
        BY <1>0, <1>2, <1>5, <2>1 DEF LinkedTo
    <2>3. e \in AtAddress(w, o) => e \in AtAddress(World, o)
        BY <1>0, <1>2, <1>5 DEF AtAddress
    <2> QED BY <1>4, <2>2, <2>3
<1>8. Unfaulted' => Unfaulted
    BY <1>1 DEF Unfaulted
<1>9. CASE id = None
    <2>1. \A o \in Ids : id # o
        BY <1>9, BridgeAssumption
    <2>2. bridge' = bridge
        BY <1>1, <1>9
    <2>3. Edits(w, e, {})
        BY <1>1, <1>4, <1>5, <1>6, <1>7, <1>8, <2>1, <2>2 DEF Edits
    <2> QED BY <1>5, <2>3, EditSettled
<1>10. CASE id # None
    <2>1. id \in Ids /\ {id} \in SUBSET Ids /\ bridge' = Reconcile(w, bridge, id, c)
        BY <1>1, <1>4, <1>10
    <2>2. Live(w, bridge, id)
        BY <1>0, <1>5, <2>1, AttachedLive
    <2>3. /\ FollowsAt(w, bridge', id) /\ AttachedAt(w, bridge', id)
          /\ \A o \in Ids \ {id} : bridge'.map[o] = bridge.map[o]
        BY <1>0, <1>5, <2>1, <2>2, ReconcileFollows DEF Conns
    <2>4. Announced(w, syncs, id)
        BY <1>7, <2>1 DEF Announced
    <2>5. Edits(w, e, {id})
        BY <1>1, <1>4, <1>5, <1>6, <1>7, <1>8, <2>1, <2>3, <2>4 DEF Edits
    <2> QED BY <1>5, <2>1, <2>5, EditSettled
<1> QED BY <1>9, <1>10

\* An appliance loses its entry, or the entry itself goes: its bridge has stopped.
LEMMA LossSettled ==
    ASSUME IInv, Settled, NEW e \in Entries, Unlink(e) \/ Remove(e)
    PROVE  Settled'
<1>0. /\ World \in Worlds /\ World.live = live /\ World.present = present
      /\ World.entry = entry /\ World.released = released /\ World.intent = intent
      /\ Good(bridge) /\ UsesLive(bridge, live) /\ bridge \in Bridges
      /\ OneEntryEach(World) /\ \A o \in Ids : AttachedAt(World, bridge, o)
      /\ entry[e] # Unlisted =>
             /\ entry[e] \in Entry /\ entry[e].linked \in Ids \cup {None}
             /\ \A o \in Ids : e \in LinkedTo(World, o) <=> entry[e].linked = o
    BY BeforeEdit
<1> DEFINE id == Linked(e)
           b == IF id = None THEN bridge ELSE Stop(bridge, id)
<1>1. entry[e] # Unlisted /\ bridge' = b /\ UNCHANGED <<closing, job, syncs>>
    BY DEF Unlink, Remove, IsOff, Edit
<1>2. id \in Ids \cup {None} /\ \A o \in Ids : e \in LinkedTo(World, o) <=> id = o
    BY <1>0, <1>1 DEF Linked
<1>3. entry[e].linked = id
    BY DEF Linked
<1>4. released \in SUBSET Entries
    BY DEF IInv, TypeOK
<1> HIDE DEF id
<1>5. ASSUME NEW o \in Ids
      PROVE  /\ o # id => bridge'.map[o] = bridge.map[o]
             /\ o = id => bridge'.map[o] = NoBridge
    <2>1. id = None => id # o
        BY BridgeAssumption
    <2> QED BY <1>0, <1>1, <1>2, <2>1, StopMap
\* The world with the appliance switched off, and perhaps without registration.
<1>6. ASSUME NEW u \in Worlds, u.entry = entry, u.released = released, u.present = present,
             \A o \in Ids : o # id => u.live[o] = live[o] /\ u.intent[o] = intent[o],
             Becomes(u), Fault
      PROVE  Settled'
    <2>1. ~Unfaulted'
        BY <1>6, BridgeAssumption DEF Unfaulted, Fault, IInv, TypeOK
    <2>2. OneEntryEach(u)
        BY <1>0, <1>6 DEF OneEntryEach
    <2>3. ClosingIsOld'
        BY <1>1, <1>6, BeforeSettled DEF ClosingIsOld, Becomes
    <2>4. ASSUME NEW o \in Ids
          PROVE  SettledFor(u, o)
        <3>1. CASE o = id
            BY <1>5, <2>1, <3>1, StoppedAt DEF SettledFor
        <3>2. CASE o # id
            <4>1. Keeps(World, u, o)
                BY <1>0, <1>6, <3>2, SameInventory
            <4> QED BY <1>0, <1>5, <2>1, <3>2, <4>1, Untouched
        <3> QED BY <3>1, <3>2
    <2> QED BY <1>6, <2>2, <2>3, <2>4, SettledByParts
<1>7. ASSUME NEW u \in Worlds, u.present = present, Becomes(u),
             \A f \in Entries \ {e} : /\ u.entry[f] = entry[f]
                                      /\ f \in u.released <=> f \in released,
             \A o \in Ids : o # id => u.live[o] = live[o] /\ u.intent[o] = intent[o],
             id # None => u.intent[id] = "off",
             \/ u.entry[e] = Unlisted
             \/ u.entry[e] # Unlisted /\ u.entry[e].linked = None /\ ~u.entry[e].auto
                /\ u.entry[e].addr = entry[e].addr,
             CountPlaced(Uncovers(u, id)), UNCHANGED faults
      PROVE  Settled'
    <2>1. OneEntryEach(u)
        BY <1>0, <1>1, <1>7 DEF OneEntryEach
    <2>2. \A o \in Ids : e \notin LinkedTo(u, o) /\ e \notin AtAddress(u, o)
        BY <1>7, BridgeAssumption DEF LinkedTo, AtAddress
    <2>3. Unfaulted' => Unfaulted /\ ~Uncovers(u, id)
        BY <1>7, Uncovered
    <2>4. CASE id = None
        <3>1. \A o \in Ids : o # id
            BY <2>4, BridgeAssumption
        <3>2. Edits(u, e, {})
            BY <1>1, <1>2, <1>5, <1>7, <2>1, <2>2, <2>3, <3>1 DEF Edits
        <3> QED BY <1>7, <3>2, EditSettled
    <2>5. CASE id # None
        <3>1. id \in Ids /\ {id} \in SUBSET Ids
            BY <1>2, <2>5
        <3>2. LinkedTo(u, id) = {}
            BY <1>0, <1>1, <1>3, <1>7, <2>2, <3>1, OnlyLink
        <3>3. AttachedAt(u, bridge', id) /\ (~Wanted(u, id) => FollowsAt(u, bridge', id))
            BY <1>5, <3>1, StoppedAt
        <3>4. Unfaulted' => ~Wanted(u, id) /\ Announced(u, syncs, id)
            BY <1>7, <2>3, <2>5, <3>1, <3>2, Orphaned
        <3>5. Edits(u, e, {id})
            BY <1>1, <1>2, <1>5, <1>7, <2>1, <2>2, <2>3, <3>1, <3>3, <3>4 DEF Edits
        <3> QED BY <1>7, <3>1, <3>5, EditSettled
    <2> QED BY <2>4, <2>5
<1>8. CASE Unlink(e)
    <2> DEFINE off == IF id = None THEN World ELSE SwitchOff(World, id)
               x == [entry[e] EXCEPT !.linked = None, !.auto = FALSE]
               w == [off EXCEPT !.entry[e] = x]
    <2>1. \/ Becomes(w) /\ CountPlaced(Uncovers(w, id)) /\ UNCHANGED faults
          \/ Becomes(off) /\ Fault
        BY <1>8 DEF Unlink, Edit, id
    <2>2. x \in Entry /\ x.linked = None /\ ~x.auto /\ x.addr = entry[e].addr
        BY <1>0, <1>1 DEF Entry
    <2> HIDE DEF x
    <2>3. /\ off \in Worlds /\ off.entry = entry /\ off.released = released /\ off.present = present
          /\ \A o \in Ids : o # id => off.live[o] = live[o] /\ off.intent[o] = intent[o]
          /\ id # None => off.intent[id] = "off"
        BY <1>0, <1>2, SwitchOffWorld, SwitchedOff
    <2> HIDE DEF off
    <2>4. /\ w \in Worlds /\ w.live = off.live /\ w.present = present
          /\ w.released = released /\ w.intent = off.intent
          /\ w.entry[e] = x /\ \A f \in Entries \ {e} : w.entry[f] = entry[f]
        <3>1. x \in Entry \cup {Unlisted} /\ w = [off EXCEPT !.entry[e] = x]
            BY <2>2
        <3> HIDE DEF w
        <3>2. /\ w \in Worlds /\ w.live = off.live /\ w.present = off.present
              /\ w.released = off.released /\ w.intent = off.intent
              /\ w.entry[e] = x /\ \A f \in Entries \ {e} : w.entry[f] = off.entry[f]
            BY <2>3, <3>1 DEF Worlds
        <3> QED BY <2>3, <3>2
    <2> HIDE DEF w
    <2>5. w.entry[e] # Unlisted
        BY <2>2, <2>4, AbsentAssumption
    <2>6. CASE Becomes(off) /\ Fault
        BY <1>6, <2>3, <2>6
    <2>7. CASE Becomes(w) /\ CountPlaced(Uncovers(w, id)) /\ UNCHANGED faults
        BY <1>7, <2>2, <2>3, <2>4, <2>5, <2>7
    <2> QED BY <2>1, <2>6, <2>7
<1>9. CASE Remove(e)
    <2> DEFINE off == IF id = None THEN World ELSE Discarded(World, id)
               w == [off EXCEPT !.entry[e] = Unlisted, !.released = released \ {e}]
    <2>1. \/ Becomes(w) /\ CountPlaced(Uncovers(w, id)) /\ UNCHANGED faults
          \/ Becomes(off) /\ Fault
        BY <1>9 DEF Remove, Edit, id
    <2>2. /\ off \in Worlds /\ off.entry = entry /\ off.released = released /\ off.present = present
          /\ \A o \in Ids : o # id => off.live[o] = live[o] /\ off.intent[o] = intent[o]
          /\ id # None => off.intent[id] = "off"
        <3>1. CASE id = None
            BY <1>0, <3>1
        <3>2. CASE id # None
            <4> DEFINE u == [World EXCEPT !.live[id] = 0]
            <4>1. id \in Ids
                BY <1>2, <3>2
            <4>2. /\ u \in Worlds /\ u.entry = entry /\ u.released = released
                  /\ u.present = present /\ u.intent = intent
                  /\ \A o \in Ids : o # id => u.live[o] = live[o]
                BY <1>0, BridgeAssumption DEF Worlds
            <4>3. off = SwitchOff(u, id)
                BY <3>2 DEF Discarded
            <4> HIDE DEF u, off
            <4> QED BY <4>1, <4>2, <4>3, SwitchOffWorld, SwitchedOff
        <3> QED BY <3>1, <3>2
    <2> HIDE DEF off
    <2>3. /\ w \in Worlds /\ w.live = off.live /\ w.present = present
          /\ w.released = released \ {e} /\ w.intent = off.intent
          /\ w.entry[e] = Unlisted /\ \A f \in Entries \ {e} : w.entry[f] = entry[f]
        BY <1>4, <2>2 DEF Worlds
    <2> HIDE DEF w
    <2>4. CASE Becomes(off) /\ Fault
        BY <1>6, <2>2, <2>4
    <2>5. CASE Becomes(w) /\ CountPlaced(Uncovers(w, id)) /\ UNCHANGED faults
        BY <1>7, <2>2, <2>3, <2>5
    <2> QED BY <2>1, <2>4, <2>5
<1> QED BY <1>8, <1>9

\* An edit of one entry, after which two appliances have been dealt with.
LEMMA LinkToSettled ==
    ASSUME IInv, Settled, NEW e \in Entries, NEW id \in Ids, NEW c \in Conns, LinkTo(e, id, c)
    PROVE  Settled'
<1>0. /\ World \in Worlds /\ World.live = live /\ World.present = present
      /\ World.entry = entry /\ World.released = released /\ World.intent = intent
      /\ Good(bridge) /\ UsesLive(bridge, live) /\ bridge \in Bridges
      /\ OneEntryEach(World) /\ \A o \in Ids : AttachedAt(World, bridge, o)
      /\ entry[e] # Unlisted =>
             /\ entry[e] \in Entry /\ entry[e].linked \in Ids \cup {None}
             /\ \A o \in Ids : e \in LinkedTo(World, o) <=> entry[e].linked = o
    BY BeforeEdit
<1> DEFINE previous == Linked(e)
           other == previous \notin {None, id}
           x == [entry[e] EXCEPT !.linked = id, !.auto = TRUE]
           linked == [World EXCEPT !.entry[e] = x]
           w == IF other THEN SwitchOff(linked, previous) ELSE linked
           b == IF other THEN Stop(bridge, previous) ELSE bridge
<1>1. /\ entry[e] # Unlisted /\ LinkedTo(World, id) \subseteq {e}
      /\ Becomes(w) /\ bridge' = Reconcile(w, b, id, c)
      /\ CountPlaced(other /\ Uncovers(w, previous))
      /\ UNCHANGED <<closing, job, syncs, faults>>
    BY DEF LinkTo, Edit
<1>2. x \in Entry /\ x.linked = id /\ x.addr = entry[e].addr /\ x # Unlisted
    BY <1>0, <1>1, AbsentAssumption DEF Entry
<1>3. /\ previous \in Ids \cup {None} /\ entry[e].linked = previous
      /\ \A o \in Ids : e \in LinkedTo(World, o) <=> previous = o
    BY <1>0, <1>1 DEF Linked
<1> HIDE DEF x, previous
<1>4. other => previous \in Ids
    BY <1>3
<1>5. /\ linked \in Worlds /\ linked.live = live /\ linked.present = present
      /\ linked.released = released /\ linked.intent = intent
      /\ linked.entry[e] = x /\ \A f \in Entries \ {e} : linked.entry[f] = entry[f]
    <2>1. x \in Entry \cup {Unlisted}
        BY <1>2
    <2> QED BY <1>0, <2>1 DEF Worlds
<1> HIDE DEF linked
<1>6. /\ w \in Worlds /\ w.live = live /\ w.present = present /\ w.released = released
      /\ w.entry = linked.entry
      /\ \A o \in Ids : ~(other /\ o = previous) => w.intent[o] = intent[o]
      /\ other => w.intent[previous] = "off"
    BY <1>4, <1>5, SwitchOffWorld, SwitchedOff
<1>7. /\ b \in Bridges /\ UsesLive(b, live)
      /\ \A o \in Ids : ~(other /\ o = previous) => b.map[o] = bridge.map[o]
      /\ other => b.map[previous] = NoBridge
    <2>1. CASE other
        <3>1. /\ Good(Stop(bridge, previous)) /\ UsesLive(Stop(bridge, previous), live)
              /\ Stop(bridge, previous).map[previous] = NoBridge
              /\ \A o \in Ids \ {previous} : Stop(bridge, previous).map[o] = bridge.map[o]
            BY <1>0, <1>4, <2>1, StopGood, StopUses, StopMap
        <3> QED BY <2>1, <3>1 DEF Good
    <2>2. CASE ~other
        BY <1>0, <2>2
    <2> QED BY <2>1, <2>2
<1> HIDE DEF w, b
<1>8. Live(w, b, id)
    <2>1. b.map[id] = bridge.map[id]
        BY <1>7
    <2> QED BY <1>0, <1>6, <2>1 DEF Live, AttachedAt, Runs
<1>9. /\ FollowsAt(w, bridge', id) /\ AttachedAt(w, bridge', id)
      /\ \A o \in Ids \ {id} : bridge'.map[o] = b.map[o]
    BY <1>1, <1>6, <1>7, <1>8, ReconcileFollows DEF Conns
<1>10. \A f \in Entries \ {e} : w.entry[f] = entry[f]
    BY <1>5, <1>6
<1>11. w.entry[e] = x
    BY <1>5, <1>6
<1>12. OneEntryEach(w)
    <2>1. \A f \in Entries \ {e} : entry[f] # Unlisted => entry[f].linked # id
        BY <1>0, <1>1 DEF LinkedTo
    <2>2. \A f \in Entries \ {e} :
              World.entry[f] # Unlisted =>
                  /\ w.entry[e].addr # World.entry[f].addr
                  /\ w.entry[e].linked # World.entry[f].linked
        BY <1>0, <1>1, <1>2, <1>11, <2>1 DEF OneEntryEach
    <2> QED BY <1>0, <1>10, <2>2, EditOneEach
<1>13. e \in LinkedTo(w, id)
    BY <1>2, <1>11 DEF LinkedTo
<1>14. \A o \in Ids : e \notin AtAddress(w, o) /\ (o # id => e \notin LinkedTo(w, o))
    BY <1>2, <1>11, BridgeAssumption DEF LinkedTo, AtAddress
<1>15. Unfaulted' => Unfaulted /\ ~(other /\ Uncovers(w, previous))
    BY <1>1, Uncovered
<1>16. Announced(w, syncs, id)
    BY <1>13 DEF Announced
<1>17. CASE other
    <2> DEFINE S == {id, previous}
    <2>1. S \in SUBSET Ids /\ previous # id
        BY <1>4, <1>17
    <2>2. LinkedTo(w, previous) = {}
        <3>1. /\ World \in Worlds /\ OneEntryEach(World) /\ World.entry = entry
              /\ World.entry[e] # Unlisted
            BY <1>0, <1>1 DEF World
        <3>2. previous \in Ids /\ World.entry[e].linked = previous
            BY <1>3, <1>4, <1>17, <3>1
        <3>3. \A f \in Entries \ {e} : w.entry[f] = World.entry[f]
            BY <1>10, <3>1
        <3>4. e \notin LinkedTo(w, previous)
            BY <1>14, <2>1, <3>2
        <3> QED BY <3>1, <3>2, <3>3, <3>4, OnlyLink
    <2>3. Unfaulted' => ~Wanted(w, previous) /\ Announced(w, syncs, previous)
        BY <1>4, <1>6, <1>15, <1>17, <2>2, Orphaned
    <2>4. bridge'.map[previous] = NoBridge
        BY <1>4, <1>7, <1>9, <1>17, <2>1
    <2>5. AttachedAt(w, bridge', previous) /\ (~Wanted(w, previous) => FollowsAt(w, bridge', previous))
        BY <2>4, StoppedAt
    <2>6. \A o \in Ids \ S : bridge'.map[o] = bridge.map[o] /\ e \notin LinkedTo(World, o)
        BY <1>3, <1>7, <1>9
    <2>7. Edits(w, e, S)
        BY <1>1, <1>6, <1>9, <1>10, <1>12, <1>14, <1>15, <1>16, <2>3, <2>5, <2>6 DEF Edits
    <2> QED BY <1>6, <2>1, <2>7, EditSettled
<1>18. CASE ~other
    <2>1. \A o \in Ids \ {id} : bridge'.map[o] = bridge.map[o] /\ e \notin LinkedTo(World, o)
        BY <1>3, <1>7, <1>9, <1>18, BridgeAssumption
    <2>2. Edits(w, e, {id})
        BY <1>1, <1>6, <1>9, <1>10, <1>12, <1>14, <1>15, <1>16, <1>18, <2>1 DEF Edits
    <2>3. {id} \in SUBSET Ids
        OBVIOUS
    <2> QED BY <1>6, <2>2, <2>3, EditSettled
<1> QED BY <1>17, <1>18

-----------------------------------------------------------------------------
\* Jobs that wait.

\* A step that changes the job only, when nothing waits for the job.
LEMMA JobOnly ==
    ASSUME IInv, Settled, bridge'.map = bridge.map,
           UNCHANGED <<entry, released, live, intent, present, closing, syncs, placed>>,
           Fault \/ (UNCHANGED faults /\ job.op \notin {"release", "restoring"})
    PROVE  Settled'
<1>1. World' = World /\ (ClosingIsOld' <=> ClosingIsOld)
    BY DEF World, ClosingIsOld
<1>2. ASSUME NEW o \in Ids
      PROVE  /\ AttachedAt(World, bridge, o) => AttachedAt(World, bridge', o)
             /\ FollowsAt(World, bridge, o) => FollowsAt(World, bridge', o)
    BY DEF AttachedAt, FollowsAt, Runs
<1>3. Fault => ~Unfaulted'
    BY BridgeAssumption DEF Unfaulted, Fault, IInv, TypeOK
<1>4. CASE Fault
    BY <1>1, <1>2, <1>3, <1>4 DEF Settled, Serves
<1>5. CASE UNCHANGED faults /\ job.op \notin {"release", "restoring"}
    <2>1. Unfaulted' <=> Unfaulted
        BY <1>5 DEF Unfaulted
    <2>2. ASSUME NEW o \in Ids
          PROVE  /\ Waits(World, syncs, job, o) => Waits(World, syncs', job', o)
                 /\ Announced(World, syncs, o) => Announced(World, syncs', o)
        BY <1>5 DEF Waits, Announced
    <2> QED BY <1>1, <1>2, <2>1, <2>2 DEF Settled, Serves, Settles
<1> QED BY <1>4, <1>5

\* The inventory is latched before the first entry is waited for.
LEMMA ReleaseStarts ==
    ASSUME IInv, Settled, StartRelease
    PROVE  Settled'
<1> DEFINE entries == {e \in Entries : Managed(e)}
           w == [World EXCEPT !.released = released \cup entries]
<1>0. World \in Worlds /\ World.entry = entry /\ World.released = released /\ released \in SUBSET Entries
    BY Before DEF IInv, TypeOK
<1>1. /\ OneEntryEach(World) /\ ClosingIsOld
      /\ \A o \in Ids : AttachedAt(World, bridge, o)
      /\ Unfaulted => \A o \in Ids :
             /\ Announced(World, syncs, o)
             /\ FollowsAt(World, bridge, o) \/ Waits(World, syncs, job, o)
    BY BeforeSettled
<1>2. /\ Idle /\ Becomes(w) /\ job' = [NoJob EXCEPT !.op = "release", !.todo = entries]
      /\ UNCHANGED <<bridge, closing, syncs, placed, faults>>
    BY DEF StartRelease, Still
<1>3. job'.op = "release" /\ job'.todo = entries
    BY <1>2 DEF NoJob
<1>4. \A e \in Entries : e \in entries <=> Managed(e)
    OBVIOUS
<1> HIDE DEF entries
<1>5. /\ w \in Worlds /\ w.live = World.live /\ w.entry = entry /\ w.present = World.present
      /\ w.intent = World.intent /\ w.released = released \cup entries
    BY <1>0 DEF Worlds, entries
<1> HIDE DEF w
<1>6. OneEntryEach(w) /\ ClosingIsOld'
    BY <1>0, <1>1, <1>2, <1>5 DEF OneEntryEach, ClosingIsOld, Becomes, World
<1>7. ASSUME NEW o \in Ids
      PROVE  SettledFor(w, o)
    <2>1. /\ LinkedTo(w, o) = LinkedTo(World, o) /\ LinkedTo(w, o) \subseteq Entries
          /\ AtAddress(w, o) = AtAddress(World, o)
        BY <1>0, <1>5 DEF LinkedTo, AtAddress
    <2>2. Latched(World, o) => Latched(w, o)
        BY <1>0, <1>5, <2>1 DEF Latched
    <2>3. (\E e \in LinkedTo(w, o) : e \in entries) => Latched(w, o)
        BY <1>4, <1>5, <2>1 DEF Latched, Managed
    <2>4. ASSUME \A e \in EntryOf(World, o) : e \notin entries
          PROVE  Keeps(World, w, o)
        <3>1. EntryOf(w, o) = EntryOf(World, o)
            BY <2>1 DEF EntryOf
        <3> QED BY <1>0, <1>5, <2>4, <3>1, SamePolicy
    <2>5. AttachedAt(w, bridge', o)
        <3>1. ASSUME o \in Thinq1, Wanted(World, o)
              PROVE  Wanted(w, o) \/ Latched(w, o)
            <4>1. EntryOf(World, o) = LinkedTo(World, o)
                BY <3>1 DEF EntryOf, AtAddress
            <4>2. Keeps(World, w, o) \/ \E e \in LinkedTo(w, o) : e \in entries
                BY <2>1, <2>4, <4>1
            <4> QED BY <2>3, <3>1, <4>2 DEF Keeps
        <3> QED BY <1>1, <1>2, <1>5, <2>2, <3>1, KeptAttached
    <2>6. Unfaulted' => Unfaulted
        BY <1>2 DEF Unfaulted
    <2>7. Announced(World, syncs, o) => Announced(w, syncs', o)
        BY <1>2, <2>1 DEF Announced
    <2>8. o \in syncs => Waits(w, syncs', job', o)
        BY <1>2 DEF Waits
    <2>9. Waits(World, syncs, job, o) => o \in syncs
        BY <1>2 DEF Waits, Idle
    <2>10. (\E e \in LinkedTo(w, o) : e \in entries) => Waits(w, syncs', job', o)
        BY <1>3 DEF Waits
    <2>11. ASSUME Announced(World, syncs, o), FollowsAt(World, bridge, o), o \notin syncs,
                  ~\E e \in LinkedTo(w, o) : e \in entries
           PROVE  FollowsAt(w, bridge', o)
        <3>1. \A e \in EntryOf(World, o) : e \notin entries
            BY <2>1, <2>11 DEF EntryOf, Announced
        <3> QED BY <1>2, <2>4, <2>11, <3>1, KeptFollows
    <2> QED BY <1>1, <2>5, <2>6, <2>7, <2>8, <2>9, <2>10, <2>11 DEF SettledFor
<1> QED BY <1>2, <1>5, <1>6, <1>7, SettledByParts

\* A request that begins to wait, or that fails.
LEMMA StartSettled ==
    ASSUME IInv, Settled,
           \/ \E e \in Entries : StartEnable(e) \/ StartDisable(e)
           \/ StartRelease \/ StartCycle
           \/ \E id \in Ids : StartRenew(id)
           \/ RenewFails \/ JobFails
    PROVE  Settled'
<1>1. ASSUME NEW e \in Entries, StartEnable(e) \/ StartDisable(e)
      PROVE  Settled'
    BY <1>1, JobOnly DEF StartEnable, StartDisable, Idle, policy, Still
<1>2. CASE StartCycle
    BY <1>2, JobOnly DEF StartCycle, Idle, policy, Still
<1>3. ASSUME NEW id \in Ids, StartRenew(id)
      PROVE  Settled'
    <2>1. bridge'.map = bridge.map
        BY <1>3 DEF StartRenew, IInv, TypeOK, Bridges
    <2> QED BY <1>3, <2>1, JobOnly DEF StartRenew, Idle, policy, Still
<1>4. CASE RenewFails
    BY <1>4, JobOnly DEF RenewFails, policy, Still
<1>5. CASE JobFails
    BY <1>5, JobOnly DEF JobFails, policy, Still
<1> QED BY <1>1, <1>2, <1>3, <1>4, <1>5, ReleaseStarts

\* An entry is switched on or off in the world v, and its appliance was reconciled with w.
LEMMA ForwardingSettled ==
    ASSUME IInv, Settled, NEW w \in Worlds, NEW v \in Worlds, NEW e \in Entries, NEW c \in Conns,
           entry[e] # Unlisted, v.entry[e] # Unlisted, v.entry[e].addr = entry[e].addr,
           v.entry[e].linked = entry[e].linked, v.entry[e].auto = entry[e].auto,
           \A f \in Entries \ {e} : /\ v.entry[f] = entry[f]
                                    /\ f \in v.released <=> f \in released,
           v.present = present, v.live = live, v.intent = intent,
           w.present = present, w.live = live,
           \A o \in Ids : Linked(e) = o => Keeps(w, v, o),
           bridge' = ReconcileLinked(w, e, c), job.op \notin {"release", "restoring"}
    PROVE  Serves(v, bridge') /\ (Unfaulted => Settles(v, bridge', syncs, NoJob))
<1>0. /\ World \in Worlds /\ World.live = live /\ World.present = present
      /\ World.entry = entry /\ World.released = released /\ World.intent = intent
      /\ Good(bridge) /\ UsesLive(bridge, live) /\ bridge \in Bridges
      /\ OneEntryEach(World) /\ \A o \in Ids : AttachedAt(World, bridge, o)
      /\ Linked(e) \in Ids \cup {None}
      /\ \A o \in Ids : e \in LinkedTo(World, o) <=> Linked(e) = o
    BY BeforeEdit DEF Linked
<1>1. Unfaulted => \A o \in Ids : /\ Announced(World, syncs, o)
                                  /\ FollowsAt(World, bridge, o) \/ o \in syncs
    BY BeforeSettled, WaitsInQueue
<1>2. OneEntryEach(v)
    BY <1>0 DEF OneEntryEach
<1>3. ASSUME NEW o \in Ids
      PROVE  /\ e \in LinkedTo(v, o) <=> Linked(e) = o
             /\ e \in AtAddress(v, o) => e \in AtAddress(World, o)
    <2>1. e \in LinkedTo(v, o) <=> Linked(e) = o
        BY DEF LinkedTo, Linked
    <2>2. e \in AtAddress(v, o) => e \in AtAddress(World, o)
        BY <1>0 DEF AtAddress
    <2> QED BY <2>1, <2>2
<1>4. ASSUME NEW o \in Ids, Linked(e) = o
      PROVE  /\ AttachedAt(v, bridge', o) /\ FollowsAt(v, bridge', o) /\ Announced(v, syncs, o)
             /\ \A p \in Ids \ {o} : bridge'.map[p] = bridge.map[p]
    <2>1. bridge' = Reconcile(w, bridge, o, c)
        BY <1>4, BridgeAssumption DEF ReconcileLinked
    <2>2. Live(w, bridge, o)
        BY <1>0, AttachedLive
    <2>3. /\ FollowsAt(w, bridge', o) /\ AttachedAt(w, bridge', o)
          /\ \A p \in Ids \ {o} : bridge'.map[p] = bridge.map[p]
        BY <1>0, <2>1, <2>2, ReconcileFollows DEF Conns
    <2>4. AttachedAt(v, bridge', o)
        BY <1>4, <2>3, KeptAttached DEF Keeps
    <2>5. FollowsAt(v, bridge', o)
        BY <1>4, <2>3, KeptFollows
    <2>6. Announced(v, syncs, o)
        BY <1>3, <1>4 DEF Announced
    <2> QED BY <2>3, <2>4, <2>5, <2>6
<1>5. ASSUME NEW o \in Ids, Linked(e) # o
      PROVE  bridge'.map[o] = bridge.map[o]
    <2>1. CASE Linked(e) = None
        BY <2>1 DEF ReconcileLinked
    <2>2. CASE Linked(e) # None
        <3>1. Linked(e) \in Ids
            BY <1>0, <2>2
        <3> QED BY <1>4, <1>5, <3>1
    <2> QED BY <2>1, <2>2
<1>6. ASSUME NEW o \in Ids, Linked(e) # o
      PROVE  /\ AttachedAt(v, bridge', o)
             /\ Unfaulted => /\ Announced(v, syncs, o)
                             /\ FollowsAt(v, bridge', o) \/ Waits(v, syncs, NoJob, o)
    <2>1. e \notin LinkedTo(World, o) /\ e \notin LinkedTo(v, o) /\ bridge'.map[o] = bridge.map[o]
        BY <1>0, <1>3, <1>5, <1>6
    <2>2. \A f \in Entries \ {e} : /\ v.entry[f] = World.entry[f]
                                   /\ f \in v.released <=> f \in World.released
        BY <1>0
    <2>3. v.present[o] = World.present[o] /\ v.live[o] = World.live[o] /\ v.intent[o] = World.intent[o]
        BY <1>0
    <2>4. /\ AttachedAt(v, bridge', o)
          /\ /\ e \in AtAddress(v, o) => e \in AtAddress(World, o)
             /\ Announced(World, syncs, o)
             /\ FollowsAt(World, bridge, o) \/ Waits(World, syncs, NoJob, o)
             => /\ Announced(v, syncs, o)
                /\ FollowsAt(v, bridge', o) \/ Waits(v, syncs, NoJob, o)
        BY <1>0, <2>1, <2>2, <2>3, EditOther
    <2>5. o \in syncs => Waits(World, syncs, NoJob, o)
        BY DEF Waits
    <2> QED BY <1>1, <1>3, <2>4, <2>5
<1> QED BY <1>2, <1>4, <1>6 DEF Serves, Settles

\* An entry that is released, or goes off, asks for nothing either way.
LEMMA OffKeeps ==
    ASSUME NEW w \in Worlds, NEW v \in Worlds, OneEntryEach(w), NEW e \in Entries, e \in w.released,
           w.entry[e] # Unlisted, v.entry[e] # Unlisted,
           v.entry[e].linked = w.entry[e].linked, v.entry[e].mode = w.entry[e].mode,
           \A f \in Entries \ {e} : v.entry[f] = w.entry[f],
           v.released = w.released, v.present = w.present, v.live = w.live, v.intent = w.intent,
           NEW o \in Ids, w.entry[e].linked = o
    PROVE  Keeps(w, v, o)
<1>1. LinkedTo(w, o) = {e} /\ LinkedTo(v, o) = {e}
    BY BridgeAssumption DEF LinkedTo, OneEntryEach
<1>2. EntryOf(w, o) = {e} /\ EntryOf(v, o) = {e}
    BY <1>1 DEF EntryOf
<1>3. Mode(v, o) = Mode(w, o) /\ ~Forwarding(w, o) /\ ~Forwarding(v, o)
    BY <1>2 DEF Mode, Forwarding
<1>4. Latched(v, o) <=> Latched(w, o)
    BY <1>1 DEF Latched
<1> QED BY <1>3, <1>4 DEF Keeps, Wanted

\* The router has been asked to forward an appliance, or not to.
LEMMA SwitchSettled ==
    ASSUME IInv, Settled, NEW c \in Conns, EnableDone(c) \/ DisableDone(c)
    PROVE  Settled'
<1>0. /\ World \in Worlds /\ World.live = live /\ World.present = present
      /\ World.entry = entry /\ World.released = released /\ World.intent = intent
      /\ OneEntryEach(World) /\ ClosingIsOld /\ released \in SUBSET Entries
    BY BeforeEdit, BeforeSettled DEF IInv, TypeOK
<1> DEFINE e == job.at
<1>1. e \in Entries /\ entry[e] # Unlisted /\ entry[e] \in Entry
    BY BeforeEdit DEF EnableDone, DisableDone, IInv, JobHolds
<1>2. /\ job.op \notin {"release", "restoring"} /\ job' = NoJob
      /\ UNCHANGED <<closing, syncs, placed>>
    BY DEF EnableDone, DisableDone, Still
<1>3. CASE EnableDone(c)
    <2> DEFINE x == [entry[e] EXCEPT !.desired = "on"]
               w == [World EXCEPT !.entry[e].desired = "on", !.released = released \ {e}]
    <2>1. Snapshot(w) /\ bridge' = ReconcileLinked(w, e, c)
        BY <1>3 DEF EnableDone
    <2>2. /\ x \in Entry /\ x.addr = entry[e].addr /\ x.linked = entry[e].linked
          /\ x.auto = entry[e].auto
        BY <1>1 DEF Entry
    <2> HIDE DEF x
    <2>3. w = [World EXCEPT !.entry = [entry EXCEPT ![e] = x], !.released = released \ {e}]
        BY <1>0 DEF x
    <2> HIDE DEF w, e
    <2>4. /\ w \in Worlds /\ w.live = live /\ w.present = present /\ w.intent = intent
          /\ w.entry[e] = x /\ \A f \in Entries \ {e} : w.entry[f] = entry[f]
          /\ w.released = released \ {e}
        BY <1>0, <1>1, <2>2, <2>3 DEF Worlds
    <2>5. w.entry[e] # Unlisted /\ \A o : Keeps(w, w, o)
        BY <2>2, <2>4, AbsentAssumption DEF Keeps
    <2>6. Serves(w, bridge') /\ (Unfaulted => Settles(w, bridge', syncs, NoJob))
        BY <1>1, <1>2, <2>1, <2>2, <2>4, <2>5, ForwardingSettled
    <2> QED BY <1>0, <1>2, <2>1, <2>4, <2>6, SnapshotSettled
<1>4. CASE DisableDone(c)
    <2> DEFINE x == [entry[e] EXCEPT !.desired = "off"]
               w == [World EXCEPT !.released = released \cup {e}]
               v == [w EXCEPT !.entry[e].desired = "off"]
    <2>1. bridge' = ReconcileLinked(w, e, c) /\ (Snapshot(v) \/ (Becomes(w) /\ Fault))
        BY <1>4 DEF DisableDone
    <2>2. /\ x \in Entry /\ x.addr = entry[e].addr /\ x.linked = entry[e].linked
          /\ x.auto = entry[e].auto /\ x.mode = entry[e].mode
        BY <1>1 DEF Entry
    <2> HIDE DEF x
    <2>3. v = [w EXCEPT !.entry = [w.entry EXCEPT ![e] = x]] /\ w.entry[e] = entry[e]
        BY <1>0 DEF x, Worlds
    <2> HIDE DEF v, e
    <2>4. /\ w \in Worlds /\ w.live = live /\ w.present = present /\ w.intent = intent
          /\ w.entry = entry /\ w.released = released \cup {e}
        BY <1>0, <1>1 DEF Worlds
    <2> HIDE DEF w
    <2>5. /\ v \in Worlds /\ v.live = live /\ v.present = present /\ v.intent = intent
          /\ v.entry[e] = x /\ \A f \in Entries \ {e} : v.entry[f] = entry[f]
          /\ v.released = released \cup {e}
        BY <1>1, <2>2, <2>3, <2>4 DEF Worlds
    <2>6. v.entry[e] # Unlisted
        BY <2>2, <2>5, AbsentAssumption
    <2>7. ClosingIsOld' /\ OneEntryEach(w)
        <3>1. present' = present
            <4>1. Snapshot(v) => present' = present
                BY <2>5, SnapshotWorld, LinkedWorld DEF Becomes
            <4> QED BY <2>1, <2>4, <4>1 DEF Becomes
        <3> QED BY <1>0, <1>2, <2>4, <3>1 DEF ClosingIsOld, OneEntryEach
    <2>8. CASE Becomes(w) /\ Fault
        <3>1. \A o : Keeps(w, w, o)
            BY DEF Keeps
        <3>2. Serves(w, bridge')
            BY <1>1, <1>2, <2>1, <2>4, <3>1, ForwardingSettled
        <3>3. ~Unfaulted'
            BY <2>8, BridgeAssumption DEF Unfaulted, Fault, IInv, TypeOK
        <3> QED BY <2>4, <2>7, <2>8, <3>2, <3>3, SettledAfter
    <2>9. CASE Snapshot(v)
        <3>1. \A o \in Ids : Linked(e) = o => Keeps(w, v, o)
            <4>1. e \in w.released /\ w.entry[e] = entry[e] /\ v.released = w.released
                BY <2>4, <2>5
            <4> QED BY <1>1, <2>2, <2>4, <2>5, <2>6, <2>7, <4>1, OffKeeps DEF Linked
        <3>2. \A f \in Entries \ {e} : f \in v.released <=> f \in released
            BY <2>5
        <3>3. Serves(v, bridge') /\ (Unfaulted => Settles(v, bridge', syncs, NoJob))
            BY <1>1, <1>2, <2>1, <2>2, <2>4, <2>5, <2>6, <3>1, <3>2, ForwardingSettled
        <3> QED BY <1>0, <1>2, <2>5, <2>9, <3>3, SnapshotSettled
    <2> QED BY <2>1, <2>8, <2>9
<1> QED BY <1>3, <1>4

\* The registration is new, and the bridge is made anew with it.
LEMMA RenewSettled ==
    ASSUME IInv, Settled, NEW c \in Conns, RenewDone(c)
    PROVE  Settled'
<1>0. /\ World \in Worlds /\ World.live = live /\ World.present = present
      /\ World.entry = entry /\ World.released = released /\ World.intent = intent
      /\ Kept(live, archive, saved) /\ Good(bridge) /\ UsesLive(bridge, live) /\ bridge \in Bridges
      /\ OneEntryEach(World) /\ ClosingIsOld /\ c \in Keys \cup {None}
    BY BeforeEdit, BeforeSettled, Before DEF Conns
<1> DEFINE id == job.id
           w == [World EXCEPT !.live[id] = saved[id] + 1]
           b == Stop(bridge, id)
<1>1. /\ job.op = "renew" /\ present[id] = job.dev /\ Becomes(w)
      /\ bridge' = IF Wanted(w, id) THEN Start(w, b, id, job.dev, c) ELSE b
      /\ job' = NoJob /\ UNCHANGED <<closing, syncs, placed, faults>>
    BY DEF RenewDone, Still
<1>2. id \in Ids /\ job.dev \in Devs /\ saved[id] < MaxRegs
    BY <1>1 DEF IInv, JobHolds
<1> HIDE DEF id
<1>3. saved[id] + 1 \in 0..MaxRegs
    BY <1>0, <1>2, BridgeAssumption DEF Kept
<1>4. /\ w \in Worlds /\ w.present = present /\ w.entry = entry /\ w.released = released
      /\ w.intent = intent /\ \A o \in Ids \ {id} : w.live[o] = live[o]
    <2>1. World.live \in [Ids -> 0..MaxRegs]
        BY <1>0 DEF Worlds
    <2>2. /\ w.present = World.present /\ w.entry = World.entry /\ w.released = World.released
          /\ w.intent = World.intent /\ w.live = [World.live EXCEPT ![id] = saved[id] + 1]
        BY <1>0 DEF Worlds
    <2>3. w.live \in [Ids -> 0..MaxRegs] /\ \A o \in Ids \ {id} : w.live[o] = World.live[o]
        BY <1>2, <1>3, <2>1, <2>2
    <2>4. w \in Worlds
        BY <1>0, <1>2, <1>3 DEF Worlds
    <2> QED BY <1>0, <2>2, <2>3, <2>4
<1> HIDE DEF w
<1>5. /\ b \in Bridges /\ UsesLive(b, w.live) /\ b.map[id] = NoBridge
      /\ \A o \in Ids \ {id} : b.map[o] = bridge.map[o]
    <2>1. Good(b)
        BY <1>0, <1>2, StopGood
    <2>2. UsesLive(b, w.live)
        BY <1>0, <1>2, <1>4, StopUses
    <2>3. b.map[id] = NoBridge /\ \A o \in Ids \ {id} : b.map[o] = bridge.map[o]
        BY <1>0, <1>2, StopMap
    <2> QED BY <2>1, <2>2, <2>3 DEF Good
<1> HIDE DEF b
<1>6. Live(w, b, id)
    BY <1>5 DEF Live, Runs
<1>7. present[id] # None
    BY <1>1, <1>2, BridgeAssumption
<1>8. /\ FollowsAt(w, bridge', id) /\ AttachedAt(w, bridge', id)
      /\ \A o \in Ids \ {id} : bridge'.map[o] = bridge.map[o]
    <2>1. CASE Wanted(w, id)
        <3>1. bridge' = StartPresent(w, b, id, c)
            BY <1>1, <1>4, <1>7, <2>1 DEF StartPresent
        <3> QED BY <1>0, <1>2, <1>4, <1>5, <1>6, <2>1, <3>1, StartFollows
    <2>2. CASE ~Wanted(w, id)
        BY <1>1, <1>5, <2>2, StoppedAt
    <2> QED BY <2>1, <2>2
<1>9. OneEntryEach(w) /\ ClosingIsOld'
    BY <1>0, <1>1, <1>4 DEF OneEntryEach, ClosingIsOld, Becomes
<1>10. SettledFor(w, id)
    <2>1. Announced(World, syncs, id) => Announced(w, syncs', id)
        BY <1>0, <1>1, <1>4 DEF Announced, LinkedTo, AtAddress
    <2>2. Unfaulted' => Unfaulted
        BY <1>1 DEF Unfaulted
    <2> QED BY <1>2, <1>8, <2>1, <2>2, BeforeSettled DEF SettledFor
<1>11. ASSUME NEW o \in Ids \ {id}
       PROVE  SettledFor(w, o)
    <2>1. job.op \notin {"release", "restoring"} /\ job'.op \notin {"release", "restoring"}
        BY <1>1 DEF NoJob
    <2> QED BY <1>0, <1>1, <1>4, <1>8, <2>1, OthersSettled
<1> QED BY <1>1, <1>4, <1>9, <1>10, <1>11, SettledByParts

\* One of the entries to release is off; the appliances of the others still wait.
LEMMA ReleaseOneSettled ==
    ASSUME IInv, Settled, NEW e \in Entries, NEW c \in Conns, ReleaseOne(e, c)
    PROVE  Settled'
<1>0. /\ World \in Worlds /\ World.live = live /\ World.present = present
      /\ World.entry = entry /\ World.released = released /\ World.intent = intent
      /\ UsesLive(bridge, live) /\ bridge \in Bridges
      /\ OneEntryEach(World) /\ ClosingIsOld /\ \A o \in Ids : AttachedAt(World, bridge, o)
      /\ Unfaulted => \A o \in Ids :
             /\ Announced(World, syncs, o)
             /\ FollowsAt(World, bridge, o) \/ Waits(World, syncs, job, o)
    BY BeforeEdit, BeforeSettled
<1>1. /\ job.op = "release" /\ e \in job.todo
      /\ bridge' = ReconcileLinked(World, e, c)
      /\ job' = IF job.todo = {e} THEN NoJob ELSE [job EXCEPT !.todo = job.todo \ {e}]
      /\ UNCHANGED <<entry, released, live, intent, present, closing, syncs, placed, faults>>
    BY DEF ReleaseOne, policy, Still
<1>2. entry[e] # Unlisted /\ job \in Job
    BY <1>1 DEF IInv, JobHolds, TypeOK
<1>3. /\ Linked(e) \in Ids \cup {None}
      /\ \A o \in Ids : e \in LinkedTo(World, o) <=> Linked(e) = o
    BY <1>2, BeforeEdit DEF Linked
<1>4. Becomes(World) /\ ClosingIsOld' /\ (Unfaulted' => Unfaulted)
    BY <1>0, <1>1 DEF Becomes, ClosingIsOld, Unfaulted
<1>5. ASSUME NEW o \in Ids, Linked(e) = o
      PROVE  /\ FollowsAt(World, bridge', o) /\ AttachedAt(World, bridge', o)
             /\ \A p \in Ids \ {o} : bridge'.map[p] = bridge.map[p]
    <2>1. bridge' = Reconcile(World, bridge, o, c)
        BY <1>1, <1>5, BridgeAssumption DEF ReconcileLinked
    <2>2. Live(World, bridge, o)
        BY <1>0, AttachedLive
    <2> QED BY <1>0, <2>1, <2>2, ReconcileFollows DEF Conns
<1>6. ASSUME NEW o \in Ids, Linked(e) # o
      PROVE  bridge'.map[o] = bridge.map[o]
    <2>1. CASE Linked(e) = None
        BY <1>1, <2>1 DEF ReconcileLinked
    <2>2. CASE Linked(e) # None
        BY <1>3, <1>5, <1>6, <2>2
    <2> QED BY <2>1, <2>2
<1>7. ASSUME NEW o \in Ids
      PROVE  SettledFor(World, o)
    <2>1. Announced(World, syncs, o) => Announced(World, syncs', o)
        BY <1>1 DEF Announced
    <2>2. CASE Linked(e) = o
        BY <1>0, <1>4, <1>5, <2>1, <2>2 DEF SettledFor
    <2>3. CASE Linked(e) # o
        <3>1. Waits(World, syncs, job, o) => Waits(World, syncs', job', o)
            <4>1. ASSUME NEW f \in job.todo, f \in LinkedTo(World, o)
                  PROVE  Waits(World, syncs', job', o)
                <5>1. f # e
                    BY <1>3, <2>3, <4>1
                <5>2. job' = [job EXCEPT !.todo = job.todo \ {e}]
                    BY <1>1, <4>1, <5>1
                <5>3. job'.op = "release" /\ job'.todo = job.todo \ {e}
                    BY <1>1, <1>2, <5>2 DEF Job
                <5> QED BY <4>1, <5>1, <5>3 DEF Waits
            <4>2. o \in syncs => Waits(World, syncs', job', o)
                BY <1>1 DEF Waits
            <4> QED BY <1>1, <4>1, <4>2 DEF Waits
        <3>2. Keeps(World, World, o)
            BY DEF Keeps
        <3> QED BY <1>0, <1>4, <1>6, <2>1, <2>3, <3>1, <3>2, Untouched
    <2> QED BY <2>2, <2>3
<1> QED BY <1>0, <1>4, <1>7, SettledByParts

\* The cycle adopts what it found, and every appliance is then reconciled.
LEMMA CycleSettled ==
    ASSUME IInv, Settled,
           \/ \E adopted \in SUBSET Entries : CycleAdopts(adopted)
           \/ \E conns \in [Ids -> Conns] : CycleEnds(conns)
    PROVE  Settled'
<1>0. /\ World \in Worlds /\ World.live = live /\ World.present = present
      /\ World.entry = entry /\ World.released = released /\ World.intent = intent
      /\ UsesLive(bridge, live) /\ bridge \in Bridges
      /\ OneEntryEach(World) /\ ClosingIsOld /\ \A o \in Ids : AttachedAt(World, bridge, o)
      /\ Unfaulted => \A o \in Ids : Announced(World, syncs, o)
      /\ \A e \in Entries : entry[e] # Unlisted => entry[e] \in Entry
    BY BeforeEdit, BeforeSettled
<1>1. ASSUME NEW adopted \in SUBSET Entries, CycleAdopts(adopted)
      PROVE  Settled'
    <2> DEFINE f == [e \in Entries |->
                        IF e \in adopted THEN [entry[e] EXCEPT !.desired = "on"] ELSE entry[e]]
               w == [World EXCEPT !.entry = f]
    <2>1. /\ \A e \in adopted : entry[e] # Unlisted
          /\ Becomes(w) /\ job' = [job EXCEPT !.op = "restoring"]
          /\ UNCHANGED <<bridge, closing, syncs, placed, faults>>
        BY <1>1 DEF CycleAdopts, Managed, Still
    <2>2. ASSUME NEW e \in Entries
          PROVE  /\ f[e] \in Entry \cup {Unlisted}
                 /\ f[e] = Unlisted <=> entry[e] = Unlisted
                 /\ entry[e] # Unlisted =>
                        /\ f[e].linked = entry[e].linked /\ f[e].auto = entry[e].auto
                        /\ f[e].addr = entry[e].addr /\ f[e].mode = entry[e].mode
                        /\ entry[e].desired = "on" => f[e].desired = "on"
        <3>1. CASE e \in adopted
            BY <1>0, <2>1, <3>1, AbsentAssumption DEF Entry
        <3>2. CASE e \notin adopted
            BY <1>0, <3>2
        <3> QED BY <3>1, <3>2
    <2>3. f \in [Entries -> Entry \cup {Unlisted}]
        BY <2>2
    <2> HIDE DEF f
    <2>4. /\ w \in Worlds /\ w.live = live /\ w.present = present /\ w.intent = intent
          /\ w.released = released /\ w.entry = f
        BY <1>0, <2>3 DEF Worlds
    <2> HIDE DEF w
    <2>5. OneEntryEach(w) /\ ClosingIsOld'
        BY <1>0, <2>1, <2>2, <2>4 DEF OneEntryEach, ClosingIsOld, Becomes
    <2>6. job'.op = "restoring"
        BY <2>1 DEF IInv, TypeOK, Job
    <2>7. ASSUME NEW o \in Ids
          PROVE  SettledFor(w, o)
        <3>1. LinkedTo(w, o) = LinkedTo(World, o) /\ AtAddress(w, o) = AtAddress(World, o)
            BY <1>0, <2>2, <2>4 DEF LinkedTo, AtAddress
        <3>2. EntryOf(w, o) = EntryOf(World, o) /\ \A e \in EntryOf(World, o) : e \in Entries /\ entry[e] # Unlisted
            BY <1>0, <3>1 DEF EntryOf, LinkedTo, AtAddress
        <3>3. Mode(w, o) = Mode(World, o) /\ (Forwarding(World, o) => Forwarding(w, o))
            BY <1>0, <2>2, <2>4, <3>2 DEF Mode, Forwarding
        <3>4. Wanted(World, o) => Wanted(w, o)
            BY <1>0, <2>4, <3>3 DEF Wanted
        <3>5. Latched(World, o) => Latched(w, o)
            BY <1>0, <2>2, <2>4, <3>1 DEF Latched, LinkedTo
        <3>6. AttachedAt(w, bridge', o)
            BY <1>0, <2>1, <2>4, <3>4, <3>5, KeptAttached
        <3>7. Unfaulted' => Announced(w, syncs', o)
            BY <1>0, <2>1, <3>1 DEF Announced, Unfaulted
        <3>8. Waits(w, syncs', job', o)
            BY <2>6 DEF Waits
        <3> QED BY <3>6, <3>7, <3>8 DEF SettledFor
    <2> QED BY <2>1, <2>4, <2>5, <2>7, SettledByParts
<1>2. ASSUME NEW conns \in [Ids -> Conns], CycleEnds(conns)
      PROVE  Settled'
    <2>1. /\ bridge' = ReconcileAll(bridge, conns)
          /\ UNCHANGED <<entry, released, live, intent, present, closing, syncs, placed, faults>>
        BY <1>2 DEF CycleEnds, policy, Still
    <2>2. Becomes(World) /\ ClosingIsOld' /\ (Unfaulted' => Unfaulted)
        BY <1>0, <2>1 DEF Becomes, ClosingIsOld, Unfaulted
    <2>3. ASSUME NEW o \in Ids
          PROVE  SettledFor(World, o)
        <3> DEFINE r == Reconcile(World, bridge, o, conns[o])
        <3>1. bridge'.map[o] = (IF present[o] = None THEN bridge ELSE r).map[o]
            BY <2>1 DEF ReconcileAll
        <3>2. Live(World, bridge, o) /\ conns[o] \in Keys \cup {None}
            BY <1>0, AttachedLive DEF Conns
        <3>3. FollowsAt(World, r, o) /\ AttachedAt(World, r, o)
            BY <1>0, <3>2, ReconcileFollows
        <3> HIDE DEF r
        <3>4. FollowsAt(World, bridge', o) /\ AttachedAt(World, bridge', o)
            <4>1. CASE present[o] = None
                BY <1>0, <3>1, <4>1 DEF FollowsAt, AttachedAt, Runs
            <4>2. CASE present[o] # None
                BY <3>1, <3>3, <4>2 DEF FollowsAt, AttachedAt, Runs
            <4> QED BY <4>1, <4>2
        <3>5. Unfaulted' => Announced(World, syncs', o)
            BY <1>0, <2>1, <2>2 DEF Announced
        <3> QED BY <3>4, <3>5 DEF SettledFor
    <2> QED BY <1>0, <2>2, <2>3, SettledByParts
<1> QED BY <1>1, <1>2

\* Nothing runs after the process has died, and some file may be behind.
LEMMA CrashSettled ==
    ASSUME IInv, IInv', Settled, Crash \/ \E e \in Entries : CrashWhileRemoving(e)
    PROVE  Settled'
<1>1. /\ Fault /\ closing' = {} /\ bridge' = NoBridges /\ entry' = entry
    BY DEF Crash, CrashWhileRemoving, Dies
<1>2. ~Unfaulted'
    BY <1>1, BridgeAssumption DEF Unfaulted, Fault, IInv, TypeOK
<1>3. ClosingIsOld'
    BY <1>1 DEF ClosingIsOld
<1>4. OneEntryEach(World')
    BY <1>1 DEF Settled, Serves, OneEntryEach, World
<1>5. \A o \in Ids : AttachedAt(World', bridge', o)
    BY <1>1, StoppedAt DEF NoBridges
<1> QED BY <1>2, <1>3, <1>4, <1>5 DEF Settled, Serves

\* Nobody is connected yet.
LEMMA InitSettled ==
    ASSUME Init
    PROVE  Settled
<1>1. OneEntryEach(World)
    BY DEF Init, OneEntryEach, World
<1>2. ASSUME NEW o \in Ids
      PROVE  World.present[o] = None /\ bridge.map[o] = NoBridge
    BY DEF Init, World, NoBridges
<1>3. ASSUME NEW o \in Ids
      PROVE  /\ AttachedAt(World, bridge, o) /\ FollowsAt(World, bridge, o)
             /\ Announced(World, syncs, o)
    BY <1>2, StoppedAt DEF Announced, AtAddress
<1>4. ClosingIsOld
    BY DEF Init, ClosingIsOld
<1> QED BY <1>1, <1>3, <1>4 DEF Settled, Serves, Settles

\* Every step leaves what runs settled.
LEMMA NextSettled ==
    ASSUME IInv, IInv', Settled, [Next]_vars
    PROVE  Settled'
<1>1. CASE Appliance
    BY <1>1, ApplianceSettled
<1>2. CASE Upstream
    BY <1>2, UpstreamSettled
<1>3. CASE Turn
    <2>1. ASSUME NEW e \in Entries, NEW id \in Ids, NEW c \in Conns,
                 \/ Sync(id, c) \/ SyncFails(id)
                 \/ Resume(id, c) \/ Suspend(id) \/ Restore(id, c)
                 \/ \E m \in {"dnat", "local"} : ChangeMode(e, m, c)
                 \/ \E a \in Ids \cup Elsewhere :
                        Move(e, a, c) \/ \E m \in {"dnat", "local"} : Add(e, a, m)
                 \/ LinkTo(e, id, c) \/ Unlink(e) \/ Remove(e)
          PROVE  Settled'
        <3>1. CASE Sync(id, c) \/ SyncFails(id) \/ Resume(id, c) \/ Suspend(id) \/ Restore(id, c)
            BY <3>1, TurnSettled
        <3>2. CASE \E m \in {"dnat", "local"}, a \in Ids \cup Elsewhere :
                      Move(e, a, c) \/ Add(e, a, m)
            BY <3>2, PlaceSettled
        <3>3. CASE \E m \in {"dnat", "local"} : ChangeMode(e, m, c)
            BY <3>3, ModeSettled
        <3>4. CASE LinkTo(e, id, c)
            BY <3>4, LinkToSettled
        <3>5. CASE Unlink(e) \/ Remove(e)
            BY <3>5, LossSettled
        <3> QED BY <2>1, <3>1, <3>2, <3>3, <3>4, <3>5
    <2>2. CASE Status
        BY <2>2, StatusSettled
    <2> QED BY <1>3, <2>1, <2>2 DEF Turn
<1>4. CASE Answer
    BY <1>4, SwitchSettled, RenewSettled, ReleaseOneSettled, CycleSettled DEF Answer
<1>5. CASE Waiting /\ ~Answer
    BY <1>5, StartSettled DEF Waiting
<1>6. CASE Crash \/ \E e \in Entries : CrashWhileRemoving(e)
    BY <1>6, CrashSettled
<1>7. CASE UNCHANGED vars
    <2>1. World' = World /\ UNCHANGED <<bridge, closing, syncs, job, placed, faults, present>>
        BY <1>7 DEF vars, World
    <2> QED BY <2>1 DEF Settled, Settles, Serves, ClosingIsOld, Unfaulted
<1> QED BY <1>1, <1>2, <1>3, <1>4, <1>5, <1>6, <1>7 DEF Next

\* Whatever comes, goes, is edited or answered, in any order: a bridge that runs serves its
\* appliance, and what is not yet as wanted has somebody waiting to see to it.
THEOREM SettledHolds == Spec => []Settled
<1>1. Init => Settled
    BY InitSettled
<1>2. IInv /\ IInv' /\ Settled /\ [Next]_vars => Settled'
    BY NextSettled
<1> QED BY <1>1, <1>2, InvariantHolds, PTL DEF Spec

\* Between requests what runs is what the inventory and the switches ask for, and
\* commands from the cloud go to the connection the appliance has now.
THEOREM RunningIsWanted == Spec => []RunsWhatIsWanted
<1>1. IInv /\ Settled => RunsWhatIsWanted
    <2> SUFFICES ASSUME IInv, Settled
                 PROVE  AttachedToPresent /\ FollowsPolicy
        BY DEF RunsWhatIsWanted
    <2>1. World \in Worlds /\ World.present = present /\ World.live = live
        BY Before
    <2>2. /\ OneEntryEach(World) /\ \A o \in Ids : AttachedAt(World, bridge, o)
          /\ Unfaulted => \A o \in Ids :
                 FollowsAt(World, bridge, o) \/ Waits(World, syncs, job, o)
        BY BeforeSettled
    <2>3. AttachedToPresent
        BY <2>1, <2>2, LatchedUnwanted DEF AttachedToPresent, AttachedAt
    <2>4. FollowsPolicy
        BY <2>1, <2>2 DEF FollowsPolicy, FollowsAt, Waits, Idle, Unfaulted
    <2> QED BY <2>3, <2>4
<1> QED BY <1>1, InvariantHolds, SettledHolds, PTL
=============================================================================
