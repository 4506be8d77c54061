---------------------------- MODULE ServicesProofs ----------------------------
(***************************************************************************)
(* Theorems about the services, for any number of those who ask and of     *)
(* what they share: SniRouter, SourceLookups and SniCertificates lose no   *)
(* place or slot, and the last two implement BoundedPool; SessionAuthority *)
(* keeps a session only while its store has a place for it.  With what     *)
(* MqttBrokerProofs shows of the broker they make up the theorems about    *)
(* all services together.                                                  *)
(***************************************************************************)
EXTENDS Services, MqttBrokerProofs

-----------------------------------------------------------------------------
\* The SNI router.

\* A connection counts exactly while it is read and has its timer.
SocketGood(r) ==
    /\ r \in Socket
    /\ ~r.settled <=> r.phase = "peeking"
    /\ ~r.settled <=> "preface" \in r.timers
    /\ "stall" \in r.timers => r.settled
    /\ r.phase = "peeking" => r.buffered < MaxHello

BeingRead == {s \in Sockets : ~socket[s].settled}

SniInv ==
    /\ SniTypeOK
    /\ pendingPrefaces = Cardinality(BeingRead)
    /\ \A s \in Sockets : SocketGood(socket[s])

-----------------------------------------------------------------------------
\* One connection changes, and the number of those being read with it.
LEMMA SocketChangeKeeps ==
    ASSUME SniAssumption, SniInv, NEW s \in Sockets, NEW r, SocketBecomes(s, r), SocketGood(r),
           \/ r.settled /\ StopPeeking(s)
           \/ r.settled = socket[s].settled /\ pendingPrefaces' = pendingPrefaces
           \/ /\ socket[s].settled /\ ~r.settled
              /\ pendingPrefaces < MaxPending /\ pendingPrefaces' = pendingPrefaces + 1
    PROVE  SniInv'
<1>1. /\ socket' = [socket EXCEPT ![s] = r] /\ socket \in [Sockets -> Socket]
      /\ pendingPrefaces \in 0..MaxPending /\ pendingPrefaces = Cardinality(BeingRead)
    BY DEF SniInv, SniTypeOK, SocketBecomes
<1>2. r \in Socket /\ r.settled \in BOOLEAN /\ socket[s].settled \in BOOLEAN
    BY <1>1 DEF SocketGood, Socket
<1>3. /\ socket' \in [Sockets -> Socket] /\ socket'[s] = r
      /\ \A o \in Sockets \ {s} : socket'[o] = socket[o]
    BY <1>1, <1>2
<1>4. IsFiniteSet(BeingRead)
    BY FS_Subset DEF BeingRead, SniAssumption
<1>5. BeingRead' = IF r.settled THEN BeingRead \ {s} ELSE BeingRead \cup {s}
    BY <1>3 DEF BeingRead
<1>6. s \in BeingRead <=> ~socket[s].settled
    BY DEF BeingRead
<1>7. /\ Cardinality(BeingRead) \in Nat
      /\ Cardinality(BeingRead \ {s}) = IF s \in BeingRead THEN Cardinality(BeingRead) - 1
                                                           ELSE Cardinality(BeingRead)
      /\ Cardinality(BeingRead \cup {s}) = IF s \in BeingRead THEN Cardinality(BeingRead)
                                                              ELSE Cardinality(BeingRead) + 1
      /\ Cardinality(BeingRead \ {s}) \in Nat
    <2>1. IsFiniteSet(BeingRead \ {s})
        BY <1>4, FS_RemoveElement
    <2> QED
        BY <1>4, <2>1, FS_CardinalityType, FS_RemoveElement, FS_AddElement
<1>8. pendingPrefaces' = Cardinality(BeingRead') /\ pendingPrefaces' \in 0..MaxPending
    <2>1. CASE r.settled /\ StopPeeking(s)
        BY <1>1, <1>2, <1>5, <1>6, <1>7, <2>1 DEF StopPeeking, SniAssumption
    <2>2. CASE r.settled = socket[s].settled /\ pendingPrefaces' = pendingPrefaces
        BY <1>1, <1>2, <1>5, <1>6, <1>7, <2>2 DEF SniAssumption
    <2>3. CASE /\ socket[s].settled /\ ~r.settled
               /\ pendingPrefaces < MaxPending /\ pendingPrefaces' = pendingPrefaces + 1
        BY <1>1, <1>2, <1>5, <1>6, <1>7, <2>3 DEF SniAssumption
    <2> QED
        BY <2>1, <2>2, <2>3
<1>9. \A o \in Sockets : SocketGood(socket'[o])
    BY <1>3 DEF SniInv
<1> QED
    BY <1>3, <1>8, <1>9 DEF SniInv, SniTypeOK

LEMMA NoSocketFields ==
    /\ NoSocket.phase = "none" /\ NoSocket.settled = TRUE /\ NoSocket.timers = {}
    /\ NoSocket.buffered = 0
BY DEF NoSocket

LEMMA NoSocketGood ==
    ASSUME SniAssumption
    PROVE  SocketGood(NoSocket) /\ NoSocket.settled
BY DEF SocketGood, NoSocket, Socket, Phases, SniAssumption

-----------------------------------------------------------------------------
\* What settles a connection, whoever gets it.
LEMMA SettledFields ==
    ASSUME SniAssumption, SniInv, NEW s \in Sockets, NEW phase \in Phases
    PROVE  /\ Settled(s, phase) \in Socket
           /\ Settled(s, phase).phase = phase /\ Settled(s, phase).settled
           /\ Settled(s, phase).timers = socket[s].timers \ {"preface"}
<1> DEFINE q == socket[s]
           t == q.timers \ {"preface"}
           p == [q EXCEPT !.phase = phase]
           u == [p EXCEPT !.settled = TRUE]
           v == [u EXCEPT !.timers = t]
           w == [v EXCEPT !.buffered = 0]
<1>1. q \in Socket /\ t \in SUBSET {"preface", "stall"} /\ 0 \in 0..MaxHello
    BY DEF SniInv, SocketGood, Socket, SniAssumption
<1>2. Settled(s, phase) = w
    BY Zenon DEF Settled
<1> HIDE DEF q, t
<1>3. p \in Socket /\ p.phase = phase
    BY <1>1 DEF Socket
<1> HIDE DEF p
<1>4. u \in Socket /\ u.phase = phase /\ u.settled
    BY <1>3 DEF Socket
<1> HIDE DEF u
<1>5. v \in Socket /\ v.phase = phase /\ v.settled /\ v.timers = t
    BY <1>1, <1>4 DEF Socket
<1> HIDE DEF v
<1>6. w \in Socket /\ w.phase = phase /\ w.settled /\ w.timers = t
    BY <1>1, <1>5 DEF Socket
<1> QED
    BY <1>2, <1>6 DEF q, t

LEMMA SettledGood ==
    ASSUME SniAssumption, SniInv, NEW s \in Sockets
    PROVE  /\ SocketGood(TakenLocally(s)) /\ TakenLocally(s).settled
           /\ SocketGood(Spliced(s)) /\ Spliced(s).settled
           /\ SocketGood(Stalled(s)) /\ Stalled(s).settled
           /\ SocketGood(Settled(s, "destroyed")) /\ Settled(s, "destroyed").settled
<1>1. ASSUME NEW phase \in Phases \ {"peeking"}
      PROVE  SocketGood(Settled(s, phase)) /\ Settled(s, phase).settled
    BY SettledFields DEF SocketGood
<1>2. {"local", "connecting", "stalled", "destroyed"} \subseteq Phases \ {"peeking"}
    BY DEF Phases
<1>3. SocketGood(Spliced(s)) /\ Spliced(s).settled
    <2> DEFINE q == Settled(s, "connecting")
    <2>1. SocketGood(q) /\ q.settled /\ q.phase = "connecting"
        BY <1>1, <1>2, SettledFields
    <2>2. Spliced(s) = [q EXCEPT !.upstream = TRUE]
        BY DEF Spliced
    <2> HIDE DEF q
    <2> QED
        BY <2>1, <2>2 DEF SocketGood, Socket
<1>4. SocketGood(Stalled(s)) /\ Stalled(s).settled
    <2> DEFINE q == Settled(s, "stalled")
    <2>1. SocketGood(q) /\ q.settled /\ q.phase = "stalled"
        BY <1>1, <1>2, SettledFields
    <2>2. Stalled(s) = [q EXCEPT !.timers = {"stall"}]
        BY DEF Stalled
    <2> HIDE DEF q
    <2> QED
        BY <2>1, <2>2 DEF SocketGood, Socket
<1> QED
    BY <1>1, <1>2, <1>3, <1>4 DEF TakenLocally

LEMMA AcceptKeeps ==
    ASSUME SniAssumption, SniInv, NEW s \in Sockets, Accept(s)
    PROVE  SniInv'
<1>1. socket[s].settled /\ pendingPrefaces \in 0..MaxPending /\ MaxPending \in Nat /\ MaxHello \in Nat
    BY DEF SniInv, SocketGood, Accept, SniAssumption, SniTypeOK, Socket
<1>2. CASE pendingPrefaces >= MaxPending
    <2> DEFINE r == [NoSocket EXCEPT !.phase = "destroyed"]
    <2>1. SocketGood(r) /\ r.settled
        BY <1>1, NoSocketGood, NoSocketFields DEF SocketGood, Socket, Phases
    <2>2. SocketBecomes(s, r) /\ pendingPrefaces' = pendingPrefaces
        BY <1>2 DEF Accept
    <2>3. r.settled = socket[s].settled
        BY <1>1, <2>1 DEF NoSocket, SniInv, SocketGood, Socket
    <2> HIDE DEF r
    <2> QED
        BY <2>1, <2>2, <2>3, SocketChangeKeeps
<1>3. CASE ~(pendingPrefaces >= MaxPending)
    <2> DEFINE r == [NoSocket EXCEPT !.phase = "peeking", !.settled = FALSE, !.timers = {"preface"}]
    <2>1. SocketGood(r) /\ ~r.settled
        <3>1. /\ NoSocket \in Socket /\ "peeking" \in Phases
              /\ {"preface"} \in SUBSET {"preface", "stall"}
            BY NoSocketGood DEF SocketGood, Phases
        <3>2. r \in Socket
            BY <3>1 DEF Socket
        <3>3. /\ r.phase = "peeking" /\ r.settled = FALSE /\ r.timers = {"preface"}
              /\ r.buffered = NoSocket.buffered
            BY <3>1 DEF Socket
        <3> HIDE DEF r
        <3> QED
            BY <3>2, <3>3, NoSocketFields DEF SocketGood, SniAssumption
    <2>2. SocketBecomes(s, r) /\ pendingPrefaces' = pendingPrefaces + 1
        BY <1>3 DEF Accept
    <2>3. pendingPrefaces < MaxPending
        BY <1>1, <1>3
    <2> HIDE DEF r
    <2> QED
        BY <1>1, <2>1, <2>2, <2>3, SocketChangeKeeps
<1> QED
    BY <1>2, <1>3

LEMMA OnReadableKeeps ==
    ASSUME SniAssumption, SniInv, NEW s \in Sockets,
           NEW name \in {"none", "local", "passed", "stalled"}, OnReadable(s, name)
    PROVE  SniInv'
<1> DEFINE n == socket[s].buffered + 1
<1>1. /\ SocketGood(socket[s]) /\ socket[s].phase = "peeking" /\ ~socket[s].settled
      /\ n \in 0..MaxHello /\ MaxHello \in Nat
    BY DEF SniInv, SocketGood, OnReadable, Socket, SniAssumption
<1>2. CASE name = "none" /\ n < MaxHello
    <2> DEFINE r == [socket[s] EXCEPT !.buffered = n]
    <2>1. SocketGood(r) /\ r.settled = socket[s].settled
        BY <1>1, <1>2 DEF SocketGood, Socket
    <2>2. SocketBecomes(s, r) /\ pendingPrefaces' = pendingPrefaces
        BY <1>2 DEF OnReadable
    <2> HIDE DEF r
    <2> QED
        BY <2>1, <2>2, SocketChangeKeeps
<1>3. CASE ~(name = "none" /\ n < MaxHello)
    <2>1. StopPeeking(s) /\ (\/ SocketBecomes(s, Spliced(s)) \/ SocketBecomes(s, Stalled(s))
                             \/ SocketBecomes(s, TakenLocally(s)))
        BY <1>3 DEF OnReadable
    <2> HIDE DEF n
    <2>2. CASE SocketBecomes(s, Spliced(s))
        BY <1>1, <2>1, <2>2, SettledGood, SocketChangeKeeps
    <2>3. CASE SocketBecomes(s, Stalled(s))
        BY <1>1, <2>1, <2>3, SettledGood, SocketChangeKeeps
    <2>4. CASE SocketBecomes(s, TakenLocally(s))
        BY <1>1, <2>1, <2>4, SettledGood, SocketChangeKeeps
    <2> QED
        BY <2>1, <2>2, <2>3, <2>4
<1> QED
    BY <1>2, <1>3

LEMMA EndKeeps ==
    ASSUME SniAssumption, SniInv, NEW s \in Sockets, End(s)
    PROVE  SniInv'
<1> DEFINE r == IF socket[s].buffered = 0 THEN TakenLocally(s) ELSE Settled(s, "destroyed")
<1>1. SocketGood(r) /\ r.settled
    BY SettledGood
<1>2. SocketBecomes(s, r) /\ StopPeeking(s)
    BY DEF End
<1> HIDE DEF r
<1> QED
    BY <1>1, <1>2, SocketChangeKeeps

LEMMA EarlyErrorKeeps ==
    ASSUME SniAssumption, SniInv, NEW s \in Sockets, EarlyError(s)
    PROVE  SniInv'
BY SettledGood, SocketChangeKeeps DEF EarlyError

LEMMA UpstreamConnectsKeeps ==
    ASSUME SniAssumption, SniInv, NEW s \in Sockets, UpstreamConnects(s)
    PROVE  SniInv'
<1> DEFINE r == [socket[s] EXCEPT !.phase = "spliced"]
<1>1. SocketGood(socket[s]) /\ socket[s].phase = "connecting"
    BY DEF SniInv, UpstreamConnects
<1>2. SocketBecomes(s, r) /\ pendingPrefaces' = pendingPrefaces
    BY DEF UpstreamConnects
<1>3. SocketGood(r) /\ r.settled = socket[s].settled
    BY <1>1 DEF SocketGood, Socket, Phases
<1> HIDE DEF r
<1> QED
    BY <1>2, <1>3, SocketChangeKeeps

\* A connection that was settled comes to its end.
LEMMA DestroyedKeeps ==
    ASSUME SniAssumption, SniInv, NEW s \in Sockets,
           \/ SpliceFails(s) \/ Fails(s) \/ StallTimer(s)
    PROVE  SniInv'
<1> DEFINE q == socket[s]
<1>1. SocketGood(q) /\ q.settled
    BY DEF SniInv, SocketGood, SpliceFails, Fails, StallTimer
<1>2. pendingPrefaces' = pendingPrefaces
    BY DEF SpliceFails, Fails, StallTimer
<1>3. CASE SpliceFails(s) \/ Fails(s)
    <2> DEFINE r == [q EXCEPT !.phase = "destroyed", !.upstream = FALSE]
    <2>1. SocketBecomes(s, r)
        BY <1>3 DEF SpliceFails, Fails
    <2> HIDE DEF q
    <2>2. SocketGood(r) /\ r.settled = q.settled
        BY <1>1 DEF SocketGood, Socket, Phases
    <2> USE DEF q
    <2> HIDE DEF r
    <2> QED
        BY <1>2, <2>1, <2>2, SocketChangeKeeps
<1>4. CASE StallTimer(s)
    <2> DEFINE r == [q EXCEPT !.phase = "destroyed", !.timers = {}]
    <2>1. SocketBecomes(s, r)
        BY <1>4 DEF StallTimer
    <2> HIDE DEF q
    <2>2. SocketGood(r) /\ r.settled = q.settled
        BY <1>1 DEF SocketGood, Socket, Phases
    <2> USE DEF q
    <2> HIDE DEF r
    <2> QED
        BY <1>2, <2>1, <2>2, SocketChangeKeeps
<1> QED
    BY <1>3, <1>4

LEMMA CloseKeeps ==
    ASSUME SniAssumption, SniInv, NEW s \in Sockets, Close(s)
    PROVE  SniInv'
BY NoSocketGood, SocketChangeKeeps DEF Close

-----------------------------------------------------------------------------
LEMMA SniInitHolds ==
    ASSUME SniAssumption, SniInit
    PROVE  SniInv
<1>1. \A s \in Sockets : socket[s] = NoSocket
    BY DEF SniInit
<1>2. BeingRead = {}
    BY <1>1, NoSocketGood DEF BeingRead
<1>3. Cardinality(BeingRead) = 0
    BY <1>2, FS_EmptySet
<1>4. SniTypeOK
    BY NoSocketGood DEF SniTypeOK, SniInit, SniAssumption, SocketGood
<1> QED
    BY <1>1, <1>3, <1>4, NoSocketGood DEF SniInv, SniInit

LEMMA SniStepKeeps ==
    ASSUME SniAssumption, SniInv, [SniNext]_sniVars
    PROVE  SniInv'
<1>1. CASE UNCHANGED sniVars
    BY <1>1 DEF sniVars, SniInv, SniTypeOK, BeingRead
<1>2. CASE SniNext
    <2>1. PICK s \in Sockets :
            \/ Accept(s)
            \/ \E name \in {"none", "local", "passed", "stalled"} : OnReadable(s, name)
            \/ End(s) \/ EarlyError(s) \/ PrefaceTimer(s)
            \/ UpstreamConnects(s) \/ SpliceFails(s) \/ Fails(s)
            \/ StallTimer(s) \/ Close(s)
        BY <1>2 DEF SniNext
    <2>2. PrefaceTimer(s) => EarlyError(s)
        BY DEF PrefaceTimer
    <2> QED
        BY <2>1, <2>2, AcceptKeeps, OnReadableKeeps, EndKeeps, EarlyErrorKeeps,
           UpstreamConnectsKeeps, DestroyedKeeps, CloseKeeps
<1> QED
    BY <1>1, <1>2

\* Every state the listener reaches is typed, counts the connections it reads, and has
\* of every connection what stopPeeking() and its callers leave.
THEOREM SniInvariantHolds ==
    ASSUME SniAssumption
    PROVE  SniSpec => []SniInv
<1>1. SniInit => SniInv
    BY SniInitHolds
<1>2. SniInv /\ [SniNext]_sniVars => SniInv'
    BY SniStepKeeps
<1> QED
    BY <1>1, <1>2, PTL DEF SniSpec

\* The counter of connections being read stays within MAX_PENDING_PREFACES.
THEOREM SniTypeCorrect ==
    ASSUME SniAssumption
    PROVE  SniSpec => []SniTypeOK
<1>1. SniInv => SniTypeOK
    BY DEF SniInv
<1> QED
    BY <1>1, SniInvariantHolds, PTL

\* Name, end, error, timer and close race, and each connection gives its place back once.
THEOREM PlacesAreGivenBack ==
    ASSUME SniAssumption
    PROVE  SniSpec => []PlacesBalance
<1>1. SniInv => PlacesBalance
    BY DEF SniInv, PlacesBalance, BeingRead, SocketGood
<1> QED
    BY <1>1, SniInvariantHolds, PTL

-----------------------------------------------------------------------------
\* The lookups of sources.

TalkingIn(w) == {l \in Lookups : w.lookup[l].step \in {"connecting", "executing", "ending"}}

LookupTyped(w) ==
    w \in [lookup : [Lookups -> Lookup], lookups : 0..MaxLookups, jobs : Seq(Lookups)]

\* Slots and queue of a resolver, whatever it is asked to do next.
LookupGood(w) ==
    /\ LookupTyped(w)
    /\ IsFiniteSet(TalkingIn(w)) /\ w.lookups = Cardinality(TalkingIn(w))
    /\ w.jobs # <<>> => w.lookups = MaxLookups
    /\ IsInjective(w.jobs)
    /\ \A l \in Lookups : l \in Range(w.jobs) <=> w.lookup[l].step = "queued"
    /\ \A l \in Lookups : w.lookup[l].answer = "none" => w.lookup[l].step # "idle"
    /\ \A l \in Lookups : w.lookup[l].step = "queued" => w.lookup[l].answer = "none"

\* The inductive invariant.
LookupInv == config \in Configs /\ listed \in SUBSET Addresses /\ LookupGood(World)

LEMMA TypedFields ==
    ASSUME NEW w, LookupTyped(w)
    PROVE  /\ w = [lookup |-> w.lookup, lookups |-> w.lookups, jobs |-> w.jobs]
           /\ w.lookup \in [Lookups -> Lookup] /\ w.lookups \in 0..MaxLookups /\ w.jobs \in Seq(Lookups)
BY DEF LookupTyped

LEMMA JobBecomesKeeps ==
    ASSUME LookupInv, NEW w, LookupGood(w), LookupBecomes(w)
    PROVE  LookupInv'
<1>1. World' = w
    BY TypedFields DEF LookupBecomes, World, LookupGood
<1>2. LookupGood(World')
    BY <1>1
<1>3. LookupGood(World)'
    BY <1>2 DEF LookupGood, LookupTyped, TalkingIn, World
<1> QED
    BY <1>3 DEF LookupInv, LookupBecomes

-----------------------------------------------------------------------------
\* One lookup changes and neither takes nor gives back a slot.
LEMMA JobChangeKeeps ==
    ASSUME LookupAssumption, NEW w, LookupGood(w), NEW l \in Lookups, NEW r \in Lookup, NEW v, NEW q \in Seq(Lookups),
           v = [lookup |-> [w.lookup EXCEPT ![l] = r], lookups |-> w.lookups, jobs |-> q],
           r.step \in {"connecting", "executing", "ending"} <=>
               w.lookup[l].step \in {"connecting", "executing", "ending"},
           IsInjective(q), Range(q) \ {l} = Range(w.jobs) \ {l}, l \in Range(q) <=> r.step = "queued",
           q # <<>> => w.lookups = MaxLookups,
           r.answer = "none" => r.step # "idle", r.step = "queued" => r.answer = "none"
    PROVE  LookupGood(v) /\ TalkingIn(v) = TalkingIn(w)
<1>1. w.lookup \in [Lookups -> Lookup] /\ w.lookups \in 0..MaxLookups
    BY TypedFields DEF LookupGood
<1>2. v.lookup = [w.lookup EXCEPT ![l] = r] /\ v.lookups = w.lookups /\ v.jobs = q
    OBVIOUS
<1>3. v.lookup \in [Lookups -> Lookup] /\ v.lookup[l] = r
      /\ \A o \in Lookups \ {l} : v.lookup[o] = w.lookup[o]
    BY <1>1, <1>2
<1>4. LookupTyped(v)
    BY <1>1, <1>2, <1>3 DEF LookupTyped
<1>5. TalkingIn(v) = TalkingIn(w)
    BY <1>3 DEF TalkingIn
<1>6. \A o \in Lookups : o \in Range(q) <=> v.lookup[o].step = "queued"
    BY <1>3 DEF LookupGood
<1> QED
    BY <1>2, <1>3, <1>4, <1>5, <1>6 DEF LookupGood

\* finish()
LEMMA FinishKeeps ==
    ASSUME LookupAssumption, NEW w, LookupGood(w), NEW l \in Lookups, NEW answer \in Addresses \cup {"denied"}
    PROVE  /\ LookupGood(Finish(w, l, answer)) /\ TalkingIn(Finish(w, l, answer)) = TalkingIn(w)
           /\ Finish(w, l, answer).lookups = w.lookups
           /\ Finish(w, l, answer).jobs =
                  IF w.lookup[l].step = "queued" THEN RemoveFirst(w.jobs, l) ELSE w.jobs
           /\ Finish(w, l, answer).lookup[l].step =
                  IF w.lookup[l].step = "queued" THEN "idle" ELSE w.lookup[l].step
           /\ Finish(w, l, answer).lookup[l].answer =
                  IF w.lookup[l].answer = "none" THEN answer ELSE w.lookup[l].answer
           /\ \A o \in Lookups \ {l} : Finish(w, l, answer).lookup[o] = w.lookup[o]
<1> DEFINE v == Finish(w, l, answer)
           x == w.lookup[l]
           q == RemoveFirst(w.jobs, l)
           half == [x EXCEPT !.answer = answer]
           r == [half EXCEPT !.step = IF x.step = "queued" THEN "idle" ELSE x.step]
<1>1. /\ w.lookup \in [Lookups -> Lookup] /\ w.lookups \in 0..MaxLookups /\ w.jobs \in Seq(Lookups)
      /\ w = [lookup |-> w.lookup, lookups |-> w.lookups, jobs |-> w.jobs]
      /\ x \in Lookup /\ IsInjective(w.jobs)
    BY TypedFields DEF LookupGood
<1>2. CASE x.answer # "none"
    BY <1>2 DEF Finish, LookupGood
<1>3. CASE x.answer = "none"
    <2>1. half \in Lookup /\ half.answer = answer /\ half.step = x.step
        BY <1>1 DEF Lookup
    <2>2. r \in Lookup /\ r.answer = answer /\ r.step = IF x.step = "queued" THEN "idle" ELSE x.step
        <3> HIDE DEF half
        <3> QED
            BY <1>1, <2>1 DEF Lookup, Steps
    <2>3. v = [lookup |-> [w.lookup EXCEPT ![l] = r], lookups |-> w.lookups, jobs |-> q]
        BY <1>1, <1>3 DEF Finish
    <2>4. /\ q \in Seq(Lookups) /\ IsInjective(q) /\ Range(q) = Range(w.jobs) \ {l}
          /\ Len(q) = IF l \in Range(w.jobs) THEN Len(w.jobs) - 1 ELSE Len(w.jobs)
        BY <1>1, RemoveFirstFacts
    <2>5. l \in Range(w.jobs) <=> x.step = "queued"
        BY DEF LookupGood
    <2>6. x.step # "queued" => q = w.jobs
        BY <1>1, <2>5, LenProperties DEF RemoveFirst, Range
    <2>7. q # <<>> => w.lookups = MaxLookups
        <3>1. w.jobs = <<>> => q = <<>>
            BY <2>5, <2>6 DEF Range
        <3> QED
            BY <3>1 DEF LookupGood
    <2>8. x.step # "idle"
        BY <1>3 DEF LookupGood
    <2>9. /\ v.lookup = [w.lookup EXCEPT ![l] = r] /\ v.lookups = w.lookups /\ v.jobs = q
        BY <2>3
    <2>10. v.lookup[l] = r /\ \A o \in Lookups \ {l} : v.lookup[o] = w.lookup[o]
        BY <1>1, <2>9
    <2> HIDE DEF r, q, v, half, x
    <2>11. LookupGood(v) /\ TalkingIn(v) = TalkingIn(w)
        <3>1. r.step \in {"connecting", "executing", "ending"} <=>
                  w.lookup[l].step \in {"connecting", "executing", "ending"}
            BY <2>2 DEF x
        <3>2. Range(q) \ {l} = Range(w.jobs) \ {l} /\ ~(l \in Range(q)) /\ r.step # "queued"
            BY <2>2, <2>4
        <3>3. r.answer # "none"
            BY <2>2, LookupAssumption DEF LookupAssumption
        <3> QED
            BY <2>2, <2>3, <2>4, <2>7, <3>1, <3>2, <3>3, JobChangeKeeps
    <2> QED
        BY <1>3, <2>2, <2>6, <2>9, <2>10, <2>11 DEF v, x, q
<1> QED
    BY <1>2, <1>3

\* The slot of a lookup goes to the next job, which is waiting for it.
LEMMA ReleaseKeeps ==
    ASSUME LookupAssumption, NEW w, LookupGood(w), NEW l \in TalkingIn(w)
    PROVE  /\ LookupGood(Release(w, l))
           /\ IF w.jobs = <<>>
              THEN TalkingIn(Release(w, l)) = TalkingIn(w) \ {l} /\ Release(w, l).jobs = <<>>
              ELSE /\ TalkingIn(Release(w, l)) = (TalkingIn(w) \ {l}) \cup {Head(w.jobs)}
                   /\ Release(w, l).jobs = Tail(w.jobs)
           /\ \A o \in Lookups : Release(w, l).lookup[o].answer =
                  IF o = l /\ w.lookup[l].answer = "none" THEN "denied" ELSE w.lookup[o].answer
<1> DEFINE f == Finish(w, l, "denied")
           x == f.lookup[l]
           half == [x EXCEPT !.step = "idle"]
           r == [half EXCEPT !.config = 0]
           done == [f EXCEPT !.lookup[l].step = "idle", !.lookup[l].config = 0, !.lookups = f.lookups - 1]
           v == Release(w, l)
<1>1. l \in Lookups /\ w.lookup[l].step \in {"connecting", "executing", "ending"}
    BY DEF TalkingIn
<1>2. /\ LookupGood(f) /\ TalkingIn(f) = TalkingIn(w) /\ f.lookups = w.lookups /\ f.jobs = w.jobs
      /\ x.step = w.lookup[l].step
      /\ x.answer = IF w.lookup[l].answer = "none" THEN "denied" ELSE w.lookup[l].answer
      /\ \A o \in Lookups \ {l} : f.lookup[o] = w.lookup[o]
    BY <1>1, FinishKeeps
<1>3. v = IF done.jobs = <<>> THEN done ELSE Run([done EXCEPT !.jobs = Tail(done.jobs)], Head(done.jobs))
    BY DEF Release
<1> HIDE DEF f
<1>4. /\ f.lookup \in [Lookups -> Lookup] /\ f.lookups \in 0..MaxLookups /\ f.jobs \in Seq(Lookups)
      /\ f = [lookup |-> f.lookup, lookups |-> f.lookups, jobs |-> f.jobs]
      /\ x \in Lookup /\ IsInjective(f.jobs)
    BY <1>1, <1>2, TypedFields DEF LookupGood
<1>5. half \in Lookup /\ half.step = "idle" /\ half.answer = x.answer
    BY <1>4 DEF Lookup, Steps
<1>6. r \in Lookup /\ r.step = "idle" /\ r.answer = x.answer /\ r.answer # "none"
    <2>1. x.answer # "none"
        BY <1>2
    <2> HIDE DEF half, x
    <2> QED
        BY <1>5, <2>1 DEF Lookup, Configs
<1>7. done = [lookup |-> [f.lookup EXCEPT ![l] = r], lookups |-> f.lookups - 1, jobs |-> f.jobs]
    <2> DEFINE b == [f EXCEPT !.lookup[l].step = "idle"]
               c == [b EXCEPT !.lookup[l].config = 0]
    <2>1. done = [c EXCEPT !.lookups = f.lookups - 1]
        BY Zenon
    <2>2. b = [lookup |-> [f.lookup EXCEPT ![l] = half], lookups |-> f.lookups, jobs |-> f.jobs]
        BY <1>4
    <2> HIDE DEF b, half, done
    <2>3. c = [lookup |-> [f.lookup EXCEPT ![l] = r], lookups |-> f.lookups, jobs |-> f.jobs]
        <3>1. c = [lookup |-> [[f.lookup EXCEPT ![l] = half] EXCEPT ![l].config = 0],
                   lookups |-> f.lookups, jobs |-> f.jobs]
            BY <2>2
        <3>2. [[f.lookup EXCEPT ![l] = half] EXCEPT ![l].config = 0] = [f.lookup EXCEPT ![l] = r]
            BY <1>1, <1>4
        <3> QED
            BY <3>1, <3>2
    <2> HIDE DEF c, r
    <2> QED
        BY <2>1, <2>3
<1>8. /\ done.lookup = [f.lookup EXCEPT ![l] = r] /\ done.lookups = w.lookups - 1 /\ done.jobs = w.jobs
    BY <1>2, <1>7
<1> HIDE DEF half, r, x, done, v
<1>9. /\ done.lookup \in [Lookups -> Lookup] /\ done.lookup[l] = r
      /\ \A o \in Lookups \ {l} : done.lookup[o] = f.lookup[o] /\ done.lookup[o] = w.lookup[o]
    BY <1>1, <1>2, <1>4, <1>6, <1>8
<1>10. TalkingIn(done) = TalkingIn(w) \ {l}
    BY <1>6, <1>9 DEF TalkingIn
<1>11. /\ IsFiniteSet(TalkingIn(done)) /\ Cardinality(TalkingIn(done)) = w.lookups - 1
       /\ w.lookups \in 0..MaxLookups /\ w.lookups - 1 \in 0..MaxLookups
    <2>1. IsFiniteSet(TalkingIn(w)) /\ w.lookups = Cardinality(TalkingIn(w)) /\ w.lookups \in 0..MaxLookups
        BY <1>2, <1>4 DEF LookupGood
    <2>2. IsFiniteSet(TalkingIn(done)) /\ Cardinality(TalkingIn(done)) = Cardinality(TalkingIn(w)) - 1
        BY <1>10, <2>1, FS_RemoveElement
    <2>3. Cardinality(TalkingIn(done)) \in Nat
        BY <2>2, FS_CardinalityType
    <2> QED
        BY <2>1, <2>2, <2>3, LookupAssumption DEF LookupAssumption
<1>12. \A o \in Lookups : done.lookup[o].answer =
                  IF o = l /\ w.lookup[l].answer = "none" THEN "denied" ELSE w.lookup[o].answer
    BY <1>2, <1>6, <1>9 DEF x
<1>13. \A o \in Lookups : o \in Range(w.jobs) <=> done.lookup[o].step = "queued"
    BY <1>1, <1>6, <1>9 DEF LookupGood
<1>14. /\ \A o \in Lookups : done.lookup[o].answer = "none" => done.lookup[o].step # "idle"
       /\ \A o \in Lookups : done.lookup[o].step = "queued" => done.lookup[o].answer = "none"
    BY <1>6, <1>9 DEF LookupGood
<1>15. LookupTyped(done)
    <2>1. done = [lookup |-> done.lookup, lookups |-> done.lookups, jobs |-> done.jobs]
        BY <1>7, <1>8
    <2>2. done.lookups \in 0..MaxLookups /\ done.jobs \in Seq(Lookups)
        BY <1>2, <1>4, <1>8, <1>11
    <2> QED
        BY <1>9, <2>1, <2>2 DEF LookupTyped
<1>16. CASE w.jobs = <<>>
    <2>1. v = done
        BY <1>3, <1>8, <1>16
    <2>2. LookupGood(done)
        BY <1>2, <1>4, <1>8, <1>11, <1>13, <1>14, <1>15, <1>16 DEF LookupGood
    <2> QED
        BY <1>8, <1>10, <1>12, <1>16, <2>1, <2>2 DEF v
<1>17. CASE w.jobs # <<>>
    <2> DEFINE h == Head(w.jobs)
               q == Tail(w.jobs)
               y == done.lookup[h]
               s == [y EXCEPT !.step = "connecting"]
    <2>1. /\ h \in Lookups /\ h \in Range(w.jobs) /\ q \in Seq(Lookups) /\ IsInjective(q)
          /\ Range(q) = Range(w.jobs) \ {h}
        BY <1>2, <1>4, <1>17, TailRange
    <2>2. y.step = "queued" /\ y.answer = "none" /\ h # l /\ y \in Lookup
        BY <1>1, <1>6, <1>9, <1>13, <1>14, <2>1
    <2>3. v = [lookup |-> [done.lookup EXCEPT ![h] = s], lookups |-> w.lookups, jobs |-> q]
        <3> DEFINE u == [done EXCEPT !.jobs = q]
        <3>1. v = Run(u, h)
            BY <1>3, <1>8, <1>17
        <3>2. u.lookup = done.lookup /\ u.lookups = w.lookups - 1 /\ u.jobs = q
              /\ u = [lookup |-> done.lookup, lookups |-> w.lookups - 1, jobs |-> q]
            <4>1. done = [lookup |-> done.lookup, lookups |-> w.lookups - 1, jobs |-> w.jobs]
                BY <1>7, <1>8
            <4> HIDE DEF q
            <4> QED
                BY <4>1
        <3> HIDE DEF u, q, h
        <3>3. u.lookup[h].answer = "none"
            BY <2>2, <3>2
        <3>4. v = [u EXCEPT !.lookup[h].step = "connecting", !.lookups = u.lookups + 1]
            BY <3>1, <3>3 DEF Run
        <3>5. w.lookups - 1 + 1 = w.lookups
            BY <1>11
        <3> QED
            BY <3>2, <3>4, <3>5
    <2>4. s \in Lookup /\ s.step = "connecting" /\ s.answer = "none"
        <3> HIDE DEF y
        <3> QED
            BY <2>2 DEF Lookup, Steps
    <2>5. v.lookup = [done.lookup EXCEPT ![h] = s] /\ v.lookups = w.lookups /\ v.jobs = q
        BY <2>3
    <2> HIDE DEF h, q, s
    <2>6. /\ v.lookup \in [Lookups -> Lookup] /\ v.lookup[h] = s
          /\ \A o \in Lookups \ {h} : v.lookup[o] = done.lookup[o]
        BY <1>9, <2>1, <2>4, <2>5
    <2>7. TalkingIn(v) = TalkingIn(done) \cup {h} /\ h \notin TalkingIn(done)
        BY <2>1, <2>2, <2>4, <2>6 DEF TalkingIn
    <2>8. IsFiniteSet(TalkingIn(v)) /\ Cardinality(TalkingIn(v)) = w.lookups
        <3>1. /\ IsFiniteSet(TalkingIn(v))
              /\ Cardinality(TalkingIn(v)) = Cardinality(TalkingIn(done)) + 1
            BY <1>11, <2>7, FS_AddElement
        <3> QED
            BY <1>11, <3>1
    <2>9. LookupTyped(v)
        BY <1>11, <2>1, <2>3, <2>5, <2>6 DEF LookupTyped
    <2>10. \A o \in Lookups : o \in Range(q) <=> v.lookup[o].step = "queued"
        BY <1>13, <2>1, <2>4, <2>6
    <2>11. /\ \A o \in Lookups : v.lookup[o].answer = "none" => v.lookup[o].step # "idle"
           /\ \A o \in Lookups : v.lookup[o].step = "queued" => v.lookup[o].answer = "none"
        BY <1>14, <2>4, <2>6
    <2>12. w.lookups = MaxLookups
        BY <1>17 DEF LookupGood
    <2>13. LookupGood(v)
        BY <2>1, <2>5, <2>8, <2>9, <2>10, <2>11, <2>12 DEF LookupGood
    <2>14. \A o \in Lookups : v.lookup[o].answer = done.lookup[o].answer
        BY <2>2, <2>4, <2>6
    <2> QED
        BY <1>10, <1>12, <1>17, <2>5, <2>7, <2>13, <2>14 DEF v, h, q
<1> QED
    BY <1>16, <1>17

-----------------------------------------------------------------------------
\* What an action does to the slots and the queue, as BoundedPool sees it.
Stays == jobs' = jobs /\ Talking' = Talking

\* What it may answer.
Current ==
    \A l \in Lookups :
        (lookup[l].answer = "none" /\ lookup'[l].answer \in Addresses) =>
            lookup'[l].answer \in listed /\ config = lookup[l].config

LEMMA ResolverFields ==
    ASSUME LookupInv
    PROVE  /\ World.lookup = lookup /\ World.lookups = lookups /\ World.jobs = jobs
           /\ lookup \in [Lookups -> Lookup] /\ lookups \in 0..MaxLookups /\ jobs \in Seq(Lookups)
           /\ IsInjective(jobs) /\ LookupGood(World) /\ TalkingIn(World) = Talking
           /\ \A l \in Lookups : l \in Range(jobs) <=> lookup[l].step = "queued"
           /\ \A l \in Lookups : lookup[l].answer = "none" => lookup[l].step # "idle"
           /\ \A l \in Lookups : lookup[l].step = "queued" => lookup[l].answer = "none"
           /\ jobs # <<>> => lookups = MaxLookups
           /\ IsFiniteSet(Talking) /\ lookups = Cardinality(Talking)
<1>1. World.lookup = lookup /\ World.lookups = lookups /\ World.jobs = jobs
    BY DEF World
<1>2. TalkingIn(World) = Talking
    BY <1>1 DEF TalkingIn, Talking
<1> QED
    BY <1>1, <1>2, TypedFields DEF LookupInv, LookupGood

\* A lookup that changes in place.
LEMMA JobStepKeeps ==
    ASSUME LookupAssumption, LookupInv, NEW l \in Lookups, NEW r \in Lookup,
           lookup' = [lookup EXCEPT ![l] = r], lookups' = lookups, jobs' = jobs,
           UNCHANGED <<config, listed>>, lookup[l].step # "queued", r.step # "queued",
           r.step \in {"connecting", "executing", "ending"} <=>
               lookup[l].step \in {"connecting", "executing", "ending"},
           r.answer = "none" => r.step # "idle"
    PROVE  LookupInv' /\ Stays
<1> DEFINE v == [lookup |-> [World.lookup EXCEPT ![l] = r], lookups |-> World.lookups, jobs |-> jobs]
<1>1. l \notin Range(jobs)
    BY ResolverFields
<1>2. LookupGood(v) /\ TalkingIn(v) = Talking
    <2>1. /\ LookupGood(World) /\ jobs \in Seq(Lookups) /\ IsInjective(jobs) /\ World.lookup = lookup
          /\ World.jobs = jobs /\ (jobs # <<>> => World.lookups = MaxLookups)
          /\ TalkingIn(World) = Talking
        BY ResolverFields
    <2> HIDE DEF v
    <2>2. v = [lookup |-> [World.lookup EXCEPT ![l] = r], lookups |-> World.lookups, jobs |-> jobs]
        BY DEF v
    <2> QED
        BY <1>1, <2>1, <2>2, JobChangeKeeps
<1>3. v.lookup = lookup' /\ v.lookups = lookups' /\ v.jobs = jobs'
    BY ResolverFields
<1>4. LookupBecomes(v)
    BY <1>3 DEF LookupBecomes
<1> HIDE DEF v
<1>5. Talking' = TalkingIn(v)
    BY <1>3 DEF Talking, TalkingIn
<1> QED
    BY <1>2, <1>4, <1>5, JobBecomesKeeps DEF Stays

LEMMA ResolveDirectlyKeeps ==
    ASSUME LookupAssumption, LookupInv, NEW l \in Lookups, NEW answer \in Addresses \cup {"denied"},
           ResolveDirectly(l, answer)
    PROVE  LookupInv' /\ Stays /\ Current
<1> DEFINE r == [NoLookup EXCEPT !.answer = answer]
<1>1. r = [step |-> "idle", config |-> 0, answer |-> answer]
    BY DEF NoLookup
<1>2. /\ lookup' = [lookup EXCEPT ![l] = r] /\ lookups' = lookups /\ jobs' = jobs
      /\ UNCHANGED <<config, listed>>
    BY DEF ResolveDirectly, LookupBecomes, World
<1> HIDE DEF r
<1>3. r \in Lookup /\ r.step = "idle" /\ r.answer = answer /\ r.answer # "none"
    BY <1>1, LookupAssumption DEF Lookup, Steps, Configs, LookupAssumption
<1>4. lookup[l].step = "idle" /\ lookup[l].answer # "none"
    BY ResolverFields DEF ResolveDirectly
<1>5. LookupInv' /\ Stays
    BY <1>2, <1>3, <1>4, JobStepKeeps
<1>6. Current
    BY <1>2, <1>4, ResolverFields, LookupAssumption DEF Current, LookupAssumption
<1> QED
    BY <1>5, <1>6

LEMMA ConnectedKeeps ==
    ASSUME LookupAssumption, LookupInv, NEW l \in Lookups, Connected(l) \/ SshFails(l)
    PROVE  LookupInv' /\ Stays /\ Current
<1> DEFINE r(step) == [lookup[l] EXCEPT !.step = step]
<1>1. /\ lookup[l] \in Lookup /\ lookup \in [Lookups -> Lookup]
      /\ lookup[l].step \in {"connecting", "executing"}
    BY ResolverFields DEF Connected, SshFails
<1>2. PICK step \in {"executing", "ending"} :
        /\ lookup' = [lookup EXCEPT ![l] = r(step)] /\ lookups' = lookups /\ jobs' = jobs
        /\ UNCHANGED <<config, listed>>
    <2>1. CASE Connected(l)
        BY <2>1 DEF Connected, LookupBecomes, World
    <2>2. CASE SshFails(l)
        BY <2>2 DEF SshFails, LookupBecomes, World
    <2> QED
        BY <2>1, <2>2
<1>3. r(step) \in Lookup /\ r(step).step = step /\ r(step).answer = lookup[l].answer
    BY <1>1 DEF Lookup, Steps
<1> HIDE DEF r
<1>4. LookupInv' /\ Stays
    BY <1>1, <1>2, <1>3, JobStepKeeps
<1>5. \A o \in Lookups : lookup'[o].answer = lookup[o].answer
    BY <1>1, <1>2, <1>3
<1>6. Current
    BY <1>5, LookupAssumption DEF Current, LookupAssumption
<1> QED
    BY <1>4, <1>6

\* A lookup that is asked for takes a slot, or a place in the queue.
LEMMA ResolveKeeps ==
    ASSUME LookupAssumption, LookupInv, NEW l \in Lookups, Resolve(l)
    PROVE  /\ LookupInv' /\ Current
           /\ \/ /\ lookups < MaxLookups /\ jobs' = jobs /\ Talking' = Talking \cup {l}
              \/ /\ lookups = MaxLookups /\ Len(jobs) < MaxWaiting
                 /\ jobs' = Append(jobs, l) /\ Talking' = Talking
<1> DEFINE x == [step |-> "idle", config |-> config, answer |-> "none"]
           asked == [World EXCEPT !.lookup[l] = [NoLookup EXCEPT !.config = config, !.answer = "none"]]
           r(step) == [step |-> step, config |-> config, answer |-> "none"]
<1>1. /\ lookup[l].step = "idle" /\ config \in Configs /\ l \notin Range(jobs) /\ l \notin Talking
      /\ lookup[l].answer # "none" /\ lookup \in [Lookups -> Lookup] /\ lookups \in 0..MaxLookups
      /\ MaxLookups \in Nat \ {0}
    BY ResolverFields DEF Resolve, LookupInv, Talking, LookupAssumption
<1>2. [NoLookup EXCEPT !.config = config, !.answer = "none"] = x
    <2> DEFINE half == [NoLookup EXCEPT !.config = config]
    <2>1. [NoLookup EXCEPT !.config = config, !.answer = "none"] = [half EXCEPT !.answer = "none"]
        BY Zenon
    <2>2. half = [step |-> "idle", config |-> config, answer |-> "denied"]
        BY DEF NoLookup
    <2> HIDE DEF half
    <2>3. [half EXCEPT !.answer = "none"] = x
        BY <2>2
    <2> QED
        BY <2>1, <2>3
<1>3. asked = [lookup |-> [lookup EXCEPT ![l] = x], lookups |-> lookups, jobs |-> jobs]
    BY <1>2 DEF World
<1>4. /\ UNCHANGED <<config, listed>> /\ (lookups < MaxLookups \/ Len(jobs) < MaxWaiting)
      /\ LookupBecomes(IF lookups < MaxLookups THEN Run(asked, l)
                 ELSE [asked EXCEPT !.lookup[l].step = "queued", !.jobs = Append(jobs, l)])
    BY DEF Resolve, LookupBecomes, World
<1>5. \A step \in Steps : r(step) \in Lookup
    BY <1>1 DEF Lookup, Configs
<1>6. \A step \in Steps :
          [[lookup EXCEPT ![l] = x] EXCEPT ![l].step = step] = [lookup EXCEPT ![l] = r(step)]
    <2>1. \A step \in Steps : [x EXCEPT !.step = step] = r(step)
        OBVIOUS
    <2> HIDE DEF x, r
    <2>2. \A step \in Steps : [[lookup EXCEPT ![l] = x] EXCEPT ![l].step = step]
                                 = [lookup EXCEPT ![l] = [x EXCEPT !.step = step]]
        BY <1>1
    <2> QED
        BY <2>1, <2>2
<1>7. asked.lookup[l].answer = "none"
    BY <1>1, <1>3
<1> HIDE DEF asked, x
<1>8. CASE lookups < MaxLookups
    <2> DEFINE v == Run(asked, l)
    <2>1. v = [asked EXCEPT !.lookup[l].step = "connecting", !.lookups = asked.lookups + 1]
        BY <1>7 DEF Run
    <2>2. v = [lookup |-> [lookup EXCEPT ![l] = r("connecting")], lookups |-> lookups + 1, jobs |-> jobs]
        <3> DEFINE a == [asked EXCEPT !.lookup[l].step = "connecting"]
        <3>1. v = [a EXCEPT !.lookups = asked.lookups + 1]
            BY <2>1, Zenon
        <3> HIDE DEF r
        <3>2. a = [lookup |-> [lookup EXCEPT ![l] = r("connecting")], lookups |-> lookups, jobs |-> jobs]
            BY <1>3, <1>6 DEF Steps
        <3>3. asked.lookups = lookups
            BY <1>3
        <3> HIDE DEF a
        <3> QED
            BY <3>1, <3>2, <3>3
    <2>3. LookupBecomes(v)
        BY <1>4, <1>8
    <2> HIDE DEF v
    <2>4. v.lookup = [lookup EXCEPT ![l] = r("connecting")] /\ v.lookups = lookups + 1 /\ v.jobs = jobs
        BY <2>2
    <2>5. /\ v.lookup \in [Lookups -> Lookup] /\ v.lookup[l] = r("connecting")
          /\ \A o \in Lookups \ {l} : v.lookup[o] = lookup[o]
        BY <1>1, <1>5, <2>4 DEF Steps
    <2>6. TalkingIn(v) = Talking \cup {l}
        BY <2>5 DEF TalkingIn, Talking
    <2>7. /\ IsFiniteSet(TalkingIn(v)) /\ Cardinality(TalkingIn(v)) = lookups + 1
          /\ lookups + 1 \in 0..MaxLookups
        BY <1>1, <1>8, <2>6, ResolverFields, FS_AddElement
    <2>8. jobs = <<>>
        BY <1>1, <1>8, ResolverFields
    <2>9. LookupTyped(v)
        BY <2>2, <2>4, <2>5, <2>7, ResolverFields DEF LookupTyped
    <2>10. \A o \in Lookups : o \in Range(jobs) <=> v.lookup[o].step = "queued"
        BY <1>1, <2>5, ResolverFields
    <2>11. /\ \A o \in Lookups : v.lookup[o].answer = "none" => v.lookup[o].step # "idle"
           /\ \A o \in Lookups : v.lookup[o].step = "queued" => v.lookup[o].answer = "none"
        BY <2>5, ResolverFields
    <2>12. LookupGood(v)
        BY <2>4, <2>7, <2>8, <2>9, <2>10, <2>11, ResolverFields DEF LookupGood
    <2>13. lookup' = v.lookup /\ jobs' = v.jobs
        BY <2>3 DEF LookupBecomes
    <2>14. Talking' = Talking \cup {l}
        BY <2>6, <2>13 DEF Talking, TalkingIn
    <2>15. Current
        BY <1>1, <2>5, <2>13, LookupAssumption DEF Current, LookupAssumption
    <2> QED
        BY <1>8, <2>3, <2>4, <2>12, <2>13, <2>14, <2>15, JobBecomesKeeps
<1>9. CASE ~(lookups < MaxLookups)
    <2> DEFINE q == Append(jobs, l)
               v == [asked EXCEPT !.lookup[l].step = "queued", !.jobs = q]
    <2>1. LookupBecomes(v) /\ Len(jobs) < MaxWaiting /\ lookups = MaxLookups
        BY <1>1, <1>4, <1>9
    <2>2. v = [lookup |-> [lookup EXCEPT ![l] = r("queued")], lookups |-> lookups, jobs |-> q]
        <3> DEFINE a == [asked EXCEPT !.lookup[l].step = "queued"]
        <3>1. v = [a EXCEPT !.jobs = q]
            BY Zenon
        <3> HIDE DEF r, q
        <3>2. a = [lookup |-> [lookup EXCEPT ![l] = r("queued")], lookups |-> lookups, jobs |-> jobs]
            BY <1>3, <1>6 DEF Steps
        <3> HIDE DEF a
        <3> QED
            BY <3>1, <3>2
    <2>3. q \in Seq(Lookups) /\ IsInjective(q) /\ Range(q) = Range(jobs) \cup {l}
        BY <1>1, ResolverFields, AppendRange, AppendProperties
    <2> HIDE DEF v, q
    <2>4. LookupGood(v) /\ TalkingIn(v) = Talking
        <3>1. v = [lookup |-> [World.lookup EXCEPT ![l] = r("queued")], lookups |-> World.lookups, jobs |-> q]
            BY <2>2, ResolverFields
        <3>2. r("queued") \in Lookup /\ r("queued").step = "queued" /\ r("queued").answer = "none"
            BY <1>5 DEF Steps
        <3> HIDE DEF r
        <3>3. /\ World.jobs = jobs /\ World.lookup[l].step = "idle" /\ World.lookups = MaxLookups
              /\ LookupGood(World) /\ TalkingIn(World) = Talking
            BY <1>1, <2>1, ResolverFields
        <3>4. Range(q) \ {l} = Range(World.jobs) \ {l} /\ l \in Range(q)
            BY <2>3, <3>3
        <3> QED
            BY <2>3, <3>1, <3>2, <3>3, <3>4, JobChangeKeeps
    <2>5. lookup' = [lookup EXCEPT ![l] = r("queued")] /\ jobs' = q /\ lookup' = v.lookup
        BY <2>1, <2>2 DEF LookupBecomes
    <2>6. Talking' = Talking
        BY <2>4, <2>5 DEF Talking, TalkingIn
    <2>7. Current
        BY <1>1, <2>5, LookupAssumption DEF Current, LookupAssumption
    <2> QED
        BY <2>1, <2>4, <2>5, <2>6, <2>7, JobBecomesKeeps DEF q
<1> QED
    BY <1>8, <1>9

\* cancel()
LEMMA CancelKeeps ==
    ASSUME LookupAssumption, LookupInv, NEW l \in Lookups, Cancel(l)
    PROVE  /\ LookupInv' /\ Current
           /\ \/ Stays
              \/ l \in Range(jobs) /\ jobs' = RemoveFirst(jobs, l) /\ Talking' = Talking
<1> DEFINE w == Finish(World, l, "denied")
           r == [w.lookup[l] EXCEPT !.step = "ending"]
           v == [w EXCEPT !.lookup[l].step = "ending"]
<1>1. /\ lookup[l].answer = "none" /\ lookup[l].step # "idle" /\ lookup[l] \in Lookup
      /\ LookupBecomes(IF w.lookup[l].step = "idle" THEN w ELSE v)
    BY ResolverFields DEF Cancel
<1>2. /\ LookupGood(w) /\ TalkingIn(w) = TalkingIn(World) /\ w.lookups = World.lookups
      /\ w.jobs = IF World.lookup[l].step = "queued" THEN RemoveFirst(World.jobs, l) ELSE World.jobs
      /\ w.lookup[l].step = IF World.lookup[l].step = "queued" THEN "idle" ELSE World.lookup[l].step
      /\ w.lookup[l].answer = IF World.lookup[l].answer = "none" THEN "denied" ELSE World.lookup[l].answer
      /\ \A o \in Lookups \ {l} : w.lookup[o] = World.lookup[o]
    BY ResolverFields, FinishKeeps
<1> HIDE DEF w
<1>3. CASE lookup[l].step = "queued"
    <2>1. /\ LookupBecomes(w) /\ l \in Range(jobs) /\ w.jobs = RemoveFirst(jobs, l)
          /\ w.lookup[l].answer = "denied" /\ TalkingIn(w) = Talking
          /\ \A o \in Lookups \ {l} : w.lookup[o] = lookup[o]
        BY <1>1, <1>2, <1>3, ResolverFields
    <2>2. lookup' = w.lookup /\ jobs' = w.jobs /\ Talking' = Talking
        BY <2>1 DEF LookupBecomes, Talking, TalkingIn
    <2>3. Current
        BY <2>1, <2>2, LookupAssumption DEF Current, LookupAssumption
    <2> QED
        BY <1>2, <2>1, <2>2, <2>3, JobBecomesKeeps
<1>4. CASE lookup[l].step # "queued"
    <2>1. /\ LookupBecomes(v) /\ l \notin Range(jobs) /\ w.jobs = jobs
          /\ w.lookup[l].answer = "denied" /\ TalkingIn(w) = Talking /\ w.lookup[l].step = lookup[l].step
          /\ \A o \in Lookups \ {l} : w.lookup[o] = lookup[o]
        BY <1>1, <1>2, <1>4, ResolverFields
    <2>2. /\ lookup[l].step \in {"connecting", "executing", "ending"}
        BY <1>1, <1>4 DEF Lookup, Steps
    <2>3. /\ w = [lookup |-> w.lookup, lookups |-> w.lookups, jobs |-> w.jobs]
          /\ w.lookup \in [Lookups -> Lookup] /\ w.lookup[l] \in Lookup
        BY <1>2, TypedFields DEF LookupGood
    <2>4. r \in Lookup /\ r.step = "ending" /\ r.answer = "denied"
        BY <2>1, <2>3 DEF Lookup, Steps
    <2>5. v = [lookup |-> [w.lookup EXCEPT ![l] = r], lookups |-> w.lookups, jobs |-> jobs]
        <3>1. v = [w EXCEPT !.lookup = [w.lookup EXCEPT ![l] = r]]
            BY <2>3
        <3> HIDE DEF r
        <3> QED
            BY <2>1, <2>3, <3>1
    <2> HIDE DEF r, v
    <2>6. LookupGood(v) /\ TalkingIn(v) = Talking
        <3>1. /\ jobs \in Seq(Lookups) /\ IsInjective(jobs) /\ (jobs # <<>> => w.lookups = MaxLookups)
            BY <1>2, ResolverFields
        <3> QED
            BY <1>2, <2>1, <2>2, <2>4, <2>5, <3>1, JobChangeKeeps
    <2>7. lookup' = [w.lookup EXCEPT ![l] = r] /\ jobs' = jobs /\ lookup' = v.lookup
        BY <2>1, <2>5 DEF LookupBecomes
    <2>8. Talking' = Talking
        BY <2>6, <2>7 DEF Talking, TalkingIn
    <2>9. Current
        BY <2>1, <2>3, <2>4, <2>7, LookupAssumption DEF Current, LookupAssumption
    <2> QED
        BY <2>1, <2>6, <2>7, <2>8, <2>9, JobBecomesKeeps DEF Stays
<1> QED
    BY <1>3, <1>4

\* The slot of l goes to the next in the queue, if there is one.
PassesOn(l) ==
    /\ l \in Talking
    /\ IF jobs = <<>>
       THEN Talking' = Talking \ {l} /\ jobs' = jobs
       ELSE Talking' = (Talking \ {l}) \cup {Head(jobs)} /\ jobs' = Tail(jobs)

LEMMA LookupEndedKeeps ==
    ASSUME LookupAssumption, LookupInv, NEW l \in Lookups, Ended(l)
    PROVE  LookupInv' /\ Current /\ PassesOn(l)
<1> DEFINE v == Release(World, l)
<1>1. l \in TalkingIn(World) /\ LookupBecomes(v)
    BY ResolverFields DEF Ended, TalkingIn
<1>2. /\ LookupGood(v)
      /\ IF World.jobs = <<>>
         THEN TalkingIn(v) = TalkingIn(World) \ {l} /\ v.jobs = <<>>
         ELSE TalkingIn(v) = (TalkingIn(World) \ {l}) \cup {Head(World.jobs)} /\ v.jobs = Tail(World.jobs)
      /\ \A o \in Lookups : v.lookup[o].answer =
            IF o = l /\ World.lookup[l].answer = "none" THEN "denied" ELSE World.lookup[o].answer
    BY <1>1, ResolverFields, ReleaseKeeps
<1> HIDE DEF v
<1>3. lookup' = v.lookup /\ jobs' = v.jobs
    BY <1>1 DEF LookupBecomes
<1>4. Talking' = TalkingIn(v)
    BY <1>3 DEF Talking, TalkingIn
<1>5. PassesOn(l)
    BY <1>1, <1>2, <1>3, <1>4, ResolverFields DEF PassesOn
<1>6. Current
    BY <1>2, <1>3, ResolverFields, LookupAssumption DEF Current, LookupAssumption
<1> QED
    BY <1>1, <1>2, <1>5, <1>6, JobBecomesKeeps

LEMMA ExecutedKeeps ==
    ASSUME LookupAssumption, LookupInv, NEW l \in Lookups, NEW origin \in Addresses \cup {"denied"},
           Executed(l, origin)
    PROVE  LookupInv' /\ Current /\ PassesOn(l)
<1> DEFINE valid == config = lookup[l].config /\ origin \in listed
           answer == IF valid THEN origin ELSE "denied"
           w == Finish(World, l, answer)
           v == Release(w, l)
<1>1. lookup[l].step = "executing" /\ LookupBecomes(v) /\ answer \in Addresses \cup {"denied"}
    BY DEF Executed
<1>2. answer \in Addresses => answer \in listed /\ config = lookup[l].config
    BY LookupAssumption DEF LookupAssumption
<1> HIDE DEF answer
<1>3. /\ LookupGood(w) /\ TalkingIn(w) = TalkingIn(World) /\ w.lookups = World.lookups
      /\ w.jobs = IF World.lookup[l].step = "queued" THEN RemoveFirst(World.jobs, l) ELSE World.jobs
      /\ w.lookup[l].answer = IF World.lookup[l].answer = "none" THEN answer ELSE World.lookup[l].answer
      /\ \A o \in Lookups \ {l} : w.lookup[o] = World.lookup[o]
    BY <1>1, ResolverFields, FinishKeeps
<1> HIDE DEF w
<1>4. /\ TalkingIn(w) = Talking /\ w.jobs = jobs /\ l \in TalkingIn(w)
      /\ w.lookup[l].answer = IF lookup[l].answer = "none" THEN answer ELSE lookup[l].answer
      /\ \A o \in Lookups \ {l} : w.lookup[o] = lookup[o]
    <2>1. l \in Talking
        BY <1>1 DEF Talking
    <2> QED
        BY <1>1, <1>3, <2>1, ResolverFields
<1>5. /\ LookupGood(v)
      /\ IF w.jobs = <<>>
         THEN TalkingIn(v) = TalkingIn(w) \ {l} /\ v.jobs = <<>>
         ELSE TalkingIn(v) = (TalkingIn(w) \ {l}) \cup {Head(w.jobs)} /\ v.jobs = Tail(w.jobs)
      /\ \A o \in Lookups : v.lookup[o].answer =
            IF o = l /\ w.lookup[l].answer = "none" THEN "denied" ELSE w.lookup[o].answer
    BY <1>3, <1>4, ReleaseKeeps
<1> HIDE DEF v
<1>6. lookup' = v.lookup /\ jobs' = v.jobs
    BY <1>1 DEF LookupBecomes
<1>7. Talking' = TalkingIn(v)
    BY <1>6 DEF Talking, TalkingIn
<1>8. PassesOn(l)
    BY <1>4, <1>5, <1>6, <1>7 DEF PassesOn
<1>9. Current
    BY <1>2, <1>4, <1>5, <1>6, LookupAssumption DEF Current, LookupAssumption
<1> QED
    BY <1>1, <1>5, <1>8, <1>9, JobBecomesKeeps

LEMMA EditKeeps ==
    ASSUME LookupAssumption, LookupInv, Edit
    PROVE  LookupInv' /\ Stays /\ Current
<1>1. lookup' = lookup /\ lookups' = lookups /\ jobs' = jobs
    BY DEF Edit
<1>2. LookupGood(World)'
    BY <1>1 DEF LookupInv, LookupGood, LookupTyped, TalkingIn, World
<1>3. Current
    BY <1>1, LookupAssumption DEF Current, LookupAssumption
<1>4. Stays
    BY <1>1 DEF Stays, Talking
<1> QED
    BY <1>2, <1>3, <1>4 DEF Edit, LookupInv

-----------------------------------------------------------------------------
LEMMA InitKeeps ==
    ASSUME LookupAssumption, LookupInit
    PROVE  LookupInv /\ Talking = {} /\ jobs = <<>>
<1>1. World = [lookup |-> [l \in Lookups |-> NoLookup], lookups |-> 0, jobs |-> <<>>]
    BY DEF LookupInit, World
<1>2. NoLookup \in Lookup /\ NoLookup.step = "idle" /\ NoLookup.answer = "denied"
    BY DEF NoLookup, Lookup, Steps, Configs
<1>3. World.lookup = [l \in Lookups |-> NoLookup] /\ World.lookups = 0 /\ World.jobs = <<>>
    BY <1>1
<1>4. TalkingIn(World) = {}
    BY <1>2, <1>3 DEF TalkingIn
<1>5. IsFiniteSet({}) /\ Cardinality({}) = 0
    BY FS_EmptySet
<1>6. LookupTyped(World)
    BY <1>1, <1>2, LookupAssumption DEF LookupTyped, LookupAssumption
<1>7. IsInjective(<<>>) /\ Range(<<>>) = {}
    BY DEF IsInjective, Range
<1>8. LookupGood(World)
    BY <1>2, <1>3, <1>4, <1>5, <1>6, <1>7 DEF LookupGood
<1>9. Talking = {}
    BY <1>3, <1>4 DEF Talking, TalkingIn, World
<1> QED
    BY <1>8, <1>9 DEF LookupInit, LookupInv, Configs

\* What a step does, action by action.
LEMMA NextKeeps ==
    ASSUME LookupAssumption, LookupInv, LookupNext
    PROVE  LookupInv' /\ Current
<1>1. ASSUME NEW l \in Lookups, NEW answer \in Addresses \cup {"denied"}, ResolveDirectly(l, answer)
      PROVE  LookupInv' /\ Current
    BY <1>1, ResolveDirectlyKeeps
<1>2. ASSUME NEW l \in Lookups, Resolve(l) PROVE LookupInv' /\ Current
    BY <1>2, ResolveKeeps
<1>3. ASSUME NEW l \in Lookups, Cancel(l) PROVE LookupInv' /\ Current
    BY <1>3, CancelKeeps
<1>4. ASSUME NEW l \in Lookups, Connected(l) \/ SshFails(l) PROVE LookupInv' /\ Current
    BY <1>4, ConnectedKeeps
<1>5. ASSUME NEW l \in Lookups, Ended(l) PROVE LookupInv' /\ Current
    BY <1>5, LookupEndedKeeps
<1>6. ASSUME NEW l \in Lookups, NEW origin \in Addresses \cup {"denied"}, Executed(l, origin)
      PROVE  LookupInv' /\ Current
    BY <1>6, ExecutedKeeps
<1>7. ASSUME Edit PROVE LookupInv' /\ Current
    BY <1>7, EditKeeps
<1> QED
    BY <1>1, <1>2, <1>3, <1>4, <1>5, <1>6, <1>7 DEF LookupNext

LEMMA StutterKeeps ==
    ASSUME LookupAssumption, LookupInv, UNCHANGED lookupVars
    PROVE  LookupInv' /\ Stays /\ Current
<1>1. lookup' = lookup /\ lookups' = lookups /\ jobs' = jobs /\ config' = config /\ listed' = listed
    BY DEF lookupVars
<1>2. LookupInv'
    BY <1>1 DEF LookupInv, LookupGood, LookupTyped, TalkingIn, World
<1> QED
    BY <1>1, <1>2, LookupAssumption DEF Stays, Talking, Current, LookupAssumption

\* The slots and the queue of the resolver are in balance, whatever is asked,
\* cancelled, answered or edited (jobs, active and finish in router/mqtt-source.ts).
THEOREM LookupInvariantHolds ==
    ASSUME LookupAssumption
    PROVE  LookupSpec => []LookupInv
<1>1. LookupInit => LookupInv
    BY InitKeeps
<1>2. LookupInv /\ [LookupNext]_lookupVars => LookupInv'
    BY NextKeeps, StutterKeeps
<1> QED
    BY <1>1, <1>2, PTL DEF LookupSpec

\* Every variable of the resolver keeps its type.
THEOREM LookupTypeCorrect ==
    ASSUME LookupAssumption
    PROVE  LookupSpec => []LookupTypeOK
<1>1. LookupInv => LookupTypeOK
    BY ResolverFields DEF LookupInv, LookupTypeOK
<1> QED
    BY <1>1, LookupInvariantHolds, PTL

\* A slot is held from the first SSH operation to the last, and the queue holds
\* exactly those who wait, while all slots are held (run() and its finally).
THEOREM LookupSlotsAreBalanced ==
    ASSUME LookupAssumption
    PROVE  LookupSpec => []LookupSlotsBalance
<1>1. LookupInv => LookupSlotsBalance
    <2> SUFFICES ASSUME LookupInv PROVE LookupSlotsBalance
        OBVIOUS
    <2>1. Range(jobs) \subseteq Lookups
        BY ResolverFields, LenProperties DEF Range
    <2>2. ToSet(jobs) = Range(jobs)
        BY DEF ToSet, Range
    <2>3. ToSet(jobs) = {l \in Lookups : lookup[l].step = "queued"}
        BY <2>1, <2>2, ResolverFields
    <2> QED
        BY <2>3, ResolverFields DEF LookupSlotsBalance
<1> QED
    BY <1>1, LookupInvariantHolds, PTL

\* An address that a lookup answers is listed at that moment, under the settings
\* the lookup was asked with (the test after exec() in resolve()).
THEOREM AnswersStayCurrent ==
    ASSUME LookupAssumption
    PROVE  LookupSpec => AnswersAreCurrent
<1>1. LookupInv /\ [LookupNext]_lookupVars => [Current]_lookupVars
    BY NextKeeps, StutterKeeps
<1> QED
    BY <1>1, LookupInvariantHolds, PTL DEF LookupSpec, AnswersAreCurrent, Current

-----------------------------------------------------------------------------
\* Who waits in the pool is who is in the queue.
LEMMA WaitingIsQueued ==
    ASSUME LookupInv, NEW l \in Lookups
    PROVE  LookupPool!Waiting(l) <=> l \in Range(jobs)
BY ResolverFields, LenProperties DEF LookupPool!Waiting, Range

\* Both modules count and remove in the same way.
LEMMA SameCount ==
    ASSUME NEW S
    PROVE  LookupPool!Cardinality(S) = Cardinality(S)
BY DEF Cardinality, LookupPool!Cardinality

LEMMA SameRemoval ==
    ASSUME NEW s, NEW e
    PROVE  LookupPool!RemoveFirst(s, e) = RemoveFirst(s, e)
BY DEF RemoveFirst, RemoveAt, SelectInSeq, LookupPool!RemoveFirst, LookupPool!RemoveAt, LookupPool!SelectInSeq,
   Min, LookupPool!Min

LEMMA StayIsStutter ==
    ASSUME Stays
    PROVE  UNCHANGED LookupPool!poolVars
BY DEF Stays, LookupPool!poolVars

LEMMA PassesOnIsEnd ==
    ASSUME NEW l \in Lookups, PassesOn(l)
    PROVE  LookupPool!Ends(l)
BY DEF PassesOn, LookupPool!Ends

LEMMA ResolveIsPoolStep ==
    ASSUME LookupAssumption, LookupInv, NEW l \in Lookups, Resolve(l)
    PROVE  LookupPool!Starts(l) \/ LookupPool!Queues(l)
<1>1. lookup[l].step = "idle" /\ l \notin Talking /\ l \notin Range(jobs)
    BY ResolverFields DEF Resolve, Talking
<1>2. LookupPool!Idle(l)
    BY <1>1, WaitingIsQueued DEF LookupPool!Idle
<1>3. CASE lookups < MaxLookups /\ jobs' = jobs /\ Talking' = Talking \cup {l}
    BY <1>2, <1>3, ResolverFields, SameCount DEF LookupPool!Starts
<1>4. CASE lookups = MaxLookups /\ Len(jobs) < MaxWaiting /\ jobs' = Append(jobs, l) /\ Talking' = Talking
    BY <1>2, <1>4, ResolverFields, SameCount DEF LookupPool!Queues
<1> QED
    BY <1>3, <1>4, ResolveKeeps

LEMMA CancelIsPoolStep ==
    ASSUME LookupAssumption, LookupInv, NEW l \in Lookups, Cancel(l)
    PROVE  Stays \/ LookupPool!GivesUp(l)
BY CancelKeeps, WaitingIsQueued, SameRemoval DEF LookupPool!GivesUp

LEMMA StepIsPoolStep ==
    ASSUME LookupAssumption, LookupInv, [LookupNext]_lookupVars
    PROVE  [LookupPool!PoolNext]_(LookupPool!poolVars)
<1>1. ASSUME NEW l \in Lookups,
             LookupPool!Starts(l) \/ LookupPool!Queues(l) \/ LookupPool!Ends(l) \/ LookupPool!GivesUp(l)
      PROVE  LookupPool!PoolNext
    BY <1>1 DEF LookupPool!PoolNext
<1>2. ASSUME Stays PROVE UNCHANGED LookupPool!poolVars
    BY <1>2, StayIsStutter
<1>3. ASSUME NEW l \in Lookups, NEW answer \in Addresses \cup {"denied"}, ResolveDirectly(l, answer)
      PROVE  Stays
    BY <1>3, ResolveDirectlyKeeps
<1>4. ASSUME NEW l \in Lookups, Resolve(l) PROVE LookupPool!PoolNext
    BY <1>1, <1>4, ResolveIsPoolStep
<1>5. ASSUME NEW l \in Lookups, Cancel(l) PROVE Stays \/ LookupPool!PoolNext
    BY <1>1, <1>5, CancelIsPoolStep
<1>6. ASSUME NEW l \in Lookups, Connected(l) \/ SshFails(l) PROVE Stays
    BY <1>6, ConnectedKeeps
<1>7. ASSUME NEW l \in Lookups, Ended(l) PROVE LookupPool!PoolNext
    BY <1>1, <1>7, LookupEndedKeeps, PassesOnIsEnd
<1>8. ASSUME NEW l \in Lookups, NEW origin \in Addresses \cup {"denied"}, Executed(l, origin)
      PROVE  LookupPool!PoolNext
    BY <1>1, <1>8, ExecutedKeeps, PassesOnIsEnd
<1>9. ASSUME Edit PROVE Stays
    BY <1>9, EditKeeps
<1>10. ASSUME UNCHANGED lookupVars PROVE Stays
    BY <1>10, StutterKeeps
<1>11. Stays \/ LookupPool!PoolNext
    BY <1>3, <1>4, <1>5, <1>6, <1>7, <1>8, <1>9, <1>10 DEF LookupNext
<1> QED
    BY <1>2, <1>11

\* The resolver keeps what a pool of slow jobs promises: its slots, its places and
\* the order of its queue, although a job may be cancelled at each of its steps.
THEOREM LookupsImplementPool ==
    ASSUME LookupAssumption
    PROVE  LookupSpec => LookupPool!PoolSpec
<1>1. LookupInit => LookupPool!PoolInit
    BY InitKeeps DEF LookupPool!PoolInit
<1>2. LookupInv /\ [LookupNext]_lookupVars => [LookupPool!PoolNext]_(LookupPool!poolVars)
    BY StepIsPoolStep
<1> QED
    BY <1>1, <1>2, LookupInvariantHolds, PTL DEF LookupSpec, LookupPool!PoolSpec

-----------------------------------------------------------------------------
\* The certificates.

StartedIn(w) == {h \in Hosts : w.task[h].started}

IsPending(w, h) == w.task[h].timer \/ w.task[h].aborted

CertTyped(w) ==
    w \in [task : [Hosts -> Task], queue : Seq(Hosts), active : 0..MaxActive, cache : Seq(Hosts),
           handshake : [Handshakes -> Handshake]]

\* Slots, queue, tasks and cache of a provider that is open or not, before drain().
CertSound(w, state) ==
    /\ CertTyped(w)
    /\ IsFiniteSet(StartedIn(w)) /\ w.active = Cardinality(StartedIn(w))
    /\ IsInjective(w.queue) /\ IsInjective(w.cache) /\ Len(w.cache) <= MaxCache
    /\ \A h \in Hosts :
        /\ h \in Range(w.queue) => w.task[h] = NewTask
        /\ w.task[h].started => IsPending(w, h)
        /\ IsPending(w, h) => (w.task[h].started \/ h \in Range(w.queue)) /\ h \notin Range(w.cache)
    /\ \A r \in Handshakes :
        w.handshake[r].state = "waiting" => IsPending(w, w.handshake[r].host)
    /\ state # "open" => w.queue = <<>>
    /\ state = "closed" => w.cache = <<>> /\ \A h \in Hosts : ~IsPending(w, h)

\* No slot is free while a job waits.
CertGood(w, state) ==
    CertSound(w, state) /\ (state = "open" /\ w.queue # <<>> => w.active = MaxActive)

CertInv == closed \in {"open", "closing", "closed"} /\ CertGood(CertWorld, closed)

LEMMA CertFields ==
    ASSUME NEW w, CertTyped(w)
    PROVE  /\ w = [task |-> w.task, queue |-> w.queue, active |-> w.active, cache |-> w.cache,
                   handshake |-> w.handshake]
           /\ w.task \in [Hosts -> Task] /\ w.queue \in Seq(Hosts) /\ w.active \in 0..MaxActive
           /\ w.cache \in Seq(Hosts) /\ w.handshake \in [Handshakes -> Handshake]
           /\ \A h \in Hosts : w.task[h] \in Task
BY DEF CertTyped

LEMMA ProviderFields ==
    /\ CertWorld.task = task /\ CertWorld.queue = queue /\ CertWorld.active = active
    /\ CertWorld.cache = cache /\ CertWorld.handshake = handshake
BY DEF CertWorld

LEMMA CertInvAfter ==
    ASSUME NEW w, CertBecomes(w), CertGood(w, closed'), closed' \in {"open", "closing", "closed"}
    PROVE  CertInv'
<1>1. CertWorld' = w
    BY CertFields DEF CertWorld, CertBecomes, CertGood, CertSound
<1> QED
    BY <1>1 DEF CertInv

\* drain() starts nothing where there is no slot or no job, ...
LEMMA DrainsNothing ==
    ASSUME CertificateAssumption, NEW w, CertTyped(w),
           closed # "open" \/ w.queue = <<>> \/ w.active = MaxActive
    PROVE  Drain(w) = w
<1> DEFINE q == w.queue
           n == IF closed = "open" THEN Min({MaxActive - w.active, Len(q)}) ELSE 0
           first == ToSet(SubSeq(q, 1, n))
<1>1. q \in Seq(Hosts) /\ Len(q) \in Nat /\ w.active \in 0..MaxActive /\ MaxActive \in Nat
    BY CertFields, LenProperties DEF CertificateAssumption
<1>2. n = 0
    <2>1. CASE closed # "open"
        BY <2>1
    <2>2. CASE closed = "open"
        <3> DEFINE a == MaxActive - w.active
                   b == Len(q)
        <3>1. a \in Nat /\ b \in Nat /\ (a = 0 \/ b = 0)
            BY <1>1, <2>2
        <3> HIDE DEF a, b
        <3>2. Min({a, b}) = 0
            BY <3>1 DEF Min
        <3> QED
            BY <2>2, <3>2 DEF a, b
    <2> QED
        BY <2>1, <2>2
<1> HIDE DEF n
<1>3. SubSeq(q, 1, 0) = <<>> /\ SubSeq(q, 0 + 1, Len(q)) = q
    BY <1>1
<1>4. first = {}
    BY <1>2, <1>3 DEF ToSet
<1> HIDE DEF first
<1>5. \A h \in Hosts : [w.task[h] EXCEPT !.started = w.task[h].started \/ h \in first] = w.task[h]
    BY <1>4, CertFields DEF Task
<1>6. [h \in Hosts |-> [w.task[h] EXCEPT !.started = w.task[h].started \/ h \in first]] = w.task
    BY <1>5, CertFields
<1>7. /\ Drain(w) = [w EXCEPT !.task = w.task, !.queue = SubSeq(q, n + 1, Len(q)), !.active = w.active + n]
    BY <1>6 DEF Drain, first, n
<1>8. w.active + n = w.active /\ SubSeq(q, n + 1, Len(q)) = w.queue
    BY <1>1, <1>2, <1>3
<1> HIDE DEF q
<1>9. Drain(w) = [w EXCEPT !.task = w.task, !.queue = w.queue, !.active = w.active]
    BY <1>7, <1>8
<1> QED
    BY <1>9 DEF CertTyped

\* ... and one job where a slot has become free, or where there is only one.
LEMMA DrainsOne ==
    ASSUME CertificateAssumption, NEW w, CertTyped(w), closed = "open", w.queue # <<>>,
           w.active < MaxActive, w.active = MaxActive - 1 \/ Len(w.queue) = 1
    PROVE  /\ CertTyped(Drain(w))
           /\ Drain(w).task = [w.task EXCEPT ![Head(w.queue)] = [w.task[Head(w.queue)] EXCEPT !.started = TRUE]]
           /\ Drain(w).queue = Tail(w.queue) /\ Drain(w).active = w.active + 1
           /\ Drain(w).cache = w.cache /\ Drain(w).handshake = w.handshake
<1> DEFINE q == w.queue
           n == IF closed = "open" THEN Min({MaxActive - w.active, Len(q)}) ELSE 0
           first == ToSet(SubSeq(q, 1, n))
           x == [w.task[Head(q)] EXCEPT !.started = TRUE]
           tasks == [h \in Hosts |-> [w.task[h] EXCEPT !.started = w.task[h].started \/ h \in first]]
<1>1. /\ q \in Seq(Hosts) /\ Len(q) \in Nat \ {0} /\ w.active \in Nat /\ MaxActive \in Nat
      /\ Head(q) \in Hosts /\ w.task \in [Hosts -> Task] /\ Head(q) = q[1]
    BY CertFields, LenProperties, EmptySeq, HeadTailProperties DEF CertificateAssumption
<1>2. n = 1
    <2> DEFINE a == MaxActive - w.active
               b == Len(q)
    <2>1. a \in Nat /\ b \in Nat /\ a >= 1 /\ b >= 1 /\ (a = 1 \/ b = 1)
        BY <1>1
    <2> HIDE DEF a, b
    <2>2. Min({a, b}) = 1
        BY <2>1 DEF Min
    <2> QED
        BY <2>2 DEF a, b
<1> HIDE DEF n
<1>3. DOMAIN SubSeq(q, 1, 1) = {1} /\ SubSeq(q, 1, 1)[1] = Head(q)
    <2> DEFINE b == SubSeq(q, 1, 1)
    <2>1. \A i \in 1..1 : q[i] \in Hosts
        BY <1>1
    <2>2. b \in Seq(Hosts) /\ Len(b) = 1 /\ b[1] = q[1]
        BY <2>1, SubSeqProperties
    <2> HIDE DEF b
    <2>3. DOMAIN b = 1..1
        BY <2>2, LenProperties
    <2> QED
        BY <1>1, <2>2, <2>3 DEF b
<1>4. SubSeq(q, 1 + 1, Len(q)) = Tail(q) /\ Tail(q) \in Seq(Hosts)
    BY <1>1
<1>5. first = {Head(q)}
    <2> DEFINE b == SubSeq(q, 1, 1)
               e == Head(q)
    <2>1. DOMAIN b = {1} /\ b[1] = e
        BY <1>3
    <2> HIDE DEF b, e
    <2>2. ToSet(b) = {e}
        BY <2>1 DEF ToSet
    <2> QED
        BY <1>2, <2>2 DEF b, e
<1> HIDE DEF first
<1>6. x \in Task
    BY <1>1 DEF Task
<1>7. \A h \in Hosts : [w.task[h] EXCEPT !.started = w.task[h].started \/ h \in first]
                        = IF h = Head(q) THEN x ELSE w.task[h]
    <2> TAKE h \in Hosts
    <2>1. w.task[h] \in Task
        BY <1>1
    <2>2. CASE h = Head(q)
        BY <1>5, <2>2
    <2>3. CASE h # Head(q)
        BY <1>5, <2>1, <2>3 DEF Task
    <2> QED
        BY <2>2, <2>3
<1>8. tasks = [w.task EXCEPT ![Head(q)] = x]
    BY <1>1, <1>7
<1>9. Drain(w) = [w EXCEPT !.task = tasks, !.queue = SubSeq(q, n + 1, Len(q)), !.active = w.active + n]
    BY DEF Drain, first, n
<1>10. SubSeq(q, n + 1, Len(q)) = Tail(q) /\ w.active + n = w.active + 1
    BY <1>2, <1>4
<1> HIDE DEF tasks
<1>11. tasks \in [Hosts -> Task] /\ Tail(q) \in Seq(Hosts) /\ w.active + 1 \in 0..MaxActive
    <2>1. tasks \in [Hosts -> Task]
        BY <1>1, <1>6, <1>8
    <2>2. w.active + 1 \in 0..MaxActive
        BY <1>1
    <2> QED
        BY <1>4, <2>1, <2>2
<1>12. Drain(w) = [w EXCEPT !.task = tasks, !.queue = Tail(q), !.active = w.active + 1]
    BY <1>9, <1>10
<1> HIDE DEF x, q
<1> DEFINE t == Tail(q)
           k == w.active + 1
<1> HIDE DEF t, k
<1>13. Drain(w) = [w EXCEPT !.task = tasks, !.queue = t, !.active = k] /\ t \in Seq(Hosts) /\ k \in 0..MaxActive
    BY <1>11, <1>12 DEF t, k
<1>14. /\ CertTyped(Drain(w)) /\ Drain(w).task = tasks /\ Drain(w).queue = t /\ Drain(w).active = k
       /\ Drain(w).cache = w.cache /\ Drain(w).handshake = w.handshake
    BY <1>11, <1>13 DEF CertTyped
<1> QED
    BY <1>8, <1>14 DEF t, k, x, q

LEMMA DrainKeeps ==
    ASSUME CertificateAssumption, NEW w, CertSound(w, closed),
           closed = "open" /\ w.queue # <<>>
               => w.active \in {MaxActive, MaxActive - 1} \/ Len(w.queue) = 1
    PROVE  CertGood(Drain(w), closed)
<1>1. CertTyped(w) /\ w.active \in 0..MaxActive
    BY CertFields DEF CertSound
<1>2. CASE closed # "open" \/ w.queue = <<>> \/ w.active = MaxActive
    BY <1>1, <1>2, DrainsNothing DEF CertGood
<1>3. CASE closed = "open" /\ w.queue # <<>> /\ w.active # MaxActive
    <2> DEFINE v == Drain(w)
               e == Head(w.queue)
               q == Tail(w.queue)
               x == [w.task[e] EXCEPT !.started = TRUE]
    <2>1. w.active < MaxActive /\ (w.active = MaxActive - 1 \/ Len(w.queue) = 1)
        BY <1>1, <1>3 DEF CertificateAssumption
    <2>2. /\ CertTyped(v) /\ v.task = [w.task EXCEPT ![e] = x] /\ v.queue = q
          /\ v.active = w.active + 1 /\ v.cache = w.cache /\ v.handshake = w.handshake
        BY <1>1, <1>3, <2>1, DrainsOne
    <2>3. /\ e \in Hosts /\ e \in Range(w.queue) /\ q \in Seq(Hosts) /\ IsInjective(q)
          /\ Range(q) = Range(w.queue) \ {e} /\ Len(q) = Len(w.queue) - 1
        <3>1. w.queue \in Seq(Hosts) /\ IsInjective(w.queue)
            BY CertFields DEF CertSound
        <3> QED
            BY <1>3, <3>1, TailRange
    <2> HIDE DEF v, e, q
    <2>4. w.task[e] = NewTask /\ x = [NewTask EXCEPT !.started = TRUE]
        BY <2>3 DEF CertSound
    <2>5. x.started /\ x.timer /\ ~x.aborted /\ ~w.task[e].started /\ w.task[e].timer /\ ~w.task[e].aborted
        BY <2>4 DEF NewTask
    <2> HIDE DEF x
    <2>6. v.task[e] = x /\ \A h \in Hosts \ {e} : v.task[h] = w.task[h]
        BY <2>2, <2>3, CertFields, <1>1
    <2>7. StartedIn(v) = StartedIn(w) \cup {e} /\ e \notin StartedIn(w)
        BY <2>3, <2>5, <2>6 DEF StartedIn
    <2>8. IsFiniteSet(StartedIn(v)) /\ v.active = Cardinality(StartedIn(v))
        <3>1. IsFiniteSet(StartedIn(w)) /\ w.active = Cardinality(StartedIn(w))
            BY DEF CertSound
        <3> QED
            BY <2>2, <2>7, <3>1, FS_AddElement
    <2>9. \A h \in Hosts : (IsPending(v, h) <=> IsPending(w, h)) /\ (h # e => v.task[h] = w.task[h])
        BY <2>5, <2>6 DEF IsPending
    <2>10. ASSUME NEW h \in Hosts
           PROVE  /\ h \in Range(v.queue) => v.task[h] = NewTask
                  /\ v.task[h].started => IsPending(v, h)
                  /\ IsPending(v, h) => (v.task[h].started \/ h \in Range(v.queue)) /\ h \notin Range(v.cache)
        <3>1. /\ h \in Range(w.queue) => w.task[h] = NewTask
              /\ w.task[h].started => IsPending(w, h)
              /\ IsPending(w, h) => (w.task[h].started \/ h \in Range(w.queue)) /\ h \notin Range(w.cache)
            BY DEF CertSound
        <3>2. CASE h = e
            BY <2>2, <2>3, <2>5, <2>6, <2>9, <3>1, <3>2 DEF IsPending
        <3>3. CASE h # e
            BY <2>2, <2>3, <2>6, <2>9, <3>1, <3>3
        <3> QED
            BY <3>2, <3>3
    <2>11. \A r \in Handshakes : v.handshake[r].state = "waiting" => IsPending(v, v.handshake[r].host)
        <3>1. \A r \in Handshakes : /\ w.handshake[r].host \in Hosts
                                    /\ w.handshake[r].state = "waiting" => IsPending(w, w.handshake[r].host)
            BY <1>1, CertFields DEF CertSound, Handshake
        <3> QED
            BY <2>2, <2>9, <3>1
    <2>12. IsInjective(v.queue) /\ IsInjective(v.cache) /\ Len(v.cache) <= MaxCache
        BY <2>2, <2>3 DEF CertSound
    <2>13. CertSound(v, closed)
        BY <1>3, <2>2, <2>8, <2>10, <2>11, <2>12 DEF CertSound
    <2>14. v.queue # <<>> => v.active = MaxActive
        <3>1. CASE w.active = MaxActive - 1
            BY <1>1, <2>2, <3>1 DEF CertificateAssumption
        <3>2. CASE Len(w.queue) = 1
            BY <2>2, <2>3, <3>2, EmptySeq
        <3> QED
            BY <2>1, <3>1, <3>2
    <2> QED
        BY <2>13, <2>14 DEF CertGood, v
<1> QED
    BY <1>2, <1>3

LEMMA CachedFacts ==
    ASSUME CertificateAssumption, NEW s \in Seq(Hosts), IsInjective(s), Len(s) <= MaxCache, NEW h \in Hosts
    PROVE  /\ Cached(s, h) \in Seq(Hosts) /\ IsInjective(Cached(s, h)) /\ Len(Cached(s, h)) <= MaxCache
           /\ Range(Cached(s, h)) \subseteq Range(s) \cup {h}
<1> DEFINE q == RemoveFirst(s, h)
           k == Append(q, h)
<1>1. /\ q \in Seq(Hosts) /\ IsInjective(q) /\ Range(q) = Range(s) \ {h}
      /\ Len(q) = IF h \in Range(s) THEN Len(s) - 1 ELSE Len(s)
    BY RemoveFirstFacts
<1>2. Len(s) \in Nat /\ MaxCache \in Nat
    BY LenProperties DEF CertificateAssumption
<1>3. Cached(s, h) = IF Len(k) > MaxCache THEN Tail(k) ELSE k
    BY DEF Cached
<1> HIDE DEF q
<1>4. k \in Seq(Hosts) /\ Len(k) = Len(q) + 1 /\ Range(k) = Range(q) \cup {h} /\ IsInjective(k)
    BY <1>1, AppendProperties, AppendRange
<1> HIDE DEF k
<1>5. Len(k) <= MaxCache + 1 /\ Len(k) \in Nat \ {0}
    BY <1>1, <1>2, <1>4, LenProperties
<1>6. /\ Tail(k) \in Seq(Hosts) /\ IsInjective(Tail(k)) /\ Range(Tail(k)) \subseteq Range(k)
      /\ Len(Tail(k)) = Len(k) - 1
    <2>1. k # <<>>
        BY <1>5
    <2> QED
        BY <1>4, <2>1, TailRange
<1>7. Range(k) \subseteq Range(s) \cup {h}
    BY <1>1, <1>4
<1> QED
    BY <1>2, <1>3, <1>4, <1>5, <1>6, <1>7

\* finish(): the task is gone, its slot and its place are free, and nobody waits for it,
\* before drain() gives them away.
LEMMA FinishFrees ==
    ASSUME CertificateAssumption, CertInv, NEW h \in Hosts, IsPending(CertWorld, h),
           NEW how \in {"issued", "failed"}, NEW w, CertTyped(w), w.queue = queue, w.active = active,
           w.handshake = handshake, w.task[h].started = task[h].started,
           \A o \in Hosts \ {h} : w.task[o] = task[o],
           IsInjective(w.cache), Len(w.cache) <= MaxCache, Range(w.cache) \subseteq Range(cache) \cup {h}
    PROVE  \E v :
             /\ FinishTask(w, h, how) = Drain(v) /\ CertSound(v, closed)
             /\ v.queue = RemoveFirst(queue, h)
             /\ v.active = IF task[h].started THEN active - 1 ELSE active
             /\ StartedIn(v) = StartedIn(CertWorld) \ {h}
<1> DEFINE settled(r) == IF w.handshake[r].state = "waiting" /\ w.handshake[r].host \in {h}
                         THEN [w.handshake[r] EXCEPT !.state = how] ELSE w.handshake[r]
           answers == [r \in Handshakes |-> settled(r)]
           tasks == [w.task EXCEPT ![h] = NoTask]
           q == RemoveFirst(w.queue, h)
           n == IF w.task[h].started THEN w.active - 1 ELSE w.active
           v == [task |-> tasks, queue |-> q, active |-> n, cache |-> w.cache, handshake |-> answers]
<1>1. FinishTask(w, h, how) = Drain(v)
    <2>1. w = [task |-> w.task, queue |-> w.queue, active |-> w.active, cache |-> w.cache,
               handshake |-> w.handshake]
        BY CertFields
    <2>2. Settle(w, {h}, how) = [task |-> w.task, queue |-> w.queue, active |-> w.active,
                                 cache |-> w.cache, handshake |-> answers]
        <3>1. Settle(w, {h}, how) = [w EXCEPT !.handshake = answers]
            BY DEF Settle
        <3> HIDE DEF answers
        <3> QED
            BY <3>1 DEF CertTyped
    <2> HIDE DEF answers
    <2> DEFINE u == Settle(w, {h}, how)
    <2>3. FinishTask(w, h, how)
              = Drain([u EXCEPT !.task = [u.task EXCEPT ![h] = NoTask], !.queue = RemoveFirst(u.queue, h),
                                !.active = IF w.task[h].started THEN u.active - 1 ELSE u.active])
        BY DEF FinishTask
    <2>4. u.task = w.task /\ u.queue = w.queue /\ u.active = w.active
        BY <2>2
    <2>5. FinishTask(w, h, how) = Drain([u EXCEPT !.task = tasks, !.queue = q, !.active = n])
        BY <2>3, <2>4
    <2> HIDE DEF tasks, q, n
    <2> DEFINE z == [u EXCEPT !.task = tasks, !.queue = q, !.active = n]
               b == w.cache
    <2>6. z = v
        <3>1. u = [task |-> w.task, queue |-> w.queue, active |-> w.active, cache |-> b, handshake |-> answers]
            BY <2>2
        <3>2. z = [u EXCEPT !.task = tasks, !.queue = q, !.active = n]
            OBVIOUS
        <3> HIDE DEF u, z, b
        <3>3. z = [task |-> tasks, queue |-> q, active |-> n, cache |-> b, handshake |-> answers]
            BY <3>1, <3>2
        <3> QED
            BY <3>3 DEF b
    <2> QED
        BY <2>5, <2>6
<1>2. /\ CertSound(CertWorld, closed) /\ closed # "closed" /\ CertTyped(CertWorld)
      /\ closed = "open" /\ queue # <<>> => active = MaxActive
    <2>1. CertSound(CertWorld, closed) /\ (closed = "open" /\ queue # <<>> => active = MaxActive)
        BY ProviderFields DEF CertInv, CertGood
    <2> QED
        BY <2>1 DEF CertSound
<1>3. /\ task \in [Hosts -> Task] /\ queue \in Seq(Hosts) /\ active \in 0..MaxActive
      /\ cache \in Seq(Hosts) /\ handshake \in [Handshakes -> Handshake]
    BY <1>2, CertFields, ProviderFields
<1>4. /\ IsFiniteSet(StartedIn(CertWorld)) /\ active = Cardinality(StartedIn(CertWorld)) /\ IsInjective(queue)
      /\ closed # "open" => queue = <<>>
      /\ \A r \in Handshakes : handshake[r].state = "waiting" => IsPending(CertWorld, handshake[r].host)
    BY <1>2, ProviderFields DEF CertSound
<1>5. ASSUME NEW o \in Hosts
      PROVE  /\ o \in Range(queue) => task[o] = NewTask
             /\ task[o].started => IsPending(CertWorld, o)
             /\ IsPending(CertWorld, o) => (task[o].started \/ o \in Range(queue)) /\ o \notin Range(cache)
    BY <1>2, ProviderFields DEF CertSound
<1>6. w.task \in [Hosts -> Task] /\ w.cache \in Seq(Hosts)
    BY CertFields
<1>7. /\ q \in Seq(Hosts) /\ IsInjective(q) /\ Range(q) = Range(queue) \ {h}
      /\ Len(q) = IF h \in Range(queue) THEN Len(queue) - 1 ELSE Len(queue)
    BY <1>3, <1>4, RemoveFirstFacts
<1>8. NoTask \in Task /\ ~NoTask.started /\ ~NoTask.timer /\ ~NoTask.aborted
    BY DEF NoTask, Task
<1>9. /\ tasks \in [Hosts -> Task] /\ tasks[h] = NoTask /\ \A o \in Hosts \ {h} : tasks[o] = task[o]
    BY <1>6, <1>8
<1>10. /\ answers \in [Handshakes -> Handshake]
       /\ \A r \in Handshakes : answers[r].state = "waiting" =>
              answers[r].host # h /\ IsPending(CertWorld, answers[r].host) /\ answers[r].host \in Hosts
    <2>1. ASSUME NEW r \in Handshakes
          PROVE  /\ settled(r) \in Handshake
                 /\ settled(r).state = "waiting" => handshake[r].host # h /\ settled(r) = handshake[r]
        <3>1. handshake[r] \in Handshake
            BY <1>3
        <3> QED
            BY <3>1 DEF Handshake
    <2>2. \A r \in Handshakes : answers[r] = settled(r)
        OBVIOUS
    <2>3. \A r \in Handshakes : handshake[r].host \in Hosts
        BY <1>3 DEF Handshake
    <2> HIDE DEF settled
    <2>4. answers \in [Handshakes -> Handshake]
        BY <2>1
    <2> HIDE DEF answers
    <2> QED
        BY <1>4, <2>1, <2>2, <2>3, <2>4
<1> HIDE DEF tasks, answers, q
<1>11. StartedIn(v) = StartedIn(CertWorld) \ {h}
    BY <1>8, <1>9, ProviderFields DEF StartedIn
<1>12. IsFiniteSet(StartedIn(v)) /\ n = Cardinality(StartedIn(v)) /\ n \in 0..MaxActive
    <2>1. h \in StartedIn(CertWorld) <=> task[h].started
        BY ProviderFields DEF StartedIn
    <2>2. /\ IsFiniteSet(StartedIn(v))
          /\ Cardinality(StartedIn(v)) = IF task[h].started THEN active - 1 ELSE active
        BY <1>4, <1>11, <2>1, FS_RemoveElement
    <2>3. n = Cardinality(StartedIn(v)) /\ Cardinality(StartedIn(v)) \in Nat
        BY <2>2, FS_CardinalityType
    <2>4. active \in 0..MaxActive /\ MaxActive \in Nat /\ (n = active \/ n = active - 1)
        BY <1>3 DEF CertificateAssumption
    <2> HIDE DEF v, n
    <2> QED
        BY <2>2, <2>3, <2>4
<1>13. CertTyped(v)
    <2> HIDE DEF n
    <2> QED
        BY <1>6, <1>7, <1>9, <1>10, <1>12 DEF CertTyped
<1>14. ASSUME NEW o \in Hosts
       PROVE  /\ o \in Range(q) => tasks[o] = NewTask
              /\ tasks[o].started => IsPending(v, o)
              /\ IsPending(v, o) => (tasks[o].started \/ o \in Range(q)) /\ o \notin Range(w.cache)
              /\ o # h /\ IsPending(CertWorld, o) => IsPending(v, o)
    <2>1. CASE o = h
        BY <1>7, <1>8, <1>9, <2>1 DEF IsPending
    <2>2. CASE o # h
        <3>1. tasks[o] = task[o] /\ (IsPending(v, o) <=> IsPending(CertWorld, o))
            BY <1>9, <2>2, ProviderFields DEF IsPending
        <3> QED
            BY <1>5, <1>7, <2>2, <3>1
    <2> QED
        BY <2>1, <2>2
<1>15. closed # "open" => q = <<>>
    <2>1. Len(queue) \in Nat /\ Len(q) \in Nat /\ (q = <<>> <=> Len(q) = 0) /\ (queue = <<>> <=> Len(queue) = 0)
        BY <1>3, <1>7, LenProperties, EmptySeq
    <2> QED
        BY <1>4, <1>7, <2>1
<1>16. CertSound(v, closed)
    <2>1. /\ v.task = tasks /\ v.queue = q /\ v.active = n /\ v.cache = w.cache /\ v.handshake = answers
        OBVIOUS
    <2> HIDE DEF v, n
    <2> QED
        BY <1>2, <1>7, <1>10, <1>12, <1>13, <1>14, <1>15, <2>1 DEF CertSound
<1>17. q = RemoveFirst(queue, h) /\ n = IF task[h].started THEN active - 1 ELSE active
    BY DEF q
<1>18. v.queue = q /\ v.active = n
    OBVIOUS
<1> HIDE DEF v, n
<1> QED
    BY <1>1, <1>11, <1>16, <1>17, <1>18

LEMMA FinishTaskKeeps ==
    ASSUME CertificateAssumption, CertInv, NEW h \in Hosts, IsPending(CertWorld, h),
           NEW how \in {"issued", "failed"}, NEW w, CertTyped(w), w.queue = queue, w.active = active,
           w.handshake = handshake, w.task[h].started = task[h].started,
           \A o \in Hosts \ {h} : w.task[o] = task[o],
           IsInjective(w.cache), Len(w.cache) <= MaxCache, Range(w.cache) \subseteq Range(cache) \cup {h}
    PROVE  CertGood(FinishTask(w, h, how), closed)
<1>1. PICK v : /\ FinishTask(w, h, how) = Drain(v) /\ CertSound(v, closed)
               /\ v.queue = RemoveFirst(queue, h)
               /\ v.active = IF task[h].started THEN active - 1 ELSE active
    BY FinishFrees
<1>2. /\ queue \in Seq(Hosts) /\ IsInjective(queue) /\ active \in Nat
      /\ closed = "open" /\ queue # <<>> => active = MaxActive
    BY CertFields, ProviderFields DEF CertInv, CertGood, CertSound
<1>3. v.queue # <<>> => queue # <<>>
    <2>1. v.queue \in Seq(Hosts) /\ (Len(v.queue) = Len(queue) - 1 \/ Len(v.queue) = Len(queue))
        BY <1>1, <1>2, RemoveFirstFacts
    <2> QED
        BY <1>2, <2>1, LenProperties, EmptySeq
<1>4. closed = "open" /\ v.queue # <<>> => v.active \in {MaxActive, MaxActive - 1}
    BY <1>1, <1>2, <1>3
<1> QED
    BY <1>1, <1>4, DrainKeeps

\* What an invariant of the provider says of its variables.
LEMMA ProviderIs ==
    ASSUME CertInv
    PROVE  /\ task \in [Hosts -> Task] /\ queue \in Seq(Hosts) /\ active \in 0..MaxActive
           /\ cache \in Seq(Hosts) /\ handshake \in [Handshakes -> Handshake]
           /\ IsFiniteSet(StartedIn(CertWorld)) /\ active = Cardinality(StartedIn(CertWorld))
           /\ IsInjective(queue) /\ IsInjective(cache) /\ Len(cache) <= MaxCache
           /\ closed # "open" => queue = <<>>
           /\ closed = "closed" => cache = <<>> /\ \A h \in Hosts : ~IsPending(CertWorld, h)
           /\ closed = "open" /\ queue # <<>> => active = MaxActive
           /\ \A r \in Handshakes :
                /\ handshake[r].host \in Hosts
                /\ handshake[r].state = "waiting" => IsPending(CertWorld, handshake[r].host)
<1>1. CertSound(CertWorld, closed) /\ CertTyped(CertWorld)
    BY DEF CertInv, CertGood, CertSound
<1>2. /\ task \in [Hosts -> Task] /\ queue \in Seq(Hosts) /\ active \in 0..MaxActive
      /\ cache \in Seq(Hosts) /\ handshake \in [Handshakes -> Handshake]
    BY <1>1, CertFields, ProviderFields
<1>3. \A r \in Handshakes : handshake[r].host \in Hosts
    BY <1>2 DEF Handshake
<1>4. closed = "open" /\ queue # <<>> => active = MaxActive
    BY ProviderFields DEF CertInv, CertGood
<1> QED
    BY <1>1, <1>2, <1>3, <1>4, ProviderFields DEF CertSound

LEMMA TasksAre ==
    ASSUME CertInv, NEW h \in Hosts
    PROVE  /\ h \in Range(queue) => task[h] = NewTask
           /\ task[h].started => IsPending(CertWorld, h)
           /\ IsPending(CertWorld, h) => (task[h].started \/ h \in Range(queue)) /\ h \notin Range(cache)
           /\ IsPending(CertWorld, h) <=> (task[h].timer \/ task[h].aborted)
           /\ task[h] \in Task
BY ProviderIs, ProviderFields DEF CertInv, CertGood, CertSound, IsPending

\* A handshake is answered at once, or waits for a task that is there.
LEMMA AnswerKeeps ==
    ASSUME CertificateAssumption, CertInv, NEW r \in Handshakes, NEW h \in Hosts,
           NEW how \in {"waiting", "issued", "failed"}, how = "waiting" => IsPending(CertWorld, h),
           NEW k \in Seq(Hosts), IsInjective(k), Len(k) <= MaxCache, Range(k) \subseteq Range(cache),
           closed = "closed" => k = cache,
           CertBecomes([task |-> task, queue |-> queue, active |-> active, cache |-> k,
                        handshake |-> [handshake EXCEPT ![r] = [host |-> h, state |-> how]]]),
           UNCHANGED closed
    PROVE  CertInv'
<1> DEFINE answers == [handshake EXCEPT ![r] = [host |-> h, state |-> how]]
           w == [task |-> task, queue |-> queue, active |-> active, cache |-> k, handshake |-> answers]
<1>1. answers \in [Handshakes -> Handshake]
    BY ProviderIs DEF Handshake
<1>2. \A o \in Handshakes : answers[o].state = "waiting" => IsPending(CertWorld, answers[o].host)
    <2> SUFFICES ASSUME NEW o \in Handshakes, answers[o].state = "waiting"
                 PROVE  IsPending(CertWorld, answers[o].host)
        OBVIOUS
    <2>1. CASE o = r
        BY <2>1, ProviderIs
    <2>2. CASE o # r
        BY <2>2, ProviderIs
    <2> QED
        BY <2>1, <2>2
<1> HIDE DEF answers
<1>3. CertTyped(w)
    BY <1>1, ProviderIs DEF CertTyped
<1>4. /\ w.task = task /\ w.queue = queue /\ w.active = active /\ w.cache = k /\ w.handshake = answers
      /\ CertBecomes(w)
    BY DEF answers
<1> HIDE DEF w
<1>5. StartedIn(w) = StartedIn(CertWorld) /\ \A o : IsPending(w, o) <=> IsPending(CertWorld, o)
    BY <1>4, ProviderFields DEF StartedIn, IsPending
<1>6. CertSound(w, closed)
    <2>1. ASSUME NEW o \in Hosts
          PROVE  /\ o \in Range(w.queue) => w.task[o] = NewTask
                 /\ w.task[o].started => IsPending(w, o)
                 /\ IsPending(w, o) => (w.task[o].started \/ o \in Range(w.queue)) /\ o \notin Range(w.cache)
        BY <1>4, <1>5, TasksAre
    <2> QED
        BY <1>2, <1>3, <1>4, <1>5, <2>1, ProviderIs DEF CertSound
<1>7. CertGood(w, closed)
    BY <1>4, <1>6, ProviderIs DEF CertGood
<1> QED
    BY <1>4, <1>7, CertInvAfter DEF CertInv

\* What issue() makes of a handshake that it answers or makes wait, and of one for which
\* it makes a task.
Answered(r, h, how) == [CertWorld EXCEPT !.handshake[r] = [host |-> h, state |-> how]]

Anew(r, h) == [Answered(r, h, "waiting") EXCEPT !.task[h] = NewTask, !.queue = Append(@, h)]

LEMMA AnsweredIs ==
    ASSUME NEW r, NEW h, NEW how
    PROVE  Answered(r, h, how)
               = [task |-> task, queue |-> queue, active |-> active, cache |-> cache,
                  handshake |-> [handshake EXCEPT ![r] = [host |-> h, state |-> how]]]
BY DEF Answered, CertWorld

LEMMA IssueCases ==
    ASSUME CertificateAssumption, CertInv, NEW r \in Handshakes, NEW h \in Hosts, Issue(r, h)
    PROVE  /\ UNCHANGED closed
           /\ \/ CertBecomes(Answered(r, h, "failed"))
              \/ /\ Contains(cache, h) /\ closed = "open"
                 /\ CertBecomes([Answered(r, h, "issued") EXCEPT !.cache = Cached(@, h)])
              \/ IsPending(CertWorld, h) /\ CertBecomes(Answered(r, h, "waiting"))
              \/ /\ closed = "open" /\ h \notin Pending(CertWorld) /\ ~Contains(cache, h)
                 /\ active < MaxActive \/ Len(queue) < MaxQueued
                 /\ CertBecomes(Drain(Anew(r, h)))
<1>1. active \in Nat /\ MaxActive \in Nat /\ Len(queue) \in Nat /\ MaxQueued \in Nat
    BY ProviderIs, LenProperties DEF CertificateAssumption
<1>2. h \in Pending(CertWorld) => IsPending(CertWorld, h)
    BY DEF Pending, IsPending
<1> QED
    BY <1>1, <1>2 DEF Issue, Answered, Anew

\* issue() makes a new task for a name that is neither kept nor asked for.
LEMMA NewTaskIsSound ==
    ASSUME CertInv, NEW r \in Handshakes, NEW h \in Hosts, closed = "open",
           h \notin Pending(CertWorld), ~Contains(cache, h)
    PROVE  /\ CertSound(Anew(r, h), closed)
           /\ Anew(r, h).queue = Append(queue, h) /\ Anew(r, h).active = active
           /\ StartedIn(Anew(r, h)) = StartedIn(CertWorld) /\ h \notin Range(queue)
<1> DEFINE answers(how) == [handshake EXCEPT ![r] = [host |-> h, state |-> how]]
           q == Append(queue, h)
           tasks == [task EXCEPT ![h] = NewTask]
           w == [task |-> tasks, queue |-> q, active |-> active, cache |-> cache,
                 handshake |-> answers("waiting")]
<1>1. Anew(r, h) = w
    <2> DEFINE a == answers("waiting")
               u == Answered(r, h, "waiting")
               z == [u EXCEPT !.task = tasks, !.queue = q]
    <2>1. u = [task |-> task, queue |-> queue, active |-> active, cache |-> cache, handshake |-> a]
        BY AnsweredIs
    <2>2. [u EXCEPT !.task[h] = NewTask, !.queue = Append(@, h)]
            = [u EXCEPT !.task = [u.task EXCEPT ![h] = NewTask], !.queue = Append(u.queue, h)]
        OBVIOUS
    <2> HIDE DEF a, u
    <2>3. u.task = task /\ u.queue = queue
        BY <2>1
    <2>4. z = [u EXCEPT !.task = tasks, !.queue = q]
        OBVIOUS
    <2> HIDE DEF tasks, q, z
    <2>5. z = [task |-> tasks, queue |-> q, active |-> active, cache |-> cache, handshake |-> a]
        BY <2>1, <2>4
    <2> QED
        BY <2>2, <2>3, <2>5 DEF a, u, tasks, q, z, Anew
<1>2. ~IsPending(CertWorld, h) /\ h \notin Range(cache) /\ h \notin Range(queue) /\ ~task[h].started
    <2>1. ~IsPending(CertWorld, h)
        BY ProviderFields DEF Pending, IsPending
    <2>2. h \notin Range(cache)
        BY ProviderIs, LenProperties DEF Contains, Range
    <2>3. task[h] # NewTask
        BY <2>1, ProviderFields DEF NewTask, IsPending
    <2> QED
        BY <2>1, <2>2, <2>3, TasksAre
<1>3. q \in Seq(Hosts) /\ IsInjective(q) /\ Range(q) = Range(queue) \cup {h} /\ Len(q) = Len(queue) + 1
    BY <1>2, ProviderIs, AppendProperties, AppendRange
<1>4. NewTask \in Task /\ ~NewTask.started /\ NewTask.timer
    BY DEF NewTask, Task
<1>5. /\ tasks \in [Hosts -> Task] /\ tasks[h] = NewTask /\ \A o \in Hosts \ {h} : tasks[o] = task[o]
    BY <1>4, ProviderIs
<1> DEFINE a == answers("waiting")
<1>6. /\ a \in [Handshakes -> Handshake] /\ a[r].host = h
      /\ \A o \in Handshakes \ {r} : a[o] = handshake[o]
    BY ProviderIs DEF Handshake
<1> HIDE DEF a, q, tasks
<1>7. CertTyped(w)
    BY <1>3, <1>5, <1>6, ProviderIs DEF CertTyped, a
<1>8. w.task = tasks /\ w.queue = q /\ w.active = active /\ w.cache = cache /\ w.handshake = a
    BY DEF a
<1> HIDE DEF w
<1>9. StartedIn(w) = StartedIn(CertWorld)
    BY <1>2, <1>4, <1>5, <1>8, ProviderFields DEF StartedIn
<1>10. IsPending(w, h) /\ \A o \in Hosts \ {h} : IsPending(w, o) <=> IsPending(CertWorld, o)
    BY <1>4, <1>5, <1>8, ProviderFields DEF IsPending
<1>11. ASSUME NEW o \in Hosts
       PROVE  /\ o \in Range(w.queue) => w.task[o] = NewTask
              /\ w.task[o].started => IsPending(w, o)
              /\ IsPending(w, o) => (w.task[o].started \/ o \in Range(w.queue)) /\ o \notin Range(w.cache)
    <2>1. CASE o = h
        BY <1>2, <1>3, <1>4, <1>5, <1>8, <1>10, <2>1
    <2>2. CASE o # h
        BY <1>3, <1>5, <1>8, <1>10, <2>2, TasksAre
    <2> QED
        BY <2>1, <2>2
<1>12. ASSUME NEW o \in Handshakes, a[o].state = "waiting"
       PROVE  IsPending(w, a[o].host)
    <2>1. CASE o = r
        BY <1>6, <1>10, <2>1
    <2>2. CASE o # r
        BY <1>6, <1>10, <1>12, <2>2, ProviderIs
    <2> QED
        BY <2>1, <2>2
<1>13. CertSound(w, closed)
    BY <1>3, <1>7, <1>8, <1>9, <1>11, <1>12, ProviderIs DEF CertSound
<1> QED
    BY <1>1, <1>2, <1>8, <1>9, <1>13 DEF q

\* A new task starts at once where there is a slot.
LEMMA AnewDrains ==
    ASSUME CertificateAssumption, CertInv, NEW r \in Handshakes, NEW h \in Hosts, closed = "open",
           h \notin Pending(CertWorld), ~Contains(cache, h)
    PROVE  Anew(r, h).active = MaxActive \/ (Len(Anew(r, h).queue) = 1 /\ queue = <<>>)
<1>1. Len(Append(queue, h)) = Len(queue) + 1
    BY ProviderIs, AppendProperties
<1>2. Anew(r, h).active = active /\ Anew(r, h).queue = Append(queue, h)
    BY NewTaskIsSound
<1>3. queue = <<>> => Len(queue) = 0
    OBVIOUS
<1> QED
    BY <1>1, <1>2, <1>3, ProviderIs

LEMMA IssueKeeps ==
    ASSUME CertificateAssumption, CertInv, NEW r \in Handshakes, NEW h \in Hosts, Issue(r, h)
    PROVE  CertInv'
<1>1. UNCHANGED closed
    BY DEF Issue
<1>2. ASSUME NEW how \in {"waiting", "failed"}, CertBecomes(Answered(r, h, how)),
             how = "waiting" => IsPending(CertWorld, h)
      PROVE  CertInv'
    BY <1>1, <1>2, AnsweredIs, ProviderIs, AnswerKeeps
<1>3. CASE Contains(cache, h) /\ closed = "open" /\ CertBecomes([Answered(r, h, "issued") EXCEPT !.cache = Cached(@, h)])
    <2> DEFINE k == Cached(cache, h)
               a == [handshake EXCEPT ![r] = [host |-> h, state |-> "issued"]]
               u == Answered(r, h, "issued")
               z == [u EXCEPT !.cache = k]
    <2>1. u = [task |-> task, queue |-> queue, active |-> active, cache |-> cache, handshake |-> a]
        BY AnsweredIs
    <2>2. [u EXCEPT !.cache = Cached(@, h)] = [u EXCEPT !.cache = Cached(u.cache, h)]
        OBVIOUS
    <2> HIDE DEF a, u
    <2>3. u.cache = cache
        BY <2>1
    <2>4. z = [u EXCEPT !.cache = k]
        OBVIOUS
    <2> HIDE DEF k, z
    <2>5. z = [task |-> task, queue |-> queue, active |-> active, cache |-> k, handshake |-> a]
        BY <2>1, <2>4
    <2>6. CertBecomes(z)
        BY <1>3, <2>2, <2>3 DEF u, k, z
    <2>7. h \in Range(cache)
        BY <1>3, ProviderIs, LenProperties DEF Contains, Range
    <2>8. k \in Seq(Hosts) /\ IsInjective(k) /\ Len(k) <= MaxCache /\ Range(k) \subseteq Range(cache)
        BY <2>7, ProviderIs, CachedFacts DEF k
    <2> QED
        BY <1>1, <1>3, <2>5, <2>6, <2>8, AnswerKeeps DEF a
<1>4. CASE /\ closed = "open" /\ h \notin Pending(CertWorld) /\ ~Contains(cache, h)
           /\ CertBecomes(Drain(Anew(r, h)))
    <2>1. CertGood(Drain(Anew(r, h)), closed)
        BY <1>4, NewTaskIsSound, AnewDrains, DrainKeeps
    <2> QED
        BY <1>1, <1>4, <2>1, CertInvAfter DEF CertInv
<1> QED
    BY <1>2, <1>3, <1>4, IssueCases

\* One task is changed and nothing else.
LEMMA TaskChanged ==
    ASSUME NEW h \in Hosts, NEW x
    PROVE  [CertWorld EXCEPT !.task = [task EXCEPT ![h] = x]]
               = [task |-> [task EXCEPT ![h] = x], queue |-> queue, active |-> active, cache |-> cache,
                  handshake |-> handshake]
<1> DEFINE u == CertWorld
           t == [task EXCEPT ![h] = x]
           z == [u EXCEPT !.task = t]
<1>1. u = [task |-> task, queue |-> queue, active |-> active, cache |-> cache, handshake |-> handshake]
    BY DEF CertWorld
<1>2. z = [u EXCEPT !.task = t]
    OBVIOUS
<1> HIDE DEF u, t, z
<1>3. z = [task |-> t, queue |-> queue, active |-> active, cache |-> cache, handshake |-> handshake]
    BY <1>1, <1>2
<1> QED
    BY <1>3 DEF u, t, z

\* At its deadline a job that waits is given up, and one that runs keeps its slot.
LEMMA DeadlineCases ==
    ASSUME CertInv, NEW h \in Hosts, Deadline(h)
    PROVE  \E w :
             /\ CertTyped(w) /\ w.queue = queue /\ w.active = active /\ w.cache = cache
             /\ w.handshake = handshake /\ w.task[h].started = task[h].started /\ w.task[h].aborted
             /\ \A o \in Hosts \ {h} : w.task[o] = task[o]
             /\ CertBecomes(IF task[h].started THEN w ELSE FinishTask(w, h, "failed"))
<1> DEFINE x == [started |-> task[h].started, aborted |-> TRUE, timer |-> FALSE]
           tasks == [task EXCEPT ![h] = x]
           w == [task |-> tasks, queue |-> queue, active |-> active, cache |-> cache, handshake |-> handshake]
           v == [Aborted(CertWorld, h) EXCEPT !.task[h].timer = FALSE]
<1>1. task[h].timer /\ task[h] \in Task /\ task \in [Hosts -> Task] /\ UNCHANGED closed
    BY ProviderIs, TasksAre DEF Deadline
<1>2. v = w
    <2> DEFINE y == [task[h] EXCEPT !.aborted = TRUE]
               t == [task EXCEPT ![h] = y]
               u == [task |-> t, queue |-> queue, active |-> active, cache |-> cache, handshake |-> handshake]
    <2>1. Aborted(CertWorld, h) = u
        <3>1. Aborted(CertWorld, h) = [CertWorld EXCEPT !.task = t]
            BY ProviderFields DEF Aborted
        <3> HIDE DEF y
        <3> QED
            BY <3>1, TaskChanged
    <2>2. [y EXCEPT !.timer = FALSE] = x
        <3> DEFINE a == task[h]
                   b == [y EXCEPT !.timer = FALSE]
        <3>1. a = [started |-> a.started, aborted |-> a.aborted, timer |-> a.timer]
            BY <1>1 DEF Task
        <3>2. y = [a EXCEPT !.aborted = TRUE] /\ b = [y EXCEPT !.timer = FALSE]
            OBVIOUS
        <3> HIDE DEF a, b, y
        <3>3. y = [started |-> a.started, aborted |-> TRUE, timer |-> a.timer]
            BY <3>1, <3>2
        <3>4. b = [started |-> a.started, aborted |-> TRUE, timer |-> FALSE]
            BY <3>2, <3>3
        <3> QED
            BY <3>4 DEF a, b
    <2>3. [t EXCEPT ![h].timer = FALSE] = tasks
        <3>1. t[h] = y
            BY <1>1
        <3>2. [t EXCEPT ![h].timer = FALSE] = [t EXCEPT ![h] = [y EXCEPT !.timer = FALSE]]
            BY <3>1
        <3> HIDE DEF x, y
        <3>3. [t EXCEPT ![h] = x] = tasks
            BY <1>1
        <3> QED
            BY <2>2, <3>2, <3>3
    <2> DEFINE z == [u EXCEPT !.task = tasks]
    <2>4. v = [u EXCEPT !.task = [t EXCEPT ![h].timer = FALSE]]
        BY <2>1
    <2>5. v = z /\ z = [u EXCEPT !.task = tasks]
        BY <2>3, <2>4
    <2> HIDE DEF tasks, t, v, z
    <2>6. z = w
        BY <2>5
    <2> QED
        BY <2>5, <2>6
<1> HIDE DEF v
<1>3. CertBecomes(IF task[h].started THEN w ELSE FinishTask(w, h, "failed"))
    BY <1>2 DEF Deadline, v
<1>4. x \in Task /\ x.started = task[h].started /\ x.aborted
    BY <1>1 DEF Task
<1>5. tasks \in [Hosts -> Task] /\ tasks[h] = x /\ \A o \in Hosts \ {h} : tasks[o] = task[o]
    BY <1>1, <1>4
<1> HIDE DEF x, tasks
<1>6. CertTyped(w)
    BY <1>5, ProviderIs DEF CertTyped
<1>7. w.task = tasks /\ w.queue = queue /\ w.active = active /\ w.cache = cache /\ w.handshake = handshake
    OBVIOUS
<1> HIDE DEF w
<1> QED
    BY <1>3, <1>4, <1>5, <1>6, <1>7

LEMMA DeadlineKeeps ==
    ASSUME CertificateAssumption, CertInv, NEW h \in Hosts, Deadline(h)
    PROVE  CertInv'
<1>1. PICK w : /\ CertTyped(w) /\ w.queue = queue /\ w.active = active /\ w.cache = cache
               /\ w.handshake = handshake /\ w.task[h].started = task[h].started /\ w.task[h].aborted
               /\ \A o \in Hosts \ {h} : w.task[o] = task[o]
               /\ CertBecomes(IF task[h].started THEN w ELSE FinishTask(w, h, "failed"))
    BY DeadlineCases
<1>2. UNCHANGED closed /\ IsPending(CertWorld, h)
    BY TasksAre DEF Deadline
<1>3. CASE task[h].started
    <2>1. h \notin Range(queue)
        BY <1>3, TasksAre DEF NewTask
    <2>2. StartedIn(w) = StartedIn(CertWorld)
        BY <1>1, ProviderFields DEF StartedIn
    <2>3. \A o \in Hosts : IsPending(w, o) <=> IsPending(CertWorld, o)
        BY <1>1, <1>2, ProviderFields DEF IsPending
    <2>4. ASSUME NEW o \in Hosts
          PROVE  /\ o \in Range(w.queue) => w.task[o] = NewTask
                 /\ w.task[o].started => IsPending(w, o)
                 /\ IsPending(w, o) => (w.task[o].started \/ o \in Range(w.queue)) /\ o \notin Range(w.cache)
        <3>1. CASE o = h
            BY <1>1, <1>3, <2>1, <2>3, <3>1, TasksAre
        <3>2. CASE o # h
            BY <1>1, <2>3, <3>2, TasksAre
        <3> QED
            BY <3>1, <3>2
    <2>5. CertSound(w, closed)
        BY <1>1, <2>2, <2>3, <2>4, ProviderIs DEF CertSound
    <2>6. CertGood(w, closed)
        BY <1>1, <2>5, ProviderIs DEF CertGood
    <2> QED
        BY <1>1, <1>2, <1>3, <2>6, CertInvAfter DEF CertInv
<1>4. CASE ~task[h].started
    <2>1. CertGood(FinishTask(w, h, "failed"), closed)
        BY <1>1, <1>2, ProviderIs, FinishTaskKeeps
    <2> QED
        BY <1>1, <1>2, <1>4, <2>1, CertInvAfter DEF CertInv
<1> QED
    BY <1>3, <1>4

\* openssl has ended: the certificate is kept, or the job has failed.
LEMMA GeneratedCases ==
    ASSUME CertificateAssumption, CertInv, NEW h \in Hosts, NEW success \in BOOLEAN, Generated(h, success)
    PROVE  \E how, k, w :
             /\ how \in {"issued", "failed"} /\ k \in Seq(Hosts)
             /\ IsInjective(k) /\ Len(k) <= MaxCache /\ Range(k) \subseteq Range(cache) \cup {h}
             /\ w = [task |-> task, queue |-> queue, active |-> active, cache |-> k, handshake |-> handshake]
             /\ CertBecomes(FinishTask(w, h, how))
<1> DEFINE u == CertWorld
<1>1. u = [task |-> task, queue |-> queue, active |-> active, cache |-> cache, handshake |-> handshake]
    BY DEF CertWorld
<1>2. CASE CertBecomes(FinishTask(u, h, "failed"))
    BY <1>1, <1>2, ProviderIs
<1>3. CASE CertBecomes(FinishTask([u EXCEPT !.cache = Cached(@, h)], h, "issued"))
    <2> DEFINE k == Cached(cache, h)
               z == [u EXCEPT !.cache = k]
    <2>1. k \in Seq(Hosts) /\ IsInjective(k) /\ Len(k) <= MaxCache /\ Range(k) \subseteq Range(cache) \cup {h}
        BY ProviderIs, CachedFacts
    <2>2. CertBecomes(FinishTask(z, h, "issued")) /\ z = [u EXCEPT !.cache = k]
        BY <1>3, ProviderFields
    <2> HIDE DEF k, u, z
    <2>3. z = [task |-> task, queue |-> queue, active |-> active, cache |-> k, handshake |-> handshake]
        BY <1>1, <2>2
    <2> QED
        BY <2>1, <2>2, <2>3
<1> QED
    BY <1>2, <1>3 DEF Generated

LEMMA GeneratedKeeps ==
    ASSUME CertificateAssumption, CertInv, NEW h \in Hosts, NEW success \in BOOLEAN, Generated(h, success)
    PROVE  CertInv'
<1>1. IsPending(CertWorld, h) /\ UNCHANGED closed
    BY TasksAre DEF Generated
<1>2. PICK how, k, w :
          /\ how \in {"issued", "failed"} /\ k \in Seq(Hosts)
          /\ IsInjective(k) /\ Len(k) <= MaxCache /\ Range(k) \subseteq Range(cache) \cup {h}
          /\ w = [task |-> task, queue |-> queue, active |-> active, cache |-> k, handshake |-> handshake]
          /\ CertBecomes(FinishTask(w, h, how))
    BY GeneratedCases
<1>3. CertTyped(w)
    BY <1>2, ProviderIs DEF CertTyped
<1>4. w.task = task /\ w.queue = queue /\ w.active = active /\ w.cache = k /\ w.handshake = handshake
    BY <1>2
<1>5. CertGood(FinishTask(w, h, how), closed)
    BY <1>1, <1>2, <1>3, <1>4, FinishTaskKeeps
<1> QED
    BY <1>1, <1>2, <1>5, CertInvAfter DEF CertInv

\* close(): who waits fails, what runs is aborted.
LEMMA CloseCases ==
    ASSUME CertInv, CloseProvider
    PROVE  \E w :
             /\ CertBecomes(w) /\ CertGood(w, "closing") /\ w.queue = <<>>
             /\ \A h \in Hosts : w.task[h].started = task[h].started
<1> DEFINE waiting == ToSet(queue)
           unended == Pending(CertWorld)
           settled(r) == IF handshake[r].state = "waiting" /\ handshake[r].host \in waiting
                         THEN [handshake[r] EXCEPT !.state = "failed"] ELSE handshake[r]
           answers == [r \in Handshakes |-> settled(r)]
           ended(h) == IF h \in waiting THEN NoTask
                       ELSE IF h \in unended THEN [task[h] EXCEPT !.aborted = TRUE] ELSE task[h]
           tasks == [h \in Hosts |-> ended(h)]
           w == [task |-> tasks, queue |-> <<>>, active |-> active, cache |-> cache, handshake |-> answers]
<1>1. closed = "open" /\ closed' = "closing" /\ waiting = Range(queue) /\ waiting \subseteq Hosts
    <2>1. \A i \in DOMAIN queue : queue[i] \in Hosts
        BY ProviderIs, LenProperties, ElementOfSeq
    <2> QED
        BY <2>1 DEF CloseProvider, ToSet, Range
<1>2. CertBecomes(w)
    <2> DEFINE u == Settle(CertWorld, waiting, "failed")
               z == [u EXCEPT !.task = tasks, !.queue = <<>>]
    <2>1. u = [CertWorld EXCEPT !.handshake = answers]
        BY ProviderFields DEF Settle
    <2>2. CertBecomes(z) /\ z = [u EXCEPT !.task = tasks, !.queue = <<>>]
        BY DEF CloseProvider
    <2> HIDE DEF answers, tasks, u, z
    <2>3. u = [task |-> task, queue |-> queue, active |-> active, cache |-> cache, handshake |-> answers]
        BY <2>1 DEF CertWorld
    <2>4. z = w
        BY <2>2, <2>3
    <2> QED
        BY <2>2, <2>4
<1>3. ASSUME NEW h \in Hosts
      PROVE  /\ tasks[h] \in Task /\ tasks[h].started = task[h].started
             /\ h \in waiting => tasks[h] = NoTask
             /\ h \notin waiting => ((tasks[h].timer \/ tasks[h].aborted) <=> IsPending(CertWorld, h))
    <2>1. tasks[h] = ended(h)
        OBVIOUS
    <2>2. h \in unended <=> IsPending(CertWorld, h)
        BY DEF Pending, IsPending
    <2>3. CASE h \in waiting
        <3>1. task[h] = NewTask /\ ended(h) = NoTask
            BY <1>1, <2>3, TasksAre
        <3>2. NoTask \in Task /\ NoTask.started = NewTask.started
            BY DEF NoTask, NewTask, Task
        <3> QED
            BY <2>1, <2>3, <3>1, <3>2
    <2>4. CASE h \notin waiting
        <3>1. task[h] \in Task /\ (IsPending(CertWorld, h) <=> (task[h].timer \/ task[h].aborted))
            BY TasksAre
        <3> QED
            BY <2>1, <2>2, <2>4, <3>1 DEF Task
    <2> QED
        BY <2>3, <2>4
<1>4. ~NoTask.timer /\ ~NoTask.aborted /\ ~NoTask.started
    BY DEF NoTask
<1>5. ASSUME NEW r \in Handshakes
      PROVE  /\ answers[r] \in Handshake
             /\ answers[r].state = "waiting" => handshake[r].host \notin waiting /\ answers[r] = handshake[r]
    <2>1. handshake[r] \in Handshake
        BY ProviderIs
    <2> QED
        BY <2>1 DEF Handshake
<1>6. tasks \in [Hosts -> Task] /\ answers \in [Handshakes -> Handshake]
    <2>1. tasks = [h \in Hosts |-> tasks[h]] /\ answers = [r \in Handshakes |-> answers[r]]
        OBVIOUS
    <2> HIDE DEF tasks, answers
    <2> QED
        BY <1>3, <1>5, <2>1
<1> HIDE DEF tasks, answers
<1>7. CertTyped(w)
    BY <1>6, ProviderIs DEF CertTyped
<1>8. /\ w.task = tasks /\ w.queue = <<>> /\ w.active = active /\ w.cache = cache /\ w.handshake = answers
    OBVIOUS
<1> HIDE DEF w
<1>9. Range(w.queue) = {} /\ IsInjective(w.queue)
    BY <1>8 DEF Range, IsInjective
<1>10. StartedIn(w) = StartedIn(CertWorld)
    BY <1>3, <1>8, ProviderFields DEF StartedIn
<1>11. ASSUME NEW h \in Hosts
       PROVE  /\ w.task[h].started => IsPending(w, h)
              /\ IsPending(w, h) => w.task[h].started /\ h \notin Range(w.cache)
              /\ h \notin waiting /\ IsPending(CertWorld, h) => IsPending(w, h)
    <2>1. IsPending(w, h) => h \notin waiting
        BY <1>3, <1>4, <1>8 DEF IsPending
    <2>2. h \notin waiting => (IsPending(w, h) <=> IsPending(CertWorld, h))
        BY <1>3, <1>8 DEF IsPending
    <2>3. h \in waiting => ~w.task[h].started
        BY <1>3, <1>4, <1>8
    <2> QED
        BY <1>1, <1>3, <1>8, <2>1, <2>2, <2>3, TasksAre
<1>12. ASSUME NEW r \in Handshakes, w.handshake[r].state = "waiting"
       PROVE  IsPending(w, w.handshake[r].host)
    BY <1>5, <1>8, <1>11, <1>12, ProviderIs
<1>13. CertSound(w, "closing")
    BY <1>7, <1>8, <1>9, <1>10, <1>11, <1>12, ProviderIs DEF CertSound
<1>14. CertGood(w, "closing")
    BY <1>13 DEF CertGood
<1> QED
    BY <1>2, <1>3, <1>8, <1>14

LEMMA CloseProviderKeeps ==
    ASSUME CertInv, CloseProvider
    PROVE  CertInv'
<1>1. closed' = "closing"
    BY DEF CloseProvider
<1> QED
    BY <1>1, CloseCases, CertInvAfter

\* close() has waited for the last job.
LEMMA ClosedAllKeeps ==
    ASSUME CertificateAssumption, CertInv, ClosedAll
    PROVE  CertInv'
<1> DEFINE w == [task |-> task, queue |-> queue, active |-> active, cache |-> <<>>, handshake |-> handshake]
<1>1. /\ closed = "closing" /\ closed' = "closed" /\ CertBecomes(w)
      /\ \A h \in Hosts : ~IsPending(CertWorld, h)
    BY DEF ClosedAll, CertBecomes, Pending, IsPending
<1>2. CertTyped(w) /\ Len(w.cache) = 0 /\ 0 <= MaxCache
    BY ProviderIs DEF CertTyped, CertificateAssumption
<1>3. w.task = task /\ w.queue = queue /\ w.active = active /\ w.cache = <<>> /\ w.handshake = handshake
    OBVIOUS
<1> HIDE DEF w
<1>4. Range(w.cache) = {} /\ IsInjective(w.cache)
    BY <1>3 DEF Range, IsInjective
<1>5. StartedIn(w) = StartedIn(CertWorld) /\ \A o : IsPending(w, o) <=> IsPending(CertWorld, o)
    BY <1>3, ProviderFields DEF StartedIn, IsPending
<1>6. ASSUME NEW o \in Hosts
      PROVE  /\ o \in Range(w.queue) => w.task[o] = NewTask
             /\ w.task[o].started => IsPending(w, o)
             /\ ~IsPending(w, o)
    BY <1>1, <1>3, <1>5, TasksAre
<1>7. CertSound(w, "closed")
    BY <1>1, <1>2, <1>3, <1>4, <1>5, <1>6, ProviderIs DEF CertSound
<1>8. CertGood(w, "closed")
    BY <1>7 DEF CertGood
<1> QED
    BY <1>1, <1>8, CertInvAfter

LEMMA CertInitHolds ==
    ASSUME CertificateAssumption, CertInit
    PROVE  CertInv
<1> DEFINE w == CertWorld
           h0 == CHOOSE h \in Hosts : TRUE
<1>1. /\ w.task = [h \in Hosts |-> NoTask] /\ w.queue = <<>> /\ w.active = 0 /\ w.cache = <<>>
      /\ w.handshake = [r \in Handshakes |-> [host |-> h0, state |-> "idle"]] /\ closed = "open"
    BY ProviderFields DEF CertInit
<1>2. h0 \in Hosts /\ NoTask \in Task /\ ~NoTask.timer /\ ~NoTask.aborted /\ ~NoTask.started
    BY DEF CertificateAssumption, NoTask, Task
<1> HIDE DEF h0
<1>3. CertTyped(w)
    <2>1. w.task \in [Hosts -> Task]
        BY <1>1, <1>2
    <2>2. w.handshake \in [Handshakes -> Handshake]
        BY <1>1, <1>2 DEF Handshake
    <2>3. w.queue \in Seq(Hosts) /\ w.cache \in Seq(Hosts) /\ w.active \in 0..MaxActive
        BY <1>1 DEF CertificateAssumption
    <2> QED
        BY <2>1, <2>2, <2>3 DEF CertTyped, CertWorld
<1> HIDE DEF w
<1>4. \A h \in Hosts : w.task[h] = NoTask /\ ~IsPending(w, h)
    BY <1>1, <1>2 DEF IsPending
<1>5. StartedIn(w) = {}
    BY <1>2, <1>4 DEF StartedIn
<1>6. /\ Range(w.queue) = {} /\ IsInjective(w.queue) /\ Range(w.cache) = {} /\ IsInjective(w.cache)
      /\ Len(w.cache) <= MaxCache
    BY <1>1 DEF Range, IsInjective, CertificateAssumption
<1>7. \A r \in Handshakes : w.handshake[r].state # "waiting"
    BY <1>1
<1>8. IsFiniteSet(StartedIn(w)) /\ w.active = Cardinality(StartedIn(w))
    BY <1>1, <1>5, FS_EmptySet
<1>9. CertSound(w, closed)
    BY <1>1, <1>2, <1>3, <1>4, <1>6, <1>7, <1>8 DEF CertSound
<1> QED
    BY <1>1, <1>9 DEF CertInv, CertGood, w

LEMMA CertStutters ==
    ASSUME CertInv, UNCHANGED certVars
    PROVE  CertInv'
<1>1. /\ CertWorld' = CertWorld /\ closed' = closed
    BY DEF certVars, CertWorld
<1> QED
    BY <1>1 DEF CertInv

LEMMA CertInvariantHolds ==
    ASSUME CertificateAssumption
    PROVE  CertSpec => []CertInv
<1>1. CertInit => CertInv
    BY CertInitHolds
<1>2. CertInv /\ [CertNext]_certVars => CertInv'
    <2> SUFFICES ASSUME CertInv, [CertNext]_certVars
                 PROVE  CertInv'
        OBVIOUS
    <2>1. ASSUME NEW r \in Handshakes, NEW h \in Hosts, Issue(r, h)
          PROVE  CertInv'
        BY <2>1, IssueKeeps
    <2>2. ASSUME NEW h \in Hosts, Deadline(h)
          PROVE  CertInv'
        BY <2>2, DeadlineKeeps
    <2>3. ASSUME NEW h \in Hosts, NEW success \in BOOLEAN, Generated(h, success)
          PROVE  CertInv'
        BY <2>3, GeneratedKeeps
    <2>4. CASE CloseProvider
        BY <2>4, CloseProviderKeeps
    <2>5. CASE ClosedAll
        BY <2>5, ClosedAllKeeps
    <2>6. CASE UNCHANGED certVars
        BY <2>6, CertStutters
    <2> QED
        BY <2>1, <2>2, <2>3, <2>4, <2>5, <2>6 DEF CertNext
<1> QED
    BY <1>1, <1>2, PTL DEF CertSpec

\* Every variable of the certificate provider keeps its type: the slots are at most
\* MaxActive and no name is twice in the cache, which has at most MaxCache.
THEOREM CertTypeCorrect ==
    ASSUME CertificateAssumption
    PROVE  CertSpec => []CertTypeOK
<1>1. CertInv => CertTypeOK
    BY ProviderIs DEF CertInv, CertTypeOK
<1> QED
    BY <1>1, CertInvariantHolds, PTL

\* What the run checks of the provider's slots, tasks, handshakes and cache.
LEMMA CertInvShows ==
    ASSUME CertificateAssumption, CertInv
    PROVE  TaskSlotsBalance /\ WaitersHaveTask /\ ClosedIsEmpty /\ AbortedIsNotKept
<1>1. Running = StartedIn(CertWorld) /\ ToSet(queue) = Range(queue) /\ ToSet(cache) = Range(cache)
    BY ProviderFields DEF Running, StartedIn, ToSet, Range
<1>2. Range(queue) \subseteq Hosts
    <2>1. \A i \in DOMAIN queue : queue[i] \in Hosts
        BY ProviderIs, LenProperties, ElementOfSeq
    <2> QED
        BY <2>1 DEF Range
<1>3. \A h \in Hosts : h \in Pending(CertWorld) <=> IsPending(CertWorld, h)
    BY DEF Pending, IsPending
<1>4. TaskSlotsBalance
    <2>1. active = Cardinality(Running) /\ active <= MaxActive
        BY <1>1, ProviderIs DEF CertificateAssumption
    <2>2. \A h \in Range(queue) : ~task[h].started /\ IsPending(CertWorld, h)
        BY <1>2, TasksAre DEF NewTask
    <2>3. \A h \in Hosts : /\ h \in Running => IsPending(CertWorld, h)
                           /\ IsPending(CertWorld, h) => h \in Running \/ h \in Range(queue)
        BY TasksAre DEF Running
    <2>4. Pending(CertWorld) = ToSet(queue) \cup Running
        BY <1>1, <1>2, <1>3, <2>2, <2>3 DEF Pending, Running
    <2> QED
        BY <1>1, <2>1, <2>2, <2>4, ProviderIs DEF TaskSlotsBalance
<1>5. WaitersHaveTask
    BY <1>3, ProviderIs DEF WaitersHaveTask
<1>6. ClosedIsEmpty
    <2> SUFFICES ASSUME closed = "closed"
                 PROVE  active = 0 /\ cache = <<>> /\ Pending(CertWorld) = {}
        BY DEF ClosedIsEmpty
    <2>1. cache = <<>> /\ \A h \in Hosts : ~IsPending(CertWorld, h)
        BY ProviderIs
    <2>2. Pending(CertWorld) = {}
        BY <1>3, <2>1 DEF Pending
    <2>3. StartedIn(CertWorld) = {}
        BY <2>1, ProviderFields, TasksAre DEF StartedIn
    <2> QED
        BY <2>1, <2>2, <2>3, ProviderIs, FS_EmptySet
<1>7. AbortedIsNotKept
    <2>1. ASSUME NEW h \in Hosts, task[h].aborted
          PROVE  ~Contains(cache, h)
        <3>1. h \notin Range(cache)
            BY <2>1, TasksAre
        <3> QED
            BY <3>1, ProviderIs, LenProperties DEF Contains, Range
    <2> QED
        BY <2>1 DEF AbortedIsNotKept
<1> QED
    BY <1>4, <1>5, <1>6, <1>7

-----------------------------------------------------------------------------
\* Who waits in the pool of openssl jobs is who is in the queue, who runs has started.
LEMMA PoolStateIs ==
    ASSUME CertInv
    PROVE  /\ Running = StartedIn(CertWorld) /\ active = Cardinality(Running)
           /\ \A h : Pool!Waiting(h) <=> h \in Range(queue)
BY ProviderIs, ProviderFields, LenProperties DEF Running, StartedIn, Pool!Waiting, Range

\* Both modules count and remove in the same way.
LEMMA PoolCounts ==
    ASSUME NEW S
    PROVE  Pool!Cardinality(S) = Cardinality(S)
BY DEF Cardinality, Pool!Cardinality

LEMMA PoolRemoves ==
    ASSUME NEW s, NEW e
    PROVE  Pool!RemoveFirst(s, e) = RemoveFirst(s, e)
BY DEF RemoveFirst, RemoveAt, SelectInSeq, Pool!RemoveFirst, Pool!RemoveAt, Pool!SelectInSeq, Min, Pool!Min

\* Nobody is started or made to wait.
PoolStays == queue' = queue /\ Running' = Running /\ (closed' # "open" <=> closed # "open")

LEMMA PoolStutters ==
    ASSUME PoolStays
    PROVE  UNCHANGED Pool!poolVars
BY DEF PoolStays, Pool!poolVars

\* The world a step leaves has the queue and the running jobs the pool sees.
LEMMA PoolAfter ==
    ASSUME NEW w, CertBecomes(w)
    PROVE  queue' = w.queue /\ Running' = StartedIn(w)
BY DEF CertBecomes, Running, StartedIn

\* A job that ends, or is given up, is a step of the pool.
LEMMA FinishIsPoolStep ==
    ASSUME CertificateAssumption, CertInv, NEW h \in Hosts, IsPending(CertWorld, h),
           NEW how \in {"issued", "failed"}, NEW w, CertTyped(w), w.queue = queue, w.active = active,
           w.handshake = handshake, w.task[h].started = task[h].started,
           \A o \in Hosts \ {h} : w.task[o] = task[o],
           IsInjective(w.cache), Len(w.cache) <= MaxCache, Range(w.cache) \subseteq Range(cache) \cup {h},
           CertBecomes(FinishTask(w, h, how)), UNCHANGED closed
    PROVE  IF task[h].started THEN Pool!Ends(h) ELSE Pool!GivesUp(h)
<1>1. PICK v : /\ FinishTask(w, h, how) = Drain(v) /\ CertSound(v, closed)
               /\ v.queue = RemoveFirst(queue, h)
               /\ v.active = IF task[h].started THEN active - 1 ELSE active
               /\ StartedIn(v) = StartedIn(CertWorld) \ {h}
    BY FinishFrees
<1>2. queue' = Drain(v).queue /\ Running' = StartedIn(Drain(v)) /\ CertTyped(v)
    BY <1>1, PoolAfter DEF CertSound
<1>3. Running = StartedIn(CertWorld) /\ (h \in Running <=> task[h].started)
    BY PoolStateIs DEF Running
<1>4. /\ queue \in Seq(Hosts) /\ active \in 0..MaxActive /\ MaxActive \in Nat
      /\ closed # "open" => queue = <<>>
      /\ closed = "open" /\ queue # <<>> => active = MaxActive
    BY ProviderIs DEF CertificateAssumption
<1>5. CASE ~task[h].started
    <2>1. h \in Range(queue)
        BY <1>5, TasksAre
    <2>2. queue # <<>> /\ closed = "open" /\ v.active = MaxActive
        BY <1>1, <1>4, <1>5, <2>1 DEF Range
    <2>3. Drain(v) = v
        BY <1>2, <2>2, DrainsNothing
    <2>4. Running' = Running /\ queue' = Pool!RemoveFirst(queue, h)
        BY <1>1, <1>2, <1>3, <1>5, <2>3, PoolRemoves
    <2>5. Pool!Waiting(h)
        BY <2>1, PoolStateIs
    <2> QED
        BY <1>5, <2>4, <2>5 DEF Pool!GivesUp
<1>6. CASE task[h].started
    <2>1. h \notin Range(queue)
        BY <1>6, TasksAre DEF NewTask
    <2>2. v.queue = queue /\ v.active = active - 1
        <3>1. ~\E i \in 1..Len(queue) : queue[i] = h
            BY <1>4, <2>1, LenProperties DEF Range
        <3>2. RemoveFirst(queue, h) = queue
            BY <3>1 DEF RemoveFirst
        <3> QED
            BY <1>1, <1>6, <3>2
    <2>3. CASE queue = <<>>
        <3>1. Drain(v) = v
            BY <1>2, <2>2, <2>3, DrainsNothing
        <3> QED
            BY <1>1, <1>2, <1>3, <1>6, <2>2, <2>3, <3>1 DEF Pool!Ends
    <2>4. CASE queue # <<>>
        <3> DEFINE e == Head(queue)
                   x == [v.task[e] EXCEPT !.started = TRUE]
        <3>1. closed = "open" /\ v.active = MaxActive - 1
            BY <1>4, <2>2, <2>4
        <3>2. v.active < MaxActive
            BY <1>4, <3>1
        <3>3. Drain(v).task = [v.task EXCEPT ![e] = x] /\ Drain(v).queue = Tail(queue)
            BY <1>2, <2>2, <2>4, <3>1, <3>2, DrainsOne
        <3>4. e \in Hosts /\ v.task \in [Hosts -> Task] /\ v.task[e] \in Task
            BY <1>2, <1>4, <2>4, CertFields, HeadTailProperties
        <3>5. x.started
            BY <3>4 DEF Task
        <3> HIDE DEF x, e
        <3>6. StartedIn(Drain(v)) = StartedIn(v) \cup {e}
            BY <3>3, <3>4, <3>5 DEF StartedIn
        <3> QED
            BY <1>1, <1>2, <1>3, <1>6, <2>4, <3>3, <3>6 DEF Pool!Ends, e
    <2> QED
        BY <2>3, <2>4
<1> QED
    BY <1>5, <1>6

LEMMA IssueIsPoolStep ==
    ASSUME CertificateAssumption, CertInv, NEW r \in Handshakes, NEW h \in Hosts, Issue(r, h)
    PROVE  PoolStays \/ Pool!Starts(h) \/ Pool!Queues(h)
<1>1. UNCHANGED closed
    BY IssueCases
<1>2. ASSUME NEW how, CertBecomes(Answered(r, h, how))
      PROVE  PoolStays
    BY <1>1, <1>2, AnsweredIs DEF PoolStays, CertBecomes, Running
<1>3. CASE CertBecomes([Answered(r, h, "issued") EXCEPT !.cache = Cached(@, h)])
    BY <1>1, <1>3, AnsweredIs DEF PoolStays, CertBecomes, Running
<1>4. CASE /\ closed = "open" /\ h \notin Pending(CertWorld) /\ ~Contains(cache, h)
           /\ active < MaxActive \/ Len(queue) < MaxQueued
           /\ CertBecomes(Drain(Anew(r, h)))
    <2> DEFINE v == Anew(r, h)
    <2>1. /\ CertSound(v, closed) /\ v.queue = Append(queue, h) /\ v.active = active
          /\ StartedIn(v) = StartedIn(CertWorld) /\ h \notin Range(queue)
          /\ (v.active = MaxActive \/ (Len(v.queue) = 1 /\ queue = <<>>))
        BY <1>4, NewTaskIsSound, AnewDrains
    <2>2. queue' = Drain(v).queue /\ Running' = StartedIn(Drain(v)) /\ CertTyped(v)
        BY <1>4, <2>1, PoolAfter DEF CertSound
    <2> HIDE DEF v
    <2>3. Running = StartedIn(CertWorld) /\ active = Cardinality(Running) /\ h \notin Running
        <3>1. h \notin Pending(CertWorld) /\ (task[h].started => h \in Pending(CertWorld))
            BY <1>4, TasksAre, ProviderFields DEF Pending
        <3> QED
            BY <3>1, PoolStateIs DEF Running
    <2>4. Pool!Idle(h) /\ closed = "open" /\ closed' = "open"
        BY <1>1, <1>4, <2>1, <2>3, PoolStateIs DEF Pool!Idle
    <2>5. CASE active = MaxActive
        <3>1. Drain(v) = v
            BY <2>1, <2>2, <2>5, DrainsNothing
        <3>2. Len(queue) < MaxQueued
            BY <1>4, <2>5, ProviderIs DEF CertificateAssumption
        <3> QED
            BY <2>1, <2>2, <2>3, <2>4, <2>5, <3>1, <3>2, PoolCounts DEF Pool!Queues
    <2>6. CASE active # MaxActive
        <3> DEFINE x == [v.task[h] EXCEPT !.started = TRUE]
        <3>1. queue = <<>> /\ v.active < MaxActive /\ active < MaxActive
            BY <2>1, <2>6, ProviderIs DEF CertificateAssumption
        <3>2. Head(v.queue) = h /\ Tail(v.queue) = <<>> /\ v.queue # <<>> /\ Len(v.queue) = 1
            <4>1. v.queue = <<h>>
                BY <2>1, <3>1
            <4> QED
                BY <4>1
        <3>3. Drain(v).task = [v.task EXCEPT ![h] = x] /\ Drain(v).queue = <<>>
            BY <2>2, <2>4, <3>1, <3>2, DrainsOne
        <3>4. v.task \in [Hosts -> Task] /\ v.task[h] \in Task
            BY <2>2, CertFields
        <3>5. x.started
            BY <3>4 DEF Task
        <3> HIDE DEF x
        <3>6. StartedIn(Drain(v)) = StartedIn(v) \cup {h}
            BY <3>3, <3>4, <3>5 DEF StartedIn
        <3> QED
            BY <2>1, <2>2, <2>3, <2>4, <3>1, <3>3, <3>6, PoolCounts DEF Pool!Starts
    <2> QED
        BY <2>5, <2>6
<1> QED
    BY <1>2, <1>3, <1>4, IssueCases

LEMMA GeneratedIsPoolStep ==
    ASSUME CertificateAssumption, CertInv, NEW h \in Hosts, NEW success \in BOOLEAN, Generated(h, success)
    PROVE  Pool!Ends(h)
<1>1. /\ IsPending(CertWorld, h) /\ UNCHANGED closed /\ task[h].started
    BY TasksAre DEF Generated
<1>2. PICK how, k, w :
          /\ how \in {"issued", "failed"} /\ k \in Seq(Hosts)
          /\ IsInjective(k) /\ Len(k) <= MaxCache /\ Range(k) \subseteq Range(cache) \cup {h}
          /\ w = [task |-> task, queue |-> queue, active |-> active, cache |-> k, handshake |-> handshake]
          /\ CertBecomes(FinishTask(w, h, how))
    BY GeneratedCases
<1>3. CertTyped(w)
    BY <1>2, ProviderIs DEF CertTyped
<1>4. w.task = task /\ w.queue = queue /\ w.active = active /\ w.cache = k /\ w.handshake = handshake
    BY <1>2
<1> QED
    BY <1>1, <1>2, <1>3, <1>4, FinishIsPoolStep

LEMMA DeadlineIsPoolStep ==
    ASSUME CertificateAssumption, CertInv, NEW h \in Hosts, Deadline(h)
    PROVE  PoolStays \/ Pool!GivesUp(h)
<1>1. PICK w : /\ CertTyped(w) /\ w.queue = queue /\ w.active = active /\ w.cache = cache
               /\ w.handshake = handshake /\ w.task[h].started = task[h].started
               /\ \A o \in Hosts \ {h} : w.task[o] = task[o]
               /\ CertBecomes(IF task[h].started THEN w ELSE FinishTask(w, h, "failed"))
    BY DeadlineCases
<1>2. UNCHANGED closed /\ IsPending(CertWorld, h)
    BY TasksAre DEF Deadline
<1>3. CASE task[h].started
    <2>1. StartedIn(w) = Running
        BY <1>1 DEF StartedIn, Running
    <2> QED
        BY <1>1, <1>2, <1>3, <2>1, PoolAfter DEF PoolStays
<1>4. CASE ~task[h].started
    BY <1>1, <1>2, <1>4, FinishIsPoolStep, ProviderIs
<1> QED
    BY <1>3, <1>4

LEMMA CloseIsPoolStep ==
    ASSUME CertificateAssumption, CertInv, CloseProvider
    PROVE  Pool!Shuts
<1>1. PICK w : /\ CertBecomes(w) /\ w.queue = <<>>
               /\ \A h \in Hosts : w.task[h].started = task[h].started
    BY CloseCases
<1>2. StartedIn(w) = Running /\ closed = "open" /\ closed' = "closing"
    BY <1>1 DEF StartedIn, Running, CloseProvider
<1> QED
    BY <1>1, <1>2, PoolAfter DEF Pool!Shuts

LEMMA CertStepIsPoolStep ==
    ASSUME CertificateAssumption, CertInv, [CertNext]_certVars
    PROVE  [Pool!PoolNext]_(Pool!poolVars)
<1>1. ASSUME NEW h \in Hosts, Pool!Starts(h) \/ Pool!Queues(h) \/ Pool!Ends(h) \/ Pool!GivesUp(h)
      PROVE  Pool!PoolNext
    BY <1>1 DEF Pool!PoolNext
<1>2. ASSUME NEW r \in Handshakes, NEW h \in Hosts, Issue(r, h) PROVE PoolStays \/ Pool!PoolNext
    BY <1>1, <1>2, IssueIsPoolStep
<1>3. ASSUME NEW h \in Hosts, Deadline(h) PROVE PoolStays \/ Pool!PoolNext
    BY <1>1, <1>3, DeadlineIsPoolStep
<1>4. ASSUME NEW h \in Hosts, NEW success \in BOOLEAN, Generated(h, success) PROVE Pool!PoolNext
    BY <1>1, <1>4, GeneratedIsPoolStep
<1>5. ASSUME CloseProvider PROVE Pool!PoolNext
    BY <1>5, CloseIsPoolStep DEF Pool!PoolNext
<1>6. ASSUME ClosedAll PROVE PoolStays
    BY <1>6 DEF ClosedAll, PoolStays, Running
<1>7. ASSUME UNCHANGED certVars PROVE PoolStays
    BY <1>7 DEF certVars, PoolStays, Running
<1>8. PoolStays \/ Pool!PoolNext
    BY <1>2, <1>3, <1>4, <1>5, <1>6, <1>7 DEF CertNext
<1> QED
    BY <1>8, PoolStutters

\* The certificate provider keeps what a pool of slow jobs promises: a job ends, fails, is
\* given up at its deadline or dropped by close(), and the slot goes to the next in order.
THEOREM CertificatesImplementPool ==
    ASSUME CertificateAssumption
    PROVE  CertSpec => Pool!PoolSpec
<1>1. CertInit => Pool!PoolInit
    <2> SUFFICES ASSUME CertInit PROVE Pool!PoolInit
        OBVIOUS
    <2>1. \A h \in Hosts : ~task[h].started
        BY DEF CertInit, NoTask
    <2> QED
        BY <2>1 DEF CertInit, Pool!PoolInit, Running
<1>2. CertInv /\ [CertNext]_certVars => [Pool!PoolNext]_(Pool!poolVars)
    BY CertStepIsPoolStep
<1> QED
    BY <1>1, <1>2, CertInvariantHolds, PTL DEF CertSpec, Pool!PoolSpec

-----------------------------------------------------------------------------
\* Places, slots and tasks of the SNI router, its certificates and the lookups balance,
\* whatever ends what had them; nothing is issued or kept that was given up or closed.
THEOREM SlotsBalanceAlways ==
    ASSUME PlacesAssumption
    PROVE  PlacesSpec => []SlotsBalance
<1>1. SniAssumption /\ LookupAssumption /\ CertificateAssumption
    BY DEF PlacesAssumption
<1>2. CertSpec => []CertInv
    BY <1>1, CertInvariantHolds
<1>3. CertInv => TaskSlotsBalance /\ WaitersHaveTask /\ ClosedIsEmpty /\ AbortedIsNotKept
    BY <1>1, CertInvShows
<1>4. SniSpec => []PlacesBalance
    BY <1>1, PlacesAreGivenBack
<1>5. LookupSpec => []LookupSlotsBalance
    BY <1>1, LookupSlotsAreBalanced
<1> QED
    BY <1>2, <1>3, <1>4, <1>5, PTL DEF SlotsBalance, PlacesSpec

-----------------------------------------------------------------------------
\* The session authority, for any sets of sessions, logins and upgraded connections and
\* any capacity of the store.  Its handlers are functions from one state to the next; so
\* is the proof: each of them keeps GoodAuthority, and a handler that composes several keeps it
\* too.  While a session is granted or renewed it is the one whose data has yet to be
\* saved (SoundBut).

\* States of the authority, whole and with one session whose data has yet to be saved.
Authorities == [record : [Sessions -> Record \cup {NoRecord}], store : Seq(Sessions),
          stored : [Sessions -> 0..MaxGeneration], tunnel : [Tunnels -> Tunnel]]

Attached(w) ==
    \A t \in Tunnels :
        LET id == w.tunnel[t].id IN
        /\ w.tunnel[t].client => Alive(w, id) /\ t \in w.record[id].clients
        /\ w.tunnel[t].upstream => Alive(w, id) /\ t \in w.record[id].upstreams

SavedBut(w, unsaved) ==
    /\ IsInjective(w.store)
    /\ \A id \in Sessions \ {unsaved} : id \in Range(w.store) <=> Alive(w, id)
    /\ \A id \in Sessions \ {unsaved} : Alive(w, id) => w.stored[id] = w.record[id].generation

SoundBut(w, unsaved) == w \in Authorities /\ Attached(w) /\ SavedBut(w, unsaved)

SoundAll(w) == SoundBut(w, NoSession)

GoodAuthority(w) == SoundAll(w) /\ Len(w.store) <= MaxStored

RequestsTyped == responses \in SUBSET Sessions /\ login \in [Logins -> Login]

AuthorityInv == GoodAuthority(Now) /\ RequestsTyped

LEMMA RecordIsNot ==
    \A r \in Record : r # NoRecord /\ r.generation \in 1..MaxGeneration
                     /\ r.clients \in SUBSET Tunnels /\ r.upstreams \in SUBSET Tunnels
BY DEF Record, NoRecord

LEMMA RevokeFacts ==
    ASSUME SessionAssumption, NEW w, NEW id \in Sessions, SoundBut(w, id), Alive(w, id)
    PROVE  /\ SoundAll(Revoke(w, id)) /\ ~Alive(Revoke(w, id), id)
           /\ Len(Revoke(w, id).store) = IF id \in Range(w.store) THEN Len(w.store) - 1 ELSE Len(w.store)
<1> DEFINE v == Revoke(w, id)
           cut(t) == [w.tunnel[t] EXCEPT
                  !.client = w.tunnel[t].client /\ t \notin w.record[id].clients,
                  !.upstream = w.tunnel[t].upstream /\ t \notin w.record[id].upstreams]
<1>1. /\ v.record = [w.record EXCEPT ![id] = NoRecord]
      /\ v.store = RemoveFirst(w.store, id)
      /\ v.stored = [w.stored EXCEPT ![id] = 0]
      /\ v.tunnel = [t \in Tunnels |-> cut(t)]
      /\ v = [record |-> v.record, store |-> v.store, stored |-> v.stored, tunnel |-> v.tunnel]
    BY DEF Revoke
<1>2. /\ w.record \in [Sessions -> Record \cup {NoRecord}] /\ w.store \in Seq(Sessions)
      /\ w.stored \in [Sessions -> 0..MaxGeneration] /\ w.tunnel \in [Tunnels -> Tunnel]
      /\ IsInjective(w.store)
    BY DEF SoundBut, SavedBut, Authorities
<1>3. /\ v.store \in Seq(Sessions) /\ IsInjective(v.store) /\ Range(v.store) = Range(w.store) \ {id}
      /\ Len(v.store) = IF id \in Range(w.store) THEN Len(w.store) - 1 ELSE Len(w.store)
    <2> DEFINE s == w.store
    <2>1. s \in Seq(Sessions) /\ IsInjective(s) /\ v.store = RemoveFirst(s, id)
        BY <1>1, <1>2
    <2> HIDE DEF s, v
    <2>2. /\ v.store \in Seq(Sessions) /\ IsInjective(v.store) /\ Range(v.store) = Range(s) \ {id}
          /\ Len(v.store) = IF id \in Range(s) THEN Len(s) - 1 ELSE Len(s)
        BY <2>1, RemoveFirstFacts
    <2> QED
        BY <2>2 DEF s
<1>4. \A t \in Tunnels :
        /\ cut(t) \in Tunnel /\ cut(t).id = w.tunnel[t].id
        /\ cut(t).client <=> w.tunnel[t].client /\ t \notin w.record[id].clients
        /\ cut(t).upstream <=> w.tunnel[t].upstream /\ t \notin w.record[id].upstreams
    <2> TAKE t \in Tunnels
    <2> DEFINE n == w.tunnel[t]
               a == n.client /\ t \notin w.record[id].clients
               b == n.upstream /\ t \notin w.record[id].upstreams
    <2>1. n \in Tunnel /\ a \in BOOLEAN /\ b \in BOOLEAN
        BY <1>2
    <2>2. cut(t) = [n EXCEPT !.client = a, !.upstream = b]
        OBVIOUS
    <2>3. (a <=> n.client /\ t \notin w.record[id].clients)
          /\ (b <=> n.upstream /\ t \notin w.record[id].upstreams)
        OBVIOUS
    <2>4. cut(t) \in Tunnel /\ cut(t).id = n.id /\ cut(t).client = a /\ cut(t).upstream = b
        <3> DEFINE m == cut(t)
        <3>1. m = [n EXCEPT !.client = a, !.upstream = b]
            BY <2>2
        <3> HIDE DEF n, a, b, m
        <3>2. m \in Tunnel /\ m.id = n.id /\ m.client = a /\ m.upstream = b
            BY <2>1, <3>1 DEF Tunnel
        <3> QED
            BY <3>2 DEF m
    <2> HIDE DEF a, b, cut
    <2> QED
        BY <2>3, <2>4
<1>5. v \in Authorities
    <2>1. v.record \in [Sessions -> Record \cup {NoRecord}]
        <3> HIDE DEF v
        <3>1. w.record \in [Sessions -> Record \cup {NoRecord}] /\ v.record = [w.record EXCEPT ![id] = NoRecord]
            BY <1>1, <1>2
        <3> QED
            BY <3>1
    <2>2. v.stored \in [Sessions -> 0..MaxGeneration]
        <3> HIDE DEF v
        <3>1. 0 \in 0..MaxGeneration
            BY SessionAssumption
        <3>2. w.stored \in [Sessions -> 0..MaxGeneration] /\ v.stored = [w.stored EXCEPT ![id] = 0]
            BY <1>1, <1>2
        <3> QED
            BY <3>1, <3>2
    <2>3. v.tunnel \in [Tunnels -> Tunnel]
        <3> HIDE DEF v, cut
        <3>1. v.tunnel = [t \in Tunnels |-> cut(t)] /\ \A t \in Tunnels : cut(t) \in Tunnel
            BY <1>1, <1>4
        <3> QED
            BY <3>1
    <2> HIDE DEF v
    <2> QED
        BY <1>1, <1>3, <2>1, <2>2, <2>3 DEF Authorities
<1>6. /\ v.record[id] = NoRecord /\ v.stored[id] = 0
      /\ \A o \in Sessions \ {id} : v.record[o] = w.record[o] /\ v.stored[o] = w.stored[o]
    BY <1>1, <1>2
<1>7. \A t \in Tunnels : v.tunnel[t] = cut(t)
    BY <1>1
<1> HIDE DEF v, cut
<1>8. Attached(v)
    BY <1>4, <1>6, <1>7 DEF Attached, SoundBut, Alive
<1>9. SavedBut(v, NoSession)
    BY <1>3, <1>6 DEF SavedBut, SoundBut, Alive
<1> QED
    BY <1>3, <1>5, <1>6, <1>8, <1>9 DEF v, SoundAll, SoundBut, Alive

LEMMA SoundIsSoundBut ==
    ASSUME SessionAssumption, NEW w, SoundAll(w), NEW id
    PROVE  SoundBut(w, id)
BY DEF SessionAssumption, SoundAll, SoundBut, SavedBut

LEMMA RevokeKeeps ==
    ASSUME SessionAssumption, NEW w, GoodAuthority(w), NEW id
    PROVE  GoodAuthority(Revoke(w, id)) /\ ~Alive(Revoke(w, id), id)
<1>1. CASE Alive(w, id)
    <2>1. id \in Sessions /\ SoundBut(w, id) /\ Len(w.store) \in Nat /\ Len(w.store) <= MaxStored
        <3>1. id \in Sessions
            BY <1>1 DEF Alive
        <3>2. SoundBut(w, id) /\ Len(w.store) <= MaxStored
            BY SoundIsSoundBut DEF GoodAuthority
        <3>3. w.store \in Seq(Sessions)
            BY <3>2 DEF SoundBut, Authorities
        <3>4. Len(w.store) \in Nat
            BY <3>3, LenProperties
        <3> QED
            BY <3>1, <3>2, <3>4
    <2> QED
        BY <1>1, <2>1, RevokeFacts, SessionAssumption DEF GoodAuthority
<1>2. CASE ~Alive(w, id)
    BY <1>2 DEF Revoke
<1> QED
    BY <1>1, <1>2

\* active() leaves a session as it is, or ends it.
LEMMA LookKeeps ==
    ASSUME SessionAssumption, NEW w, GoodAuthority(w), NEW id
    PROVE  GoodAuthority(Look(w, id)) /\ (Alive(Look(w, id), id) => Look(w, id) = w)
BY RevokeKeeps DEF Look

\* store.set() saves what is alive and drops what was used least recently.
LEMMA KeepKeeps ==
    ASSUME SessionAssumption, NEW w, NEW id \in Sessions, SoundBut(w, id), Alive(w, id),
           Len(w.store) <= MaxStored
    PROVE  GoodAuthority(Keep(w, id))
<1>1. w \in Authorities /\ Attached(w) /\ SavedBut(w, id) /\ w.store \in Seq(Sessions) /\ IsInjective(w.store)
    BY DEF SoundBut, SavedBut, Authorities
<1>2. Len(w.store) \in Nat /\ MaxStored \in Nat \ {0}
    BY <1>1, LenProperties, SessionAssumption
<1>3. CASE w.record[id].overdue
    <2>1. Look(w, id) = Revoke(w, id) /\ Keep(w, id) = Revoke(w, id)
        BY <1>3, RevokeFacts DEF Look, Keep
    <2> QED
        BY <1>2, <2>1, RevokeFacts DEF GoodAuthority
<1>4. CASE ~w.record[id].overdue
    <2> DEFINE s == RemoveFirst(w.store, id)
               kept == [w EXCEPT !.store = Append(s, id), !.stored[id] = w.record[id].generation]
    <2>1. Look(w, id) = w
        BY <1>4 DEF Look
    <2>2. Keep(w, id) = IF Len(kept.store) > MaxStored THEN Revoke(kept, Head(kept.store)) ELSE kept
        BY <2>1 DEF Keep
    <2>3. /\ s \in Seq(Sessions) /\ IsInjective(s) /\ Range(s) = Range(w.store) \ {id}
          /\ Len(s) \in Nat /\ Len(s) <= Len(w.store)
        <3>1. Len(s) = IF id \in Range(w.store) THEN Len(w.store) - 1 ELSE Len(w.store)
            BY <1>1, RemoveFirstFacts
        <3> QED
            BY <1>1, <1>2, <3>1, RemoveFirstFacts, LenProperties
    <2>4. /\ kept.record = w.record /\ kept.tunnel = w.tunnel /\ kept.store = Append(s, id)
          /\ kept.stored = [w.stored EXCEPT ![id] = w.record[id].generation]
        BY <1>1 DEF Authorities
    <2> DEFINE half == [w EXCEPT !.store = Append(s, id)]
    <2>16. kept = [half EXCEPT !.stored[id] = w.record[id].generation]
        BY Zenon
    <2>17. /\ half.record = w.record /\ half.store = Append(s, id)
          /\ half.stored = w.stored /\ half.tunnel = w.tunnel
          /\ (Append(s, id) \in Seq(Sessions) => half \in Authorities)
        BY <1>1 DEF Authorities
    <2> HIDE DEF s, kept, half
    <2>5. Append(s, id) \in Seq(Sessions) /\ Len(Append(s, id)) = Len(s) + 1
        BY <2>3, AppendProperties
    <2>6. Range(Append(s, id)) = Range(s) \cup {id} /\ IsInjective(Append(s, id))
        BY <2>3, AppendRange
    <2>7. w.record[id].generation \in 1..MaxGeneration
        BY <1>1, RecordIsNot DEF Authorities, Alive
    <2>8. /\ kept.stored \in [Sessions -> 0..MaxGeneration]
          /\ kept.stored[id] = w.record[id].generation
          /\ \A o \in Sessions \ {id} : kept.stored[o] = w.stored[o]
        BY <1>1, <2>4, <2>7, SessionAssumption DEF Authorities
    <2>9. kept \in Authorities
        <3>1. half \in Authorities /\ half.stored = w.stored
            BY <2>5, <2>17
        <3>2. [half.stored EXCEPT ![id] = w.record[id].generation] \in [Sessions -> 0..MaxGeneration]
            BY <2>4, <2>8, <3>1
        <3> QED
            BY <2>16, <3>1, <3>2 DEF Authorities
    <2>10. \A o \in Sessions : Alive(kept, o) <=> Alive(w, o)
        BY <2>4 DEF Alive
    <2>11. Attached(kept)
        BY <1>1, <2>4 DEF Attached, Alive
    <2>12. SavedBut(kept, NoSession)
        BY <1>1, <2>3, <2>4, <2>6, <2>8, <2>10 DEF SavedBut
    <2>13. SoundAll(kept)
        BY <2>9, <2>11, <2>12 DEF SoundAll, SoundBut
    <2>14. CASE Len(kept.store) > MaxStored
        <3> DEFINE first == Head(kept.store)
        <3>1. first \in Range(kept.store) /\ first \in Sessions
            BY <2>3, <2>4, <2>5, <1>2, <2>14, LenProperties DEF Range
        <3>2. Alive(kept, first)
            BY <2>12, <3>1, SessionAssumption DEF SavedBut
        <3>3. SoundBut(kept, first)
            BY <2>13, SoundIsSoundBut
        <3> HIDE DEF first
        <3>4. Len(Revoke(kept, first).store) = Len(kept.store) - 1 /\ SoundAll(Revoke(kept, first))
            BY <3>1, <3>2, <3>3, RevokeFacts
        <3>5. Len(kept.store) - 1 <= MaxStored
            BY <1>2, <2>3, <2>4, <2>5
        <3> QED
            BY <2>2, <2>14, <3>4, <3>5 DEF GoodAuthority, first
    <2>15. CASE ~(Len(kept.store) > MaxStored)
        BY <1>2, <2>2, <2>3, <2>4, <2>5, <2>13, <2>15 DEF GoodAuthority
    <2> QED
        BY <2>14, <2>15
<1> QED
    BY <1>3, <1>4

LEMMA KeepWhateverKeeps ==
    ASSUME SessionAssumption, NEW w, NEW id \in Sessions, GoodAuthority(w)
    PROVE  GoodAuthority(Keep(w, id))
<1>1. CASE Alive(Look(w, id), id)
    <2>1. Alive(w, id) /\ SoundBut(w, id) /\ Len(w.store) <= MaxStored
        BY <1>1, LookKeeps, SoundIsSoundBut DEF GoodAuthority
    <2> QED
        BY <2>1, KeepKeeps
<1>2. CASE ~Alive(Look(w, id), id)
    BY <1>2, LookKeeps DEF Keep
<1> QED
    BY <1>1, <1>2

-----------------------------------------------------------------------------
LEMMA WorldFields ==
    ASSUME NEW w \in Authorities
    PROVE  w = [record |-> w.record, store |-> w.store, stored |-> w.stored, tunnel |-> w.tunnel]
BY DEF Authorities

\* What the functions of the authority return is the next state.
LEMMA BecomesKeeps ==
    ASSUME NEW w, GoodAuthority(w), Becomes(w)
    PROVE  GoodAuthority(Now)'
<1>1. w \in Authorities
    BY DEF GoodAuthority, SoundAll, SoundBut
<1>2. Now' = w
    BY <1>1, WorldFields DEF Becomes, Now
<1>3. GoodAuthority(Now')
    BY <1>2
<1> QED
    BY <1>3 DEF GoodAuthority, SoundAll, SoundBut, Attached, SavedBut, Alive, Authorities, Now

LEMMA NowFields ==
    ASSUME GoodAuthority(Now)
    PROVE  /\ record \in [Sessions -> Record \cup {NoRecord}] /\ store \in Seq(Sessions)
           /\ stored \in [Sessions -> 0..MaxGeneration] /\ tunnel \in [Tunnels -> Tunnel]
           /\ \A id \in Sessions : Alive(Now, id) => record[id] \in Record
           /\ \A t \in Tunnels :
                /\ tunnel[t].client => /\ tunnel[t].id \in Sessions
                                       /\ record[tunnel[t].id] \in Record
                                       /\ t \in record[tunnel[t].id].clients
                /\ tunnel[t].upstream => /\ tunnel[t].id \in Sessions
                                         /\ record[tunnel[t].id] \in Record
                                         /\ t \in record[tunnel[t].id].upstreams
<1>1. Now.record = record /\ Now.store = store /\ Now.stored = stored /\ Now.tunnel = tunnel
    BY DEF Now
<1>2. Now \in Authorities /\ Attached(Now)
    BY DEF GoodAuthority, SoundAll, SoundBut
<1>3. /\ record \in [Sessions -> Record \cup {NoRecord}] /\ store \in Seq(Sessions)
      /\ stored \in [Sessions -> 0..MaxGeneration] /\ tunnel \in [Tunnels -> Tunnel]
    BY <1>1, <1>2 DEF Authorities
<1> QED
    BY <1>1, <1>2, <1>3 DEF Attached, Alive

\* One upgraded connection changes, and what its session knows of it.
LEMMA TunnelChangeKeeps ==
    ASSUME SessionAssumption, GoodAuthority(Now), NEW t,
           store' = store, stored' = stored,
           record' \in [Sessions -> Record \cup {NoRecord}], tunnel' \in [Tunnels -> Tunnel],
           \A o \in Tunnels \ {t} : tunnel'[o] = tunnel[o],
           \A id \in Sessions : record[id] = NoRecord <=> record'[id] = NoRecord,
           \A id \in Sessions : record[id] # NoRecord =>
                /\ record'[id].generation = record[id].generation
                /\ \A o \in Tunnels \ {t} : /\ o \in record[id].clients => o \in record'[id].clients
                                            /\ o \in record[id].upstreams => o \in record'[id].upstreams,
           t \in Tunnels =>
                LET id == tunnel'[t].id IN
                /\ tunnel'[t].client => id \in Sessions /\ record'[id] # NoRecord /\ t \in record'[id].clients
                /\ tunnel'[t].upstream => id \in Sessions /\ record'[id] # NoRecord /\ t \in record'[id].upstreams
    PROVE  GoodAuthority(Now)'
<1>1. /\ Now'.record = record' /\ Now'.store = store /\ Now'.stored = stored /\ Now'.tunnel = tunnel'
      /\ Now' = [record |-> record', store |-> store', stored |-> stored', tunnel |-> tunnel']
    BY DEF Now
<1>2. Now' \in Authorities
    BY <1>1, NowFields DEF Authorities
<1>3. \A id \in Sessions : Alive(Now, id) <=> Alive(Now', id)
    BY <1>1 DEF Alive, Now
<1>4. Attached(Now')
    <2> SUFFICES ASSUME NEW o \in Tunnels
                 PROVE  LET id == tunnel'[o].id IN
                        /\ tunnel'[o].client =>
                              id \in Sessions /\ record'[id] # NoRecord /\ o \in record'[id].clients
                        /\ tunnel'[o].upstream =>
                              id \in Sessions /\ record'[id] # NoRecord /\ o \in record'[id].upstreams
        BY <1>1 DEF Attached, Alive
    <2>1. CASE o = t
        BY <2>1
    <2>2. CASE o # t
        <3> DEFINE id == tunnel[o].id
        <3>1. tunnel'[o] = tunnel[o] /\ o \in Tunnels \ {t}
            BY <2>2
        <3>2. /\ tunnel[o].client =>
                    id \in Sessions /\ record[id] # NoRecord /\ o \in record[id].clients
              /\ tunnel[o].upstream =>
                    id \in Sessions /\ record[id] # NoRecord /\ o \in record[id].upstreams
            BY NowFields, RecordIsNot
        <3> QED
            BY <3>1, <3>2
    <2> QED
        BY <2>1, <2>2
<1>5. Now.record = record /\ Now.store = store /\ Now.stored = stored
    BY DEF Now
<1>6. SavedBut(Now, NoSession) /\ Len(store) <= MaxStored
    BY <1>5 DEF GoodAuthority, SoundAll, SoundBut
<1>7. SavedBut(Now', NoSession)
    BY <1>1, <1>3, <1>5, <1>6 DEF SavedBut, Alive
<1>8. GoodAuthority(Now')
    BY <1>1, <1>2, <1>4, <1>6, <1>7 DEF GoodAuthority, SoundAll, SoundBut
<1> QED
    BY <1>8 DEF GoodAuthority, SoundAll, SoundBut, Attached, SavedBut, Alive, Authorities, Now

-----------------------------------------------------------------------------
\* Requests, logins and the passing of time: the authority's own functions.
LEMMA LoadKeeps ==
    ASSUME SessionAssumption, AuthorityInv, NEW id \in Sessions, Load(id)
    PROVE  GoodAuthority(Now)'
<1> DEFINE looked == Look(Now, id)
<1>1. GoodAuthority(Now) /\ GoodAuthority(looked) /\ (Alive(looked, id) => looked = Now)
    BY LookKeeps DEF AuthorityInv
<1>2. CASE ~Alive(looked, id)
    BY <1>1, <1>2, BecomesKeeps DEF Load
<1>3. CASE Alive(looked, id)
    <2> DEFINE s == RemoveFirst(store, id)
               v == [Now EXCEPT !.store = Append(s, id)]
    <2>1. Becomes(v) /\ id \in Range(store)
        <3>1. Becomes([looked EXCEPT !.store = Append(RemoveFirst(looked.store, id), id)])
              /\ id \in Range(store)
            BY <1>3 DEF Load
        <3>2. looked = Now /\ Now.store = store
            BY <1>1, <1>3 DEF Now
        <3> HIDE DEF looked
        <3> QED
            BY <3>1, <3>2
    <2>2. /\ Now.store = store /\ v.record = Now.record /\ v.stored = Now.stored
          /\ v.tunnel = Now.tunnel /\ v.store = Append(s, id)
        BY DEF Now
    <2>3. /\ Now \in Authorities /\ Attached(Now) /\ SavedBut(Now, NoSession) /\ IsInjective(store)
          /\ store \in Seq(Sessions) /\ Len(store) \in Nat /\ Len(store) <= MaxStored
        BY <1>1, <2>2, LenProperties DEF GoodAuthority, SoundAll, SoundBut, SavedBut, Authorities
    <2>4. /\ s \in Seq(Sessions) /\ IsInjective(s) /\ Range(s) = Range(store) \ {id}
          /\ Len(s) = Len(store) - 1
        BY <2>1, <2>3, RemoveFirstFacts
    <2> HIDE DEF s
    <2>5. /\ Append(s, id) \in Seq(Sessions) /\ IsInjective(Append(s, id))
          /\ Range(Append(s, id)) = Range(store) /\ Len(Append(s, id)) = Len(store)
        <3>1. id \notin Range(s) /\ Range(s) \cup {id} = Range(store)
            BY <2>1, <2>4
        <3>2. Range(Append(s, id)) = Range(s) \cup {id} /\ IsInjective(Append(s, id))
            BY <2>4, <3>1, AppendRange
        <3>3. Append(s, id) \in Seq(Sessions) /\ Len(Append(s, id)) = Len(s) + 1
            BY <2>4, AppendProperties
        <3> QED
            BY <2>3, <2>4, <3>1, <3>2, <3>3
    <2>6. v \in Authorities
        BY <2>3, <2>5 DEF Authorities
    <2> HIDE DEF v
    <2>7. Attached(v)
        BY <2>2, <2>3 DEF Attached, Alive
    <2>8. SavedBut(v, NoSession)
        BY <2>2, <2>3, <2>5 DEF SavedBut, Alive
    <2>9. GoodAuthority(v)
        BY <2>2, <2>3, <2>5, <2>6, <2>7, <2>8 DEF GoodAuthority, SoundAll, SoundBut
    <2> QED
        BY <2>1, <2>9, BecomesKeeps
<1> QED
    BY <1>2, <1>3

LEMMA ExtendKeeps ==
    ASSUME SessionAssumption, AuthorityInv, NEW id \in Sessions, NEW generation \in 1..MaxGeneration,
           Extend(id, generation)
    PROVE  GoodAuthority(Now)'
<1> DEFINE looked == Look(Now, id)
<1>1. GoodAuthority(Now) /\ GoodAuthority(looked) /\ (Alive(looked, id) => looked = Now)
    BY LookKeeps DEF AuthorityInv
<1>2. CASE ~(Alive(looked, id) /\ looked.record[id].generation = generation)
    BY <1>1, <1>2, BecomesKeeps DEF Extend
<1>3. CASE Alive(looked, id) /\ looked.record[id].generation = generation
    <2> DEFINE r == [record[id] EXCEPT !.generation = generation + 1]
               v == [Now EXCEPT !.record[id].generation = generation + 1]
    <2>1. Becomes(Keep(v, id)) /\ generation < MaxGeneration
        BY <1>1, <1>3 DEF Extend
    <2>2. /\ Now.store = store /\ Now.record = record /\ Now.stored = stored /\ Now.tunnel = tunnel
          /\ v.store = store /\ v.stored = stored /\ v.tunnel = tunnel
          /\ v.record = [record EXCEPT ![id].generation = generation + 1]
        BY DEF Now
    <2>3. /\ Now \in Authorities /\ Attached(Now) /\ SavedBut(Now, NoSession) /\ Len(store) <= MaxStored
        BY <1>1, <2>2 DEF GoodAuthority, SoundAll, SoundBut
    <2>4. record[id] \in Record /\ record \in [Sessions -> Record \cup {NoRecord}]
        BY <1>1, <1>3, NowFields
    <2>5. r \in Record /\ r.clients = record[id].clients /\ r.upstreams = record[id].upstreams
        <3>1. generation + 1 \in 1..MaxGeneration
            BY <2>1, SessionAssumption
        <3> QED
            BY <2>4, <3>1 DEF Record
    <2>6. v.record = [record EXCEPT ![id] = r]
        BY <2>2, <2>4
    <2>7. v \in Authorities
        <3>1. v = [Now EXCEPT !.record = [record EXCEPT ![id] = r]]
            BY <2>2, <2>6 DEF Now
        <3>2. [record EXCEPT ![id] = r] \in [Sessions -> Record \cup {NoRecord}]
            BY <2>4, <2>5
        <3> HIDE DEF v, r
        <3> QED
            BY <2>3, <3>1, <3>2 DEF Authorities
    <2>8. v.record[id] = r /\ r # NoRecord /\ \A o \in Sessions \ {id} : v.record[o] = record[o]
        BY <2>4, <2>5, <2>6, RecordIsNot
    <2> HIDE DEF v, r
    <2>9. Attached(v) /\ Alive(v, id)
        BY <2>2, <2>3, <2>5, <2>8 DEF Attached, Alive
    <2>10. SavedBut(v, id)
        BY <2>2, <2>3, <2>8, SessionAssumption DEF SavedBut, Alive
    <2>11. GoodAuthority(Keep(v, id))
        BY <2>2, <2>3, <2>7, <2>9, <2>10, KeepKeeps DEF SoundBut
    <2> QED
        BY <2>1, <2>11, BecomesKeeps
<1> QED
    BY <1>2, <1>3

LEMMA RegeneratedKeeps ==
    ASSUME SessionAssumption, AuthorityInv, NEW l \in Logins, NEW id \in Sessions, Regenerated(l, id)
    PROVE  GoodAuthority(Now)'
<1> DEFINE r == [generation |-> 1, overdue |-> FALSE, clients |-> {}, upstreams |-> {}]
           v == Grant(Now, id)
<1>1. /\ Becomes(Keep(v, id)) /\ ~Alive(Now, id)
      /\ \A t \in Tunnels : tunnel[t].id # id
    BY DEF Regenerated, Fresh
<1>2. /\ Now.store = store /\ Now.record = record /\ Now.stored = stored /\ Now.tunnel = tunnel
      /\ v.store = store /\ v.stored = stored /\ v.tunnel = tunnel
      /\ v.record = [record EXCEPT ![id] = r]
    BY DEF Now, Grant
<1>3. /\ Now \in Authorities /\ Attached(Now) /\ SavedBut(Now, NoSession) /\ Len(store) <= MaxStored
    BY <1>2 DEF GoodAuthority, SoundAll, SoundBut, AuthorityInv
<1>4. r \in Record /\ r # NoRecord
    BY SessionAssumption DEF Record, NoRecord
<1>5. record \in [Sessions -> Record \cup {NoRecord}]
    BY NowFields DEF AuthorityInv
<1>6. v \in Authorities
    <2>1. v = [Now EXCEPT !.record = [record EXCEPT ![id] = r]]
        BY DEF Now, Grant
    <2>2. [record EXCEPT ![id] = r] \in [Sessions -> Record \cup {NoRecord}]
        BY <1>4, <1>5
    <2> HIDE DEF v, r
    <2> QED
        BY <1>3, <2>1, <2>2 DEF Authorities
<1>7. v.record[id] = r /\ \A o \in Sessions \ {id} : v.record[o] = record[o]
    BY <1>2, <1>5
<1> HIDE DEF v, r
<1>8. Attached(v) /\ Alive(v, id)
    BY <1>1, <1>2, <1>3, <1>4, <1>7 DEF Attached, Alive
<1>9. SavedBut(v, id)
    BY <1>2, <1>3, <1>7, SessionAssumption DEF SavedBut, Alive
<1>10. GoodAuthority(Keep(v, id))
    BY <1>2, <1>3, <1>6, <1>8, <1>9, KeepKeeps DEF SoundBut
<1> QED
    BY <1>1, <1>10, BecomesKeeps

LEMMA EndingKeeps ==
    ASSUME SessionAssumption, AuthorityInv,
           \/ \E id \in Sessions : Logout(id) \/ TimerFires(id) \/ Disposes(id)
           \/ \E id \in Sessions, saves \in BOOLEAN : ResponseEnds(id, saves)
           \/ \E l \in Logins : Verified(l) \/ (\E failed \in BOOLEAN : Saved(l, failed))
    PROVE  GoodAuthority(Now)'
<1>1. GoodAuthority(Now)
    BY DEF AuthorityInv
<1>2. ASSUME NEW id \in Sessions, Logout(id) \/ TimerFires(id) \/ Disposes(id) PROVE GoodAuthority(Now)'
    BY <1>1, <1>2, RevokeKeeps, LookKeeps, BecomesKeeps DEF Logout, TimerFires, Disposes
<1>3. ASSUME NEW id \in Sessions, NEW saves \in BOOLEAN, ResponseEnds(id, saves) PROVE GoodAuthority(Now)'
    BY <1>1, <1>3, KeepWhateverKeeps, BecomesKeeps DEF ResponseEnds
<1>4. ASSUME NEW l \in Logins, Verified(l) PROVE GoodAuthority(Now)'
    BY <1>1, <1>4, RevokeKeeps, BecomesKeeps DEF Verified
<1>5. ASSUME NEW l \in Logins, NEW failed \in BOOLEAN, Saved(l, failed) PROVE GoodAuthority(Now)'
    <2> DEFINE looked == Look(Now, login[l].id)
    <2>1. GoodAuthority(looked) /\ GoodAuthority(Revoke(looked, login[l].id))
        BY <1>1, LookKeeps, RevokeKeeps
    <2>2. Becomes(looked) \/ Becomes(Revoke(looked, login[l].id))
        BY <1>5 DEF Saved
    <2> HIDE DEF looked
    <2> QED
        BY <2>1, <2>2, BecomesKeeps
<1> QED
    BY <1>2, <1>3, <1>4, <1>5

LEMMA ShutdownKeeps ==
    ASSUME SessionAssumption, AuthorityInv, Shutdown
    PROVE  GoodAuthority(Now)'
<1> DEFINE cut(t) == [tunnel[t] EXCEPT
               !.client = tunnel[t].client
                   /\ \A id \in Sessions : Alive(Now, id) => t \notin record[id].clients,
               !.upstream = tunnel[t].upstream
                   /\ \A id \in Sessions : Alive(Now, id) => t \notin record[id].upstreams]
<1>1. /\ Now' = [record |-> record', store |-> store', stored |-> stored', tunnel |-> tunnel']
      /\ Now'.record = record' /\ Now'.store = store' /\ Now'.stored = stored' /\ Now'.tunnel = tunnel'
    BY DEF Now
<1>2. /\ record' = [id \in Sessions |-> NoRecord] /\ store' = <<>>
      /\ stored' = [id \in Sessions |-> 0] /\ tunnel' = [t \in Tunnels |-> cut(t)]
    BY DEF Shutdown
<1>3. \A t \in Tunnels : cut(t) \in Tunnel /\ ~cut(t).client /\ ~cut(t).upstream
    <2> SUFFICES ASSUME NEW t \in Tunnels
                 PROVE  cut(t) \in Tunnel /\ ~cut(t).client /\ ~cut(t).upstream
        OBVIOUS
    <2>1. tunnel[t] \in Tunnel
        BY NowFields DEF AuthorityInv
    <2>2. /\ tunnel[t].client => \E id \in Sessions : Alive(Now, id) /\ t \in record[id].clients
          /\ tunnel[t].upstream => \E id \in Sessions : Alive(Now, id) /\ t \in record[id].upstreams
        BY NowFields, RecordIsNot DEF AuthorityInv, Alive, Now
    <2>3. cut(t) = [tunnel[t] EXCEPT !.client = FALSE, !.upstream = FALSE]
        BY <2>2
    <2> HIDE DEF cut
    <2> QED
        BY <2>1, <2>3 DEF Tunnel
<1> HIDE DEF cut
<1>4. Now' \in Authorities
    <2>1. /\ record' \in [Sessions -> Record \cup {NoRecord}] /\ store' \in Seq(Sessions)
          /\ tunnel' \in [Tunnels -> Tunnel]
        BY <1>2, <1>3
    <2>2. stored' \in [Sessions -> 0..MaxGeneration]
        BY <1>2, SessionAssumption
    <2> QED
        BY <1>1, <2>1, <2>2 DEF Authorities
<1>5. Attached(Now')
    BY <1>1, <1>2, <1>3 DEF Attached
<1>6. Range(<<>>) = {} /\ IsInjective(<<>>) /\ Len(<<>>) = 0
    BY DEF Range, IsInjective
<1>7. SavedBut(Now', NoSession) /\ Len(Now'.store) <= MaxStored
    BY <1>1, <1>2, <1>6, SessionAssumption DEF SavedBut, Alive
<1>8. GoodAuthority(Now')
    BY <1>4, <1>5, <1>7 DEF GoodAuthority, SoundAll, SoundBut
<1> QED
    BY <1>8 DEF GoodAuthority, SoundAll, SoundBut, Attached, SavedBut, Alive, Authorities, Now

-----------------------------------------------------------------------------
\* Upgraded connections.
LEMMA ExpiresKeeps ==
    ASSUME SessionAssumption, AuthorityInv, NEW id \in Sessions, Expires(id)
    PROVE  GoodAuthority(Now)'
<1> DEFINE r == [record[id] EXCEPT !.overdue = TRUE]
<1>1. /\ record[id] \in Record /\ record \in [Sessions -> Record \cup {NoRecord}]
      /\ tunnel \in [Tunnels -> Tunnel] /\ GoodAuthority(Now)
    BY NowFields DEF AuthorityInv, Expires
<1>2. /\ r \in Record /\ r # NoRecord /\ r.generation = record[id].generation
      /\ r.clients = record[id].clients /\ r.upstreams = record[id].upstreams
    <2>1. r \in Record
        BY <1>1 DEF Record
    <2> QED
        BY <1>1, <2>1, RecordIsNot DEF Record
<1>3. record' = [record EXCEPT ![id] = r] /\ store' = store /\ stored' = stored /\ tunnel' = tunnel
    BY <1>1 DEF Expires
<1> HIDE DEF r
<1>4. /\ record' \in [Sessions -> Record \cup {NoRecord}] /\ record'[id] = r
      /\ \A o \in Sessions \ {id} : record'[o] = record[o]
    BY <1>1, <1>2, <1>3
<1>5. record[id] # NoRecord
    BY <1>1, RecordIsNot
<1>6. \A o \in Sessions : record[o] = NoRecord <=> record'[o] = NoRecord
    BY <1>2, <1>4, <1>5
<1>7. \A o \in Sessions : record'[o].generation = record[o].generation
                        /\ record'[o].clients = record[o].clients
                        /\ record'[o].upstreams = record[o].upstreams
    BY <1>2, <1>4
<1> DEFINE none == CHOOSE x : x \notin Tunnels
<1>8. none \notin Tunnels
    BY NoSetContainsEverything
<1> HIDE DEF none
<1> QED
    BY <1>1, <1>3, <1>4, <1>6, <1>7, <1>8, TunnelChangeKeeps

\* One session's record and one connection change.
LEMMA OneChangeKeeps ==
    ASSUME SessionAssumption, GoodAuthority(Now), NEW t \in Tunnels, NEW id \in Sessions, NEW r \in Record, NEW n \in Tunnel,
           record[id] \in Record, r.generation = record[id].generation,
           \A o \in Tunnels \ {t} : /\ o \in record[id].clients => o \in r.clients
                                    /\ o \in record[id].upstreams => o \in r.upstreams,
           n.client => n.id = id /\ t \in r.clients,
           n.upstream => n.id = id /\ t \in r.upstreams,
           record' = [record EXCEPT ![id] = r], tunnel' = [tunnel EXCEPT ![t] = n],
           store' = store, stored' = stored
    PROVE  GoodAuthority(Now)'
<1>1. record \in [Sessions -> Record \cup {NoRecord}] /\ tunnel \in [Tunnels -> Tunnel]
    BY NowFields
<1>2. record[id] # NoRecord /\ r # NoRecord
    BY RecordIsNot
<1>3. /\ record' \in [Sessions -> Record \cup {NoRecord}] /\ record'[id] = r
      /\ \A o \in Sessions \ {id} : record'[o] = record[o]
    BY <1>1
<1>4. /\ tunnel' \in [Tunnels -> Tunnel] /\ tunnel'[t] = n
      /\ \A o \in Tunnels \ {t} : tunnel'[o] = tunnel[o]
    BY <1>1
<1>5. \A o \in Sessions : record[o] = NoRecord <=> record'[o] = NoRecord
    BY <1>2, <1>3
<1>6. \A s \in Sessions : record[s] # NoRecord =>
                /\ record'[s].generation = record[s].generation
                /\ \A o \in Tunnels \ {t} : /\ o \in record[s].clients => o \in record'[s].clients
                                            /\ o \in record[s].upstreams => o \in record'[s].upstreams
    <2> SUFFICES ASSUME NEW s \in Sessions
                 PROVE  /\ record'[s].generation = record[s].generation
                        /\ \A o \in Tunnels \ {t} :
                              /\ o \in record[s].clients => o \in record'[s].clients
                              /\ o \in record[s].upstreams => o \in record'[s].upstreams
        OBVIOUS
    <2>1. CASE s = id
        BY <1>3, <2>1
    <2>2. CASE s # id
        BY <1>3, <2>2
    <2> QED
        BY <2>1, <2>2
<1>7. /\ n.client => n.id \in Sessions /\ record'[n.id] # NoRecord /\ t \in record'[n.id].clients
      /\ n.upstream => n.id \in Sessions /\ record'[n.id] # NoRecord /\ t \in record'[n.id].upstreams
    BY <1>2, <1>3
<1> QED
    BY <1>3, <1>4, <1>5, <1>6, <1>7, TunnelChangeKeeps

\* The phase of a connection means nothing to its session.
LEMMA PhaseKeeps ==
    ASSUME SessionAssumption, NEW w, GoodAuthority(w), NEW t \in Tunnels,
           Becomes([w EXCEPT !.tunnel[t].phase = "up"])
    PROVE  GoodAuthority(Now)'
<1> DEFINE n == [w.tunnel[t] EXCEPT !.phase = "up"]
           v == [w EXCEPT !.tunnel[t].phase = "up"]
<1>1. w \in Authorities /\ Attached(w) /\ SavedBut(w, NoSession) /\ Len(w.store) <= MaxStored
    BY DEF GoodAuthority, SoundAll, SoundBut
<1>2. w.tunnel \in [Tunnels -> Tunnel] /\ w.tunnel[t] \in Tunnel
    BY <1>1 DEF Authorities
<1>3. /\ n \in Tunnel /\ n.id = w.tunnel[t].id /\ n.client = w.tunnel[t].client
      /\ n.upstream = w.tunnel[t].upstream
    BY <1>2 DEF Tunnel
<1>4. /\ v.record = w.record /\ v.store = w.store /\ v.stored = w.stored
      /\ v.tunnel = [w.tunnel EXCEPT ![t] = n]
    BY <1>1, <1>2 DEF Authorities
<1>5. v = [w EXCEPT !.tunnel = [w.tunnel EXCEPT ![t] = n]]
    BY <1>4
<1>6. [w.tunnel EXCEPT ![t] = n] \in [Tunnels -> Tunnel]
    BY <1>2, <1>3
<1> HIDE DEF n, v
<1>7. v \in Authorities
    BY <1>1, <1>5, <1>6 DEF Authorities
<1>8. \A o \in Tunnels : /\ v.tunnel[o].id = w.tunnel[o].id /\ v.tunnel[o].client = w.tunnel[o].client
                         /\ v.tunnel[o].upstream = w.tunnel[o].upstream
    BY <1>2, <1>3, <1>4
<1>9. Attached(v)
    BY <1>1, <1>4, <1>8 DEF Attached, Alive
<1>10. SavedBut(v, NoSession)
    BY <1>1, <1>4 DEF SavedBut, Alive
<1>11. GoodAuthority(v)
    BY <1>1, <1>4, <1>7, <1>9, <1>10 DEF GoodAuthority, SoundAll, SoundBut
<1> QED
    BY <1>11, BecomesKeeps DEF v

LEMMA UpgradeKeeps ==
    ASSUME SessionAssumption, AuthorityInv, NEW t \in Tunnels, NEW id \in Sessions, NEW open \in BOOLEAN,
           Upgrade(t, id, open)
    PROVE  GoodAuthority(Now)'
<1> DEFINE looked == Look(Now, id)
<1>1. GoodAuthority(Now) /\ GoodAuthority(looked) /\ (Alive(looked, id) => looked = Now)
    BY LookKeeps DEF AuthorityInv
<1>2. CASE ~Alive(looked, id)
    BY <1>1, <1>2, BecomesKeeps DEF Upgrade
<1>3. CASE Alive(looked, id)
    <2> DEFINE C == record[id].clients \cup {t}
               r == [record[id] EXCEPT !.clients = C]
               n == [phase |-> "waiting", id |-> id, client |-> open, upstream |-> FALSE]
               v == [Now EXCEPT !.record[id].clients = Now.record[id].clients \cup {t}, !.tunnel[t] = n]
    <2>1. Becomes(v)
        BY <1>1, <1>3 DEF Upgrade
    <2>2. /\ v.record = [record EXCEPT ![id].clients = C] /\ v.store = store /\ v.stored = stored
          /\ v.tunnel = [tunnel EXCEPT ![t] = n]
        BY DEF Now
    <2>3. record[id] \in Record /\ record \in [Sessions -> Record \cup {NoRecord}]
        BY <1>1, <1>3, NowFields
    <2>4. C \in SUBSET Tunnels
        BY <2>3, RecordIsNot
    <2>5. /\ r \in Record /\ r.generation = record[id].generation /\ r.clients = C
          /\ r.upstreams = record[id].upstreams
        <3> HIDE DEF C
        <3> QED
            BY <2>3, <2>4, RecordIsNot DEF Record
    <2>6. n \in Tunnel
        BY DEF Tunnel
    <2>7. /\ record' = [record EXCEPT ![id] = r] /\ tunnel' = [tunnel EXCEPT ![t] = n]
          /\ store' = store /\ stored' = stored
        BY <2>1, <2>2, <2>3 DEF Becomes
    <2>8. n.id = id /\ ~n.upstream /\ t \in C
        OBVIOUS
    <2> HIDE DEF r, n
    <2>9. \A o \in Tunnels \ {t} : /\ o \in record[id].clients => o \in r.clients
                                   /\ o \in record[id].upstreams => o \in r.upstreams
        BY <2>5
    <2> HIDE DEF C
    <2> QED
        BY <1>1, <2>3, <2>5, <2>6, <2>7, <2>8, <2>9, OneChangeKeeps
<1> QED
    BY <1>2, <1>3

LEMMA UpstreamOpensKeeps ==
    ASSUME SessionAssumption, AuthorityInv, NEW t \in Tunnels, UpstreamOpens(t)
    PROVE  GoodAuthority(Now)'
<1> DEFINE id == tunnel[t].id
           looked == IF tunnel[t].client THEN Look(Now, id) ELSE Now
           attached == tunnel[t].client /\ Alive(looked, id)
           w == [looked EXCEPT !.record[id].upstreams = looked.record[id].upstreams \cup {t},
                               !.tunnel[t].phase = "up", !.tunnel[t].upstream = TRUE]
           v == [looked EXCEPT !.tunnel[t].phase = "up"]
<1>1. GoodAuthority(Now) /\ GoodAuthority(looked) /\ (attached => looked = Now) /\ tunnel[t] \in Tunnel
    BY LookKeeps, NowFields DEF AuthorityInv
<1>2. Becomes(IF attached THEN w ELSE v)
    BY DEF UpstreamOpens
<1>3. CASE attached
    <2> DEFINE C == record[id].upstreams \cup {t}
               r == [record[id] EXCEPT !.upstreams = C]
               n == [tunnel[t] EXCEPT !.phase = "up", !.upstream = TRUE]
    <2>1. looked = Now /\ Becomes(w) /\ tunnel[t].client
        BY <1>1, <1>2, <1>3
    <2>2. /\ id \in Sessions /\ record[id] \in Record /\ t \in record[id].clients
          /\ record \in [Sessions -> Record \cup {NoRecord}] /\ tunnel \in [Tunnels -> Tunnel]
        BY <1>1, <2>1, NowFields
    <2>3. /\ w.record = [record EXCEPT ![id].upstreams = C] /\ w.store = store /\ w.stored = stored
          /\ w.tunnel = [tunnel EXCEPT ![t].phase = "up", ![t].upstream = TRUE]
        <3>1. w = [Now EXCEPT !.record[id].upstreams = Now.record[id].upstreams \cup {t},
                              !.tunnel[t].phase = "up", !.tunnel[t].upstream = TRUE]
            <4> HIDE DEF looked
            <4> QED
                BY <2>1
        <3> HIDE DEF w
        <3> QED
            BY <3>1 DEF Now
    <2>4. C \in SUBSET Tunnels /\ t \in C
        BY <2>2, RecordIsNot
    <2>5. /\ r \in Record /\ r.generation = record[id].generation /\ r.upstreams = C
          /\ r.clients = record[id].clients
        <3> HIDE DEF C
        <3> QED
            BY <2>2, <2>4, RecordIsNot DEF Record
    <2>6. n \in Tunnel /\ n.id = id
        BY <1>1 DEF Tunnel
    <2>7. /\ record' = [record EXCEPT ![id] = r] /\ tunnel' = [tunnel EXCEPT ![t] = n]
          /\ store' = store /\ stored' = stored
        <3>1. tunnel' = [tunnel EXCEPT ![t].phase = "up", ![t].upstream = TRUE]
            BY <2>1, <2>3 DEF Becomes
        <3>2. tunnel' = [tunnel EXCEPT ![t] = n]
            BY <2>2, <3>1
        <3> QED
            BY <2>1, <2>2, <2>3, <3>2 DEF Becomes
    <2>8. \A o \in Tunnels \ {t} : /\ o \in record[id].clients => o \in r.clients
                                   /\ o \in record[id].upstreams => o \in r.upstreams
        BY <2>5
    <2> HIDE DEF r, n, C, id, w, looked
    <2> QED
        BY <1>1, <2>2, <2>4, <2>5, <2>6, <2>7, <2>8, OneChangeKeeps
<1>4. CASE ~attached
    <2>1. Becomes(v)
        BY <1>2, <1>4
    <2> HIDE DEF looked
    <2> QED
        BY <1>1, <2>1, PhaseKeeps
<1> QED
    BY <1>3, <1>4

LEMMA DetachedKeeps ==
    ASSUME SessionAssumption, AuthorityInv, NEW t \in Tunnels
    PROVE  /\ GoodAuthority(Detached(Now, t, tunnel[t].id))
           /\ Becomes(Detached(Now, t, tunnel[t].id)) => GoodAuthority(Now)'
<1> DEFINE id == tunnel[t].id
           v == Detached(Now, t, id)
<1>1. GoodAuthority(Now) /\ Now.record = record /\ Now.tunnel = tunnel /\ Now.store = store /\ Now.stored = stored
    BY DEF AuthorityInv, Now
<1>2. CASE ~Alive(Now, id)
    BY <1>1, <1>2, BecomesKeeps DEF Detached
<1>3. CASE Alive(Now, id)
    <2> DEFINE C == IF tunnel[t].client THEN record[id].clients \ {t} ELSE record[id].clients
               r == [record[id] EXCEPT !.clients = C]
               n == [tunnel[t] EXCEPT !.client = FALSE]
    <2>1. /\ id \in Sessions /\ record[id] \in Record /\ tunnel[t] \in Tunnel
          /\ record \in [Sessions -> Record \cup {NoRecord}] /\ tunnel \in [Tunnels -> Tunnel]
        BY <1>1, <1>3, NowFields DEF Alive
    <2>2. v = [Now EXCEPT !.record = [record EXCEPT ![id] = r], !.tunnel = [tunnel EXCEPT ![t] = n]]
        BY <1>3, <2>1 DEF Detached, Now
    <2>3. C \in SUBSET Tunnels
        BY <2>1, RecordIsNot
    <2>4. /\ r \in Record /\ r # NoRecord /\ r.generation = record[id].generation /\ r.clients = C
          /\ r.upstreams = record[id].upstreams
        <3>1. record[id] \in Record
            BY <2>1
        <3> HIDE DEF C, id
        <3> QED
            BY <2>3, <3>1, RecordIsNot DEF Record
    <2>5. n \in Tunnel /\ n.id = id /\ ~n.client /\ n.upstream = tunnel[t].upstream
        BY <2>1 DEF Tunnel
    <2> HIDE DEF r, n, v
    <2>6. /\ v.record = [record EXCEPT ![id] = r] /\ v.tunnel = [tunnel EXCEPT ![t] = n]
          /\ v.store = store /\ v.stored = stored
        BY <2>2 DEF Now
    <2>7. /\ v.record \in [Sessions -> Record \cup {NoRecord}] /\ v.record[id] = r
          /\ \A o \in Sessions \ {id} : v.record[o] = record[o]
        BY <2>1, <2>4, <2>6
    <2>8. /\ v.tunnel \in [Tunnels -> Tunnel] /\ v.tunnel[t] = n
          /\ \A o \in Tunnels \ {t} : v.tunnel[o] = tunnel[o]
        BY <2>1, <2>5, <2>6
    <2>9. v \in Authorities
        <3>1. Now \in Authorities
            BY <1>1 DEF GoodAuthority, SoundAll, SoundBut
        <3>2. /\ [record EXCEPT ![id] = r] \in [Sessions -> Record \cup {NoRecord}]
              /\ [tunnel EXCEPT ![t] = n] \in [Tunnels -> Tunnel]
            BY <2>6, <2>7, <2>8
        <3> QED
            BY <2>2, <3>1, <3>2 DEF Authorities
    <2>10. Attached(v)
        <3> SUFFICES ASSUME NEW o \in Tunnels
                     PROVE  LET i == v.tunnel[o].id IN
                            /\ v.tunnel[o].client => Alive(v, i) /\ o \in v.record[i].clients
                            /\ v.tunnel[o].upstream => Alive(v, i) /\ o \in v.record[i].upstreams
            BY DEF Attached
        <3> DEFINE i == tunnel[o].id
        <3>1. /\ tunnel[o].client => i \in Sessions /\ record[i] # NoRecord /\ o \in record[i].clients
              /\ tunnel[o].upstream => i \in Sessions /\ record[i] # NoRecord /\ o \in record[i].upstreams
            BY <1>1, NowFields, RecordIsNot
        <3>2. CASE o = t
            BY <2>1, <2>4, <2>5, <2>7, <2>8, <3>1, <3>2 DEF Alive
        <3>3. CASE o # t
            <4>1. v.tunnel[o] = tunnel[o]
                BY <2>8, <3>3
            <4>2. CASE i = id
                <5>1. v.record[i] = r /\ (o \in record[id].clients => o \in C)
                    BY <2>7, <4>2, <3>3
                <5> HIDE DEF C
                <5> QED
                    BY <2>1, <2>4, <3>1, <4>1, <4>2, <5>1 DEF Alive
            <4>3. CASE i # id
                BY <2>7, <3>1, <4>1, <4>3 DEF Alive
            <4> QED
                BY <4>2, <4>3
        <3> QED
            BY <3>2, <3>3
    <2>11. SavedBut(Now, NoSession) /\ Len(store) <= MaxStored
        BY <1>1 DEF GoodAuthority, SoundAll, SoundBut
    <2>12. SavedBut(v, NoSession)
        BY <1>1, <1>3, <2>4, <2>6, <2>7, <2>11 DEF SavedBut, Alive
    <2>13. GoodAuthority(v)
        BY <2>6, <2>9, <2>10, <2>11, <2>12 DEF GoodAuthority, SoundAll, SoundBut
    <2> QED
        BY <2>13, BecomesKeeps DEF v
<1> QED
    BY <1>2, <1>3

LEMMA ClosingKeeps ==
    ASSUME SessionAssumption, AuthorityInv, NEW t \in Tunnels, UpstreamFails(t) \/ ClientCloses(t)
    PROVE  GoodAuthority(Now)'
<1>1. CASE UpstreamFails(t)
    BY <1>1, DetachedKeeps, PhaseKeeps DEF UpstreamFails
<1>2. CASE ClientCloses(t)
    BY <1>2, DetachedKeeps DEF ClientCloses
<1> QED
    BY <1>1, <1>2

LEMMA UpstreamClosesKeeps ==
    ASSUME SessionAssumption, AuthorityInv, NEW t \in Tunnels, UpstreamCloses(t)
    PROVE  GoodAuthority(Now)'
<1> DEFINE id == tunnel[t].id
           C == record[id].upstreams \ {t}
           r == [record[id] EXCEPT !.upstreams = C]
           n == [tunnel[t] EXCEPT !.upstream = FALSE]
           v == [Now EXCEPT !.record[id].upstreams = record[id].upstreams \ {t},
                            !.tunnel[t].upstream = FALSE]
<1>1. GoodAuthority(Now) /\ Becomes(v) /\ tunnel[t].upstream
    BY DEF AuthorityInv, UpstreamCloses
<1>2. /\ id \in Sessions /\ record[id] \in Record /\ tunnel[t] \in Tunnel
      /\ record \in [Sessions -> Record \cup {NoRecord}] /\ tunnel \in [Tunnels -> Tunnel]
      /\ tunnel[t].client => t \in record[id].clients
    BY <1>1, NowFields
<1>3. /\ v.record = [record EXCEPT ![id].upstreams = C] /\ v.store = store /\ v.stored = stored
      /\ v.tunnel = [tunnel EXCEPT ![t].upstream = FALSE]
    BY DEF Now
<1>4. C \in SUBSET Tunnels
    BY <1>2, RecordIsNot
<1>5. /\ r \in Record /\ r.generation = record[id].generation /\ r.upstreams = C
      /\ r.clients = record[id].clients
    <2> HIDE DEF C, id
    <2> QED
        BY <1>2, <1>4, RecordIsNot DEF Record
<1>6. n \in Tunnel /\ n.id = id /\ ~n.upstream /\ n.client = tunnel[t].client
    BY <1>2 DEF Tunnel
<1>7. /\ record' = [record EXCEPT ![id] = r] /\ tunnel' = [tunnel EXCEPT ![t] = n]
      /\ store' = store /\ stored' = stored
    BY <1>1, <1>2, <1>3 DEF Becomes
<1>8. \A o \in Tunnels \ {t} : /\ o \in record[id].clients => o \in r.clients
                               /\ o \in record[id].upstreams => o \in r.upstreams
    BY <1>5
<1> HIDE DEF r, n, C, id, v
<1> QED
    BY <1>1, <1>2, <1>5, <1>6, <1>7, <1>8, OneChangeKeeps

LEMMA CollectedKeeps ==
    ASSUME SessionAssumption, AuthorityInv, NEW t \in Tunnels, Collected(t)
    PROVE  GoodAuthority(Now)'
<1> DEFINE seen(id) == [record[id] EXCEPT !.clients = record[id].clients \ {t}]
           kept(id) == IF record[id] = NoRecord THEN NoRecord ELSE seen(id)
<1>1. /\ GoodAuthority(Now) /\ tunnel \in [Tunnels -> Tunnel]
      /\ record \in [Sessions -> Record \cup {NoRecord}]
    BY NowFields DEF AuthorityInv
<1>2. record' = [id \in Sessions |-> kept(id)] /\ tunnel' = [tunnel EXCEPT ![t] = NoTunnel]
      /\ store' = store /\ stored' = stored
    BY DEF Collected
<1>3. NoTunnel \in Tunnel /\ ~NoTunnel.client /\ ~NoTunnel.upstream
    BY DEF NoTunnel, Tunnel
<1>4. /\ tunnel' \in [Tunnels -> Tunnel] /\ tunnel'[t] = NoTunnel
      /\ \A o \in Tunnels \ {t} : tunnel'[o] = tunnel[o]
    BY <1>1, <1>2, <1>3
<1>5. ASSUME NEW id \in Sessions, record[id] # NoRecord
      PROVE  /\ kept(id) \in Record /\ kept(id) # NoRecord
             /\ kept(id).generation = record[id].generation
             /\ kept(id).clients = record[id].clients \ {t}
             /\ kept(id).upstreams = record[id].upstreams
    <2>1. record[id] \in Record /\ kept(id) = seen(id)
        BY <1>1, <1>5
    <2> DEFINE D == record[id].clients \ {t}
    <2>2. D \in SUBSET Tunnels /\ seen(id) = [record[id] EXCEPT !.clients = D]
        BY <2>1, RecordIsNot
    <2>3. D = record[id].clients \ {t}
        OBVIOUS
    <2> HIDE DEF D, seen, kept
    <2> QED
        BY <2>1, <2>2, <2>3, RecordIsNot DEF Record
<1>6. \A id \in Sessions : record[id] = NoRecord => kept(id) = NoRecord
    OBVIOUS
<1>7. \A id \in Sessions : record'[id] = kept(id)
    BY <1>2
<1> HIDE DEF kept, seen
<1>8. record' \in [Sessions -> Record \cup {NoRecord}]
    BY <1>2, <1>5, <1>6
<1> QED
    BY <1>1, <1>2, <1>3, <1>4, <1>5, <1>6, <1>7, <1>8, TunnelChangeKeeps

-----------------------------------------------------------------------------
LEMMA AuthorityInitHolds ==
    ASSUME SessionAssumption, Init
    PROVE  AuthorityInv
<1>1. /\ Now.record = record /\ Now.store = store /\ Now.stored = stored /\ Now.tunnel = tunnel
      /\ Now = [record |-> record, store |-> store, stored |-> stored, tunnel |-> tunnel]
    BY DEF Now
<1>2. NoTunnel \in Tunnel /\ ~NoTunnel.client /\ ~NoTunnel.upstream
    BY DEF NoTunnel, Tunnel
<1>3. Now \in Authorities
    <2>1. /\ record \in [Sessions -> Record \cup {NoRecord}] /\ store \in Seq(Sessions)
          /\ tunnel \in [Tunnels -> Tunnel]
        BY <1>2 DEF Init
    <2>2. stored \in [Sessions -> 0..MaxGeneration]
        BY SessionAssumption DEF Init
    <2> QED
        BY <1>1, <2>1, <2>2 DEF Authorities
<1>4. Attached(Now)
    BY <1>1, <1>2 DEF Init, Attached
<1>5. Range(<<>>) = {} /\ IsInjective(<<>>) /\ Len(<<>>) = 0
    BY DEF Range, IsInjective
<1>6. SavedBut(Now, NoSession) /\ Len(Now.store) <= MaxStored
    BY <1>1, <1>5, SessionAssumption DEF Init, SavedBut, Alive
<1>7. RequestsTyped
    BY DEF Init, RequestsTyped, Login
<1> QED
    BY <1>3, <1>4, <1>6, <1>7 DEF AuthorityInv, GoodAuthority, SoundAll, SoundBut

LEMMA RequestsStayTyped ==
    ASSUME RequestsTyped, Next
    PROVE  RequestsTyped'
<1>1. ASSUME NEW id \in Sessions,
             \/ Load(id) \/ Logout(id) \/ Expires(id) \/ TimerFires(id) \/ Disposes(id)
             \/ \E saves \in BOOLEAN : ResponseEnds(id, saves)
             \/ \E generation \in 1..MaxGeneration : Extend(id, generation)
      PROVE  RequestsTyped'
    <2>1. responses' \in SUBSET Sessions
        BY <1>1 DEF RequestsTyped, Load, Logout, Expires, TimerFires, Disposes, ResponseEnds, Extend
    <2>2. UNCHANGED login
        BY <1>1 DEF Load, Logout, Expires, TimerFires, Disposes, ResponseEnds, Extend
    <2> QED
        BY <2>1, <2>2 DEF RequestsTyped
<1>2. ASSUME NEW l \in Logins,
             \/ \E old \in Sessions \cup {NoSession} : Begin(l, old)
             \/ Verified(l) \/ LoginFails(l)
             \/ \E id \in Sessions : Regenerated(l, id)
             \/ \E failed \in BOOLEAN : Saved(l, failed)
      PROVE  RequestsTyped'
    BY <1>2 DEF RequestsTyped, Login, Begin, Verified, LoginFails, Regenerated, Saved
<1>3. ASSUME NEW t \in Tunnels,
             \/ \E id \in Sessions, open \in BOOLEAN : Upgrade(t, id, open)
             \/ UpstreamOpens(t) \/ UpstreamFails(t) \/ ClientCloses(t) \/ UpstreamCloses(t)
             \/ Collected(t)
      PROVE  RequestsTyped'
    <2>1. UNCHANGED <<responses, login>>
        BY <1>3 DEF Upgrade, UpstreamOpens, UpstreamFails, ClientCloses, UpstreamCloses, Collected
    <2> QED
        BY <2>1 DEF RequestsTyped
<1>4. CASE Shutdown
    BY <1>4 DEF RequestsTyped, Shutdown
<1> QED
    BY <1>1, <1>2, <1>3, <1>4 DEF Next

LEMMA StepKeeps ==
    ASSUME SessionAssumption, AuthorityInv, [Next]_vars
    PROVE  AuthorityInv'
<1>1. CASE UNCHANGED vars
    BY <1>1 DEF vars, AuthorityInv, RequestsTyped, GoodAuthority, SoundAll, SoundBut, Attached, SavedBut, Alive, Authorities, Now
<1>2. CASE Next
    <2>1. RequestsTyped'
        BY <1>2, RequestsStayTyped DEF AuthorityInv
    <2>2. GoodAuthority(Now)'
        <3>1. ASSUME NEW l \in Logins,
                     (\E old \in Sessions \cup {NoSession} : Begin(l, old)) \/ LoginFails(l)
              PROVE  GoodAuthority(Now)'
            BY <3>1 DEF Begin, LoginFails, AuthorityInv, GoodAuthority, SoundAll, SoundBut, Attached, SavedBut, Alive, Authorities, Now
        <3> QED
            BY <1>2, <3>1, LoadKeeps, ExtendKeeps, RegeneratedKeeps, EndingKeeps, ShutdownKeeps, ExpiresKeeps,
               UpgradeKeeps, UpstreamOpensKeeps, ClosingKeeps, UpstreamClosesKeeps, CollectedKeeps DEF Next
    <2> QED
        BY <2>1, <2>2 DEF AuthorityInv
<1> QED
    BY <1>1, <1>2

\* Every state of the authority, its store and the upgraded connections is one the
\* functions of session-store.mjs and service.mjs keep.
THEOREM AuthorityInvariantHolds ==
    ASSUME SessionAssumption
    PROVE  Spec => []AuthorityInv
<1>1. Init => AuthorityInv
    BY AuthorityInitHolds
<1>2. AuthorityInv /\ [Next]_vars => AuthorityInv'
    BY StepKeeps
<1> QED
    BY <1>1, <1>2, PTL DEF Spec

\* Variables have values of their types.
THEOREM AuthorityTypeCorrect ==
    ASSUME SessionAssumption
    PROVE  Spec => []TypeOK
<1>1. AuthorityInv => TypeOK
    BY NowFields DEF AuthorityInv, TypeOK, RequestsTyped, GoodAuthority, SoundAll, SoundBut, SavedBut, Now
<1> QED
    BY <1>1, AuthorityInvariantHolds, PTL

\* No upgraded connection outlives its session, and the store holds exactly the sessions
\* that are alive, with the expiry of their last renewal.
THEOREM SessionsStayAgreed ==
    ASSUME SessionAssumption
    PROVE  Spec => []SessionsAgree
<1>1. AuthorityInv => SessionsAgree
    <2> SUFFICES ASSUME AuthorityInv PROVE SessionsAgree
        OBVIOUS
    <2>1. GoodAuthority(Now) /\ Now.record = record /\ Now.store = store /\ Now.stored = stored /\ Now.tunnel = tunnel
        BY DEF AuthorityInv, Now
    <2>2. NothingOutlivesSession
        BY <2>1 DEF NothingOutlivesSession, GoodAuthority, SoundAll, SoundBut, Attached
    <2>3. StoreFollowsAuthority
        <3>1. store \in Seq(Sessions)
            BY <2>1, NowFields
        <3>2. Range(store) \subseteq Sessions
            BY <3>1, RangeOfSeq
        <3>3. SavedBut(Now, NoSession) /\ Len(store) <= MaxStored
            BY <2>1 DEF GoodAuthority, SoundAll, SoundBut
        <3>4. \A id \in Sessions : /\ id \in Range(store) <=> Alive(Now, id)
                                   /\ Alive(Now, id) => stored[id] = record[id].generation
            BY <2>1, <3>3, SessionAssumption DEF SavedBut
        <3>5. Range(store) = {id \in Sessions : Alive(Now, id)}
            BY <3>2, <3>4
        <3> QED
            BY <3>3, <3>4, <3>5 DEF StoreFollowsAuthority
    <2> QED
        BY <2>2, <2>3 DEF SessionsAgree
<1> QED
    BY <1>1, AuthorityInvariantHolds, PTL

-----------------------------------------------------------------------------
\* The services together.

\* Types: whatever a handler of the broker, of the SNI router, of its certificates, of
\* the lookups or of the sessions does, every value keeps its type and its bounds.
THEOREM ServicesTypeCorrect ==
    ASSUME ServicesAssumption
    PROVE  ServicesSpec => []PartsTypeOK
<1>1. /\ SessionAssumption /\ BrokerAssumption /\ PacketsAssumption
      /\ SniAssumption /\ LookupAssumption /\ CertificateAssumption
    BY DEF ServicesAssumption, PlacesAssumption
<1>2. Spec => []TypeOK
    BY <1>1, AuthorityTypeCorrect
<1>3. BrokerSpec => []BrokerTypeOK
    BY <1>1, BrokerTypeCorrect
<1>4. CertSpec => []CertTypeOK
    BY <1>1, CertTypeCorrect
<1>5. SniSpec => []SniTypeOK
    BY <1>1, SniTypeCorrect
<1>6. LookupSpec => []LookupTypeOK
    BY <1>1, LookupTypeCorrect
<1> QED
    BY <1>2, <1>3, <1>4, <1>5, <1>6, PTL DEF PartsTypeOK, ServicesSpec, PlacesSpec

\* What those who wait are promised: the broker does the packets it deferred in their
\* order (AdmissionGate), and both pools start, refuse and drop jobs as BoundedPool does.
THEOREM PromisesAreKept ==
    ASSUME ServicesAssumption
    PROVE  ServicesSpec => PromisesKept
<1>1. /\ BrokerAssumption /\ PacketsAssumption
      /\ LookupAssumption /\ CertificateAssumption
    BY DEF ServicesAssumption, PlacesAssumption
<1>2. BrokerSpec => DeferredInOrder
    BY <1>1, DeferredPacketsInOrder
<1>3. CertSpec => Pool!PoolSpec
    BY <1>1, CertificatesImplementPool
<1>4. LookupSpec => LookupPool!PoolSpec
    BY <1>1, LookupsImplementPool
<1> QED
    BY <1>2, <1>3, <1>4 DEF PromisesKept, ServicesSpec, PlacesSpec
=============================================================================
