---------------------------- MODULE MqttBrokerProofs ----------------------------
(***************************************************************************)
(* Theorems about MqttBroker, for any connections, topics, filters and     *)
(* budgets, any number of packets and any answers of the policy.           *)
(*                                                                         *)
(* The handlers are functions from one world to the next; so is the proof: *)
(* each of them keeps Good, and a handler that composes several keeps it   *)
(* too.  The replay of the deferred packets is a loop, and Good is kept by *)
(* each of its rounds.                                                     *)
(***************************************************************************)
EXTENDS MqttBroker, SequenceLemmas, FiniteSetTheorems

-----------------------------------------------------------------------------
\* The worlds of the handlers.
Worlds ==
    [conn : [BrokerClients -> Client], pending : SUBSET BrokerClients, budget : 0..MaxAll,
     retained : [Topics -> 0..MaxSize], retainedBytes : 0..MaxRetainedBytes,
     trace : [BrokerClients -> Trace]]

Awaited(x) == x.state \in {"new", "pending"}

\* What is true of one connection and its history, while `stored` are the topics with
\* a retained message.  The counters of a world rest on its subscriptions being few;
\* what its wills amount to, on the admission and the end it has seen.
Sound(x, h, stored) ==
    /\ x \in Client /\ h \in Trace
    /\ Len(x.deferred) <= MaxDeferred
    /\ x.state # "active" => x.subs = {}
    /\ IsFiniteSet(x.subs) /\ Cardinality(x.subs) <= MaxOwn
    /\ Awaited(x) => ~h.admitted /\ h.left = "kept" /\ h.ran = <<>> /\ h.arrived = x.deferred
    /\ x.state = "active" => h.admitted /\ h.left = "kept"
    /\ x.state = "closed" => h.left # "kept"
    /\ h.wills = IF h.admitted /\ h.left = "lost" /\ x.will # NoWill THEN 1 ELSE 0
    /\ h.behind \subseteq stored
    /\ x.state = "active" => h.behind \cap x.reads \cap Covered(x.subs) = {}

Subscriptions(w) == {s \in BrokerClients \X Filters : s[2] \in w.conn[s[1]].subs}

Bytes(w) == {b \in Topics \X (1..MaxSize) : b[2] <= w.retained[b[1]]}

PlacesKept(w) ==
    /\ w.pending = {c \in BrokerClients : Awaited(w.conn[c])}
    /\ IsFiniteSet(w.pending) /\ Cardinality(w.pending) <= MaxUndecided

SubscriptionsKept(w) ==
    /\ IsFiniteSet(Subscriptions(w))
    /\ w.budget = Cardinality(Subscriptions(w))

RetainedKept(w) ==
    /\ IsFiniteSet(Bytes(w)) /\ w.retainedBytes = Cardinality(Bytes(w))
    /\ IsFiniteSet(Stored(w)) /\ Cardinality(Stored(w)) <= MaxRetained

Good(w) ==
    /\ w \in Worlds
    /\ \A c \in BrokerClients : Sound(w.conn[c], w.trace[c], Stored(w))
    /\ PlacesKept(w)
    /\ SubscriptionsKept(w)
    /\ RetainedKept(w)

BrokerInv == Good(BrokerWorld)

-----------------------------------------------------------------------------
\* Counting pairs.

LEMMA PairsOfOne ==
    ASSUME NEW x, NEW S, IsFiniteSet(S)
    PROVE  IsFiniteSet({x} \X S) /\ Cardinality({x} \X S) = Cardinality(S)
<1>1. IsFiniteSet({x}) /\ Cardinality({x}) = 1
    BY FS_Singleton
<1>2. /\ IsFiniteSet({x} \X S) /\ Cardinality({x} \X S) = Cardinality({x}) * Cardinality(S)
    BY <1>1, FS_Product
<1>3. Cardinality(S) \in Nat
    BY FS_CardinalityType
<1> QED
    BY <1>1, <1>2, <1>3

\* In a set of pairs, those of x are replaced.
LEMMA PairsReplaced ==
    ASSUME NEW A, IsFiniteSet(A), NEW x, NEW S, IsFiniteSet(S), NEW T, IsFiniteSet(T),
           {x} \X S \subseteq A, \A a \in A : a \in {x} \X S \/ a \notin {x} \X T
    PROVE  /\ IsFiniteSet((A \ ({x} \X S)) \cup ({x} \X T))
           /\ Cardinality((A \ ({x} \X S)) \cup ({x} \X T))
                = Cardinality(A) - Cardinality(S) + Cardinality(T)
           /\ Cardinality(S) <= Cardinality(A)
           /\ Cardinality(A) \in Nat /\ Cardinality(S) \in Nat /\ Cardinality(T) \in Nat
<1> DEFINE X == {x} \X S
           Y == {x} \X T
<1>1. /\ IsFiniteSet(X) /\ Cardinality(X) = Cardinality(S)
      /\ IsFiniteSet(Y) /\ Cardinality(Y) = Cardinality(T)
    BY PairsOfOne
<1>2. X \subseteq A /\ (A \ X) \cap Y = {}
    OBVIOUS
<1> HIDE DEF X, Y
<1>3. /\ Cardinality(A) \in Nat /\ Cardinality(X) \in Nat /\ Cardinality(Y) \in Nat
      /\ Cardinality(X) <= Cardinality(A)
    BY <1>1, <1>2, FS_CardinalityType, FS_Subset
<1>4. A \cap X = X
    BY <1>2
<1>5. IsFiniteSet(A \ X) /\ Cardinality(A \ X) = Cardinality(A) - Cardinality(X)
    BY <1>4, FS_Difference
<1>6. /\ IsFiniteSet((A \ X) \cup Y)
      /\ Cardinality((A \ X) \cup Y)
           = Cardinality(A \ X) + Cardinality(Y) - Cardinality((A \ X) \cap Y)
    BY <1>1, <1>5, FS_Union
<1>7. Cardinality((A \ X) \cap Y) = 0
    BY <1>2, FS_EmptySet
<1> QED
    BY <1>1, <1>3, <1>5, <1>6, <1>7 DEF X, Y

-----------------------------------------------------------------------------
\* One connection changes, and the budgets with it.

LEMMA OneChanges ==
    ASSUME NEW w, Good(w), NEW c \in BrokerClients, NEW x, NEW h, Sound(x, h, Stored(w)),
           NEW v, v.conn = [w.conn EXCEPT ![c] = x], v.trace = [w.trace EXCEPT ![c] = h],
           v.retained = w.retained, v.retainedBytes = w.retainedBytes,
           v.budget = w.budget - Cardinality(w.conn[c].subs) + Cardinality(x.subs),
           v.budget <= MaxAll,
           \/ v.pending = w.pending \ {c} /\ ~Awaited(x)
           \/ v.pending = w.pending \cup {c} /\ Awaited(x) /\ Cardinality(w.pending) < MaxUndecided
           \/ v.pending = w.pending /\ (Awaited(x) <=> Awaited(w.conn[c])),
           v = [conn |-> v.conn, pending |-> v.pending, budget |-> v.budget, retained |-> v.retained,
                retainedBytes |-> v.retainedBytes, trace |-> v.trace],
           BrokerAssumption
    PROVE  Good(v)
<1>1. /\ w \in Worlds /\ w.conn \in [BrokerClients -> Client] /\ w.trace \in [BrokerClients -> Trace]
      /\ w.pending \in SUBSET BrokerClients /\ w.budget \in 0..MaxAll
      /\ w.retained \in [Topics -> 0..MaxSize] /\ w.retainedBytes \in 0..MaxRetainedBytes
    BY DEF Good, Worlds
<1>2. x \in Client /\ h \in Trace /\ IsFiniteSet(x.subs) /\ x.subs \in SUBSET Filters
    BY DEF Sound, Client
<1>3. /\ \A d \in BrokerClients \ {c} : v.conn[d] = w.conn[d] /\ v.trace[d] = w.trace[d]
      /\ v.conn[c] = x /\ v.trace[c] = h
      /\ v.conn \in [BrokerClients -> Client] /\ v.trace \in [BrokerClients -> Trace]
    BY <1>1, <1>2
<1>4. Stored(v) = Stored(w) /\ Bytes(v) = Bytes(w)
    BY DEF Stored, Bytes
<1>5. \A d \in BrokerClients : Sound(v.conn[d], v.trace[d], Stored(v))
    BY <1>3, <1>4 DEF Good
<1>6. SubscriptionsKept(v) /\ v.budget \in 0..MaxAll
    <2> DEFINE S == w.conn[c].subs
               T == x.subs
               A == Subscriptions(w)
    <2>1. IsFiniteSet(S) /\ IsFiniteSet(T) /\ IsFiniteSet(A) /\ w.budget = Cardinality(A) /\ S \in SUBSET Filters
        BY <1>1, <1>2 DEF Good, Sound, SubscriptionsKept, Client
    <2>2. {c} \X S \subseteq A
        BY <2>1 DEF Subscriptions
    <2>3. \A a \in A : a \in {c} \X S \/ a \notin {c} \X T
        BY DEF Subscriptions
    <2>4. Subscriptions(v) = (A \ ({c} \X S)) \cup ({c} \X T)
        <3>1. ASSUME NEW d \in BrokerClients, NEW f \in Filters
              PROVE  <<d, f>> \in Subscriptions(v) <=> <<d, f>> \in (A \ ({c} \X S)) \cup ({c} \X T)
            <4>1. CASE d = c
                BY <1>3, <2>1, <4>1 DEF Subscriptions
            <4>2. CASE d # c
                BY <1>3, <2>1, <4>2 DEF Subscriptions
            <4> QED
                BY <4>1, <4>2
        <3>2. /\ Subscriptions(v) \subseteq BrokerClients \X Filters
              /\ (A \ ({c} \X S)) \cup ({c} \X T) \subseteq BrokerClients \X Filters
            BY <1>2 DEF Subscriptions
        <3> QED
            BY <3>1, <3>2
    <2> HIDE DEF S, T, A
    <2>5. /\ IsFiniteSet((A \ ({c} \X S)) \cup ({c} \X T))
          /\ Cardinality((A \ ({c} \X S)) \cup ({c} \X T))
               = Cardinality(A) - Cardinality(S) + Cardinality(T)
          /\ Cardinality(S) <= Cardinality(A)
          /\ Cardinality(A) \in Nat /\ Cardinality(S) \in Nat /\ Cardinality(T) \in Nat
        BY <2>1, <2>2, <2>3, PairsReplaced
    <2> QED
        BY <2>1, <2>4, <2>5 DEF SubscriptionsKept, BrokerAssumption, S, T
<1>7. PlacesKept(v) /\ v.pending \in SUBSET BrokerClients
    <2>1. /\ w.pending = {d \in BrokerClients : Awaited(w.conn[d])}
          /\ IsFiniteSet(w.pending) /\ Cardinality(w.pending) <= MaxUndecided
        BY DEF Good, PlacesKept
    <2>2. v.pending = {d \in BrokerClients : Awaited(v.conn[d])}
        BY <1>3, <2>1
    <2>3. IsFiniteSet(v.pending) /\ Cardinality(v.pending) <= MaxUndecided
        <3>1. Cardinality(w.pending) \in Nat /\ MaxUndecided \in Nat
            BY <2>1, FS_CardinalityType DEF BrokerAssumption
        <3>2. CASE v.pending = w.pending \ {c}
            <4>1. /\ IsFiniteSet(w.pending \ {c})
                  /\ Cardinality(w.pending \ {c}) <= Cardinality(w.pending)
                BY <2>1, <3>1, FS_Subset
            <4> QED
                BY <2>1, <3>1, <3>2, <4>1, FS_CardinalityType
        <3>3. CASE v.pending = w.pending \cup {c} /\ Cardinality(w.pending) < MaxUndecided
            <4>1. /\ IsFiniteSet(w.pending \cup {c})
                  /\ Cardinality(w.pending \cup {c}) <= Cardinality(w.pending) + 1
                <5>1. /\ IsFiniteSet(w.pending \cup {c})
                      /\ Cardinality(w.pending \cup {c})
                           = IF c \in w.pending THEN Cardinality(w.pending) ELSE Cardinality(w.pending) + 1
                    BY <2>1, FS_AddElement
                <5> QED
                    BY <3>1, <5>1
            <4> QED
                BY <2>1, <3>1, <3>3, <4>1, FS_CardinalityType
        <3> QED
            BY <2>1, <3>2, <3>3
    <2> QED
        BY <2>2, <2>3 DEF PlacesKept
<1>8. RetainedKept(v)
    BY <1>4 DEF Good, RetainedKept
<1>9. v \in Worlds
    BY <1>1, <1>3, <1>6, <1>7 DEF Worlds
<1> QED
    BY <1>5, <1>6, <1>7, <1>8, <1>9 DEF Good

-----------------------------------------------------------------------------
\* A message is published: connections stay as they are, but for what they lag behind.

Told(v, w) ==
    /\ v.conn = w.conn /\ v.pending = w.pending /\ v.budget = w.budget
    /\ \A d \in BrokerClients : v.trace[d] = [w.trace[d] EXCEPT !.behind = v.trace[d].behind]

LEMMA SoundWhenBehind ==
    ASSUME NEW x, NEW h, NEW stored, Sound(x, h, stored), NEW b \in SUBSET Topics, NEW kept,
           b \subseteq kept, x.state = "active" => b \cap x.reads \cap Covered(x.subs) = {}
    PROVE  Sound(x, [h EXCEPT !.behind = b], kept)
<1> DEFINE g == [h EXCEPT !.behind = b]
<1>1. /\ g \in Trace /\ g.behind = b /\ g.admitted = h.admitted /\ g.left = h.left
      /\ g.ran = h.ran /\ g.arrived = h.arrived /\ g.wills = h.wills
    BY DEF Sound, Trace
<1> HIDE DEF g
<1>2. Sound(x, g, kept)
    BY <1>1 DEF Sound
<1> QED
    BY <1>2 DEF g

LEMMA ToldKeeps ==
    ASSUME NEW w, Good(w), NEW v, v \in Worlds, Told(v, w), RetainedKept(v),
           \A d \in BrokerClients :
               /\ v.trace[d].behind \subseteq Stored(v)
               /\ w.conn[d].state = "active" =>
                    v.trace[d].behind \cap w.conn[d].reads \cap Covered(w.conn[d].subs) = {}
    PROVE  Good(v)
<1>1. \A d \in BrokerClients : Sound(v.conn[d], v.trace[d], Stored(v))
    <2> TAKE d \in BrokerClients
    <2>1. Sound(w.conn[d], w.trace[d], Stored(w))
        BY DEF Good
    <2>2. v.trace[d].behind \in SUBSET Topics
        BY DEF Stored
    <2>3. Sound(w.conn[d], [w.trace[d] EXCEPT !.behind = v.trace[d].behind], Stored(v))
        BY <2>1, <2>2, SoundWhenBehind
    <2> QED
        BY <2>3 DEF Told
<1>2. PlacesKept(v) /\ SubscriptionsKept(v)
    BY DEF Good, Told, PlacesKept, SubscriptionsKept, Subscriptions
<1> QED
    BY <1>1, <1>2 DEF Good

LEMMA FanOutKeeps ==
    ASSUME NEW w, Good(w), NEW t \in Topics
    PROVE  /\ Good(FanOutPacket(w, t)) /\ Told(FanOutPacket(w, t), w)
           /\ FanOutPacket(w, t).retained = w.retained /\ FanOutPacket(w, t).retainedBytes = w.retainedBytes
<1> DEFINE tr == [c \in BrokerClients |->
                     IF Receives(w, c, t) THEN [w.trace[c] EXCEPT !.behind = w.trace[c].behind \ {t}]
                     ELSE w.trace[c]]
           v == FanOutPacket(w, t)
<1>1. w \in Worlds /\ w.trace \in [BrokerClients -> Trace]
    BY DEF Good, Worlds
<1>2. /\ v.conn = w.conn /\ v.pending = w.pending /\ v.budget = w.budget /\ v.retained = w.retained
      /\ v.retainedBytes = w.retainedBytes /\ v.trace = tr
      /\ v = [conn |-> w.conn, pending |-> w.pending, budget |-> w.budget, retained |-> w.retained,
              retainedBytes |-> w.retainedBytes, trace |-> tr]
    <2> HIDE DEF tr
    <2>1. v = [w EXCEPT !.trace = tr]
        BY DEF FanOutPacket, tr
    <2> HIDE DEF v
    <2> QED
        BY <1>1, <2>1 DEF Worlds
<1> HIDE DEF v
<1>3. \A d \in BrokerClients :
          /\ tr[d] \in Trace /\ tr[d].behind \subseteq w.trace[d].behind
          /\ tr[d] = [w.trace[d] EXCEPT !.behind = tr[d].behind]
    <2> TAKE d \in BrokerClients
    <2>1. w.trace[d] \in Trace
        BY <1>1
    <2>2. CASE Receives(w, d, t)
        <3>1. tr[d] = [w.trace[d] EXCEPT !.behind = w.trace[d].behind \ {t}]
            BY <2>2
        <3> QED
            BY <2>1, <3>1 DEF Trace
    <2>3. CASE ~Receives(w, d, t)
        <3>1. tr[d] = w.trace[d]
            BY <2>3
        <3> QED
            BY <2>1, <3>1 DEF Trace
    <2> QED
        BY <2>2, <2>3
<1>4. tr \in [BrokerClients -> Trace]
    BY <1>3
<1> HIDE DEF tr
<1>5. v \in Worlds
    BY <1>1, <1>2, <1>4 DEF Worlds
<1>6. Told(v, w)
    BY <1>2, <1>3 DEF Told
<1>7. Stored(v) = Stored(w) /\ RetainedKept(v)
    BY <1>2 DEF Good, RetainedKept, Stored, Bytes
<1>8. \A d \in BrokerClients :
    /\ v.trace[d].behind \subseteq Stored(v)
    /\ w.conn[d].state = "active" =>
         v.trace[d].behind \cap w.conn[d].reads \cap Covered(w.conn[d].subs) = {}
    <2> TAKE d \in BrokerClients
    <2>1. Sound(w.conn[d], w.trace[d], Stored(w))
        BY DEF Good
    <2> QED
        BY <1>2, <1>3, <1>7, <2>1 DEF Sound
<1>9. Good(v)
    BY <1>5, <1>6, <1>7, <1>8, ToldKeeps
<1> QED
    BY <1>2, <1>6, <1>9 DEF v

\* The bytes of one retained message are exchanged for those of another.
LEMMA BytesExchanged ==
    ASSUME BrokerAssumption, NEW w, Good(w), NEW t \in Topics, NEW size \in 0..MaxSize,
           NEW v, v.retained = [w.retained EXCEPT ![t] = size]
    PROVE  /\ IsFiniteSet(Bytes(v))
           /\ Cardinality(Bytes(v)) = w.retainedBytes - w.retained[t] + size
           /\ w.retained[t] \in Nat /\ w.retainedBytes \in Nat /\ w.retained[t] <= w.retainedBytes
<1> DEFINE A == Bytes(w)
           S == 1..w.retained[t]
           T == 1..size
<1>1. w.retained \in [Topics -> 0..MaxSize] /\ MaxSize \in Nat
      /\ IsFiniteSet(A) /\ w.retainedBytes = Cardinality(A)
    BY DEF Good, Worlds, RetainedKept, BrokerAssumption
<1>2. w.retained[t] \in 0..MaxSize
    BY <1>1
<1>3. /\ IsFiniteSet(S) /\ Cardinality(S) = w.retained[t]
      /\ IsFiniteSet(T) /\ Cardinality(T) = size
    <2>1. \A n \in Nat : IsFiniteSet(1..n) /\ Cardinality(1..n) = n
        BY FS_Interval
    <2> QED
        BY <1>1, <1>2, <2>1
<1>4. {t} \X S \subseteq A
    BY <1>1, <1>2 DEF Bytes
<1>5. \A a \in A : a \in {t} \X S \/ a \notin {t} \X T
    BY <1>1, <1>2 DEF Bytes
<1>6. Bytes(v) = (A \ ({t} \X S)) \cup ({t} \X T)
    <2>1. \A o \in Topics : v.retained[o] = IF o = t THEN size ELSE w.retained[o]
        BY <1>1
    <2>2. ASSUME NEW o \in Topics, NEW n \in 1..MaxSize
          PROVE  <<o, n>> \in Bytes(v) <=> <<o, n>> \in (A \ ({t} \X S)) \cup ({t} \X T)
        <3>1. CASE o = t
            BY <1>1, <1>2, <2>1, <3>1 DEF Bytes
        <3>2. CASE o # t
            BY <1>1, <1>2, <2>1, <3>2 DEF Bytes
        <3> QED
            BY <3>1, <3>2
    <2>3. /\ Bytes(v) \subseteq Topics \X (1..MaxSize)
          /\ (A \ ({t} \X S)) \cup ({t} \X T) \subseteq Topics \X (1..MaxSize)
        BY <1>1 DEF Bytes
    <2> QED
        BY <2>2, <2>3
<1> HIDE DEF A, S, T
<1>7. /\ IsFiniteSet((A \ ({t} \X S)) \cup ({t} \X T))
      /\ Cardinality((A \ ({t} \X S)) \cup ({t} \X T))
           = Cardinality(A) - Cardinality(S) + Cardinality(T)
      /\ Cardinality(S) <= Cardinality(A)
      /\ Cardinality(A) \in Nat /\ Cardinality(S) \in Nat /\ Cardinality(T) \in Nat
    <2>1. IsFiniteSet(A) /\ IsFiniteSet(S) /\ IsFiniteSet(T)
        BY <1>1, <1>3
    <2> QED
        BY <1>4, <1>5, <2>1, PairsReplaced
<1> QED
    BY <1>1, <1>2, <1>3, <1>6, <1>7

\* The topics that have a retained message stay few.
LEMMA TopicsStayFew ==
    ASSUME BrokerAssumption, NEW w, Good(w), NEW t \in Topics, NEW size \in 0..MaxSize,
           size # 0 => w.retained[t] # 0 \/ ~(Cardinality(Stored(w)) >= MaxRetained),
           NEW v, v.retained = [w.retained EXCEPT ![t] = size]
    PROVE  /\ IsFiniteSet(Stored(v)) /\ Cardinality(Stored(v)) <= MaxRetained
           /\ Stored(v) = IF size = 0 THEN Stored(w) \ {t} ELSE Stored(w) \cup {t}
<1>1. w.retained \in [Topics -> 0..MaxSize] /\ IsFiniteSet(Stored(w))
      /\ Cardinality(Stored(w)) <= MaxRetained /\ MaxRetained \in Nat
    BY DEF Good, Worlds, RetainedKept, BrokerAssumption
<1>2. Stored(v) = IF size = 0 THEN Stored(w) \ {t} ELSE Stored(w) \cup {t}
    <2>1. \A o \in Topics : v.retained[o] = IF o = t THEN size ELSE w.retained[o]
        BY <1>1
    <2> QED
        BY <2>1 DEF Stored
<1>3. Cardinality(Stored(w)) \in Nat
    BY <1>1, FS_CardinalityType
<1>4. CASE size = 0
    <2>1. IsFiniteSet(Stored(w) \ {t}) /\ Cardinality(Stored(w) \ {t}) <= Cardinality(Stored(w))
        BY <1>1, FS_Subset
    <2>2. Cardinality(Stored(w) \ {t}) \in Nat
        BY <2>1, FS_CardinalityType
    <2> QED
        BY <1>1, <1>2, <1>3, <1>4, <2>1, <2>2
<1>5. CASE size # 0
    <2>1. /\ IsFiniteSet(Stored(w) \cup {t})
          /\ Cardinality(Stored(w) \cup {t})
               = IF t \in Stored(w) THEN Cardinality(Stored(w)) ELSE Cardinality(Stored(w)) + 1
        BY <1>1, FS_AddElement
    <2>2. w.retained[t] # 0 => t \in Stored(w)
        BY DEF Stored
    <2> QED
        BY <1>1, <1>2, <1>3, <1>5, <2>1, <2>2
<1> QED
    BY <1>4, <1>5

LEMMA RetainKeeps ==
    ASSUME BrokerAssumption, NEW w, Good(w), NEW p \in Publication
    PROVE  Good(Retain(w, p)) /\ Told(Retain(w, p), w)
<1> DEFINE t == p.topic
           size == p.size
           lag(c) == IF size = 0 THEN [w.trace[c] EXCEPT !.behind = w.trace[c].behind \ {t}]
                     ELSE IF w.conn[c].state # "closed" /\ ~Receives(w, c, t)
                     THEN [w.trace[c] EXCEPT !.behind = w.trace[c].behind \cup {t}]
                     ELSE w.trace[c]
           tr == [c \in BrokerClients |-> lag(c)]
           ret == [w.retained EXCEPT ![t] = size]
           b == w.retainedBytes - w.retained[t] + size
           v == Retain(w, p)
<1>1. /\ w \in Worlds /\ w.trace \in [BrokerClients -> Trace] /\ w.conn \in [BrokerClients -> Client]
      /\ w.retained \in [Topics -> 0..MaxSize] /\ MaxSize \in Nat /\ MaxRetainedBytes \in Nat
      /\ t \in Topics /\ size \in 0..MaxSize
    BY DEF Good, Worlds, Publication, BrokerAssumption
<1>2. CASE size # 0 /\ OverBudget(w, p)
    <2>1. v = w
        BY <1>2 DEF Retain
    <2>2. \A d \in BrokerClients : w.trace[d] = [w.trace[d] EXCEPT !.behind = w.trace[d].behind]
        BY <1>1 DEF Trace
    <2> HIDE DEF v
    <2>3. Good(v) /\ Told(v, w)
        BY <2>1, <2>2 DEF Told
    <2> QED
        BY <2>3 DEF v
<1>3. CASE ~(size # 0 /\ OverBudget(w, p))
    <2>1. /\ v.conn = w.conn /\ v.pending = w.pending /\ v.budget = w.budget
          /\ v.retained = ret /\ v.retainedBytes = b /\ v.trace = tr
          /\ v = [conn |-> w.conn, pending |-> w.pending, budget |-> w.budget, retained |-> ret,
                  retainedBytes |-> b, trace |-> tr]
        <3> HIDE DEF tr, b, lag
        <3>1. v = [[[w EXCEPT !.retained = ret] EXCEPT !.retainedBytes = b] EXCEPT !.trace = tr]
            BY <1>3, Zenon DEF Retain, tr, b, lag
        <3> HIDE DEF v, ret
        <3> QED
            BY <1>1, <3>1 DEF Worlds
    <2> HIDE DEF v
    <2>2. \A d \in BrokerClients :
              /\ tr[d] \in Trace /\ tr[d] = [w.trace[d] EXCEPT !.behind = tr[d].behind]
              /\ tr[d].behind = IF size = 0 THEN w.trace[d].behind \ {t}
                                ELSE IF w.conn[d].state # "closed" /\ ~Receives(w, d, t)
                                THEN w.trace[d].behind \cup {t} ELSE w.trace[d].behind
        <3> TAKE d \in BrokerClients
        <3>1. w.trace[d] \in Trace /\ tr[d] = lag(d)
            BY <1>1
        <3> HIDE DEF tr
        <3>2. CASE size = 0
            <4>1. tr[d] = [w.trace[d] EXCEPT !.behind = w.trace[d].behind \ {t}]
                BY <3>1, <3>2
            <4> HIDE DEF lag
            <4> QED
                BY <3>1, <3>2, <4>1 DEF Trace
        <3>3. CASE size # 0 /\ w.conn[d].state # "closed" /\ ~Receives(w, d, t)
            <4>1. tr[d] = [w.trace[d] EXCEPT !.behind = w.trace[d].behind \cup {t}]
                BY <3>1, <3>3
            <4> HIDE DEF lag
            <4> QED
                <5>1. w.trace[d].behind \cup {t} \in SUBSET Topics
                    BY <1>1, <3>1 DEF Trace
                <5>2. /\ tr[d] \in Trace /\ tr[d].behind = w.trace[d].behind \cup {t}
                      /\ tr[d] = [w.trace[d] EXCEPT !.behind = tr[d].behind]
                    BY <3>1, <4>1, <5>1 DEF Trace
                <5> QED
                    BY <3>3, <5>2
        <3>4. CASE size # 0 /\ ~(w.conn[d].state # "closed" /\ ~Receives(w, d, t))
            BY <1>1, <3>1, <3>4 DEF Trace
        <3> QED
            BY <3>2, <3>3, <3>4
    <2>3. tr \in [BrokerClients -> Trace]
        BY <2>2
    <2> HIDE DEF tr, lag
    <2>4. /\ IsFiniteSet(Bytes(v)) /\ Cardinality(Bytes(v)) = b
          /\ w.retained[t] \in Nat /\ w.retainedBytes \in Nat /\ w.retained[t] <= w.retainedBytes
        BY <1>1, <2>1, BytesExchanged
    <2>5. /\ IsFiniteSet(Stored(v)) /\ Cardinality(Stored(v)) <= MaxRetained
          /\ Stored(v) = IF size = 0 THEN Stored(w) \ {t} ELSE Stored(w) \cup {t}
        <3>1. size # 0 => w.retained[t] # 0 \/ ~(Cardinality(Stored(w)) >= MaxRetained)
            BY <1>3 DEF OverBudget
        <3>2. t \in Topics /\ size \in 0..MaxSize /\ v.retained = [w.retained EXCEPT ![t] = size]
            BY <1>1, <2>1
        <3> HIDE DEF t, size
        <3> QED
            BY <3>1, <3>2, TopicsStayFew
    <2>6. RetainedKept(v)
        BY <2>1, <2>4, <2>5 DEF RetainedKept
    <2>7. b \in 0..MaxRetainedBytes
        <3>1. w.retainedBytes <= MaxRetainedBytes
            BY <1>1 DEF Worlds
        <3>2. size # 0 => ~(b > MaxRetainedBytes)
            BY <1>3 DEF OverBudget
        <3> QED
            BY <1>1, <2>4, <3>1, <3>2
    <2>8. v \in Worlds
        BY <1>1, <2>1, <2>3, <2>7 DEF Worlds
    <2>9. Told(v, w)
        BY <2>1, <2>2 DEF Told
    <2>10. \A d \in BrokerClients :
        /\ v.trace[d].behind \subseteq Stored(v)
        /\ w.conn[d].state = "active" =>
             v.trace[d].behind \cap w.conn[d].reads \cap Covered(w.conn[d].subs) = {}
        <3> TAKE d \in BrokerClients
        <3>1. Sound(w.conn[d], w.trace[d], Stored(w))
            BY DEF Good
        <3>2. /\ w.trace[d].behind \subseteq Stored(w)
              /\ w.conn[d].state = "active" =>
                   w.trace[d].behind \cap w.conn[d].reads \cap Covered(w.conn[d].subs) = {}
            BY <3>1 DEF Sound
        <3>3. w.conn[d].state = "active" /\ ~Receives(w, d, t) =>
                  t \notin w.conn[d].reads \cap Covered(w.conn[d].subs)
            BY DEF Receives
        <3>4. w.conn[d].state \in {"new", "pending", "active", "closed"}
            BY <1>1 DEF Client
        <3> QED
            BY <2>1, <2>2, <2>5, <3>2, <3>3, <3>4
    <2>11. Good(v)
        BY <2>6, <2>8, <2>9, <2>10, ToldKeeps
    <2> QED
        BY <2>9, <2>11 DEF v
<1> QED
    BY <1>2, <1>3 DEF v

\* Broker.publishAllowed()
LEMMA PublishKeeps ==
    ASSUME BrokerAssumption, NEW w, Good(w), NEW p \in Publication
    PROVE  Good(PublishAllowed(w, p)) /\ Told(PublishAllowed(w, p), w)
<1> DEFINE u == FanOutPacket(w, p.topic)
           v == PublishAllowed(w, p)
<1>1. p.topic \in Topics
    BY DEF Publication
<1>2. Good(u) /\ Told(u, w)
    BY <1>1, FanOutKeeps
<1>3. v = u \/ v = Retain(u, p)
    BY DEF PublishAllowed
<1> HIDE DEF u, v
<1>4. Good(Retain(u, p)) /\ Told(Retain(u, p), u)
    BY <1>2, RetainKeeps
<1>5. ASSUME NEW x, Told(x, u)
      PROVE  Told(x, w)
    <2>1. \A d \in BrokerClients : w.trace[d] \in Trace
        BY DEF Good, Worlds
    <2>2. \A d \in BrokerClients : x.trace[d] = [w.trace[d] EXCEPT !.behind = x.trace[d].behind]
        <3> TAKE d \in BrokerClients
        <3>1. /\ x.trace[d] = [u.trace[d] EXCEPT !.behind = x.trace[d].behind]
              /\ u.trace[d] = [w.trace[d] EXCEPT !.behind = u.trace[d].behind]
            BY <1>2, <1>5 DEF Told
        <3> QED
            BY <2>1, <3>1 DEF Trace
    <2> QED
        BY <1>2, <1>5, <2>2 DEF Told
<1>6. Good(v) /\ Told(v, w)
    BY <1>2, <1>3, <1>4, <1>5
<1> QED
    BY <1>6 DEF v

-----------------------------------------------------------------------------
\* The handlers of one connection, and what they leave alone of the others.

Apart(v, w, c) ==
    \A d \in BrokerClients \ {c} :
        /\ v.conn[d] = w.conn[d]
        /\ v.trace[d].arrived = w.trace[d].arrived /\ v.trace[d].ran = w.trace[d].ran

\* The packets of the connection itself are the same before and after.
Unrun(v, w, c) == v.trace[c].arrived = w.trace[c].arrived /\ v.trace[c].ran = w.trace[c].ran

LEMMA Parts ==
    ASSUME NEW w, Good(w), NEW c \in BrokerClients
    PROVE  /\ w \in Worlds /\ w.conn \in [BrokerClients -> Client] /\ w.trace \in [BrokerClients -> Trace]
           /\ w.pending \in SUBSET BrokerClients /\ w.budget \in 0..MaxAll
           /\ w.conn[c] \in Client /\ w.trace[c] \in Trace /\ Sound(w.conn[c], w.trace[c], Stored(w))
           /\ w = [conn |-> w.conn, pending |-> w.pending, budget |-> w.budget,
                   retained |-> w.retained, retainedBytes |-> w.retainedBytes, trace |-> w.trace]
BY DEF Good, Worlds

\* Publishing touches no connection's packets.
LEMMA ToldApart ==
    ASSUME NEW w, Good(w), NEW v, Told(v, w), NEW c \in BrokerClients
    PROVE  Apart(v, w, c) /\ Unrun(v, w, c) /\ v.conn = w.conn
<1>1. ASSUME NEW d \in BrokerClients
      PROVE  v.trace[d].arrived = w.trace[d].arrived /\ v.trace[d].ran = w.trace[d].ran
    <2>1. w.trace[d] \in Trace /\ v.trace[d] = [w.trace[d] EXCEPT !.behind = v.trace[d].behind]
        BY Parts DEF Told
    <2> QED
        BY <2>1 DEF Trace
<1> QED
    BY <1>1 DEF Apart, Unrun, Told

LEMMA ApartTogether ==
    ASSUME NEW u, NEW v, NEW w, NEW c \in BrokerClients, Apart(u, v, c), Apart(v, w, c)
    PROVE  Apart(u, w, c)
BY DEF Apart

\* A connection and its history become x and h, and the budgets follow.
Turned(v, w, c, x, h) ==
    /\ v.conn = [w.conn EXCEPT ![c] = x] /\ v.trace = [w.trace EXCEPT ![c] = h]
    /\ v.retained = w.retained /\ v.retainedBytes = w.retainedBytes
    /\ v.budget = w.budget - Cardinality(w.conn[c].subs) + Cardinality(x.subs) /\ v.budget <= MaxAll
    /\ \/ v.pending = w.pending \ {c} /\ ~Awaited(x)
       \/ v.pending = w.pending \cup {c} /\ Awaited(x) /\ Cardinality(w.pending) < MaxUndecided
       \/ v.pending = w.pending /\ (Awaited(x) <=> Awaited(w.conn[c]))
    /\ v = [conn |-> v.conn, pending |-> v.pending, budget |-> v.budget, retained |-> v.retained,
            retainedBytes |-> v.retainedBytes, trace |-> v.trace]

LEMMA TurnedKeeps ==
    ASSUME BrokerAssumption, NEW w, Good(w), NEW c \in BrokerClients, NEW x, NEW h,
           Sound(x, h, Stored(w)), NEW v, Turned(v, w, c, x, h)
    PROVE  Good(v) /\ Apart(v, w, c) /\ v.conn[c] = x /\ v.trace[c] = h
<1>1. Good(v)
    BY OneChanges DEF Turned
<1>2. Apart(v, w, c) /\ v.conn[c] = x /\ v.trace[c] = h
    BY Parts DEF Turned, Apart
<1> QED
    BY <1>1, <1>2

\* Only one connection and its history change, and what it subscribes to does not.
LEMMA TurnedAlone ==
    ASSUME BrokerAssumption, NEW w, Good(w), NEW c \in BrokerClients, NEW x, NEW h, NEW v,
           v = [w EXCEPT !.conn = [w.conn EXCEPT ![c] = x], !.trace = [w.trace EXCEPT ![c] = h]],
           x.subs = w.conn[c].subs, Awaited(x) <=> Awaited(w.conn[c])
    PROVE  Turned(v, w, c, x, h)
<1> DEFINE cs == [w.conn EXCEPT ![c] = x]
           hs == [w.trace EXCEPT ![c] = h]
<1>1. /\ w \in Worlds /\ w.budget \in 0..MaxAll /\ IsFiniteSet(w.conn[c].subs) /\ MaxAll \in Nat
    BY Parts DEF Sound, BrokerAssumption
<1>2. Cardinality(w.conn[c].subs) \in Nat
    BY <1>1, FS_CardinalityType
<1>3. /\ v.conn = cs /\ v.trace = hs /\ v.pending = w.pending /\ v.budget = w.budget
      /\ v.retained = w.retained /\ v.retainedBytes = w.retainedBytes
      /\ v = [conn |-> v.conn, pending |-> v.pending, budget |-> v.budget, retained |-> v.retained,
              retainedBytes |-> v.retainedBytes, trace |-> v.trace]
    <2> HIDE DEF cs, hs
    <2>1. v = [w EXCEPT !.conn = cs, !.trace = hs]
        BY DEF cs, hs
    <2> QED
        BY <1>1, <2>1 DEF Worlds
<1>4. v.budget = w.budget - Cardinality(w.conn[c].subs) + Cardinality(x.subs) /\ v.budget <= MaxAll
    BY <1>1, <1>2, <1>3
<1> QED
    BY <1>3, <1>4 DEF Turned

\* The end of a connection, with its will counted when there is one to publish.
LEMMA EndedKeeps ==
    ASSUME BrokerAssumption, NEW w, Good(w), NEW c \in BrokerClients, w.conn[c].state # "closed",
           NEW graceful \in BOOLEAN, NEW n \in {0, 1},
           n = IF w.conn[c].state = "active" /\ ~graceful /\ w.conn[c].will # NoWill THEN 1 ELSE 0,
           NEW v,
           IF n = 1 THEN v = [ClientEnded(w, c, graceful) EXCEPT
                                 !.trace[c].wills = ClientEnded(w, c, graceful).trace[c].wills + 1]
                  ELSE v = ClientEnded(w, c, graceful)
    PROVE  /\ Good(v) /\ Apart(v, w, c) /\ Unrun(v, w, c)
           /\ v.conn[c].state = "closed" /\ v.conn[c].will = w.conn[c].will
           /\ v.conn[c].stream = w.conn[c].stream /\ v.conn[c].deciding = w.conn[c].deciding
<1> DEFINE y == w.conn[c]
           g == w.trace[c]
           x == [y EXCEPT !.state = "closed", !.deferred = <<>>, !.bytes = 0,
                          !.subs = {}, !.reads = {}, !.deadline = FALSE]
           left == IF graceful THEN "graceful" ELSE "lost"
           h == [g EXCEPT !.left = left, !.behind = {}]
           k == [h EXCEPT !.wills = g.wills + n]
           e == ClientEnded(w, c, graceful)
<1>1. /\ w \in Worlds /\ y \in Client /\ g \in Trace /\ Sound(y, g, Stored(w)) /\ MaxBytes \in Nat
      /\ w.conn \in [BrokerClients -> Client] /\ w.trace \in [BrokerClients -> Trace]
      /\ w.budget \in 0..MaxAll /\ MaxAll \in Nat /\ MaxDeferred \in Nat /\ MaxOwn \in Nat
    BY Parts DEF BrokerAssumption
<1>2. /\ x \in Client /\ x.state = "closed" /\ x.deferred = <<>> /\ x.subs = {} /\ x.reads = {}
      /\ x.will = y.will /\ x.stream = y.stream /\ x.deciding = y.deciding
    <2>1. <<>> \in Seq(Packets) /\ 0 \in 0..MaxBytes
        BY <1>1
    <2> HIDE DEF y
    <2> QED
        BY <1>1, <2>1 DEF Client
<1>3. /\ h \in Trace /\ h.left = left /\ h.behind = {} /\ h.admitted = g.admitted
      /\ h.arrived = g.arrived /\ h.ran = g.ran /\ h.wills = g.wills
    BY <1>1 DEF Trace
<1>4. /\ k \in Trace /\ k.left = left /\ k.behind = {} /\ k.admitted = g.admitted
      /\ k.arrived = g.arrived /\ k.ran = g.ran /\ k.wills = g.wills + n /\ (n = 0 => k = h)
    <2> HIDE DEF h, g
    <2>1. g.wills + n \in Nat /\ (n = 0 => g.wills + n = h.wills)
        BY <1>1, <1>3 DEF Trace
    <2> QED
        BY <1>3, <2>1 DEF Trace
<1>5. /\ e.conn = [w.conn EXCEPT ![c] = x] /\ e.trace = [w.trace EXCEPT ![c] = h]
      /\ e.pending = w.pending \ {c} /\ e.budget = w.budget - Cardinality(y.subs)
      /\ e.retained = w.retained /\ e.retainedBytes = w.retainedBytes
      /\ e = [conn |-> e.conn, pending |-> e.pending, budget |-> e.budget, retained |-> e.retained,
              retainedBytes |-> e.retainedBytes, trace |-> e.trace]
    <2> HIDE DEF x, h
    <2>1. e = [w EXCEPT !.conn[c] = x, !.pending = w.pending \ {c},
                        !.budget = w.budget - Cardinality(y.subs), !.trace[c] = h]
        BY DEF ClientEnded, x, h
    <2> HIDE DEF e
    <2> QED
        BY <1>1, <2>1 DEF Worlds
<1> HIDE DEF e
<1>6. /\ v.conn = [w.conn EXCEPT ![c] = x] /\ v.trace = [w.trace EXCEPT ![c] = k]
      /\ v.pending = w.pending \ {c} /\ v.budget = w.budget - Cardinality(y.subs)
      /\ v.retained = w.retained /\ v.retainedBytes = w.retainedBytes
      /\ v = [conn |-> v.conn, pending |-> v.pending, budget |-> v.budget, retained |-> v.retained,
              retainedBytes |-> v.retainedBytes, trace |-> v.trace]
    <2>1. CASE n = 0
        BY <1>4, <1>5, <2>1 DEF e
    <2>2. CASE n = 1
        <3>1. v = [e EXCEPT !.trace[c].wills = e.trace[c].wills + 1]
            BY <2>2 DEF e
        <3>2. e.trace[c] = h /\ [h EXCEPT !.wills = h.wills + 1] = k
            BY <1>1, <1>3, <1>5, <2>2
        <3>3. e.trace \in [BrokerClients -> Trace]
            BY <1>1, <1>3, <1>5
        <3> HIDE DEF h, k, x
        <3>4. [e.trace EXCEPT ![c].wills = e.trace[c].wills + 1] = [w.trace EXCEPT ![c] = k]
            BY <1>1, <1>5, <3>2
        <3>5. v = [e EXCEPT !.trace = [e.trace EXCEPT ![c].wills = e.trace[c].wills + 1]]
            BY <1>5, <3>1
        <3> QED
            BY <1>5, <3>4, <3>5
    <2> QED
        BY <2>1, <2>2
<1>7. Sound(x, k, Stored(w))
    <2> HIDE DEF x, h, k
    <2>1. Cardinality({}) = 0 /\ IsFiniteSet({})
        BY FS_EmptySet
    <2>2. Len(x.deferred) = 0
        BY <1>2
    <2>3. y.state # "closed" /\ y.state \in {"new", "pending", "active", "closed"}
        BY <1>1 DEF Client
    <2>4. g.wills = 0 /\ g.left = "kept" /\ (g.admitted <=> y.state = "active")
        BY <1>1, <2>3 DEF Sound, Awaited, Trace
    <2>5. k.wills = IF k.admitted /\ k.left = "lost" /\ x.will # NoWill THEN 1 ELSE 0
        BY <1>2, <1>4, <2>4
    <2> QED
        BY <1>1, <1>2, <1>4, <2>1, <2>2, <2>5 DEF Sound, Awaited
<1>8. Turned(v, w, c, x, k)
    <2> HIDE DEF x, h, k
    <2>1. /\ Cardinality({}) = 0 /\ IsFiniteSet(y.subs) /\ Cardinality(y.subs) \in Nat
        BY <1>1, FS_EmptySet, FS_CardinalityType DEF Sound
    <2>2. v.budget = w.budget - Cardinality(w.conn[c].subs) + Cardinality(x.subs) /\ v.budget <= MaxAll
        BY <1>1, <1>2, <1>6, <2>1
    <2>3. ~Awaited(x)
        BY <1>2 DEF Awaited
    <2> QED
        BY <1>6, <2>2, <2>3 DEF Turned
<1>9. Good(v) /\ Apart(v, w, c) /\ v.conn[c] = x /\ v.trace[c] = k
    <2> HIDE DEF x, h, k
    <2> QED
        BY <1>7, <1>8, TurnedKeeps
<1> QED
    BY <1>2, <1>4, <1>9 DEF Unrun

\* Client.destroy() and Broker's listener
LEMMA DestroyKeeps ==
    ASSUME BrokerAssumption, NEW w, Good(w), NEW c \in BrokerClients, NEW graceful \in BOOLEAN
    PROVE  LET v == DestroyClient(w, c, graceful) IN
           /\ Good(v) /\ Apart(v, w, c) /\ Unrun(v, w, c) /\ v.conn[c].state = "closed"
           /\ v.conn[c].stream = w.conn[c].stream /\ v.conn[c].deciding = w.conn[c].deciding
<1> DEFINE v == DestroyClient(w, c, graceful)
           ended == ClientEnded(w, c, graceful)
           told == [ended EXCEPT !.trace[c].wills = ended.trace[c].wills + 1]
           will == w.conn[c].will
<1>1. CASE w.conn[c].state = "closed"
    <2>1. v = w
        BY <1>1 DEF DestroyClient
    <2> QED
        BY <1>1, <2>1 DEF Apart, Unrun
<1>2. CASE w.conn[c].state # "closed" /\ ~(w.conn[c].state = "active" /\ ~graceful /\ will # NoWill)
    <2>1. v = ended
        BY <1>2 DEF DestroyClient
    <2> HIDE DEF v, ended
    <2>2. /\ Good(ended) /\ Apart(ended, w, c) /\ Unrun(ended, w, c) /\ ended.conn[c].state = "closed"
          /\ ended.conn[c].stream = w.conn[c].stream /\ ended.conn[c].deciding = w.conn[c].deciding
        <3>1. 0 = IF w.conn[c].state = "active" /\ ~graceful /\ w.conn[c].will # NoWill THEN 1 ELSE 0
            BY <1>2
        <3>2. IF 0 = 1 THEN ended = [ClientEnded(w, c, graceful) EXCEPT
                                        !.trace[c].wills = ClientEnded(w, c, graceful).trace[c].wills + 1]
              ELSE ended = ClientEnded(w, c, graceful)
            BY DEF ended
        <3> HIDE DEF will
        <3> QED
            BY <1>2, <3>1, <3>2, EndedKeeps
    <2>3. /\ Good(v) /\ Apart(v, w, c) /\ Unrun(v, w, c) /\ v.conn[c].state = "closed"
          /\ v.conn[c].stream = w.conn[c].stream /\ v.conn[c].deciding = w.conn[c].deciding
        BY <2>1, <2>2
    <2> QED
        BY <2>3 DEF v
<1>3. CASE w.conn[c].state # "closed" /\ w.conn[c].state = "active" /\ ~graceful /\ will # NoWill
    <2>1. v = PublishAllowed(told, WillPacket(ended.conn[c].will))
        BY <1>3 DEF DestroyClient, Announced
    <2>2. /\ Good(told) /\ Apart(told, w, c) /\ Unrun(told, w, c) /\ told.conn[c].state = "closed"
          /\ told.conn[c].stream = w.conn[c].stream /\ told.conn[c].deciding = w.conn[c].deciding
        <3> HIDE DEF will
        <3>1. 1 = IF w.conn[c].state = "active" /\ ~graceful /\ w.conn[c].will # NoWill THEN 1 ELSE 0
            BY <1>3 DEF will
        <3>2. IF 1 = 1 THEN told = [ClientEnded(w, c, graceful) EXCEPT
                                       !.trace[c].wills = ClientEnded(w, c, graceful).trace[c].wills + 1]
              ELSE told = ClientEnded(w, c, graceful)
            OBVIOUS
        <3> HIDE DEF told, ended
        <3> QED
            BY <1>3, <3>1, <3>2, EndedKeeps
    <2>3. ended.conn[c].will = will
        <3>1. ended.conn = [w.conn EXCEPT ![c] = [w.conn[c] EXCEPT !.state = "closed", !.deferred = <<>>,
                               !.bytes = 0, !.subs = {}, !.reads = {}, !.deadline = FALSE]]
            BY Parts DEF ClientEnded, Worlds
        <3>2. ended.conn[c] = [w.conn[c] EXCEPT !.state = "closed", !.deferred = <<>>,
                               !.bytes = 0, !.subs = {}, !.reads = {}, !.deadline = FALSE]
            <4> HIDE DEF ended
            <4> QED
                BY <3>1, Parts
        <3> HIDE DEF ended
        <3> QED
            BY <3>2, Parts DEF Client
    <2>4. WillPacket(will) \in Publication
        <3>1. will \in Topics /\ 0 \in 0..MaxSize
            BY <1>3, Parts DEF Client, BrokerAssumption
        <3> HIDE DEF will
        <3> QED
            BY <3>1 DEF WillPacket, Publication
    <2> HIDE DEF v, told, ended, will
    <2>5. /\ Good(PublishAllowed(told, WillPacket(will))) /\ Told(PublishAllowed(told, WillPacket(will)), told)
        BY <2>2, <2>4, PublishKeeps
    <2>6. Good(v) /\ Apart(v, told, c) /\ Unrun(v, told, c) /\ v.conn = told.conn
        BY <2>1, <2>2, <2>3, <2>5, ToldApart
    <2>7. Apart(v, w, c) /\ Unrun(v, w, c)
        BY <2>2, <2>6, ApartTogether DEF Unrun
    <2> QED
        BY <2>2, <2>6, <2>7 DEF v
<1> QED
    BY <1>1, <1>2, <1>3

-----------------------------------------------------------------------------
\* The filters that are granted are new, and no more than there is room for.
LEMMA AddedFits ==
    ASSUME BrokerAssumption, NEW w, Good(w), NEW c \in BrokerClients, NEW p, p.filters \in Seq(Filters)
    PROVE  LET added == Added(w, c, p) IN
           /\ added \subseteq Filters \ w.conn[c].subs /\ IsFiniteSet(added)
           /\ Cardinality(w.conn[c].subs) + Cardinality(added) <= MaxOwn
           /\ w.budget + Cardinality(added) <= MaxAll
<1> DEFINE subs == w.conn[c].subs
           room == Least(MaxOwn - Cardinality(subs), MaxAll - w.budget)
           n == Len(p.filters)
           new(i) == New(w, c, p, i)
           I == {k \in 0..n : Cardinality(new(k)) <= room}
           added == Added(w, c, p)
<1>1. /\ IsFiniteSet(subs) /\ Cardinality(subs) <= MaxOwn /\ w.budget \in 0..MaxAll
      /\ MaxOwn \in Nat /\ MaxAll \in Nat /\ n \in Nat /\ p.filters \in [1..n -> Filters]
    BY Parts, LenProperties DEF Sound, BrokerAssumption
<1>2. Cardinality(subs) \in Nat
    BY <1>1, FS_CardinalityType
<1>3. /\ room \in Nat /\ room <= MaxOwn - Cardinality(subs) /\ room <= MaxAll - w.budget
    <2> HIDE DEF subs
    <2> QED
        BY <1>1, <1>2 DEF Least
<1>4. \A i \in 0..n : new(i) \subseteq Filters \ subs /\ IsFiniteSet(new(i))
    <2> TAKE i \in 0..n
    <2> DEFINE S == {p.filters[k] : k \in 1..i}
               f == [k \in 1..i |-> p.filters[k]]
    <2>1. S \subseteq Filters /\ new(i) \in SUBSET S /\ new(i) \cap subs = {}
        BY <1>1 DEF New
    <2>2. f \in Surjection(1..i, S)
        BY DEF Surjection
    <2>3. IsFiniteSet(1..i)
        BY FS_Interval
    <2> HIDE DEF S, f, new
    <2>4. IsFiniteSet(S)
        BY <2>2, <2>3, FS_Surjection
    <2>5. IsFiniteSet(new(i))
        BY <2>1, <2>4, FS_Subset
    <2> QED
        BY <2>1, <2>5
<1>5. \A i, j \in 0..n : i <= j => new(i) \subseteq new(j)
    BY DEF New
<1>6. Cardinality(new(0)) = 0 /\ 0 \in 0..n
    <2>1. new(0) = {}
        BY DEF New
    <2>2. 0 \in 0..n
        BY <1>1
    <2> HIDE DEF new
    <2> QED
        BY <2>1, <2>2, FS_EmptySet
<1>7. added = UNION {new(i) : i \in I}
    BY DEF Added
<1> HIDE DEF new, room, subs, n, added
<1>8. I \in SUBSET (0..n) /\ I # {}
    <2>1. 0 \in I
        BY <1>3, <1>6
    <2> QED
        BY <2>1
<1>9. PICK m \in I : \A i \in I : i <= m
    <2> HIDE DEF I
    <2> QED
        BY <1>1, <1>8, GreatestElement
<1>10. m \in 0..n /\ Cardinality(new(m)) <= room
    BY <1>9
<1>11. added = new(m)
    <2>1. \A i \in I : i \in 0..n /\ new(i) \subseteq new(m)
        BY <1>5, <1>9, <1>10
    <2> HIDE DEF I
    <2> QED
        BY <1>7, <1>9, <2>1
<1>12. IsFiniteSet(added) /\ added \subseteq Filters \ subs /\ Cardinality(added) <= room
    BY <1>4, <1>10, <1>11
<1>13. Cardinality(added) \in Nat
    BY <1>12, FS_CardinalityType
<1>14. /\ Cardinality(subs) + Cardinality(added) <= MaxOwn
       /\ w.budget + Cardinality(added) <= MaxAll
    BY <1>1, <1>2, <1>3, <1>12, <1>13
<1> QED
    BY <1>12, <1>14 DEF subs, added

LEMMA CoveredTogether ==
    ASSUME NEW S, NEW T
    PROVE  Covered(S \cup T) = Covered(S) \cup Covered(T)
BY DEF Covered

\* Client.subscribe()
LEMMA SubscribeKeeps ==
    ASSUME BrokerAssumption, NEW w, Good(w), NEW c \in BrokerClients, w.conn[c].state = "active",
           NEW p, p.filters \in Seq(Filters)
    PROVE  LET v == SubscribeFilters(w, c, p) IN
           Good(v) /\ Apart(v, w, c) /\ Unrun(v, w, c) /\ v.conn[c].state = "active"
<1> DEFINE y == w.conn[c]
           g == w.trace[c]
           added == Added(w, c, p)
           new == (Covered(added) \ Covered(y.subs)) \cap y.reads
           x == [y EXCEPT !.subs = y.subs \cup added]
           h == [g EXCEPT !.behind = g.behind \ (new \cap Stored(w))]
           a == [w EXCEPT !.conn[c].subs = y.subs \cup added, !.budget = w.budget + Cardinality(added)]
           v == SubscribeFilters(w, c, p)
<1>1. /\ w \in Worlds /\ y \in Client /\ g \in Trace /\ Sound(y, g, Stored(w))
      /\ w.conn \in [BrokerClients -> Client] /\ w.trace \in [BrokerClients -> Trace] /\ w.budget \in 0..MaxAll
    BY Parts
<1>2. /\ added \subseteq Filters \ y.subs /\ IsFiniteSet(added)
      /\ Cardinality(y.subs) + Cardinality(added) <= MaxOwn
      /\ w.budget + Cardinality(added) <= MaxAll
    BY AddedFits
<1> HIDE DEF added
<1>3. /\ x \in Client /\ x.subs = y.subs \cup added /\ x.state = y.state /\ x.reads = y.reads
      /\ x.will = y.will /\ x.deferred = y.deferred
    <2> HIDE DEF y
    <2> QED
        BY <1>1, <1>2 DEF Client
<1>4. /\ h \in Trace /\ h.behind = g.behind \ (new \cap Stored(w)) /\ h.admitted = g.admitted
      /\ h.left = g.left /\ h.ran = g.ran /\ h.arrived = g.arrived /\ h.wills = g.wills
    <2> HIDE DEF g, new
    <2> QED
        BY <1>1 DEF Trace
<1>5. /\ v.conn = [w.conn EXCEPT ![c] = x] /\ v.trace = [w.trace EXCEPT ![c] = h]
      /\ v.pending = w.pending /\ v.budget = w.budget + Cardinality(added)
      /\ v.retained = w.retained /\ v.retainedBytes = w.retainedBytes
      /\ v = [conn |-> v.conn, pending |-> v.pending, budget |-> v.budget, retained |-> v.retained,
              retainedBytes |-> v.retainedBytes, trace |-> v.trace]
    <2>1. /\ a.conn = [w.conn EXCEPT ![c] = x] /\ a.trace = w.trace /\ a.pending = w.pending
          /\ a.budget = w.budget + Cardinality(added) /\ a.retained = w.retained
          /\ a.retainedBytes = w.retainedBytes
          /\ a = [conn |-> a.conn, pending |-> a.pending, budget |-> a.budget, retained |-> a.retained,
                  retainedBytes |-> a.retainedBytes, trace |-> a.trace]
        <3> DEFINE cs == [w.conn EXCEPT ![c] = x]
                   n == w.budget + Cardinality(added)
        <3>1. a = [w EXCEPT !.conn = cs, !.budget = n]
            OBVIOUS
        <3> HIDE DEF a, cs, n
        <3>2. /\ a.conn = cs /\ a.trace = w.trace /\ a.pending = w.pending /\ a.budget = n
              /\ a.retained = w.retained /\ a.retainedBytes = w.retainedBytes
              /\ a = [conn |-> a.conn, pending |-> a.pending, budget |-> a.budget,
                      retained |-> a.retained, retainedBytes |-> a.retainedBytes, trace |-> a.trace]
            <4> HIDE DEF x
            <4> QED
                BY <1>1, <3>1 DEF Worlds
        <3> QED
            BY <3>2 DEF cs, n
    <2>2. v = Sent(a, c, new \cap Stored(w))
        BY DEF SubscribeFilters, added
    <2> HIDE DEF a, v, x, new
    <2>3. v = [a EXCEPT !.trace[c].behind = a.trace[c].behind \ (new \cap Stored(w))]
        BY <2>2 DEF Sent
    <2>4. [a.trace EXCEPT ![c].behind = a.trace[c].behind \ (new \cap Stored(w))] = [w.trace EXCEPT ![c] = h]
        BY <2>1
    <2> HIDE DEF h
    <2>5. v = [a EXCEPT !.trace = [w.trace EXCEPT ![c] = h]]
        BY <2>1, <2>3, <2>4
    <2> QED
        BY <2>1, <2>5
<1> HIDE DEF v
<1>6. /\ IsFiniteSet(y.subs) /\ IsFiniteSet(x.subs)
      /\ Cardinality(y.subs) \in Nat /\ Cardinality(added) \in Nat
      /\ Cardinality(x.subs) = Cardinality(y.subs) + Cardinality(added)
    <2>1. IsFiniteSet(y.subs) /\ Cardinality(y.subs) \in Nat /\ Cardinality(added) \in Nat
        BY <1>1, <1>2, FS_CardinalityType DEF Sound
    <2>2. y.subs \cap added = {}
        BY <1>2
    <2>3. /\ IsFiniteSet(y.subs \cup added)
          /\ Cardinality(y.subs \cup added)
               = Cardinality(y.subs) + Cardinality(added) - Cardinality(y.subs \cap added)
        BY <1>2, <2>1, FS_Union
    <2>4. Cardinality(y.subs \cap added) = 0
        BY <2>2, FS_EmptySet
    <2> HIDE DEF x, y
    <2> QED
        BY <1>3, <2>1, <2>3, <2>4
<1>7. h.behind \cap x.reads \cap Covered(x.subs) = {}
    <2>1. Covered(x.subs) = Covered(y.subs) \cup Covered(added)
        BY <1>3, CoveredTogether
    <2>2. g.behind \cap y.reads \cap Covered(y.subs) = {} /\ g.behind \subseteq Stored(w)
        BY <1>1 DEF Sound
    <2> HIDE DEF x, h, y, g
    <2> QED
        BY <1>3, <1>4, <2>1, <2>2
<1>8. Sound(x, h, Stored(w))
    <2>1. /\ Len(y.deferred) <= MaxDeferred /\ g.admitted /\ g.left = "kept" /\ g.behind \subseteq Stored(w)
          /\ g.wills = IF g.admitted /\ g.left = "lost" /\ y.will # NoWill THEN 1 ELSE 0
        BY <1>1 DEF Sound
    <2> HIDE DEF x, h, y, g
    <2>2. x.state = "active" /\ h.behind \subseteq Stored(w)
        BY <1>3, <1>4, <2>1 DEF y
    <2> QED
        BY <1>2, <1>3, <1>4, <1>6, <1>7, <2>1, <2>2 DEF Sound, Awaited
<1>9. Turned(v, w, c, x, h)
    <2>1. v.budget = w.budget - Cardinality(w.conn[c].subs) + Cardinality(x.subs) /\ v.budget <= MaxAll
        <3> HIDE DEF x
        <3> QED
            BY <1>1, <1>2, <1>5, <1>6
    <2>2. Awaited(x) <=> Awaited(w.conn[c])
        BY <1>3 DEF Awaited
    <2> HIDE DEF x, h
    <2> QED
        BY <1>5, <2>1, <2>2 DEF Turned
<1>10. Good(v) /\ Apart(v, w, c) /\ v.conn[c] = x /\ v.trace[c] = h
    <2> HIDE DEF x, h
    <2> QED
        BY <1>8, <1>9, TurnedKeeps
<1> QED
    BY <1>3, <1>4, <1>10 DEF Unrun, v

\* Client.unsubscribe()
LEMMA UnsubscribeKeeps ==
    ASSUME BrokerAssumption, NEW w, Good(w), NEW c \in BrokerClients, w.conn[c].state = "active", NEW p
    PROVE  LET v == Unsubscribe(w, c, p) IN
           Good(v) /\ Apart(v, w, c) /\ Unrun(v, w, c) /\ v.conn[c].state = "active"
<1> DEFINE y == w.conn[c]
           g == w.trace[c]
           subs == y.subs \ p.filters
           x == [y EXCEPT !.subs = subs]
           b == w.budget - Cardinality(y.subs \cap p.filters)
           v == Unsubscribe(w, c, p)
<1>1. /\ w \in Worlds /\ y \in Client /\ g \in Trace /\ Sound(y, g, Stored(w))
      /\ w.conn \in [BrokerClients -> Client] /\ w.trace \in [BrokerClients -> Trace] /\ w.budget \in 0..MaxAll
      /\ MaxAll \in Nat /\ MaxOwn \in Nat
    BY Parts DEF BrokerAssumption
<1>2. /\ x \in Client /\ x.subs = subs /\ x.state = y.state /\ x.reads = y.reads
      /\ x.will = y.will /\ x.deferred = y.deferred
    <2> HIDE DEF y
    <2> QED
        BY <1>1 DEF Client
<1>3. /\ v.conn = [w.conn EXCEPT ![c] = x] /\ v.trace = [w.trace EXCEPT ![c] = g]
      /\ v.pending = w.pending /\ v.budget = b
      /\ v.retained = w.retained /\ v.retainedBytes = w.retainedBytes
      /\ v = [conn |-> v.conn, pending |-> v.pending, budget |-> v.budget, retained |-> v.retained,
              retainedBytes |-> v.retainedBytes, trace |-> v.trace]
    <2>1. v = [w EXCEPT !.conn[c].subs = subs, !.budget = b]
        BY DEF Unsubscribe
    <2>2. [w.trace EXCEPT ![c] = g] = w.trace
        BY <1>1
    <2> HIDE DEF v, subs, b
    <2> QED
        BY <1>1, <2>1, <2>2 DEF Worlds
<1> HIDE DEF v
<1>4. /\ IsFiniteSet(y.subs) /\ IsFiniteSet(subs)
      /\ Cardinality(y.subs) \in Nat /\ Cardinality(subs) \in Nat
      /\ Cardinality(subs) = Cardinality(y.subs) - Cardinality(y.subs \cap p.filters)
      /\ Cardinality(y.subs \cap p.filters) \in Nat
    <2>1. IsFiniteSet(y.subs)
        BY <1>1 DEF Sound
    <2>2. /\ IsFiniteSet(subs) /\ IsFiniteSet(y.subs \cap p.filters)
          /\ Cardinality(subs) = Cardinality(y.subs) - Cardinality(y.subs \cap p.filters)
        BY <2>1, FS_Difference, FS_Intersection
    <2> HIDE DEF subs
    <2> QED
        BY <2>1, <2>2, FS_CardinalityType
<1>5. Sound(x, g, Stored(w))
    <2>1. Covered(subs) \subseteq Covered(y.subs)
        BY DEF Covered
    <2>2. Cardinality(subs) <= MaxOwn
        <3>1. Cardinality(y.subs) <= MaxOwn
            BY <1>1 DEF Sound
        <3> HIDE DEF subs
        <3> QED
            BY <1>1, <1>4, <3>1
    <2> HIDE DEF x, subs, g
    <2> QED
        BY <1>1, <1>2, <1>4, <2>1, <2>2 DEF Sound, Awaited
<1>6. Turned(v, w, c, x, g)
    <2>1. v.budget = w.budget - Cardinality(w.conn[c].subs) + Cardinality(x.subs) /\ v.budget <= MaxAll
        <3> HIDE DEF x, subs
        <3> QED
            BY <1>1, <1>2, <1>3, <1>4
    <2>2. Awaited(x) <=> Awaited(w.conn[c])
        BY <1>2 DEF Awaited
    <2> HIDE DEF x, g
    <2> QED
        BY <1>3, <2>1, <2>2 DEF Turned
<1>7. Good(v) /\ Apart(v, w, c) /\ v.conn[c] = x /\ v.trace[c] = g
    <2> HIDE DEF x, g
    <2> QED
        BY <1>5, <1>6, TurnedKeeps
<1> QED
    BY <1>2, <1>7 DEF Unrun, v

-----------------------------------------------------------------------------
\* What is done with a packet of an admitted client.
LEMMA RunKeeps ==
    ASSUME BrokerAssumption, NEW w, Good(w), NEW c \in BrokerClients, w.conn[c].state = "active",
           NEW p \in AnyPacket
    PROVE  LET v == RunPacket(w, c, p) IN
           Good(v) /\ Apart(v, w, c) /\ Unrun(v, w, c) /\ v.conn[c].state \in {"active", "closed"}
<1> DEFINE v == RunPacket(w, c, p)
<1>1. CASE p.kind = "publish" /\ p.allowed
    <2>1. v = PublishAllowed(w, p) /\ p \in Publication
        BY <1>1 DEF RunPacket, AnyPacket, Publication
    <2> HIDE DEF v
    <2>2. Good(v) /\ Told(v, w)
        BY <2>1, PublishKeeps
    <2>3. Apart(v, w, c) /\ Unrun(v, w, c) /\ v.conn = w.conn
        BY <2>2, ToldApart
    <2>4. Good(v) /\ Apart(v, w, c) /\ Unrun(v, w, c) /\ v.conn[c].state \in {"active", "closed"}
        BY <2>2, <2>3
    <2> QED
        BY <2>4 DEF v
<1>2. CASE p.kind = "publish" /\ ~p.allowed
    <2>1. v = DestroyClient(w, c, FALSE)
        BY <1>2 DEF RunPacket
    <2> HIDE DEF v
    <2>2. Good(v) /\ Apart(v, w, c) /\ Unrun(v, w, c) /\ v.conn[c].state \in {"active", "closed"}
        BY <2>1, DestroyKeeps
    <2> QED
        BY <2>2 DEF v
<1>3. CASE p.kind = "subscribe"
    <2>1. v = SubscribeFilters(w, c, p) /\ p.filters \in Seq(Filters)
        BY <1>3 DEF RunPacket, AnyPacket, Publication
    <2> HIDE DEF v
    <2>2. Good(v) /\ Apart(v, w, c) /\ Unrun(v, w, c) /\ v.conn[c].state \in {"active", "closed"}
        BY <2>1, SubscribeKeeps
    <2> QED
        BY <2>2 DEF v
<1>4. CASE p.kind = "unsubscribe"
    <2>1. v = Unsubscribe(w, c, p)
        BY <1>4 DEF RunPacket
    <2> HIDE DEF v
    <2>2. Good(v) /\ Apart(v, w, c) /\ Unrun(v, w, c) /\ v.conn[c].state \in {"active", "closed"}
        BY <2>1, UnsubscribeKeeps
    <2> QED
        BY <2>2 DEF v
<1>5. CASE p.kind = "answered"
    <2>1. v = w
        BY <1>5 DEF RunPacket
    <2> QED
        BY <2>1 DEF Apart, Unrun
<1>6. p.kind \in {"publish", "subscribe", "unsubscribe", "answered"}
    BY DEF AnyPacket, Publication
<1> QED
    BY <1>1, <1>2, <1>3, <1>4, <1>5, <1>6

-----------------------------------------------------------------------------
\* The replay of what was deferred.

LEMMA RunDeferredKeeps ==
    ASSUME BrokerAssumption, PacketsAssumption, NEW w, Good(w), NEW c \in BrokerClients, NEW p \in Packets
    PROVE  LET v == RunDeferred(w, c, p) IN
           /\ Good(v) /\ Apart(v, w, c) /\ v.trace[c].arrived = w.trace[c].arrived
           /\ IF w.conn[c].state = "active"
              THEN /\ v.trace[c].ran = Append(w.trace[c].ran, p)
                   /\ v.conn[c].state \in {"active", "closed"}
              ELSE v = w
<1> DEFINE v == RunDeferred(w, c, p)
           y == w.conn[c]
           g == w.trace[c]
           h == [g EXCEPT !.ran = Append(g.ran, p)]
           u == [w EXCEPT !.trace[c].ran = Append(g.ran, p)]
<1>1. CASE y.state # "active"
    <2>1. v = w
        BY <1>1 DEF RunDeferred
    <2> QED
        BY <1>1, <2>1 DEF Apart
<1>2. CASE y.state = "active"
    <2>1. v = RunPacket(u, c, p)
        BY <1>2 DEF RunDeferred
    <2>2. /\ w \in Worlds /\ y \in Client /\ g \in Trace /\ Sound(y, g, Stored(w))
          /\ w.conn \in [BrokerClients -> Client] /\ w.trace \in [BrokerClients -> Trace]
        BY Parts
    <2>3. /\ h \in Trace /\ h.behind = g.behind /\ h.admitted = g.admitted /\ h.left = g.left
          /\ h.ran = Append(g.ran, p) /\ h.arrived = g.arrived /\ h.wills = g.wills
        <3>1. Append(g.ran, p) \in Seq(Packets)
            BY <2>2 DEF Trace
        <3> HIDE DEF g
        <3> QED
            BY <2>2, <3>1 DEF Trace
    <2>4. Sound(y, h, Stored(w))
        <3> HIDE DEF h, y, g
        <3>1. y.state = "active"
            BY <1>2
        <3> QED
            BY <2>2, <2>3, <3>1 DEF Sound, Awaited
    <2>5. u = [w EXCEPT !.conn = [w.conn EXCEPT ![c] = y], !.trace = [w.trace EXCEPT ![c] = h]]
        <3> DEFINE hs == [w.trace EXCEPT ![c] = h]
        <3>1. [w.conn EXCEPT ![c] = y] = w.conn
            BY <2>2
        <3>2. u = [w EXCEPT !.trace = hs]
            OBVIOUS
        <3> HIDE DEF u, hs
        <3>3. u = [w EXCEPT !.conn = w.conn, !.trace = hs]
            BY <2>2, <3>2 DEF Worlds
        <3> QED
            BY <3>1, <3>3 DEF hs
    <2> HIDE DEF u, h, v
    <2>6. Turned(u, w, c, y, h)
        <3>1. y.subs = w.conn[c].subs /\ (Awaited(y) <=> Awaited(w.conn[c]))
            OBVIOUS
        <3> HIDE DEF y
        <3> QED
            BY <2>5, <3>1, TurnedAlone
    <2>7. Good(u) /\ Apart(u, w, c) /\ u.conn[c] = y /\ u.trace[c] = h
        <3> HIDE DEF y
        <3> QED
            BY <2>4, <2>6, TurnedKeeps
    <2>8. p \in AnyPacket
        BY DEF PacketsAssumption
    <2>9. Good(v) /\ Apart(v, u, c) /\ Unrun(v, u, c) /\ v.conn[c].state \in {"active", "closed"}
        BY <1>2, <2>1, <2>7, <2>8, RunKeeps
    <2>10. Apart(v, w, c) /\ v.trace[c].ran = Append(g.ran, p) /\ v.trace[c].arrived = g.arrived
        BY <2>3, <2>7, <2>9, ApartTogether DEF Unrun
    <2> QED
        BY <1>2, <2>9, <2>10 DEF v
<1> QED
    BY <1>1, <1>2

\* The packets that were deferred are done in order and once, up to one that ends the
\* connection if there is one.
LEMMA ReplayKeeps ==
    ASSUME BrokerAssumption, PacketsAssumption, NEW w, Good(w), NEW c \in BrokerClients,
           w.conn[c].state = "active", w.trace[c].ran = <<>>, NEW packets \in Seq(Packets)
    PROVE  LET v == Replay(w, c, packets) IN
           /\ Good(v) /\ Apart(v, w, c) /\ v.trace[c].arrived = w.trace[c].arrived
           /\ \/ v.conn[c].state = "active" /\ v.trace[c].ran = packets
              \/ v.conn[c].state = "closed" /\ v.trace[c].ran \in Prefixes(packets)
<1> DEFINE n == Len(packets)
           after[k \in 0..n] ==
               IF k = 0 THEN w ELSE RunDeferred(after[k - 1], c, packets[k])
           W == {v \in Worlds : Good(v)}
           F == [x \in (1..n) \X W |-> RunDeferred(x[2], c, packets[x[1]])]
           Done(v, k) == /\ Good(v) /\ Apart(v, w, c) /\ v.trace[c].arrived = w.trace[c].arrived
                         /\ \/ v.conn[c].state = "active" /\ v.trace[c].ran = SubSeq(packets, 1, k)
                            \/ /\ v.conn[c].state = "closed"
                               /\ \E j \in 0..k : v.trace[c].ran = SubSeq(packets, 1, j)
           S == {k \in Nat : k <= n => Done(after[k], k)}
<1>1. Replay(w, c, packets) = after[n]
    BY DEF Replay
<1>2. n \in Nat /\ \A k \in 1..n : packets[k] \in Packets
    BY LenProperties
<1>3. \A v : Good(v) => v \in Worlds
    BY DEF Good
<1> HIDE DEF n
<1>4. F \in [(1..n) \X W -> W]
    <2>1. ASSUME NEW k \in 1..n, NEW v \in W
          PROVE  RunDeferred(v, c, packets[k]) \in W
        <3>1. Good(v) /\ packets[k] \in Packets
            BY <1>2
        <3>2. Good(RunDeferred(v, c, packets[k]))
            BY <3>1, RunDeferredKeeps
        <3> QED
            BY <1>3, <3>2
    <2> QED
        BY <2>1
<1>5. after = [k \in 0..n |-> IF k = 0 THEN w ELSE RunDeferred(after[k - 1], c, packets[k])]
    <2>1. PICK g \in [0..n -> W] : \A k \in 0..n : g[k] = IF k = 0 THEN w ELSE F[<<k, g[k - 1]>>]
        <3>1. w \in W
            BY <1>3
        <3>2. n \in Nat
            BY <1>2
        <3> HIDE DEF F, W
        <3>3. PICK g : g \in Courses(W, w, n, F)
            BY <1>4, <3>1, <3>2, LoopExists
        <3> QED
            BY <3>3 DEF Courses
    <2>2. \A k \in 0..n : g[k] = IF k = 0 THEN w ELSE RunDeferred(g[k - 1], c, packets[k])
        <3> TAKE k \in 0..n
        <3>1. CASE k # 0
            <4>1. k \in 1..n /\ k - 1 \in 0..n
                BY <1>2, <3>1
            <4>2. F[<<k, g[k - 1]>>] = RunDeferred(g[k - 1], c, packets[k])
                BY <2>1, <4>1
            <4> QED
                BY <2>1, <3>1, <4>2
        <3> QED
            BY <2>1, <3>1
    <2>3. g = [k \in 0..n |-> IF k = 0 THEN w ELSE RunDeferred(g[k - 1], c, packets[k])]
        BY <2>1, <2>2
    <2>4. \E f : f = [k \in 0..n |-> IF k = 0 THEN w ELSE RunDeferred(f[k - 1], c, packets[k])]
        BY <2>3
    <2> QED
        BY <2>4, Zenon DEF after
<1> HIDE DEF after
<1>6. /\ after[0] = w
      /\ \A k \in 1..n : after[k] = RunDeferred(after[k - 1], c, packets[k])
    <2>1. 0 \in 0..n /\ \A k \in 1..n : k \in 0..n /\ k # 0
        BY <1>2
    <2> QED
        BY <1>5, <2>1
<1>7. 0 \in S
    <2>1. SubSeq(packets, 1, 0) = <<>>
        BY SubSeqEmpty
    <2>2. Apart(w, w, c)
        BY DEF Apart
    <2> QED
        BY <1>6, <2>1, <2>2
<1>8. \A k \in Nat : k \in S => k + 1 \in S
    <2> HIDE DEF Done
    <2> SUFFICES ASSUME NEW k \in Nat, k + 1 <= n, Done(after[k], k)
                 PROVE  Done(after[k + 1], k + 1)
        BY <1>2
    <2> USE DEF Done
    <2> DEFINE u == after[k]
               v == after[k + 1]
               p == packets[k + 1]
    <2>1. p \in Packets /\ v = RunDeferred(u, c, p)
        <3>1. k + 1 \in 1..n /\ (k + 1) - 1 = k
            BY <1>2
        <3> QED
            BY <1>2, <1>6, <3>1
    <2>2. SubSeq(packets, 1, k + 1) = Append(SubSeq(packets, 1, k), p)
        <3>1. 1 \in 1..n /\ k + 1 \in 1..n /\ (k + 1) - 1 = k
            BY <1>2
        <3>2. SubSeq(packets, 1, k + 1) = SubSeq(packets, 1, k) \o <<p>>
            BY <3>1, SubSeqRecursiveSecond DEF n
        <3>3. SubSeq(packets, 1, k) \in Seq(Packets)
            BY <1>2, SubSeqProperties
        <3> QED
            BY <2>1, <3>2, <3>3, AppendIsConcat
    <2> HIDE DEF u, v, p
    <2>3. Done(u, k)
        BY DEF u
    <2>4. /\ Good(v) /\ Apart(v, u, c) /\ v.trace[c].arrived = u.trace[c].arrived
          /\ IF u.conn[c].state = "active"
             THEN /\ v.trace[c].ran = Append(u.trace[c].ran, p)
                  /\ v.conn[c].state \in {"active", "closed"}
             ELSE v = u
        BY <2>1, <2>3, RunDeferredKeeps
    <2>5. Apart(v, w, c)
        BY <2>3, <2>4, ApartTogether
    <2>6. Done(v, k + 1)
        <3>1. CASE u.conn[c].state = "active"
            <4>1. u.trace[c].ran = SubSeq(packets, 1, k)
                BY <2>3, <3>1
            <4>2. v.trace[c].ran = SubSeq(packets, 1, k + 1)
                BY <2>2, <2>4, <3>1, <4>1, Zenon
            <4>3. k + 1 \in 0..k + 1
                OBVIOUS
            <4> QED
                BY <2>3, <2>4, <2>5, <3>1, <4>2, <4>3
        <3>2. CASE u.conn[c].state = "closed"
            <4>1. PICK j \in 0..k : u.trace[c].ran = SubSeq(packets, 1, j)
                BY <2>3, <3>2
            <4>2. v = u /\ j \in 0..k + 1
                BY <2>4, <3>2
            <4> QED
                BY <2>3, <3>2, <4>1, <4>2
        <3> QED
            BY <2>3, <3>1, <3>2
    <2> QED
        BY <2>6 DEF v
<1>9. Done(after[n], n)
    <2> HIDE DEF S, Done
    <2>1. Nat \subseteq S
        BY <1>7, <1>8, EveryNumber
    <2> QED
        BY <1>2, <2>1 DEF S
<1>10. SubSeq(packets, 1, n) = packets /\ \A j \in 0..n : SubSeq(packets, 1, j) \in Prefixes(packets)
    BY SubSeqFull DEF Prefixes, n
<1> QED
    BY <1>1, <1>9, <1>10

-----------------------------------------------------------------------------
\* The connection record alone changes, in a part that nothing else depends on.

LEMMA SoundStays ==
    ASSUME NEW y, NEW h, NEW stored, Sound(y, h, stored), NEW x, x \in Client,
           x.state = y.state, x.subs = y.subs, x.reads = y.reads, x.will = y.will,
           x.deferred = y.deferred
    PROVE  Sound(x, h, stored) /\ (Awaited(x) <=> Awaited(y))
BY DEF Sound, Awaited

Changed(v, w, c, x) ==
    /\ v = [w EXCEPT !.conn = [w.conn EXCEPT ![c] = x]]
    /\ Sound(x, w.trace[c], Stored(w)) /\ x.subs = w.conn[c].subs
    /\ Awaited(x) <=> Awaited(w.conn[c])

LEMMA ConnectionChanges ==
    ASSUME BrokerAssumption, NEW w, Good(w), NEW c \in BrokerClients, NEW x, NEW v, Changed(v, w, c, x)
    PROVE  Good(v) /\ Apart(v, w, c) /\ Unrun(v, w, c) /\ v.conn[c] = x
<1> DEFINE cs == [w.conn EXCEPT ![c] = x]
           h == w.trace[c]
<1>1. w \in Worlds /\ w.trace \in [BrokerClients -> Trace]
    BY Parts
<1>2. v = [w EXCEPT !.conn = [w.conn EXCEPT ![c] = x], !.trace = [w.trace EXCEPT ![c] = h]]
    <2>1. [w.trace EXCEPT ![c] = h] = w.trace
        BY <1>1
    <2>2. v = [w EXCEPT !.conn = cs]
        BY DEF Changed
    <2> HIDE DEF cs
    <2>3. v = [w EXCEPT !.conn = cs, !.trace = w.trace]
        BY <1>1, <2>2 DEF Worlds
    <2> QED
        BY <2>1, <2>3 DEF cs
<1>3. Sound(x, h, Stored(w)) /\ x.subs = w.conn[c].subs /\ (Awaited(x) <=> Awaited(w.conn[c]))
    BY DEF Changed
<1> HIDE DEF h
<1>4. Turned(v, w, c, x, h)
    BY <1>2, <1>3, TurnedAlone
<1>5. Good(v) /\ Apart(v, w, c) /\ v.conn[c] = x /\ v.trace[c] = h
    BY <1>3, <1>4, TurnedKeeps
<1> QED
    BY <1>5 DEF Unrun, h

\* The listener of "data"
LEMMA CountedKeeps ==
    ASSUME BrokerAssumption, NEW w, Good(w), NEW c \in BrokerClients
    PROVE  LET v == Counted(w, c) IN
           /\ Good(v) /\ Apart(v, w, c) /\ Unrun(v, w, c)
           /\ v.conn[c].state \in {w.conn[c].state, "closed"}
<1> DEFINE y == w.conn[c]
           x == [y EXCEPT !.bytes = y.bytes + 1]
           v == Counted(w, c)
<1>1. CASE y.state \notin {"new", "pending"}
    <2>1. v = w
        BY <1>1 DEF Counted
    <2> QED
        BY <2>1 DEF Apart, Unrun
<1>2. CASE y.state \in {"new", "pending"} /\ ~(y.bytes < MaxBytes)
    <2>1. v = DestroyClient(w, c, FALSE)
        BY <1>2 DEF Counted
    <2> HIDE DEF v
    <2>2. Good(v) /\ Apart(v, w, c) /\ Unrun(v, w, c) /\ v.conn[c].state = "closed"
        BY <2>1, DestroyKeeps
    <2> QED
        BY <2>2 DEF v
<1>3. CASE y.state \in {"new", "pending"} /\ y.bytes < MaxBytes
    <2>1. y \in Client /\ Sound(y, w.trace[c], Stored(w)) /\ MaxBytes \in Nat
        BY Parts DEF BrokerAssumption
    <2>2. /\ x \in Client /\ x.state = y.state /\ x.subs = y.subs /\ x.reads = y.reads
          /\ x.will = y.will /\ x.deferred = y.deferred
        <3>1. y.bytes + 1 \in 0..MaxBytes
            BY <1>3, <2>1 DEF Client
        <3> HIDE DEF y
        <3> QED
            BY <2>1, <3>1 DEF Client
    <2>3. v = [w EXCEPT !.conn = [w.conn EXCEPT ![c] = x]]
        BY <1>3 DEF Counted
    <2> HIDE DEF v, x
    <2>4. Sound(x, w.trace[c], Stored(w)) /\ (Awaited(x) <=> Awaited(y))
        <3> HIDE DEF y
        <3> QED
            BY <2>1, <2>2, SoundStays
    <2>5. Good(v) /\ Apart(v, w, c) /\ Unrun(v, w, c) /\ v.conn[c] = x
        <3>1. Changed(v, w, c, x)
            BY <2>2, <2>3, <2>4 DEF Changed
        <3> HIDE DEF y
        <3> QED
            BY <3>1, ConnectionChanges
    <2> QED
        BY <2>2, <2>5 DEF v
<1> QED
    BY <1>1, <1>2, <1>3

\* A packet waits for the decision.
LEMMA HeldKeeps ==
    ASSUME BrokerAssumption, NEW w, Good(w), NEW c \in BrokerClients, w.conn[c].state = "pending",
           Len(w.conn[c].deferred) < MaxDeferred, NEW p \in Packets
    PROVE  LET v == Held(w, c, p) IN
           /\ Good(v) /\ Apart(v, w, c) /\ v.conn[c].state = "pending"
           /\ v.trace[c].arrived = Append(w.trace[c].arrived, p)
           /\ v.trace[c].ran = w.trace[c].ran
<1> DEFINE y == w.conn[c]
           g == w.trace[c]
           x == [y EXCEPT !.deferred = Append(y.deferred, p)]
           h == [g EXCEPT !.arrived = Append(g.arrived, p)]
           v == Held(w, c, p)
<1>1. /\ w \in Worlds /\ y \in Client /\ g \in Trace /\ Sound(y, g, Stored(w))
      /\ y.state = "pending" /\ MaxDeferred \in Nat
    BY Parts DEF BrokerAssumption
<1>2. /\ Append(y.deferred, p) \in Seq(Packets) /\ Append(g.arrived, p) \in Seq(Packets)
      /\ Append(y.deferred, p) = Append(g.arrived, p)
      /\ Len(Append(y.deferred, p)) <= MaxDeferred
    <2>1. /\ y.deferred \in Seq(Packets) /\ g.arrived = y.deferred
        BY <1>1 DEF Client, Sound, Awaited
    <2>2. Len(y.deferred) < MaxDeferred /\ Len(y.deferred) \in Nat
        BY <2>1, LenProperties
    <2> HIDE DEF y, g
    <2> QED
        BY <1>1, <2>1, <2>2, AppendProperties
<1>3. /\ x \in Client /\ x.state = y.state /\ x.subs = y.subs /\ x.reads = y.reads
      /\ x.will = y.will /\ x.deferred = Append(y.deferred, p)
    <2> HIDE DEF y
    <2> QED
        BY <1>1, <1>2 DEF Client
<1>4. /\ h \in Trace /\ h.behind = g.behind /\ h.admitted = g.admitted /\ h.left = g.left
      /\ h.ran = g.ran /\ h.arrived = Append(g.arrived, p) /\ h.wills = g.wills
    <2> HIDE DEF g
    <2> QED
        BY <1>1, <1>2 DEF Trace
<1>5. v = [w EXCEPT !.conn = [w.conn EXCEPT ![c] = x], !.trace = [w.trace EXCEPT ![c] = h]]
    BY DEF Held
<1> HIDE DEF x, h, v
<1>6. Sound(x, h, Stored(w))
    <2> HIDE DEF y, g
    <2> QED
        BY <1>1, <1>2, <1>3, <1>4 DEF Sound, Awaited
<1>7. Turned(v, w, c, x, h)
    <2>1. x.subs = w.conn[c].subs /\ (Awaited(x) <=> Awaited(w.conn[c]))
        BY <1>3 DEF Awaited
    <2> QED
        BY <1>5, <2>1, TurnedAlone
<1>8. Good(v) /\ Apart(v, w, c) /\ v.conn[c] = x /\ v.trace[c] = h
    BY <1>6, <1>7, TurnedKeeps
<1> QED
    BY <1>1, <1>3, <1>4, <1>8 DEF v

\* The connection is admitted.
LEMMA AdmittedKeeps ==
    ASSUME BrokerAssumption, NEW w, Good(w), NEW c \in BrokerClients, w.conn[c].state = "pending"
    PROVE  LET v == Admitted(w, c) IN
           Good(v) /\ Apart(v, w, c) /\ Unrun(v, w, c) /\ v.conn[c].state = "active"
<1> DEFINE y == w.conn[c]
           g == w.trace[c]
           x == [y EXCEPT !.state = "active", !.deadline = FALSE, !.deferred = <<>>, !.bytes = 0]
           h == [g EXCEPT !.admitted = TRUE]
           v == Admitted(w, c)
<1>1. /\ w \in Worlds /\ y \in Client /\ g \in Trace /\ Sound(y, g, Stored(w)) /\ y.state = "pending"
      /\ MaxBytes \in Nat /\ MaxDeferred \in Nat /\ w.budget \in 0..MaxAll /\ MaxAll \in Nat
    BY Parts DEF BrokerAssumption
<1>2. /\ x \in Client /\ x.state = "active" /\ x.subs = y.subs /\ x.reads = y.reads
      /\ x.will = y.will /\ x.deferred = <<>>
    <2>1. <<>> \in Seq(Packets) /\ 0 \in 0..MaxBytes
        BY <1>1
    <2> HIDE DEF y
    <2> QED
        BY <1>1, <2>1 DEF Client
<1>3. /\ h \in Trace /\ h.behind = g.behind /\ h.admitted /\ h.left = g.left
      /\ h.ran = g.ran /\ h.arrived = g.arrived /\ h.wills = g.wills
    <2> HIDE DEF g
    <2> QED
        BY <1>1 DEF Trace
<1>4. /\ v.conn = [w.conn EXCEPT ![c] = x] /\ v.trace = [w.trace EXCEPT ![c] = h]
      /\ v.pending = w.pending \ {c} /\ v.budget = w.budget
      /\ v.retained = w.retained /\ v.retainedBytes = w.retainedBytes
      /\ v = [conn |-> v.conn, pending |-> v.pending, budget |-> v.budget, retained |-> v.retained,
              retainedBytes |-> v.retainedBytes, trace |-> v.trace]
    <2> DEFINE cs == [w.conn EXCEPT ![c] = x]
               hs == [w.trace EXCEPT ![c] = h]
    <2>1. v = [w EXCEPT !.conn = cs, !.pending = w.pending \ {c}, !.trace = hs]
        BY DEF Admitted
    <2> HIDE DEF v, cs, hs
    <2>2. /\ v.conn = cs /\ v.trace = hs /\ v.pending = w.pending \ {c} /\ v.budget = w.budget
          /\ v.retained = w.retained /\ v.retainedBytes = w.retainedBytes
          /\ v = [conn |-> v.conn, pending |-> v.pending, budget |-> v.budget, retained |-> v.retained,
                  retainedBytes |-> v.retainedBytes, trace |-> v.trace]
        BY <1>1, <2>1 DEF Worlds
    <2> QED
        BY <2>2 DEF cs, hs
<1> HIDE DEF x, h, v
<1>5. /\ y.subs = {} /\ Cardinality({}) = 0
    BY <1>1, FS_EmptySet DEF Sound
<1>6. Sound(x, h, Stored(w))
    <2>1. Len(x.deferred) = 0 /\ Covered(x.subs) = {}
        BY <1>2, <1>5 DEF Covered
    <2> HIDE DEF y, g
    <2> QED
        BY <1>1, <1>2, <1>3, <1>5, <2>1 DEF Sound, Awaited
<1>7. Turned(v, w, c, x, h)
    <2>1. v.budget = w.budget - Cardinality(w.conn[c].subs) + Cardinality(x.subs) /\ v.budget <= MaxAll
        <3>1. w.conn[c].subs = {} /\ x.subs = {}
            BY <1>2, <1>5
        <3> QED
            BY <1>1, <1>4, <1>5, <3>1
    <2>2. ~Awaited(x)
        BY <1>2 DEF Awaited
    <2> QED
        BY <1>4, <2>1, <2>2 DEF Turned
<1>8. Good(v) /\ Apart(v, w, c) /\ v.conn[c] = x /\ v.trace[c] = h
    BY <1>6, <1>7, TurnedKeeps
<1> QED
    BY <1>2, <1>3, <1>8 DEF Unrun, v

-----------------------------------------------------------------------------
\* What a handler of one connection may do to its admission: nothing, or one of the
\* steps of AdmissionGate.

Moved(x, a, r, y, b, s) ==
    \/ (Awaited(x) <=> Awaited(y)) /\ (x.state = "active" <=> y.state = "active") /\ a = b /\ r = s
    \/ y.state = "closed" /\ Awaited(x) /\ a = <<>> /\ r = <<>>
    \/ Awaited(y) /\ Awaited(x) /\ r = s /\ \E p \in Packets : a = Append(b, p)
    \/ Awaited(y) /\ x.state = "active" /\ a = b /\ r = b
    \/ /\ Awaited(y) \/ y.state = "active"
       /\ x.state = "closed" /\ a = b
       /\ IF Awaited(y) THEN r \in Prefixes(b) ELSE r = s

Moves(v, w, c) ==
    /\ Good(v) /\ Apart(v, w, c)
    /\ Moved(v.conn[c], v.trace[c].arrived, v.trace[c].ran, w.conn[c], w.trace[c].arrived, w.trace[c].ran)

LEMMA MovesQuietly ==
    ASSUME NEW w, NEW v, Good(v), NEW c \in BrokerClients, Apart(v, w, c), Unrun(v, w, c),
           Awaited(v.conn[c]) <=> Awaited(w.conn[c]),
           v.conn[c].state = "active" <=> w.conn[c].state = "active"
    PROVE  Moves(v, w, c)
BY DEF Moves, Moved, Unrun

LEMMA MovesShut ==
    ASSUME NEW w, Good(w), NEW v, Good(v), NEW c \in BrokerClients, Apart(v, w, c), Unrun(v, w, c),
           v.conn[c].state = "closed"
    PROVE  Moves(v, w, c)
<1>1. w.conn[c] \in Client /\ w.trace[c] \in Trace /\ Sound(w.conn[c], w.trace[c], Stored(w))
    BY Parts
<1>2. w.conn[c].state \in {"new", "pending", "active", "closed"}
    BY <1>1 DEF Client
<1>3. CASE Awaited(w.conn[c])
    <2>1. w.trace[c].ran = <<>>
        BY <1>1, <1>3 DEF Sound
    <2>2. Len(w.trace[c].arrived) \in Nat
        BY <1>1, LenProperties DEF Trace
    <2>3. <<>> = SubSeq(w.trace[c].arrived, 1, 0) /\ 0 \in 0..Len(w.trace[c].arrived)
        BY <2>2, SubSeqEmpty
    <2>4. <<>> \in Prefixes(w.trace[c].arrived)
        BY <2>3 DEF Prefixes
    <2> QED
        BY <1>3, <2>1, <2>4 DEF Moves, Moved, Unrun
<1>4. CASE w.conn[c].state = "active"
    <2>1. ~Awaited(w.conn[c])
        BY <1>4 DEF Awaited
    <2> QED
        BY <1>4, <2>1 DEF Moves, Moved, Unrun
<1>5. CASE w.conn[c].state = "closed"
    BY <1>5, MovesQuietly DEF Awaited
<1> QED
    BY <1>2, <1>3, <1>4, <1>5 DEF Awaited

LEMMA MovesAfter ==
    ASSUME NEW w, NEW u, NEW c \in BrokerClients, Apart(u, w, c), Unrun(u, w, c),
           u.conn[c].state = w.conn[c].state, NEW v, Moves(v, u, c)
    PROVE  Moves(v, w, c)
<1>1. Apart(v, w, c) /\ Good(v)
    BY ApartTogether DEF Moves
<1>2. Moved(v.conn[c], v.trace[c].arrived, v.trace[c].ran, u.conn[c], u.trace[c].arrived, u.trace[c].ran)
    BY DEF Moves
<1>3. Moved(v.conn[c], v.trace[c].arrived, v.trace[c].ran, w.conn[c], w.trace[c].arrived, w.trace[c].ran)
    BY <1>2 DEF Unrun, Moved, Awaited
<1> QED
    BY <1>1, <1>3 DEF Moves

\* operation()
LEMMA OperationMoves ==
    ASSUME BrokerAssumption, PacketsAssumption, NEW w, Good(w), NEW c \in BrokerClients, NEW p \in Packets
    PROVE  Moves(Operation(w, c, p), w, c)
<1> DEFINE y == w.conn[c]
           v == Operation(w, c, p)
<1>1. CASE y.state = "active"
    <2>1. v = RunPacket(w, c, p)
        BY <1>1 DEF Operation
    <2>2. p \in AnyPacket
        BY DEF PacketsAssumption
    <2> HIDE DEF v
    <2>3. Good(v) /\ Apart(v, w, c) /\ Unrun(v, w, c) /\ v.conn[c].state \in {"active", "closed"}
        BY <1>1, <2>1, <2>2, RunKeeps
    <2>4. CASE v.conn[c].state = "active"
        <3>1. Awaited(v.conn[c]) <=> Awaited(w.conn[c])
            BY <1>1, <2>4 DEF Awaited
        <3>2. Moves(v, w, c)
            BY <1>1, <2>3, <2>4, <3>1, MovesQuietly
        <3> QED
            BY <3>2 DEF v
    <2>5. CASE v.conn[c].state = "closed"
        <3>1. Moves(v, w, c)
            BY <2>3, <2>5, MovesShut
        <3> QED
            BY <3>1 DEF v
    <2> QED
        BY <2>3, <2>4, <2>5
<1>2. CASE y.state = "pending" /\ Len(y.deferred) < MaxDeferred
    <2>1. v = Held(w, c, p)
        BY <1>2 DEF Operation
    <2> HIDE DEF v
    <2>2. /\ Good(v) /\ Apart(v, w, c) /\ v.conn[c].state = "pending"
          /\ v.trace[c].arrived = Append(w.trace[c].arrived, p)
          /\ v.trace[c].ran = w.trace[c].ran
        BY <1>2, <2>1, HeldKeeps
    <2>3. Awaited(w.conn[c]) /\ Awaited(v.conn[c])
        BY <1>2, <2>2 DEF Awaited
    <2>4. Moves(v, w, c)
        BY <2>2, <2>3 DEF Moves, Moved
    <2> QED
        BY <2>4 DEF v
<1>3. CASE y.state # "active" /\ ~(y.state = "pending" /\ Len(y.deferred) < MaxDeferred)
    <2>1. v = DestroyClient(w, c, FALSE)
        BY <1>3 DEF Operation
    <2> HIDE DEF v
    <2>2. Good(v) /\ Apart(v, w, c) /\ Unrun(v, w, c) /\ v.conn[c].state = "closed"
        BY <2>1, DestroyKeeps
    <2>3. Moves(v, w, c)
        BY <2>2, MovesShut
    <2> QED
        BY <2>3 DEF v
<1> QED
    BY <1>1, <1>2, <1>3

-----------------------------------------------------------------------------
\* The handlers of one connection, from one world to the next.

LEMMA DecidedKeeps ==
    ASSUME BrokerAssumption, NEW w, Good(w), NEW c \in BrokerClients
    PROVE  LET v == [w EXCEPT !.conn[c].deciding = FALSE] IN
           /\ Good(v) /\ Apart(v, w, c) /\ Unrun(v, w, c) /\ v.conn[c].state = w.conn[c].state
           /\ v.conn[c].deferred = w.conn[c].deferred
<1> DEFINE y == w.conn[c]
           x == [y EXCEPT !.deciding = FALSE]
           v == [w EXCEPT !.conn[c].deciding = FALSE]
<1>1. y \in Client /\ Sound(y, w.trace[c], Stored(w))
    BY Parts
<1>2. /\ x \in Client /\ x.state = y.state /\ x.subs = y.subs /\ x.reads = y.reads
      /\ x.will = y.will /\ x.deferred = y.deferred
    <2> HIDE DEF y
    <2> QED
        BY <1>1 DEF Client
<1>3. v = [w EXCEPT !.conn = [w.conn EXCEPT ![c] = x]]
    OBVIOUS
<1> HIDE DEF x, v
<1>4. Sound(x, w.trace[c], Stored(w)) /\ (Awaited(x) <=> Awaited(y))
    <2> HIDE DEF y
    <2> QED
        BY <1>1, <1>2, SoundStays
<1>5. Changed(v, w, c, x)
    BY <1>2, <1>3, <1>4 DEF Changed
<1>6. Good(v) /\ Apart(v, w, c) /\ Unrun(v, w, c) /\ v.conn[c] = x
    BY <1>5, ConnectionChanges
<1> QED
    BY <1>2, <1>6 DEF v

LEMMA StreamKeeps ==
    ASSUME BrokerAssumption, NEW w, Good(w), NEW c \in BrokerClients, NEW stream \in {"broken", "gone"}
    PROVE  LET v == [w EXCEPT !.conn[c].stream = stream] IN
           Good(v) /\ Apart(v, w, c) /\ Unrun(v, w, c) /\ v.conn[c].state = w.conn[c].state
<1> DEFINE y == w.conn[c]
           x == [y EXCEPT !.stream = stream]
           v == [w EXCEPT !.conn[c].stream = stream]
<1>1. y \in Client /\ Sound(y, w.trace[c], Stored(w))
    BY Parts
<1>2. /\ x \in Client /\ x.state = y.state /\ x.subs = y.subs /\ x.reads = y.reads
      /\ x.will = y.will /\ x.deferred = y.deferred
    <2> HIDE DEF y
    <2> QED
        BY <1>1 DEF Client
<1>3. v = [w EXCEPT !.conn = [w.conn EXCEPT ![c] = x]]
    OBVIOUS
<1> HIDE DEF x, v
<1>4. Sound(x, w.trace[c], Stored(w)) /\ (Awaited(x) <=> Awaited(y))
    <2> HIDE DEF y
    <2> QED
        BY <1>1, <1>2, SoundStays
<1>5. Changed(v, w, c, x)
    BY <1>2, <1>3, <1>4 DEF Changed
<1>6. Good(v) /\ Apart(v, w, c) /\ Unrun(v, w, c) /\ v.conn[c] = x
    BY <1>5, ConnectionChanges
<1> QED
    BY <1>2, <1>6 DEF v

\* What ends a connection after a step that left its state alone.
LEMMA DestroyMoves ==
    ASSUME BrokerAssumption, NEW w, Good(w), NEW c \in BrokerClients,
           NEW u, Good(u), Apart(u, w, c), Unrun(u, w, c), NEW graceful \in BOOLEAN
    PROVE  LET v == DestroyClient(u, c, graceful) IN
           /\ Moves(v, w, c)
           /\ Good(v) /\ Apart(v, w, c) /\ Unrun(v, w, c) /\ v.conn[c].state = "closed"
<1> DEFINE v == DestroyClient(u, c, graceful)
<1>1. Good(v) /\ Apart(v, u, c) /\ Unrun(v, u, c) /\ v.conn[c].state = "closed"
    BY DestroyKeeps
<1> HIDE DEF v
<1>2. Apart(v, w, c) /\ Unrun(v, w, c)
    BY <1>1, ApartTogether DEF Unrun
<1>3. Moves(v, w, c)
    BY <1>1, <1>2, MovesShut
<1> QED
    BY <1>1, <1>2, <1>3 DEF v

LEMMA DataMoves ==
    ASSUME BrokerAssumption, NEW w, Good(w), NEW c \in BrokerClients
    PROVE  Moves(Counted(w, c), w, c)
<1> DEFINE v == Counted(w, c)
<1>1. /\ Good(v) /\ Apart(v, w, c) /\ Unrun(v, w, c)
      /\ v.conn[c].state \in {w.conn[c].state, "closed"}
    BY CountedKeeps
<1> HIDE DEF v
<1>2. CASE v.conn[c].state = "closed"
    <2>1. Moves(v, w, c)
        BY <1>1, <1>2, MovesShut
    <2> QED
        BY <2>1 DEF v
<1>3. CASE v.conn[c].state = w.conn[c].state
    <2>1. /\ Awaited(v.conn[c]) <=> Awaited(w.conn[c])
          /\ v.conn[c].state = "active" <=> w.conn[c].state = "active"
        BY <1>3 DEF Awaited
    <2>2. Moves(v, w, c)
        BY <1>1, <2>1, MovesQuietly
    <2> QED
        BY <2>2 DEF v
<1> QED
    BY <1>1, <1>2, <1>3

LEMMA PacketMoves ==
    ASSUME BrokerAssumption, PacketsAssumption, NEW w, Good(w), NEW c \in BrokerClients, NEW p \in Packets
    PROVE  Moves(Operation(Counted(w, c), c, p), w, c)
<1> DEFINE u == Counted(w, c)
           v == Operation(u, c, p)
<1>1. /\ Good(u) /\ Apart(u, w, c) /\ Unrun(u, w, c)
      /\ u.conn[c].state \in {w.conn[c].state, "closed"}
    BY CountedKeeps
<1> HIDE DEF u
<1>2. CASE u.conn[c].state = "closed"
    <2>1. v = DestroyClient(u, c, FALSE)
        BY <1>2 DEF Operation
    <2> HIDE DEF v
    <2>2. Moves(v, w, c)
        BY <1>1, <2>1, DestroyMoves
    <2> QED
        BY <2>2 DEF v, u
<1>3. CASE u.conn[c].state = w.conn[c].state
    <2>1. Moves(v, u, c)
        BY <1>1, OperationMoves
    <2> HIDE DEF v
    <2>2. Moves(v, w, c)
        BY <1>1, <1>3, <2>1, MovesAfter
    <2> QED
        BY <2>2 DEF v, u
<1> QED
    BY <1>1, <1>2, <1>3

LEMMA ConnectMoves ==
    ASSUME BrokerAssumption, NEW w, Good(w), NEW c \in BrokerClients, NEW reads \in Readable,
           NEW will \in Wills
    PROVE  LET u == Counted(w, c) IN
           Moves(IF u.conn[c].state # "new" THEN DestroyClient(u, c, FALSE)
                 ELSE [u EXCEPT !.conn[c] = [u.conn[c] EXCEPT
                          !.state = "pending", !.deciding = TRUE, !.reads = reads, !.will = will]], w, c)
<1> DEFINE u == Counted(w, c)
           v == IF u.conn[c].state # "new" THEN DestroyClient(u, c, FALSE)
                ELSE [u EXCEPT !.conn[c] = [u.conn[c] EXCEPT
                         !.state = "pending", !.deciding = TRUE, !.reads = reads, !.will = will]]
<1>1. /\ Good(u) /\ Apart(u, w, c) /\ Unrun(u, w, c)
      /\ u.conn[c].state \in {w.conn[c].state, "closed"}
    BY CountedKeeps
<1> HIDE DEF u
<1>2. CASE u.conn[c].state # "new"
    <2>1. v = DestroyClient(u, c, FALSE)
        BY <1>2
    <2>2. Moves(DestroyClient(u, c, FALSE), w, c)
        BY <1>1, DestroyMoves
    <2> QED
        BY <2>1, <2>2 DEF u
<1>3. CASE u.conn[c].state = "new"
    <2> DEFINE y == u.conn[c]
               g == u.trace[c]
               x == [y EXCEPT !.state = "pending", !.deciding = TRUE, !.reads = reads, !.will = will]
    <2>1. y \in Client /\ Sound(y, g, Stored(u)) /\ reads \in SUBSET Topics
        BY <1>1, Parts DEF BrokerAssumption
    <2>2. /\ x \in Client /\ x.state = "pending" /\ x.subs = y.subs /\ x.deferred = y.deferred
        <3> HIDE DEF y
        <3> QED
            BY <2>1 DEF Client
    <2>3. v = [u EXCEPT !.conn = [u.conn EXCEPT ![c] = x]]
        BY <1>3
    <2> HIDE DEF x, v
    <2>4. Sound(x, g, Stored(u))
        <3>1. y.state = "new"
            BY <1>3
        <3> HIDE DEF y, g
        <3>2. /\ ~g.admitted /\ g.left = "kept" /\ g.wills = 0
            BY <2>1, <3>1 DEF Sound, Awaited
        <3> QED
            BY <2>1, <2>2, <3>1, <3>2 DEF Sound, Awaited
    <2>5. Changed(v, u, c, x)
        BY <1>3, <2>2, <2>3, <2>4 DEF Changed, Awaited
    <2>6. Good(v) /\ Apart(v, u, c) /\ Unrun(v, u, c) /\ v.conn[c] = x
        BY <1>1, <2>5, ConnectionChanges
    <2>7. Apart(v, w, c) /\ Unrun(v, w, c)
        BY <1>1, <2>6, ApartTogether DEF Unrun
    <2>8. w.conn[c].state = "new"
        BY <1>1, <1>3
    <2>9. /\ Awaited(v.conn[c]) <=> Awaited(w.conn[c])
          /\ v.conn[c].state = "active" <=> w.conn[c].state = "active"
        BY <2>2, <2>6, <2>8 DEF Awaited
    <2>10. Moves(v, w, c)
        BY <2>6, <2>7, <2>9, MovesQuietly
    <2> QED
        BY <2>10 DEF v, u
<1> QED
    BY <1>2, <1>3

LEMMA AdmitMoves ==
    ASSUME BrokerAssumption, PacketsAssumption, NEW w, Good(w), NEW c \in BrokerClients
    PROVE  LET u == [w EXCEPT !.conn[c].deciding = FALSE] IN
           /\ Moves(u, w, c)
           /\ w.conn[c].state = "pending" =>
                  Moves(Replay(Admitted(u, c), c, w.conn[c].deferred), w, c)
<1> DEFINE u == [w EXCEPT !.conn[c].deciding = FALSE]
           packets == w.conn[c].deferred
           a == Admitted(u, c)
           v == Replay(a, c, packets)
<1>1. /\ Good(u) /\ Apart(u, w, c) /\ Unrun(u, w, c) /\ u.conn[c].state = w.conn[c].state
      /\ u.conn[c].deferred = packets
    BY DecidedKeeps
<1> HIDE DEF u, a, v
<1>2. Moves(u, w, c)
    <2>1. Awaited(u.conn[c]) <=> Awaited(w.conn[c])
        BY <1>1 DEF Awaited
    <2> QED
        BY <1>1, <2>1, MovesQuietly
<1>3. ASSUME w.conn[c].state = "pending"
      PROVE  Moves(v, w, c)
    <2>1. /\ packets \in Seq(Packets) /\ w.trace[c].ran = <<>> /\ w.trace[c].arrived = packets
          /\ Awaited(w.conn[c])
        BY <1>3, Parts DEF Client, Sound, Awaited
    <2> HIDE DEF packets
    <2>2. Good(a) /\ Apart(a, u, c) /\ Unrun(a, u, c) /\ a.conn[c].state = "active"
        BY <1>1, <1>3, AdmittedKeeps DEF a
    <2>3. Apart(a, w, c) /\ a.trace[c].ran = <<>> /\ a.trace[c].arrived = packets
        BY <1>1, <2>1, <2>2, ApartTogether DEF Unrun
    <2>4. /\ Good(v) /\ Apart(v, a, c) /\ v.trace[c].arrived = a.trace[c].arrived
          /\ \/ v.conn[c].state = "active" /\ v.trace[c].ran = packets
             \/ v.conn[c].state = "closed" /\ v.trace[c].ran \in Prefixes(packets)
        BY <2>1, <2>2, <2>3, ReplayKeeps DEF v
    <2>5. Apart(v, w, c)
        BY <2>3, <2>4, ApartTogether
    <2> QED
        BY <2>1, <2>3, <2>4, <2>5 DEF Moves, Moved
<1> QED
    BY <1>2, <1>3 DEF u, a, v, packets

LEMMA RefuseMoves ==
    ASSUME BrokerAssumption, NEW w, Good(w), NEW c \in BrokerClients, NEW graceful \in BOOLEAN
    PROVE  Moves(DestroyClient([w EXCEPT !.conn[c].deciding = FALSE], c, graceful), w, c)
<1> DEFINE u == [w EXCEPT !.conn[c].deciding = FALSE]
<1>1. Good(u) /\ Apart(u, w, c) /\ Unrun(u, w, c)
    BY DecidedKeeps
<1> HIDE DEF u
<1>2. Moves(DestroyClient(u, c, graceful), w, c)
    BY <1>1, DestroyMoves
<1> QED
    BY <1>2 DEF u

LEMMA DeadlineMoves ==
    ASSUME BrokerAssumption, NEW w, Good(w), NEW c \in BrokerClients
    PROVE  Moves(DestroyClient(w, c, FALSE), w, c)
<1>1. Apart(w, w, c) /\ Unrun(w, w, c)
    BY DEF Apart, Unrun
<1> QED
    BY <1>1, DestroyMoves

LEMMA BreaksMoves ==
    ASSUME BrokerAssumption, NEW w, Good(w), NEW c \in BrokerClients
    PROVE  Moves([w EXCEPT !.conn[c].stream = "broken"], w, c)
<1> DEFINE v == [w EXCEPT !.conn[c].stream = "broken"]
<1>1. Good(v) /\ Apart(v, w, c) /\ Unrun(v, w, c) /\ v.conn[c].state = w.conn[c].state
    BY StreamKeeps
<1> HIDE DEF v
<1>2. Awaited(v.conn[c]) <=> Awaited(w.conn[c])
    BY <1>1 DEF Awaited
<1>3. Moves(v, w, c)
    BY <1>1, <1>2, MovesQuietly
<1> QED
    BY <1>3 DEF v

LEMMA ClosesMoves ==
    ASSUME BrokerAssumption, NEW w, Good(w), NEW c \in BrokerClients
    PROVE  Moves([DestroyClient(w, c, FALSE) EXCEPT !.conn[c].stream = "gone"], w, c)
<1> DEFINE u == DestroyClient(w, c, FALSE)
           v == [u EXCEPT !.conn[c].stream = "gone"]
<1>1. Good(u) /\ Apart(u, w, c) /\ Unrun(u, w, c) /\ u.conn[c].state = "closed"
    BY DestroyKeeps
<1> HIDE DEF u
<1>2. Good(v) /\ Apart(v, u, c) /\ Unrun(v, u, c) /\ v.conn[c].state = u.conn[c].state
    BY <1>1, StreamKeeps
<1> HIDE DEF v
<1>3. Apart(v, w, c) /\ Unrun(v, w, c)
    BY <1>1, <1>2, ApartTogether DEF Unrun
<1>4. Moves(v, w, c)
    BY <1>1, <1>2, <1>3, MovesShut
<1> QED
    BY <1>4 DEF u, v

\* Broker.accept()
LEMMA AcceptMoves ==
    ASSUME BrokerAssumption, NEW w, Good(w), NEW c \in BrokerClients, w.conn[c].state = "closed",
           Cardinality(w.pending) < MaxUndecided
    PROVE  Moves([w EXCEPT
               !.conn[c] = [state |-> "new", deferred |-> <<>>, bytes |-> 0, subs |-> {},
                            reads |-> {}, will |-> NoWill, deciding |-> FALSE, deadline |-> TRUE,
                            stream |-> "open"],
               !.pending = w.pending \cup {c},
               !.trace[c] = [arrived |-> <<>>, ran |-> <<>>, admitted |-> FALSE, left |-> "kept",
                             wills |-> 0, behind |-> Stored(w)]], w, c)
<1> DEFINE x == [state |-> "new", deferred |-> <<>>, bytes |-> 0, subs |-> {},
                 reads |-> {}, will |-> NoWill, deciding |-> FALSE, deadline |-> TRUE,
                 stream |-> "open"]
           h == [arrived |-> <<>>, ran |-> <<>>, admitted |-> FALSE, left |-> "kept",
                 wills |-> 0, behind |-> Stored(w)]
           cs == [w.conn EXCEPT ![c] = x]
           hs == [w.trace EXCEPT ![c] = h]
           v == [w EXCEPT !.conn[c] = x, !.pending = w.pending \cup {c}, !.trace[c] = h]
<1>1. /\ w \in Worlds /\ w.budget \in 0..MaxAll /\ MaxAll \in Nat /\ MaxBytes \in Nat
      /\ MaxDeferred \in Nat /\ MaxOwn \in Nat /\ w.conn[c].subs = {}
    BY Parts DEF BrokerAssumption, Sound
<1>2. Stored(w) \subseteq Topics
    BY DEF Stored
<1>3. /\ x \in Client /\ h \in Trace
    <2>1. <<>> \in Seq(Packets) /\ 0 \in 0..MaxBytes /\ 0 \in Nat
        BY <1>1
    <2> QED
        BY <1>2, <2>1 DEF Client, Trace
<1>4. Cardinality({}) = 0 /\ IsFiniteSet({}) /\ Len(<<>>) = 0
    BY FS_EmptySet
<1>5. Sound(x, h, Stored(w)) /\ Awaited(x) /\ x.subs = {}
    <2>1. /\ x.state = "new" /\ x.deferred = <<>> /\ x.subs = {} /\ x.will = NoWill
          /\ h.arrived = <<>> /\ h.ran = <<>> /\ h.admitted = FALSE /\ h.left = "kept" /\ h.wills = 0
          /\ h.behind = Stored(w)
        OBVIOUS
    <2> HIDE DEF x, h
    <2> QED
        BY <1>1, <1>3, <1>4, <2>1 DEF Sound, Awaited
<1>6. /\ v.conn = cs /\ v.trace = hs /\ v.pending = w.pending \cup {c} /\ v.budget = w.budget
      /\ v.retained = w.retained /\ v.retainedBytes = w.retainedBytes
      /\ v = [conn |-> v.conn, pending |-> v.pending, budget |-> v.budget, retained |-> v.retained,
              retainedBytes |-> v.retainedBytes, trace |-> v.trace]
    <2> HIDE DEF x, h
    <2>1. v = [w EXCEPT !.conn = cs, !.pending = w.pending \cup {c}, !.trace = hs]
        OBVIOUS
    <2> HIDE DEF v, cs, hs
    <2> QED
        BY <1>1, <2>1 DEF Worlds
<1>7. h.arrived = <<>> /\ h.ran = <<>>
    OBVIOUS
<1> HIDE DEF x, h, v
<1>8. v.budget = w.budget - Cardinality(w.conn[c].subs) + Cardinality(x.subs) /\ v.budget <= MaxAll
    <2> HIDE DEF cs, hs
    <2> QED
        BY <1>1, <1>4, <1>5, <1>6
<1>9. Turned(v, w, c, x, h)
    BY <1>5, <1>6, <1>8 DEF Turned
<1>10. Good(v) /\ Apart(v, w, c) /\ v.conn[c] = x /\ v.trace[c] = h
    BY <1>5, <1>9, TurnedKeeps
<1>11. Moves(v, w, c)
    BY <1>5, <1>7, <1>10 DEF Moves, Moved
<1> QED
    BY <1>11 DEF v, x, h

-----------------------------------------------------------------------------
\* The actions.

LEMMA WorldBecomes ==
    ASSUME NEW v, Good(v), BrokerBecomes(v)
    PROVE  BrokerWorld' = v
<1>1. v = [conn |-> v.conn, pending |-> v.pending, budget |-> v.budget, retained |-> v.retained,
           retainedBytes |-> v.retainedBytes, trace |-> v.trace]
    BY DEF Good, Worlds
<1> QED
    BY <1>1 DEF BrokerBecomes, BrokerWorld

LEMMA MovesToWorld ==
    ASSUME NEW c \in BrokerClients, NEW v, Moves(v, BrokerWorld, c), BrokerBecomes(v)
    PROVE  Moves(BrokerWorld', BrokerWorld, c)
<1>1. BrokerWorld' = v
    BY WorldBecomes DEF Moves
<1> QED
    BY <1>1

LEMMA ClientSteps ==
    ASSUME BrokerAssumption, PacketsAssumption, BrokerInv, NEW c \in BrokerClients,
           \/ AcceptClient(c) \/ Data(c) \/ DisconnectPacket(c)
           \/ \E reads \in Readable, will \in Wills : ConnectPacket(c, reads, will)
           \/ \E p \in Packets : Packet(c, p)
           \/ Admit(c) \/ Refuse(c) \/ DecisionFails(c)
           \/ ConnectDeadline(c) \/ Breaks(c) \/ Closes(c)
    PROVE  Moves(BrokerWorld', BrokerWorld, c)
<1> DEFINE w == BrokerWorld
<1>1. Good(w)
    BY DEF BrokerInv
<1>2. w.conn = conn /\ w.pending = pending /\ w.trace = trace
    BY DEF BrokerWorld
<1>3. CASE AcceptClient(c)
    <2> DEFINE v == [w EXCEPT
                   !.conn[c] = [state |-> "new", deferred |-> <<>>, bytes |-> 0, subs |-> {},
                                reads |-> {}, will |-> NoWill, deciding |-> FALSE, deadline |-> TRUE,
                                stream |-> "open"],
                   !.pending = w.pending \cup {c},
                   !.trace[c] = [arrived |-> <<>>, ran |-> <<>>, admitted |-> FALSE, left |-> "kept",
                                 wills |-> 0, behind |-> Stored(w)]]
    <2>1. w.conn[c].state = "closed" /\ Cardinality(w.pending) < MaxUndecided
        BY <1>2, <1>3 DEF AcceptClient
    <2>2. BrokerBecomes(v)
        BY <1>2, <1>3 DEF AcceptClient
    <2>3. Moves(v, w, c)
        BY <1>1, <2>1, AcceptMoves
    <2> HIDE DEF v
    <2> QED
        BY <2>2, <2>3, MovesToWorld
<1>4. CASE Data(c)
    <2>1. BrokerBecomes(Counted(w, c)) /\ Moves(Counted(w, c), w, c)
        BY <1>1, <1>4, DataMoves DEF Data
    <2> QED
        BY <2>1, MovesToWorld
<1>5. CASE DisconnectPacket(c)
    <2> DEFINE u == Counted(w, c)
    <2>1. BrokerBecomes(DestroyClient(u, c, TRUE))
        BY <1>5 DEF DisconnectPacket
    <2>2. Good(u) /\ Apart(u, w, c) /\ Unrun(u, w, c)
        BY <1>1, CountedKeeps
    <2> HIDE DEF u
    <2>3. Moves(DestroyClient(u, c, TRUE), w, c)
        BY <1>1, <2>2, DestroyMoves
    <2> QED
        BY <2>1, <2>3, MovesToWorld
<1>6. ASSUME NEW reads \in Readable, NEW will \in Wills, ConnectPacket(c, reads, will)
      PROVE  Moves(BrokerWorld', BrokerWorld, c)
    <2> DEFINE u == Counted(w, c)
               v == IF u.conn[c].state # "new" THEN DestroyClient(u, c, FALSE)
                    ELSE [u EXCEPT !.conn[c] = [u.conn[c] EXCEPT
                             !.state = "pending", !.deciding = TRUE, !.reads = reads, !.will = will]]
    <2>1. BrokerBecomes(v)
        BY <1>6 DEF ConnectPacket
    <2>2. Moves(v, w, c)
        BY <1>1, ConnectMoves
    <2> HIDE DEF v
    <2> QED
        BY <2>1, <2>2, MovesToWorld
<1>7. ASSUME NEW p \in Packets, Packet(c, p)
      PROVE  Moves(BrokerWorld', BrokerWorld, c)
    <2>1. BrokerBecomes(Operation(Counted(w, c), c, p)) /\ Moves(Operation(Counted(w, c), c, p), w, c)
        BY <1>1, <1>7, PacketMoves DEF Packet
    <2> QED
        BY <2>1, MovesToWorld
<1>8. CASE Admit(c)
    <2> DEFINE u == [w EXCEPT !.conn[c].deciding = FALSE]
               r == Replay(Admitted(u, c), c, w.conn[c].deferred)
    <2>1. \/ BrokerBecomes(r) /\ w.conn[c].state = "pending"
          \/ BrokerBecomes(u)
        BY <1>2, <1>8 DEF Admit
    <2>2. /\ Moves(u, w, c)
          /\ w.conn[c].state = "pending" => Moves(r, w, c)
        BY <1>1, AdmitMoves
    <2> HIDE DEF u, r
    <2> QED
        BY <2>1, <2>2, MovesToWorld
<1>9. CASE Refuse(c)
    <2> DEFINE u == [w EXCEPT !.conn[c].deciding = FALSE]
    <2>1. BrokerBecomes(DestroyClient(u, c, TRUE)) \/ BrokerBecomes(u)
        BY <1>9 DEF Refuse
    <2>2. Moves(u, w, c) /\ Moves(DestroyClient(u, c, TRUE), w, c)
        BY <1>1, AdmitMoves, RefuseMoves
    <2> HIDE DEF u
    <2> QED
        BY <2>1, <2>2, MovesToWorld
<1>10. CASE DecisionFails(c)
    <2> DEFINE u == [w EXCEPT !.conn[c].deciding = FALSE]
    <2>1. BrokerBecomes(DestroyClient(u, c, FALSE))
        BY <1>10 DEF DecisionFails
    <2>2. Moves(DestroyClient(u, c, FALSE), w, c)
        BY <1>1, RefuseMoves
    <2> HIDE DEF u
    <2> QED
        BY <2>1, <2>2, MovesToWorld
<1>11. CASE ConnectDeadline(c)
    <2>1. BrokerBecomes(DestroyClient(w, c, FALSE)) /\ Moves(DestroyClient(w, c, FALSE), w, c)
        BY <1>1, <1>11, DeadlineMoves DEF ConnectDeadline
    <2> QED
        BY <2>1, MovesToWorld
<1>12. CASE Breaks(c)
    <2> DEFINE v == [w EXCEPT !.conn[c].stream = "broken"]
    <2>1. BrokerBecomes(v)
        BY <1>12 DEF Breaks
    <2>2. Moves(v, w, c)
        BY <1>1, BreaksMoves
    <2> HIDE DEF v
    <2> QED
        BY <2>1, <2>2, MovesToWorld
<1>13. CASE Closes(c)
    <2> DEFINE v == [DestroyClient(w, c, FALSE) EXCEPT !.conn[c].stream = "gone"]
    <2>1. BrokerBecomes(v)
        BY <1>13 DEF Closes
    <2>2. Moves(v, w, c)
        BY <1>1, ClosesMoves
    <2> HIDE DEF v
    <2> QED
        BY <2>1, <2>2, MovesToWorld
<1> QED
    BY <1>3, <1>4, <1>5, <1>6, <1>7, <1>8, <1>9, <1>10, <1>11, <1>12, <1>13

LEMMA PublishSteps ==
    ASSUME BrokerAssumption, PacketsAssumption, BrokerInv, NEW p \in Packets, PublishOwn(p)
    PROVE  Good(BrokerWorld') /\ Told(BrokerWorld', BrokerWorld)
<1>1. Good(BrokerWorld)
    BY DEF BrokerInv
<1>2. p \in Publication /\ BrokerBecomes(PublishAllowed(BrokerWorld, p))
    BY DEF PublishOwn, PacketsAssumption, AnyPacket
<1>3. Good(PublishAllowed(BrokerWorld, p)) /\ Told(PublishAllowed(BrokerWorld, p), BrokerWorld)
    BY <1>1, <1>2, PublishKeeps
<1>4. BrokerWorld' = PublishAllowed(BrokerWorld, p)
    BY <1>2, <1>3, WorldBecomes
<1> QED
    BY <1>3, <1>4

-----------------------------------------------------------------------------
\* The invariant.

LEMMA BrokerInitHolds ==
    ASSUME BrokerAssumption, BrokerInit
    PROVE  BrokerInv
<1> DEFINE w == BrokerWorld
           x == [state |-> "closed", deferred |-> <<>>, bytes |-> 0, subs |-> {}, reads |-> {},
                 will |-> NoWill, deciding |-> FALSE, deadline |-> FALSE, stream |-> "gone"]
           h == [arrived |-> <<>>, ran |-> <<>>, admitted |-> FALSE, left |-> "lost", wills |-> 0,
                 behind |-> {}]
<1>1. /\ w = [conn |-> conn, pending |-> pending, budget |-> budget, retained |-> retained,
              retainedBytes |-> retainedBytes, trace |-> trace]
      /\ conn = [c \in BrokerClients |-> x] /\ trace = [c \in BrokerClients |-> h]
      /\ pending = {} /\ budget = 0 /\ retained = [t \in Topics |-> 0] /\ retainedBytes = 0
    BY DEF BrokerInit, BrokerWorld
<1> HIDE DEF w
<1>2. /\ w.conn = [c \in BrokerClients |-> x] /\ w.trace = [c \in BrokerClients |-> h] /\ w.pending = {}
      /\ w.budget = 0 /\ w.retained = [t \in Topics |-> 0] /\ w.retainedBytes = 0
    BY <1>1
<1>3. /\ MaxBytes \in Nat /\ MaxSize \in Nat /\ MaxAll \in Nat /\ MaxRetainedBytes \in Nat
      /\ MaxDeferred \in Nat /\ MaxOwn \in Nat /\ MaxRetained \in Nat /\ MaxUndecided \in Nat
    BY DEF BrokerAssumption
<1>4. Cardinality({}) = 0 /\ IsFiniteSet({}) /\ Len(<<>>) = 0
    BY FS_EmptySet
<1>5. x \in Client /\ h \in Trace
    <2>1. <<>> \in Seq(Packets) /\ 0 \in 0..MaxBytes /\ 0 \in Nat
        BY <1>3
    <2> QED
        BY <2>1 DEF Client, Trace
<1>6. /\ x.state = "closed" /\ x.deferred = <<>> /\ x.subs = {} /\ x.will = NoWill
      /\ h.admitted = FALSE /\ h.left = "lost" /\ h.wills = 0 /\ h.behind = {}
    OBVIOUS
<1> HIDE DEF x, h
<1>7. \A c \in BrokerClients : Sound(w.conn[c], w.trace[c], Stored(w))
    <2>1. Sound(x, h, Stored(w))
        BY <1>3, <1>4, <1>5, <1>6 DEF Sound, Awaited
    <2> QED
        BY <1>2, <2>1
<1>8. PlacesKept(w)
    <2>1. {c \in BrokerClients : Awaited(w.conn[c])} = {}
        BY <1>2, <1>6 DEF Awaited
    <2> QED
        BY <1>2, <1>3, <1>4, <2>1 DEF PlacesKept
<1>9. SubscriptionsKept(w)
    <2>1. Subscriptions(w) = {}
        BY <1>2, <1>6 DEF Subscriptions
    <2> QED
        BY <1>2, <1>4, <2>1 DEF SubscriptionsKept
<1>10. RetainedKept(w)
    <2>1. Bytes(w) = {} /\ Stored(w) = {}
        BY <1>2, <1>3 DEF Bytes, Stored
    <2> QED
        BY <1>2, <1>3, <1>4, <2>1 DEF RetainedKept
<1>11. w \in Worlds
    BY <1>1, <1>2, <1>3, <1>5 DEF Worlds
<1>12. Good(w)
    BY <1>7, <1>8, <1>9, <1>10, <1>11 DEF Good
<1> QED
    BY <1>12 DEF BrokerInv, w

LEMMA StepHolds ==
    ASSUME BrokerAssumption, PacketsAssumption, BrokerInv, [BrokerNext]_brokerVars
    PROVE  BrokerInv'
<1>1. ASSUME Good(BrokerWorld')
      PROVE  BrokerInv'
    BY <1>1 DEF BrokerInv
<1>2. ASSUME NEW c \in BrokerClients, Moves(BrokerWorld', BrokerWorld, c)
      PROVE  BrokerInv'
    BY <1>1, <1>2 DEF Moves
<1>3. ASSUME NEW p \in Packets, PublishOwn(p)
      PROVE  BrokerInv'
    BY <1>1, <1>3, PublishSteps
<1>4. CASE UNCHANGED brokerVars
    <2>1. BrokerWorld' = BrokerWorld
        BY <1>4 DEF brokerVars, BrokerWorld
    <2> QED
        BY <1>1, <2>1 DEF BrokerInv
<1> QED
    BY <1>2, <1>3, <1>4, ClientSteps DEF BrokerNext

LEMMA BrokerInvariantHolds ==
    ASSUME BrokerAssumption, PacketsAssumption
    PROVE  BrokerSpec => []BrokerInv
<1>1. BrokerInit => BrokerInv
    BY BrokerInitHolds
<1>2. BrokerInv /\ [BrokerNext]_brokerVars => BrokerInv'
    BY StepHolds
<1> QED
    BY <1>1, <1>2, PTL DEF BrokerSpec

\* Every connection, counter and retained message stays of its type, within the
\* bounds the broker sets.
THEOREM BrokerTypeCorrect ==
    ASSUME BrokerAssumption, PacketsAssumption
    PROVE  BrokerSpec => []BrokerTypeOK
<1>1. ASSUME BrokerInv
      PROVE  BrokerTypeOK
    <2>1. /\ BrokerWorld \in Worlds
          /\ \A c \in BrokerClients :
                 Sound(BrokerWorld.conn[c], BrokerWorld.trace[c], Stored(BrokerWorld))
        BY <1>1 DEF BrokerInv, Good
    <2>2. \A c \in BrokerClients : Len(conn[c].deferred) <= MaxDeferred
        BY <2>1 DEF Sound, BrokerWorld
    <2> QED
        BY <2>1, <2>2 DEF BrokerTypeOK, BrokerWorld, Worlds
<1> QED
    BY <1>1, BrokerInvariantHolds, PTL

\* Every handler gives back what it took from the budgets the connections share, the
\* retained bytes are those of the retained messages, and a subscriber has what is
\* retained for it (Broker.accept(), Client.destroy(), subscribe() and unsubscribe(),
\* Broker.publishAllowed()).
THEOREM BudgetsAddUp ==
    ASSUME BrokerAssumption, PacketsAssumption
    PROVE  BrokerSpec => []BrokerAccounts
<1>1. ASSUME BrokerInv
      PROVE  BrokerAccounts
    <2> DEFINE w == BrokerWorld
    <2>1. Good(w) /\ w.conn = conn /\ w.trace = trace /\ w.pending = pending /\ w.budget = budget
          /\ w.retained = retained /\ w.retainedBytes = retainedBytes
        BY <1>1 DEF BrokerInv, BrokerWorld
    <2> HIDE DEF w
    <2>2. \A c \in BrokerClients : Sound(conn[c], trace[c], Stored(w))
        BY <2>1 DEF Good
    <2>3. BudgetsBalance
        <3>1. /\ pending = {c \in BrokerClients : Awaited(conn[c])} /\ Cardinality(pending) <= MaxUndecided
              /\ budget = Cardinality(Subscriptions(w))
            BY <2>1 DEF Good, PlacesKept, SubscriptionsKept
        <3>2. Subscriptions(w) = {p \in BrokerClients \X Filters : p[2] \in conn[p[1]].subs}
            BY <2>1 DEF Subscriptions
        <3>3. \A c \in BrokerClients : conn[c].state # "active" => conn[c].subs = {}
            BY <2>2 DEF Sound
        <3> QED
            BY <3>1, <3>2, <3>3 DEF BudgetsBalance, Waits, Awaited
    <2>4. RetainedAccounted
        <3>1. retainedBytes = Cardinality(Bytes(w)) /\ Cardinality(Stored(w)) <= MaxRetained
            BY <2>1 DEF Good, RetainedKept
        <3>2. Bytes(w) = {b \in Topics \X (1..MaxSize) : b[2] <= retained[b[1]]}
            BY <2>1 DEF Bytes
        <3> QED
            BY <3>1, <3>2 DEF RetainedAccounted, w
    <2>5. SubscribersCurrent
        <3>1. ASSUME NEW c \in BrokerClients, NEW t \in Topics, Receives(w, c, t)
              PROVE  t \notin trace[c].behind
            BY <2>1, <2>2, <3>1 DEF Receives, Sound
        <3> QED
            BY <3>1 DEF SubscribersCurrent, w
    <2> QED
        BY <2>3, <2>4, <2>5 DEF BrokerAccounts
<1> QED
    BY <1>1, BrokerInvariantHolds, PTL

\* A will is published once when an admitted client is lost, and never otherwise
\* (Client.destroy() and the listener of Broker).
THEOREM WillsFollowTheLoss ==
    ASSUME BrokerAssumption, PacketsAssumption
    PROVE  BrokerSpec => []WillWhenLost
<1>1. ASSUME BrokerInv
      PROVE  WillWhenLost
    <2>1. \A c \in BrokerClients : Sound(conn[c], trace[c], Stored(BrokerWorld))
        BY <1>1 DEF BrokerInv, Good, BrokerWorld
    <2> QED
        BY <2>1 DEF Sound, WillWhenLost
<1> QED
    BY <1>1, BrokerInvariantHolds, PTL

-----------------------------------------------------------------------------
\* What the broker promises of the packets that come before the decision.

PhaseOf(x) == IF Awaited(x) THEN "held" ELSE IF x.state = "active" THEN "open" ELSE "shut"

LEMMA SamePrefixes ==
    ASSUME NEW s
    PROVE  Gate!Prefixes(s) = Prefixes(s)
BY DEF Prefixes, Gate!Prefixes

\* The three variables of AdmissionGate, as functions of the connections.
LEMMA GateSees ==
    /\ [c \in BrokerClients |-> Phase(c)] = [c \in BrokerClients |-> PhaseOf(conn[c])]
    /\ [c \in BrokerClients |-> Phase(c)]' = [c \in BrokerClients |-> PhaseOf(conn'[c])]
    /\ [c \in BrokerClients |-> trace[c].arrived]' = [c \in BrokerClients |-> trace'[c].arrived]
    /\ [c \in BrokerClients |-> trace[c].ran]' = [c \in BrokerClients |-> trace'[c].ran]
BY DEF Phase, Waits, PhaseOf, Awaited

LEMMA MovesThroughGate ==
    ASSUME NEW c \in BrokerClients, Moves(BrokerWorld', BrokerWorld, c)
    PROVE  [Gate!GateNext]_(Gate!gateVars)
<1> DEFINE x == conn'[c]
           y == conn[c]
           ph == [d \in BrokerClients |-> PhaseOf(conn[d])]
           ar == [d \in BrokerClients |-> trace[d].arrived]
           rn == [d \in BrokerClients |-> trace[d].ran]
           qh == [d \in BrokerClients |-> PhaseOf(conn'[d])]
           as == [d \in BrokerClients |-> trace'[d].arrived]
           rs == [d \in BrokerClients |-> trace'[d].ran]
<1>1. /\ \A d \in BrokerClients \ {c} :
          /\ conn'[d] = conn[d] /\ trace'[d].arrived = trace[d].arrived
          /\ trace'[d].ran = trace[d].ran
      /\ Moved(x, as[c], rs[c], y, ar[c], rn[c])
    BY DEF Moves, Apart, BrokerWorld
<1>2. /\ qh = [ph EXCEPT ![c] = PhaseOf(x)] /\ as = [ar EXCEPT ![c] = as[c]]
      /\ rs = [rn EXCEPT ![c] = rs[c]] /\ ph[c] = PhaseOf(y)
      /\ ph = [ph EXCEPT ![c] = ph[c]] /\ ar = [ar EXCEPT ![c] = ar[c]] /\ rn = [rn EXCEPT ![c] = rn[c]]
    BY <1>1
<1>3. /\ [d \in BrokerClients |-> Phase(d)] = ph /\ [d \in BrokerClients |-> Phase(d)]' = qh
      /\ [d \in BrokerClients |-> trace[d].arrived]' = as /\ [d \in BrokerClients |-> trace[d].ran]' = rs
    BY GateSees
<1> HIDE DEF ph, qh, as, rs
<1>4. CASE /\ (Awaited(x) <=> Awaited(y)) /\ (x.state = "active" <=> y.state = "active")
           /\ as[c] = ar[c] /\ rs[c] = rn[c]
    <2>1. PhaseOf(x) = PhaseOf(y)
        BY <1>4 DEF PhaseOf
    <2>2. qh = ph /\ as = ar /\ rs = rn
        BY <1>2, <1>4, <2>1
    <2> QED
        BY <1>3, <2>2 DEF Gate!gateVars
<1>5. CASE y.state = "closed" /\ Awaited(x) /\ as[c] = <<>> /\ rs[c] = <<>>
    <2>1. PhaseOf(x) = "held" /\ PhaseOf(y) = "shut"
        BY <1>5 DEF PhaseOf, Awaited
    <2>2. Gate!Arises(c)
        BY <1>2, <1>3, <1>5, <2>1 DEF Gate!Arises
    <2> QED
        BY <2>2 DEF Gate!GateNext
<1>6. CASE Awaited(y) /\ Awaited(x) /\ rs[c] = rn[c] /\ \E p \in Packets : as[c] = Append(ar[c], p)
    <2>1. PhaseOf(x) = "held" /\ PhaseOf(y) = "held"
        BY <1>6 DEF PhaseOf
    <2>2. PICK p \in Packets : as[c] = Append(ar[c], p)
        BY <1>6
    <2>3. qh = ph /\ rs = rn
        BY <1>2, <1>6, <2>1
    <2>4. Gate!Arrives(c, p)
        BY <1>2, <1>3, <2>1, <2>2, <2>3 DEF Gate!Arrives
    <2> QED
        BY <2>4 DEF Gate!GateNext
<1>7. CASE Awaited(y) /\ x.state = "active" /\ as[c] = ar[c] /\ rs[c] = ar[c]
    <2>1. PhaseOf(x) = "open" /\ PhaseOf(y) = "held"
        BY <1>7 DEF PhaseOf, Awaited
    <2>2. as = ar
        BY <1>2, <1>7
    <2>3. Gate!Opens(c)
        BY <1>2, <1>3, <1>7, <2>1, <2>2 DEF Gate!Opens
    <2> QED
        BY <2>3 DEF Gate!GateNext
<1>8. CASE /\ Awaited(y) \/ y.state = "active"
           /\ x.state = "closed" /\ as[c] = ar[c]
           /\ IF Awaited(y) THEN rs[c] \in Prefixes(ar[c]) ELSE rs[c] = rn[c]
    <2>1. PhaseOf(x) = "shut" /\ (IF Awaited(y) THEN PhaseOf(y) = "held" ELSE PhaseOf(y) = "open")
        BY <1>8 DEF PhaseOf, Awaited
    <2>2. as = ar
        BY <1>2, <1>8
    <2>3. Awaited(y) => Gate!Shuts(c)
        <3>0. SUFFICES ASSUME Awaited(y)
                       PROVE  Gate!Shuts(c)
            OBVIOUS
        <3>1. \E done \in Gate!Prefixes(ar[c]) : rs = [rn EXCEPT ![c] = done]
            BY <1>2, <1>8, <3>0, SamePrefixes
        <3>2. ph[c] = "held" /\ qh = [ph EXCEPT ![c] = "shut"]
            BY <1>2, <2>1, <3>0
        <3> QED
            BY <1>3, <2>2, <3>1, <3>2 DEF Gate!Shuts
    <2>4. ~Awaited(y) => Gate!Shuts(c)
        <3>0. SUFFICES ASSUME ~Awaited(y)
                       PROVE  Gate!Shuts(c)
            OBVIOUS
        <3>1. rs = rn
            BY <1>2, <1>8, <3>0
        <3>2. ph[c] = "open" /\ qh = [ph EXCEPT ![c] = "shut"]
            BY <1>2, <2>1, <3>0
        <3> QED
            BY <1>3, <2>2, <3>1, <3>2 DEF Gate!Shuts
    <2> QED
        BY <2>3, <2>4 DEF Gate!GateNext
<1> QED
    BY <1>1, <1>4, <1>5, <1>6, <1>7, <1>8 DEF Moved

\* Packets that were read before the decision are done after it, in order and once, or
\* from some point on not at all, because the connection ended (Broker.accept()).
THEOREM DeferredPacketsInOrder ==
    ASSUME BrokerAssumption, PacketsAssumption
    PROVE  BrokerSpec => DeferredInOrder
<1>1. ASSUME BrokerInit
      PROVE  Gate!GateInit
    <2>1. \A c \in BrokerClients : Phase(c) = "shut" /\ trace[c].arrived = <<>> /\ trace[c].ran = <<>>
        BY <1>1 DEF BrokerInit, Phase, Waits
    <2> QED
        BY <2>1 DEF Gate!GateInit
<1>2. ASSUME BrokerInv, [BrokerNext]_brokerVars
      PROVE  [Gate!GateNext]_(Gate!gateVars)
    <2>1. ASSUME NEW p \in Packets, PublishOwn(p)
          PROVE  UNCHANGED Gate!gateVars
        <3>1. Told(BrokerWorld', BrokerWorld) /\ Good(BrokerWorld)
            BY <1>2, <2>1, PublishSteps DEF BrokerInv
        <3>2. conn' = conn
            BY <3>1 DEF Told, BrokerWorld
        <3>3. \A c \in BrokerClients : trace'[c].arrived = trace[c].arrived /\ trace'[c].ran = trace[c].ran
            <4> TAKE c \in BrokerClients
            <4>1. Unrun(BrokerWorld', BrokerWorld, c)
                BY <3>1, ToldApart
            <4> QED
                BY <4>1 DEF Unrun, BrokerWorld
        <3> QED
            BY <3>2, <3>3, GateSees DEF Gate!gateVars
    <2>2. CASE UNCHANGED brokerVars
        BY <2>2, GateSees DEF brokerVars, Gate!gateVars
    <2> QED
        BY <1>2, <2>1, <2>2, ClientSteps, MovesThroughGate DEF BrokerNext
<1> QED
    BY <1>1, <1>2, BrokerInvariantHolds, PTL DEF BrokerSpec, DeferredInOrder, Gate!GateSpec

=============================================================================
