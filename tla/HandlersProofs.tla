---------------------------- MODULE HandlersProofs ----------------------------
(***************************************************************************)
(* What handlers ask of their appliances (TlvHandler, MonitorLoop), what   *)
(* Home Assistant and the manufacturer are told of them (HaConnection,     *)
(* CloudReports), and their registration (LgAccount): the invariants that  *)
(* the small instances of MCHandlers show, for any appliances, properties  *)
(* and bounds.  Each part has an inductive invariant of its own, and a     *)
(* step of one part leaves the others as they are.                         *)
(***************************************************************************)
EXTENDS MCHandlers, SequenceTheorems, TLAPS

\* TlvHandler.
\* The worlds that the operators of the handler work on.
TlvWorlds ==
    [link : {"up", "gone", "none"}, timers : SUBSET Timer, handler : Handler,
     asked : SUBSET {"caps", "values", "filter", "reset"},
     available : {"unknown", "online", "offline"}, trace : Trace]

\* Only polls are counted, and hearing anything resets both counts; the frequent polling
\* ends by a timer that an active appliance has not.
Polled(w) ==
    /\ w \in TlvWorlds
    /\ w.handler.silent <=> w.handler.unanswered = MaxUnanswered
    /\ w.handler.unanswered <= w.trace.polls
    /\ w.handler.config => w.available = "online" \/ w.handler.silent
    /\ w.trace.active => w.handler.fast
    /\ w.handler.fast /\ ~w.trace.active => "slowdown" \in w.timers
    /\ "slowdown" \in w.timers => ~w.trace.active

\* The initial values are received when nothing is asked for the first time any more, so
\* that they start the masking timer.
Underway(w) ==
    /\ w.timers \cap {"caps", "values"} # {} => ~w.handler.initial
    /\ w.link # "none" =>
         /\ "poll" \in w.timers
         /\ w.handler.config \/ w.timers \cap {"caps", "values", "masking", "probe"} # {}

TlvInv == Polled(World) /\ Underway(World)

LEMMA TlvFields ==
    ASSUME NEW w \in TlvWorlds
    PROVE  /\ w.link \in {"up", "gone", "none"} /\ w.timers \in SUBSET Timer /\ w.handler \in Handler
           /\ w.asked \in SUBSET {"caps", "values", "filter", "reset"}
           /\ w.available \in {"unknown", "online", "offline"} /\ w.trace \in Trace
           /\ w.handler.initial \in BOOLEAN /\ w.handler.config \in BOOLEAN /\ w.handler.filter \in BOOLEAN
           /\ w.handler.fast \in BOOLEAN /\ w.handler.silent \in BOOLEAN
           /\ w.handler.unanswered \in 0..MaxUnanswered
           /\ w.trace.active \in BOOLEAN /\ w.trace.polls \in 0..MaxUnanswered
BY DEF TlvWorlds, Handler, Trace

\* What a question changes is not in the invariant.
LEMMA SendKeeps ==
    ASSUME NEW w, Polled(w), NEW q \in {"caps", "values", "filter", "reset"}
    PROVE  /\ Polled(Send(w, q)) /\ (Underway(w) => Underway(Send(w, q)))
           /\ \A f \in {"handler", "timers", "link", "available", "trace"} : Send(w, q)[f] = w[f]
<1> DEFINE z == [w EXCEPT !.asked = @ \cup {q}]
<1>1. w \in TlvWorlds
    BY DEF Polled
<1>2. /\ z \in TlvWorlds /\ z.handler = w.handler /\ z.timers = w.timers /\ z.link = w.link
      /\ z.available = w.available /\ z.trace = w.trace
    BY <1>1 DEF TlvWorlds
<1>3. Send(w, q) = IF w.link = "up" THEN z ELSE w
    BY DEF Send
<1> HIDE DEF z
<1>4. CASE w.link = "up"
    <2>1. Send(w, q) = z
        BY <1>3, <1>4
    <2> QED
        BY <1>2, <2>1 DEF Polled, Underway
<1>5. CASE w.link # "up"
    <2>1. Send(w, q) = w
        BY <1>3, <1>5
    <2> QED
        BY <2>1
<1> QED
    BY <1>4, <1>5

LEMMA TimersKeep ==
    ASSUME NEW w, Polled(w), NEW t \in Timer \ {"slowdown"}
    PROVE  /\ Polled(Running(w, t)) /\ Polled(Cleared(w, t))
           /\ Running(w, t).timers = w.timers \cup {t} /\ Cleared(w, t).timers = w.timers \ {t}
           /\ \A f \in {"handler", "link", "available", "trace", "asked"} :
                 Running(w, t)[f] = w[f] /\ Cleared(w, t)[f] = w[f]
<1>1. w \in TlvWorlds
    BY DEF Polled
<1>2. /\ Running(w, t) \in TlvWorlds /\ Running(w, t).timers = w.timers \cup {t}
      /\ \A f \in {"handler", "link", "available", "trace", "asked"} : Running(w, t)[f] = w[f]
    BY <1>1 DEF TlvWorlds, Running
<1>3. /\ Cleared(w, t) \in TlvWorlds /\ Cleared(w, t).timers = w.timers \ {t}
      /\ \A f \in {"handler", "link", "available", "trace", "asked"} : Cleared(w, t)[f] = w[f]
    BY <1>1 DEF TlvWorlds, Cleared
<1>4. /\ "slowdown" \in Running(w, t).timers <=> "slowdown" \in w.timers
      /\ "slowdown" \in Cleared(w, t).timers <=> "slowdown" \in w.timers
    BY <1>2, <1>3
<1> QED
    BY <1>2, <1>3, <1>4 DEF Polled

\* A report resets the count of polls with that of the unanswered ones.
LEMMA HeardKeeps ==
    ASSUME NEW w, Polled(w)
    PROVE  LET z == Heard([w EXCEPT !.trace.polls = 0]) IN
           /\ Polled(z) /\ z.timers = w.timers /\ z.link = w.link
           /\ z.handler.initial = w.handler.initial /\ z.handler.config = w.handler.config
<1> DEFINE u == [w EXCEPT !.trace.polls = 0]
           z == Heard(u)
<1>1. w \in TlvWorlds
    BY DEF Polled
<1>2. /\ u \in TlvWorlds /\ u.handler = w.handler /\ u.timers = w.timers /\ u.link = w.link
      /\ u.available = w.available /\ u.trace.active = w.trace.active /\ u.trace.polls = 0
    BY <1>1 DEF TlvWorlds, Trace, MaxUnanswered
<1> HIDE DEF u
<1>3. /\ z \in TlvWorlds /\ z.timers = w.timers /\ z.link = w.link /\ z.trace = u.trace
      /\ z.handler.initial = w.handler.initial /\ z.handler.config = w.handler.config
      /\ z.handler.fast = w.handler.fast /\ z.handler.unanswered = 0 /\ z.handler.silent = FALSE
      /\ z.available = IF w.handler.silent THEN "online" ELSE w.available
    <2> DEFINE a == IF u.handler.silent THEN "online" ELSE u.available
               y == [u EXCEPT !.available = a]
               v == [y EXCEPT !.handler.unanswered = 0]
    <2>1. y \in TlvWorlds /\ y.timers = w.timers /\ y.link = w.link /\ y.trace = u.trace
          /\ y.handler = w.handler /\ y.available = a
        BY <1>2 DEF TlvWorlds
    <2>2. z = [v EXCEPT !.handler.silent = FALSE]
        BY <1>2 DEF Heard, TlvWorlds
    <2> HIDE DEF z, y
    <2>4. /\ v \in TlvWorlds /\ v.timers = y.timers /\ v.link = y.link /\ v.trace = y.trace
          /\ v.handler.initial = y.handler.initial /\ v.handler.config = y.handler.config
          /\ v.handler.fast = y.handler.fast /\ v.handler.unanswered = 0
          /\ v.available = y.available
        BY <2>1 DEF TlvWorlds, Handler, MaxUnanswered
    <2> HIDE DEF v
    <2>3. /\ z \in TlvWorlds /\ z.timers = y.timers /\ z.link = y.link /\ z.trace = y.trace
          /\ z.handler.initial = y.handler.initial /\ z.handler.config = y.handler.config
          /\ z.handler.fast = y.handler.fast /\ z.handler.unanswered = 0 /\ z.handler.silent = FALSE
          /\ z.available = y.available
        BY <2>2, <2>4 DEF TlvWorlds, Handler
    <2> QED
        BY <1>2, <2>1, <2>3
<1> HIDE DEF z
<1>4. Polled(z)
    BY <1>2, <1>3 DEF Polled, MaxUnanswered
<1> QED
    BY <1>3, <1>4 DEF z, u

\* A poll counts, and the third one that is not answered makes the appliance silent.
LEMMA PollKeeps ==
    ASSUME NEW w, Polled(w)
    PROVE  LET z == AskedForRefresh([w EXCEPT !.trace.polls = IF @ = MaxUnanswered THEN @ ELSE @ + 1]) IN
           /\ Polled(z) /\ z.timers = w.timers /\ z.link = w.link
           /\ z.handler.initial = w.handler.initial /\ z.handler.config = w.handler.config
<1> DEFINE p == IF w.trace.polls = MaxUnanswered THEN w.trace.polls ELSE w.trace.polls + 1
           u == [w EXCEPT !.trace.polls = p]
           n == w.handler.unanswered + 1
<1>1. w \in TlvWorlds
    BY DEF Polled
<1>2. /\ p \in 0..MaxUnanswered /\ n \in Nat /\ w.handler.unanswered <= p
      /\ (n <= MaxUnanswered => n <= p)
    BY <1>1, TlvFields DEF Polled, MaxUnanswered
<1> HIDE DEF p
<1>3. /\ u \in TlvWorlds /\ u.handler = w.handler /\ u.timers = w.timers /\ u.link = w.link
      /\ u.available = w.available /\ u.trace.active = w.trace.active /\ u.trace.polls = p
    BY <1>1, <1>2 DEF TlvWorlds, Trace
<1> HIDE DEF u
<1> DEFINE c == [u EXCEPT !.handler.unanswered = n]
           s == [c EXCEPT !.handler.silent = TRUE, !.available = "offline"]
<1>4. ASSUME n <= MaxUnanswered
      PROVE  /\ c \in TlvWorlds /\ c.timers = w.timers /\ c.link = w.link /\ c.available = w.available
             /\ c.trace = u.trace /\ c.handler.initial = w.handler.initial
             /\ c.handler.config = w.handler.config /\ c.handler.fast = w.handler.fast
             /\ c.handler.silent = w.handler.silent /\ c.handler.unanswered = n
    BY <1>2, <1>3, <1>4 DEF TlvWorlds, Handler, MaxUnanswered
<1>5. ASSUME n <= MaxUnanswered
      PROVE  /\ s \in TlvWorlds /\ s.timers = w.timers /\ s.link = w.link
             /\ s.trace = u.trace /\ s.handler.initial = w.handler.initial
             /\ s.handler.config = w.handler.config /\ s.handler.fast = w.handler.fast
             /\ s.handler.silent = TRUE /\ s.handler.unanswered = n
    <2> HIDE DEF c
    <2> QED
        BY <1>4, <1>5 DEF TlvWorlds, Handler
<1>6. AskedForRefresh(u) = IF n > MaxUnanswered THEN u
                           ELSE IF n < MaxUnanswered \/ w.handler.silent THEN c ELSE s
    <2>1. n > MaxUnanswered => w.handler.silent
        BY <1>1, TlvFields DEF Polled, MaxUnanswered
    <2> QED
        BY <1>3, <2>1 DEF AskedForRefresh
<1> HIDE DEF c, s
<1>7. CASE n > MaxUnanswered
    <2>1. AskedForRefresh(u) = u
        BY <1>6, <1>7
    <2>2. Polled(u)
        BY <1>2, <1>3 DEF Polled
    <2> QED
        BY <1>3, <2>1, <2>2 DEF u, p
<1>8. CASE n <= MaxUnanswered /\ (n < MaxUnanswered \/ w.handler.silent)
    <2>1. AskedForRefresh(u) = c
        BY <1>2, <1>6, <1>8 DEF MaxUnanswered
    <2>2. Polled(c)
        BY <1>1, <1>2, <1>3, <1>4, <1>8, TlvFields DEF Polled, MaxUnanswered
    <2> QED
        BY <1>4, <1>8, <2>1, <2>2 DEF u, p
<1>9. CASE n = MaxUnanswered /\ ~w.handler.silent
    <2>1. AskedForRefresh(u) = s
        BY <1>2, <1>6, <1>9 DEF MaxUnanswered
    <2>2. Polled(s)
        <3>1. n <= MaxUnanswered /\ n <= p
            BY <1>2, <1>9 DEF MaxUnanswered
        <3>2. /\ s \in TlvWorlds /\ s.timers = w.timers /\ s.trace = u.trace
              /\ s.handler.config = w.handler.config /\ s.handler.fast = w.handler.fast
              /\ s.handler.silent = TRUE /\ s.handler.unanswered = MaxUnanswered
            BY <1>5, <1>9, <3>1
        <3>3. s.handler.unanswered <= s.trace.polls
            BY <1>3, <1>9, <3>1, <3>2
        <3> QED
            BY <1>3, <3>2, <3>3 DEF Polled
    <2>3. n <= MaxUnanswered
        BY <1>9 DEF MaxUnanswered
    <2> QED
        BY <1>5, <2>1, <2>2, <2>3 DEF u, p
<1> QED
    BY <1>2, <1>7, <1>8, <1>9 DEF MaxUnanswered

\* The interval becomes what it is set to, whether or not there was a timer.
LEMMA IntervalIs ==
    ASSUME NEW w \in TlvWorlds, NEW fast \in BOOLEAN, NEW due \in BOOLEAN
    PROVE  LET z == SetQueryInterval(w, fast, due) IN
           /\ z \in TlvWorlds /\ z.timers = w.timers \cup {"poll"} /\ z.link = w.link
           /\ z.available = w.available /\ z.trace = w.trace /\ z.handler.fast = fast
           /\ \A f \in {"initial", "config", "filter", "unanswered", "silent"} : z.handler[f] = w.handler[f]
<1> DEFINE q == IF due THEN Query(w) ELSE w
           r == Running(w, "poll")
<1>1. /\ q \in TlvWorlds /\ q.timers = w.timers /\ q.link = w.link /\ q.available = w.available
      /\ q.trace = w.trace /\ q.handler = w.handler
    BY DEF TlvWorlds, Query, Send
<1>2. /\ r \in TlvWorlds /\ r.timers = w.timers \cup {"poll"} /\ r.link = w.link
      /\ r.available = w.available /\ r.trace = w.trace /\ r.handler = w.handler
    BY DEF TlvWorlds, Running, Timer
<1>3. SetQueryInterval(w, fast, due) =
        IF "poll" \notin w.timers THEN [r EXCEPT !.handler.fast = fast]
        ELSE IF w.handler.fast = fast THEN w ELSE [q EXCEPT !.handler.fast = fast]
    BY DEF SetQueryInterval
<1> HIDE DEF q, r
<1>4. ASSUME NEW u \in TlvWorlds
      PROVE  LET z == [u EXCEPT !.handler.fast = fast] IN
             /\ z \in TlvWorlds /\ z.timers = u.timers /\ z.link = u.link
             /\ z.available = u.available /\ z.trace = u.trace /\ z.handler.fast = fast
             /\ \A f \in {"initial", "config", "filter", "unanswered", "silent"} : z.handler[f] = u.handler[f]
    BY DEF TlvWorlds, Handler
<1>5. CASE "poll" \notin w.timers
    BY <1>2, <1>3, <1>4, <1>5
<1>6. CASE "poll" \in w.timers /\ w.handler.fast = fast
    <2>1. SetQueryInterval(w, fast, due) = w /\ w.timers \cup {"poll"} = w.timers
        BY <1>3, <1>6
    <2> QED
        BY <1>6, <2>1
<1>7. CASE "poll" \in w.timers /\ w.handler.fast # fast
    <2>1. SetQueryInterval(w, fast, due) = [q EXCEPT !.handler.fast = fast]
          /\ w.timers \cup {"poll"} = w.timers
        BY <1>3, <1>7
    <2> QED
        BY <1>1, <1>4, <2>1
<1> QED
    BY <1>5, <1>6, <1>7

\* An active appliance is polled often from now on, an idle one until the timer fires.
LEMMA ClimateKeeps ==
    ASSUME NEW w, Polled(w), Underway(w), NEW action \in Actions, NEW due \in BOOLEAN
    PROVE  LET z == ClimateAction(w, action, due) IN Polled(z) /\ Underway(z)
<1> DEFINE u == [w EXCEPT !.trace.active = (action = "active")]
           z == UpdateQueryInterval(u, action = "active", due)
<1>1. w \in TlvWorlds
    BY DEF Polled
<1>2. /\ u \in TlvWorlds /\ u.handler = w.handler /\ u.timers = w.timers /\ u.link = w.link
      /\ u.available = w.available /\ u.trace.active = (action = "active")
      /\ u.trace.polls = w.trace.polls
    BY <1>1 DEF TlvWorlds, Trace
<1>3. ClimateAction(w, action, due) = IF ~w.handler.config \/ action = "unchanged" THEN w ELSE z
    BY DEF ClimateAction
<1> HIDE DEF u
<1>4. /\ z \in TlvWorlds /\ z.link = w.link /\ z.available = w.available /\ z.trace = u.trace
      /\ \A f \in {"initial", "config", "unanswered", "silent"} : z.handler[f] = w.handler[f]
      /\ z.timers \ {"slowdown", "poll"} = w.timers \ {"slowdown", "poll"}
      /\ "poll" \in w.timers => "poll" \in z.timers
      /\ IF action = "active" THEN z.handler.fast /\ "slowdown" \notin z.timers
         ELSE "slowdown" \in z.timers
    <2>1. CASE action = "active"
        <3> DEFINE c == Cleared(u, "slowdown")
        <3>1. /\ c \in TlvWorlds /\ c.timers = u.timers \ {"slowdown"} /\ c.handler = u.handler
              /\ c.link = u.link /\ c.available = u.available /\ c.trace = u.trace
            BY <1>2 DEF TlvWorlds, Cleared
        <3>2. z = SetQueryInterval(c, TRUE, due)
            BY <2>1 DEF UpdateQueryInterval
        <3> HIDE DEF c, z
        <3>3. /\ z \in TlvWorlds /\ z.timers = c.timers \cup {"poll"} /\ z.link = c.link
              /\ z.available = c.available /\ z.trace = c.trace /\ z.handler.fast = TRUE
              /\ \A f \in {"initial", "config", "filter", "unanswered", "silent"} :
                    z.handler[f] = c.handler[f]
            <4> DEFINE y == SetQueryInterval(c, TRUE, due)
            <4>1. /\ y \in TlvWorlds /\ y.timers = c.timers \cup {"poll"} /\ y.link = c.link
                  /\ y.available = c.available /\ y.trace = c.trace /\ y.handler.fast = TRUE
                  /\ \A f \in {"initial", "config", "filter", "unanswered", "silent"} :
                        y.handler[f] = c.handler[f]
                BY <3>1, IntervalIs
            <4> HIDE DEF y
            <4>2. z = y
                BY <3>2 DEF y
            <4> QED
                BY <4>1, <4>2
        <3> QED
            BY <1>2, <2>1, <3>1, <3>3
    <2>2. CASE action # "active" /\ "slowdown" \in u.timers
        <3>1. z = u
            BY <2>2 DEF UpdateQueryInterval
        <3> QED
            BY <1>2, <2>2, <3>1
    <2>3. CASE action # "active" /\ "slowdown" \notin u.timers
        <3>1. z = Running(u, "slowdown")
            BY <2>3 DEF UpdateQueryInterval
        <3> HIDE DEF z
        <3>2. /\ z \in TlvWorlds /\ z.timers = u.timers \cup {"slowdown"} /\ z.handler = u.handler
              /\ z.link = u.link /\ z.available = u.available /\ z.trace = u.trace
            BY <1>2, <3>1 DEF TlvWorlds, Running, Timer
        <3> QED
            BY <1>2, <2>3, <3>2
    <2> QED
        BY <2>1, <2>2, <2>3
<1> HIDE DEF z
<1>5. Polled(z)
    BY <1>2, <1>4 DEF Polled
<1>6. Underway(z)
    BY <1>4 DEF Underway
<1> QED
    BY <1>3, <1>5, <1>6

LEMMA SlowdownKeeps ==
    ASSUME NEW w, Polled(w), Underway(w), "slowdown" \in w.timers, NEW due \in BOOLEAN
    PROVE  LET z == SetQueryInterval(Cleared(w, "slowdown"), FALSE, due) IN Polled(z) /\ Underway(z)
<1> DEFINE c == Cleared(w, "slowdown")
           z == SetQueryInterval(c, FALSE, due)
<1>1. w \in TlvWorlds /\ ~w.trace.active
    BY DEF Polled
<1>2. /\ c \in TlvWorlds /\ c.timers = w.timers \ {"slowdown"} /\ c.handler = w.handler
      /\ c.link = w.link /\ c.available = w.available /\ c.trace = w.trace
    BY <1>1 DEF TlvWorlds, Cleared
<1> HIDE DEF c
<1>3. /\ z \in TlvWorlds /\ z.timers = c.timers \cup {"poll"} /\ z.link = c.link
      /\ z.available = c.available /\ z.trace = c.trace /\ z.handler.fast = FALSE
      /\ \A f \in {"initial", "config", "filter", "unanswered", "silent"} : z.handler[f] = c.handler[f]
    BY <1>2, IntervalIs
<1> HIDE DEF z
<1>4. Polled(z)
    BY <1>1, <1>2, <1>3 DEF Polled
<1>5. Underway(z)
    BY <1>2, <1>3 DEF Underway
<1> QED
    BY <1>4, <1>5 DEF z, c

\* What is configured is announced, and only timers are added.
LEMMA MakeConfigKeeps ==
    ASSUME NEW w, Polled(w)
    PROVE  LET z == MakeConfig(w) IN
           /\ Polled(z) /\ z.handler.config /\ z.link = w.link /\ z.handler.initial = w.handler.initial
           /\ w.timers \subseteq z.timers /\ z.timers \subseteq w.timers \cup {"filter"}
<1> DEFINE u == [w EXCEPT !.handler.config = TRUE]
           a == [u EXCEPT !.available = "online"]
           r == IF w.handler.filter THEN Running(a, "filter") ELSE a
<1>1. w \in TlvWorlds
    BY DEF Polled
<1>2. /\ u \in TlvWorlds /\ u.handler.config = TRUE /\ u.timers = w.timers /\ u.link = w.link
      /\ u.trace = w.trace
      /\ \A f \in {"initial", "filter", "fast", "unanswered", "silent"} : u.handler[f] = w.handler[f]
    BY <1>1 DEF TlvWorlds, Handler
<1>3. MakeConfig(w) = Send(r, "values")
    BY <1>2 DEF MakeConfig, PublishConfig, Query
<1> HIDE DEF u
<1>4. /\ a \in TlvWorlds /\ a.handler = u.handler /\ a.timers = u.timers /\ a.link = u.link
      /\ a.trace = u.trace /\ a.available = "online"
    BY <1>2 DEF TlvWorlds
<1> HIDE DEF a
<1>5. Polled(a)
    BY <1>2, <1>4 DEF Polled
<1>6. /\ Polled(r) /\ r.handler = u.handler /\ r.link = w.link
      /\ w.timers \subseteq r.timers /\ r.timers \subseteq w.timers \cup {"filter"}
    <2>1. "filter" \in Timer \ {"slowdown"}
        BY DEF Timer
    <2> QED
        BY <1>2, <1>4, <1>5, <2>1, TimersKeep
<1> HIDE DEF r
<1> QED
    BY <1>2, <1>3, <1>6, SendKeeps

\* The first values follow the capabilities, and the masking timer the first values.
LEMMA ProcessKeeps ==
    ASSUME NEW w, Polled(w), Underway(w), NEW caps \in BOOLEAN, NEW values \in BOOLEAN
    PROVE  LET z == ProcessTLV(w, caps, values) IN Polled(z) /\ Underway(z)
<1> DEFINE q == Send(Cleared(w, "caps"), "values")
           f == IF caps /\ "caps" \in w.timers THEN Running(q, "values") ELSE w
           v == Cleared(f, "values")
           z == IF values /\ "caps" \notin f.timers THEN ValuesReceived(v) ELSE f
<1>1. z = ProcessTLV(w, caps, values)
    BY DEF ProcessTLV, Query
<1>2. /\ {"caps", "values", "masking"} \subseteq Timer \ {"slowdown"}
      /\ "values" \in {"caps", "values", "filter", "reset"}
    BY DEF Timer
<1>3. Polled(f) /\ Underway(f)
    <2>1. CASE caps /\ "caps" \in w.timers
        <3> DEFINE c == Cleared(w, "caps")
        <3>1. Polled(c) /\ c.timers = w.timers \ {"caps"} /\ c.handler = w.handler /\ c.link = w.link
            BY <1>2, TimersKeep
        <3>2. q = Send(c, "values")
            OBVIOUS
        <3> HIDE DEF c, q
        <3>3. Polled(q) /\ q.timers = c.timers /\ q.handler = c.handler /\ q.link = c.link
            BY <1>2, <3>1, <3>2, SendKeeps
        <3>4. f = Running(q, "values")
            BY <2>1
        <3> HIDE DEF f
        <3>5. /\ Polled(f) /\ f.timers = q.timers \cup {"values"} /\ f.handler = q.handler
              /\ f.link = q.link
            BY <1>2, <3>3, <3>4, TimersKeep
        <3> QED
            BY <2>1, <3>1, <3>3, <3>5 DEF Underway
    <2>2. CASE ~(caps /\ "caps" \in w.timers)
        BY <2>2
    <2> QED
        BY <2>1, <2>2
<1> HIDE DEF f
<1>4. ASSUME values, "caps" \notin f.timers
      PROVE  Polled(ValuesReceived(v)) /\ Underway(ValuesReceived(v))
    <2>1. Polled(v) /\ v.timers = f.timers \ {"values"} /\ v.handler = f.handler /\ v.link = f.link
        BY <1>2, <1>3, TimersKeep
    <2> HIDE DEF v
    <2>2. CASE v.handler.initial
        <3>1. ValuesReceived(v) = v
            BY <2>2 DEF ValuesReceived
        <3>2. f.timers \cap {"caps", "values"} = {}
            BY <1>3, <2>1, <2>2 DEF Underway
        <3>3. v.timers = f.timers
            BY <2>1, <3>2
        <3> QED
            BY <1>3, <2>1, <3>1, <3>3 DEF Underway
    <2>3. CASE ~v.handler.initial
        <3> DEFINE i == [v EXCEPT !.handler.initial = TRUE]
        <3>1. v \in TlvWorlds
            BY <2>1 DEF Polled
        <3>2. /\ i \in TlvWorlds /\ i.timers = v.timers /\ i.link = v.link /\ i.trace = v.trace
              /\ i.available = v.available
              /\ \A g \in {"config", "fast", "unanswered", "silent"} : i.handler[g] = v.handler[g]
            BY <3>1 DEF TlvWorlds, Handler
        <3>3. ValuesReceived(v) = Running(i, "masking")
            BY <2>3 DEF ValuesReceived
        <3> HIDE DEF i
        <3>4. Polled(i)
            BY <2>1, <3>2 DEF Polled
        <3>5. /\ Polled(Running(i, "masking")) /\ Running(i, "masking").timers = i.timers \cup {"masking"}
              /\ Running(i, "masking").handler = i.handler /\ Running(i, "masking").link = i.link
            BY <1>2, <3>4, TimersKeep
        <3> QED
            BY <1>3, <1>4, <2>1, <3>2, <3>3, <3>5 DEF Underway
    <2> QED
        BY <2>2, <2>3
<1> HIDE DEF v
<1> QED
    BY <1>1, <1>3, <1>4

LEMMA ProcessDataKeeps ==
    ASSUME NEW w, Polled(w), Underway(w), NEW caps \in BOOLEAN, NEW values \in BOOLEAN,
           NEW action \in Actions, NEW due \in BOOLEAN
    PROVE  LET z == ProcessData(w, caps, values, action, due) IN Polled(z) /\ Underway(z)
<1> DEFINE h == Heard([w EXCEPT !.trace.polls = 0])
<1>1. Polled(h) /\ Underway(h)
    <2>1. /\ Polled(h) /\ h.timers = w.timers /\ h.link = w.link
          /\ h.handler.initial = w.handler.initial /\ h.handler.config = w.handler.config
        BY HeardKeeps
    <2> HIDE DEF h
    <2> QED
        BY <2>1 DEF Underway
<1>2. ProcessData(w, caps, values, action, due) = ProcessTLV(ClimateAction(h, action, due), caps, values)
    BY DEF ProcessData
<1> HIDE DEF h
<1>3. Polled(ClimateAction(h, action, due)) /\ Underway(ClimateAction(h, action, due))
    BY <1>1, ClimateKeeps
<1> QED
    BY <1>2, <1>3, ProcessKeeps

LEMMA TlvInitHolds ==
    ASSUME Init
    PROVE  TlvInv
<1>1. NewHandler \in Handler /\ NoTrace \in Trace
    BY DEF NewHandler, Handler, NoTrace, Trace, MaxUnanswered
<1>2. World \in TlvWorlds
    BY <1>1 DEF Init, World, TlvWorlds
<1>3. Polled(World)
    BY <1>2 DEF Init, World, Polled, NewHandler, NoTrace, MaxUnanswered
<1>4. Underway(World)
    BY DEF Init, World, Underway
<1> QED
    BY <1>3, <1>4 DEF TlvInv

\* A world that the invariant holds of, and that the handler's state becomes.
LEMMA TlvInvAfter ==
    ASSUME NEW w, Polled(w), Underway(w), Becomes(w)
    PROVE  TlvInv'
<1>1. w \in TlvWorlds
    BY DEF Polled
<1>2. /\ World'.link = w.link /\ World'.timers = w.timers /\ World'.handler = w.handler
      /\ World'.asked = w.asked /\ World'.available = w.available /\ World'.trace = w.trace
    BY DEF Becomes, World
<1>3. World' \in TlvWorlds
    BY <1>1, <1>2, TlvFields DEF Becomes, World, TlvWorlds
<1>4. Polled(World)' /\ Underway(World)'
    BY <1>1, <1>2, <1>3 DEF Polled, Underway
<1> QED
    BY <1>4 DEF TlvInv

\* What the appliance says.
LEMMA AnswersKeep ==
    ASSUME TlvInv, NEW caps \in BOOLEAN, NEW values \in BOOLEAN, NEW question \in {"caps", "values"},
           Reply(question, caps, values) \/ Report(values)
    PROVE  TlvInv'
<1> DEFINE s == [World EXCEPT !.asked = @ \ {question}]
<1>1. World \in TlvWorlds /\ Polled(World) /\ Underway(World)
    BY DEF TlvInv, Polled
<1>2. Polled(s) /\ Underway(s)
    <2>1. /\ s \in TlvWorlds /\ s.handler = World.handler /\ s.timers = World.timers
          /\ s.link = World.link /\ s.available = World.available /\ s.trace = World.trace
        BY <1>1 DEF TlvWorlds
    <2> HIDE DEF s
    <2> QED
        BY <1>1, <2>1 DEF Polled, Underway
<1>3. PICK action \in Actions, due \in BOOLEAN :
        \/ Becomes(ProcessData(s, caps, values, action, due))
        \/ Becomes(ProcessData(World, FALSE, values, action, due))
    BY DEF Reply, Report
<1> HIDE DEF s
<1>4. ASSUME Becomes(ProcessData(s, caps, values, action, due))
      PROVE  TlvInv'
    BY <1>2, <1>4, ProcessDataKeeps, TlvInvAfter
<1>5. ASSUME Becomes(ProcessData(World, FALSE, values, action, due))
      PROVE  TlvInv'
    BY <1>1, <1>5, ProcessDataKeeps, TlvInvAfter
<1> QED
    BY <1>3, <1>4, <1>5

\* Filter data ends the probe, and with it comes the configuration.
LEMMA FilterAnswersKeep ==
    ASSUME TlvInv, NEW b \in BOOLEAN, FilterData(b) \/ ResetDone(b)
    PROVE  TlvInv'
<1>1. World \in TlvWorlds /\ Polled(World) /\ Underway(World) /\ World.timers = timers
    BY DEF TlvInv, Polled, World
<1>2. CASE FilterData(b)
    <2> DEFINE w == [World EXCEPT !.asked = @ \ {"filter"}, !.handler.filter = b]
               c == Cleared(w, "probe")
    <2>1. /\ w \in TlvWorlds /\ w.timers = World.timers /\ w.link = World.link
          /\ w.available = World.available /\ w.trace = World.trace
          /\ \A f \in {"initial", "config", "fast", "unanswered", "silent"} :
                w.handler[f] = World.handler[f]
        BY <1>1 DEF TlvWorlds, Handler
    <2>2. Becomes(IF "probe" \in timers THEN MakeConfig(c) ELSE w)
        BY <1>2 DEF FilterData
    <2> HIDE DEF w
    <2>3. Polled(w) /\ Underway(w)
        BY <1>1, <2>1 DEF Polled, Underway
    <2>4. CASE "probe" \in timers
        <3>1. /\ Polled(c) /\ c.timers = w.timers \ {"probe"} /\ c.handler = w.handler
              /\ c.link = w.link
            BY <2>3, TimersKeep DEF Timer
        <3> HIDE DEF c
        <3> DEFINE z == MakeConfig(c)
        <3>2. /\ Polled(z) /\ z.handler.config /\ z.link = c.link
              /\ z.handler.initial = c.handler.initial
              /\ c.timers \subseteq z.timers /\ z.timers \subseteq c.timers \cup {"filter"}
            BY <3>1, MakeConfigKeeps
        <3>3. Becomes(z)
            BY <2>2, <2>4
        <3> HIDE DEF z
        <3>4. Underway(z)
            BY <2>3, <3>1, <3>2 DEF Underway
        <3> QED
            BY <3>2, <3>3, <3>4, TlvInvAfter
    <2>5. CASE "probe" \notin timers
        BY <2>2, <2>3, <2>5, TlvInvAfter
    <2> QED
        BY <2>4, <2>5
<1>3. CASE ResetDone(b)
    <2> DEFINE w == [World EXCEPT !.asked = @ \ {"reset"}]
    <2>1. /\ w \in TlvWorlds /\ w.handler = World.handler /\ w.timers = World.timers
          /\ w.link = World.link /\ w.available = World.available /\ w.trace = World.trace
        BY <1>1 DEF TlvWorlds
    <2>2. Becomes(IF b THEN Send(w, "filter") ELSE w)
        BY <1>3 DEF ResetDone
    <2> HIDE DEF w
    <2>3. Polled(w) /\ Underway(w)
        BY <1>1, <2>1 DEF Polled, Underway
    <2>4. Polled(Send(w, "filter")) /\ Underway(Send(w, "filter"))
        BY <2>3, SendKeeps
    <2> QED
        BY <2>2, <2>3, <2>4, TlvInvAfter
<1> QED
    BY <1>2, <1>3

LEMMA TlvTimersKeep ==
    ASSUME TlvInv, TimerFires
    PROVE  TlvInv'
<1>1. World \in TlvWorlds /\ Polled(World) /\ Underway(World) /\ World.timers = timers
    BY DEF TlvInv, Polled, World
<1> HIDE DEF World
<1>2. CASE CapsTimer
    <2>1. Polled(Send(World, "caps")) /\ Underway(Send(World, "caps"))
        BY <1>1, SendKeeps
    <2> QED
        BY <1>2, <2>1, TlvInvAfter DEF CapsTimer, QueryCaps
<1>3. CASE ValuesTimer
    <2>1. Polled(Send(World, "values")) /\ Underway(Send(World, "values"))
        BY <1>1, SendKeeps
    <2> QED
        BY <1>3, <2>1, TlvInvAfter DEF ValuesTimer, Query
<1>4. CASE Poll
    <2> DEFINE z == AskedForRefresh([World EXCEPT
                        !.trace.polls = IF @ = MaxUnanswered THEN @ ELSE @ + 1])
    <2>1. Becomes(Send(z, "values"))
        BY <1>4 DEF Poll, Query
    <2>2. /\ Polled(z) /\ z.timers = World.timers /\ z.link = World.link
          /\ z.handler.initial = World.handler.initial /\ z.handler.config = World.handler.config
        BY <1>1, PollKeeps
    <2> HIDE DEF z
    <2>3. Underway(z)
        BY <1>1, <2>2 DEF Underway
    <2> QED
        BY <2>1, <2>2, <2>3, SendKeeps, TlvInvAfter
<1>5. ASSUME NEW t \in {"masking", "probe"}, t \in timers, Becomes(MakeConfig(Cleared(World, t)))
      PROVE  TlvInv'
    <2> DEFINE c == Cleared(World, t)
               z == MakeConfig(c)
    <2>1. t \in Timer \ {"slowdown"}
        BY DEF Timer
    <2>2. Polled(c) /\ c.timers = World.timers \ {t} /\ c.handler = World.handler /\ c.link = World.link
        BY <1>1, <2>1, TimersKeep
    <2> HIDE DEF c
    <2>3. /\ Polled(z) /\ z.handler.config /\ z.link = c.link
          /\ z.handler.initial = c.handler.initial
          /\ c.timers \subseteq z.timers /\ z.timers \subseteq c.timers \cup {"filter"}
        BY <2>2, MakeConfigKeeps
    <2>4. Becomes(z)
        BY <1>5 DEF c
    <2> HIDE DEF z
    <2>5. Underway(z)
        BY <1>1, <2>2, <2>3 DEF Underway
    <2> QED
        BY <2>3, <2>4, <2>5, TlvInvAfter
<1>6. CASE ProbeTimer
    BY <1>5, <1>6 DEF ProbeTimer
<1>7. ASSUME NEW t \in {"filter", "write"}, Becomes(Send(World, "filter")) \/ Becomes(Send(Cleared(World, "write"), "values"))
      PROVE  TlvInv'
    <2> DEFINE c == Cleared(World, "write")
    <2>1. /\ Polled(c) /\ c.timers = World.timers \ {"write"} /\ c.handler = World.handler
          /\ c.link = World.link
        BY <1>1, TimersKeep DEF Timer
    <2> HIDE DEF c
    <2>2. Underway(c)
        BY <1>1, <2>1 DEF Underway
    <2>3. Polled(Send(c, "values")) /\ Underway(Send(c, "values"))
        BY <2>1, <2>2, SendKeeps
    <2>4. Polled(Send(World, "filter")) /\ Underway(Send(World, "filter"))
        BY <1>1, SendKeeps
    <2> QED
        BY <1>7, <2>3, <2>4, TlvInvAfter DEF c
<1>8. CASE FilterTimer \/ WriteTimer
    BY <1>7, <1>8 DEF FilterTimer, WriteTimer, Query
<1>9. ASSUME NEW choice \in BOOLEAN, MaskingTimer(choice)
      PROVE  TlvInv'
    <2>1. CASE choice
        <3> DEFINE c == Cleared(World, "masking")
                   s == Send(c, "filter")
                   z == Running(s, "probe")
        <3>1. /\ Polled(c) /\ c.timers = World.timers \ {"masking"} /\ c.handler = World.handler
              /\ c.link = World.link
            BY <1>1, TimersKeep DEF Timer
        <3>2. Becomes(z)
            BY <1>9, <2>1 DEF MaskingTimer
        <3> HIDE DEF c
        <3>3. Polled(s) /\ s.timers = c.timers /\ s.handler = c.handler /\ s.link = c.link
            BY <3>1, SendKeeps
        <3> HIDE DEF s
        <3>4. Polled(z) /\ z.timers = s.timers \cup {"probe"} /\ z.handler = s.handler /\ z.link = s.link
            BY <3>3, TimersKeep DEF Timer
        <3> HIDE DEF z
        <3>5. Underway(z)
            BY <1>1, <3>1, <3>3, <3>4 DEF Underway
        <3> QED
            BY <3>2, <3>4, <3>5, TlvInvAfter
    <2>2. CASE ~choice
        BY <1>5, <1>9, <2>2 DEF MaskingTimer
    <2> QED
        BY <2>1, <2>2
<1>10. ASSUME NEW choice \in BOOLEAN, SlowdownTimer(choice)
       PROVE  TlvInv'
    <2>1. "slowdown" \in World.timers
          /\ Becomes(SetQueryInterval(Cleared(World, "slowdown"), FALSE, choice))
        BY <1>1, <1>10 DEF SlowdownTimer
    <2> QED
        BY <1>1, <2>1, SlowdownKeeps, TlvInvAfter
<1> QED
    BY <1>2, <1>3, <1>4, <1>6, <1>8, <1>9, <1>10 DEF TimerFires

LEMMA HomeAssistantKeeps ==
    ASSUME TlvInv, Write \/ FilterReset \/ Discovery
    PROVE  TlvInv'
<1>1. World \in TlvWorlds /\ Polled(World) /\ Underway(World)
    BY DEF TlvInv, Polled
<1> HIDE DEF World
<1>2. CASE Write
    <2> DEFINE z == Running(World, "write")
    <2>1. Polled(z) /\ z.timers = World.timers \cup {"write"} /\ z.handler = World.handler
          /\ z.link = World.link
        BY <1>1, TimersKeep DEF Timer
    <2>2. Becomes(z)
        BY <1>2 DEF Write
    <2> HIDE DEF z
    <2>3. Underway(z)
        BY <1>1, <2>1 DEF Underway
    <2> QED
        BY <2>1, <2>2, <2>3, TlvInvAfter
<1>3. CASE FilterReset
    BY <1>1, <1>3, SendKeeps, TlvInvAfter DEF FilterReset
<1>4. CASE Discovery
    <2> DEFINE a == [World EXCEPT !.available = "online"]
    <2>1. /\ a \in TlvWorlds /\ a.handler = World.handler /\ a.timers = World.timers
          /\ a.link = World.link /\ a.trace = World.trace /\ a.available = "online"
        BY <1>1 DEF TlvWorlds
    <2>2. Becomes(IF World.handler.config THEN a ELSE World)
        BY <1>4 DEF Discovery, PublishConfig
    <2> HIDE DEF a
    <2>3. Polled(a) /\ Underway(a)
        BY <1>1, <2>1 DEF Polled, Underway
    <2> QED
        BY <1>1, <2>2, <2>3, TlvInvAfter
<1> QED
    BY <1>2, <1>3, <1>4

\* A new handler begins with its first question, and nothing is left of a dropped one.
LEMMA ApplianceKeeps ==
    ASSUME TlvInv, Closes \/ Connects \/ Drop \/ (\E question \in asked : Lost(question))
    PROVE  TlvInv'
<1>1. World \in TlvWorlds /\ Polled(World) /\ Underway(World)
    BY DEF TlvInv, Polled
<1>2. NewHandler \in Handler /\ NoTrace \in Trace
    BY DEF NewHandler, Handler, NoTrace, Trace, MaxUnanswered
<1>3. /\ timers \in SUBSET Timer /\ handler \in Handler /\ trace \in Trace
      /\ asked \in SUBSET {"caps", "values", "filter", "reset"}
      /\ link \in {"up", "gone", "none"} /\ available \in {"unknown", "online", "offline"}
    BY <1>1, TlvFields DEF World
<1>4. CASE Closes \/ (\E question \in asked : Lost(question))
    <2>1. /\ World'.handler = World.handler /\ World'.timers = World.timers
          /\ World'.available = World.available /\ World'.trace = World.trace
          /\ World'.link # "none" => World.link # "none"
        BY <1>4 DEF World, Closes, Lost
    <2>2. World' \in TlvWorlds
        BY <1>3, <1>4 DEF World, TlvWorlds, Closes, Lost
    <2> QED
        BY <1>1, <2>1, <2>2 DEF TlvInv, Polled, Underway
<1>5. CASE Connects
    <2>1. World' \in TlvWorlds
        BY <1>2, <1>3, <1>5 DEF World, TlvWorlds, Connects, Timer
    <2>2. /\ World'.handler = NewHandler /\ World'.trace = NoTrace /\ World'.timers = {"caps", "poll"}
        BY <1>5 DEF World, Connects
    <2> QED
        BY <2>1, <2>2 DEF TlvInv, Polled, Underway, NewHandler, NoTrace, MaxUnanswered
<1>6. CASE Drop
    <2>1. World' \in TlvWorlds
        BY <1>2, <1>3, <1>6 DEF World, TlvWorlds, Drop, Timer
    <2>2. /\ World'.handler = NewHandler /\ World'.trace = NoTrace /\ World'.timers = {}
          /\ World'.link = "none"
        BY <1>6 DEF World, Drop
    <2> QED
        BY <2>1, <2>2 DEF TlvInv, Polled, Underway, NewHandler, NoTrace, MaxUnanswered
<1> QED
    BY <1>4, <1>5, <1>6

LEMMA TlvStepKeeps ==
    ASSUME TlvInv, Next
    PROVE  TlvInv'
BY AnswersKeep, FilterAnswersKeep, TlvTimersKeep, HomeAssistantKeeps, ApplianceKeeps DEF Next

LEMMA TlvStutters ==
    ASSUME TlvInv, UNCHANGED vars
    PROVE  TlvInv'
BY DEF TlvInv, World, vars

LEMMA TlvInvShows ==
    ASSUME TlvInv
    PROVE  TypeOK /\ NextStepScheduled /\ PollRateFollows /\ OfflineIsSilent
<1>1. World \in TlvWorlds /\ Polled(World) /\ Underway(World)
    BY DEF TlvInv, Polled
<1>2. /\ World.link = link /\ World.timers = timers /\ World.handler = handler
      /\ World.asked = asked /\ World.available = available /\ World.trace = trace
    BY DEF World
<1>3. TypeOK
    BY <1>1, <1>2, TlvFields DEF TypeOK, Polled
<1>4. NextStepScheduled
    BY <1>1, <1>2 DEF NextStepScheduled, Underway
<1>5. PollRateFollows
    BY <1>1, <1>2 DEF PollRateFollows, Polled
<1>6. OfflineIsSilent
    BY <1>1, <1>2, TlvFields DEF OfflineIsSilent, Polled, MaxUnanswered
<1> QED
    BY <1>3, <1>4, <1>5, <1>6

-----------------------------------------------------------------------------
\* MonitorLoop: what the parts of a step work on.
Loops == [started: BOOLEAN, over: BOOLEAN, inFlight: BOOLEAN, asked: BOOLEAN]
Acks == [own: BOOLEAN, panel: BOOLEAN, ignore: BOOLEAN]
Loopers == [l : Loops, t : SUBSET MonTimers, a : Acks, owed : BOOLEAN]

\* What the loop looks like between the parts of a step; the acknowledgement of its own
\* request comes within the second it is ignored for.
Scheduled(r) ==
    /\ r.l.started /\ r.l.inFlight => "monitor" \in r.t
    /\ r.l.started /\ r.owed => "refresh" \in r.t
    /\ ~r.l.started => r.t = {} /\ (r.l.over \/ (~r.l.inFlight /\ ~r.owed))
    /\ r.a.own => r.a.ignore

Awake(r) == Scheduled(r) /\ (r.l.started /\ ~r.l.inFlight => {"periodic", "refresh"} \cap r.t # {})

MonInv ==
    /\ power \in [last: Power \cup {"unknown"}, shown: Power \cup {"unknown"}, is: Power]
    /\ Now \in Loopers /\ Awake(Now)

LEMMA LooperFields ==
    ASSUME NEW r \in Loopers
    PROVE  /\ r.l \in Loops /\ r.t \in SUBSET MonTimers /\ r.a \in Acks /\ r.owed \in BOOLEAN
           /\ r.l.started \in BOOLEAN /\ r.l.over \in BOOLEAN /\ r.l.inFlight \in BOOLEAN /\ r.l.asked \in BOOLEAN
           /\ r.a.own \in BOOLEAN /\ r.a.panel \in BOOLEAN /\ r.a.ignore \in BOOLEAN
           /\ r = [l |-> r.l, t |-> r.t, a |-> r.a, owed |-> r.owed]
BY DEF Loopers, Loops, Acks

LEMMA RequestIs ==
    ASSUME NEW r \in Loopers, r.l.started, ~r.l.inFlight
    PROVE  RequestMonitorSnapshot(r)
             = [l |-> [r.l EXCEPT !.inFlight = TRUE], t |-> (r.t \ {"periodic"}) \cup {"monitor"},
                a |-> [r.a EXCEPT !.ignore = TRUE, !.own = TRUE], owed |-> FALSE]
BY LooperFields DEF RequestMonitorSnapshot, Loopers, Loops, Acks

LEMMA FinishIs ==
    ASSUME NEW r \in Loopers, r.l.started, r.l.inFlight
    PROVE  FinishMonitorSnapshot(r)
             = [l |-> [r.l EXCEPT !.inFlight = FALSE], t |-> (r.t \ {"monitor"}) \cup {"periodic"},
                a |-> [r.a EXCEPT !.ignore = TRUE, !.own = TRUE], owed |-> r.owed]
BY LooperFields DEF FinishMonitorSnapshot, SchedulePeriodicSnapshot, Loopers, Loops, Acks

LEMMA RequestWakes ==
    ASSUME NEW r \in Loopers, r.l.started, ~r.l.inFlight
    PROVE  LET z == RequestMonitorSnapshot(r)
           IN  z \in Loopers /\ Awake(z) /\ z.l.started
<1> DEFINE z == RequestMonitorSnapshot(r)
           l == [r.l EXCEPT !.inFlight = TRUE]
           t == (r.t \ {"periodic"}) \cup {"monitor"}
           a == [r.a EXCEPT !.ignore = TRUE, !.own = TRUE]
<1>1. z = [l |-> l, t |-> t, a |-> a, owed |-> FALSE]
    BY RequestIs
<1>2. l \in Loops /\ l.started /\ l.inFlight /\ t \in SUBSET MonTimers /\ a \in Acks /\ a.own /\ a.ignore
    BY LooperFields DEF Loops, Acks, MonTimers
<1>3. "monitor" \in t
    OBVIOUS
<1> HIDE DEF z, l, t, a
<1>4. z \in Loopers /\ z.l = l /\ z.t = t /\ z.a = a /\ z.owed = FALSE
    BY <1>1, <1>2 DEF Loopers
<1> QED
    BY <1>2, <1>3, <1>4 DEF Awake, Scheduled, z

LEMMA RequestKeeps ==
    ASSUME NEW r \in Loopers, Scheduled(r)
    PROVE  LET z == RequestMonitorSnapshot(r)
           IN  z \in Loopers /\ Awake(z)
<1> DEFINE z == RequestMonitorSnapshot(r)
<1>1. CASE ~r.l.started \/ r.l.inFlight
    <2>1. z = r
        BY <1>1 DEF RequestMonitorSnapshot
    <2> QED
        BY <1>1, <2>1 DEF Awake
<1>2. CASE r.l.started /\ ~r.l.inFlight
    BY <1>2, RequestWakes
<1> QED
    BY <1>1, <1>2

\* finishMonitorSnapshot() may be called when none runs.
LEMMA FinishKeepsLoop ==
    ASSUME NEW r \in Loopers, Awake(r), r.l.started
    PROVE  LET z == FinishMonitorSnapshot(r)
           IN  z \in Loopers /\ Awake(z) /\ z.l.started = r.l.started
<1> DEFINE z == FinishMonitorSnapshot(r)
<1>1. CASE ~r.l.inFlight
    <2>1. z = r
        BY <1>1 DEF FinishMonitorSnapshot
    <2> QED
        BY <2>1
<1>2. CASE r.l.inFlight /\ r.l.started
    <2> DEFINE l == [r.l EXCEPT !.inFlight = FALSE]
               t == (r.t \ {"monitor"}) \cup {"periodic"}
               a == [r.a EXCEPT !.ignore = TRUE, !.own = TRUE]
    <2>1. z = [l |-> l, t |-> t, a |-> a, owed |-> r.owed]
        BY <1>2, FinishIs
    <2>2. /\ l \in Loops /\ l.started = r.l.started /\ ~l.inFlight /\ t \in SUBSET MonTimers
          /\ a \in Acks /\ a.own /\ a.ignore
        BY <1>2, LooperFields DEF Loops, Acks, MonTimers
    <2>3. "periodic" \in t /\ ("refresh" \in r.t => "refresh" \in t) /\ r.owed \in BOOLEAN
        BY LooperFields
    <2> HIDE DEF z, l, t, a
    <2>4. z \in Loopers /\ z.l = l /\ z.t = t /\ z.a = a /\ z.owed = r.owed
        BY <2>1, <2>2, <2>3 DEF Loopers
    <2> QED
        BY <1>2, <2>2, <2>3, <2>4 DEF Awake, Scheduled, z
<1> QED
    BY <1>1, <1>2, LooperFields

\* Another reading is scheduled, by a command, at the panel, or for the filter.
LEMMA RefreshKeeps ==
    ASSUME NEW r \in Loopers, Scheduled(r)
    PROVE  LET z == ScheduleMonitorSnapshot(r)
           IN  /\ z \in Loopers /\ Awake(z) /\ z.l = r.l /\ z.a = r.a /\ z.owed = r.owed
               /\ r.l.started => "refresh" \in z.t
<1>1. CASE r.l.started
    <2> DEFINE t == r.t \cup {"refresh"}
               z == ScheduleMonitorSnapshot(r)
    <2>1. z = [r EXCEPT !.t = t]
        BY <1>1 DEF ScheduleMonitorSnapshot
    <2>2. t \in SUBSET MonTimers /\ "refresh" \in t /\ r.t \subseteq t
        BY LooperFields DEF MonTimers
    <2> HIDE DEF t, z
    <2>3. z \in Loopers /\ z.l = r.l /\ z.t = t /\ z.a = r.a /\ z.owed = r.owed
        BY <2>1, <2>2 DEF Loopers
    <2> QED
        BY <1>1, <2>2, <2>3 DEF Awake, Scheduled, z
<1>2. CASE ~r.l.started
    BY <1>2, LooperFields DEF ScheduleMonitorSnapshot, Awake
<1> QED
    BY <1>1, <1>2

LEMMA FilterQueryKeeps ==
    ASSUME NEW r \in Loopers, Awake(r), r.l.started
    PROVE  ScheduleFilterQuery(r) \in Loopers /\ Awake(ScheduleFilterQuery(r))
<1> DEFINE z == ScheduleFilterQuery(r)
           l == [r.l EXCEPT !.asked = TRUE]
           t == r.t \cup {"filter"}
<1>1. z = r \/ z = [l |-> l, t |-> t, a |-> r.a, owed |-> r.owed]
    BY LooperFields DEF ScheduleFilterQuery, Loopers, Loops, Acks
<1>2. /\ l \in Loops /\ l.started = r.l.started /\ l.inFlight = r.l.inFlight
      /\ t \in SUBSET MonTimers /\ \A x \in r.t : x \in t
    BY LooperFields DEF Loops, MonTimers
<1>3. r.a \in Acks /\ r.owed \in BOOLEAN
    BY LooperFields
<1> HIDE DEF z, l, t
<1>4. CASE z = [l |-> l, t |-> t, a |-> r.a, owed |-> r.owed]
    <2>1. z \in Loopers /\ z.l = l /\ z.t = t /\ z.a = r.a /\ z.owed = r.owed
        BY <1>2, <1>3, <1>4 DEF Loopers
    <2> QED
        BY <1>2, <2>1 DEF Awake, Scheduled, z
<1> QED
    BY <1>1, <1>4 DEF z

LEMMA NowIs ==
    ASSUME MonInv
    PROVE  /\ Now \in Loopers /\ Awake(Now) /\ Scheduled(Now) /\ Now.l = loop /\ Now.t = ticking
           /\ Now.a = acks /\ Now.owed = owed /\ loop \in Loops /\ acks \in Acks /\ owed \in BOOLEAN
           /\ ticking \in SUBSET MonTimers
           /\ power \in [last: Power \cup {"unknown"}, shown: Power \cup {"unknown"}, is: Power]
BY LooperFields DEF MonInv, Now, Awake

\* The commands and the panel change what is shown and what is.
LEMMA MonPowerTyped ==
    ASSUME MonInv, MonNext
    PROVE  power' \in [last: Power \cup {"unknown"}, shown: Power \cup {"unknown"}, is: Power]
<1> DEFINE P == [last: Power \cup {"unknown"}, shown: Power \cup {"unknown"}, is: Power]
<1>1. power \in P
    BY DEF MonInv
<1>2. CASE UNCHANGED power
    BY <1>1, <1>2
<1>3. CASE StateData
    <2>1. power.is \in Power /\ power' = [power EXCEPT !.last = power.is, !.shown = power.is]
        BY <1>1, <1>3 DEF StateData, PublishPower
    <2> QED
        BY <1>1, <2>1
<1>4. ASSUME NEW v \in Power, PanelUsed(v)
      PROVE  power' \in P
    BY <1>1, <1>4 DEF PanelUsed
<1>5. ASSUME NEW v \in Power, NEW obeys \in BOOLEAN, SetProperty(v, obeys)
      PROVE  power' \in P
    BY <1>1, <1>5 DEF SetProperty
<1> QED
    BY <1>2, <1>3, <1>4, <1>5
    DEF MonNext, Start, Stop, MonitorTimeout, PeriodicTimeout, RefreshTimeout, FilterTimeoutFires, OwnAck,
        PanelAck, IgnoreEnds

\* Steps that change what was started, or the acknowledgements, and nothing else.
LEMMA NowEdited ==
    ASSUME NEW l, NEW t, NEW a
    PROVE  /\ [Now EXCEPT !.l = l] = [l |-> l, t |-> ticking, a |-> acks, owed |-> owed]
           /\ [Now EXCEPT !.l = l, !.t = t] = [l |-> l, t |-> t, a |-> acks, owed |-> owed]
           /\ [Now EXCEPT !.a = a] = [l |-> loop, t |-> ticking, a |-> a, owed |-> owed]
<1>1. Now = [l |-> loop, t |-> ticking, a |-> acks, owed |-> owed]
    BY DEF Now
<1> DEFINE x == [Now EXCEPT !.l = l]
           y == [Now EXCEPT !.l = l, !.t = t]
           z == [Now EXCEPT !.a = a]
<1>2. x = [Now EXCEPT !.l = l] /\ y = [Now EXCEPT !.l = l, !.t = t] /\ z = [Now EXCEPT !.a = a]
    OBVIOUS
<1> HIDE DEF x, y, z
<1>3. x = [l |-> l, t |-> ticking, a |-> acks, owed |-> owed]
    BY <1>1, <1>2
<1>4. y = [l |-> l, t |-> t, a |-> acks, owed |-> owed]
    BY <1>1, <1>2
<1>5. z = [l |-> loop, t |-> ticking, a |-> a, owed |-> owed]
    BY <1>1, <1>2
<1> QED
    BY <1>3, <1>4, <1>5 DEF x, y, z

LEMMA NowSteps ==
    /\ [Now EXCEPT !.l.started = TRUE]
         = [l |-> [loop EXCEPT !.started = TRUE], t |-> ticking, a |-> acks, owed |-> owed]
    /\ [Now EXCEPT !.l.started = FALSE, !.l.over = TRUE, !.t = {}]
         = [l |-> [loop EXCEPT !.started = FALSE, !.over = TRUE], t |-> {}, a |-> acks, owed |-> owed]
    /\ [Now EXCEPT !.a.own = FALSE]
         = [l |-> loop, t |-> ticking, a |-> [acks EXCEPT !.own = FALSE], owed |-> owed]
    /\ [Now EXCEPT !.a.panel = FALSE]
         = [l |-> loop, t |-> ticking, a |-> [acks EXCEPT !.panel = FALSE], owed |-> owed]
<1>1. Now.l = loop /\ Now.a = acks
    BY DEF Now
<1>2. /\ [Now EXCEPT !.l.started = TRUE] = [Now EXCEPT !.l = [loop EXCEPT !.started = TRUE]]
      /\ [Now EXCEPT !.a.own = FALSE] = [Now EXCEPT !.a = [acks EXCEPT !.own = FALSE]]
      /\ [Now EXCEPT !.a.panel = FALSE] = [Now EXCEPT !.a = [acks EXCEPT !.panel = FALSE]]
    BY <1>1
<1>3. [Now EXCEPT !.l.started = FALSE, !.l.over = TRUE, !.t = {}]
         = [Now EXCEPT !.l = [loop EXCEPT !.started = FALSE, !.over = TRUE], !.t = {}]
    BY <1>1 DEF Now
<1>4. /\ [Now EXCEPT !.l = [loop EXCEPT !.started = TRUE]]
           = [l |-> [loop EXCEPT !.started = TRUE], t |-> ticking, a |-> acks, owed |-> owed]
      /\ [Now EXCEPT !.l = [loop EXCEPT !.started = FALSE, !.over = TRUE], !.t = {}]
           = [l |-> [loop EXCEPT !.started = FALSE, !.over = TRUE], t |-> {}, a |-> acks, owed |-> owed]
      /\ [Now EXCEPT !.a = [acks EXCEPT !.own = FALSE]]
           = [l |-> loop, t |-> ticking, a |-> [acks EXCEPT !.own = FALSE], owed |-> owed]
      /\ [Now EXCEPT !.a = [acks EXCEPT !.panel = FALSE]]
           = [l |-> loop, t |-> ticking, a |-> [acks EXCEPT !.panel = FALSE], owed |-> owed]
    BY NowEdited, Zenon
<1> QED
    BY <1>2, <1>3, <1>4, Zenon

\* A step leaves the loop awake.
LEMMA MonInvAfter ==
    ASSUME NEW r \in Loopers, Awake(r), Then(r),
           power' \in [last: Power \cup {"unknown"}, shown: Power \cup {"unknown"}, is: Power]
    PROVE  MonInv'
<1>1. Now' = r
    BY LooperFields DEF Now, Then
<1> QED
    BY <1>1 DEF MonInv

LEMMA MonStepKeeps ==
    ASSUME MonInv, MonNext
    PROVE  MonInv'
<1>1. /\ Now \in Loopers /\ Awake(Now) /\ loop \in Loops /\ acks \in Acks /\ owed \in BOOLEAN
      /\ ticking \in SUBSET MonTimers /\ Now = [l |-> loop, t |-> ticking, a |-> acks, owed |-> owed]
    BY NowIs DEF Now
<1>2. ASSUME NEW r \in Loopers, Awake(r), Then(r)
      PROVE  MonInv'
    BY <1>2, MonInvAfter, MonPowerTyped
<1>3. /\ loop.started /\ loop.inFlight => "monitor" \in ticking
      /\ loop.started /\ owed => "refresh" \in ticking
      /\ ~loop.started => ticking = {} /\ (loop.over \/ (~loop.inFlight /\ ~owed))
      /\ acks.own => acks.ignore
      /\ loop.started /\ ~loop.inFlight => "periodic" \in ticking \/ "refresh" \in ticking
    BY NowIs DEF Awake, Scheduled
<1>4. ASSUME NEW l \in Loops, NEW t \in SUBSET MonTimers, NEW a \in Acks, NEW o \in BOOLEAN
      PROVE  LET r == [l |-> l, t |-> t, a |-> a, owed |-> o]
             IN  r \in Loopers /\ r.l = l /\ r.t = t /\ r.a = a /\ r.owed = o
    BY DEF Loopers
<1>5. CASE Start
    <2> DEFINE l == [loop EXCEPT !.started = TRUE]
               r == [l |-> l, t |-> ticking, a |-> acks, owed |-> owed]
    <2>1. Then(RequestMonitorSnapshot(r)) /\ ~loop.started /\ ~loop.over
        BY <1>5, NowSteps DEF Start
    <2>2. l \in Loops /\ l.started /\ ~l.inFlight
        BY <1>1, <1>3, <2>1 DEF Loops
    <2> HIDE DEF l
    <2>3. r \in Loopers /\ r.l = l /\ r.t = ticking /\ r.a = acks /\ r.owed = owed
        BY <1>1, <1>4, <2>2
    <2> HIDE DEF r
    <2>4. Scheduled(r)
        BY <1>3, <2>1, <2>2, <2>3 DEF Scheduled
    <2> QED
        BY <1>2, <2>1, <2>3, <2>4, RequestKeeps
<1>6. CASE Stop
    <2> DEFINE l == [loop EXCEPT !.started = FALSE, !.over = TRUE]
               r == [l |-> l, t |-> {}, a |-> acks, owed |-> owed]
    <2>1. Then(r)
        BY <1>6, NowSteps DEF Stop
    <2>2. l \in Loops /\ ~l.started /\ l.over
        BY <1>1 DEF Loops
    <2> HIDE DEF l
    <2>3. r \in Loopers /\ r.l = l /\ r.t = {} /\ r.a = acks /\ r.owed = owed
        BY <1>1, <1>4, <2>2
    <2> HIDE DEF r
    <2>4. Awake(r)
        BY <1>3, <2>2, <2>3 DEF Awake, Scheduled
    <2> QED
        BY <1>2, <2>1, <2>3, <2>4
<1>7. CASE MonitorTimeout
    <2>1. Now.l.started
        BY <1>1, <1>3, <1>7 DEF MonitorTimeout
    <2> QED
        BY <1>1, <1>2, <1>7, <2>1, FinishKeepsLoop DEF MonitorTimeout
<1>8. CASE PeriodicTimeout
    <2> DEFINE t == ticking \ {"periodic"}
               r == [l |-> loop, t |-> t, a |-> acks, owed |-> owed]
    <2>1. Then(RequestMonitorSnapshot(r)) /\ loop.started
        BY <1>3, <1>8 DEF PeriodicTimeout, Now
    <2>2. /\ t \in SUBSET MonTimers /\ ("monitor" \in ticking => "monitor" \in t)
          /\ ("refresh" \in ticking => "refresh" \in t)
        BY <1>1
    <2> HIDE DEF t
    <2>3. r \in Loopers /\ r.l = loop /\ r.t = t /\ r.a = acks /\ r.owed = owed
        BY <1>1, <1>4, <2>2
    <2> HIDE DEF r
    <2>4. Scheduled(r)
        BY <1>3, <2>1, <2>2, <2>3 DEF Scheduled
    <2> QED
        BY <1>2, <2>1, <2>3, <2>4, RequestKeeps
<1>9. CASE RefreshTimeout
    <2> DEFINE t == ticking \ {"refresh"}
               r == [l |-> loop, t |-> t, a |-> acks, owed |-> owed]
    <2>1. /\ Then(IF loop.inFlight THEN ScheduleMonitorSnapshot(r) ELSE RequestMonitorSnapshot(r))
          /\ loop.started
        BY <1>3, <1>9 DEF RefreshTimeout, Now
    <2>2. /\ t \in SUBSET MonTimers /\ ("monitor" \in ticking => "monitor" \in t)
        BY <1>1
    <2> HIDE DEF t
    <2>3. r \in Loopers /\ r.l = loop /\ r.t = t /\ r.a = acks /\ r.owed = owed
        BY <1>1, <1>4, <2>2
    <2> HIDE DEF r
    <2>4. CASE loop.inFlight
        <3> DEFINE u == [l |-> loop, t |-> t \cup {"refresh"}, a |-> acks, owed |-> owed]
                   k == t \cup {"refresh"}
        <3>1. ScheduleMonitorSnapshot(r) = u
            BY <1>1, <2>1, <2>2, <2>3 DEF ScheduleMonitorSnapshot, Loopers, Loops, Acks
        <3>2. k \in SUBSET MonTimers /\ "refresh" \in k /\ ("monitor" \in ticking => "monitor" \in k)
            BY <2>2 DEF MonTimers
        <3>3. u \in Loopers /\ u.l = loop /\ u.t = k /\ u.a = acks /\ u.owed = owed
            BY <1>1, <1>4, <3>2
        <3> HIDE DEF u, k
        <3>4. Awake(u)
            BY <1>3, <2>1, <3>2, <3>3 DEF Awake, Scheduled
        <3> QED
            BY <1>2, <2>1, <2>4, <3>1, <3>3, <3>4
    <2>5. CASE ~loop.inFlight
        <3>1. Then(RequestMonitorSnapshot(r))
            BY <2>1, <2>5
        <3>2. RequestMonitorSnapshot(r) \in Loopers /\ Awake(RequestMonitorSnapshot(r))
            BY <2>1, <2>3, <2>5, RequestWakes
        <3> QED
            BY <1>2, <3>1, <3>2
    <2> QED
        BY <2>4, <2>5
<1>10. CASE FilterTimeoutFires
    <2> DEFINE t == ticking \ {"filter"}
               r == [l |-> loop, t |-> t, a |-> acks, owed |-> owed]
    <2>1. Then(r) /\ loop.started
        BY <1>3, <1>10 DEF FilterTimeoutFires, Now
    <2>2. t \in SUBSET MonTimers /\ \A x \in {"monitor", "refresh", "periodic"} : x \in ticking => x \in t
        BY <1>1
    <2> HIDE DEF t
    <2>3. r \in Loopers /\ r.l = loop /\ r.t = t /\ r.a = acks /\ r.owed = owed
        BY <1>1, <1>4, <2>2
    <2> HIDE DEF r
    <2>4. Awake(r)
        BY <1>3, <2>1, <2>2, <2>3 DEF Awake, Scheduled
    <2> QED
        BY <1>2, <2>1, <2>3, <2>4
<1>11. CASE StateData
    <2>1. Now.l.started /\ Then(ScheduleFilterQuery(FinishMonitorSnapshot(Now)))
        BY <1>1, <1>11 DEF StateData
    <2> QED
        BY <1>1, <1>2, <2>1, FinishKeepsLoop, FilterQueryKeeps
<1>12. ASSUME NEW a \in Acks, a.own => acks.own, a.ignore = acks.ignore,
              Then(Ack([l |-> loop, t |-> ticking, a |-> a, owed |-> owed]))
       PROVE  MonInv'
    <2> DEFINE r == [l |-> loop, t |-> ticking, a |-> a, owed |-> owed]
    <2>1. r \in Loopers /\ r.l = loop /\ r.t = ticking /\ r.a = a /\ r.owed = owed /\ Then(Ack(r))
        BY <1>1, <1>4, <1>12
    <2> HIDE DEF r
    <2>2. Awake(r) /\ Scheduled(r)
        BY <1>3, <1>12, <2>1 DEF Awake, Scheduled
    <2>3. Ack(r) = r \/ Ack(r) = ScheduleMonitorSnapshot(r)
        BY DEF Ack
    <2> QED
        BY <1>2, <2>1, <2>2, <2>3, RefreshKeeps
<1>13. CASE OwnAck
    <2>1. [acks EXCEPT !.own = FALSE] \in Acks
        BY <1>1 DEF Acks
    <2>2. Then(Ack([l |-> loop, t |-> ticking, a |-> [acks EXCEPT !.own = FALSE], owed |-> owed]))
        BY <1>13, NowSteps DEF OwnAck
    <2> QED
        BY <1>1, <1>12, <2>1, <2>2 DEF Acks
<1>14. CASE PanelAck
    <2>1. [acks EXCEPT !.panel = FALSE] \in Acks
        BY <1>1 DEF Acks
    <2>2. Then(Ack([l |-> loop, t |-> ticking, a |-> [acks EXCEPT !.panel = FALSE], owed |-> owed]))
        BY <1>14, NowSteps DEF PanelAck
    <2> QED
        BY <1>1, <1>12, <2>1, <2>2 DEF Acks
<1>15. ASSUME NEW a \in Acks, a.own => a.ignore, acks' = a, UNCHANGED <<loop, ticking, owed>>
       PROVE  MonInv'
    <2> DEFINE r == [l |-> loop, t |-> ticking, a |-> a, owed |-> owed]
    <2>1. r \in Loopers /\ r.l = loop /\ r.t = ticking /\ r.a = a /\ r.owed = owed
        BY <1>1, <1>4, <1>15
    <2> HIDE DEF r
    <2>2. Awake(r) /\ Then(r)
        BY <1>3, <1>15, <2>1 DEF Awake, Scheduled, Then
    <2> QED
        BY <1>2, <2>1, <2>2
<1>16. CASE IgnoreEnds
    <2> DEFINE a == [acks EXCEPT !.ignore = FALSE]
    <2>1. acks' = a /\ UNCHANGED <<loop, ticking, owed>> /\ ~acks.own
        BY <1>16 DEF IgnoreEnds
    <2>2. a \in Acks /\ a.own = acks.own
        BY <1>1 DEF Acks
    <2> QED
        BY <1>15, <2>1, <2>2
<1>17. ASSUME NEW v \in Power, PanelUsed(v)
       PROVE  MonInv'
    <2> DEFINE a == [acks EXCEPT !.panel = TRUE]
    <2>1. acks' = a /\ UNCHANGED <<loop, ticking, owed>>
        BY <1>17 DEF PanelUsed
    <2>2. a \in Acks /\ a.own = acks.own /\ a.ignore = acks.ignore
        BY <1>1 DEF Acks
    <2> QED
        BY <1>3, <1>15, <2>1, <2>2
<1>18. ASSUME NEW v \in Power, NEW obeys \in BOOLEAN, SetProperty(v, obeys)
       PROVE  MonInv'
    <2> DEFINE a == [acks EXCEPT !.panel = TRUE]
               u == ScheduleMonitorSnapshot(Now)
               z == [u EXCEPT !.owed = TRUE, !.a.panel = TRUE]
    <2>1. Then(z) /\ loop.started
        BY <1>18 DEF SetProperty
    <2>2. /\ u \in Loopers /\ Awake(u) /\ u.l = loop /\ u.a = acks /\ u.owed = owed
          /\ "refresh" \in u.t /\ u.t \in SUBSET MonTimers
        BY <1>1, <2>1, NowIs, RefreshKeeps, LooperFields
    <2>3. a \in Acks /\ a.own = acks.own /\ a.ignore = acks.ignore
        BY <1>1 DEF Acks
    <2>4. z = [u EXCEPT !.owed = TRUE, !.a = a]
        BY <2>2
    <2> HIDE DEF u, a, z
    <2>5. z \in Loopers /\ z.l = loop /\ z.t = u.t /\ z.a = a /\ z.owed = TRUE
        BY <2>2, <2>3, <2>4 DEF Loopers
    <2>6. Awake(z)
        BY <1>3, <2>1, <2>2, <2>3, <2>5 DEF Awake, Scheduled
    <2> QED
        BY <1>2, <2>1, <2>5, <2>6
<1> QED
    BY <1>5, <1>6, <1>7, <1>8, <1>9, <1>10, <1>11, <1>13, <1>14, <1>16, <1>17, <1>18 DEF MonNext

LEMMA MonInitHolds ==
    ASSUME MonInit
    PROVE  MonInv
<1>1. loop \in Loops /\ acks \in Acks /\ ticking = {} /\ owed = FALSE /\ ~acks.own /\ ~loop.started
      /\ ~loop.inFlight
    BY DEF MonInit, Loops, Acks
<1>2. Now \in Loopers /\ Now.l = loop /\ Now.t = {} /\ Now.a = acks /\ Now.owed = FALSE
    BY <1>1 DEF Now, Loopers
<1>3. power \in [last: Power \cup {"unknown"}, shown: Power \cup {"unknown"}, is: Power]
    BY DEF MonInit
<1> QED
    BY <1>1, <1>2, <1>3 DEF MonInv, Awake, Scheduled

LEMMA MonStutters ==
    ASSUME MonInv, UNCHANGED monVars
    PROVE  MonInv'
<1>1. Now' = Now /\ power' = power
    BY DEF Now, monVars
<1> QED
    BY <1>1 DEF MonInv

LEMMA MonInvShows ==
    ASSUME MonInv
    PROVE  MonTypeOK /\ LoopGoesOn
BY NowIs DEF MonTypeOK, LoopGoesOn, Loops, Acks, Awake, Scheduled

\* The second is not over when the acknowledgement of the loop's own request comes.
LEMMA OwnAckSchedulesNothing ==
    ASSUME MonInv, OwnAck
    PROVE  ticking' = ticking
<1> DEFINE a == [acks EXCEPT !.own = FALSE]
           r == [l |-> loop, t |-> ticking, a |-> a, owed |-> owed]
<1>1. Then(Ack(r)) /\ acks.own
    BY NowSteps DEF OwnAck
<1>2. a.ignore /\ r.l = loop /\ r.a = a /\ r.t = ticking
    BY <1>1, NowIs DEF Awake, Scheduled, Acks
<1> HIDE DEF a, r
<1>3. Ack(r) = r
    BY <1>2 DEF Ack
<1> QED
    BY <1>1, <1>2, <1>3 DEF Then

\* No other part of a step takes the acknowledgement of the loop's own request away.
LEMMA OwnKept ==
    ASSUME NEW r \in Loopers, r.a.own
    PROVE  /\ RequestMonitorSnapshot(r).a.own
           /\ FinishMonitorSnapshot(r).a.own /\ ScheduleMonitorSnapshot(r).a.own
           /\ ScheduleFilterQuery(r).a.own /\ Ack(r).a.own
<1>1. RequestMonitorSnapshot(r).a.own
    <2>1. CASE ~r.l.started \/ r.l.inFlight
        BY <2>1 DEF RequestMonitorSnapshot
    <2>2. CASE r.l.started /\ ~r.l.inFlight
        <3> DEFINE l == [r.l EXCEPT !.inFlight = TRUE]
                   t == (r.t \ {"periodic"}) \cup {"monitor"}
                   a == [r.a EXCEPT !.ignore = TRUE, !.own = TRUE]
                   z == RequestMonitorSnapshot(r)
        <3>1. a.own
            BY LooperFields DEF Acks
        <3>2. z = [l |-> l, t |-> t, a |-> a, owed |-> FALSE]
            BY <2>2, RequestIs
        <3> HIDE DEF z, l, t, a
        <3>3. z.a = a
            BY <3>2
        <3> QED
            BY <3>1, <3>3 DEF z
    <2> QED
        BY <2>1, <2>2
<1>2. FinishMonitorSnapshot(r).a.own
    <2>1. CASE ~r.l.inFlight
        BY <2>1 DEF FinishMonitorSnapshot
    <2>2. CASE r.l.inFlight
        <3> DEFINE f == [[r EXCEPT !.l.inFlight = FALSE, !.t = @ \ {"monitor"}, !.a.ignore = TRUE] EXCEPT !.a.own = TRUE]
                   g == [r EXCEPT !.l.inFlight = FALSE, !.t = @ \ {"monitor"}, !.a.ignore = TRUE]
        <3>1. FinishMonitorSnapshot(r) = SchedulePeriodicSnapshot(f)
            BY <2>2 DEF FinishMonitorSnapshot
        <3>2. g \in Loopers
            BY LooperFields DEF Loopers, Loops, Acks
        <3> HIDE DEF g
        <3>3. f = [g EXCEPT !.a.own = TRUE]
            BY DEF g
        <3> HIDE DEF f
        <3>4. f \in Loopers /\ f.a.own
            BY <3>2, <3>3 DEF Loopers, Acks
        <3>5. SchedulePeriodicSnapshot(f).a.own
            BY <3>4 DEF SchedulePeriodicSnapshot, Loopers
        <3> QED
            BY <3>1, <3>5
    <2> QED
        BY <2>1, <2>2
<1>3. ScheduleMonitorSnapshot(r).a.own
    BY DEF ScheduleMonitorSnapshot, Loopers
<1>4. ScheduleFilterQuery(r).a.own
    BY DEF ScheduleFilterQuery, Loopers
<1>5. Ack(r).a.own
    BY <1>3 DEF Ack
<1> QED
    BY <1>1, <1>2, <1>3, <1>4, <1>5

\* Only the acknowledgement itself is the end of it.
LEMMA OwnAckEnds ==
    ASSUME MonInv, MonNext, acks.own, ~acks'.own
    PROVE  OwnAck
<1>1. /\ Now \in Loopers /\ Now.a = acks /\ Now.l = loop /\ loop \in Loops /\ acks \in Acks
      /\ owed \in BOOLEAN /\ ticking \in SUBSET MonTimers
      /\ Now = [l |-> loop, t |-> ticking, a |-> acks, owed |-> owed]
    BY NowIs DEF Now
<1>2. ASSUME NEW r, Then(r)
      PROVE  ~r.a.own
    BY <1>2 DEF Then
<1>3. ASSUME NEW r \in Loopers, r.a = acks,
             Then(r) \/ Then(RequestMonitorSnapshot(r)) \/ Then(FinishMonitorSnapshot(r))
             \/ Then(ScheduleMonitorSnapshot(r))
      PROVE  FALSE
    BY <1>2, <1>3, OwnKept
<1>4. ASSUME NEW l \in Loops, NEW t \in SUBSET MonTimers, NEW a \in Acks
      PROVE  LET r == [l |-> l, t |-> t, a |-> a, owed |-> owed]
             IN  r \in Loopers /\ r.a = a
    BY <1>1 DEF Loopers
<1>5. CASE Start
    <2> DEFINE l == [loop EXCEPT !.started = TRUE]
               r == [l |-> l, t |-> ticking, a |-> acks, owed |-> owed]
    <2>1. Then(RequestMonitorSnapshot(r))
        BY <1>5, NowSteps DEF Start
    <2>2. l \in Loops
        BY <1>1 DEF Loops
    <2> HIDE DEF l
    <2>3. r \in Loopers /\ r.a = acks
        BY <1>1, <1>4, <2>2
    <2> QED
        BY <1>3, <2>1, <2>3
<1>6. CASE Stop
    <2> DEFINE l == [loop EXCEPT !.started = FALSE, !.over = TRUE]
               t == {}
               r == [l |-> l, t |-> t, a |-> acks, owed |-> owed]
    <2>1. Then(r)
        BY <1>6, NowSteps DEF Stop
    <2>2. l \in Loops /\ t \in SUBSET MonTimers
        BY <1>1 DEF Loops
    <2> HIDE DEF l, t
    <2>3. r \in Loopers /\ r.a = acks
        BY <1>1, <1>4, <2>2
    <2> QED
        BY <1>3, <2>1, <2>3
<1>7. CASE MonitorTimeout
    BY <1>1, <1>3, <1>7 DEF MonitorTimeout
<1>8. ASSUME NEW q
      PROVE  LET r == [Now EXCEPT !.t = @ \ {q}] IN r \in Loopers /\ r.a = acks
    BY <1>1 DEF Loopers
<1>9. CASE PeriodicTimeout
    BY <1>3, <1>8, <1>9 DEF PeriodicTimeout
<1>10. CASE RefreshTimeout
    <2> DEFINE r == [Now EXCEPT !.t = @ \ {"refresh"}]
    <2>1. Then(ScheduleMonitorSnapshot(r)) \/ Then(RequestMonitorSnapshot(r))
        BY <1>10 DEF RefreshTimeout
    <2>2. r \in Loopers /\ r.a = acks
        BY <1>8
    <2> HIDE DEF r
    <2> QED
        BY <1>3, <2>1, <2>2
<1>11. CASE FilterTimeoutFires
    BY <1>3, <1>8, <1>11 DEF FilterTimeoutFires
<1>12. CASE StateData
    <2> DEFINE r == FinishMonitorSnapshot(Now)
    <2>1. Then(ScheduleFilterQuery(r)) /\ loop.started
        BY <1>12 DEF StateData
    <2>2. r \in Loopers /\ r.a.own
        BY <1>1, <2>1, NowIs, FinishKeepsLoop, OwnKept
    <2> HIDE DEF r
    <2>3. ScheduleFilterQuery(r).a.own
        BY <2>2, OwnKept
    <2> QED
        BY <1>2, <2>1, <2>3
<1>13. CASE PanelAck
    <2> DEFINE a == [acks EXCEPT !.panel = FALSE]
               r == [l |-> loop, t |-> ticking, a |-> a, owed |-> owed]
    <2>1. Then(Ack(r))
        BY <1>13, NowSteps DEF PanelAck
    <2>2. a \in Acks /\ a.own
        BY <1>1 DEF Acks
    <2> HIDE DEF a
    <2>3. r \in Loopers /\ r.a = a
        BY <1>1, <1>4, <2>2
    <2> HIDE DEF r
    <2>4. Ack(r).a.own
        BY <2>2, <2>3, OwnKept
    <2> QED
        BY <1>2, <2>1, <2>4
<1>14. CASE IgnoreEnds
    BY <1>14 DEF IgnoreEnds
<1>15. ASSUME NEW v \in Power, PanelUsed(v)
       PROVE  FALSE
    BY <1>1, <1>15 DEF PanelUsed, Acks
<1>16. ASSUME NEW v \in Power, NEW obeys \in BOOLEAN, SetProperty(v, obeys)
       PROVE  FALSE
    <2> DEFINE u == ScheduleMonitorSnapshot(Now)
               z == [u EXCEPT !.owed = TRUE, !.a.panel = TRUE]
    <2>1. Then(z)
        BY <1>16 DEF SetProperty
    <2>2. u \in Loopers /\ u.a = acks
        BY <1>1, NowIs, RefreshKeeps
    <2> HIDE DEF u
    <2>3. z.a.own
        BY <1>1, <2>2 DEF Loopers, Acks
    <2> QED
        BY <1>2, <2>1, <2>3
<1> QED
    BY <1>5, <1>6, <1>7, <1>9, <1>10, <1>11, <1>12, <1>13, <1>14, <1>15, <1>16 DEF MonNext

-----------------------------------------------------------------------------
\* HaConnection.
\* The worlds that the operators of the connection work on.
HaWorlds ==
    [link : BOOLEAN, retained : [Appliances -> Retained],
     deliveries : SUBSET (Appliances \X (Properties \cup {"availability"})),
     memory : Memory, announcer : [Appliances -> Announcer \cup {NoAnnouncer}],
     trace : [Appliances -> SweepTrace]]

\* What an appliance has on the wire.
Coming(w, a) == {t \in Properties \cup {"availability"} : <<a, t>> \in w.deliveries}

\* All of a world that is about one appliance is as in another world.
SameOf(w, z, a) ==
    /\ z.link = w.link /\ z.retained[a] = w.retained[a] /\ Coming(z, a) = Coming(w, a)
    /\ (a \in z.memory.published <=> a \in w.memory.published)
    /\ z.memory.live[a] = w.memory.live[a]
    /\ (a \in z.memory.sweeping <=> a \in w.memory.sweeping)
    /\ z.announcer[a] = w.announcer[a] /\ z.trace[a] = w.trace[a]

\* What no connection takes from an appliance: one nobody speaks for is offline, or that it
\* is online is on its way to where it is noticed; a sweep has what it must clear on the
\* wire; and what is fresh and referred to is retained.
SweptFor(w, a) ==
    /\ w.link => /\ w.announcer[a] = NoAnnouncer
                      /\ (a \in w.memory.published \/ "availability" \notin Coming(w, a))
                      => w.retained[a].available # "online"
                 /\ w.memory.live[a] # {} /\ w.trace[a].swept = w.memory.live[a]
                      => \A p \in w.retained[a].values :
                             p \in w.memory.live[a] \cup w.trace[a].fresh
                             \/ (a \in w.memory.sweeping /\ p \in Coming(w, a))
    /\ ~w.link => w.memory.live[a] = {} \/ w.trace[a].swept = {}
    /\ w.trace[a].fresh \cap w.memory.live[a] \subseteq w.retained[a].values

\* What announcing brings about.
ShownFor(w, a) ==
    w.link /\ w.announcer[a].announced =>
        /\ w.retained[a].available = "online" /\ a \in w.memory.published
        /\ w.announcer[a].valid => w.memory.live[a] = w.announcer[a].entities

HaInv ==
    /\ HaWorld \in HaWorlds
    /\ \A a \in Appliances : SweptFor(HaWorld, a) /\ ShownFor(HaWorld, a)

LEMMA HaFields ==
    ASSUME NEW w \in HaWorlds
    PROVE  /\ w.link \in BOOLEAN /\ w.retained \in [Appliances -> Retained]
           /\ w.deliveries \subseteq Appliances \X (Properties \cup {"availability"})
           /\ w.memory \in Memory /\ w.announcer \in [Appliances -> Announcer \cup {NoAnnouncer}]
           /\ w.trace \in [Appliances -> SweepTrace]
           /\ w.memory.published \subseteq Appliances /\ w.memory.sweeping \subseteq Appliances
           /\ w.memory.live \in [Appliances -> Entities \cup {{}}]
BY DEF HaWorlds, Memory

LEMMA SameKeeps ==
    ASSUME NEW w, NEW z, NEW a \in Appliances, SameOf(w, z, a)
    PROVE  /\ SweptFor(w, a) => SweptFor(z, a)
           /\ ShownFor(w, a) => ShownFor(z, a)
<1>1. SweptFor(w, a) => SweptFor(z, a)
    BY DEF SameOf, SweptFor
<1>2. ShownFor(w, a) => ShownFor(z, a)
    BY DEF SameOf, ShownFor
<1> QED
    BY <1>1, <1>2

LEMMA AvailabilityIs ==
    ASSUME NEW w \in HaWorlds, NEW a \in Appliances, NEW status \in {"online", "offline"},
           NEW arrives \in BOOLEAN
    PROVE  LET z == PublishAvailability(w, a, status, arrives) IN
           /\ z \in HaWorlds /\ z.link = w.link /\ z.deliveries = w.deliveries
           /\ z.announcer = w.announcer /\ z.trace = w.trace
           /\ z.memory.live = w.memory.live /\ z.memory.sweeping = w.memory.sweeping
           /\ z.memory.published = w.memory.published \cup {a}
           /\ z.retained[a].values = w.retained[a].values
           /\ z.retained[a].available = IF arrives THEN status ELSE w.retained[a].available
           /\ \A b \in Appliances \ {a} : z.retained[b] = w.retained[b]
<1> DEFINE u == [w EXCEPT !.memory.published = @ \cup {a}]
           r == IF arrives THEN status ELSE w.retained[a].available
           z == [u EXCEPT !.retained[a].available = r]
<1>1. /\ u \in HaWorlds /\ u.link = w.link /\ u.deliveries = w.deliveries
      /\ u.announcer = w.announcer /\ u.trace = w.trace /\ u.retained = w.retained
      /\ u.memory.live = w.memory.live /\ u.memory.sweeping = w.memory.sweeping
      /\ u.memory.published = w.memory.published \cup {a}
    BY DEF HaWorlds, Memory
<1>2. PublishAvailability(w, a, status, arrives) = z
    BY DEF PublishAvailability
<1>3. r \in {"none", "online", "offline"}
    BY HaFields DEF Retained
<1> HIDE DEF u, r
<1>4. /\ z \in HaWorlds /\ z.link = u.link /\ z.deliveries = u.deliveries
      /\ z.announcer = u.announcer /\ z.trace = u.trace /\ z.memory = u.memory
      /\ z.retained[a].values = u.retained[a].values /\ z.retained[a].available = r
      /\ \A b \in Appliances \ {a} : z.retained[b] = u.retained[b]
    <2> DEFINE q == [u.retained[a] EXCEPT !.available = r]
               f == [u.retained EXCEPT ![a] = q]
    <2>1. q \in Retained /\ q.values = u.retained[a].values /\ q.available = r
        BY <1>1, <1>3, HaFields DEF Retained
    <2>2. z = [u EXCEPT !.retained = f]
        OBVIOUS
    <2> HIDE DEF q, z
    <2>3. f \in [Appliances -> Retained] /\ f[a] = q /\ \A b \in Appliances \ {a} : f[b] = u.retained[b]
        BY <1>1, <2>1, HaFields
    <2> HIDE DEF f
    <2>4. /\ z \in HaWorlds /\ z.link = u.link /\ z.deliveries = u.deliveries
          /\ z.announcer = u.announcer /\ z.trace = u.trace /\ z.memory = u.memory /\ z.retained = f
        BY <1>1, <2>2, <2>3 DEF HaWorlds
    <2> QED
        BY <2>1, <2>3, <2>4
<1> HIDE DEF z
<1> QED
    BY <1>1, <1>2, <1>4 DEF r

\* Entities, or none.
KnownEntities == Entities \cup {{}}

LEMMA LiveSet ==
    ASSUME NEW w \in HaWorlds, NEW a \in Appliances, NEW e \in KnownEntities
    PROVE  LET z == [w EXCEPT !.memory.live[a] = e] IN
           /\ z \in HaWorlds /\ z.link = w.link /\ z.retained = w.retained
           /\ z.deliveries = w.deliveries /\ z.announcer = w.announcer /\ z.trace = w.trace
           /\ z.memory.published = w.memory.published /\ z.memory.sweeping = w.memory.sweeping
           /\ z.memory.live[a] = e
           /\ \A b \in Appliances \ {a} : z.memory.live[b] = w.memory.live[b]
<1> DEFINE l == [w.memory.live EXCEPT ![a] = e]
           m == [w.memory EXCEPT !.live = l]
           z == [w EXCEPT !.memory = m]
<1>1. l \in [Appliances -> Entities \cup {{}}] /\ l[a] = e /\ \A b \in Appliances \ {a} : l[b] = w.memory.live[b]
    BY HaFields DEF KnownEntities
<1>2. [w EXCEPT !.memory.live[a] = e] = z
    OBVIOUS
<1> HIDE DEF l
<1>3. m \in Memory /\ m.published = w.memory.published /\ m.sweeping = w.memory.sweeping /\ m.live = l
    BY <1>1, HaFields DEF Memory
<1> HIDE DEF m
<1>4. /\ z \in HaWorlds /\ z.link = w.link /\ z.retained = w.retained
      /\ z.deliveries = w.deliveries /\ z.announcer = w.announcer /\ z.trace = w.trace /\ z.memory = m
    BY <1>3 DEF HaWorlds
<1> HIDE DEF z
<1> QED
    BY <1>1, <1>2, <1>3, <1>4

LEMMA FreshSet ==
    ASSUME NEW w \in HaWorlds, NEW a \in Appliances, NEW f \in SUBSET Properties
    PROVE  LET z == [w EXCEPT !.trace[a].fresh = f] IN
           /\ z \in HaWorlds /\ z.link = w.link /\ z.retained = w.retained
           /\ z.deliveries = w.deliveries /\ z.announcer = w.announcer /\ z.memory = w.memory
           /\ z.trace[a].fresh = f /\ z.trace[a].swept = w.trace[a].swept
           /\ \A b \in Appliances \ {a} : z.trace[b] = w.trace[b]
<1> DEFINE s == [w.trace[a] EXCEPT !.fresh = f]
           t == [w.trace EXCEPT ![a] = s]
           z == [w EXCEPT !.trace = t]
<1>1. s \in SweepTrace /\ s.fresh = f /\ s.swept = w.trace[a].swept
    BY HaFields DEF SweepTrace
<1>2. [w EXCEPT !.trace[a].fresh = f] = z
    OBVIOUS
<1> HIDE DEF s
<1>3. t \in [Appliances -> SweepTrace] /\ t[a] = s /\ \A b \in Appliances \ {a} : t[b] = w.trace[b]
    BY <1>1, HaFields
<1> HIDE DEF t
<1>4. /\ z \in HaWorlds /\ z.link = w.link /\ z.retained = w.retained
      /\ z.deliveries = w.deliveries /\ z.announcer = w.announcer /\ z.memory = w.memory /\ z.trace = t
    BY <1>3 DEF HaWorlds
<1> HIDE DEF z
<1> QED
    BY <1>1, <1>2, <1>3, <1>4

LEMMA SweptSet ==
    ASSUME NEW w \in HaWorlds, NEW a \in Appliances, NEW e \in KnownEntities
    PROVE  LET z == [w EXCEPT !.trace[a].swept = e] IN
           /\ z \in HaWorlds /\ z.link = w.link /\ z.retained = w.retained
           /\ z.deliveries = w.deliveries /\ z.announcer = w.announcer /\ z.memory = w.memory
           /\ z.trace[a].swept = e /\ z.trace[a].fresh = w.trace[a].fresh
           /\ \A b \in Appliances \ {a} : z.trace[b] = w.trace[b]
<1> DEFINE s == [w.trace[a] EXCEPT !.swept = e]
           t == [w.trace EXCEPT ![a] = s]
           z == [w EXCEPT !.trace = t]
<1>1. s \in SweepTrace /\ s.swept = e /\ s.fresh = w.trace[a].fresh
    BY HaFields DEF SweepTrace, KnownEntities
<1>2. [w EXCEPT !.trace[a].swept = e] = z
    OBVIOUS
<1> HIDE DEF s
<1>3. t \in [Appliances -> SweepTrace] /\ t[a] = s /\ \A b \in Appliances \ {a} : t[b] = w.trace[b]
    BY <1>1, HaFields
<1> HIDE DEF t
<1>4. /\ z \in HaWorlds /\ z.link = w.link /\ z.retained = w.retained
      /\ z.deliveries = w.deliveries /\ z.announcer = w.announcer /\ z.memory = w.memory /\ z.trace = t
    BY <1>3 DEF HaWorlds
<1> HIDE DEF z
<1> QED
    BY <1>1, <1>2, <1>3, <1>4

\* A sweep begins with the discovery of other entities than before.
LEMMA SweepIs ==
    ASSUME NEW w \in HaWorlds, NEW a \in Appliances, NEW e \in Entities, w.memory.live[a] # e
    PROVE  LET z == SweepRetainedState(w, a, e) IN
           /\ z \in HaWorlds /\ z.link = w.link /\ z.retained = w.retained /\ z.announcer = w.announcer
           /\ z.memory.published = w.memory.published /\ z.memory.sweeping = w.memory.sweeping \cup {a}
           /\ z.memory.live[a] = e /\ z.trace[a].fresh = w.trace[a].fresh \cap e \cap w.memory.live[a]
           /\ z.trace[a].swept = (IF a \in w.memory.sweeping \/ ~w.link THEN {} ELSE e)
           /\ z.deliveries = w.deliveries \cup
                 (IF a \notin w.memory.sweeping /\ w.link THEN {a} \X w.retained[a].values ELSE {})
           /\ \A b \in Appliances \ {a} :
                 z.memory.live[b] = w.memory.live[b] /\ z.trace[b] = w.trace[b]
<1> DEFINE f == w.trace[a].fresh \cap e \cap w.memory.live[a]
           l == [w EXCEPT !.memory.live[a] = e]
           k == [l EXCEPT !.trace[a].fresh = f]
           d == IF w.link THEN {a} \X w.retained[a].values ELSE {}
           u == [k EXCEPT !.deliveries = @ \cup d]
           v == [u EXCEPT !.memory.sweeping = @ \cup {a}]
<1>1. f \in SUBSET Properties
    BY HaFields DEF SweepTrace
<1>2. /\ l \in HaWorlds /\ l.link = w.link /\ l.retained = w.retained
      /\ l.deliveries = w.deliveries /\ l.announcer = w.announcer /\ l.trace = w.trace
      /\ l.memory.published = w.memory.published /\ l.memory.sweeping = w.memory.sweeping
      /\ l.memory.live[a] = e
      /\ \A b \in Appliances \ {a} : l.memory.live[b] = w.memory.live[b]
    BY LiveSet DEF KnownEntities
<1> HIDE DEF f
<1>3. SweepRetainedState(w, a, e) =
        IF a \in w.memory.sweeping THEN [k EXCEPT !.trace[a].swept = {}]
        ELSE [v EXCEPT !.trace[a].swept = IF w.link THEN e ELSE {}]
    <2> DEFINE y == [w EXCEPT !.memory.live[a] = e, !.trace[a].fresh = @ \cap e \cap w.memory.live[a]]
    <2>1. y = k
        BY <1>2 DEF f
    <2>4. SweepRetainedState(w, a, e) =
            IF a \in w.memory.sweeping THEN [y EXCEPT !.trace[a].swept = {}]
            ELSE [Subscribe(y, a) EXCEPT !.memory.sweeping = @ \cup {a},
                                         !.trace[a].swept = IF w.link THEN e ELSE {}]
        BY DEF SweepRetainedState
    <2> HIDE DEF y
    <2>2. k.link = w.link /\ k.retained = w.retained
        BY <1>2, <1>1, FreshSet
    <2> HIDE DEF k
    <2>3. Subscribe(k, a) = u
        BY <2>2 DEF Subscribe
    <2> HIDE DEF u
    <2> QED
        BY <2>1, <2>3, <2>4
<1> HIDE DEF l
<1>4. /\ k \in HaWorlds /\ k.link = l.link /\ k.retained = l.retained
      /\ k.deliveries = l.deliveries /\ k.announcer = l.announcer /\ k.memory = l.memory
      /\ k.trace[a].fresh = f
      /\ \A b \in Appliances \ {a} : k.trace[b] = l.trace[b]
    BY <1>1, <1>2, FreshSet
<1> HIDE DEF k
<1>5. d \subseteq Appliances \X (Properties \cup {"availability"})
    BY HaFields DEF Retained
<1> HIDE DEF d
<1>6. /\ u \in HaWorlds /\ u.link = k.link /\ u.retained = k.retained /\ u.trace = k.trace
      /\ u.deliveries = k.deliveries \cup d /\ u.announcer = k.announcer /\ u.memory = k.memory
    BY <1>4, <1>5 DEF HaWorlds
<1> HIDE DEF u
<1>7. /\ v \in HaWorlds /\ v.link = u.link /\ v.retained = u.retained /\ v.trace = u.trace
      /\ v.deliveries = u.deliveries /\ v.announcer = u.announcer
      /\ v.memory.published = u.memory.published /\ v.memory.live = u.memory.live
      /\ v.memory.sweeping = u.memory.sweeping \cup {a}
    BY <1>6 DEF HaWorlds, Memory
<1> HIDE DEF v
<1>8. CASE a \in w.memory.sweeping
    <2> DEFINE s == {}
               z == [k EXCEPT !.trace[a].swept = s]
    <2>1. /\ z \in HaWorlds /\ z.link = k.link /\ z.retained = k.retained
          /\ z.deliveries = k.deliveries /\ z.announcer = k.announcer /\ z.memory = k.memory
          /\ z.trace[a].swept = s /\ z.trace[a].fresh = k.trace[a].fresh
          /\ \A b \in Appliances \ {a} : z.trace[b] = k.trace[b]
        <3>1. s \in KnownEntities
            BY DEF KnownEntities
        <3> HIDE DEF s
        <3> QED
            BY <1>4, <3>1, SweptSet
    <2>2. SweepRetainedState(w, a, e) = z
        BY <1>3, <1>8
    <2> HIDE DEF z
    <2>3. w.memory.sweeping \cup {a} = w.memory.sweeping
        BY <1>8
    <2> QED
        BY <1>2, <1>4, <1>8, <2>1, <2>2, <2>3 DEF f
<1>9. CASE a \notin w.memory.sweeping
    <2> DEFINE s == IF w.link THEN e ELSE {}
               z == [v EXCEPT !.trace[a].swept = s]
    <2>1. /\ z \in HaWorlds /\ z.link = v.link /\ z.retained = v.retained
          /\ z.deliveries = v.deliveries /\ z.announcer = v.announcer /\ z.memory = v.memory
          /\ z.trace[a].swept = s /\ z.trace[a].fresh = v.trace[a].fresh
          /\ \A b \in Appliances \ {a} : z.trace[b] = v.trace[b]
        <3>1. s \in KnownEntities
            BY DEF KnownEntities
        <3> HIDE DEF s
        <3> QED
            BY <1>7, <3>1, SweptSet
    <2>2. SweepRetainedState(w, a, e) = z
        BY <1>3, <1>9
    <2> HIDE DEF z
    <2> QED
        BY <1>2, <1>4, <1>6, <1>7, <1>9, <2>1, <2>2 DEF f, d
<1> QED
    BY <1>8, <1>9

\* An announcement shows its appliance, begins a sweep if it has other entities than before,
\* and does nothing to other appliances.
LEMMA AnnouncedIs ==
    ASSUME NEW w \in HaWorlds, NEW a \in Appliances, NEW arrives \in BOOLEAN, w.link => arrives,
           SweptFor(w, a)
    PROVE  LET z == Announced(w, a, arrives) IN
           /\ z \in HaWorlds /\ SweptFor(z, a) /\ ShownFor(z, a)
           /\ z.announcer = w.announcer /\ z.link = w.link
           /\ w.deliveries \subseteq z.deliveries
           /\ w.memory.published \subseteq z.memory.published
           /\ w.memory.sweeping \subseteq z.memory.sweeping
           /\ \A b \in Appliances \ {a} : SameOf(w, z, b)
<1> DEFINE n == w.announcer[a]
           o == PublishAvailability(w, a, "online", arrives)
           s == SweepRetainedState(o, a, n.entities)
           z == Announced(w, a, arrives)
<1>1. z = IF ~n.announced THEN w ELSE IF n.valid THEN s ELSE o
    BY DEF Announced
<1>2. CASE ~n.announced
    <2>1. z = w
        BY <1>1, <1>2
    <2>2. ShownFor(w, a)
        BY <1>2 DEF ShownFor
    <2>3. \A b \in Appliances : SameOf(w, w, b)
        BY DEF SameOf
    <2> HIDE DEF z
    <2> QED
        BY <2>1, <2>2, <2>3 DEF z
<1>3. CASE n.announced
    <2>1. n \in Announcer /\ n.entities \in Entities /\ n # NoAnnouncer
        BY <1>3, HaFields DEF Announcer, NoAnnouncer
    <2>2. /\ o \in HaWorlds /\ o.link = w.link /\ o.deliveries = w.deliveries
          /\ o.announcer = w.announcer /\ o.trace = w.trace
          /\ o.memory.live = w.memory.live /\ o.memory.sweeping = w.memory.sweeping
          /\ o.memory.published = w.memory.published \cup {a}
          /\ o.retained[a].values = w.retained[a].values
          /\ o.retained[a].available = IF arrives THEN "online" ELSE w.retained[a].available
          /\ \A b \in Appliances \ {a} : o.retained[b] = w.retained[b]
        BY AvailabilityIs
    <2> HIDE DEF o, z
    <2>3. Coming(o, a) = Coming(w, a)
        BY <2>2 DEF Coming
    <2>4. SweptFor(o, a)
        BY <2>1, <2>2, <2>3 DEF SweptFor
    <2>5. \A b \in Appliances \ {a} : SameOf(w, o, b)
        BY <2>2 DEF SameOf, Coming
    <2>6. o.link => o.retained[a].available = "online" /\ a \in o.memory.published
        BY <2>2
    <2>7. CASE ~n.valid \/ w.memory.live[a] = n.entities
        <3>1. z = o
            <4>1. w.memory.live[a] = n.entities => s = o
                BY <2>2 DEF SweepRetainedState
            <4> QED
                BY <1>1, <1>3, <2>7, <4>1
        <3>2. ShownFor(o, a)
            BY <2>2, <2>6, <2>7 DEF ShownFor
        <3> QED
            BY <2>2, <2>4, <2>5, <3>1, <3>2 DEF z
    <2>8. CASE n.valid /\ w.memory.live[a] # n.entities
        <3>1. z = s
            BY <1>1, <1>3, <2>8
        <3> DEFINE e == n.entities
        <3>2. /\ s \in HaWorlds /\ s.link = o.link /\ s.retained = o.retained /\ s.announcer = o.announcer
              /\ s.memory.published = o.memory.published /\ s.memory.sweeping = o.memory.sweeping \cup {a}
              /\ s.memory.live[a] = e /\ s.trace[a].fresh = o.trace[a].fresh \cap e \cap o.memory.live[a]
              /\ s.trace[a].swept = (IF a \in o.memory.sweeping \/ ~o.link THEN {} ELSE e)
              /\ s.deliveries = o.deliveries \cup
                    (IF a \notin o.memory.sweeping /\ o.link THEN {a} \X o.retained[a].values ELSE {})
              /\ \A b \in Appliances \ {a} :
                    s.memory.live[b] = o.memory.live[b] /\ s.trace[b] = o.trace[b]
            <4>1. e \in Entities /\ o.memory.live[a] # e
                BY <2>1, <2>2, <2>8
            <4> HIDE DEF e
            <4>2. LET y == SweepRetainedState(o, a, e) IN
                  /\ y \in HaWorlds /\ y.link = o.link /\ y.retained = o.retained /\ y.announcer = o.announcer
                  /\ y.memory.published = o.memory.published /\ y.memory.sweeping = o.memory.sweeping \cup {a}
                  /\ y.memory.live[a] = e /\ y.trace[a].fresh = o.trace[a].fresh \cap e \cap o.memory.live[a]
                  /\ y.trace[a].swept = (IF a \in o.memory.sweeping \/ ~o.link THEN {} ELSE e)
                  /\ y.deliveries = o.deliveries \cup
                        (IF a \notin o.memory.sweeping /\ o.link THEN {a} \X o.retained[a].values ELSE {})
                  /\ \A b \in Appliances \ {a} :
                        y.memory.live[b] = o.memory.live[b] /\ y.trace[b] = o.trace[b]
                BY <2>2, <4>1, SweepIs
            <4> QED
                BY <4>2 DEF e
        <3>3. e # {} /\ e \subseteq Properties
            <4>1. e \in Entities
                BY <2>1
            <4> HIDE DEF e
            <4> QED
                BY <4>1 DEF Entities
        <3> HIDE DEF s, e
        <3>4. ShownFor(s, a)
            BY <2>2, <2>6, <3>2 DEF ShownFor, e
        <3>5. \A b \in Appliances \ {a} : SameOf(o, s, b)
            BY <3>2 DEF SameOf, Coming
        <3>6. \A b \in Appliances \ {a} : SameOf(w, s, b)
            BY <2>5, <3>5 DEF SameOf
        <3>7. SweptFor(s, a)
            <4>1. s.announcer[a] # NoAnnouncer
                BY <2>1, <2>2, <3>2
            <4>2. s.trace[a].swept = s.memory.live[a] =>
                    /\ a \in s.memory.sweeping
                    /\ \A p \in s.retained[a].values : p \in Coming(s, a)
                <5>1. ASSUME s.trace[a].swept = s.memory.live[a], NEW p \in s.retained[a].values
                      PROVE  p \in Coming(s, a)
                    <6>1. a \notin o.memory.sweeping /\ o.link
                        BY <3>2, <3>3, <5>1
                    <6>2. p \in Properties
                        BY <3>2, HaFields DEF Retained
                    <6> QED
                        BY <3>2, <5>1, <6>1, <6>2 DEF Coming
                <5> QED
                    BY <3>2, <5>1
            <4>3. ~s.link => s.trace[a].swept = {}
                BY <3>2
            <4>4. s.trace[a].fresh \cap s.memory.live[a] \subseteq s.retained[a].values
                BY <2>4, <3>2 DEF SweptFor
            <4> QED
                BY <4>1, <4>2, <4>3, <4>4 DEF SweptFor
        <3> QED
            BY <2>2, <3>1, <3>2, <3>4, <3>6, <3>7 DEF z
    <2> QED
        BY <2>7, <2>8
<1> QED
    BY <1>2, <1>3

\* A discovery shows every announced appliance, each as if it were the only one.
LEMMA PublishAllIs ==
    ASSUME NEW w \in HaWorlds, w.link, \A a \in Appliances : SweptFor(w, a)
    PROVE  LET z == PublishAll(w) IN
           /\ z \in HaWorlds /\ \A a \in Appliances : SweptFor(z, a) /\ ShownFor(z, a)
<1> DEFINE after == [a \in Appliances |-> Announced(w, a, TRUE)]
           r == [a \in Appliances |-> after[a].retained[a]]
           d == UNION {after[a].deliveries : a \in Appliances}
           p == UNION {after[a].memory.published : a \in Appliances}
           s == UNION {after[a].memory.sweeping : a \in Appliances}
           l == [a \in Appliances |-> after[a].memory.live[a]]
           m == [published |-> p, live |-> l, sweeping |-> s]
           t == [a \in Appliances |-> after[a].trace[a]]
           z == [w EXCEPT !.retained = r, !.deliveries = d, !.memory = m, !.trace = t]
<1>1. PublishAll(w) = z
    BY DEF PublishAll
<1>2. ASSUME NEW a \in Appliances
      PROVE  /\ after[a] \in HaWorlds /\ SweptFor(after[a], a) /\ ShownFor(after[a], a)
             /\ after[a].announcer = w.announcer /\ after[a].link = w.link
             /\ w.deliveries \subseteq after[a].deliveries
             /\ w.memory.published \subseteq after[a].memory.published
             /\ w.memory.sweeping \subseteq after[a].memory.sweeping
             /\ \A b \in Appliances \ {a} : SameOf(w, after[a], b)
    <2> DEFINE y == Announced(w, a, TRUE)
    <2>1. after[a] = y
        OBVIOUS
    <2>2. /\ y \in HaWorlds /\ SweptFor(y, a) /\ ShownFor(y, a)
          /\ y.announcer = w.announcer /\ y.link = w.link
          /\ w.deliveries \subseteq y.deliveries
          /\ w.memory.published \subseteq y.memory.published
          /\ w.memory.sweeping \subseteq y.memory.sweeping
          /\ \A b \in Appliances \ {a} : SameOf(w, y, b)
        BY AnnouncedIs
    <2> HIDE DEF y, after
    <2> QED
        BY <2>1, <2>2
<1> HIDE DEF after
<1>11. ASSUME NEW a \in Appliances
       PROVE  /\ after[a].retained[a] \in Retained /\ after[a].trace[a] \in SweepTrace
              /\ after[a].memory.live[a] \in Entities \cup {{}}
              /\ after[a].deliveries \subseteq Appliances \X (Properties \cup {"availability"})
              /\ after[a].memory.published \subseteq Appliances
              /\ after[a].memory.sweeping \subseteq Appliances
    <2> DEFINE y == after[a]
    <2>1. y \in HaWorlds
        BY <1>2
    <2> HIDE DEF y
    <2>2. /\ y.retained[a] \in Retained /\ y.trace[a] \in SweepTrace
          /\ y.memory.live[a] \in Entities \cup {{}}
          /\ y.deliveries \subseteq Appliances \X (Properties \cup {"availability"})
          /\ y.memory.published \subseteq Appliances /\ y.memory.sweeping \subseteq Appliances
        BY <2>1, HaFields
    <2> QED
        BY <2>2 DEF y
<1>3. r \in [Appliances -> Retained] /\ t \in [Appliances -> SweepTrace]
      /\ l \in [Appliances -> Entities \cup {{}}]
    BY <1>11
<1>4. d \subseteq Appliances \X (Properties \cup {"availability"}) /\ p \subseteq Appliances /\ s \subseteq Appliances
    BY <1>11
<1>5. /\ r = [a \in Appliances |-> after[a].retained[a]] /\ l = [a \in Appliances |-> after[a].memory.live[a]]
      /\ t = [a \in Appliances |-> after[a].trace[a]]
    OBVIOUS
<1>6. /\ \A x : x \in d <=> \E a \in Appliances : x \in after[a].deliveries
      /\ \A x : x \in p <=> \E a \in Appliances : x \in after[a].memory.published
      /\ \A x : x \in s <=> \E a \in Appliances : x \in after[a].memory.sweeping
    OBVIOUS
<1> HIDE DEF r, d, p, s, l, t
<1>7. m \in Memory /\ m.published = p /\ m.live = l /\ m.sweeping = s
    BY <1>3, <1>4 DEF Memory
<1> HIDE DEF m
<1>8. /\ z \in HaWorlds /\ z.link = w.link /\ z.retained = r /\ z.deliveries = d /\ z.memory = m
      /\ z.announcer = w.announcer /\ z.trace = t
    BY <1>3, <1>4, <1>7 DEF HaWorlds
<1> HIDE DEF z
<1>9. ASSUME NEW a \in Appliances
      PROVE  SameOf(after[a], z, a)
    <2>1. Coming(z, a) = Coming(after[a], a)
        <3>1. ASSUME NEW x \in Properties \cup {"availability"}
              PROVE  <<a, x>> \in d <=> <<a, x>> \in after[a].deliveries
            <4>1. ASSUME NEW b \in Appliances \ {a}, <<a, x>> \in after[b].deliveries
                  PROVE  <<a, x>> \in after[a].deliveries
                <5>1. Coming(after[b], a) = Coming(w, a)
                    BY <1>2 DEF SameOf
                <5>2. x \in Coming(after[b], a)
                    BY <4>1 DEF Coming
                <5>3. <<a, x>> \in w.deliveries
                    BY <5>1, <5>2 DEF Coming
                <5> QED
                    BY <1>2, <5>3
            <4> QED
                BY <1>6, <4>1
        <3> QED
            BY <1>8, <3>1 DEF Coming
    <2>2. a \in p <=> a \in after[a].memory.published
        <3>1. ASSUME NEW b \in Appliances \ {a}, a \in after[b].memory.published
              PROVE  a \in after[a].memory.published
            <4>1. a \in w.memory.published
                BY <1>2, <3>1 DEF SameOf
            <4> QED
                BY <1>2, <4>1
        <3> QED
            BY <1>6, <3>1
    <2>3. a \in s <=> a \in after[a].memory.sweeping
        <3>1. ASSUME NEW b \in Appliances \ {a}, a \in after[b].memory.sweeping
              PROVE  a \in after[a].memory.sweeping
            <4>1. a \in w.memory.sweeping
                BY <1>2, <3>1 DEF SameOf
            <4> QED
                BY <1>2, <4>1
        <3> QED
            BY <1>6, <3>1
    <2>4. r[a] = after[a].retained[a] /\ l[a] = after[a].memory.live[a] /\ t[a] = after[a].trace[a]
        BY <1>5
    <2>5. z.announcer[a] = after[a].announcer[a] /\ z.link = after[a].link
        BY <1>2, <1>8
    <2> QED
        BY <1>7, <1>8, <2>1, <2>2, <2>3, <2>4, <2>5 DEF SameOf
<1>10. ASSUME NEW a \in Appliances
       PROVE  SweptFor(z, a) /\ ShownFor(z, a)
    BY <1>2, <1>9, SameKeeps
<1> QED
    BY <1>1, <1>8, <1>10

LEMMA HaInvAfter ==
    ASSUME NEW w \in HaWorlds, HaBecomes(w), \A a \in Appliances : SweptFor(w, a) /\ ShownFor(w, a)
    PROVE  HaInv'
<1>1. /\ HaWorld'.link = w.link /\ HaWorld'.retained = w.retained
      /\ HaWorld'.deliveries = w.deliveries /\ HaWorld'.memory = w.memory
      /\ HaWorld'.announcer = w.announcer /\ HaWorld'.trace = w.trace
    BY DEF HaBecomes, HaWorld
<1>2. HaWorld' \in HaWorlds
    BY HaFields DEF HaBecomes, HaWorld, HaWorlds
<1>3. \A a \in Appliances : SweptFor(HaWorld', a) /\ ShownFor(HaWorld', a)
    <2> DEFINE z == HaWorld'
    <2>1. /\ z.link = w.link /\ z.retained = w.retained /\ z.deliveries = w.deliveries
          /\ z.memory = w.memory /\ z.announcer = w.announcer /\ z.trace = w.trace
        BY <1>1
    <2> HIDE DEF z
    <2>2. \A a \in Appliances : SameOf(w, z, a)
        BY <2>1 DEF SameOf, Coming
    <2>3. \A a \in Appliances : SweptFor(z, a) /\ ShownFor(z, a)
        BY <2>2, SameKeeps
    <2> QED
        BY <2>3 DEF z
<1> QED
    BY <1>2, <1>3 DEF HaInv, SweptFor, ShownFor, Coming

LEMMA HaInitHolds ==
    ASSUME HaInit
    PROVE  HaInv
<1>1. NoMemory \in Memory /\ NoMemory.published = {} /\ NoMemory.sweeping = {}
      /\ \A a \in Appliances : NoMemory.live[a] = {}
    BY DEF NoMemory, Memory
<1>2. \A a \in Appliances : haTrace[a] \in SweepTrace /\ haTrace[a].fresh = {}
    BY DEF HaInit, SweepTrace
<1>3. HaWorld \in HaWorlds
    <2>1. haTrace \in [Appliances -> SweepTrace] /\ announcer \in [Appliances -> Announcer \cup {NoAnnouncer}]
        BY <1>2 DEF HaInit
    <2> QED
        BY <1>1, <2>1 DEF HaInit, HaWorld, HaWorlds
<1>4. /\ HaWorld.link = FALSE /\ HaWorld.memory = NoMemory /\ HaWorld.trace = haTrace
    BY DEF HaWorld, HaInit
<1> QED
    BY <1>1, <1>2, <1>3, <1>4 DEF HaInv, SweptFor, ShownFor

LEMMA RetainedSet ==
    ASSUME NEW w \in HaWorlds, NEW a \in Appliances, NEW q \in Retained
    PROVE  LET z == [w EXCEPT !.retained[a] = q] IN
           /\ z \in HaWorlds /\ z.link = w.link /\ z.trace = w.trace
           /\ z.deliveries = w.deliveries /\ z.announcer = w.announcer /\ z.memory = w.memory
           /\ z.retained[a] = q
           /\ \A b \in Appliances \ {a} : z.retained[b] = w.retained[b]
<1> DEFINE f == [w.retained EXCEPT ![a] = q]
           z == [w EXCEPT !.retained = f]
<1>1. f \in [Appliances -> Retained] /\ f[a] = q /\ \A b \in Appliances \ {a} : f[b] = w.retained[b]
    BY HaFields
<1>2. [w EXCEPT !.retained[a] = q] = z
    OBVIOUS
<1> HIDE DEF f
<1>3. /\ z \in HaWorlds /\ z.link = w.link /\ z.trace = w.trace
      /\ z.deliveries = w.deliveries /\ z.announcer = w.announcer /\ z.memory = w.memory /\ z.retained = f
    BY <1>1 DEF HaWorlds
<1> HIDE DEF z
<1> QED
    BY <1>1, <1>2, <1>3

LEMMA AnnouncerSet ==
    ASSUME NEW w \in HaWorlds, NEW a \in Appliances, NEW n \in Announcer \cup {NoAnnouncer}
    PROVE  LET z == [w EXCEPT !.announcer[a] = n] IN
           /\ z \in HaWorlds /\ z.link = w.link /\ z.trace = w.trace
           /\ z.deliveries = w.deliveries /\ z.retained = w.retained /\ z.memory = w.memory
           /\ z.announcer[a] = n
           /\ \A b \in Appliances \ {a} : z.announcer[b] = w.announcer[b]
<1> DEFINE f == [w.announcer EXCEPT ![a] = n]
           z == [w EXCEPT !.announcer = f]
<1>1. /\ f \in [Appliances -> Announcer \cup {NoAnnouncer}] /\ f[a] = n
      /\ \A b \in Appliances \ {a} : f[b] = w.announcer[b]
    BY HaFields
<1>2. [w EXCEPT !.announcer[a] = n] = z
    OBVIOUS
<1> HIDE DEF f
<1>3. /\ z \in HaWorlds /\ z.link = w.link /\ z.trace = w.trace
      /\ z.deliveries = w.deliveries /\ z.retained = w.retained /\ z.memory = w.memory /\ z.announcer = f
    BY <1>1 DEF HaWorlds
<1> HIDE DEF z
<1> QED
    BY <1>1, <1>2, <1>3

\* A change that is about one appliance.
LEMMA OneChanges ==
    ASSUME HaInv, NEW a \in Appliances, NEW z \in HaWorlds, HaBecomes(z),
           SweptFor(z, a), ShownFor(z, a), \A b \in Appliances \ {a} : SameOf(HaWorld, z, b)
    PROVE  HaInv'
<1>1. ASSUME NEW b \in Appliances \ {a}
      PROVE  SweptFor(z, b) /\ ShownFor(z, b)
    BY <1>1, SameKeeps DEF HaInv
<1> QED
    BY <1>1, HaInvAfter

LEMMA ConnectionKeeps ==
    ASSUME HaInv, Connected \/ Disconnected \/ HaOnline
    PROVE  HaInv'
<1>1. HaWorld \in HaWorlds /\ \A a \in Appliances : SweptFor(HaWorld, a) /\ ShownFor(HaWorld, a)
    BY DEF HaInv
<1>2. /\ HaWorld.link = haLink /\ HaWorld.retained = retained /\ HaWorld.deliveries = deliveries
      /\ HaWorld.memory = memory /\ HaWorld.announcer = announcer /\ HaWorld.trace = haTrace
    BY DEF HaWorld
<1> HIDE DEF HaWorld
<1>3. CASE Connected
    <2> DEFINE online == {a \in Appliances : retained[a].available = "online"}
               d == (online \X {"availability"}) \cup UNION {{a} \X retained[a].values : a \in memory.sweeping}
               m == [memory EXCEPT !.published = {}]
               w == [HaWorld EXCEPT !.link = TRUE, !.memory = m, !.deliveries = d]
    <2>1. ~haLink /\ HaBecomes(PublishAll(w))
        BY <1>3 DEF Connected, ConnectedOnto
    <2>2. d \subseteq Appliances \X (Properties \cup {"availability"})
        <3>1. \A a \in memory.sweeping : a \in Appliances /\ retained[a].values \subseteq Properties
            BY <1>1, <1>2, HaFields DEF Retained
        <3> QED
            BY <3>1
    <2>3. \A a \in online : <<a, "availability">> \in d
        OBVIOUS
    <2> HIDE DEF d
    <2>4. m \in Memory /\ m.published = {} /\ m.live = memory.live
        BY <1>1, <1>2, HaFields DEF Memory
    <2> HIDE DEF m
    <2>5. /\ w \in HaWorlds /\ w.link /\ w.memory = m /\ w.deliveries = d /\ w.retained = retained
          /\ w.announcer = announcer /\ w.trace = haTrace
        BY <1>1, <1>2, <2>2, <2>4 DEF HaWorlds
    <2> HIDE DEF w
    <2>6. ASSUME NEW a \in Appliances
          PROVE  SweptFor(w, a)
        <3>1. /\ memory.live[a] = {} \/ haTrace[a].swept = {}
              /\ haTrace[a].fresh \cap memory.live[a] \subseteq retained[a].values
            BY <1>1, <1>2, <2>1 DEF SweptFor
        <3>2. w.memory.live[a] = memory.live[a]
            BY <2>4, <2>5
        <3>3. w.memory.live[a] # {} => w.trace[a].swept # w.memory.live[a]
            BY <2>5, <3>1, <3>2
        <3>4. "availability" \notin Coming(w, a) => w.retained[a].available # "online"
            BY <2>3, <2>5 DEF Coming
        <3>5. a \notin w.memory.published
            BY <2>4, <2>5
        <3>6. w.trace[a].fresh \cap w.memory.live[a] \subseteq w.retained[a].values
            BY <2>5, <3>1, <3>2
        <3> QED
            BY <2>5, <3>3, <3>4, <3>5, <3>6 DEF SweptFor
    <2>7. /\ PublishAll(w) \in HaWorlds
          /\ \A a \in Appliances : SweptFor(PublishAll(w), a) /\ ShownFor(PublishAll(w), a)
        BY <2>5, <2>6, PublishAllIs
    <2> QED
        BY <2>1, <2>7, HaInvAfter
<1>4. CASE HaOnline
    <2>1. HaWorld.link /\ HaBecomes(PublishAll(HaWorld))
        BY <1>2, <1>4 DEF HaOnline
    <2>2. /\ PublishAll(HaWorld) \in HaWorlds
          /\ \A a \in Appliances : SweptFor(PublishAll(HaWorld), a) /\ ShownFor(PublishAll(HaWorld), a)
        BY <1>1, <2>1, PublishAllIs
    <2> QED
        BY <2>1, <2>2, HaInvAfter
<1>5. CASE Disconnected
    <2> DEFINE l == NoMemory.live
               m == [[memory EXCEPT !.live = l] EXCEPT !.sweeping = {}]
               z == [HaWorld EXCEPT !.link = FALSE, !.deliveries = {}, !.memory = m]
    <2>1. l \in [Appliances -> Entities \cup {{}}] /\ \A a \in Appliances : l[a] = {}
        BY DEF NoMemory
    <2>2. HaBecomes([HaWorld EXCEPT !.link = FALSE, !.deliveries = {},
                                    !.memory.live = NoMemory.live, !.memory.sweeping = {}])
        BY <1>5 DEF Disconnected
    <2>3. HaBecomes(z)
        <3>1. z = [HaWorld EXCEPT !.link = FALSE, !.deliveries = {}, !.memory.live = NoMemory.live,
                                  !.memory.sweeping = {}]
            BY <1>1, <1>2 DEF HaWorlds
        <3> HIDE DEF z
        <3> QED
            BY <2>2, <3>1
    <2> HIDE DEF l
    <2>4. m \in Memory /\ m.live = l
        BY <1>1, <1>2, <2>1, HaFields DEF Memory
    <2> HIDE DEF m
    <2>5. z \in HaWorlds /\ z.link = FALSE /\ z.memory = m
        BY <1>1, <2>4 DEF HaWorlds
    <2> HIDE DEF z
    <2>6. \A a \in Appliances : SweptFor(z, a) /\ ShownFor(z, a)
        BY <2>1, <2>4, <2>5 DEF SweptFor, ShownFor
    <2> QED
        BY <2>3, <2>5, <2>6, HaInvAfter
<1> QED
    BY <1>3, <1>4, <1>5

\* What arrives late clears what nobody speaks for, and nothing else.
LEMMA ClearAvailabilityKeeps ==
    ASSUME HaAssumption, HaInv, NEW a \in Appliances, ClearAvailability(a)
    PROVE  HaInv'
<1> DEFINE w == [HaWorld EXCEPT !.deliveries = @ \ {<<a, "availability">>}]
           q == [w.retained[a] EXCEPT !.available = "offline"]
           y == [w EXCEPT !.retained[a] = q]
           z == IF a \in memory.published THEN w ELSE y
<1>1. HaWorld \in HaWorlds /\ SweptFor(HaWorld, a) /\ ShownFor(HaWorld, a)
    BY DEF HaInv
<1>2. HaBecomes(z) /\ HaWorld.memory = memory
    BY DEF ClearAvailability, HaWorld
<1> HIDE DEF HaWorld
<1>3. /\ w \in HaWorlds /\ w.link = HaWorld.link /\ w.trace = HaWorld.trace
      /\ w.retained = HaWorld.retained /\ w.announcer = HaWorld.announcer /\ w.memory = HaWorld.memory
      /\ w.deliveries = HaWorld.deliveries \ {<<a, "availability">>}
    BY <1>1 DEF HaWorlds
<1> HIDE DEF w
<1>4. q \in Retained /\ q.values = w.retained[a].values /\ q.available = "offline"
    BY <1>3, HaFields DEF Retained
<1> HIDE DEF q
<1>5. /\ y \in HaWorlds /\ y.link = w.link /\ y.trace = w.trace
      /\ y.deliveries = w.deliveries /\ y.announcer = w.announcer /\ y.memory = w.memory
      /\ y.retained[a] = q
      /\ \A b \in Appliances \ {a} : y.retained[b] = w.retained[b]
    BY <1>3, <1>4, RetainedSet
<1> HIDE DEF y
<1>6. /\ z \in HaWorlds /\ z.link = HaWorld.link /\ z.trace = HaWorld.trace
      /\ z.announcer = HaWorld.announcer /\ z.memory = HaWorld.memory
      /\ z.deliveries = HaWorld.deliveries \ {<<a, "availability">>}
      /\ z.retained[a].values = HaWorld.retained[a].values
      /\ IF a \in memory.published THEN z.retained[a] = HaWorld.retained[a]
         ELSE z.retained[a].available = "offline"
      /\ \A b \in Appliances \ {a} : z.retained[b] = HaWorld.retained[b]
    BY <1>3, <1>4, <1>5
<1> HIDE DEF z
<1>7. \A p \in Properties : p \in Coming(z, a) <=> p \in Coming(HaWorld, a)
    BY <1>6 DEF Coming, HaAssumption
<1>8. HaWorld.retained[a].values \subseteq Properties
    BY <1>1, HaFields DEF Retained
<1>9. SweptFor(z, a)
    BY <1>1, <1>2, <1>6, <1>7, <1>8 DEF SweptFor
<1>10. ShownFor(z, a)
    BY <1>1, <1>2, <1>6 DEF ShownFor
<1>11. \A b \in Appliances \ {a} : SameOf(HaWorld, z, b)
    BY <1>6 DEF SameOf, Coming
<1> QED
    BY <1>2, <1>6, <1>9, <1>10, <1>11, OneChanges

LEMMA ClearIfOrphanedKeeps ==
    ASSUME HaAssumption, HaInv, NEW a \in Appliances, NEW p \in Properties, ClearIfOrphaned(a, p)
    PROVE  HaInv'
<1> DEFINE w == [HaWorld EXCEPT !.deliveries = @ \ {<<a, p>>}]
           q == [w.retained[a] EXCEPT !.values = @ \ {p}]
           y == [w EXCEPT !.retained[a] = q]
           kept == a \notin memory.sweeping \/ p \in memory.live[a]
           z == IF kept THEN w ELSE y
<1>1. HaWorld \in HaWorlds /\ SweptFor(HaWorld, a) /\ ShownFor(HaWorld, a)
    BY DEF HaInv
<1>2. HaBecomes(z) /\ HaWorld.memory = memory
    BY DEF ClearIfOrphaned, HaWorld
<1> HIDE DEF HaWorld
<1>3. /\ w \in HaWorlds /\ w.link = HaWorld.link /\ w.trace = HaWorld.trace
      /\ w.retained = HaWorld.retained /\ w.announcer = HaWorld.announcer /\ w.memory = HaWorld.memory
      /\ w.deliveries = HaWorld.deliveries \ {<<a, p>>}
    BY <1>1 DEF HaWorlds
<1> HIDE DEF w
<1>4. q \in Retained /\ q.values = w.retained[a].values \ {p} /\ q.available = w.retained[a].available
    BY <1>3, HaFields DEF Retained
<1> HIDE DEF q
<1>5. /\ y \in HaWorlds /\ y.link = w.link /\ y.trace = w.trace
      /\ y.deliveries = w.deliveries /\ y.announcer = w.announcer /\ y.memory = w.memory
      /\ y.retained[a] = q
      /\ \A b \in Appliances \ {a} : y.retained[b] = w.retained[b]
    BY <1>3, <1>4, RetainedSet
<1> HIDE DEF y
<1>6. /\ z \in HaWorlds /\ z.link = HaWorld.link /\ z.trace = HaWorld.trace
      /\ z.announcer = HaWorld.announcer /\ z.memory = HaWorld.memory
      /\ z.deliveries = HaWorld.deliveries \ {<<a, p>>}
      /\ z.retained[a].available = HaWorld.retained[a].available
      /\ IF kept THEN z.retained[a].values = HaWorld.retained[a].values
         ELSE z.retained[a].values = HaWorld.retained[a].values \ {p}
      /\ \A b \in Appliances \ {a} : z.retained[b] = HaWorld.retained[b]
    BY <1>3, <1>4, <1>5
<1>7. HaWorld.memory.live = memory.live /\ HaWorld.memory.sweeping = memory.sweeping
    BY <1>2
<1> HIDE DEF z
<1>8. \A x \in Properties \cup {"availability"} :
        x # p => (x \in Coming(z, a) <=> x \in Coming(HaWorld, a))
    BY <1>6 DEF Coming
<1>9. SweptFor(z, a)
    <2>1. /\ HaWorld.retained[a].values \subseteq Properties /\ "availability" # p
          /\ z.retained[a].values \subseteq HaWorld.retained[a].values
        BY <1>1, <1>6, HaFields DEF Retained, HaAssumption
    <2>2. "availability" \in Coming(z, a) <=> "availability" \in Coming(HaWorld, a)
        BY <1>8, <2>1
    <2>3. ASSUME z.link, z.memory.live[a] # {}, z.trace[a].swept = z.memory.live[a],
                 NEW x \in z.retained[a].values
          PROVE  x \in z.memory.live[a] \cup z.trace[a].fresh
                 \/ (a \in z.memory.sweeping /\ x \in Coming(z, a))
        <3>1. x \in HaWorld.memory.live[a] \cup HaWorld.trace[a].fresh
              \/ (a \in HaWorld.memory.sweeping /\ x \in Coming(HaWorld, a))
            BY <1>1, <1>6, <2>1, <2>3 DEF SweptFor
        <3>2. x = p => kept
            BY <1>6, <2>3
        <3> QED
            BY <1>6, <1>7, <1>8, <2>1, <3>1, <3>2
    <2>4. z.trace[a].fresh \cap z.memory.live[a] \subseteq z.retained[a].values
        BY <1>1, <1>6, <1>7 DEF SweptFor
    <2>5. z.link => (z.announcer[a] = NoAnnouncer
                         /\ (a \in z.memory.published \/ "availability" \notin Coming(z, a))
                         => z.retained[a].available # "online")
        BY <1>1, <1>6, <2>2 DEF SweptFor
    <2>6. ~z.link => z.memory.live[a] = {} \/ z.trace[a].swept = {}
        BY <1>1, <1>6 DEF SweptFor
    <2> QED
        BY <2>3, <2>4, <2>5, <2>6 DEF SweptFor
<1>10. ShownFor(z, a)
    BY <1>1, <1>6 DEF ShownFor
<1>11. \A b \in Appliances \ {a} : SameOf(HaWorld, z, b)
    BY <1>6 DEF SameOf, Coming
<1> QED
    BY <1>2, <1>6, <1>9, <1>10, <1>11, OneChanges

\* When the window closes over a connection, nothing that it waited for is on the wire.
LEMMA SweepTimerKeeps ==
    ASSUME HaInv, NEW a \in Appliances, SweepTimer(a)
    PROVE  HaInv'
<1> DEFINE z == [HaWorld EXCEPT !.memory.sweeping = @ \ {a}]
<1>1. HaWorld \in HaWorlds /\ SweptFor(HaWorld, a) /\ ShownFor(HaWorld, a)
    BY DEF HaInv
<1>2. /\ HaBecomes(z) /\ HaWorld.memory = memory
      /\ HaWorld.link => \A p \in Properties : <<a, p>> \notin HaWorld.deliveries
    BY DEF SweepTimer, HaWorld
<1> HIDE DEF HaWorld
<1>3. /\ z \in HaWorlds /\ z.link = HaWorld.link /\ z.trace = HaWorld.trace
      /\ z.retained = HaWorld.retained /\ z.announcer = HaWorld.announcer
      /\ z.deliveries = HaWorld.deliveries
      /\ z.memory.live = HaWorld.memory.live /\ z.memory.published = HaWorld.memory.published
      /\ z.memory.sweeping = HaWorld.memory.sweeping \ {a}
    BY <1>1 DEF HaWorlds, Memory
<1> HIDE DEF z
<1>4. Coming(z, a) = Coming(HaWorld, a) /\ (z.link => \A p \in Properties : p \notin Coming(HaWorld, a))
    BY <1>2, <1>3 DEF Coming
<1>5. HaWorld.retained[a].values \subseteq Properties
    BY <1>1, HaFields DEF Retained
<1>6. SweptFor(z, a)
    BY <1>1, <1>3, <1>4, <1>5 DEF SweptFor
<1>7. ShownFor(z, a)
    BY <1>1, <1>3 DEF ShownFor
<1>8. \A b \in Appliances \ {a} : SameOf(HaWorld, z, b)
    BY <1>3 DEF SameOf, Coming
<1> QED
    BY <1>2, <1>3, <1>6, <1>7, <1>8, OneChanges

\* Handlers.
LEMMA NewDeviceKeeps ==
    ASSUME HaInv, NEW a \in Appliances, NEW e \in Entities, NEW v \in BOOLEAN, NewDevice(a, e, v)
    PROVE  HaInv'
<1> DEFINE n == [entities |-> e, valid |-> v, announced |-> FALSE]
           z == [HaWorld EXCEPT !.announcer[a] = n]
<1>1. HaWorld \in HaWorlds /\ SweptFor(HaWorld, a)
    BY DEF HaInv
<1>2. HaBecomes(z)
    BY DEF NewDevice
<1>3. n \in Announcer /\ n # NoAnnouncer /\ ~n.announced
    <2>1. n \in Announcer /\ n.entities = e /\ ~n.announced
        BY DEF Announcer
    <2>2. NoAnnouncer.entities = {} /\ e # {}
        BY DEF NoAnnouncer, Entities
    <2> QED
        BY <2>1, <2>2
<1> HIDE DEF HaWorld, n
<1>4. /\ z \in HaWorlds /\ z.link = HaWorld.link /\ z.trace = HaWorld.trace
      /\ z.deliveries = HaWorld.deliveries /\ z.retained = HaWorld.retained /\ z.memory = HaWorld.memory
      /\ z.announcer[a] = n
      /\ \A b \in Appliances \ {a} : z.announcer[b] = HaWorld.announcer[b]
    BY <1>1, <1>3, AnnouncerSet
<1> HIDE DEF z
<1>5. SweptFor(z, a) /\ ShownFor(z, a)
    BY <1>1, <1>3, <1>4 DEF SweptFor, ShownFor, Coming
<1>6. \A b \in Appliances \ {a} : SameOf(HaWorld, z, b)
    BY <1>4 DEF SameOf, Coming
<1> QED
    BY <1>2, <1>4, <1>5, <1>6, OneChanges

LEMMA AnnounceKeeps ==
    ASSUME HaInv, NEW a \in Appliances, Announce(a)
    PROVE  HaInv'
<1> DEFINE n == [HaWorld.announcer[a] EXCEPT !.announced = TRUE]
           w == [HaWorld EXCEPT !.announcer[a] = n]
<1>1. HaWorld \in HaWorlds /\ SweptFor(HaWorld, a)
    BY DEF HaInv
<1>2. PICK arrives \in Arrives(HaWorld) : HaBecomes(Announced(w, a, arrives))
    BY DEF Announce
<1>3. HaWorld.announcer[a] # NoAnnouncer
    BY DEF Announce, HaWorld
<1>4. arrives \in BOOLEAN /\ (HaWorld.link => arrives)
    BY <1>2 DEF Arrives
<1> HIDE DEF HaWorld
<1>5. n \in Announcer /\ n # NoAnnouncer
    <2>1. HaWorld.announcer[a] \in Announcer
        BY <1>1, <1>3, HaFields
    <2>2. n \in Announcer /\ n.announced = TRUE
        BY <2>1 DEF Announcer
    <2>3. NoAnnouncer.announced = FALSE
        BY DEF NoAnnouncer
    <2> QED
        BY <2>2, <2>3
<1> HIDE DEF n
<1>6. /\ w \in HaWorlds /\ w.link = HaWorld.link /\ w.trace = HaWorld.trace
      /\ w.deliveries = HaWorld.deliveries /\ w.retained = HaWorld.retained /\ w.memory = HaWorld.memory
      /\ w.announcer[a] = n
      /\ \A b \in Appliances \ {a} : w.announcer[b] = HaWorld.announcer[b]
    BY <1>1, <1>5, AnnouncerSet
<1> HIDE DEF w
<1>7. SweptFor(w, a)
    BY <1>1, <1>5, <1>6 DEF SweptFor, Coming
<1>8. \A b \in Appliances \ {a} : SameOf(HaWorld, w, b)
    BY <1>6 DEF SameOf, Coming
<1> DEFINE z == Announced(w, a, arrives)
<1>9. z \in HaWorlds /\ SweptFor(z, a) /\ ShownFor(z, a) /\ \A b \in Appliances \ {a} : SameOf(w, z, b)
    BY <1>4, <1>6, <1>7, AnnouncedIs
<1>10. HaBecomes(z)
    BY <1>2
<1> HIDE DEF z
<1>11. \A b \in Appliances \ {a} : SameOf(HaWorld, z, b)
    BY <1>8, <1>9 DEF SameOf
<1> QED
    BY <1>9, <1>10, <1>11, OneChanges

LEMMA PublishPropertyKeeps ==
    ASSUME HaInv, NEW a \in Appliances, NEW p \in Properties, PublishProperty(a, p)
    PROVE  HaInv'
<1> DEFINE q == [HaWorld.retained[a] EXCEPT !.values = @ \cup {p}]
           y == [HaWorld EXCEPT !.retained[a] = q]
           f == HaWorld.trace[a].fresh \cup {p}
           z == [y EXCEPT !.trace[a].fresh = f]
<1>1. HaWorld \in HaWorlds /\ SweptFor(HaWorld, a) /\ ShownFor(HaWorld, a)
    BY DEF HaInv
<1>2. HaBecomes([HaWorld EXCEPT !.retained[a].values = @ \cup {p}, !.trace[a].fresh = @ \cup {p}])
      \/ HaBecomes(HaWorld)
    BY DEF PublishProperty
<1> HIDE DEF HaWorld
<1>3. q \in Retained /\ q.values = HaWorld.retained[a].values \cup {p}
      /\ q.available = HaWorld.retained[a].available
    BY <1>1, HaFields DEF Retained
<1>4. f \in SUBSET Properties
    BY <1>1, HaFields DEF SweepTrace
<1>5. HaBecomes(z) \/ HaBecomes(HaWorld)
    <2>1. z = [HaWorld EXCEPT !.retained[a].values = @ \cup {p}, !.trace[a].fresh = @ \cup {p}]
        BY <1>1 DEF HaWorlds
    <2> HIDE DEF z
    <2> QED
        BY <1>2, <2>1
<1> HIDE DEF q, f
<1>6. /\ y \in HaWorlds /\ y.link = HaWorld.link /\ y.trace = HaWorld.trace
      /\ y.deliveries = HaWorld.deliveries /\ y.announcer = HaWorld.announcer
      /\ y.memory = HaWorld.memory /\ y.retained[a] = q
      /\ \A b \in Appliances \ {a} : y.retained[b] = HaWorld.retained[b]
    BY <1>1, <1>3, RetainedSet
<1> HIDE DEF y
<1>7. /\ z \in HaWorlds /\ z.link = y.link /\ z.retained = y.retained
      /\ z.deliveries = y.deliveries /\ z.announcer = y.announcer /\ z.memory = y.memory
      /\ z.trace[a].fresh = f /\ z.trace[a].swept = y.trace[a].swept
      /\ \A b \in Appliances \ {a} : z.trace[b] = y.trace[b]
    BY <1>4, <1>6, FreshSet
<1> HIDE DEF z
<1>8. SweptFor(z, a)
    BY <1>1, <1>3, <1>6, <1>7 DEF SweptFor, Coming, f
<1>9. ShownFor(z, a)
    BY <1>1, <1>3, <1>6, <1>7 DEF ShownFor
<1>10. \A b \in Appliances \ {a} : SameOf(HaWorld, z, b)
    BY <1>6, <1>7 DEF SameOf, Coming
<1>11. CASE HaBecomes(z)
    BY <1>7, <1>8, <1>9, <1>10, <1>11, OneChanges
<1>12. CASE HaBecomes(HaWorld)
    BY <1>12, HaInvAfter DEF HaInv
<1> QED
    BY <1>5, <1>11, <1>12

LEMMA DropDeviceKeeps ==
    ASSUME HaInv, NEW a \in Appliances, DropDevice(a)
    PROVE  HaInv'
<1>1. HaWorld \in HaWorlds /\ SweptFor(HaWorld, a) /\ ShownFor(HaWorld, a)
    BY DEF HaInv
<1>2. PICK arrives \in Arrives(HaWorld) :
        HaBecomes([PublishAvailability(HaWorld, a, "offline", arrives) EXCEPT !.announcer[a] = NoAnnouncer])
    BY DEF DropDevice
<1>3. arrives \in BOOLEAN /\ (HaWorld.link => arrives)
    BY <1>2 DEF Arrives
<1> HIDE DEF HaWorld
<1> DEFINE o == PublishAvailability(HaWorld, a, "offline", arrives)
           n == NoAnnouncer
           z == [o EXCEPT !.announcer[a] = n]
<1>4. /\ o \in HaWorlds /\ o.link = HaWorld.link /\ o.deliveries = HaWorld.deliveries
      /\ o.announcer = HaWorld.announcer /\ o.trace = HaWorld.trace
      /\ o.memory.live = HaWorld.memory.live /\ o.memory.sweeping = HaWorld.memory.sweeping
      /\ o.memory.published = HaWorld.memory.published \cup {a}
      /\ o.retained[a].values = HaWorld.retained[a].values
      /\ o.retained[a].available = IF arrives THEN "offline" ELSE HaWorld.retained[a].available
      /\ \A b \in Appliances \ {a} : o.retained[b] = HaWorld.retained[b]
    BY <1>1, <1>3, AvailabilityIs
<1>5. HaBecomes(z)
    BY <1>2
<1> HIDE DEF o
<1>6. n \in Announcer \cup {NoAnnouncer} /\ ~n.announced
    BY DEF NoAnnouncer
<1> HIDE DEF n
<1>7. /\ z \in HaWorlds /\ z.link = o.link /\ z.trace = o.trace
      /\ z.deliveries = o.deliveries /\ z.retained = o.retained /\ z.memory = o.memory
      /\ z.announcer[a] = n
      /\ \A b \in Appliances \ {a} : z.announcer[b] = o.announcer[b]
    BY <1>4, <1>6, AnnouncerSet
<1> HIDE DEF z
<1>8. SweptFor(z, a)
    BY <1>1, <1>3, <1>4, <1>7 DEF SweptFor, Coming
<1>9. ShownFor(z, a)
    BY <1>6, <1>7 DEF ShownFor
<1>10. \A b \in Appliances \ {a} : SameOf(HaWorld, z, b)
    BY <1>4, <1>7 DEF SameOf, Coming
<1> QED
    BY <1>5, <1>7, <1>8, <1>9, <1>10, OneChanges

LEMMA RestartKeeps ==
    ASSUME HaInv, Restart
    PROVE  HaInv'
<1>1. HaWorld \in HaWorlds /\ HaWorld.retained = retained
    BY DEF HaInv, HaWorld
<1>2. NoMemory \in Memory /\ NoMemory.published = {} /\ NoMemory.sweeping = {}
      /\ \A a \in Appliances : NoMemory.live[a] = {}
    BY DEF NoMemory, Memory
<1> DEFINE t == [a \in Appliances |-> [swept |-> {}, fresh |-> {}]]
           n == [a \in Appliances |-> NoAnnouncer]
           z == [link |-> FALSE, retained |-> retained, deliveries |-> {}, memory |-> NoMemory,
                 announcer |-> n, trace |-> t]
<1>3. HaBecomes(z)
    BY DEF Restart, HaBecomes
<1>4. t \in [Appliances -> SweepTrace] /\ \A a \in Appliances : t[a].fresh = {}
    BY DEF SweepTrace
<1>5. n \in [Appliances -> Announcer \cup {NoAnnouncer}]
    OBVIOUS
<1> HIDE DEF t, n
<1>6. z \in HaWorlds /\ z.link = FALSE /\ z.memory = NoMemory /\ z.trace = t
    BY <1>1, <1>2, <1>4, <1>5, HaFields DEF HaWorlds
<1> HIDE DEF z
<1>7. \A a \in Appliances : SweptFor(z, a) /\ ShownFor(z, a)
    BY <1>2, <1>4, <1>6 DEF SweptFor, ShownFor
<1> QED
    BY <1>3, <1>6, <1>7, HaInvAfter

LEMMA HaStepKeeps ==
    ASSUME HaAssumption, HaInv, HaNext
    PROVE  HaInv'
BY ConnectionKeeps, ClearAvailabilityKeeps, ClearIfOrphanedKeeps, SweepTimerKeeps, NewDeviceKeeps,
   AnnounceKeeps, PublishPropertyKeeps, DropDeviceKeeps, RestartKeeps DEF HaNext

LEMMA HaStutters ==
    ASSUME HaInv, UNCHANGED haVars
    PROVE  HaInv'
<1>1. HaWorld' = HaWorld
    BY DEF HaWorld, haVars
<1> QED
    BY <1>1 DEF HaInv, SweptFor, ShownFor, Coming

LEMMA HaInvShows ==
    ASSUME HaInv
    PROVE  HaTypeOK /\ AvailabilityIsTrue /\ SweepIsExact
<1>1. HaWorld \in HaWorlds /\ \A a \in Appliances : SweptFor(HaWorld, a) /\ ShownFor(HaWorld, a)
    BY DEF HaInv
<1>2. /\ HaWorld.link = haLink /\ HaWorld.retained = retained /\ HaWorld.deliveries = deliveries
      /\ HaWorld.memory = memory /\ HaWorld.announcer = announcer /\ HaWorld.trace = haTrace
    BY DEF HaWorld
<1> HIDE DEF HaWorld
<1>3. HaTypeOK
    BY <1>1, <1>2, HaFields DEF HaTypeOK
<1>4. AvailabilityIsTrue
    BY <1>1, <1>2 DEF AvailabilityIsTrue, SweptFor, ShownFor, Coming
<1>5. SweepIsExact
    <2>1. ASSUME haLink, NEW a \in Appliances, a \notin memory.sweeping, memory.live[a] # {},
                 haTrace[a].swept = memory.live[a]
          PROVE  retained[a].values \subseteq memory.live[a] \cup haTrace[a].fresh
        BY <1>1, <1>2, <2>1 DEF SweptFor
    <2>2. ASSUME haLink, NEW a \in Appliances, announcer[a].announced, announcer[a].valid
          PROVE  haTrace[a].fresh \cap announcer[a].entities \subseteq retained[a].values
        BY <1>1, <1>2, <2>2 DEF SweptFor, ShownFor
    <2> QED
        BY <2>1, <2>2 DEF SweepIsExact
<1> QED
    BY <1>3, <1>4, <1>5

-----------------------------------------------------------------------------
\* LgAccount.
\* What the service answers to each request.
AnswersTo(call) ==
    CASE call \in {"list", "relist"} -> {"none", "listed", "absent"}
      [] call = "remove" -> {"none", "ok", "unknown"}
      [] call = "add" -> {"none", "ok", "taken"}
      [] call = "reset" -> {"none", "ok", "refused"}
      [] OTHER -> {"none"}

\* Which requests a registration makes; and, while its owner leaves it alone, what its
\* answers still say of the home.
RequestGood ==
    /\ request.answer \in AnswersTo(request.call)
    /\ request.why # "none" => request.call = "failed"
    /\ request.preserve => request.call \notin {"remove", "reset"}
    /\ ~request.preserve => request.call \notin {"list", "relist"}
    /\ request.preserve /\ request.call \in {"otp", "pair", "add"} => platform = "thinq2"
    /\ request.existing => request.preserve

HomeKnown ==
    /\ request.answer = "listed" \/ request.existing \/ request.call = "done" => home \in InHome
    /\ request.answer = "absent" => home \notin InHome
    /\ request.call \in {"add", "reset"} /\ request.answer = "ok" => home \in InHome
    /\ request.call = "reset" \/ request.answer = "taken" => home # "nowhere"
    /\ request.answer # "refused"
    /\ request.why = "refused" => request.preserve /\ home \notin InHome

AccountInv == AccountTypeOK /\ RequestGood /\ (request.alone => HomeKnown)

Calls == {"none", "login", "otp", "pair", "done", "failed"} \cup Repeated

LEMMA RequestFields ==
    ASSUME AccountAssumption, AccountInv
    PROVE  /\ request \in Request /\ request.call \in Calls /\ request.repeats \in 0..MaxRepeats
           /\ request.preserve \in BOOLEAN /\ request.existing \in BOOLEAN /\ request.alone \in BOOLEAN
           /\ home \in {"nowhere", "elsewhere"} \cup InHome /\ platform \in {"thinq1", "thinq2"}
           /\ gateway \in {"none", "asked", "known", "failed"}
           /\ 0 \in 0..MaxRepeats
           /\ RequestGood /\ (request.alone => HomeKnown)
BY DEF AccountInv, AccountTypeOK, Request, Calls, AccountAssumption

LEMMA NewRequestGood ==
    ASSUME AccountAssumption
    PROVE  /\ NoRequest \in Request /\ NoRequest.alone
           /\ NoRequest.answer \in AnswersTo(NoRequest.call) /\ NoRequest.why = "none"
           /\ NoRequest.call = "none" /\ NoRequest.answer = "none" /\ ~NoRequest.preserve /\ ~NoRequest.existing
BY DEF AccountAssumption, NoRequest, Request, AnswersTo

\* A registration goes on with another request, and knows what it knew.
LEMMA AskFields ==
    ASSUME AccountAssumption, AccountInv, NEW call \in Calls
    PROVE  /\ Ask(call) \in Request /\ Ask(call).call = call /\ Ask(call).answer = "none"
           /\ Ask(call).preserve = request.preserve /\ Ask(call).existing = request.existing
           /\ Ask(call).why = request.why /\ Ask(call).alone = request.alone
<1>1. request \in Request /\ 0 \in 0..MaxRepeats
    BY RequestFields
<1> QED
    BY <1>1 DEF Ask, Request, Calls, Repeated

LEMMA FailsFields ==
    ASSUME AccountAssumption, AccountInv, NEW why \in {"trouble", "refused"}
    PROVE  /\ Fails(why) \in Request /\ Fails(why).call = "failed" /\ Fails(why).answer = "none"
           /\ Fails(why).preserve = request.preserve /\ Fails(why).existing = request.existing
           /\ Fails(why).why = why /\ Fails(why).alone = request.alone
<1> DEFINE r == Ask("failed")
<1>1. /\ r \in Request /\ r.call = "failed" /\ r.answer = "none"
      /\ r.preserve = request.preserve /\ r.existing = request.existing /\ r.alone = request.alone
    BY AskFields DEF Calls
<1>2. Fails(why) = [r EXCEPT !.why = why]
    BY DEF Fails
<1> HIDE DEF r
<1> QED
    BY <1>1, <1>2 DEF Request

\* What is left to show of a step that changes the request only.
LEMMA ContinuesKeeps ==
    ASSUME AccountAssumption, AccountInv, NEW r \in Request, Continues(r),
           r.answer = "none",
           r.preserve = request.preserve, r.alone = request.alone,
           r.why # "none" => r.call = "failed",
           r.preserve => r.call \notin {"remove", "reset"},
           ~r.preserve => r.call \notin {"list", "relist"},
           r.preserve /\ r.call \in {"otp", "pair", "add"} => platform = "thinq2",
           r.existing => r.preserve,
           r.alone => /\ r.existing \/ r.call = "done" => home \in InHome
                      /\ r.call = "reset" => home # "nowhere"
                      /\ r.why = "refused" => r.preserve /\ home \notin InHome
    PROVE  AccountInv'
<1>1. request' = r /\ home' = home /\ platform' = platform /\ gateway' = gateway
    BY DEF Continues
<1>2. AccountTypeOK'
    BY <1>1, RequestFields DEF AccountTypeOK
<1>3. r.answer \in AnswersTo(r.call)
    BY DEF AnswersTo
<1>4. RequestGood'
    BY <1>1, <1>3 DEF RequestGood, AnswersTo
<1>5. request'.alone => HomeKnown'
    BY <1>1 DEF HomeKnown, InHome
<1> QED
    BY <1>2, <1>4, <1>5 DEF AccountInv

LEMMA RegisterKeeps ==
    ASSUME AccountAssumption, AccountInv, NEW preserve \in BOOLEAN, Register(preserve)
    PROVE  AccountInv'
<1> DEFINE r == [NoRequest EXCEPT !.call = "login", !.preserve = preserve]
<1>1. request' = r /\ home' = home /\ platform' = platform /\ gateway' \in {"asked", gateway}
    BY DEF Register
<1>2. /\ r \in Request /\ r.call = "login" /\ r.answer = "none" /\ r.why = "none" /\ ~r.existing
      /\ r.preserve = preserve
    BY RequestFields DEF NoRequest, Request, Repeated
<1> HIDE DEF r
<1> QED
    BY <1>1, <1>2, RequestFields DEF AccountInv, AccountTypeOK, RequestGood, HomeKnown, AnswersTo

LEMMA ServeKeeps ==
    ASSUME AccountAssumption, AccountInv, Serve
    PROVE  AccountInv'
<1> DEFINE s == Served(request.call)
           r == [request EXCEPT !.answer = s.answer]
<1>1. /\ request.call \in Repeated /\ request.answer = "none" /\ home' = s.home /\ request' = r
      /\ UNCHANGED <<platform, gateway>>
    BY DEF Serve
<1>2. /\ home \in {"nowhere", "elsewhere"} \cup InHome
      /\ s.home \in {"nowhere", "elsewhere"} \cup InHome /\ s.answer \in AnswersTo(request.call) \ {"none"}
    BY <1>1, RequestFields DEF Served, Lists, Removes, Adds, Resets, AnswersTo, Repeated, InHome
<1>3. AnswersTo(request.call) \subseteq {"none", "ok", "listed", "absent", "unknown", "taken", "refused"}
    BY DEF AnswersTo
<1>4. /\ r \in Request /\ r.call = request.call /\ r.answer = s.answer /\ r.preserve = request.preserve
      /\ r.existing = request.existing /\ r.why = request.why /\ r.alone = request.alone
    <2> HIDE DEF s
    <2> QED
        BY <1>2, <1>3, RequestFields DEF Request
<1> HIDE DEF r
<1>5. AccountTypeOK'
    BY <1>1, <1>2, <1>4, RequestFields DEF AccountTypeOK
<1>6. RequestGood'
    BY <1>1, <1>2, <1>4, RequestFields DEF RequestGood
<1>7. ASSUME request.alone
      PROVE  HomeKnown'
    <2>1. HomeKnown /\ request.why = "none"
        BY <1>1, <1>7, RequestFields DEF RequestGood, Repeated
    <2>2. CASE request.call \in {"list", "relist"}
        BY <1>1, <1>4, <2>1, <2>2 DEF Served, Lists, HomeKnown, InHome
    <2>3. CASE request.call = "remove"
        <3>1. ~request.existing
            BY <2>3, RequestFields DEF RequestGood
        <3> QED
            BY <1>1, <1>4, <2>1, <2>3, <3>1 DEF Served, Removes, HomeKnown, InHome
    <2>4. CASE request.call = "add"
        BY <1>1, <1>2, <1>4, <2>1, <2>4 DEF Served, Adds, HomeKnown, InHome
    <2>5. CASE request.call = "reset"
        BY <1>1, <1>4, <2>1, <2>5 DEF Served, Resets, HomeKnown, InHome
    <2> QED
        BY <1>1, <2>2, <2>3, <2>4, <2>5 DEF Repeated
<1> QED
    BY <1>4, <1>1, <1>5, <1>6, <1>7 DEF AccountInv

LEMMA FetchFailsKeeps ==
    ASSUME AccountAssumption, AccountInv, FetchFails
    PROVE  AccountInv'
<1> DEFINE r == [request EXCEPT !.answer = "none", !.repeats = request.repeats + 1]
<1>1. request.call \in Repeated /\ request.why = "none"
    BY RequestFields DEF FetchFails, RequestGood, Repeated
<1>2. CASE request.repeats < MaxRepeats /\ Continues(r)
    <2>1. request.repeats + 1 \in 0..MaxRepeats
        BY <1>2, RequestFields DEF AccountAssumption
    <2>2. /\ r \in Request /\ r.call = request.call /\ r.answer = "none" /\ r.preserve = request.preserve
          /\ r.existing = request.existing /\ r.why = request.why /\ r.alone = request.alone
        BY <2>1, RequestFields DEF Request
    <2> HIDE DEF r
    <2> QED
        BY <1>1, <1>2, <2>2, RequestFields, ContinuesKeeps DEF RequestGood, HomeKnown, Repeated
<1>3. CASE Continues(Fails("trouble"))
    BY <1>3, FailsFields, RequestFields, ContinuesKeeps DEF RequestGood, HomeKnown
<1> QED
    BY <1>2, <1>3 DEF FetchFails

LEMMA ListedKeeps ==
    ASSUME AccountAssumption, AccountInv, Listed
    PROVE  AccountInv'
<1> DEFINE e == (request.answer = "listed")
           r == [Ask("otp") EXCEPT !.existing = e]
           d == [r EXCEPT !.call = "done"]
<1>1. request.call = "list" /\ request.answer \in {"listed", "absent"} /\ request.preserve
    BY RequestFields DEF Listed, RequestGood, AnswersTo
<1>2. request.why = "none" /\ (request.alone => (e <=> home \in InHome))
    BY <1>1, RequestFields DEF RequestGood, HomeKnown
<1>3. /\ r \in Request /\ r.call = "otp" /\ r.answer = "none" /\ r.preserve = request.preserve
      /\ r.existing = e /\ r.why = request.why /\ r.alone = request.alone
    <2>1. /\ Ask("otp") \in Request /\ Ask("otp").call = "otp" /\ Ask("otp").answer = "none"
          /\ Ask("otp").preserve = request.preserve
          /\ Ask("otp").why = request.why /\ Ask("otp").alone = request.alone
        BY AskFields DEF Calls
    <2>2. e \in BOOLEAN
        OBVIOUS
    <2> HIDE DEF e
    <2> QED
        BY <2>1, <2>2 DEF Request
<1>4. Continues(IF platform = "thinq2" THEN r ELSE IF r.existing THEN d ELSE Fails("refused"))
    BY DEF Listed
<1> HIDE DEF r, e
<1>5. /\ d \in Request /\ d.call = "done" /\ d.answer = "none" /\ d.preserve = request.preserve
      /\ d.existing = e /\ d.why = request.why /\ d.alone = request.alone
    BY <1>3 DEF Request
<1> HIDE DEF d
<1>6. CASE platform = "thinq2"
    BY <1>1, <1>2, <1>3, <1>4, <1>6, RequestFields, ContinuesKeeps
<1>7. CASE platform # "thinq2" /\ e
    BY <1>1, <1>2, <1>3, <1>4, <1>5, <1>7, RequestFields, ContinuesKeeps
<1>8. CASE platform # "thinq2" /\ ~e
    <2>1. request.existing => request.preserve
        BY RequestFields DEF RequestGood
    <2>2. request.alone /\ request.existing => home \in InHome
        BY RequestFields DEF HomeKnown
    <2>3. Continues(Fails("refused"))
        BY <1>3, <1>4, <1>8
    <2> QED
        BY <1>1, <1>2, <1>8, <2>1, <2>2, <2>3, FailsFields, ContinuesKeeps
<1> QED
    BY <1>6, <1>7, <1>8

\* Requests that follow from what was answered, or from a failure.
LEMMA RequestsKeep ==
    ASSUME AccountAssumption, AccountInv,
           LogsIn \/ LoginFails \/ Removed \/ GetsOtp \/ Pairs \/ Added \/ Relisted \/ WasReset \/ ServiceFails
    PROVE  AccountInv'
<1>1. ASSUME NEW call \in Calls \ {"failed"}, Continues(Ask(call)), request.why = "none",
             request.preserve => call \notin {"remove", "reset"},
             ~request.preserve => call \notin {"list", "relist"},
             request.preserve /\ call \in {"otp", "pair", "add"} => platform = "thinq2",
             request.alone => /\ call = "done" => home \in InHome
                              /\ call = "reset" => home # "nowhere"
      PROVE  AccountInv'
    <2>1. /\ Ask(call) \in Request /\ Ask(call).call = call /\ Ask(call).answer = "none"
          /\ Ask(call).preserve = request.preserve /\ Ask(call).existing = request.existing
          /\ Ask(call).why = request.why /\ Ask(call).alone = request.alone
        BY AskFields
    <2>2. /\ request.existing => request.preserve
          /\ request.alone /\ request.existing => home \in InHome
        BY RequestFields DEF RequestGood, HomeKnown
    <2> QED
        BY <1>1, <2>1, <2>2, ContinuesKeeps
<1>2. ASSUME NEW why \in {"trouble", "refused"}, Continues(Fails(why)),
             why = "refused" /\ request.alone => request.preserve /\ home \notin InHome
      PROVE  AccountInv'
    <2>1. /\ Fails(why) \in Request /\ Fails(why).call = "failed" /\ Fails(why).answer = "none"
          /\ Fails(why).preserve = request.preserve /\ Fails(why).existing = request.existing
          /\ Fails(why).why = why /\ Fails(why).alone = request.alone
        BY FailsFields
    <2>2. /\ request.existing => request.preserve
          /\ request.alone /\ request.existing => home \in InHome
        BY RequestFields DEF RequestGood, HomeKnown
    <2> QED
        BY <1>2, <2>1, <2>2, ContinuesKeeps
<1>3. /\ request.call \in Calls /\ (request.call # "failed" => request.why = "none") /\ RequestGood
      /\ (request.alone => HomeKnown) /\ platform \in {"thinq1", "thinq2"}
      /\ request.answer \in AnswersTo(request.call)
    BY RequestFields DEF RequestGood
<1>4. CASE LogsIn
    BY <1>1, <1>3, <1>4 DEF LogsIn, Calls, Repeated
<1>5. CASE LoginFails
    BY <1>2, <1>5 DEF LoginFails
<1>6. CASE Removed
    BY <1>1, <1>3, <1>6 DEF Removed, Calls, Repeated, RequestGood
<1>7. CASE GetsOtp
    BY <1>1, <1>3, <1>7 DEF GetsOtp, Calls, RequestGood
<1>8. CASE Pairs
    BY <1>1, <1>3, <1>8 DEF Pairs, Calls, Repeated, RequestGood, HomeKnown
<1>9. CASE Added
    <2>1. request.call = "add" /\ request.answer \in {"ok", "taken"}
        BY <1>3, <1>9 DEF Added, AnswersTo
    <2> QED
        BY <1>1, <1>3, <1>9, <2>1 DEF Added, Calls, Repeated, HomeKnown
<1>10. CASE Relisted
    <2>1. request.call = "relist" /\ request.answer \in {"listed", "absent"} /\ request.preserve
        BY <1>3, <1>10 DEF Relisted, AnswersTo, RequestGood
    <2> QED
        BY <1>1, <1>2, <1>3, <1>10, <2>1 DEF Relisted, Calls, Repeated, HomeKnown
<1>11. CASE WasReset
    <2>1. request.call = "reset" /\ request.answer \in {"ok", "refused"} /\ ~request.preserve
        BY <1>3, <1>11 DEF WasReset, AnswersTo, RequestGood
    <2> QED
        BY <1>1, <1>2, <1>3, <1>11, <2>1 DEF WasReset, Calls, Repeated, HomeKnown
<1>12. CASE ServiceFails
    BY <1>2, <1>12 DEF ServiceFails
<1> QED
    BY <1>4, <1>5, <1>6, <1>7, <1>8, <1>9, <1>10, <1>11, <1>12

\* Nothing is known of the home any more once its owner has changed something.
LEMMA OthersKeep ==
    ASSUME AccountAssumption, AccountInv, GatewayAnswers \/ OwnerChanges \/ Restarts
    PROVE  AccountInv'
<1>1. CASE GatewayAnswers
    BY <1>1, RequestFields DEF GatewayAnswers, AccountInv, AccountTypeOK, RequestGood, HomeKnown
<1>2. CASE OwnerChanges
    <2> DEFINE r == [request EXCEPT !.alone = FALSE]
    <2>1. /\ r \in Request /\ r.call = request.call /\ r.answer = request.answer
          /\ r.preserve = request.preserve /\ r.existing = request.existing /\ r.why = request.why /\ ~r.alone
        BY RequestFields DEF Request
    <2>2. request' = r /\ home' \in {"nowhere", "elsewhere"} \cup InHome /\ UNCHANGED <<platform, gateway>>
        BY <1>2 DEF OwnerChanges, InHome
    <2> HIDE DEF r
    <2> QED
        BY <2>1, <2>2, RequestFields DEF AccountInv, AccountTypeOK, RequestGood
<1>3. CASE Restarts
    BY <1>3, RequestFields, NewRequestGood DEF Restarts, AccountInv, AccountTypeOK, RequestGood, HomeKnown
<1> QED
    BY <1>1, <1>2, <1>3

LEMMA AccountInitHolds ==
    ASSUME AccountAssumption, AccountInit
    PROVE  AccountInv
BY NewRequestGood DEF AccountInit, AccountInv, AccountTypeOK, RequestGood, HomeKnown

LEMMA AccountStepKeeps ==
    ASSUME AccountAssumption, AccountInv, AccountNext
    PROVE  AccountInv'
BY RegisterKeeps, OthersKeep, RequestsKeep, ServeKeeps, FetchFailsKeeps, ListedKeeps DEF AccountNext

LEMMA AccountStutters ==
    ASSUME AccountInv, UNCHANGED accountVars
    PROVE  AccountInv'
BY DEF accountVars, AccountInv, AccountTypeOK, RequestGood, HomeKnown

LEMMA AccountInvShows ==
    ASSUME AccountInv
    PROVE  AccountTypeOK /\ DoneIsRegistered
BY DEF AccountInv, HomeKnown, DoneIsRegistered

\* Who preserves makes no request that removes or resets, and adds only what is nowhere.
LEMMA ServingPreserves ==
    ASSUME AccountInv, Serve, request.preserve, home' # home
    PROVE  home = "nowhere" /\ platform = "thinq2"
BY DEF AccountInv, RequestGood, Serve, Served, Lists, Removes, Adds, Resets, Repeated

-----------------------------------------------------------------------------
\* CloudReports.
\* What is on the wire comes in order, nothing older than what was heard nor newer than
\* what was reported; and the newest report that was or will be heard.
InOrder(s, heard, last) ==
    /\ \A i \in 1..Len(s) : heard <= s[i] /\ s[i] <= last
    /\ \A i, j \in 1..Len(s) : i < j => s[i] <= s[j]

Told(s, heard) == IF s = <<>> THEN heard ELSE Last(s)

\* A connection holds the newest report, whether or not it was written; and the last of
\* Start and Stop that has arrived decides.
ReportsInv ==
    /\ ReportsTypeOK
    /\ cloud.heard <= newest /\ InOrder(up, cloud.heard, newest)
    /\ upstream.phase # "none" => upstream.lastState = newest
    /\ upstream.phase # "up" => up = <<>> /\ down = <<>> /\ ~upstream.isLive /\ ~cloud.watching
    /\ cloud.watching <=> IF down = <<>> THEN upstream.isLive ELSE Last(down) = "Start"
    /\ upstream.isLive => Told(up, cloud.heard) = newest

Upstream == [phase : {"none", "opening", "up"}, lastState : 0..MaxReports, isLive : BOOLEAN]

LEMMA ReportFields ==
    ASSUME ReportsAssumption, ReportsInv
    PROVE  /\ newest \in 0..MaxReports /\ newest \in Nat /\ MaxReports \in Nat /\ MaxOnWire \in Nat
           /\ upstream \in Upstream /\ upstream.phase \in {"none", "opening", "up"}
           /\ upstream.lastState \in 0..MaxReports /\ upstream.isLive \in BOOLEAN
           /\ up \in Seq(1..MaxReports) /\ Len(up) \in Nat /\ down \in Seq({"Start", "Stop"})
           /\ cloud \in [heard : 0..MaxReports, watching : BOOLEAN]
           /\ cloud.heard \in 0..MaxReports /\ cloud.watching \in BOOLEAN
BY LenProperties DEF ReportsInv, ReportsTypeOK, ReportsAssumption, Upstream

LEMMA FeedInOrder ==
    ASSUME NEW M \in Nat, NEW s \in Seq(1..M), NEW heard \in 0..M, NEW last \in 0..M, NEW r \in 1..M,
           InOrder(s, heard, last), heard <= last, last <= r
    PROVE  /\ s \o <<r>> \in Seq(1..M) /\ InOrder(s \o <<r>>, heard, r) /\ Told(s \o <<r>>, heard) = r
<1> DEFINE z == s \o <<r>>
<1>1. /\ z \in Seq(1..M) /\ Len(s) \in Nat /\ Len(z) = Len(s) + 1
      /\ \A i \in 1..Len(s) : z[i] = s[i] /\ s[i] \in 1..M
      /\ z[Len(s) + 1] = r
    BY LenProperties
<1> HIDE DEF z
<1>2. \A i \in 1..Len(z) : (i \in 1..Len(s) /\ z[i] = s[i]) \/ (i = Len(s) + 1 /\ z[i] = r)
    BY <1>1
<1>3. ASSUME NEW i \in 1..Len(z)
      PROVE  heard <= z[i] /\ z[i] <= r
    <2>1. CASE i \in 1..Len(s)
        <3>1. z[i] = s[i] /\ s[i] \in 1..M /\ heard <= s[i] /\ s[i] <= last
            BY <1>1, <2>1 DEF InOrder
        <3> HIDE DEF InOrder
        <3> QED
            BY <3>1
    <2>2. CASE z[i] = r
        BY <2>2
    <2> QED
        BY <1>2, <2>1, <2>2
<1>4. ASSUME NEW i \in 1..Len(z), NEW j \in 1..Len(z), i < j
      PROVE  z[i] <= z[j]
    <2>1. i \in 1..Len(s) /\ z[i] = s[i]
        <3>1. j <= Len(s) + 1 /\ i \in Nat /\ j \in Nat
            BY <1>1
        <3>2. i # Len(s) + 1
            BY <1>1, <1>4, <3>1
        <3> QED
            BY <1>2, <3>2
    <2>2. CASE j \in 1..Len(s)
        BY <1>1, <1>4, <2>1, <2>2 DEF InOrder
    <2>3. CASE z[j] = r
        BY <1>3, <2>3
    <2> QED
        BY <1>2, <2>2, <2>3
<1>5. z # <<>> /\ Last(z) = r
    BY <1>1 DEF Last
<1> QED
    BY <1>1, <1>3, <1>4, <1>5 DEF InOrder, Told, z

LEMMA HearInOrder ==
    ASSUME NEW M \in Nat, NEW s \in Seq(1..M), NEW heard \in 0..M, NEW last \in 0..M,
           InOrder(s, heard, last), s # <<>>
    PROVE  /\ Head(s) \in 1..M /\ Head(s) <= last /\ Tail(s) \in Seq(1..M)
           /\ InOrder(Tail(s), Head(s), last) /\ Told(Tail(s), Head(s)) = Told(s, heard)
<1> DEFINE z == Tail(s)
<1>1. /\ z \in Seq(1..M) /\ Len(s) \in Nat \ {0} /\ Len(z) = Len(s) - 1 /\ Head(s) = s[1]
      /\ \A i \in 1..Len(z) : z[i] = s[i + 1]
      /\ \A i \in 1..Len(s) : s[i] \in 1..M
    BY LenProperties, EmptySeq, HeadTailProperties
<1> HIDE DEF z
<1>2. 1 \in 1..Len(s) /\ \A i \in 1..Len(z) : i + 1 \in 1..Len(s) /\ 1 < i + 1
    BY <1>1
<1>3. \A i \in 1..Len(z) : s[1] <= z[i] /\ z[i] <= last
    BY <1>1, <1>2 DEF InOrder
<1>4. ASSUME NEW i \in 1..Len(z), NEW j \in 1..Len(z), i < j
      PROVE  z[i] <= z[j]
    <2>1. i + 1 < j + 1
        BY <1>1, <1>4
    <2> QED
        BY <1>1, <1>2, <2>1 DEF InOrder
<1>5. Told(z, s[1]) = Told(s, heard)
    <2>1. CASE Len(s) = 1
        <3>1. z = <<>>
            BY <1>1, <2>1, EmptySeq
        <3> QED
            BY <2>1, <3>1 DEF Told, Last
    <2>2. CASE Len(s) # 1
        <3>1. z # <<>> /\ Len(z) \in 1..Len(z) /\ Len(z) + 1 = Len(s)
            BY <1>1, <2>2
        <3> QED
            BY <1>1, <3>1 DEF Told, Last
    <2> QED
        BY <2>1, <2>2
<1> QED
    BY <1>1, <1>2, <1>3, <1>4, <1>5 DEF InOrder, z

\* Commands of the cloud: a new one is the last, and the last stays so.
LEMMA LastCommand ==
    ASSUME NEW s \in Seq({"Start", "Stop"})
    PROVE  /\ \A m \in {"Start", "Stop"} : /\ Append(s, m) \in Seq({"Start", "Stop"})
                                           /\ Append(s, m) # <<>> /\ Last(Append(s, m)) = m
           /\ s # <<>> => /\ Tail(s) \in Seq({"Start", "Stop"})
                          /\ IF Tail(s) = <<>> THEN Last(s) = Head(s) ELSE Last(Tail(s)) = Last(s)
<1>1. ASSUME NEW m \in {"Start", "Stop"}
      PROVE  /\ Append(s, m) \in Seq({"Start", "Stop"})
             /\ Append(s, m) # <<>> /\ Last(Append(s, m)) = m
    BY AppendProperties, LenProperties, EmptySeq DEF Last
<1>2. ASSUME s # <<>>
      PROVE  /\ Tail(s) \in Seq({"Start", "Stop"})
             /\ IF Tail(s) = <<>> THEN Last(s) = Head(s) ELSE Last(Tail(s)) = Last(s)
    <2> DEFINE z == Tail(s)
    <2>1. /\ z \in Seq({"Start", "Stop"}) /\ Len(s) \in Nat \ {0} /\ Len(z) = Len(s) - 1 /\ Head(s) = s[1]
          /\ \A i \in 1..Len(z) : z[i] = s[i + 1]
        BY <1>2, LenProperties, EmptySeq, HeadTailProperties
    <2> HIDE DEF z
    <2>2. CASE z = <<>>
        <3>1. Len(s) = 1
            BY <2>1, <2>2
        <3> QED
            BY <2>1, <2>2, <3>1 DEF Last, z
    <2>3. CASE z # <<>>
        <3>1. Len(z) \in 1..Len(z) /\ Len(z) + 1 = Len(s)
            BY <2>1, <2>3, EmptySeq
        <3> QED
            BY <2>1, <2>3, <3>1 DEF Last, z
    <2> QED
        BY <2>2, <2>3
<1> QED
    BY <1>1, <1>2

LEMMA ReportsInitHolds ==
    ASSUME ReportsAssumption, ReportsInit
    PROVE  ReportsInv
<1>1. MaxReports \in Nat
    BY DEF ReportsAssumption
<1> QED
    BY <1>1 DEF ReportsInit, ReportsInv, ReportsTypeOK, InOrder, NoConnection

LEMMA ReportsKeep ==
    ASSUME ReportsAssumption, ReportsInv, Reports
    PROVE  ReportsInv'
<1> DEFINE n == newest + 1
           c == IF upstream.phase = "none" THEN upstream ELSE [upstream EXCEPT !.lastState = n]
<1>1. /\ newest' = n /\ upstream' = c /\ up' = up \o (IF c.isLive THEN Written(c, n) ELSE <<>>)
      /\ UNCHANGED <<down, cloud>> /\ newest < MaxReports
    <2>1. /\ newest < MaxReports /\ newest' = n
          /\ upstream' = IF upstream.phase = "none" THEN upstream ELSE Sent(upstream, newest')
          /\ up' = up \o Wire(upstream, newest') /\ UNCHANGED <<down, cloud>>
        BY DEF Reports
    <2> HIDE DEF n
    <2>2. upstream' = IF upstream.phase = "none" THEN upstream ELSE Sent(upstream, n)
        BY <2>1
    <2>3. up' = up \o Wire(upstream, n)
        BY <2>1
    <2>4. c.isLive = upstream.isLive /\ c.phase = upstream.phase
        BY ReportFields DEF Upstream
    <2>5. Wire(upstream, n) = IF c.isLive THEN Written(c, n) ELSE <<>>
        BY <2>4 DEF Wire, Written
    <2> QED
        BY <2>1, <2>2, <2>3, <2>5 DEF Sent
<1>2. n \in 1..MaxReports /\ newest <= n /\ n # 0
    BY <1>1, ReportFields
<1> HIDE DEF n
<1>3. /\ c \in Upstream /\ c.phase = upstream.phase /\ c.isLive = upstream.isLive
      /\ c.phase # "none" => c.lastState = n
    <2> DEFINE s == [upstream EXCEPT !.lastState = n]
    <2>1. s \in Upstream /\ s.phase = upstream.phase /\ s.isLive = upstream.isLive /\ s.lastState = n
        BY <1>2, ReportFields DEF Upstream
    <2>2. c = IF upstream.phase = "none" THEN upstream ELSE s
        OBVIOUS
    <2> HIDE DEF s, c
    <2> QED
        BY <2>1, <2>2, ReportFields
<1> HIDE DEF c
<1>4. InOrder(up, cloud.heard, n) /\ cloud.heard <= n
    <2>1. InOrder(up, cloud.heard, newest) /\ cloud.heard <= newest
        BY DEF ReportsInv
    <2>2. \A i \in 1..Len(up) : up[i] \in 1..MaxReports
        BY ReportFields
    <2> QED
        BY <1>2, <2>1, <2>2, ReportFields DEF InOrder
<1>5. CASE upstream.isLive
    <2>1. upstream.phase = "up" /\ InOrder(up, cloud.heard, newest) /\ cloud.heard <= newest
        BY <1>5 DEF ReportsInv
    <2>2. up' = up \o <<n>>
        BY <1>1, <1>2, <1>3, <1>5, <2>1 DEF Written
    <2>3. up' \in Seq(1..MaxReports) /\ InOrder(up', cloud.heard, n) /\ Told(up', cloud.heard) = n
        <3>1. up \o <<n>> \in Seq(1..MaxReports) /\ InOrder(up \o <<n>>, cloud.heard, n)
              /\ Told(up \o <<n>>, cloud.heard) = n
            <4>1. /\ MaxReports \in Nat /\ up \in Seq(1..MaxReports) /\ cloud.heard \in 0..MaxReports
                  /\ newest \in 0..MaxReports
                BY ReportFields
            <4> QED
                BY <1>2, <2>1, <4>1, FeedInOrder, Zenon
        <3> QED
            BY <2>2, <3>1
    <2> QED
        BY <1>1, <1>2, <1>3, <1>4, <1>5, <2>1, <2>3, ReportFields DEF ReportsInv, ReportsTypeOK, Upstream
<1>6. CASE ~upstream.isLive
    <2>1. up' = up
        BY <1>1, <1>3, <1>6, ReportFields
    <2> QED
        BY <1>1, <1>2, <1>3, <1>4, <1>6, <2>1, ReportFields DEF ReportsInv, ReportsTypeOK, Upstream
<1> QED
    BY <1>5, <1>6, ReportFields

LEMMA UpstreamChangesKeep ==
    ASSUME ReportsAssumption, ReportsInv, UpstreamOpens \/ UpstreamLost \/ Opened
    PROVE  ReportsInv'
<1>1. NoConnection \in Upstream /\ NoConnection.phase = "none" /\ ~NoConnection.isLive
    BY DEF NoConnection, Upstream, ReportsAssumption
<1>2. CASE UpstreamOpens
    <2> DEFINE c == [[NoConnection EXCEPT !.phase = "opening"] EXCEPT !.lastState = newest]
    <2>1. /\ c \in Upstream /\ c.phase = "opening" /\ ~c.isLive /\ c.lastState = newest
        BY <1>1, ReportFields DEF Upstream
    <2>2. upstream' = c /\ UNCHANGED <<newest, up, down, cloud>> /\ upstream.phase = "none"
        BY <1>2 DEF UpstreamOpens, Sent
    <2> HIDE DEF c
    <2> QED
        BY <2>1, <2>2, ReportFields DEF ReportsInv, ReportsTypeOK, Upstream
<1>3. CASE UpstreamLost
    <2> DEFINE k == [cloud EXCEPT !.watching = FALSE]
    <2>1. k \in [heard : 0..MaxReports, watching : BOOLEAN] /\ k.heard = cloud.heard /\ ~k.watching
        BY ReportFields
    <2>2. upstream' = NoConnection /\ up' = <<>> /\ down' = <<>> /\ cloud' = k /\ newest' = newest
        BY <1>3 DEF UpstreamLost
    <2> HIDE DEF k
    <2> QED
        BY <1>1, <2>1, <2>2, ReportFields DEF ReportsInv, ReportsTypeOK, Upstream, InOrder
<1>4. CASE Opened
    <2> DEFINE c == [upstream EXCEPT !.phase = "up"]
    <2>1. upstream.phase = "opening" /\ up = <<>> /\ down = <<>> /\ ~upstream.isLive /\ ~cloud.watching
          /\ upstream.lastState = newest /\ cloud.heard <= newest
        BY <1>4 DEF Opened, ReportsInv
    <2>2. c \in Upstream /\ c.phase = "up" /\ ~c.isLive /\ c.lastState = newest
        BY <2>1, ReportFields DEF Upstream
    <2>3. upstream' = c /\ up' = Written(c, newest) /\ UNCHANGED <<newest, down, cloud>>
        BY <1>4, <2>1 DEF Opened
    <2> HIDE DEF c
    <2>4. CASE newest = 0
        <3>1. up' = <<>>
            BY <2>3, <2>4 DEF Written
        <3> QED
            BY <2>1, <2>2, <2>3, <3>1, ReportFields DEF ReportsInv, ReportsTypeOK, Upstream, InOrder
    <2>5. CASE newest # 0
        <3>1. up' = <<newest>> /\ newest \in 1..MaxReports
            BY <2>2, <2>3, <2>5, ReportFields DEF Written
        <3>2. up' \in Seq(1..MaxReports) /\ InOrder(up', cloud.heard, newest)
            BY <2>1, <3>1, ReportFields DEF InOrder
        <3> QED
            BY <2>1, <2>2, <2>3, <3>2, ReportFields DEF ReportsInv, ReportsTypeOK, Upstream
    <2> QED
        BY <2>4, <2>5
<1> QED
    BY <1>2, <1>3, <1>4

\* Start is answered with the newest report, Stop with nothing.
LEMMA CommandsKeep ==
    ASSUME ReportsAssumption, ReportsInv, Started \/ Stopped
    PROVE  ReportsInv'
<1>1. /\ down # <<>> /\ Head(down) = (IF Started THEN "Start" ELSE "Stop")
      /\ down' = Tail(down) /\ UNCHANGED <<newest, cloud>>
    BY DEF Started, Stopped
<1>2. /\ upstream.phase = "up" /\ upstream.lastState = newest /\ cloud.heard <= newest
      /\ InOrder(up, cloud.heard, newest) /\ (cloud.watching <=> Last(down) = "Start")
    BY <1>1 DEF ReportsInv
<1>3. /\ Tail(down) \in Seq({"Start", "Stop"})
      /\ IF Tail(down) = <<>> THEN Last(down) = Head(down) ELSE Last(Tail(down)) = Last(down)
    BY <1>1, ReportFields, LastCommand
<1>4. CASE Started
    <2> DEFINE c == [upstream EXCEPT !.isLive = TRUE]
    <2>1. c \in Upstream /\ c.phase = "up" /\ c.lastState = newest /\ c.isLive
        BY <1>2, ReportFields DEF Upstream
    <2>2. upstream' = c /\ up' = up \o Written(c, newest)
        BY <1>2, <1>4, <2>1 DEF Started, Wire
    <2> HIDE DEF c
    <2>3. up' \in Seq(1..MaxReports) /\ InOrder(up', cloud.heard, newest) /\ Told(up', cloud.heard) = newest
        <3>1. CASE newest = 0
            <4>1. up' = up
                BY <2>2, <3>1, ReportFields DEF Written
            <4>2. up = <<>>
                <5>1. \A i \in 1..Len(up) : up[i] \in 1..MaxReports /\ up[i] <= 0
                    BY <1>2, <3>1, ReportFields DEF InOrder
                <5>2. Len(up) = 0
                    <6>1. ~(1 \in 1..Len(up))
                        BY <5>1
                    <6> QED
                        BY <6>1, ReportFields
                <5> QED
                    BY <5>2, ReportFields, EmptySeq
            <4> QED
                BY <1>2, <3>1, <4>1, <4>2, ReportFields DEF Told, InOrder
        <3>2. CASE newest # 0
            <4>1. up' = up \o <<newest>> /\ newest \in 1..MaxReports
                BY <2>1, <2>2, <3>2, ReportFields DEF Written
            <4> QED
                <5>1. up \o <<newest>> \in Seq(1..MaxReports) /\ InOrder(up \o <<newest>>, cloud.heard, newest)
                      /\ Told(up \o <<newest>>, cloud.heard) = newest
                    <6>1. newest <= newest
                        BY ReportFields
                    <6> QED
                        <7>1. /\ MaxReports \in Nat /\ up \in Seq(1..MaxReports)
                              /\ cloud.heard \in 0..MaxReports /\ newest \in 0..MaxReports
                            BY ReportFields
                        <7> QED
                            BY <1>2, <4>1, <6>1, <7>1, FeedInOrder, Zenon
                <5> QED
                    BY <4>1, <5>1
        <3> QED
            BY <3>1, <3>2
    <2>4. cloud.watching <=> IF down' = <<>> THEN TRUE ELSE Last(down') = "Start"
        BY <1>1, <1>2, <1>3, <1>4
    <2> QED
        BY <1>1, <1>2, <1>3, <2>1, <2>2, <2>3, <2>4, ReportFields DEF ReportsInv, ReportsTypeOK, Upstream
<1>5. CASE Stopped /\ ~Started
    <2> DEFINE c == [upstream EXCEPT !.isLive = FALSE]
    <2>1. c \in Upstream /\ c.phase = "up" /\ c.lastState = newest /\ ~c.isLive
        BY <1>2, ReportFields DEF Upstream
    <2>2. upstream' = c /\ up' = up
        BY <1>5 DEF Stopped
    <2> HIDE DEF c
    <2>3. cloud.watching <=> IF down' = <<>> THEN FALSE ELSE Last(down') = "Start"
        BY <1>1, <1>2, <1>3, <1>5
    <2> QED
        BY <1>1, <1>2, <1>3, <2>1, <2>2, <2>3, ReportFields DEF ReportsInv, ReportsTypeOK, Upstream
<1> QED
    BY <1>4, <1>5

LEMMA CloudKeeps ==
    ASSUME ReportsAssumption, ReportsInv, CloudSays("Start") \/ CloudSays("Stop") \/ CloudHears
    PROVE  ReportsInv'
<1>1. ASSUME NEW m \in {"Start", "Stop"}, CloudSays(m)
      PROVE  ReportsInv'
    <2> DEFINE k == [cloud EXCEPT !.watching = (m = "Start")]
    <2>1. k \in [heard : 0..MaxReports, watching : BOOLEAN] /\ k.heard = cloud.heard
          /\ (k.watching <=> m = "Start")
        BY ReportFields
    <2>2. /\ upstream.phase = "up" /\ down' = Append(down, m) /\ cloud' = k
          /\ UNCHANGED <<newest, upstream, up>>
        BY <1>1 DEF CloudSays
    <2> HIDE DEF k
    <2>3. down' \in Seq({"Start", "Stop"}) /\ down' # <<>> /\ Last(down') = m
        BY <2>2, ReportFields, LastCommand
    <2> QED
        BY <2>1, <2>2, <2>3, ReportFields DEF ReportsInv, ReportsTypeOK, Upstream
<1>2. CASE CloudHears
    <2> DEFINE k == [cloud EXCEPT !.heard = Head(up)]
    <2>1. up # <<>> /\ cloud' = k /\ up' = Tail(up) /\ UNCHANGED <<newest, upstream, down>>
        BY <1>2 DEF CloudHears
    <2>2. /\ Head(up) \in 1..MaxReports /\ Head(up) <= newest /\ up' \in Seq(1..MaxReports)
          /\ InOrder(up', Head(up), newest) /\ Told(up', Head(up)) = Told(up, cloud.heard)
        BY <2>1, ReportFields, HearInOrder DEF ReportsInv
    <2>3. k \in [heard : 0..MaxReports, watching : BOOLEAN] /\ k.heard = Head(up)
          /\ k.watching = cloud.watching
        <3> DEFINE h == Head(up)
        <3>1. h \in 0..MaxReports
            BY <2>2, ReportFields
        <3> HIDE DEF h
        <3>2. [cloud EXCEPT !.heard = h] \in [heard : 0..MaxReports, watching : BOOLEAN]
              /\ [cloud EXCEPT !.heard = h].heard = h
              /\ [cloud EXCEPT !.heard = h].watching = cloud.watching
            BY <3>1, ReportFields
        <3> QED
            BY <3>2 DEF h
    <2> HIDE DEF k
    <2>4. upstream.phase = "up"
        BY <2>1 DEF ReportsInv
    <2> QED
        BY <2>1, <2>2, <2>3, <2>4, ReportFields DEF ReportsInv, ReportsTypeOK, Upstream
<1> QED
    BY <1>1, <1>2

LEMMA ReportsStepKeeps ==
    ASSUME ReportsAssumption, ReportsInv, ReportsNext
    PROVE  ReportsInv'
BY ReportsKeep, UpstreamChangesKeep, CommandsKeep, CloudKeeps DEF ReportsNext

LEMMA ReportsStutter ==
    ASSUME ReportsInv, UNCHANGED reportVars
    PROVE  ReportsInv'
BY DEF reportVars, ReportsInv, ReportsTypeOK

LEMMA ReportsInvShows ==
    ASSUME ReportsAssumption, ReportsInv
    PROVE  ReportsTypeOK /\ WatchedIsCurrent
<1>1. ReportsTypeOK /\ InOrder(up, cloud.heard, newest)
    BY DEF ReportsInv
<1>2. cloud.watching /\ down = <<>> => upstream.isLive
    BY DEF ReportsInv
<1>3. upstream.isLive => Told(up, cloud.heard) = newest
    BY DEF ReportsInv
<1> QED
    BY <1>1, <1>2, <1>3 DEF WatchedIsCurrent, InOrder, Told

-----------------------------------------------------------------------------
\* All parts.
HandlersInv == TlvInv /\ MonInv /\ HaInv /\ AccountInv /\ ReportsInv

LEMMA HandlersInitHolds ==
    ASSUME HandlersInit
    PROVE  HandlersInv
<1>1. Init /\ MonInit /\ HaInit /\ AccountInit /\ ReportsInit
    BY DEF HandlersInit
<1> QED
    BY <1>1, HandlersAssumption, TlvInitHolds, MonInitHolds, HaInitHolds, AccountInitHolds,
       ReportsInitHolds DEF HandlersInv

\* A step of a part.
LEMMA HandlersStepKeeps ==
    ASSUME HandlersInv, [HandlersNext]_<<vars, monVars, haVars, accountVars, reportVars, part>>
    PROVE  HandlersInv'
<1>1. /\ Next \/ UNCHANGED vars
      /\ MonNext \/ UNCHANGED monVars
      /\ HaNext \/ UNCHANGED haVars
      /\ AccountNext \/ UNCHANGED accountVars
      /\ ReportsNext \/ UNCHANGED reportVars
    BY DEF HandlersNext
<1>2. TlvInv'
    BY <1>1, TlvStepKeeps, TlvStutters DEF HandlersInv
<1>3. MonInv'
    BY <1>1, MonStepKeeps, MonStutters DEF HandlersInv
<1>4. HaInv'
    BY <1>1, HandlersAssumption, HaStepKeeps, HaStutters DEF HandlersInv
<1>5. AccountInv'
    BY <1>1, HandlersAssumption, AccountStepKeeps, AccountStutters DEF HandlersInv
<1>6. ReportsInv'
    BY <1>1, HandlersAssumption, ReportsStepKeeps, ReportsStutter DEF HandlersInv
<1> QED
    BY <1>2, <1>3, <1>4, <1>5, <1>6 DEF HandlersInv

LEMMA HandlersInvariantHolds == HandlersSpec => []HandlersInv
<1>1. HandlersInit => HandlersInv
    BY HandlersInitHolds
<1>2. HandlersInv /\ [HandlersNext]_<<vars, monVars, haVars, accountVars, reportVars, part>>
      => HandlersInv'
    BY HandlersStepKeeps
<1> QED
    BY <1>1, <1>2, PTL DEF HandlersSpec

\* Types: whatever is answered, lost or asked again.
THEOREM HandlersTypeCorrect == HandlersSpec => []HandlersTypeOK
<1>1. HandlersInv => HandlersTypeOK
    BY HandlersAssumption, TlvInvShows, MonInvShows, HaInvShows, AccountInvShows, ReportsInvShows
    DEF HandlersInv, HandlersTypeOK
<1> QED
    BY <1>1, HandlersInvariantHolds, PTL

\* A handler always has its next question scheduled: on its way to the configuration
\* (initMakeSetConfig()), between two readings (schedulePeriodicSnapshot()) and while it
\* polls (setQueryInterval()), and shows as unavailable only who was silent (askedForRefresh()).
THEOREM PollingNeverEnds == HandlersSpec => []PollingGoesOn
<1>1. HandlersInv => PollingGoesOn
    BY TlvInvShows, MonInvShows DEF HandlersInv, PollingGoesOn
<1> QED
    BY <1>1, HandlersInvariantHolds, PTL

\* What Home Assistant retains is what its appliances announced and published, once what
\* was on the wire is there (received(), clearIfOrphaned()); what a watching cloud has
\* heard, or will, is the newest report (Connection.send()).
THEOREM WhatIsToldIsTrue == HandlersSpec => []ToldIsTrue
<1>1. HandlersInv => ToldIsTrue
    BY HandlersAssumption, HaInvShows, ReportsInvShows DEF HandlersInv, ToldIsTrue
<1> QED
    BY <1>1, HandlersInvariantHolds, PTL

\* A registration that succeeds is in the owner's home, and one that preserves removes
\* nothing, whatever request is lost, repeated or overtaken by the owner.
THEOREM RegistrationsAreKept == HandlersSpec => RegistrationKeeps
<1>1. HandlersInv => DoneIsRegistered
    BY AccountInvShows DEF HandlersInv
<1>2. HandlersInv
      => [Serve /\ request.preserve /\ home' # home => home = "nowhere" /\ platform = "thinq2"]_accountVars
    BY ServingPreserves DEF HandlersInv
<1> QED
    BY <1>1, <1>2, HandlersInvariantHolds, PTL DEF RegistrationKeeps, PreservedStays

\* The acknowledgement of the loop's own request schedules no reading (processResponse(),
\* ignoreAckOnlyUntil): it comes before the second is over, in every interleaving.
THEOREM LoopDoesNotFeedItself == HandlersSpec => OwnAcksAreIgnored
<1>1. HandlersInv /\ [HandlersNext]_<<vars, monVars, haVars, accountVars, reportVars, part>>
      => [acks.own /\ ~acks'.own => ticking' \subseteq ticking]_monVars
    <2> SUFFICES ASSUME HandlersInv,
                        [HandlersNext]_<<vars, monVars, haVars, accountVars, reportVars, part>>,
                        acks.own, ~acks'.own, ~UNCHANGED monVars
                 PROVE  ticking' \subseteq ticking
        OBVIOUS
    <2>1. MonInv /\ MonNext
        BY DEF HandlersNext, HandlersInv
    <2> QED
        BY <2>1, OwnAckEnds, OwnAckSchedulesNothing
<1> QED
    BY <1>1, HandlersInvariantHolds, PTL DEF HandlersSpec, OwnAcksAreIgnored
=============================================================================
