------------------------------ MODULE TlvHandler ------------------------------
(***************************************************************************)
(* What a handler asks of its appliance, and when.                         *)
(*                                                                         *)
(* TLVDevice (devices/tlv_device.ts) asks for capabilities, then for       *)
(* values, then at intervals; the air conditioners (RAC_056905_WW.ts, and  *)
(* PAC_910604_WW.ts in the same words) lift the masking of reports and     *)
(* probe the filter before they tell Home Assistant what there is.  Eight  *)
(* timers run between reports that come when they like; the appliance may  *)
(* not answer, answer something else, or go away.                          *)
(***************************************************************************)
EXTENDS Naturals

\* UNANSWERED_QUERIES_BEFORE_SILENT
MaxUnanswered == 3

VARIABLES
    link,      \* of the appliance: "gone" while the grace timer runs, then "none"
    timers,    \* that run
    handler,
    asked,     \* questions the appliance may still answer
    available, \* the retained availability topic
    trace      \* history: what was heard

vars == <<link, timers, handler, asked, available, trace>>

Timer == {"caps", "values", "poll", "write", "masking", "probe", "slowdown", "filter"}

Handler == [initial : BOOLEAN,     \* initialValuesReceived
            config : BOOLEAN,      \* setConfig() was called
            filter : BOOLEAN,      \* filterLifeTime is known
            fast : BOOLEAN,        \* query_last_interval
            unanswered : 0..MaxUnanswered,
            silent : BOOLEAN]

\* Whether the appliance was last heard to be active; polls since it was heard at all.
Trace == [active : BOOLEAN, polls : 0..MaxUnanswered]

NoTrace == [active |-> FALSE, polls |-> 0]

TypeOK ==
    /\ link \in {"up", "gone", "none"}
    /\ timers \in SUBSET Timer
    /\ handler \in Handler
    /\ asked \in SUBSET {"caps", "values", "filter", "reset"}
    /\ available \in {"unknown", "online", "offline"}
    /\ trace \in Trace
    /\ handler.silent <=> handler.unanswered = MaxUnanswered

-----------------------------------------------------------------------------
World == [link |-> link, timers |-> timers, handler |-> handler, asked |-> asked,
          available |-> available, trace |-> trace]

Becomes(w) ==
    /\ link' = w.link /\ timers' = w.timers /\ handler' = w.handler
    /\ asked' = w.asked /\ available' = w.available /\ trace' = w.trace

\* A packet to an appliance that is away reaches nobody.
Send(w, question) ==
    IF w.link = "up" THEN [w EXCEPT !.asked = @ \cup {question}] ELSE w

QueryCaps(w) == Send(w, "caps")

Query(w) == Send(w, "values")

Running(w, t) == [w EXCEPT !.timers = @ \cup {t}]
Cleared(w, t) == [w EXCEPT !.timers = @ \ {t}]

HeardKeepingCount(w) ==
    [w EXCEPT !.handler.silent = FALSE,
              !.available = IF w.handler.silent THEN "online" ELSE @]

HeardKeepingSilent(w) == [w EXCEPT !.handler.unanswered = 0]

\* heard(): the appliance answered, so what it says is current again.
Heard(w) ==
    [w EXCEPT !.handler.unanswered = 0,
              !.handler.silent = FALSE,
              !.available = IF w.handler.silent THEN "online" ELSE @]

\* askedForRefresh(): only refreshes are counted, not the retries of the start.
AskedForRefresh(w) ==
    LET n == w.handler.unanswered + 1
        counted == IF n > MaxUnanswered THEN w ELSE [w EXCEPT !.handler.unanswered = n]
    IN  IF n < MaxUnanswered \/ w.handler.silent THEN counted
        ELSE [counted EXCEPT !.handler.silent = TRUE, !.available = "offline"]

\* setQueryInterval(); `due`: the last query is longer ago than the new interval.
SetQueryInterval(w, fast, due) ==
    IF "poll" \notin w.timers THEN [Running(w, "poll") EXCEPT !.handler.fast = fast]
    ELSE IF w.handler.fast = fast THEN w
    ELSE [(IF due THEN Query(w) ELSE w) EXCEPT !.handler.fast = fast]

UpdateQueryIntervalLate(w, increase, due) ==
    IF increase THEN SetQueryInterval(w, TRUE, due)
    ELSE IF "slowdown" \in w.timers THEN w ELSE Running(w, "slowdown")

\* updateQueryInterval(): often while the appliance is active and 15 minutes longer.
UpdateQueryInterval(w, increase, due) ==
    IF increase THEN SetQueryInterval(Cleared(w, "slowdown"), TRUE, due)
    ELSE IF "slowdown" \in w.timers THEN w ELSE Running(w, "slowdown")

\* publishConfig(): what is announced is available.
PublishConfig(w) == IF w.handler.config THEN [w EXCEPT !.available = "online"] ELSE w

\* initMakeSetConfig()
MakeConfig(w) ==
    LET announced == PublishConfig([w EXCEPT !.handler.config = TRUE])
    IN  Query(IF w.handler.filter THEN Running(announced, "filter") ELSE announced)

\* valuesReceived(): once; the masking of reports is lifted first.
ValuesReceived(w) ==
    IF w.handler.initial THEN w ELSE Running([w EXCEPT !.handler.initial = TRUE], "masking")

ProcessTLVOnce(w, caps, values) ==
    LET first == IF caps /\ "caps" \in w.timers THEN Query(Cleared(w, "caps")) ELSE w
    IN  IF values /\ "caps" \notin first.timers THEN ValuesReceived(first) ELSE first

\* processTLV(): capabilities count once, values only after them.
ProcessTLV(w, caps, values) ==
    LET first == IF caps /\ "caps" \in w.timers
                 THEN Running(Query(Cleared(w, "caps")), "values") ELSE w
    IN  IF values /\ "caps" \notin first.timers
        THEN ValuesReceived(Cleared(first, "values")) ELSE first

\* updateClimateAction(), called while the keys of a report are read.
ClimateAction(w, action, due) ==
    IF ~w.handler.config \/ action = "unchanged" THEN w
    ELSE UpdateQueryInterval([w EXCEPT !.trace.active = (action = "active")],
                             action = "active", due)

ProcessData(w, caps, values, action, due) ==
    ProcessTLV(ClimateAction(Heard([w EXCEPT !.trace.polls = 0]), action, due), caps, values)

Actions == {"unchanged", "active", "idle"}

-----------------------------------------------------------------------------
\* The appliance answers, not always what it was asked.
Reply(question, caps, values) ==
    /\ question \in asked \cap {"caps", "values"}
    /\ \E action \in Actions, due \in BOOLEAN :
           Becomes(ProcessData([World EXCEPT !.asked = @ \ {question}], caps, values, action, due))

\* It reports a change by itself; fixed-layout pushes are never complete here.
Report(values) ==
    /\ link = "up"
    /\ \E action \in Actions, due \in BOOLEAN :
           Becomes(ProcessData(World, FALSE, values, action, due))

\* processFilterData()
FilterData(known) ==
    LET w == [World EXCEPT !.asked = @ \ {"filter"}, !.handler.filter = known] IN
    /\ "filter" \in asked
    /\ Becomes(IF "probe" \in timers THEN MakeConfig(Cleared(w, "probe")) ELSE w)

\* processFilterCmdResp()
ResetDone(success) ==
    LET w == [World EXCEPT !.asked = @ \ {"reset"}] IN
    /\ "reset" \in asked
    /\ Becomes(IF success THEN Send(w, "filter") ELSE w)

Lost(question) ==
    /\ question \in asked
    /\ asked' = asked \ {question}
    /\ UNCHANGED <<link, timers, handler, available, trace>>

-----------------------------------------------------------------------------
\* Timers.
CapsTimer == "caps" \in timers /\ Becomes(QueryCaps(World))

ValuesTimer == "values" \in timers /\ Becomes(Query(World))

\* Between the first values and the configuration lie 5.5 s, and between two polls 28 s.
Poll ==
    /\ "poll" \in timers
    /\ timers \cap {"masking", "probe"} # {} => handler.unanswered = 0
    /\ Becomes(Query(AskedForRefresh(
           [World EXCEPT !.trace.polls = IF @ = MaxUnanswered THEN @ ELSE @ + 1])))

MaskingTimer(probe) ==
    LET w == Cleared(World, "masking") IN
    /\ "masking" \in timers
    /\ Becomes(IF probe THEN Running(Send(w, "filter"), "probe") ELSE MakeConfig(w))

ProbeTimer == "probe" \in timers /\ Becomes(MakeConfig(Cleared(World, "probe")))

SlowdownTimer(due) ==
    /\ "slowdown" \in timers
    /\ Becomes(SetQueryInterval(Cleared(World, "slowdown"), FALSE, due))

FilterTimer == "filter" \in timers /\ Becomes(Send(World, "filter"))

WriteTimer == "write" \in timers /\ Becomes(Query(Cleared(World, "write")))

-----------------------------------------------------------------------------
\* Home Assistant.
Write ==
    /\ link # "none" /\ handler.config
    /\ Becomes(Running(World, "write"))

FilterReset ==
    /\ link # "none" /\ handler.config /\ handler.filter
    /\ Becomes(Send(World, "reset"))

\* refreshDiscovery(), when Home Assistant or its broker has restarted.
Discovery == link # "none" /\ Becomes(PublishConfig(World))

-----------------------------------------------------------------------------
\* The appliance comes and goes.
Closes ==
    /\ link = "up"
    /\ link' = "gone" /\ asked' = {}
    /\ UNCHANGED <<timers, handler, available, trace>>

NewHandler == [initial |-> FALSE, config |-> FALSE, filter |-> FALSE, fast |-> FALSE,
               unanswered |-> 0, silent |-> FALSE]

\* HA_bridge.newDevice(): the handler it replaces, if any, is silenced.
Connects ==
    /\ link # "up"
    /\ link' = "up" /\ timers' = {"caps", "poll"} /\ handler' = NewHandler /\ asked' = {"caps"}
    /\ trace' = NoTrace
    /\ UNCHANGED available

\* drop(), when the grace period is over.
Drop ==
    /\ link = "gone"
    /\ link' = "none" /\ timers' = {} /\ handler' = NewHandler /\ available' = "offline"
    /\ trace' = NoTrace
    /\ UNCHANGED asked

Init ==
    /\ link = "none" /\ timers = {} /\ handler = NewHandler /\ asked = {}
    /\ available \in {"unknown", "offline"}
    /\ trace = NoTrace

TimerFires ==
    \/ CapsTimer \/ ValuesTimer \/ Poll \/ ProbeTimer \/ FilterTimer \/ WriteTimer
    \/ \E choice \in BOOLEAN : MaskingTimer(choice) \/ SlowdownTimer(choice)

Next ==
    \/ \E question \in {"caps", "values"}, caps, values \in BOOLEAN : Reply(question, caps, values)
    \/ \E b \in BOOLEAN : Report(b) \/ FilterData(b) \/ ResetDone(b)
    \/ \E question \in asked : Lost(question)
    \/ TimerFires
    \/ Write \/ FilterReset \/ Discovery
    \/ Closes \/ Connects \/ Drop

Spec == Init /\ [][Next]_vars

\* Timers fire, and an appliance that is asked again and again answers at last.
Fairness ==
    /\ WF_vars(CapsTimer) /\ WF_vars(ValuesTimer) /\ SF_vars(Poll) /\ WF_vars(ProbeTimer)
    /\ WF_vars(\E probe \in BOOLEAN : MaskingTimer(probe))
    /\ SF_vars(\E values \in BOOLEAN : Reply("caps", TRUE, values))
    /\ SF_vars(\E caps \in BOOLEAN : Reply("values", caps, TRUE))

-----------------------------------------------------------------------------
\* Properties

\* The way from the first question to the configuration is five steps long and its
\* appliance may be silent at each: something is always about to take the next one.
NextStepScheduled ==
    link # "none" =>
        /\ "poll" \in timers
        /\ handler.config \/ timers \cap {"caps", "values", "masking", "probe"} # {}

\* Reports that an appliance is active or idle race the timer that ends the frequent
\* polling: it is frequent while the appliance is active, and not for ever after.
PollRateFollows ==
    /\ trace.active => handler.fast
    /\ handler.fast /\ ~trace.active => "slowdown" \in timers

\* "An appliance can be connected and say nothing for hours": one that is configured is
\* shown as unavailable only when it was polled three times and has said nothing since,
\* whatever was asked, retried or announced besides.
OfflineIsSilent ==
    link # "none" /\ handler.config /\ available # "online" => trace.polls = MaxUnanswered

\* A connected appliance that answers sooner or later is announced and available,
\* however often it answered something else, or nothing, before.
AnsweringIsShown == []<>(link # "up" \/ (handler.config /\ available = "online"))

\* askedForRefresh() says of a silent appliance that "its entities are unavailable
\* until it does" answer.
SilentIsUnavailable == handler.silent => available = "offline"
=============================================================================
