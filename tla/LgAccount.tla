------------------------------- MODULE LgAccount -------------------------------
(***************************************************************************)
(* Registering an appliance with the owner's LG account: register() of     *)
(* bridge/index.ts over the requests of bridge/thinqApi.ts.                *)
(*                                                                         *)
(* It is a chain of requests to a service that the owner uses at the same  *)
(* time.  A request that fails is repeated, also when it had been served   *)
(* and only its answer was lost; a request whose connection failed is not  *)
(* served later.  BridgeForwarding sees one renewal that takes its time.   *)
(***************************************************************************)
EXTENDS Naturals

CONSTANT
    MaxRepeats  \* of a failed request: i >= 3

AccountAssumption == MaxRepeats \in Nat

VARIABLES
    home,      \* where the service has the appliance, and under whose name
    platform,  \* of the appliance
    gateway,   \* Client.gatewayCache
    request    \* register()

accountVars == <<home, platform, gateway, request>>

InHome == {"named", "rethink"}  \* by its owner, or as "Rethink ..."

Repeated == {"list", "remove", "add", "relist", "reset"}

Request ==
    [call : {"none", "login", "otp", "pair", "done", "failed"} \cup Repeated,
     answer : {"none", "ok", "listed", "absent", "unknown", "taken", "refused"},
     repeats : 0..MaxRepeats,
     preserve : BOOLEAN,
     existing : BOOLEAN,
     why : {"none", "trouble", "refused"},
     alone : BOOLEAN]  \* history: the owner has left the registration alone

AccountTypeOK ==
    /\ home \in {"nowhere", "elsewhere"} \cup InHome
    /\ platform \in {"thinq1", "thinq2"}
    /\ gateway \in {"none", "asked", "known", "failed"}
    /\ request \in Request

NoRequest ==
    [call |-> "none", answer |-> "none", repeats |-> 0, preserve |-> FALSE, existing |-> FALSE,
     why |-> "none", alone |-> TRUE]

-----------------------------------------------------------------------------
\* What the service does and answers.
Lists == [home |-> home, answer |-> IF home \in InHome THEN "listed" ELSE "absent"]

Removes ==
    IF home \in InHome THEN [home |-> "nowhere", answer |-> "ok"]
    ELSE [home |-> home, answer |-> "unknown"]

Adds ==
    IF home = "nowhere" THEN [home |-> "rethink", answer |-> "ok"]
    ELSE [home |-> home, answer |-> "taken"]

Resets ==
    IF home # "nowhere" THEN [home |-> "rethink", answer |-> "ok"]
    ELSE [home |-> home, answer |-> "refused"]

Served(call) ==
    CASE call \in {"list", "relist"} -> Lists
      [] call = "remove" -> Removes
      [] call = "add"    -> Adds
      [] call = "reset"  -> Resets

-----------------------------------------------------------------------------
Ask(call) == [request EXCEPT !.call = call, !.answer = "none", !.repeats = 0]

Fails(why) == [Ask("failed") EXCEPT !.why = why]

Continues(r) == request' = r /\ UNCHANGED <<home, platform, gateway>>

\* The first Client of a country asks for the gateway, all others share its answer.
Register(preserve) ==
    /\ request.call \in {"none", "done", "failed"}
    /\ request' = [NoRequest EXCEPT !.call = "login", !.preserve = preserve]
    /\ gateway' = IF gateway = "none" THEN "asked" ELSE gateway
    /\ UNCHANGED <<home, platform>>

GatewayAnswers ==
    /\ gateway = "asked"
    /\ gateway' \in {"known", "failed"}
    /\ UNCHANGED <<home, platform, request>>

\* auth(): refresh() and the profile are not repeated.
LogsIn ==
    /\ request.call = "login" /\ gateway = "known"
    /\ Continues(Ask(IF request.preserve THEN "list" ELSE "remove"))

LoginFails ==
    /\ request.call = "login" /\ gateway \in {"known", "failed"}
    /\ Continues(Fails("trouble"))

\* The service gets a request, for the first time or again.
Serve ==
    LET s == Served(request.call) IN
    /\ request.call \in Repeated /\ request.answer = "none"
    /\ home' = s.home
    /\ request' = [request EXCEPT !.answer = s.answer]
    /\ UNCHANGED <<platform, gateway>>

\* apiFetch(): the request or its answer is lost.
FetchFails ==
    /\ request.call \in Repeated
    /\ Continues(IF request.repeats < MaxRepeats
                 THEN [request EXCEPT !.answer = "none", !.repeats = @ + 1]
                 ELSE Fails("trouble"))

\* A ThinQ1 appliance has nothing to pair with.
Listed ==
    LET r == [Ask("otp") EXCEPT !.existing = (request.answer = "listed")] IN
    /\ request.call = "list" /\ request.answer # "none"
    /\ Continues(IF platform = "thinq2" THEN r
                 ELSE IF r.existing THEN [r EXCEPT !.call = "done"] ELSE Fails("refused"))

RemovedOnlyNow ==
    /\ request.call = "remove" /\ request.answer # "none"
    /\ Continues(IF request.answer = "unknown" THEN Fails("refused")
                 ELSE Ask(IF platform = "thinq1" THEN "add" ELSE "otp"))

\* removeDevice(): an appliance that is not there is as good as removed.
Removed ==
    /\ request.call = "remove" /\ request.answer \in {"ok", "unknown"}
    /\ Continues(Ask(IF platform = "thinq1" THEN "add" ELSE "otp"))

GetsOtp == request.call = "otp" /\ Continues(Ask("pair"))

\* pair(): a certificate for the appliance, whoever has it at home.
Pairs == request.call = "pair" /\ Continues(Ask(IF request.existing THEN "done" ELSE "add"))

\* The service refuses for a reason of its own, or is not there.
ServiceFails ==
    /\ request.call \in Repeated \cup {"otp", "pair"} /\ request.answer = "none"
    /\ Continues(Fails("trouble"))

AddedAnyway ==
    /\ request.call = "add" /\ request.answer # "none"
    /\ Continues(Ask(IF request.answer = "ok" THEN "done" ELSE "reset"))

\* addDevice(): who preserves what is there looks where it is, others take it.
Added ==
    /\ request.call = "add" /\ request.answer # "none"
    /\ Continues(Ask(CASE request.answer = "ok" -> "done"
                       [] request.answer = "taken" /\ request.preserve -> "relist"
                       [] request.answer = "taken" /\ ~request.preserve -> "reset"))

Relisted ==
    /\ request.call = "relist" /\ request.answer # "none"
    /\ Continues(IF request.answer = "listed" THEN Ask("done") ELSE Fails("refused"))

WasReset ==
    /\ request.call = "reset" /\ request.answer # "none"
    /\ Continues(IF request.answer = "ok" THEN Ask("done") ELSE Fails("refused"))

\* The owner adds, names, removes or moves the appliance in LG's app.
OwnerChanges ==
    /\ home' \in {"named", "nowhere", "elsewhere"} \ {home}
    /\ request' = [request EXCEPT !.alone = FALSE]
    /\ UNCHANGED <<platform, gateway>>

Restarts ==
    /\ gateway' = "none" /\ request' = NoRequest
    /\ UNCHANGED <<home, platform>>

AccountInit ==
    /\ home \in {"nowhere", "elsewhere"} \cup InHome
    /\ platform \in {"thinq1", "thinq2"}
    /\ gateway = "none" /\ request = NoRequest

AccountNext ==
    \/ \E preserve \in BOOLEAN : Register(preserve)
    \/ GatewayAnswers \/ LogsIn \/ LoginFails
    \/ Serve \/ FetchFails
    \/ Listed \/ Removed \/ GetsOtp \/ Pairs \/ Added \/ Relisted \/ WasReset
    \/ ServiceFails \/ OwnerChanges \/ Restarts

-----------------------------------------------------------------------------
\* preserve_existing_devices: what is registered in a home, this or another, stays as it
\* is, whatever is lost and repeated and whenever the owner adds it (README.md:147); a
\* ThinQ1 appliance is not even added (bridge/index.ts:438).
PreservedStays ==
    [][Serve /\ request.preserve /\ home' # home => home = "nowhere" /\ platform = "thinq2"]_accountVars

\* A registration that succeeds has the appliance in the owner's home, and it is not the
\* service that lets one fail because an answer was lost, unless the owner acted meanwhile.
DoneIsRegistered ==
    request.alone =>
        /\ request.call = "done" => home \in InHome
        /\ request.why = "refused" => request.preserve /\ home \notin InHome
=============================================================================
