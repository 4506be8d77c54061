------------------------------ MODULE MCHandlers ------------------------------
(***************************************************************************)
(* What handlers ask of their appliances and when, and what Home Assistant *)
(* and the manufacturer keep of them, on small instances in one run.  The  *)
(* parts share no state: `part` says which one moves, and the others stay  *)
(* as they began.                                                          *)
(***************************************************************************)
EXTENDS TlvHandler, MonitorLoop, HaConnection, LgAccount, CloudReports

VARIABLE part

ASSUME HandlersAssumption == HaAssumption /\ AccountAssumption /\ ReportsAssumption

HandlersInit ==
    /\ part \in {"tlv", "monitor", "ha", "account", "reports"}
    /\ Init
    /\ MonInit /\ (part # "monitor" => power.is = "off")
    /\ HaInit
    /\ part # "ha" =>
         \A a \in DOMAIN retained : retained[a].values = {} /\ retained[a].available = "none"
    /\ AccountInit /\ (part # "account" => home = "nowhere" /\ platform = "thinq1")
    /\ ReportsInit /\ (part # "reports" => newest = 0)

HandlersNext ==
    /\ UNCHANGED part
    /\ \/ part = "tlv" /\ Next /\ UNCHANGED <<monVars, haVars, accountVars, reportVars>>
       \/ part = "monitor" /\ MonNext /\ UNCHANGED <<vars, haVars, accountVars, reportVars>>
       \/ part = "ha" /\ HaNext /\ UNCHANGED <<vars, monVars, accountVars, reportVars>>
       \/ part = "account" /\ AccountNext /\ UNCHANGED <<vars, monVars, haVars, reportVars>>
       \/ part = "reports" /\ ReportsNext /\ UNCHANGED <<vars, monVars, haVars, accountVars>>

HandlersSpec ==
    /\ HandlersInit /\ [][HandlersNext]_<<vars, monVars, haVars, accountVars, reportVars, part>>
    /\ Fairness /\ MonFairness

-----------------------------------------------------------------------------
\* The type invariants of the parts: every change of a part has values of its types.
HandlersTypeOK ==
    TypeOK /\ MonTypeOK /\ HaTypeOK /\ AccountTypeOK /\ ReportsTypeOK

\* A handler always has a next step to take, towards the configuration and from one
\* reading of the appliance to the next; an active appliance is polled often and an idle
\* one not for ever; and only one that is silent is shown as unavailable.
PollingGoesOn ==
    NextStepScheduled /\ LoopGoesOn /\ PollRateFollows /\ OfflineIsSilent

\* A command to an appliance that says nothing of itself is read back; the loop's own
\* acknowledgements are not taken for the panel's, or it would feed itself.
CommandsAreReadBack == OwedIsReadBack /\ OwnAcksAreIgnored

\* Home Assistant is shown what is: no appliance of an earlier process, no value that
\* no entity refers to, and all that an announced entity has published; and the
\* manufacturer's cloud, when it watches, the newest report and never an older one.
ToldIsTrue == AvailabilityIsTrue /\ SweepIsExact /\ WatchedIsCurrent

\* A registration that succeeds has the appliance in the owner's home, and one that
\* preserves takes nothing away, whatever is lost, repeated or done by the owner.
RegistrationKeeps == []DoneIsRegistered /\ PreservedStays
=============================================================================
