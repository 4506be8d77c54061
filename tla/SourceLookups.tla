----------------------------- MODULE SourceLookups -----------------------------
(***************************************************************************)
(* RouterMQTTSourceResolver (router/mqtt-source.ts) with the SSH client    *)
(* (router/ssh-client.ts) it asks the router through: which appliance is   *)
(* behind a connection that the router translated.                         *)
(*                                                                         *)
(* Two lookups talk to the router at a time and sixteen wait.  The         *)
(* broker's client may go away, ten seconds may pass, the inventory and    *)
(* the router's settings may change, and SSH may fail, at any of its steps.*)
(***************************************************************************)
EXTENDS Naturals, Sequences, SequencesExt, FiniteSetsExt

CONSTANTS
    Lookups,
    Addresses,  \* of appliances
    MaxLookups, MaxWaiting

LookupAssumption ==
    /\ MaxLookups \in Nat \ {0} /\ MaxWaiting \in Nat
    /\ "none" \notin Addresses /\ "denied" \notin Addresses

VARIABLES
    config,     \* the version of the router's settings; 0: they are not complete
    listed,     \* addresses that one entry which may speak MQTT has
    lookup,
    lookups,    \* active
    jobs        \* queue

lookupVars == <<config, listed, lookup, lookups, jobs>>

Configs == 0..2

\* The operation of the SSH client that a lookup waits for; "ending" is after the last.
Steps == {"idle", "queued", "connecting", "executing", "ending"}

Lookup == [step : Steps,
           config : Configs,            \* when it was asked for
           answer : {"none", "denied"} \cup Addresses]

NoLookup == [step |-> "idle", config |-> 0, answer |-> "denied"]

LookupTypeOK ==
    /\ config \in Configs /\ listed \in SUBSET Addresses
    /\ lookup \in [Lookups -> Lookup]
    /\ lookups \in 0..MaxLookups
    /\ jobs \in Seq(Lookups)

-----------------------------------------------------------------------------
World == [lookup |-> lookup, lookups |-> lookups, jobs |-> jobs]

LookupBecomes(w) ==
    /\ lookup' = w.lookup /\ lookups' = w.lookups /\ jobs' = w.jobs
    /\ UNCHANGED <<config, listed>>

\* finish(): the first answer counts, and who waits in the queue leaves it.
Finish(w, l, answer) ==
    IF w.lookup[l].answer # "none" THEN w
    ELSE [w EXCEPT !.lookup[l].answer = answer,
                   !.lookup[l].step = IF @ = "queued" THEN "idle" ELSE @,
                   !.jobs = RemoveFirst(@, l)]

FinishInQueue(w, l, answer) ==
    IF w.lookup[l].answer # "none" THEN w ELSE [w EXCEPT !.lookup[l].answer = answer]

\* run(), unless somebody answered in the meantime.
Run(w, l) ==
    IF w.lookup[l].answer # "none" THEN w
    ELSE [w EXCEPT !.lookup[l].step = "connecting", !.lookups = @ + 1]

\* resolve(): an address of its own needs no lookup; the other tests are one.
ResolveDirectly(l, answer) ==
    /\ lookup[l].step = "idle"
    /\ answer \in listed \cup {"denied"}
    /\ LookupBecomes([World EXCEPT !.lookup[l] = [NoLookup EXCEPT !.answer = answer]])

Resolve(l) ==
    LET asked == [World EXCEPT !.lookup[l] = [NoLookup EXCEPT !.config = config, !.answer = "none"]] IN
    /\ lookup[l].step = "idle" /\ config # 0
    /\ lookups < MaxLookups \/ Len(jobs) < MaxWaiting
    /\ LookupBecomes(IF lookups < MaxLookups THEN Run(asked, l)
               ELSE [asked EXCEPT !.lookup[l].step = "queued", !.jobs = Append(@, l)])

\* cancel(): the client went away or the deadline passed.  The caller is answered and
\* the SSH operation destroys its connection; the slot is given back when it has ended.
Cancel(l) ==
    LET w == Finish(World, l, "denied") IN
    /\ lookup[l].answer = "none"
    /\ LookupBecomes(IF w.lookup[l].step = "idle" THEN w ELSE [w EXCEPT !.lookup[l].step = "ending"])

\* connect() and exec() are each settled once: by their result, or by an error, the
\* connection's close, their timer or too much output, after which it is destroyed.
Connected(l) ==
    /\ lookup[l].step = "connecting"
    /\ LookupBecomes([World EXCEPT !.lookup[l].step = "executing"])

SshFails(l) ==
    /\ lookup[l].step \in {"connecting", "executing"}
    /\ LookupBecomes([World EXCEPT !.lookup[l].step = "ending"])

\* `finally`: the connection is closed, and the next job takes over the slot.
Release(w, l) ==
    LET done == [Finish(w, l, "denied") EXCEPT !.lookup[l].step = "idle", !.lookup[l].config = 0, !.lookups = @ - 1]
    IN  IF done.jobs = <<>> THEN done ELSE Run([done EXCEPT !.jobs = Tail(@)], Head(done.jobs))

ReleaseAlone(w, l) ==
    [Finish(w, l, "denied") EXCEPT !.lookup[l].step = "idle", !.lookup[l].config = 0, !.lookups = @ - 1]

Ended(l) == lookup[l].step = "ending" /\ LookupBecomes(Release(World, l))

ExecutedUnchecked(l, origin) ==
    /\ lookup[l].step = "executing"
    /\ LookupBecomes(Release(Finish(World, l, origin), l))

\* The connection table names an origin, or none.  The settings must be the ones that
\* were asked with, and the origin must be listed now.
Executed(l, origin) ==
    LET valid == config = lookup[l].config /\ origin \in listed
    IN  /\ lookup[l].step = "executing"
        /\ LookupBecomes(Release(Finish(World, l, IF valid THEN origin ELSE "denied"), l))

\* The owner edits the inventory or the router's settings.
Edit ==
    /\ config' \in Configs /\ listed' \in SUBSET Addresses
    /\ UNCHANGED <<lookup, lookups, jobs>>

LookupInit ==
    /\ config = 1 /\ listed \in SUBSET Addresses
    /\ lookup = [l \in Lookups |-> NoLookup] /\ lookups = 0 /\ jobs = <<>>

LookupNext ==
    \/ \E l \in Lookups :
        \/ \E answer \in Addresses \cup {"denied"} : ResolveDirectly(l, answer)
        \/ Resolve(l) \/ Cancel(l) \/ Connected(l) \/ SshFails(l) \/ Ended(l)
        \/ \E origin \in Addresses \cup {"denied"} : Executed(l, origin)
    \/ Edit

\* The deadline fires, and an operation that was settled runs its continuation.
LookupFairness == \A l \in Lookups : WF_lookupVars(Cancel(l)) /\ WF_lookupVars(Ended(l))

LookupSpec == LookupInit /\ [][LookupNext]_lookupVars /\ LookupFairness

-----------------------------------------------------------------------------
Talking == {l \in Lookups : lookup[l].step \in {"connecting", "executing", "ending"}}

LookupPool == INSTANCE BoundedPool
                  WITH Jobs <- Lookups, Slots <- MaxLookups, Places <- MaxWaiting,
                       waiting <- jobs, running <- Talking, shut <- FALSE

\* A slot is held from the first SSH operation to the last and lost by no cancellation;
\* a job waits only while all slots are held, and each one in the queue still wants its
\* answer: an answered one at its head would be shifted, not run, and end the chain.
LookupSlotsBalance ==
    /\ lookups = Cardinality(Talking)
    /\ jobs # <<>> => lookups = MaxLookups
    /\ IsInjective(jobs) /\ ToSet(jobs) = {l \in Lookups : lookup[l].step = "queued"}
    /\ \A l \in Lookups :
        /\ lookup[l].answer = "none" => lookup[l].step # "idle"
        /\ lookup[l].step = "queued" => lookup[l].answer = "none"

\* An address that is answered is listed, and the settings are still those the lookup
\* began with, although either may change while SSH is waited for.
AnswersAreCurrent ==
    [][\A l \in Lookups :
        (lookup[l].answer = "none" /\ lookup'[l].answer \in Addresses) =>
            lookup'[l].answer \in listed /\ config = lookup[l].config]_lookupVars

\* Every lookup is answered, and its slot comes back.
LookupEnds(l) == lookup[l].step # "idle" ~> lookup[l].step = "idle"

LookupsEnd == \A l \in Lookups : LookupEnds(l)
=============================================================================
