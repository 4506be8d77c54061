---------------------------- MODULE SniCertificates ----------------------------
(***************************************************************************)
(* SNICertificateProvider (util/sni-certificates.ts): certificates for the *)
(* names appliances ask for.                                               *)
(*                                                                         *)
(* Two openssl jobs run at a time and sixteen wait; who asks for a name    *)
(* that is being issued shares its job.  A job that waits is given up at   *)
(* its deadline, one that runs is aborted and keeps its slot until openssl *)
(* has ended, and close() does both to all of them.                        *)
(***************************************************************************)
EXTENDS Naturals, Sequences, SequencesExt, FiniteSetsExt

CONSTANTS
    Hosts,
    Handshakes,  \* that ask for a certificate
    MaxActive, MaxQueued, MaxCache

CertificateAssumption ==
    MaxActive \in Nat \ {0} /\ MaxQueued \in Nat /\ MaxCache \in Nat \ {0} /\ Hosts # {}

VARIABLES
    task,      \* `pending`, by host name
    queue,
    active,
    cache,     \* host names, the one to be evicted first
    closed,    \* "open", "closing" while close() waits, "closed"
    handshake

certVars == <<task, queue, active, cache, closed, handshake>>

NoTask == [started |-> FALSE, aborted |-> FALSE, timer |-> FALSE]

NewTask == [started |-> FALSE, aborted |-> FALSE, timer |-> TRUE]

Task == [started : BOOLEAN, aborted : BOOLEAN, timer : BOOLEAN]

Handshake == [host : Hosts, state : {"idle", "waiting", "issued", "failed"}]

Pending(w) == {h \in Hosts : w.task[h].timer \/ w.task[h].aborted}

CertTypeOK ==
    /\ task \in [Hosts -> Task]
    /\ queue \in Seq(Hosts)
    /\ active \in 0..MaxActive
    /\ cache \in Seq(Hosts) /\ Len(cache) <= MaxCache /\ IsInjective(cache)
    /\ closed \in {"open", "closing", "closed"}
    /\ handshake \in [Handshakes -> Handshake]

-----------------------------------------------------------------------------
CertWorld == [task |-> task, queue |-> queue, active |-> active, cache |-> cache, handshake |-> handshake]

CertBecomes(w) ==
    /\ task' = w.task /\ queue' = w.queue /\ active' = w.active /\ cache' = w.cache
    /\ handshake' = w.handshake

\* drain(): jobs are started in order while there are slots.
Drain(w) ==
    LET n == IF closed = "open" THEN Min({MaxActive - w.active, Len(w.queue)}) ELSE 0
        first == ToSet(SubSeq(w.queue, 1, n))
    IN  [w EXCEPT !.task = [h \in Hosts |-> [w.task[h] EXCEPT !.started = @ \/ h \in first]],
                  !.queue = SubSeq(w.queue, n + 1, Len(w.queue)),
                  !.active = @ + n]

\* The promises of tasks are settled for everyone who shares them.
Settle(w, hosts, how) ==
    [w EXCEPT !.handshake = [r \in Handshakes |->
        IF w.handshake[r].state = "waiting" /\ w.handshake[r].host \in hosts
        THEN [w.handshake[r] EXCEPT !.state = how] ELSE w.handshake[r]]]

FinishWithoutDrain(w, h, how) ==
    [Settle(w, {h}, how) EXCEPT !.task[h] = NoTask, !.queue = RemoveFirst(@, h),
                              !.active = IF w.task[h].started THEN @ - 1 ELSE @]

FinishUncounted(w, h, how) ==
    Drain([Settle(w, {h}, how) EXCEPT !.task[h] = NoTask, !.queue = RemoveFirst(@, h)])

\* finish(): the slot of a job that had one goes to the next.
FinishTask(w, h, how) ==
    Drain([Settle(w, {h}, how) EXCEPT !.task[h] = NoTask, !.queue = RemoveFirst(@, h),
                                    !.active = IF w.task[h].started THEN @ - 1 ELSE @])

\* A certificate that is new or was asked for again is the last to be evicted.
Cached(s, h) ==
    LET kept == Append(RemoveFirst(s, h), h)
    IN  IF Len(kept) > MaxCache THEN Tail(kept) ELSE kept

\* issue(), called for a name in a ClientHello that is a host name.
Issue(r, h) ==
    /\ handshake[r].state # "waiting"
    /\ LET answered(how) == [CertWorld EXCEPT !.handshake[r] = [host |-> h, state |-> how]]
       IN  CertBecomes(
           IF closed # "open" THEN answered("failed")
           ELSE IF Contains(cache, h) THEN [answered("issued") EXCEPT !.cache = Cached(@, h)]
           ELSE IF h \in Pending(CertWorld) THEN answered("waiting")
           ELSE IF active >= MaxActive /\ Len(queue) >= MaxQueued THEN answered("failed")
           ELSE Drain([answered("waiting") EXCEPT !.task[h] = NewTask, !.queue = Append(@, h)]))
    /\ UNCHANGED closed

Aborted(w, h) == [w EXCEPT !.task[h].aborted = TRUE]

\* The deadline of a task passes.
Deadline(h) ==
    /\ task[h].timer
    /\ LET w == [Aborted(CertWorld, h) EXCEPT !.task[h].timer = FALSE]
       IN  CertBecomes(IF task[h].started THEN w ELSE FinishTask(w, h, "failed"))
    /\ UNCHANGED closed

GeneratedUnchecked(h, success) ==
    /\ task[h].started
    /\ CertBecomes(IF ~success THEN FinishTask(CertWorld, h, "failed")
               ELSE FinishTask([CertWorld EXCEPT !.cache = Cached(@, h)], h, "issued"))
    /\ UNCHANGED closed

\* The last openssl of generate() has ended: killed, failed, or with a certificate.
Generated(h, success) ==
    /\ task[h].started
    /\ CertBecomes(IF ~success \/ task[h].aborted THEN FinishTask(CertWorld, h, "failed")
               ELSE FinishTask([CertWorld EXCEPT !.cache = Cached(@, h)], h, "issued"))
    /\ UNCHANGED closed

\* close(): running jobs are aborted, waiting ones fail at once.
CloseProvider ==
    /\ closed = "open"
    /\ closed' = "closing"
    /\ LET waiting == ToSet(queue)
       IN  CertBecomes([Settle(CertWorld, waiting, "failed") EXCEPT
               !.task = [h \in Hosts |-> IF h \in waiting THEN NoTask
                                         ELSE IF h \in Pending(CertWorld) THEN [task[h] EXCEPT !.aborted = TRUE]
                                         ELSE task[h]],
               !.queue = <<>>])

\* ... and close() returns when the last of them has ended.
ClosedAll ==
    /\ closed = "closing" /\ Pending(CertWorld) = {}
    /\ closed' = "closed" /\ cache' = <<>>
    /\ UNCHANGED <<task, queue, active, handshake>>

CertInit ==
    /\ task = [h \in Hosts |-> NoTask] /\ queue = <<>> /\ active = 0 /\ cache = <<>>
    /\ closed = "open"
    /\ handshake = [r \in Handshakes |-> [host |-> CHOOSE h \in Hosts : TRUE, state |-> "idle"]]

CertNext ==
    \/ \E r \in Handshakes, h \in Hosts : Issue(r, h)
    \/ \E h \in Hosts : Deadline(h)
    \/ \E h \in Hosts, success \in BOOLEAN : Generated(h, success)
    \/ CloseProvider \/ ClosedAll

CertSpec == CertInit /\ [][CertNext]_certVars

-----------------------------------------------------------------------------
Running == {h \in Hosts : task[h].started}

Pool == INSTANCE BoundedPool
            WITH Jobs <- Hosts, Slots <- MaxActive, Places <- MaxQueued,
                 waiting <- queue, running <- Running, shut <- closed # "open"

\* However jobs end, every slot is counted once, no slot is idle while a job waits, and
\* every task either waits in the queue or runs.
TaskSlotsBalance ==
    /\ active = Cardinality(Running) /\ active <= MaxActive
    /\ closed = "open" /\ queue # <<>> => active = MaxActive
    /\ Pending(CertWorld) = ToSet(queue) \cup Running
    /\ \A h \in ToSet(queue) : ~task[h].started

\* Who waits for a certificate shares a task that will be settled, so no handshake hangs.
WaitersHaveTask ==
    \A r \in Handshakes : handshake[r].state = "waiting" => handshake[r].host \in Pending(CertWorld)

\* Once close() has returned no openssl runs and nothing is issued or kept any more.
ClosedIsEmpty == closed = "closed" => active = 0 /\ cache = <<>> /\ Pending(CertWorld) = {}

\* A certificate whose deadline has passed is not kept, so that the next one who asks
\* for the name is not answered from a job that was given up.
AbortedIsNotKept == \A h \in Hosts : task[h].aborted => ~Contains(cache, h)
=============================================================================
