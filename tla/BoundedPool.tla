------------------------------ MODULE BoundedPool ------------------------------
(***************************************************************************)
(* What rethink's two pools of slow jobs (openssl, SSH) promise: a job is  *)
(* started while there is a slot, waits while there is a place, and is     *)
(* refused otherwise; who waits is started in order, or given up, or       *)
(* dropped with all others when the pool closes.                           *)
(***************************************************************************)
EXTENDS Naturals, Sequences, SequencesExt, FiniteSets

CONSTANTS Jobs, Slots, Places

VARIABLES
    waiting,  \* jobs, the next one first
    running,  \* jobs that have a slot
    shut

poolVars == <<waiting, running, shut>>

PoolInit == waiting = <<>> /\ running = {} /\ shut = FALSE

Waiting(j) == \E i \in 1..Len(waiting) : waiting[i] = j

Idle(j) == j \notin running /\ ~Waiting(j)

Starts(j) ==
    /\ Idle(j) /\ ~shut /\ Cardinality(running) < Slots
    /\ running' = running \cup {j}
    /\ UNCHANGED <<waiting, shut>>

Queues(j) ==
    /\ Idle(j) /\ ~shut /\ Cardinality(running) = Slots /\ Len(waiting) < Places
    /\ waiting' = Append(waiting, j)
    /\ UNCHANGED <<running, shut>>

\* The slot goes to the next job in the same step.
Ends(j) ==
    /\ j \in running
    /\ IF waiting = <<>>
       THEN running' = running \ {j} /\ UNCHANGED waiting
       ELSE running' = (running \ {j}) \cup {Head(waiting)} /\ waiting' = Tail(waiting)
    /\ UNCHANGED shut

GivesUp(j) ==
    /\ Waiting(j)
    /\ waiting' = RemoveFirst(waiting, j)
    /\ UNCHANGED <<running, shut>>

Shuts == ~shut /\ shut' = TRUE /\ waiting' = <<>> /\ UNCHANGED running

PoolNext == Shuts \/ \E j \in Jobs : Starts(j) \/ Queues(j) \/ Ends(j) \/ GivesUp(j)

PoolSpec == PoolInit /\ [][PoolNext]_poolVars
=============================================================================
