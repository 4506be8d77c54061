------------------------------- MODULE SniRouter -------------------------------
(***************************************************************************)
(* createSNIRouter() (cloud/sni_router.ts): connections on port 443 are    *)
(* read far enough to learn which host they ask for, and then handed to    *)
(* the local TLS server, spliced to the real host, or held and ignored.    *)
(*                                                                         *)
(* At most MaxPending connections are read at a time.  The name, the end   *)
(* of the client's data, an error, the close of the socket and the ten     *)
(* second timer race to settle a connection that counts.                   *)
(***************************************************************************)
EXTENDS Naturals, FiniteSets

CONSTANTS
    Sockets,
    MaxPending,  \* MAX_PENDING_PREFACES
    MaxHello     \* MAX_HELLO_BYTES, in chunks

SniAssumption == IsFiniteSet(Sockets) /\ MaxPending \in Nat /\ MaxHello \in Nat \ {0}

VARIABLES
    pendingPrefaces,  \* pending
    socket

sniVars == <<pendingPrefaces, socket>>

Phases == {"none", "peeking", "local", "connecting", "spliced", "stalled", "destroyed"}

Socket == [phase : Phases,
           settled : BOOLEAN,
           timers : SUBSET {"preface", "stall"},
           buffered : 0..MaxHello,    \* chunks read and not yet passed on
           upstream : BOOLEAN]        \* the socket to the real host is open

NoSocket == [phase |-> "none", settled |-> TRUE, timers |-> {}, buffered |-> 0, upstream |-> FALSE]

SniTypeOK == pendingPrefaces \in 0..MaxPending /\ socket \in [Sockets -> Socket]

-----------------------------------------------------------------------------
SocketBecomes(s, r) == socket' = [socket EXCEPT ![s] = r]

\* stopPeeking(): the connection no longer counts, once.
StopPeeking(s) == pendingPrefaces' = pendingPrefaces - (IF socket[s].settled THEN 0 ELSE 1)

Settled(s, phase) ==
    [socket[s] EXCEPT !.phase = phase, !.settled = TRUE, !.timers = @ \ {"preface"}, !.buffered = 0]

\* The listener, called with a new socket.
Accept(s) ==
    /\ socket[s].phase = "none"
    /\ IF pendingPrefaces >= MaxPending
       THEN SocketBecomes(s, [NoSocket EXCEPT !.phase = "destroyed"]) /\ UNCHANGED pendingPrefaces
       ELSE /\ SocketBecomes(s, [NoSocket EXCEPT !.phase = "peeking", !.settled = FALSE,
                                           !.timers = {"preface"}])
            /\ pendingPrefaces' = pendingPrefaces + 1

\* takeLocally(): what was read is put back first, and whoever listens reads it again.
TakenLocally(s) == Settled(s, "local")

\* splice(): what was read is written as soon as the real host is connected.
Spliced(s) == [Settled(s, "connecting") EXCEPT !.upstream = TRUE]

\* stallConnection(): what was read is dropped and so is what comes.
Stalled(s) == [Settled(s, "stalled") EXCEPT !.timers = {"stall"}]

\* onReadable(): a chunk completes the name of a local, passed or stalled host, or
\* none; a client that sends much without a name is the local server's.
OnReadable(s, name) ==
    LET n == socket[s].buffered + 1 IN
    /\ socket[s].phase = "peeking"
    /\ IF name = "none" /\ n < MaxHello
       THEN SocketBecomes(s, [socket[s] EXCEPT !.buffered = n]) /\ UNCHANGED pendingPrefaces
       ELSE /\ SocketBecomes(s, CASE name = "passed" -> Spliced(s)
                                   [] name = "stalled" -> Stalled(s)
                                   [] OTHER -> TakenLocally(s))
            /\ StopPeeking(s)

\* onEnd(): the client said no more.  A stream takes nothing back after its end: of a
\* client that said anything that is an error, which destroys it.
End(s) ==
    /\ socket[s].phase = "peeking"
    /\ SocketBecomes(s, IF socket[s].buffered = 0 THEN TakenLocally(s) ELSE Settled(s, "destroyed"))
    /\ StopPeeking(s)

\* onEarlyError() and the timer of the preface: both destroy a connection being read.
EarlyError(s) ==
    /\ socket[s].phase = "peeking"
    /\ SocketBecomes(s, Settled(s, "destroyed"))
    /\ StopPeeking(s)

PrefaceTimer(s) == "preface" \in socket[s].timers /\ EarlyError(s)

-----------------------------------------------------------------------------
\* After the preface.
UpstreamConnects(s) ==
    /\ socket[s].phase = "connecting" /\ socket[s].upstream
    /\ SocketBecomes(s, [socket[s] EXCEPT !.phase = "spliced"])
    /\ UNCHANGED pendingPrefaces

\* upstream.on('error')
SpliceFails(s) ==
    /\ socket[s].phase \in {"connecting", "spliced"} /\ socket[s].upstream
    /\ SocketBecomes(s, [socket[s] EXCEPT !.phase = "destroyed", !.upstream = FALSE])
    /\ UNCHANGED pendingPrefaces

\* socket.on('error') after the preface, or the end of both pipes.
Fails(s) ==
    /\ socket[s].phase \in {"local", "connecting", "spliced", "stalled"}
    /\ SocketBecomes(s, [socket[s] EXCEPT !.phase = "destroyed", !.upstream = FALSE])
    /\ UNCHANGED pendingPrefaces

StallTimer(s) ==
    /\ "stall" \in socket[s].timers
    /\ SocketBecomes(s, [socket[s] EXCEPT !.phase = "destroyed", !.timers = {}])
    /\ UNCHANGED pendingPrefaces

\* 'close', of a socket that was destroyed here or by its client.
Close(s) ==
    /\ socket[s].phase \in {"destroyed", "peeking"}
    /\ StopPeeking(s)
    /\ SocketBecomes(s, NoSocket)

SniInit == pendingPrefaces = 0 /\ socket = [s \in Sockets |-> NoSocket]

SniNext ==
    \E s \in Sockets :
        \/ Accept(s)
        \/ \E name \in {"none", "local", "passed", "stalled"} : OnReadable(s, name)
        \/ End(s) \/ EarlyError(s) \/ PrefaceTimer(s)
        \/ UpstreamConnects(s) \/ SpliceFails(s) \/ Fails(s)
        \/ StallTimer(s) \/ Close(s)

\* Timers fire, and a socket that was destroyed reports its close.
SocketFairness(s) ==
    /\ WF_sniVars(PrefaceTimer(s)) /\ WF_sniVars(StallTimer(s))
    /\ WF_sniVars(socket[s].phase = "destroyed" /\ Close(s))

SniFairness == \A s \in Sockets : SocketFairness(s)

SniSpec == SniInit /\ [][SniNext]_sniVars /\ SniFairness

-----------------------------------------------------------------------------
\* Five events race to settle a connection that counts; each gives its place back once,
\* so the places are those being read, and one that waits for neither name nor end has
\* its timer.
PlacesBalance ==
    /\ pendingPrefaces = Cardinality({s \in Sockets : ~socket[s].settled})
    /\ \A s \in Sockets : (~socket[s].settled <=> "preface" \in socket[s].timers)

\* Idle and slow clients are not read for ever, and a held one is let go in the end.
SocketSettles(s) ==
    LET held == socket[s].phase \in {"peeking", "stalled"} IN [](held => <>~held)

SocketsSettle == \A s \in Sockets : SocketSettles(s)

=============================================================================
