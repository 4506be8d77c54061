------------------------------ MODULE CloudReports ------------------------------
(***************************************************************************)
(* What the manufacturer's cloud is told of a ThinQ1 appliance: the        *)
(* connection of bridge/thinq1connection.ts with the BridgedDevice that    *)
(* feeds it (bridge/index.ts).  The cloud asks for reports (Start) and     *)
(* asks to be left alone (Stop); a connection fails at any stage and is    *)
(* replaced by another one.  Commands and their acknowledgements pass      *)
(* through and change nothing here.                                        *)
(***************************************************************************)
EXTENDS Naturals, Sequences, SequencesExt

CONSTANTS
    MaxReports,  \* bound: reports that tell something new
    MaxOnWire    \* bound: messages on the way to the connection, and from it

ReportsAssumption == MaxReports \in Nat /\ MaxOnWire \in Nat

VARIABLES
    newest,    \* Device.lastReport; 0 is undefined
    upstream,  \* BridgedDevice.connection
    up, down,  \* what is on the wire to the cloud and from it
    cloud      \* the newest report that the cloud has heard, and whether it watches

reportVars == <<newest, upstream, up, down, cloud>>

NoConnection == [phase |-> "none", lastState |-> 0, isLive |-> FALSE]

ReportsTypeOK ==
    /\ newest \in 0..MaxReports
    /\ upstream \in [phase : {"none", "opening", "up"}, lastState : 0..MaxReports, isLive : BOOLEAN]
    /\ up \in Seq(1..MaxReports) /\ down \in Seq({"Start", "Stop"})
    /\ cloud \in [heard : 0..MaxReports, watching : BOOLEAN]

\* writeJSON()
Written(c, r) == IF c.phase = "up" /\ r # 0 THEN <<r>> ELSE <<>>

\* Connection.send()
Sent(c, r) == [c EXCEPT !.lastState = r]

Wire(c, r) == IF c.isLive THEN Written(c, r) ELSE <<>>

\* The appliance reports: the Device keeps it, its bridge sends it if there is a connection.
Reports ==
    /\ newest < MaxReports /\ Len(up) < MaxOnWire
    /\ newest' = newest + 1
    /\ upstream' = IF upstream.phase = "none" THEN upstream ELSE Sent(upstream, newest')
    /\ up' = up \o Wire(upstream, newest')
    /\ UNCHANGED <<down, cloud>>

UpstreamOpensUnfed ==
    /\ upstream.phase = "none"
    /\ upstream' = [NoConnection EXCEPT !.phase = "opening"]
    /\ UNCHANGED <<newest, up, down, cloud>>

\* connect(): a new connection is fed the last report.
UpstreamOpens ==
    /\ upstream.phase = "none"
    /\ upstream' = Sent([NoConnection EXCEPT !.phase = "opening"], newest)
    /\ UNCHANGED <<newest, up, down, cloud>>

\* The gateway has answered and the socket is open: the cloud gets a DevInfo message.
Opened ==
    /\ upstream.phase = "opening"
    /\ upstream' = [upstream EXCEPT !.phase = "up"]
    /\ up' = Written(upstream', upstream.lastState)
    /\ UNCHANGED <<newest, down, cloud>>

UpstreamLost ==
    /\ upstream.phase # "none"
    /\ upstream' = NoConnection /\ up' = <<>> /\ down' = <<>>
    /\ cloud' = [cloud EXCEPT !.watching = FALSE]
    /\ UNCHANGED newest

\* Start and Stop are for the connection, not for the appliance.
Started ==
    LET live == [upstream EXCEPT !.isLive = TRUE] IN
    /\ down # <<>> /\ Head(down) = "Start" /\ Len(up) < MaxOnWire
    /\ upstream' = live
    /\ up' = up \o Wire(live, upstream.lastState)
    /\ down' = Tail(down)
    /\ UNCHANGED <<newest, cloud>>

Stopped ==
    /\ down # <<>> /\ Head(down) = "Stop"
    /\ upstream' = [upstream EXCEPT !.isLive = FALSE]
    /\ down' = Tail(down)
    /\ UNCHANGED <<newest, up, cloud>>

CloudSays(m) ==
    /\ upstream.phase = "up" /\ Len(down) < MaxOnWire
    /\ down' = Append(down, m)
    /\ cloud' = [cloud EXCEPT !.watching = (m = "Start")]
    /\ UNCHANGED <<newest, upstream, up>>

CloudHears ==
    /\ up # <<>>
    /\ cloud' = [cloud EXCEPT !.heard = Head(up)]
    /\ up' = Tail(up)
    /\ UNCHANGED <<newest, upstream, down>>

\* The bridge may be started for an appliance that has reported before.
ReportsInit ==
    /\ newest \in 0..MaxReports
    /\ upstream = NoConnection /\ up = <<>> /\ down = <<>>
    /\ cloud = [heard |-> 0, watching |-> FALSE]

ReportsNext ==
    \/ Reports \/ UpstreamOpens \/ Opened \/ UpstreamLost \/ Started \/ Stopped
    \/ CloudSays("Start") \/ CloudSays("Stop") \/ CloudHears

-----------------------------------------------------------------------------
\* A cloud that watches has heard the newest report, or it is the last on the wire,
\* whenever the appliance reported while a connection was being made or replaced; and no
\* connection tells it anything older than what it has heard from another.
WatchedIsCurrent ==
    LET told == IF up = <<>> THEN cloud.heard ELSE Last(up) IN
    /\ cloud.watching /\ down = <<>> => told = newest
    /\ upstream.isLive => told = newest
    /\ \A i, j \in 1..Len(up) : cloud.heard <= up[i] /\ (i < j => up[i] <= up[j])
=============================================================================
