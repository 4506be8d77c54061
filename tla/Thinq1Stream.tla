------------------------------ MODULE Thinq1Stream ------------------------------
(***************************************************************************)
(* What a ThinQ1 appliance sends, from its socket to its Device: the       *)
(* splitter of length-prefixed frames (util/length_prefixed_frame.ts) in   *)
(* the Connection (cloud/thinq1/connection.ts), with the listeners that    *)
(* the acceptor and the Device put on it (cloud/thinq1/device.ts).         *)
(*                                                                         *)
(* Bytes arrive in chunks of any size; one chunk may hold several frames,  *)
(* whose messages are handled one after the other although the first of    *)
(* them may have ended the connection.                                     *)
(***************************************************************************)
EXTENDS Integers, Sequences, FiniteSets

CONSTANTS
    HeaderBytes,  \* of the length in front of a payload
    MaxPayload,   \* maxPayloadLength
    MaxFrames     \* bound: that an appliance sends

StreamAssumption == HeaderBytes \in Nat \ {0} /\ MaxPayload \in Nat \ {0} /\ MaxFrames \in Nat

VARIABLES
    sent,     \* the frames, and whether the appliance has metadata
    arrived,  \* bytes of them
    con,      \* the Connection with its splitter
    told      \* what its Device was told

streamVars == <<sent, arrived, con, told>>

\* "alive" has no data, "answer" a return code, "refused" a report whose handler throws.
StreamFrame == {f \in [length : (-1)..(MaxPayload + 1), says : {"alive", "report", "answer", "refused", "garbage"}] :
                  f.length \in 1..MaxPayload \/ f.says = "garbage"}

\* A byte is told from others by its frame and its place there.
Byte == (1..MaxFrames) \X (1..(HeaderBytes + MaxPayload + 1))

Con == [socket : {"open", "ended", "destroyed", "closed"},
        accum : Seq(Byte),
        broken : BOOLEAN,  \* the splitter's failed
        failed : BOOLEAN,  \* the connection's
        id : BOOLEAN,      \* is known
        timer : BOOLEAN]

StreamTypeOK ==
    /\ arrived \in Nat /\ con \in Con
    /\ told \in Seq({"data", "response", "error", "close"} \X (0..MaxFrames))

-----------------------------------------------------------------------------
SizeOf(i) == HeaderBytes + IF sent.frames[i].length < 0 THEN 0 ELSE sent.frames[i].length

Header(i) == [p \in 1..HeaderBytes |-> <<i, p>>]

Payload(i) == [p \in 1..(SizeOf(i) - HeaderBytes) |-> <<i, HeaderBytes + p>>]

\* How many bytes the first frames have.
EndOf == LET end[i \in 0..Len(sent.frames)] == IF i = 0 THEN 0 ELSE end[i - 1] + SizeOf(i) IN end

\* The frames one behind the other.
Stream ==
    [p \in 1..EndOf[Len(sent.frames)] |->
        LET i == CHOOSE i \in 1..Len(sent.frames) : EndOf[i - 1] < p /\ p <= EndOf[i]
        IN  <<i, p - EndOf[i - 1]>>]

\* readInt32BE(): bytes that are no header are read as some other length.
PayloadLen(bytes) ==
    IF SubSeq(bytes, 1, HeaderBytes) = Header(Head(bytes)[1])
    THEN sent.frames[Head(bytes)[1]].length ELSE MaxPayload + 1

\* The frame of which this is the payload; 0 if it is none, or empty.
FrameOf(payload) ==
    IF payload # <<>> /\ payload = Payload(Head(payload)[1]) THEN Head(payload)[1] ELSE 0

World == [con |-> con, told |-> told]

\* The Device listens from the first message on, if its metadata are known.
Tell(w, event) == IF w.con.id /\ sent.known THEN [w EXCEPT !.told = Append(@, event)] ELSE w

Destroy(w) == IF w.con.socket = "closed" THEN w ELSE [w EXCEPT !.con.socket = "destroyed"]

FailAgain(w) == Destroy(Tell([w EXCEPT !.con.failed = TRUE], <<"error", 0>>))

Fail(w) ==
    IF w.con.failed THEN w ELSE Destroy(Tell([w EXCEPT !.con.failed = TRUE], <<"error", 0>>))

\* 'init' of a connection whose appliance is not known destroys it.
Identified(w) ==
    IF w.con.id THEN w
    ELSE IF sent.known THEN [w EXCEPT !.con.id = TRUE] ELSE Destroy([w EXCEPT !.con.id = TRUE])

\* The callback of the splitter.
Received(w, i) ==
    LET restarted == [w EXCEPT !.con.timer = TRUE]
        says      == IF i = 0 THEN "garbage" ELSE sent.frames[i].says
    IN  IF says = "garbage" THEN Fail(restarted)
        ELSE IF says = "alive" THEN Identified(restarted)
        ELSE IF says = "answer" THEN Tell(Identified(restarted), <<"response", i>>)
        ELSE IF says = "report" THEN Tell(Identified(restarted), <<"data", i>>)
        ELSE IF sent.known THEN Fail(Tell(Identified(restarted), <<"data", i>>))
        ELSE Identified(restarted)

Broken(w) == Fail([w EXCEPT !.con.broken = TRUE, !.con.accum = <<>>])

\* One turn of the loop of the splitter; none is left when half a frame is.
SplitOnce(w) ==
    LET bytes == w.con.accum
        n     == PayloadLen(bytes)
        end   == HeaderBytes + n
        rest  == Received([w EXCEPT !.con.accum = SubSeq(bytes, end + 1, Len(bytes))],
                          FrameOf(SubSeq(bytes, HeaderBytes + 1, end)))
    IN  IF Len(bytes) < HeaderBytes THEN w
        ELSE IF n \notin 0..MaxPayload THEN Broken(w)
        ELSE IF Len(bytes) < end THEN w
        ELSE IF rest.con.failed THEN Broken(rest) ELSE rest

\* Every turn takes a header at least.
Split(w) ==
    LET turn[k \in 0..Len(w.con.accum)] == IF k = 0 THEN w ELSE SplitOnce(turn[k - 1])
    IN  turn[Len(w.con.accum)]

Becomes(w) == con' = w.con /\ told' = w.told /\ UNCHANGED sent

Data(n) ==
    LET chunk == SubSeq(Stream, arrived + 1, arrived + n) IN
    /\ con.socket = "open" /\ arrived + n <= Len(Stream)
    /\ Becomes(IF con.broken THEN World ELSE Split([World EXCEPT !.con.accum = @ \o chunk]))
    /\ arrived' = arrived + n

\* The appliance says no more: half a frame is an error.
End ==
    LET ended == [World EXCEPT !.con.socket = "ended"] IN
    /\ con.socket = "open"
    /\ Becomes(IF con.accum # <<>> /\ ~con.broken THEN Broken(ended) ELSE ended)
    /\ UNCHANGED arrived

SocketError == con.socket \in {"open", "ended"} /\ Becomes(Fail(World)) /\ UNCHANGED arrived

\* Ninety seconds without a whole frame, or a newer connection of the appliance.
IdleTimer ==
    /\ con.timer /\ con.socket # "closed"
    /\ Becomes(Destroy([World EXCEPT !.con.timer = FALSE])) /\ UNCHANGED arrived

Replaced ==
    /\ con.id /\ sent.known /\ con.socket \in {"open", "ended"}
    /\ Becomes(Destroy(World)) /\ UNCHANGED arrived

SocketCloses ==
    /\ con.socket \in {"ended", "destroyed"}
    /\ Becomes(Tell([World EXCEPT !.con.socket = "closed", !.con.timer = FALSE], <<"close", 0>>))
    /\ UNCHANGED arrived

StreamInit ==
    /\ sent \in [frames : UNION {[1..n -> StreamFrame] : n \in 0..MaxFrames}, known : BOOLEAN]
    /\ arrived = 0 /\ told = <<>>
    /\ con = [socket |-> "open", accum |-> <<>>, broken |-> FALSE, failed |-> FALSE,
              id |-> FALSE, timer |-> TRUE]

StreamNext ==
    \/ \E n \in 1..(MaxFrames * (HeaderBytes + MaxPayload + 1)) : Data(n)
    \/ End \/ SocketError \/ IdleTimer \/ Replaced \/ SocketCloses

StreamSpec == StreamInit /\ [][StreamNext]_streamVars

-----------------------------------------------------------------------------
\* What a Device is told is what its appliance sent, whatever the chunks: the message of
\* every frame that arrived whole, in order, up to the first that is not one, and then
\* that the connection failed or closed, each once.  Of an appliance without metadata
\* nothing is told, also when more of its frames came in the same chunk.
ArrivedWhole ==
    {i \in 1..Len(sent.frames) :
        /\ EndOf[i] <= arrived /\ sent.frames[i].says # "garbage"
        /\ \A j \in 1..(i - 1) : sent.frames[j].says \in {"alive", "report", "answer"}}

Event(i) == <<IF sent.frames[i].says = "answer" THEN "response" ELSE "data", i>>

\* The messages of the first frames.
Messages ==
    LET heard[i \in 0..Len(sent.frames)] ==
            IF i = 0 THEN <<>>
            ELSE IF i \in ArrivedWhole /\ sent.frames[i].says # "alive" THEN Append(heard[i - 1], Event(i))
            ELSE heard[i - 1]
    IN  IF sent.known THEN heard[Len(sent.frames)] ELSE <<>>

MessagesInOrder ==
    \E ends \in {<<>>, <<"error">>, <<"close">>, <<"error", "close">>} :
        told = Messages \o [i \in 1..Len(ends) |-> <<ends[i], 0>>]

\* What is kept between two chunks is the beginning of one frame: of a stream that is
\* still read, exactly the bytes that no message was made of.
LittleIsKept ==
    con.socket = "open" =>
        /\ Len(con.accum) < HeaderBytes + MaxPayload
        /\ Len(con.accum) = arrived - EndOf[Cardinality(ArrivedWhole)]
=============================================================================
