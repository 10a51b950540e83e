------------------------------- MODULE Relay -------------------------------
(***************************************************************************)
(* A message on its way over several connections: an application builds    *)
(* it, or takes it from a frame some peer wrote, and each process on the   *)
(* way reads it with one handle and sends what it read with another.  The  *)
(* types of the library are made for that: what a ClientStompHandle reads  *)
(* is what a ServerStompHandle sends, and the other way round.             *)
(***************************************************************************)
EXTENDS FrameCodec

CONSTANTS
    Messages,  \* the messages an application may build
    Frames,    \* the frames a peer may write, as they are on the wire
    MaxHops    \* a bound: over how many connections a message goes

ASSUME MessagesAssumption == \A m \in Messages : IsMessage(m)
ASSUME FramesAssumption   == \A frame \in Frames : IsFrame(frame)
ASSUME MaxHopsAssumption  == MaxHops \in Nat

VARIABLES
    outcome,   \* "none", "message", or how the last parse or conversion ended
    message,   \* the message at hand, if outcome is "message"
    origin,    \* the message it once was
    source,    \* the frame it was taken from, if it was
    hops       \* over how many connections it has gone since

vars == <<outcome, message, origin, source, hops>>

NoMessage ==
    [kind |-> "none", fields |-> << >>, headers |-> << >>, body |-> {}, extra |-> << >>]

Init ==
    /\ outcome = "none"
    /\ message = NoMessage
    /\ origin = NoMessage
    /\ source = {}
    /\ hops = 0

Build ==
    /\ outcome = "none"
    /\ \E m \in Messages : message' = m /\ origin' = m
    /\ outcome' = "message"
    /\ UNCHANGED <<source, hops>>

\* What the handle that understands the frame's command makes of a frame.
Read(frame) ==
    LET parsed == Parse(frame) IN
    IF parsed.outcome # "frame" THEN parsed
    ELSE LET client == ToMessage(parsed.frame, ToServer) IN
         IF client.outcome # "conversion_error" THEN client
         ELSE ToMessage(parsed.frame, FromServer)

Receive ==
    /\ outcome = "none"
    /\ \E frame \in Frames :
        LET read == Read(frame) IN
        /\ outcome' = read.outcome
        /\ message' = IF read.outcome = "message" THEN read.message ELSE message
        /\ source' = {frame}
    /\ origin' = message'
    /\ UNCHANGED hops

\* The message is written to one more connection and read at its other end.
Forward ==
    /\ outcome = "message"
    /\ hops < MaxHops
    /\ hops' = hops + 1
    /\ LET read == Read(Serialize(ToFrame(message))) IN
        /\ outcome' = read.outcome
        /\ message' = IF read.outcome = "message" THEN read.message ELSE message
    /\ UNCHANGED <<origin, source>>

Next == Build \/ Receive \/ Forward

Spec == Init /\ [][Next]_vars

-----------------------------------------------------------------------------

\* No header of the origin poses as one of its fields.
Clean ==
    \A f \in DOMAIN origin.fields : origin.fields[f] = {} =>
        <<f>> \notin Keys(origin.headers) \cup Keys(origin.extra)

\* Its content-length is right, or its body needs none.
Framed ==
    LET length == ContentLength(ToFrame(origin).headers)
        bytes  == Contents(origin.body)
    IN  IF length = {} THEN \A i \in 1..Len(bytes) : bytes[i] # NUL
                       ELSE length = {Len(bytes)}

\* A message with right framing can be forwarded any number of times: it is
\* always read back as a message, of the same kind and with the same body,
\* whatever its fields and headers hold (an empty body may become None), if
\* only every header has a key.
ForwardReadsBack ==
    outcome # "none" /\ origin # NoMessage /\ Clean /\ Framed /\ HeadersUtf8(origin.extra)
      /\ << >> \notin Keys(origin.headers) \cup Keys(origin.extra) =>
        /\ outcome = "message"
        /\ message.kind = origin.kind
        /\ Contents(message.body) = Contents(origin.body)

\* Its fields are what they were, colons, line feeds and backslashes
\* included.  (The transaction of a SEND is another matter.)
FieldsSurvive ==
    outcome = "message" /\ Clean =>
        \A f \in DOMAIN origin.fields :
            WrittenAs(origin.kind, f) = f => message.fields[f] = origin.fields[f]

\* README: "Support for all STOMP operations: ... Transactions"; lib.rs of
\* Send: "Optional transaction identifier".  A message sent as part of a
\* transaction is still part of it when it arrives.
TransactionSurvives ==
    outcome = "message" /\ origin.kind = "SEND" /\ Clean =>
        message.fields["transaction"] = origin.fields["transaction"]

\* The escape sequences of a text; a text with none of the special symbols
\* is written as it is.
Special(text) == Escape(text) # text

\* The custom headers of a SEND or a MESSAGE keep their values, if their keys
\* need no escaping and are not those of fields.
CustomHeadersSurvive ==
    outcome = "message" /\ origin.kind \in Headered /\ Clean =>
        \A key \in Keys(origin.headers) :
            \/ Special(key)
            \/ \E f \in DOMAIN origin.fields : key \in {<<f>>, <<WrittenAs(origin.kind, f)>>}
            \/ Find(message.headers, key) = Find(origin.headers, key)

\* A MESSAGE that is forwarded gains a copy of its three fields as headers
\* on every hop: all_headers collects them, and to_frame writes both.
MessagesGrow ==
    outcome = "message" /\ origin.kind = "MESSAGE" /\ source # {} =>
        Len(message.headers) = Len(origin.headers) + 3 * hops

EscapeTimes(text, n) ==
    LET times[i \in 0..n] == IF i = 0 THEN text ELSE Escape(times[i - 1])
    IN  times[n]

\* Extra headers are escaped on every hop and never unescaped, so that their
\* keys and values are those of the origin escaped once per hop: unchanged
\* if they hold nothing special, and longer on every hop otherwise.  None is
\* lost but those that name a field, which are not sent.
ExtraHeadersEscaped ==
    outcome = "message" /\ origin.kind \notin Headered /\ Clean =>
        LET sent == IF hops = 0 THEN origin.extra
                    ELSE Without(origin.extra, {<<f>> : f \in DOMAIN origin.fields})
        IN  message.extra = [i \in 1..Len(sent) |->
                                <<EscapeTimes(sent[i][1], hops),
                                  EscapeTimes(sent[i][2], hops)>>]

\* A frame whose texts are UTF-8 and escaped as STOMP wants them.
WellEscaped(frame) ==
    \A i \in 1..Len(frame.headers) : \A j \in 1..2 :
        LET text == frame.headers[i][j]
        IN  IsUtf8(text) /\ Escape(Unescape(text)) = text

\* Test of DISCONNECT frames: "can be correctly parsed from raw bytes into a
\* Frame structure and then serialized back to the exact same byte
\* representation".
DisconnectSerializedBack ==
    outcome = "message" /\ hops = 0 =>
        \A frame \in source :
            frame.command = "DISCONNECT" /\ WellEscaped(frame) =>
                Serialize(ToFrame(message)) = frame

=============================================================================
