----------------------------- MODULE WireReader -----------------------------
(***************************************************************************)
(* BufferedTransport (src/transport/client.rs, src/transport/server.rs)    *)
(* over a stream of real symbols, decoded by the rules of FrameParser, and *)
(* what an application may do to it behind its back: read from the         *)
(* transport itself through as_mut_transport(), or take the transport      *)
(* (into_transport(), ClientHandshakeError) and make a new handle of it.   *)
(*                                                                         *)
(* A symbol of the stream is known by its offset.                          *)
(***************************************************************************)
EXTENDS FrameParser, FiniteSets

CONSTANTS
    Wires,     \* what a peer may send: bytes, the offsets behind which a
               \* side-channel message travels, and whether one read of the
               \* transport may complete several frames
    Known,     \* the commands the conversion knows
    Intrusions \* a bound: how often the application makes a new handle of the
               \* transport, or reads past the buffer

ASSUME WiresAssumption ==
    \A w \in Wires : /\ w.bytes \in Seq(STRING)
                     /\ w.asides \subseteq Nat
                     /\ w.coalesce \in BOOLEAN

VARIABLES
    wire,      \* what the peer sends during this connection
    sent,      \* history: the frames in it, as FramesOf finds them
    stream,    \* history: the same as BufferedTransport sees it
    arrived,   \* how many of its bytes transport.read() has returned
    told,      \* the side-channel messages it has returned
    buffer,    \* the buffer, as the offsets of its bytes
    closed,    \* whether the transport has returned ConnectionClosed
    call,      \* "idle" or "reading": next() is suspended at transport.read()
    result,    \* what the last completed next() returned
    reported,  \* history: the frames and side-channel messages next() has
               \* returned, in order
    lost,      \* history: the offsets that no buffer will see any more
    intrusions \* how often the application has done one or the other

peer == <<wire, sent, stream>>
app  == <<lost, intrusions>>
vars == <<peer, arrived, told, buffer, closed, call, result, reported, app>>

Text(offsets) == [i \in 1..Len(offsets) |-> wire.bytes[offsets[i]]]

\* The frames of a text that is parsed all at once, by the offsets of the
\* first letter of the command and of the NUL, and by that of the line ending
\* behind it.
FramesOf(text) ==
    LET from[p \in 0..Len(text)] ==
          LET parsed == ParseFrame(SubSeq(text, p + 1, Len(text))) IN
          IF parsed.end < 0 THEN << >>
          ELSE <<[first |-> p + parsed.start + 1, last |-> p + parsed.nul,
                  next |-> p + parsed.end]>> \o from[p + parsed.end]
    IN  from[0]

(***************************************************************************)
(* The same bytes as BufferedTransport sees them: frames with their ends.  *)
(***************************************************************************)

\* Where parse_frame first fails behind position p, if it does: on the CR of a
\* CR LF it fails only until the LF is there.
FailsAt(text, p) ==
    LET at == {e \in (OptEndOfLine(text, p) + 1)..Len(text) :
                  ParseFrame(SubSeq(text, p + 1, e)).end = Fails}
    IN  {e \in at : \A f \in at : e <= f}

StreamOf(text, frames) ==
    LET whole == Len(frames)
        bad   == FailsAt(text, IF whole = 0 THEN 0 ELSE frames[whole].last)
        n     == whole + (IF bad = {} THEN 0 ELSE 1)
    IN  [n    |-> n,
         end  |-> [i \in 0..n |-> IF i = 0 THEN 0
                                  ELSE IF i <= whole THEN frames[i].last
                                  ELSE CHOOSE e \in bad : TRUE],
         eol  |-> [i \in 0..n |-> IF i = 0 THEN OptEndOfLine(text, 0)
                                  ELSE IF i <= whole THEN frames[i].next - frames[i].last
                                  ELSE 0],
         kind |-> [i \in 1..n |->
                    IF i > whole THEN "malformed"
                    ELSE IF ParseFrame(SubSeq(text, frames[i].first, Len(text))).command
                              \in Known
                    THEN "message" ELSE "unrecognized"],
         size |-> Len(text)]

Init ==
    /\ wire \in Wires
    /\ sent = FramesOf(wire.bytes)
    /\ stream = StreamOf(wire.bytes, sent)
    /\ arrived = 0
    /\ told = {}
    /\ buffer = << >>
    /\ closed = FALSE
    /\ call = "idle"
    /\ result = "none"
    /\ reported = << >>
    /\ lost = {}
    /\ intrusions = 0

-----------------------------------------------------------------------------
(***************************************************************************)
(* The transport: it returns bytes and side-channel messages in the order  *)
(* in which they were sent.                                                *)
(***************************************************************************)

Chunk(got) == [i \in 1..(got - arrived) |-> arrived + i]

BytesArrive(got) ==
    /\ ~ closed
    /\ \A a \in wire.asides \ told : got <= a
    /\ wire.coalesce \/ \A i, j \in 1..Len(sent) :
                           i < j => sent[i].last <= arrived \/ got < sent[j].last
    /\ arrived' = got

AsideArrives(a) ==
    /\ ~ closed
    /\ a \in wire.asides \ told
    /\ \A b \in wire.asides \ told : a <= b
    /\ a <= arrived
    /\ told' = told \cup {a}

-----------------------------------------------------------------------------
(***************************************************************************)
(* BufferedTransport.                                                      *)
(***************************************************************************)

\* Faulty variant: new bytes come in front of the old ones.
GrownInFront(got) == Chunk(got) \o buffer

\* append().
Grown(got) == buffer \o Chunk(got)

Return(r) == call' = "idle" /\ result' = r

CallNext ==
    /\ call = "idle"
    /\ call' = "reading"
    /\ UNCHANGED <<peer, arrived, told, buffer, closed, result, reported, app>>

\* Faulty variant: the buffer is advanced behind the body only.
DecodeKeepsNul(grown, parsed) ==
    IF parsed.end = NeedsMore THEN
        /\ buffer' = grown
        /\ UNCHANGED <<call, result, reported>>
    ELSE IF parsed.end = Fails THEN
        /\ buffer' = grown
        /\ Return("parser_error")
        /\ UNCHANGED reported
    ELSE
        /\ buffer' = SubSeq(grown, parsed.nul, Len(grown))
        /\ reported' = Append(reported, [what  |-> "frame",
                                         first |-> grown[parsed.start + 1],
                                         last  |-> grown[parsed.nul]])
        /\ Return(IF parsed.command \in Known THEN "message"
                                              ELSE "conversion_error")

\* decode(): the frame at the front of the buffer, if it is
\* complete, is taken out of it and returned.
Decode(grown, parsed) ==
    IF parsed.end = NeedsMore THEN
        /\ buffer' = grown
        /\ UNCHANGED <<call, result, reported>>
    ELSE IF parsed.end = Fails THEN
        /\ buffer' = grown
        /\ Return("parser_error")
        /\ UNCHANGED reported
    ELSE
        /\ buffer' = SubSeq(grown, parsed.end + 1, Len(grown))
        /\ reported' = Append(reported, [what  |-> "frame",
                                         first |-> grown[parsed.start + 1],
                                         last  |-> grown[parsed.nul]])
        /\ Return(IF parsed.command \in Known THEN "message"
                                              ELSE "conversion_error")

ReadBinary ==
    /\ call = "reading"
    /\ \E got \in arrived..Len(wire.bytes) :
        /\ BytesArrive(got)
        /\ \E parsed \in {ParseFrame(Text(Grown(got)))} : Decode(Grown(got), parsed)
    /\ UNCHANGED <<peer, told, closed, app>>

\* A side-channel message is returned at once.
ReadCustom ==
    /\ call = "reading"
    /\ \E a \in wire.asides :
        /\ AsideArrives(a)
        /\ reported' = Append(reported, [what |-> "custom", first |-> a, last |-> a])
    /\ Return("custom")
    /\ UNCHANGED <<peer, arrived, buffer, closed, app>>

ReadFails ==
    /\ call = "reading"
    /\ ~ closed
    /\ Return("read_error")
    /\ UNCHANGED <<peer, arrived, told, buffer, closed, reported, app>>

ReadClosed ==
    /\ call = "reading"
    /\ closed' = TRUE
    /\ Return("connection_closed")
    /\ UNCHANGED <<peer, arrived, told, buffer, reported, app>>

\* Faulty variant: the buffer belongs to the future that is dropped.
CancelLosesBuffer ==
    /\ call = "reading"
    /\ call' = "idle"
    /\ buffer' = << >>
    /\ UNCHANGED <<peer, arrived, told, closed, result, reported, app>>

\* The future of next() is dropped at its await.
Cancel ==
    /\ call = "reading"
    /\ call' = "idle"
    /\ UNCHANGED <<peer, arrived, told, buffer, closed, result, reported, app>>

-----------------------------------------------------------------------------
(***************************************************************************)
(* What the application does with the transport.                           *)
(***************************************************************************)

Offsets(s) == {s[i] : i \in 1..Len(s)}

\* into_transport() drops the buffer, and a new handle on the transport
\* begins with an empty one.
Rewrap ==
    /\ call = "idle"
    /\ intrusions < Intrusions
    /\ intrusions' = intrusions + 1
    /\ buffer' = << >>
    /\ lost' = lost \cup Offsets(buffer)
    /\ UNCHANGED <<peer, arrived, told, closed, call, result, reported>>

\* as_mut_transport().read(): bytes or a side-channel message that next()
\* does not see.
RawRead ==
    /\ call = "idle"
    /\ intrusions < Intrusions
    /\ intrusions' = intrusions + 1
    /\ \/ /\ \E got \in (arrived + 1)..Len(wire.bytes) :
                /\ BytesArrive(got)
                /\ lost' = lost \cup Offsets(Chunk(got))
          /\ UNCHANGED told
       \/ /\ \E a \in wire.asides : AsideArrives(a)
          /\ UNCHANGED <<arrived, lost>>
    /\ UNCHANGED <<peer, buffer, closed, call, result, reported>>

Next ==
    \/ CallNext
    \/ ReadBinary
    \/ ReadCustom
    \/ ReadFails
    \/ ReadClosed
    \/ Cancel
    \/ Rewrap
    \/ RawRead

Spec == Init /\ [][Next]_vars

-----------------------------------------------------------------------------
(***************************************************************************)
(* Properties                                                              *)
(***************************************************************************)

\* Type invariant.
TypeOK ==
    /\ wire \in Wires
    /\ arrived \in 0..Len(wire.bytes)
    /\ told \subseteq wire.asides
    /\ \A i, j \in 1..Len(buffer) : i < j => buffer[i] < buffer[j]
    /\ lost \cup Offsets(buffer) \subseteq 1..arrived
    /\ lost \cap Offsets(buffer) = {}
    /\ closed \in BOOLEAN
    /\ call \in {"idle", "reading"}
    /\ result \in {"none", "message", "custom", "connection_closed",
                   "read_error", "parser_error", "conversion_error"}

\* The offsets behind which a stream may be cut without a frame or a run of
\* line endings being torn: those of the NULs, and of the line endings behind
\* the frames that have none behind them.
Seams == {0, Len(wire.bytes)}
            \cup {sent[i].last : i \in 1..Len(sent)}
            \cup {o \in {sent[i].next : i \in 1..Len(sent)} :
                    OptEndOfLine(wire.bytes, o) = o}

\* A read past the buffer, or a new handle, has split a frame.
Torn == \E o \in 0..arrived : ((o \in lost) # (o + 1 \in lost)) /\ o \notin Seams

\* The places of the frames in what next() has reported.
Reports == {i \in 1..Len(reported) : reported[i].what = "frame"}

\* What next() reports as a frame is a frame the peer sent, and it finds the
\* same ones however the stream is cut, as when it is parsed all at once, for
\* bodies with NULs and with whole frames in them too.  It reports them in
\* order, none twice, and in front of each all that were sent before it but
\* those the application has taken past the buffer or given up with a handle.
\* Only a handle that was made, or a read that was done, in the middle of a
\* frame brings up frames that nobody sent.
ReportsWhatWasSent ==
    ~ Torn =>
        /\ \A i \in Reports :
            \E k \in 1..Len(sent) :
                /\ reported[i].first = sent[k].first
                /\ reported[i].last = sent[k].last
                /\ sent[k].last \notin lost
                /\ \A j \in 1..(k - 1) :
                    \/ sent[j].last \in lost
                    \/ \E h \in Reports : h < i /\ reported[h].last = sent[j].last
        /\ \A i, j \in Reports : i < j => reported[i].last < reported[j].last

FirstEnding == OptEndOfLine(Text(buffer), 0)

\* Bytes on which next() reports a parser error in front of a frame that could
\* have been read are one of two things: the CR of a CR LF, or two line
\* endings in a row (of the second, the CR may do).  One is taken behind a
\* frame if it has arrived with it, and one in front of the next frame; so two
\* of them are accepted or refused depending on the chunks, and three are
\* always refused.
EarlyErrorsAreLineEndings ==
    (/\ buffer # << >>
     /\ ParseFrame(Text(buffer)).end = Fails
     /\ ~ Torn
     /\ \E i \in 1..Len(sent) : sent[i].last >= buffer[1] /\ sent[i].last \notin lost)
        => \/ Text(buffer) = <<CR>>
           \/ /\ FirstEnding \in 1..(Len(buffer) - 1)
              /\ Text(buffer)[FirstEnding + 1] \in {LF, CR}

\* next() returns a side-channel message at once, past the frames that are still
\* in the buffer.  The disorder goes no further: a frame that was sent behind the
\* message is never reported in front of it.  Over a transport that carries one
\* frame in a message at most there is none, so that everything is reported in
\* the order in which it was sent, unless a frame is torn: there may be several
\* in its body.
InSendingOrder ==
    \A i, j \in 1..Len(reported) :
        (/\ i < j
         /\ \/ reported[j].what = "custom"
            \/ ~ wire.coalesce /\ ~ Torn)
            => reported[i].last <= reported[j].last

-----------------------------------------------------------------------------
(***************************************************************************)
(* The same transport as BufferedTransport sees it: a stream of frames     *)
(* with their ends, and a position in it.                                  *)
(***************************************************************************)

Abstract == INSTANCE BufferedTransport WITH
    Coalesce <- TRUE,
    Streams  <- {StreamOf(w.bytes, FramesOf(w.bytes)) : w \in Wires},
    consumed <- arrived - Len(buffer),
    seen     <- [i \in 1..Cardinality(Reports) |-> i]

\* There is at most one line ending in front of, between and behind frames.
OneEnding ==
    \A i \in 0..Len(sent) :
        LET p == IF i = 0 THEN 0 ELSE sent[i].last
            q == OptEndOfLine(wire.bytes, p)
        IN  OptEndOfLine(wire.bytes, q) = q

\* As long as the application leaves the transport alone, and for streams
\* without blank lines, this is a BufferedTransport: the parser, rule by
\* rule, decides what that module says it decides, and when.
ImplementsTransport ==
    /\ OneEnding => Abstract!Init
    /\ [][OneEnding /\ intrusions' = 0 => Abstract!Next]_<<vars, Abstract!vars>>

=============================================================================
