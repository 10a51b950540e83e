------------------------- MODULE BufferedTransport -------------------------
(***************************************************************************)
(* The reading side of BufferedTransport (src/transport/client.rs and      *)
(* src/transport/server.rs, which differ in the message types only): bytes *)
(* arrive in chunks of any size, next() appends each chunk to a buffer and *)
(* tries to decode ONE frame from its front, and the caller may drop the   *)
(* future of next() at its only await point, the transport's read.         *)
(*                                                                         *)
(* The buffer holds the bytes consumed+1 .. arrived of the stream.         *)
(***************************************************************************)
EXTENDS FrameStream

CONSTANT Coalesce   \* whether one read may complete several frames: TRUE for
                    \* a byte stream such as TCP, FALSE when every frame
                    \* travels in a message of its own, as over WebSocket

ASSUME CoalesceAssumption == Coalesce \in BOOLEAN

VARIABLES
    stream,     \* the bytes the peer sends during this connection
    arrived,    \* how many of them transport.read() has returned
    consumed,   \* how many of them decode() has advanced the buffer past
    closed,     \* whether the transport has returned ConnectionClosed
    call,       \* "idle", "reading": next() is suspended at transport.read(),
                \* "released": into_transport() consumed it, "unwound": panic
    result,     \* what the last completed next() returned
    seen        \* the frames that next() has reported, in order

vars == <<stream, arrived, consumed, closed, call, result, seen>>

Results == {"none", "message", "custom", "connection_closed", "read_error",
            "parser_error", "conversion_error"}

(***************************************************************************)
(* parse_frame on the buffer once it reaches up to offset got.             *)
(***************************************************************************)

\* Frame i is at the front of the buffer and its deciding byte is in it.
Holds(i, got) ==
    /\ stream.end[i - 1] <= consumed
    /\ consumed < stream.end[i]
    /\ stream.end[i] <= got

\* The buffer is the first byte of a CR LF and nothing else.  The optional
\* line ending in front of a frame is parsed with complete_err(), so that a
\* lone CR is no line ending, and alpha1 then fails on it.
LoneCR(got) ==
    \E i \in 0..stream.n :
        /\ stream.eol[i] = 2
        /\ consumed = stream.end[i]
        /\ got = consumed + 1

\* Faulty variant: without the complete_err() of the line ending behind the
\* NUL, a frame is incomplete until the byte behind it has arrived.
IncompleteWaitsForEol(got) ==
    \A i \in 1..stream.n : Holds(i, got) => got = stream.end[i]

\* parse_frame asks for more data.
Incomplete(got) ==
    /\ ~ LoneCR(got)
    /\ \A i \in 1..stream.n : ~ Holds(i, got)

\* Faulty variant: a parser of complete input, for which a frame that has
\* not arrived to its end is an error.
ParseFailsOnPartial(got) ==
    consumed < got /\ \A i \in 1..stream.n : ~ Holds(i, got)

\* parse_frame fails.
ParseFails(got) ==
    \/ LoneCR(got)
    \/ \E i \in 1..stream.n : Holds(i, got) /\ stream.kind[i] = "malformed"

\* Faulty variant: the line ending is skipped before it has arrived.
EndOfParseAhead(i, got) == stream.end[i] + stream.eol[i]

\* How far parse_frame gets when it returns frame i: to its NUL, and past the
\* line ending behind it if the buffer already holds all of that.
EndOfParse(i, got) ==
    IF stream.end[i] + stream.eol[i] <= got
    THEN stream.end[i] + stream.eol[i]
    ELSE stream.end[i]

-----------------------------------------------------------------------------
(***************************************************************************)
(* Actions                                                                 *)
(***************************************************************************)

Init ==
    /\ stream \in Streams
    /\ arrived = 0
    /\ consumed = 0
    /\ closed = FALSE
    /\ call = "idle"
    /\ result = "none"
    /\ seen = << >>

Return(r) == call' = "idle" /\ result' = r

\* The caller calls next(), which suspends at transport.read().await before
\* it has looked at the buffer.
CallNext ==
    /\ call = "idle"
    /\ call' = "reading"
    /\ UNCHANGED <<stream, arrived, consumed, closed, result, seen>>

\* The read returns the bytes up to offset got and they are appended.
AppendChunk(got) ==
    /\ call = "reading"
    /\ ~ closed
    /\ Coalesce \/ ~ \E i \in 1..(stream.n - 1) :
                        arrived < stream.end[i] /\ stream.end[i + 1] <= got
    /\ arrived' = got

\* decode() returns Ok(None): next() goes around its loop and reads again.
DecodeNothing(got) ==
    /\ Incomplete(got)
    /\ UNCHANGED <<consumed, call, result, seen>>

\* Faulty variant: the bytes that were read are discarded after an error.
DecodeParserErrorDiscards(got) ==
    /\ ParseFails(got)
    /\ Return("parser_error")
    /\ consumed' = got
    /\ UNCHANGED seen

\* decode() returns before it has advanced the buffer.
DecodeParserError(got) ==
    /\ ParseFails(got)
    /\ Return("parser_error")
    /\ UNCHANGED <<consumed, seen>>

\* Faulty variant: the error of the conversion is returned at once, before
\* the buffer is advanced.
DecodeFrameEarlyReturn(got) ==
    \E i \in 1..stream.n :
        /\ Holds(i, got)
        /\ seen' = Append(seen, i)
        /\ \/ /\ stream.kind[i] = "message"
              /\ consumed' = EndOfParse(i, got)
              /\ Return("message")
           \/ /\ stream.kind[i] = "unrecognized"
              /\ UNCHANGED consumed
              /\ Return("conversion_error")

\* decode() advances the buffer, then returns the message or the error of
\* the conversion.
DecodeFrame(got) ==
    \E i \in 1..stream.n :
        /\ Holds(i, got)
        /\ stream.kind[i] \in Reportable
        /\ consumed' = EndOfParse(i, got)
        /\ seen' = Append(seen, i)
        /\ Return(IF stream.kind[i] = "message" THEN "message"
                                                ELSE "conversion_error")

\* The conversion panics, before the buffer is advanced.
DecodePanic(got) ==
    /\ \E i \in 1..stream.n : Holds(i, got) /\ stream.kind[i] = "panics"
    /\ call' = "unwound"
    /\ UNCHANGED <<consumed, result, seen>>

\* ReadData::Binary: append the chunk (which may be empty), then decode.
ReadBinary ==
    \E got \in arrived..stream.size :
        /\ AppendChunk(got)
        /\ \/ DecodeNothing(got)
           \/ DecodeParserError(got)
           \/ DecodeFrame(got)
           \/ DecodePanic(got)
        /\ UNCHANGED <<stream, closed>>

\* ReadData::Custom is returned as it is, whatever the buffer holds.
ReadCustom ==
    /\ call = "reading"
    /\ ~ closed
    /\ Return("custom")
    /\ UNCHANGED <<stream, arrived, consumed, closed, seen>>

\* The read fails with an error other than ConnectionClosed.
ReadFails ==
    /\ call = "reading"
    /\ ~ closed
    /\ Return("read_error")
    /\ UNCHANGED <<stream, arrived, consumed, closed, seen>>

\* Faulty variant: what the buffer still holds is decoded first.
ReadClosedDrains ==
    /\ call = "reading"
    /\ closed' = TRUE
    /\ \/ DecodeFrame(arrived)
       \/ /\ Incomplete(arrived)
          /\ Return("connection_closed")
          /\ UNCHANGED <<consumed, seen>>
    /\ UNCHANGED <<stream, arrived>>

\* The read returns ConnectionClosed, and does so from then on.
ReadClosed ==
    /\ call = "reading"
    /\ closed' = TRUE
    /\ Return("connection_closed")
    /\ UNCHANGED <<stream, arrived, consumed, seen>>

\* Faulty variant: the buffer belongs to the future that is dropped.
CancelLosesBuffer ==
    /\ call = "reading"
    /\ call' = "idle"
    /\ consumed' = arrived
    /\ UNCHANGED <<stream, arrived, closed, result, seen>>

\* The caller drops the future of next(), e.g. because another branch of a
\* select completed.
Cancel ==
    /\ call = "reading"
    /\ call' = "idle"
    /\ UNCHANGED <<stream, arrived, consumed, closed, result, seen>>

\* into_transport() gives the transport back and drops the buffer.
IntoTransport ==
    /\ call = "idle"
    /\ call' = "released"
    /\ UNCHANGED <<stream, arrived, consumed, closed, result, seen>>

Next ==
    \/ CallNext
    \/ ReadBinary
    \/ ReadCustom
    \/ ReadFails
    \/ ReadClosed
    \/ Cancel
    \/ IntoTransport

Spec == Init /\ [][Next]_vars

\* The caller keeps reading, and bytes that are on their way reach a read
\* sooner or later, even if reads are cancelled now and then (which is why
\* the second fairness is strong).  Nothing makes a peer send more than its
\* stream, close, or send a side-channel message.
ReadProgress == ReadBinary /\ arrived' # arrived

FairSpec == Spec /\ WF_vars(CallNext) /\ SF_vars(ReadProgress)

-----------------------------------------------------------------------------
(***************************************************************************)
(* Properties                                                              *)
(***************************************************************************)

\* Type invariant.
TypeOK ==
    /\ WellFormed(stream)
    /\ arrived \in 0..stream.size
    /\ consumed \in 0..arrived
    /\ closed \in BOOLEAN
    /\ call \in {"idle", "reading", "released", "unwound"}
    /\ result \in Results
    /\ seen \in Seq(1..stream.n)

\* Every frame is reported at most once and in the order of the stream, with
\* none skipped, however the stream is cut into chunks and whatever
\* cancelled reads, side-channel messages and errors come in between.
InOrder == \A j \in 1..Len(seen) : seen[j] = j

\* The buffer always begins where the last reported frame ended (with or
\* without its line ending): no error, cancellation or early return of next()
\* ever drops or re-reads a byte of a frame not yet reported.
BufferAligned ==
    \/ consumed = stream.end[Len(seen)]
    \/ consumed = stream.end[Len(seen)] + stream.eol[Len(seen)]

\* Bytes that cannot be parsed are never advanced past, and a panic does not
\* advance the buffer either, so that no frame behind them is ever reported:
\* there is no resynchronisation with the stream.
NothingBehindBadFrame ==
    \A j \in 1..Len(seen) :
        \A i \in 1..stream.n : stream.kind[i] \notin Reportable => seen[j] < i

\* A parser error is reported only when the buffer starts with bytes that no
\* frame can start with: never because a frame is still incomplete.
ParserErrorIsTruthful ==
    result = "parser_error" =>
        \E i \in 1..stream.n : /\ Holds(i, arrived)
                               /\ stream.kind[i] = "malformed"

\* So it is, wherever the reads end, for a peer that ends its lines with LF:
\* only the CR of a CR LF makes parse_frame fail on bytes of a good stream.
TruthfulWithoutCRLF ==
    (\A i \in 0..stream.n : stream.eol[i] # 2) => ParserErrorIsTruthful

\* No frame lies complete in the buffer, unreported, while next() waits for
\* the transport: a caller that is blocked has been told all there is.
NothingStranded ==
    call = "reading" =>
        \A i \in 1..stream.n :
            Holds(i, arrived) => stream.kind[i] \notin Reportable

\* Once the transport has reported the end of the connection, every later
\* call returns that same error, whatever the buffer still holds.
ClosedIsFinal == [][closed => result' = "connection_closed"]_vars

FrameNumbers == UNION {1..s.n : s \in Streams}

\* The frames up to i can all be reported.
Deliverable(i) == \A j \in 1..i : stream.kind[j] \in Reportable

Finished == closed \/ call \in {"released", "unwound"}

\* Every frame in front of the first bad one is eventually reported, unless
\* the connection is closed or the handle given up.
EventuallySeen ==
    \A i \in FrameNumbers :
        (i <= stream.n /\ Deliverable(i)) ~> (Len(seen) >= i \/ Finished)

\* Read through these values, the transport does what a handle promises.
Promise == INSTANCE FrameDelivery WITH
    delivered <- seen,
    open <- ~ (closed \/ call \in {"released", "unwound"})

ImplementsDelivery == Promise!Spec

=============================================================================
