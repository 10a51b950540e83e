# TLA+ specifications of stomp-agnostic

A verification project for the `stomp-agnostic` crate: TLA+ models of its
parser, its reading side, its two handles, its codec and its examples, TLC
configurations that check them, and TLAPS proofs of the results that matter
most. Paths are relative to
the repository (`src/` is the crate's source directory, written `src/src/` in
`PROJECT.json`, whose root also holds the README and the examples).

## 1. The system

`stomp-agnostic` speaks STOMP 1.2 over a transport that the application brings.

| Component | Source | State | Operations |
|---|---|---|---|
| Transport (trait, the application's) | `src/transport/{mod,client,server}.rs` | the connection | `read` returns bytes, a side-channel message or an error; `write` sends a message |
| Buffered transport | `src/transport/client.rs`, `server.rs` (the same code for the two message types) | the transport and a byte buffer | `new`, `append`, `decode`, `send`, `next`, `into_transport`, `as_mut_inner` |
| Client handle | `src/handle/client.rs` | a buffered transport | `connect` (handshake), `send_message`, `read_response`, `into_transport`, `as_mut_transport` |
| Server handle | `src/handle/server.rs` | a buffered transport | `wait_for_connection` (handshake, callbacks `handle_login` and `create_session`), `send_message`, `read_data`, `into_transport`, `as_mut_transport` |
| Frame parser | `src/frame.rs` 145-230 | none | `parse_frame` on a partial buffer: a frame, Incomplete, or an error |
| Frames | `src/frame.rs` | command, headers, body | `new`, `add_extra_headers`, `serialize`, header lookup, escapes |
| Messages | `src/lib.rs`, `src/frame.rs` 335-720 | 10 variants to the server, 4 from it, extra headers | `to_frame`, `into_bytes`, `from_frame` |
| Examples | `examples/` | what `main` and `handle_socket` do next | a WebSocket client that connects, subscribes, pings, disconnects; a server task per WebSocket that answers |

How they interact: a handle owns a buffered transport, which owns the
application's transport. `connect` writes a CONNECT and takes the first thing
that is read as the answer; `wait_for_connection` takes the first thing that is
read as the CONNECT, calls its callbacks, and writes CONNECTED. Afterwards each
call of a handle is one call of the transport or of `next()`. There are no
threads and no locks: concurrency is between the two ends of a connection, and
between a pending future and the code that may drop it. `next()` has a single
await point, the transport's `read`.

### What is hard

* **Chunks.** A read ends anywhere: within a frame, within the line ending
  behind it, behind several frames. The parser runs on what there is; where it
  stops depends on what had arrived. `next()` reads before it looks at its
  buffer, and decodes one frame per read.
* **Cancellation.** The future of `next()` or of a handshake may be dropped
  while it waits.
* **Errors at different places.** A parse error leaves the buffer alone, a
  conversion error advances it, a panic leaves it alone, the end of the
  connection hides what it holds.
* **The handshake.** Frames may follow CONNECT or CONNECTED at once, in the same
  chunk; writes may fail after the frame went out; a rejected client is not
  told so; a server may try again on the transport it was given back.
* **Behind the handle's back.** `as_mut_transport` reads and writes past the
  buffer, `into_transport` drops it with what it holds. The examples do both.
* **Round trips.** Fields, custom headers and extra headers take different ways
  through escaping, and a message may go over more than one connection.

Every hazard is listed in `PROJECT.json` at its line, with the properties that
cover it.

### What makes each component correct

* Buffered transport: frames are reported in order, once each, up to the first
  bad one; no byte of an unfinished frame is lost; an error means what it says;
  nobody waits for a frame that is already there.
* Handles: a client's handle stands for a login the server accepted and a
  session it created; no session without that, never two; no frame of the other
  end is lost or repeated between the handshake and the handle; both handshakes
  end.
* Parser: it finds the frame that is there and no other, waits only if waiting
  can help, and does not change its mind when more bytes arrive.
* Codec: what is sent is what arrives.
* Examples: each program ends, and the client reports a clean end only after a
  complete exchange.

## 2. The modules

| Module | Models | Builds on |
|---|---|---|
| `Decimal` | the numbers that `get_content_length` reads: what `u32::from_str` takes | |
| `FrameParser` | `parse_frame`, rule by rule, on a buffer of symbols that ends anywhere | `Decimal` |
| `FrameGrammar` | reference: what a frame is, said without a parser | `FrameParser` for the symbols and `Number` |
| `GrowingBuffer`, `MCGrowingBuffer` | a buffer that is appended to and parsed from its front each time | `FrameGrammar` |
| `FrameStream` | the peer's byte stream as the parser sees it: positions and kinds of frames | |
| `FrameDelivery` | abstract: frames are delivered in order, once, until the end | `FrameStream` |
| `BufferedTransport` | `transport/*.rs`: `next`, `append`, `decode`, at the grain of frames with their ends | `FrameStream`, refines `FrameDelivery` |
| `MCBufferedTransport` | small streams | `BufferedTransport` |
| `WireReader`, `MCWireReader` | the same code over streams of symbols; reads past the buffer and new handles | `FrameParser`, refines `BufferedTransport` |
| `Connection` | two directions of whole frames, with what has been written, has arrived and has been decoded | |
| `ClientHandle` | `handle/client.rs` and its application | `Connection` |
| `ServerHandle` | `handle/server.rs` and its application | `Connection` |
| `Conversation` | abstract: login, session, handle, and what the two ends hear of each other | |
| `StompSession` | both handles on one connection | `ClientHandle`, `ServerHandle`, refines `Conversation` |
| `ServerSession`, `MCServerSession` | the server's handle and a client that writes anything | `ServerHandle` |
| `ExampleClient` | `main` of `examples/stomp_client.rs` | `ClientHandle` |
| `ExampleServer` | `handle_socket` of `examples/stomp_server.rs` | `ServerHandle` |
| `ExampleSession`, `MCExampleSession` | the example server with the example client, or with any other | `ExampleClient`, `ExampleServer` |
| `HeaderText` | escapes of header texts | |
| `FrameCodec` | messages, frames, and the conversions between them | `HeaderText`, `Decimal` |
| `Relay`, `MCRelay` | a message over several connections | `FrameCodec` |
| `BufferedTransportProofs` | proofs | `BufferedTransport` |
| `ConnectionProofs` | lemmas about what an operation on a direction changes | `Connection` |
| `StompSessionProofs` | proofs, the refinement of `Conversation` among them | `StompSession`, `ConnectionProofs` |
| `ServerSessionProofs` | proofs | `ServerSession`, `ConnectionProofs` |
| `ExampleSessionProofs` | proofs | `ExampleSession`, `ConnectionProofs`, `Induction` |
| `Induction` | lemmas: induction over numbers and sequences, recursive functions, folds | |
| `FrameParserProofs` | lemmas about each rule of the parser, and proofs about a buffer that grows and about a stream in chunks | `GrowingBuffer`, `WireReader`, `Induction` |
| `RelayProofs` | lemmas about the codec, and proofs | `Relay`, `Induction` |

Definitions commented "Faulty variant" are plausible bugs. No specification uses
them; `PROJECT.json` names, for each property, the one that violates it.

### FrameParser, FrameGrammar, GrowingBuffer

A buffer is a sequence of symbols: LF, CR, colon, NUL, the letters of commands,
digits, and the key `content-length` as one symbol. Each winnow rule is an
operator that takes the buffer and a position and yields the position behind what
it took, `NeedsMore` (winnow's Incomplete) or `Fails` (its Backtrack).
`complete_err` is modelled where the code has it, on the line ending in front of
a frame and on the one behind it: there, what has not arrived is not there
(`OptEndOfLine`). `repeat(0.., parse_header)` ends at the first line that
Backtracks, not at one that is Incomplete. `get_content_length` looks at the
first header of that name only, also if it is no number or does not fit a u32.
A number (`Number`) is any decimal one up to `MaxLength`, with leading zeros and with
or without a plus sign in front.

`FrameGrammar` describes the same language without a parser: a head is a line of
letters, lines with a colon and an empty line, each known by the LF in front of
it and the LF at its end (`IsHead`), every CR in it stands in front of an LF, and
the body reaches to the first NUL or has the length that the first content-length
announces (`IsFrame`). It shares with the parser only the symbols and `Number`.
`GrowingBuffer` appends pieces and parses from the front each time, as `decode`
does. Its three properties are what the rest builds on: `FindsFrames` against the
grammar (there is one frame or none, and it is the one that was found, with its NUL, its
body and the line ending behind it), `IncompleteIsViable` against waiting in vain, `DecisionsStand` against a
result that depends on where a chunk ended; the last names the one exception, a
buffer of nothing but the CR of a CR LF.

### BufferedTransport

The stream is fixed in the initial state and never represented byte by byte: a
byte is its offset, a frame is the offset `end[i]` of the byte at which the
parser decides about it, and the buffer is the interval `consumed+1 .. arrived`.
That is all that `next()` can observe through `parse_frame`:

* `Incomplete`, `ParseFails`, `Holds`, `EndOfParse` are the three results of
  `parse_frame` and the parser's position behind a frame. The line ending behind
  the NUL is taken if it has arrived (`complete_err`), otherwise it is in front
  of the next frame. `LoneCR` is the one buffer on which this goes wrong.
* `CallNext`, then one of `ReadBinary` (`append` and `decode`, which has four
  outcomes), `ReadCustom`, `ReadFails`, `ReadClosed`, or `Cancel`. A read that
  completes no frame leaves the call `"reading"`, which is the loop in `next`.
* The kind of a frame says what its conversion does: a message, an error that
  is returned, or a panic.
* `Coalesce` says whether one read may complete several frames: TRUE for TCP,
  FALSE for transports with one frame per message, such as WebSocket as the
  examples use it.

### WireReader

The stream is symbols and the buffer the offsets of those in it, `Decode` runs
`FrameParser` on their text, and the frames the peer sent (`sent`) are those that
one parse of the whole stream finds. So a body may hold a NUL, or a whole frame,
and blank lines may stand between frames. Behind each side-channel message
(`asides`) the stream goes on. `Rewrap` makes a new handle of the transport and
`RawRead` reads past the buffer, both of which the crate allows;
`ReportsWhatWasSent` says what that costs: the frames it took, and no others, if
it does not cut one (`Torn`, by `Seams`: where a stream may be cut). `InSendingOrder`
relates frames and side-channel messages. Where one read may complete several frames,
a side-channel message overtakes those that wait in the buffer, and the property says
that no frame ever overtakes a side-channel message; where it may not, that everything
is reported in the order in which it was sent. A torn frame breaks the latter too, when frames in
its body are reported after a message that was sent behind them. `EarlyErrorsAreLineEndings` says on what a
well-formed stream is refused, a lone CR or the second of two line endings, the
case that is undecided in `BufferedTransport`. `ImplementsTransport` maps the
state to `BufferedTransport` (`StreamOf`, `consumed`), for streams with at most one line
ending between frames and as long as the application leaves the transport alone:
what that module says about frames and positions is what the grammar yields.
`FailsAt` is where the parser first refuses what comes behind the last frame. A lone
CR there is refused at once, but the CR of a CR LF only until its LF has come, so the
search begins behind the line ending.

### Sessions

Here a chunk brings whole frames, and a direction is a record `sent`, `arrived`,
`decoded`, `closed`. `BufferedTransport` is why this grain is enough: frames are
decoded in order, once each. A handshake is one call of `next()`, so each of its
outcomes is one action: `HandshakeFrame`, `HandshakeOther`, `HandshakeClosed` on
the server, `AwaitConnected`, `AwaitConnectedClosed`, `GiveUpConnect` on the
client. The callbacks run without an await in between and are part of
`HandshakeFrame`. The write of CONNECTED has its own three actions because it
awaits and may fail on either side of the wire. `Retry` is a second call of
`wait_for_connection` on the transport in the `ClientHandshakeError`, with a new
and empty buffer. `Break` loses whatever is on its way.

`StompSession` has this library at both ends. `ServerSession` has a client that
writes any frames, malformed ones included, without waiting for anything.

### Examples

A WebSocket message is a STOMP frame, a Ping, a Pong or a Close, so `Coalesce` is
FALSE and a message that is no frame goes through the same `Connection`. `todo`
is the next statement of `main`, `answer` what the server's loop is about to send
with `as_mut_transport().write()`, past its handle. The errors that the client
unwraps are panics; the server's task returns or leaves its loop. A write may
fail when the connection is broken or the other end gone. `into_transport` and
`send_close_message` are the one action `LoopClose`. The other client (`peer =
"other"`) sends CONNECTs, frames, Pings, Pongs, a Close and bytes that are no
frame in any order, and leaves when it likes.

### Codec

Header texts are sequences of symbols: backslash, colon, line feed, carriage
return, the letters behind a backslash, each digit and the plus sign of a number, and
any other run of bytes as one symbol. A content-length is read by the same `Number` as
in the parser, so a body may have any length that a u32 can announce.
An empty header key is written but not read back: `Parse` refuses it.
`Heartbeats` is the table of what `parse_heartbeat` and `Display` make of a value, so
that `+06,7` comes out as `6,7`. The tables
`ToServer`, `FromServer` and `Written...` list, per variant, the spellings and
the headers in the code, with required and optional ones told apart. A message's
custom headers are unescaped when they are read (`HeadersOf`); its extra headers
are not (`ToMessage`), and `Serialize` escapes all.

## 3. The runs

| Run | Question | Size |
|---|---|---|
| `growing_buffer` | the parser against the grammar, on every buffer that pieces can make | 411 771 states |
| `transport_safety` | order, position and errors for every chunking, with cancellations and closing | 106 818 |
| `transport_live` | with one frame per read: nothing is stranded, every frame is eventually reported | 51 496 |
| `transport_lonecr` | violated: a parse error without malformed bytes | |
| `transport_stranded` | violated: a frame that is never reported | |
| `wire_reader` | the reading side over symbols, blank lines, side-channel messages and reads behind its back | 224 290 |
| `session` | agreement, sessions, nothing lost behind the handshake, `Conversation`; both handshakes end, or wait for each other after a retry | 7 312 |
| `server_session` | the server against any client | 110 328 |
| `example_session` | the example programs with each other, and the server with any client | 154 250 |
| `relay` | what becomes of messages over up to three connections | 21 691 |
| `relay_transaction` | violated: the transaction of a SEND | |
| `relay_serialized` | violated: a DISCONNECT read and written again | |

Deadlock is checked in `wire_reader` only, whose caller may always read on;
elsewhere the system may really stop (a released or unwound handle, two ends that
are gone, a message that has gone far enough, a buffer that has grown enough).

**Bounds.**
`GrowingBuffer`: six pieces behind each of three beginnings. A piece is a symbol,
or the line of a content-length that is small enough (with a sign), or one that is too large
(`MaxLength` 1 stands for 2^32 - 1); that makes heads of two lines with either
line ending, bodies with a NUL in them, and every place at which a chunk may end.
`BufferedTransport`: frames of two bytes, so that a chunk can end inside one;
line endings of no, one or two bytes; streams of one or two frames of every kind
for safety and of three for stranding and liveness; a tail byte of a frame that
never ends. Two frames suffice for the position of the buffer, because a step
only looks at the frame at its front; the proofs remove the bound.
`WireReader`: 100 streams of one or two frames, with every line ending in front,
between and behind them, up to three line endings in a row, a CR that no LF follows
(`MCLoneCR`), bodies with a NUL or with whole
frames, a frame that never ends and bytes that are no frame; up to three
side-channel messages, also inside of a frame; one intrusion (`Intrusions` 1): one
is enough to cut a frame and to lose frames (the proofs need no bound on streams or
intrusions).
Sessions: an end writes up to four frames (CONNECT or CONNECTED and three more,
so that some are in the buffer, some on their way, and some not written), there
are two credentials of which one is accepted, and two retries, so that a retry
follows a retry; the proofs remove these bounds. In `ServerSession` the client
writes three frames out of four CONNECTs and three others.
`ExampleSession`: the example client's exchange is finite, and the proofs need no
bound; the other client sends four messages (`Visits`): CONNECT and three more, so that one may come in front of
a DISCONNECT and another behind it.
`Relay`: the symbols are those the messages and frames are made of (`MCSymbols`); each
field has two values, plain and full of special symbols; bodies
with a NUL at the end and in the middle, and one of ten bytes; content-lengths right,
short and long, of one and of two digits and with a sign, one that is too large
(`MaxLength` 12 stands for 2^32 - 1), a sign alone and no number; empty keys; three hops, so that what grows is told from what changes
once.

**Fairness.** `BufferedTransport`: a caller calls `next()` again (weak), and
bytes on their way reach a read in the end although reads may be cancelled
(strong, for a cancelled read is enabled again and again). Nothing else: no
close, no side-channel message, and no bytes beyond the stream.
`StompSession`: the tasks of both ends are polled, frames and the end of the
connection reach a read that waits, the write of CONNECTED returns, and an
application that gets a `ClientHandshakeError` drops it, as
`examples/stomp_server.rs` does by returning, unless it tries again. The server
sends nothing to a client that it rejects and neither end has a timeout, so
without the last one a rejected client waits forever; and it does so when the
server tries again on its transport, which is the exception that
`ConnectSettles` names. Nobody has to send, to give up, or to break anything.
`ExampleSession`: weak fairness of the example client and of the server's task,
each a loop of one runtime task that takes its next step whenever it can; the
other client and the connection need not do anything, so `TaskEnds` begins with
its leaving or with a DISCONNECT. A read that waits on a connection that is gone
returns: that is assumed of the socket.

## 4. Where the code and its words differ

* `transport_lonecr`: `parse_frame` says that it returns Incomplete for input
  without a complete frame (`src/frame.rs` 174). On the first byte of a CR LF it
  returns an error. The trace is a frame with CR LF behind it: one read ends at
  its NUL, and the frame is reported; the next brings the CR alone, and `next()`
  returns a parser error. The run's streams (`MCFollowedStreams`) are one or two
  messages, each with CR LF behind it and nothing in front. The bytes stay in the buffer, so a caller that goes on
  reading recovers once the LF has come; one that gives up, as the examples do,
  loses the connection.
* `transport_stranded`: `read_response` and `read_data` "read a STOMP message".
  When one read of the transport brought several, all but the first wait for
  later reads, one each; at the end of the stream they wait forever.
* `relay_transaction`: `ToServer::to_frame` writes a SEND's transaction as `id`
  (`src/frame.rs` 612); `to_client_msg` reads it from `transaction`.
* `relay_serialized`: a test's comment says that a DISCONNECT is serialized back
  to the exact bytes it was parsed from (`src/frame.rs` 842). The extra headers
  are escaped a second time on the way.

The transports of the examples differ from `src/transport/mod.rs` 20-22, which has
`ConnectionClosed` for a connection that has closed: they report a broken stream, and
one that ends without a Close, as `ReadError::Other` (`examples/stomp_client.rs`
175, `examples/stomp_server.rs` 193). `ExampleSession` models what they do: then
`outcome` is `"error"` and not `"closed"`. Both programs treat the two alike.

The relay run states what follows where the code is at odds with nothing but
expectation: `MessagesGrow` and `ExtraHeadersEscaped` describe exactly how
messages grow on every hop.

## 5. The proofs

All proofs are for every value of the constants; TLC's instances are the check
before the proof.

`BufferedTransportProofs`. The inductive invariant `IInv` adds to the type
invariant, `InOrder` and `BufferAligned` that every reported frame could be
reported. The three need each other: the position of the buffer says which
frame is at its front, and only if that is the one behind the last reported
frame (lemma `FrontFrame`) does the next report keep the order and the position.
From it: `TypeCorrect`, `OrderedOnce`, `AlwaysAligned`, `NoResynchronisation`,
`ClosedStaysFinal` (after ConnectionClosed there is no other result), and
`DeliversAsPromised`, the refinement of `FrameDelivery`. Two more theorems
say when the two violated properties do hold:
`NothingStrandedWithoutCoalescing` for transports with one frame per read, and
`ParserErrorsAreTruthfulWithoutCRLF` (the invariant `TruthfulWithoutCRLF`) for
peers that put no CR LF behind their frames. The
assumptions are that streams are well-formed (frames do not overlap) and that
`Coalesce` is a Boolean.

`StompSessionProofs`. The inductive invariant says, by the phase of each end,
what it has written (`ClientWrote`, `ServerWrote`) and read (`ClientRead`,
`ServerRead`). Its core is that the client's CONNECT is the first frame a server
decodes and that everything after it is settled: a second attempt finds either
nothing decoded, or a SEND. That needs `arrived = 0 \/ decoded > 0`, since a
retry throws the buffer away, and a CONNECT in it would be lost. From it:
`TypeCorrect`, `HandlesAgree`, `SessionsAreForLogins`, `ServerHears`,
`ClientHears`, `ConnectedComesFirst`, for any credentials, any number of frames
and of attempts, with or without coalescing. The bounds on what an end sends are
assumed to be natural numbers, and nothing else of the constants but that
`Coalesce` is a Boolean. `ConnectionProofs` holds what each operation on a
direction changes, and both session proofs cite it.

In the same module, `HandlesKeepTheirPromise` says that `StompSession`
implements `Conversation`. What was said is what was written behind the first
frame, so lemmas about `Behind` come first (the frame of the handshake adds
nothing, any later one adds a word); then there is one lemma per action that
`Conversation` sees, and `Unseen` for the others. The invariant is needed where
an action's guard in `Conversation` speaks of the other end: `Join` needs that a
session was granted, `Grant` that the login is the one presented, and the two
`Hears` that the reader's position and the number of words it has heard go
together.

`ServerSessionProofs`. For a client that writes any frames at any time, of which
only the offered ones are CONNECTs: `ReadingGoesOn`, `LoginsWereOffered` and
`SessionsAreCounted`. The invariant adds to the three properties that nothing is
read before there is a handle, that while CONNECTED is on its way the last frame
decoded is the accepted CONNECT, and that a session whose CONNECTED is not yet on
the wire is counted as still to be answered: without the last, one session could
stand for two CONNECTEDs.

`ExampleSessionProofs`. Two results are about the example server and any client, for
any number of messages. `LoopHears`: its loop hears nothing from in front of the
CONNECT or behind a DISCONNECT. The invariant `Loop` says why: from the handshake on
a CONNECT is among the frames decoded before the first one heard, and a loop that
goes on, its `answer` not `"CLOSE"`, has read no DISCONNECT. `AlwaysInStep`: what it
sends answers what it hears, message by message. The invariant `Answered` adds how
far the answers are behind in each state of the loop.

Two are about the server and the example client, and a connection that may break at
any moment. The invariant `Exchange` gives the client's place in its program by how
many messages it has written and read (`At`), and what the server has heard by its
position in the stream (`ServerSide`). With `Answered` these determine the whole
conversation (`Script`): the server is asked nothing but the Ping and the
DISCONNECT, so that it cannot have said more than CONNECTED, Pong and Close, nor any
of them before its time. From this follow `CleanEndIsComplete`, and, with what holds
until the connection breaks (`Unbroken`), `NothingFailsUnbroken`: an end that is gone
has seen the Close or sent it, so no step on which a program fails can be taken.
The last two need that `handle_login` accepts every login (`LoginsAssumption`;
`examples/stomp_server.rs` 56).

`FrameParserProofs`, on a buffer that grows. Where a rule of the parser stops
(`...Range`), and that it stops there again when there are more bytes (`...Stable`),
rule by rule, up to `ParseFrameStable`. `HeadersEnd` and `ContentLength` are recursive
functions on the positions of a buffer; `HeadersFromDef` and `LengthFromDef` show that
they exist and satisfy their equations. Two results are for buffers of any length and
any pieces, from the invariant that the verdict is that of a parse of all that was
read (`ParsedAfresh`).
`DecisionsAlwaysStand`: no chunk turns an error into a frame, or a frame into another
one, but for the lone CR. `NeverWaitsInVain`: for each place at which the parser may
ask for more, a lemma gives bytes that take it past, from a command without its end to
a body short of its announced length; the theorem assumes that the completions are all
texts of symbols, which no run can enumerate. Assumed are that CR and LF are no letters,
that the largest content-length is a number, and that buffers are sequences.

`FrameParserProofs`, on a stream in chunks (`WireReader`). The stream is any sequence of
symbols, and any number of handles and reads past the buffer may intervene; assumed is
only that streams are sequences and side-channel messages have positions. The inductive
invariant `WireInv` is `TypeOK`, `Buffered` (what is in the buffer arrived behind all that was
consumed), and `TornForGood \/ WholeFrames`: what was consumed are whole frames of the
stream, and those are what was reported. `Torn` would not do in place of `TornForGood`:
a frame that is torn in the buffer may still be given up with the handle, after which
nothing is torn any more, so only a tear next to a consumed byte is final. A step that
takes a frame (`FrameTaken`) is proved in four parts:

* the frames of the stream form a chain, each found by a parse behind the one before
  (`FramesChain`; the recursion of `FramesOf` by `FramesFromDef`);
* the buffer begins behind a frame, or behind a frame's line ending (`BeginsWhereSent`),
  and has no gap before the end of the frame at its front (`NoGapInFrame`);
* a rule of the parser takes the same from the same symbols at another place
  (`...Moves`, up to `FrameMoves`), so that the parse of the buffer ends at the NUL at
  which the parse of the whole stream did (`FindsSent`);
* it then takes one line ending or none (`TakesOneEnd`).

From it: `WireTypes` and `FramesAsSent`. `ErrorsAreLineEndings` adds what the parser makes
of the front of a buffer: with the first letter of a frame at its front and no gap behind
it, a parse that failed would fail on the stream too, with more bytes (`PartDoesNotFail`,
from `ParseFrameStable`), so it fails in front of that letter, on line endings.
`SendingOrderKept` needs the invariant `InTurn`: side-channel messages that have not
been returned are behind all that has arrived, so that no frame overtakes one
(`AsidesInTurn`); and with one frame per read, no frame waits in the buffer while
nothing is torn (`NothingDue`), so that what is reported has arrived with the read that
reports it. There a parser error is as good as an empty buffer, for it stands.

The proofs corrected three of these properties (`MCBroughtTogether` and `MCTornBody` are
streams on which they used to fail):
`Seams` has the end of the line ending behind a frame only if none follows it (a run of
line endings, cut in the middle, is no place to go on); `EarlyErrorsAreLineEndings`
speaks of frames that the application has not taken (`lost`); and `InSendingOrder`
excludes torn frames. `ReportsWhatWasSent` was restated with the places of the frames in
`reported` (`Reports`) and now says which frames may be left out.

`FramesAreFound` compares the parser with the grammar, for any buffer (`FindsFrames`).
`HeadAt` is the grammar's head, from the LF behind the command on, with the rule for its
CRs. `HeadersFound` says that the parser stops
behind an empty line if and only if what it passed is a head: by induction over the
positions of the buffer from its end (`HeaderLineTaken` and `EmptyLineTaken` are its
steps, and `HeadSplits` takes the first line off a head); that the length it has found
then is the one announced comes along in the same induction. `CommandTaken`,
`LettersTaken` and `BodyTaken` are the rules in front of the headers and behind them.
`FoundIsFrame` and `FrameIsFound` are the two directions, and that a buffer begins with
one frame at most follows, for the parser has only one result.

`IsBufferedTransport` is the refinement of `BufferedTransport` by `WireReader`, step by
step (`ImplementsTransport`). Its invariant `InStep` says where the buffer begins: as long
as the application leaves the transport alone it holds the stream without a gap from
behind frame `k` (`EndAt`) or from behind the line ending there (`EolAt`), where `k` is
the number of frames reported. For such a buffer the parser has three results, and each
is that of `BufferedTransport` (`SaysTheSame`):

* a frame: the next of the stream, and none is skipped (`DueIsFound`, from `FindsSent`
  and `TakesOneEnd`), with the command it has in the stream (`SameCommand`);
* more bytes are needed: then the next frame has not arrived (`DueIsAwaited`), and behind
  the last frame nothing has been refused so far;
* an error: while a frame is due, only on the CR of a CR LF (`DueIsRefused`, from
  `FrontOfBuffer` and `PartDoesNotFail`). Behind the last frame, from the place on that
  `FailsAt` finds (`NoneDue`): what is refused stays refused (`FailsLater`), whether the
  line ending in front of it is still in the buffer or not (`EndingSkipped`; two buffers
  with the same symbols behind their line endings are refused together, for otherwise
  the bytes that complete one would complete the other, `FailsMoves`).

That the stream is one `BufferedTransport` is meant for, which that module assumes, is
`StreamsAreWellFormed`. So what is proved of `BufferedTransport` for well-formed streams is
proved of the parser on streams of symbols. The proof corrected the mapping: behind a
CR that no LF follows, it used to wait for one byte more than the code does. `MCLoneCR` are
streams on which the two differ.

`RelayProofs`. `UnescapeEscape` says that unescaping undoes escaping, for every text;
the escape of a text is also injective and is UTF-8 when the text is. From lemmas
about looking up, dropping and appending headers comes `ReadIs`: what is read of a
message that was serialized, field by field and header by header. The five
properties of the `relay` run follow from it, each with an invariant of its own on
top of `Inv` (the message at hand is a well-formed one, of the kind of its origin):

* `FieldsInv`: no header poses as a field on any hop, so fields survive
  (`FieldsAlwaysSurvive`);
* `GrowthInv`: a MESSAGE that was read has its three fields, so it gains three
  headers per hop (`MessagesAlwaysGrow`);
* `CustomInv`: a custom header is found under its key on every hop
  (`CustomHeadersAlwaysSurvive`);
* `ExtraInv`: the extra headers are those of the origin, escaped once per hop
  (`ExtraHeadersAlwaysEscaped`);
* `ReadBackInv`: the message at hand is `Readable`: keys not empty, texts UTF-8, the
  content-length right or not needed. Each read makes it readable again, so
  `SoundAlwaysReadBack`.

A number must come through the escapes as it is, for the length is read before they
are undone: a digit or a plus sign is escaped to itself (`EscapePlain`), and a text that
holds anything else is no number before or after (`NumberEscaped`). So a content-length
announces the same length on every hop (`LengthEscaped`), any that a u32 can hold.

They hold for any texts, any messages that are well-formed (`IsMessage`) and any
frames (`IsFrame`), and any number of hops; of the symbols it is assumed that they
include those with a meaning.

Proving `CustomHeadersSurvive` corrected it: it used to leave out only the keys
equal to a field's own name. A SEND writes its transaction under `id`, so with a
transaction it loses a custom header `id`, and its reader takes a custom header
`transaction` for the field. The property now leaves out the names fields are written
under, too.

`Induction`. The library's induction theorems take the statement as an operator, which
no prover here can instantiate. These lemmas say the same with sets in place of
statements (a set of sequences that holds the empty one, and with each its
extensions by one element, holds all), from the least element of a set of numbers
that is not empty. They give the recursive functions of the models their
equations (`UpwardRecursion`, `DownwardRecursion`, `JumpRecursion`), and operators
that go through a sequence theirs (`FoldAppend`).

Only model-checked:

* all liveness and ENABLED (TLAPS has no rules for fairness here): `BothEnd`,
  `TaskEnds`, `ConnectSettles`, `WaitSettles`, and `EventuallySeen`;
* the four runs that expect a violation.

## 6. Not modelled

* Numbers in a heart-beat other than the few in `Heartbeats`.
* A half-open connection, one that is gone while neither end's read or write returns
  an error: `BothEnd` and `TaskEnds` rest on a break being noticed by the reader, and
  no program here has a timeout that would end it otherwise.
* Bytes that are not UTF-8 in `WireReader`: that a conversion panics on some of
  them is in `BufferedTransport` (the kind `"panics"` of a frame) and in `FrameCodec`.
* What the WebSocket library of the examples sends by itself: its answer to a
  Close, and to a Ping, in whose place the model has the answer that the
  example program sends.
* `main` of the example server up to the socket (the listener, the router),
  arguments and logging. Connections share no state, so one is modelled.
* How much memory the buffer takes: it has no limit in the code, and the streams
  here are finite. That a frame of an announced length of up to 2^32 - 1 never
  ends is a stream with a tail, or `MCTooLong`.
* `scripts/`, `Cargo.toml` and `check.sh`: no behaviour of the program.

## 7. Plan

Done: the inventory; the reading side, the sessions and the codec; the parser and
its grammar; the reading side over symbols; the examples; the proofs of section 5.

What could follow: the run of `WireReader` with more than one intrusion on a larger
machine, and the refinement for streams with blank lines, for which
`BufferedTransport` would have to say which of them are refused.
