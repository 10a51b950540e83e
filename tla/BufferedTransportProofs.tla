---------------------- MODULE BufferedTransportProofs ----------------------
(***************************************************************************)
(* Proofs about BufferedTransport, for every set of streams: its type      *)
(* invariant, that frames are reported in order and exactly once, that the *)
(* buffer never loses its place in the stream, and that the transport      *)
(* implements FrameDelivery.                                               *)
(***************************************************************************)
EXTENDS BufferedTransport, TLAPS

\* The inductive invariant.  The position of the buffer and the history of
\* reported frames determine each other, and every reported frame could be
\* reported: that is what makes the frame at the front of the buffer the
\* next one (lemma FrontFrame).
IInv ==
    /\ stream \in Streams
    /\ TypeOK
    /\ InOrder
    /\ BufferAligned
    /\ \A j \in 1..Len(seen) : stream.kind[j] \in Reportable

-----------------------------------------------------------------------------

\* The types of the positions that the proofs compare.
LEMMA Positions ==
  ASSUME IInv
  PROVE  /\ WellFormed(stream)
         /\ stream.n \in Nat /\ stream.size \in Nat
         /\ \A j \in 0..stream.n : stream.end[j] \in Nat
                                   /\ stream.eol[j] \in 0..2
         /\ arrived \in Nat /\ consumed \in Nat /\ Len(seen) \in Nat
         /\ \A got \in arrived..stream.size : got \in Nat /\ arrived <= got
<1>1. WellFormed(stream) /\ arrived \in 0..stream.size /\ consumed \in 0..arrived
      /\ seen \in Seq(1..stream.n)
  BY DEF IInv, TypeOK
<1>2. /\ stream.n \in Nat /\ stream.size \in Nat
      /\ stream.end \in [0..stream.n -> Nat]
      /\ stream.eol \in [0..stream.n -> 0..2]
  BY <1>1 DEF WellFormed
<1>3. \A j \in 0..stream.n : stream.end[j] \in Nat /\ stream.eol[j] \in 0..2
  BY <1>2
<1>4. arrived \in Nat /\ consumed \in Nat /\ Len(seen) \in Nat
  BY <1>1, <1>2
<1>5. \A got \in arrived..stream.size : got \in Nat /\ arrived <= got
  BY <1>2, <1>4
<1> QED BY <1>1, <1>2, <1>3, <1>4, <1>5

\* No more frames are reported than the stream has.
LEMMA SeenBounded == IInv => Len(seen) \in 0..stream.n
<1> SUFFICES ASSUME IInv PROVE Len(seen) \in 0..stream.n
  OBVIOUS
<1>1. stream.n \in Nat /\ seen \in Seq(1..stream.n) /\ Len(seen) \in Nat
  BY DEF IInv, TypeOK, WellFormed
<1>2. CASE Len(seen) = 0
  BY <1>1, <1>2
<1>3. CASE Len(seen) # 0
  <2>1. seen[Len(seen)] = Len(seen) /\ seen[Len(seen)] \in 1..stream.n
    BY <1>1, <1>3 DEF IInv, InOrder
  <2> QED BY <2>1, <1>1
<1> QED BY <1>2, <1>3

\* A frame that begins at or before the front of the buffer and ends behind
\* it is the one that follows the last reported frame.
LEMMA FrontFrame ==
  ASSUME IInv, NEW got \in Nat, NEW i \in 1..stream.n, Holds(i, got)
  PROVE  i = Len(seen) + 1
<1> DEFINE k == Len(seen)
<1>1. WellFormed(stream)
  BY DEF IInv, TypeOK
<1>2. k \in 0..stream.n
  BY SeenBounded
<1>3. /\ stream.n \in Nat /\ i \in Nat /\ i - 1 \in 0..stream.n
      /\ \A j \in 0..stream.n : stream.end[j] \in Nat /\ stream.eol[j] \in 0..2
      /\ consumed \in Nat
  BY Positions
<1>4. stream.end[k] <= consumed /\ consumed <= stream.end[k] + stream.eol[k]
  BY <1>2, <1>3 DEF IInv, BufferAligned
<1>5. ~ (i <= k)
  <2> SUFFICES ASSUME i <= k PROVE FALSE
    OBVIOUS
  <2>1. stream.end[i] <= stream.end[k]
    <3>1. CASE i = k
      BY <3>1, <1>2, <1>3
    <3>2. CASE i < k
      <4>1. stream.end[i] + stream.eol[i] < stream.end[k]
        BY <3>2, <1>1, <1>2 DEF WellFormed
      <4> QED BY <4>1, <1>2, <1>3
    <3> QED BY <3>1, <3>2, <1>2, <1>3
  <2> QED BY <2>1, <1>2, <1>3, <1>4 DEF Holds
<1>6. ~ (k < i - 1)
  <2> SUFFICES ASSUME k < i - 1 PROVE FALSE
    OBVIOUS
  <2>1. stream.end[k] + stream.eol[k] < stream.end[i - 1]
    BY <1>1, <1>2, <1>3 DEF WellFormed
  <2> QED BY <2>1, <1>2, <1>3, <1>4 DEF Holds
<1> QED BY <1>2, <1>3, <1>5, <1>6

\* What reporting the frame at the front of the buffer does: the history
\* grows by the next frame, and the buffer is aligned behind it.
LEMMA DecodeFrameEffect ==
  ASSUME IInv, NEW got \in arrived..stream.size, DecodeFrame(got)
  PROVE  /\ Len(seen) + 1 \in 1..stream.n
         /\ stream.kind[Len(seen) + 1] \in Reportable
         /\ seen' = Append(seen, Len(seen) + 1)
         /\ consumed' = EndOfParse(Len(seen) + 1, got)
         /\ stream.end[Len(seen) + 1] <= got
         /\ call' = "idle"
         /\ result' \in {"message", "conversion_error"}
<1>1. got \in Nat
  BY DEF IInv, TypeOK, WellFormed
<1>2. PICK i \in 1..stream.n : /\ Holds(i, got)
                               /\ stream.kind[i] \in Reportable
                               /\ consumed' = EndOfParse(i, got)
                               /\ seen' = Append(seen, i)
                               /\ Return(IF stream.kind[i] = "message"
                                         THEN "message"
                                         ELSE "conversion_error")
  BY DEF DecodeFrame
<1>3. i = Len(seen) + 1
  BY <1>1, <1>2, FrontFrame
<1> QED BY <1>2, <1>3 DEF Return, Holds

-----------------------------------------------------------------------------

\* IInv holds at the start.
LEMMA InitInv == Init => IInv
<1> SUFFICES ASSUME Init PROVE IInv
  OBVIOUS
<1>1. WellFormed(stream)
  BY StreamsAssumption DEF Init
<1>2. stream.n \in Nat /\ stream.size \in Nat /\ stream.end[0] = 0
  BY <1>1 DEF WellFormed
<1>3. TypeOK
  <2>1. arrived \in 0..stream.size /\ consumed \in 0..arrived
    BY <1>2 DEF Init
  <2>2. closed \in BOOLEAN /\ result \in Results /\ call = "idle"
    BY DEF Init, Results
  <2>3. seen \in Seq(1..stream.n)
    BY DEF Init
  <2> QED BY <1>1, <2>1, <2>2, <2>3 DEF TypeOK
<1>4. seen = << >> /\ Len(seen) = 0 /\ consumed = 0 /\ stream \in Streams
  BY DEF Init
<1>5. InOrder /\ BufferAligned
  BY <1>2, <1>4 DEF InOrder, BufferAligned
<1> QED BY <1>3, <1>4, <1>5 DEF IInv

\* A step that reports nothing and leaves the buffer's front where it is.
LEMMA QuietStep ==
  ASSUME IInv, stream' = stream, seen' = seen, consumed' = consumed,
         arrived' \in arrived..stream.size,
         closed' \in BOOLEAN, result' \in Results,
         call' \in {"idle", "reading", "released", "unwound"}
  PROVE  IInv'
<1>1. WellFormed(stream) /\ stream.size \in Nat /\ consumed \in 0..arrived
      /\ arrived \in 0..stream.size
  BY DEF IInv, TypeOK, WellFormed
<1>2. arrived' \in 0..stream.size /\ consumed \in 0..arrived'
  BY <1>1
<1>3. TypeOK'
  BY <1>1, <1>2 DEF IInv, TypeOK
<1>4. InOrder' /\ BufferAligned'
      /\ \A j \in 1..Len(seen') : stream'.kind[j] \in Reportable
  BY DEF IInv, InOrder, BufferAligned
<1> QED BY <1>3, <1>4 DEF IInv

\* A step that reports the next frame.
LEMMA FrameStep ==
  ASSUME IInv, NEW got \in arrived..stream.size, arrived' = got,
         UNCHANGED <<stream, closed>>, DecodeFrame(got)
  PROVE  IInv'
<1> DEFINE i == Len(seen) + 1
<1>1. /\ i \in 1..stream.n
      /\ stream.kind[i] \in Reportable
      /\ seen' = Append(seen, i)
      /\ consumed' = EndOfParse(i, got)
      /\ stream.end[i] <= got
      /\ call' = "idle"
      /\ result' \in {"message", "conversion_error"}
  BY DecodeFrameEffect
<1>2. WellFormed(stream) /\ stream.n \in Nat /\ stream.size \in Nat
      /\ got \in 0..stream.size /\ seen \in Seq(1..stream.n)
  BY DEF IInv, TypeOK, WellFormed
<1>3. stream.end[i] \in Nat /\ stream.eol[i] \in 0..2
  BY <1>1, <1>2 DEF WellFormed
<1>4. /\ seen' \in Seq(1..stream.n)
      /\ Len(seen') = i
      /\ \A j \in 1..i : seen'[j] = IF j = i THEN i ELSE seen[j]
  BY <1>1, <1>2
<1>5. consumed' \in 0..got
  BY <1>1, <1>2, <1>3 DEF EndOfParse
<1>6. TypeOK'
  BY <1>1, <1>2, <1>4, <1>5 DEF IInv, TypeOK, Results
<1>7. InOrder'
  BY <1>4 DEF IInv, InOrder
<1>8. BufferAligned'
  BY <1>1, <1>4 DEF BufferAligned, EndOfParse
<1>9. \A j \in 1..Len(seen') : stream'.kind[j] \in Reportable
  <2> SUFFICES ASSUME NEW j \in 1..i PROVE stream.kind[j] \in Reportable
    BY <1>4
  <2>1. CASE j = i
    BY <2>1, <1>1
  <2>2. CASE j # i
    <3>1. j \in 1..Len(seen)
      BY <2>2, <1>2
    <3> QED BY <3>1 DEF IInv
  <2> QED BY <2>1, <2>2
<1> QED BY <1>6, <1>7, <1>8, <1>9 DEF IInv

\* Every action of the transport keeps IInv.
LEMMA NextInv == IInv /\ [Next]_vars => IInv'
<1> SUFFICES ASSUME IInv, [Next]_vars PROVE IInv'
  OBVIOUS
<1>t. /\ stream.size \in Nat /\ arrived \in arrived..stream.size
      /\ closed \in BOOLEAN /\ result \in Results
      /\ call \in {"idle", "reading", "released", "unwound"}
  BY DEF IInv, TypeOK, WellFormed
<1>1. CASE CallNext
  BY <1>1, <1>t, QuietStep DEF CallNext
<1>2. CASE ReadBinary
  <2>1. PICK got \in arrived..stream.size :
          /\ AppendChunk(got)
          /\ \/ DecodeNothing(got)
             \/ DecodeParserError(got)
             \/ DecodeFrame(got)
             \/ DecodePanic(got)
          /\ UNCHANGED <<stream, closed>>
    BY <1>2 DEF ReadBinary
  <2>2. arrived' = got
    BY <2>1 DEF AppendChunk
  <2>3. CASE DecodeNothing(got)
    BY <2>1, <2>2, <2>3, <1>t, QuietStep DEF DecodeNothing
  <2>4. CASE DecodeParserError(got)
    BY <2>1, <2>2, <2>4, <1>t, QuietStep
       DEF DecodeParserError, Return, Results
  <2>5. CASE DecodeFrame(got)
    BY <2>1, <2>2, <2>5, FrameStep
  <2>6. CASE DecodePanic(got)
    BY <2>1, <2>2, <2>6, <1>t, QuietStep DEF DecodePanic
  <2> QED BY <2>1, <2>3, <2>4, <2>5, <2>6
<1>3. CASE ReadCustom
  BY <1>3, <1>t, QuietStep DEF ReadCustom, Return, Results
<1>4. CASE ReadFails
  BY <1>4, <1>t, QuietStep DEF ReadFails, Return, Results
<1>5. CASE ReadClosed
  BY <1>5, <1>t, QuietStep DEF ReadClosed, Return, Results
<1>6. CASE Cancel
  BY <1>6, <1>t, QuietStep DEF Cancel
<1>7. CASE IntoTransport
  BY <1>7, <1>t, QuietStep DEF IntoTransport
<1>8. CASE UNCHANGED vars
  BY <1>8, <1>t, QuietStep DEF vars
<1> QED BY <1>1, <1>2, <1>3, <1>4, <1>5, <1>6, <1>7, <1>8 DEF Next

\* IInv holds of every reachable state: what the theorems below rest on.
THEOREM Invariance == Spec => []IInv
<1> QED BY InitInv, NextInv, PTL DEF Spec

\* The variables of the transport keep their types, for all streams.
THEOREM TypeCorrect == Spec => []TypeOK
<1>1. IInv => TypeOK
  BY DEF IInv
<1> QED BY <1>1, Invariance, PTL

\* Frames are reported once each, in order, without gaps (transport/client.rs
\* next and decode), however the stream is cut into chunks.
THEOREM OrderedOnce == Spec => []InOrder
<1>1. IInv => InOrder
  BY DEF IInv
<1> QED BY <1>1, Invariance, PTL

\* The buffer never loses its place in the stream: neither a cancelled
\* next() nor an error makes decode() start inside a frame.
THEOREM AlwaysAligned == Spec => []BufferAligned
<1>1. IInv => BufferAligned
  BY DEF IInv
<1> QED BY <1>1, Invariance, PTL

\* No frame behind one that cannot be parsed is ever reported.
THEOREM NoResynchronisation == Spec => []NothingBehindBadFrame
<1>1. IInv => NothingBehindBadFrame
  <2> SUFFICES ASSUME IInv, NEW j \in 1..Len(seen), NEW i \in 1..stream.n,
                      stream.kind[i] \notin Reportable
               PROVE  seen[j] < i
    BY DEF NothingBehindBadFrame
  <2>1. Len(seen) \in 0..stream.n /\ stream.n \in Nat
    BY SeenBounded DEF IInv, TypeOK, WellFormed
  <2>2. seen[j] = j
    BY DEF IInv, InOrder
  <2>3. ~ (i <= Len(seen))
    BY <2>1 DEF IInv
  <2> QED BY <2>1, <2>2, <2>3
<1> QED BY <1>1, Invariance, PTL

-----------------------------------------------------------------------------
(***************************************************************************)
(* BufferedTransport implements FrameDelivery.                             *)
(***************************************************************************)

\* Every step reports the next frame, finishes the handle, or is no step of
\* FrameDelivery at all.
LEMMA StepRefines == IInv /\ [Next]_vars => [Promise!Next]_(Promise!vars)
<1> SUFFICES ASSUME IInv, [Next]_vars PROVE [Promise!Next]_(Promise!vars)
  OBVIOUS
<1>1. CASE CallNext
  BY <1>1 DEF CallNext, Promise!vars
<1>2. CASE ReadBinary
  <2>1. PICK got \in arrived..stream.size :
          /\ AppendChunk(got)
          /\ \/ DecodeNothing(got)
             \/ DecodeParserError(got)
             \/ DecodeFrame(got)
             \/ DecodePanic(got)
          /\ UNCHANGED <<stream, closed>>
    BY <1>2 DEF ReadBinary
  <2>2. call = "reading" /\ ~ closed
    BY <2>1 DEF AppendChunk
  <2>3. CASE DecodeNothing(got)
    BY <2>1, <2>3 DEF DecodeNothing, Promise!vars
  <2>4. CASE DecodeParserError(got)
    BY <2>1, <2>2, <2>4 DEF DecodeParserError, Return, Promise!vars
  <2>5. CASE DecodeFrame(got)
    <3>1. /\ Len(seen) + 1 \in 1..stream.n
          /\ stream.kind[Len(seen) + 1] \in Reportable
          /\ seen' = Append(seen, Len(seen) + 1)
          /\ call' = "idle"
      BY <2>5, DecodeFrameEffect
    <3>2. stream.n \in Nat /\ Len(seen) \in Nat
      BY DEF IInv, TypeOK, WellFormed
    <3>3. Len(seen) < stream.n
      BY <3>1, <3>2
    <3>4. Promise!Deliver
      BY <2>1, <2>2, <3>1, <3>3
         DEF Promise!Deliver, Promise!Reportable, Reportable
    <3> QED BY <3>4 DEF Promise!Next
  <2>6. CASE DecodePanic(got)
    BY <2>1, <2>2, <2>6
       DEF DecodePanic, Promise!Next, Promise!Finish
  <2> QED BY <2>1, <2>3, <2>4, <2>5, <2>6
<1>3. CASE ReadCustom
  BY <1>3 DEF ReadCustom, Return, Promise!vars
<1>4. CASE ReadFails
  BY <1>4 DEF ReadFails, Return, Promise!vars
<1>5. CASE ReadClosed
  <2>1. CASE closed
    BY <1>5, <2>1 DEF ReadClosed, Return, Promise!vars
  <2>2. CASE ~ closed
    BY <1>5, <2>2 DEF ReadClosed, Return, Promise!Next, Promise!Finish
  <2> QED BY <2>1, <2>2
<1>6. CASE Cancel
  BY <1>6 DEF Cancel, Promise!vars
<1>7. CASE IntoTransport
  <2>1. CASE closed
    BY <1>7, <2>1 DEF IntoTransport, Promise!vars
  <2>2. CASE ~ closed
    BY <1>7, <2>2 DEF IntoTransport, Promise!Next, Promise!Finish
  <2> QED BY <2>1, <2>2
<1>8. CASE UNCHANGED vars
  BY <1>8 DEF vars, Promise!vars
<1> QED BY <1>1, <1>2, <1>3, <1>4, <1>5, <1>6, <1>7, <1>8 DEF Next

\* Read through the promise's variables, every behaviour of the transport is
\* one of FrameDelivery: each frame in front of the first bad one is reported
\* at most once, in its place, and nothing after the end.
THEOREM DeliversAsPromised == Spec => ImplementsDelivery
<1>1. Init => Promise!Init
  BY DEF Init, Promise!Init
<1> QED BY <1>1, Invariance, StepRefines, PTL
        DEF Spec, ImplementsDelivery, Promise!Spec

-----------------------------------------------------------------------------
(***************************************************************************)
(* The end of the connection.                                              *)
(***************************************************************************)

\* Nothing but the end of the connection has been the result since it was one.
ClosedResult == closed => result = "connection_closed"

\* After ConnectionClosed every later result is ConnectionClosed, whatever the
\* buffer still holds (transport/client.rs next): only the read can say
\* anything else, and next() looks at the buffer behind a read only.
THEOREM ClosedStaysFinal == Spec => ClosedIsFinal
<1>1. Init => ClosedResult
  BY DEF Init, ClosedResult
<1>2. ASSUME ClosedResult, [Next]_vars
      PROVE  ClosedResult' /\ (closed => result' = "connection_closed")
  <2>1. CASE UNCHANGED vars
    BY <2>1, <1>2 DEF vars, ClosedResult
  <2>2. CASE CallNext \/ Cancel \/ IntoTransport
    BY <2>2, <1>2 DEF CallNext, Cancel, IntoTransport, ClosedResult
  <2>3. CASE ReadBinary
    <3>1. ~ closed /\ closed' = closed
      BY <2>3 DEF ReadBinary, AppendChunk
    <3> QED BY <3>1 DEF ClosedResult
  <2>4. CASE ReadCustom \/ ReadFails
    BY <2>4 DEF ReadCustom, ReadFails, ClosedResult
  <2>5. CASE ReadClosed
    BY <2>5 DEF ReadClosed, Return, ClosedResult
  <2> QED BY <2>1, <2>2, <2>3, <2>4, <2>5, <1>2 DEF Next
<1>3. ClosedResult /\ [Next]_vars => [closed => result' = "connection_closed"]_vars
  BY <1>2
<1> QED BY <1>1, <1>2, <1>3, PTL DEF Spec, ClosedIsFinal

-----------------------------------------------------------------------------
(***************************************************************************)
(* What depends on the transport below and on the peer.                    *)
(***************************************************************************)

\* Every frame that has arrived to its end has been reported.
Drained ==
    \A i \in 1..stream.n :
        stream.end[i] <= arrived /\ Deliverable(i) => i <= Len(seen)

\* A frame that ends inside the new chunk, when no earlier frame was left in
\* the buffer, is the one at its front, if a chunk completes one frame.
LEMMA NewFrameAtFront ==
  ASSUME IInv, Drained, ~ Coalesce,
         NEW got \in arrived..stream.size, AppendChunk(got),
         NEW i \in 1..stream.n, stream.end[i] <= got, Deliverable(i),
         Len(seen) < i
  PROVE  i = Len(seen) + 1 /\ Holds(i, got)
<1> DEFINE k == Len(seen)
<1>1. /\ WellFormed(stream)
      /\ stream.n \in Nat /\ got \in Nat /\ arrived \in Nat /\ consumed \in Nat
      /\ \A j \in 0..stream.n : stream.end[j] \in Nat /\ stream.eol[j] \in 0..2
  BY Positions
<1>2. k \in 0..stream.n /\ k + 1 \in 1..stream.n /\ k + 1 <= i
  BY <1>1, SeenBounded
<1>3. Deliverable(k + 1)
  BY <1>1, <1>2 DEF Deliverable
<1>4. arrived < stream.end[k + 1]
  <2>1. ~ (stream.end[k + 1] <= arrived)
    BY <1>1, <1>2, <1>3 DEF Drained
  <2>2. stream.end[k + 1] \in Nat
    BY <1>1, <1>2
  <2> QED BY <2>1, <2>2, <1>1
<1>5. i = k + 1
  <2> SUFFICES ASSUME k + 1 < i PROVE FALSE
    BY <1>1, <1>2
  <2>1. k + 1 \in 1..(stream.n - 1) /\ k + 2 \in 1..stream.n /\ k + 2 <= i
    BY <1>1, <1>2
  <2>2. stream.end[k + 2] <= got
    <3>1. CASE i = k + 2
      BY <3>1
    <3>2. CASE k + 2 < i
      <4>1. stream.end[k + 2] + stream.eol[k + 2] < stream.end[i]
        BY <3>2, <2>1, <1>1 DEF WellFormed
      <4>2. k + 2 \in 0..stream.n /\ i \in 0..stream.n
        BY <2>1, <1>1
      <4>3. stream.end[k + 2] \in Nat /\ stream.eol[k + 2] \in 0..2
            /\ stream.end[i] \in Nat
        BY <4>2, <1>1
      <4> HIDE DEF k
      <4> QED BY <4>1, <4>3, <1>1
    <3> QED BY <3>1, <3>2, <2>1, <1>1
  <2>3. (k + 1) + 1 = k + 2
    BY <1>2
  <2> QED BY <2>1, <2>2, <2>3, <1>4 DEF AppendChunk
<1>6. stream.end[k] <= consumed /\ consumed < stream.end[k + 1]
  <2>1. stream.end[k] + stream.eol[k] < stream.end[k + 1]
    BY <1>1, <1>2 DEF WellFormed
  <2>2. stream.end[k] \in Nat /\ stream.eol[k] \in 0..2
        /\ stream.end[k + 1] \in Nat
    BY <1>1, <1>2
  <2>3. consumed = stream.end[k] \/ consumed = stream.end[k] + stream.eol[k]
    BY DEF IInv, BufferAligned
  <2> HIDE DEF k
  <2> QED BY <2>1, <2>2, <2>3
<1>7. i - 1 = k
  BY <1>2, <1>5
<1> QED BY <1>5, <1>6, <1>7 DEF Holds

\* A complete frame at the front excludes the other outcomes of parse_frame.
LEMMA FrontFrameDecides ==
  ASSUME IInv, NEW got \in arrived..stream.size,
         NEW i \in 1..stream.n, Holds(i, got), stream.kind[i] \in Reportable
  PROVE  ~ DecodeNothing(got) /\ ~ DecodeParserError(got) /\ ~ DecodePanic(got)
<1>1. got \in Nat
  BY DEF IInv, TypeOK, WellFormed
<1>2. i = Len(seen) + 1
  BY <1>1, FrontFrame
<1>3. \A j \in 1..stream.n : Holds(j, got) => stream.kind[j] \in Reportable
  BY <1>1, <1>2, FrontFrame
<1>4. ~ LoneCR(got)
  <2> SUFFICES ASSUME NEW j \in 0..stream.n, stream.eol[j] = 2,
                      consumed = stream.end[j], got = consumed + 1
               PROVE  FALSE
    BY DEF LoneCR
  <2>1. /\ WellFormed(stream) /\ stream.n \in Nat /\ i \in 0..stream.n
        /\ stream.end[i] \in Nat /\ stream.end[j] \in Nat /\ stream.eol[i] \in 0..2
        /\ consumed \in Nat
    <3>1. i \in 0..stream.n
      BY Positions
    <3> QED BY <3>1, Positions
  <2>2. consumed < stream.end[i] /\ stream.end[i] <= got
    BY DEF Holds
  <2>3. CASE j < i
    <3>1. stream.end[j] + stream.eol[j] < stream.end[i]
      BY <2>1, <2>3 DEF WellFormed
    <3> QED BY <2>1, <2>2, <3>1
  <2>4. CASE i < j
    <3>1. stream.end[i] + stream.eol[i] < stream.end[j]
      BY <2>1, <2>4 DEF WellFormed
    <3> QED BY <2>1, <2>2, <3>1
  <2>5. CASE i = j
    BY <2>1, <2>2, <2>5
  <2> QED BY <2>1, <2>3, <2>4, <2>5
<1> QED BY <1>3, <1>4
        DEF DecodeNothing, Incomplete, DecodeParserError, ParseFails,
            DecodePanic, Reportable

\* A read that brings one frame at most leaves no other one behind.
LEMMA DrainedStep ==
  ASSUME ~ Coalesce, IInv, Drained, [Next]_vars
  PROVE  Drained'
<1>1. CASE ReadBinary
  <2>1. PICK got \in arrived..stream.size :
          /\ AppendChunk(got)
          /\ \/ DecodeNothing(got)
             \/ DecodeParserError(got)
             \/ DecodeFrame(got)
             \/ DecodePanic(got)
          /\ UNCHANGED <<stream, closed>>
    BY <1>1 DEF ReadBinary
  <2>2. arrived' = got /\ stream' = stream
    BY <2>1 DEF AppendChunk
  <2> SUFFICES ASSUME NEW i \in 1..stream.n, stream.end[i] <= got,
                      Deliverable(i)
               PROVE  i <= Len(seen')
    BY <2>2 DEF Drained, Deliverable
  <2>3. Len(seen) \in Nat /\ stream.n \in Nat
    BY DEF IInv, TypeOK, WellFormed
  <2>4. CASE i <= Len(seen)
    <3>1. CASE DecodeFrame(got)
      <4>1. seen' = Append(seen, Len(seen) + 1)
        BY <3>1, DecodeFrameEffect
      <4>2. Len(seen') = Len(seen) + 1
        BY <4>1 DEF IInv, TypeOK
      <4> QED BY <4>2, <2>3, <2>4
    <3>2. CASE ~ DecodeFrame(got)
      BY <2>1, <2>4, <3>2 DEF DecodeNothing, DecodeParserError, DecodePanic
    <3> QED BY <3>1, <3>2
  <2>5. CASE Len(seen) < i
    <3>1. i = Len(seen) + 1 /\ Holds(i, got)
      BY <2>1, <2>5, NewFrameAtFront
    <3>2. stream.kind[i] \in Reportable
      BY <2>3 DEF Deliverable
    <3>3. DecodeFrame(got)
      BY <2>1, <3>1, <3>2, FrontFrameDecides
    <3>4. seen' = Append(seen, Len(seen) + 1)
      BY <3>3, DecodeFrameEffect
    <3>5. Len(seen') = Len(seen) + 1
      BY <3>4 DEF IInv, TypeOK
    <3> QED BY <3>1, <3>5, <2>3
  <2> QED BY <2>3, <2>4, <2>5
<1>2. CASE ~ ReadBinary
  <2>1. UNCHANGED <<stream, arrived, seen>>
    BY <1>2 DEF Next, vars, CallNext, ReadCustom, ReadFails, ReadClosed,
                Cancel, IntoTransport
  <2> QED BY <2>1 DEF Drained, Deliverable
<1> QED BY <1>1, <1>2

\* When every frame travels in a message of its own (Coalesce is FALSE), a
\* caller that waits in next() has been told every frame that has arrived.
THEOREM NothingStrandedWithoutCoalescing ==
    ~ Coalesce => (Spec => []NothingStranded)
<1> SUFFICES ASSUME ~ Coalesce PROVE Spec => []NothingStranded
  OBVIOUS
<1>1. Init => Drained
  <2> SUFFICES ASSUME Init, NEW i \in 1..stream.n, stream.end[i] <= 0 PROVE FALSE
    BY DEF Init, Drained
  <2>1. WellFormed(stream)
    BY StreamsAssumption DEF Init
  <2>2. stream.n \in Nat /\ stream.end[0] = 0 /\ stream.eol[0] \in 0..2
        /\ stream.end[i] \in Nat
    BY <2>1 DEF WellFormed
  <2>3. stream.end[0] + stream.eol[0] < stream.end[i]
    BY <2>1, <2>2 DEF WellFormed
  <2> QED BY <2>2, <2>3
<1>2. IInv /\ Drained /\ [Next]_vars => Drained'
  BY DrainedStep
<1>3. IInv /\ Drained => NothingStranded
  <2> SUFFICES ASSUME IInv, Drained, NEW i \in 1..stream.n,
                      Holds(i, arrived), stream.kind[i] \in Reportable
               PROVE  FALSE
    BY DEF NothingStranded
  <2>1. arrived \in Nat /\ Len(seen) \in Nat /\ stream.n \in Nat
    BY DEF IInv, TypeOK, WellFormed
  <2>2. i = Len(seen) + 1
    BY <2>1, FrontFrame
  <2>3. Deliverable(i)
    <3> SUFFICES ASSUME NEW j \in 1..i PROVE stream.kind[j] \in Reportable
      BY DEF Deliverable
    <3>1. CASE j = i
      BY <3>1
    <3>2. CASE j # i
      <4>1. j \in 1..Len(seen)
        BY <3>2, <2>1, <2>2
      <4> QED BY <4>1 DEF IInv
    <3> QED BY <3>1, <3>2
  <2>4. i <= Len(seen)
    BY <2>3 DEF Drained, Holds
  <2> QED BY <2>1, <2>2, <2>4
<1> QED BY <1>1, <1>2, <1>3, Invariance, PTL DEF Spec

\* No line ending of the stream is a CR LF.
NoCRLF == \A i \in 0..stream.n : stream.eol[i] # 2

\* Without CR LF, only a malformed frame makes the parse fail.
LEMMA TruthfulStep ==
  ASSUME NoCRLF, IInv, ParserErrorIsTruthful, [Next]_vars
  PROVE  ParserErrorIsTruthful'
<1>1. CASE ReadBinary
  <2>1. PICK got \in arrived..stream.size :
          /\ AppendChunk(got)
          /\ \/ DecodeNothing(got)
             \/ DecodeParserError(got)
             \/ DecodeFrame(got)
             \/ DecodePanic(got)
          /\ UNCHANGED <<stream, closed>>
    BY <1>1 DEF ReadBinary
  <2>2. /\ arrived' = got /\ stream' = stream /\ got \in Nat
        /\ arrived <= got /\ arrived \in Nat
        /\ \A i \in 1..stream.n : stream.end[i] \in Nat
    BY <2>1 DEF AppendChunk, IInv, TypeOK, WellFormed
  <2>3. ~ LoneCR(got)
    BY DEF NoCRLF, LoneCR, IInv
  <2>4. CASE DecodeNothing(got)
    <3> SUFFICES ASSUME result = "parser_error" PROVE FALSE
      BY <2>4 DEF DecodeNothing, ParserErrorIsTruthful
    <3>1. PICK i \in 1..stream.n : Holds(i, arrived)
      BY DEF ParserErrorIsTruthful
    <3>2. Holds(i, got)
      BY <3>1, <2>2 DEF Holds
    <3> QED BY <3>2, <2>4 DEF DecodeNothing, Incomplete
  <2>5. CASE DecodeParserError(got)
    <3>1. consumed' = consumed
      BY <2>5 DEF DecodeParserError
    <3>2. PICK i \in 1..stream.n : Holds(i, got) /\ stream.kind[i] = "malformed"
      BY <2>3, <2>5 DEF DecodeParserError, ParseFails
    <3> QED BY <2>2, <3>1, <3>2 DEF ParserErrorIsTruthful, Holds
  <2>6. CASE DecodeFrame(got)
    <3>1. result' \in {"message", "conversion_error"}
      BY <2>6, DecodeFrameEffect
    <3> QED BY <3>1 DEF ParserErrorIsTruthful
  <2>7. CASE DecodePanic(got)
    <3> SUFFICES ASSUME result = "parser_error" PROVE ParserErrorIsTruthful'
      BY <2>7 DEF DecodePanic, ParserErrorIsTruthful
    <3>1. PICK i \in 1..stream.n : /\ Holds(i, arrived)
                                   /\ stream.kind[i] = "malformed"
      BY DEF ParserErrorIsTruthful
    <3>2. Holds(i, got) /\ consumed' = consumed
      BY <3>1, <2>2, <2>7 DEF Holds, DecodePanic
    <3> QED BY <2>2, <3>1, <3>2 DEF ParserErrorIsTruthful, Holds
  <2> QED BY <2>1, <2>4, <2>5, <2>6, <2>7
<1>2. CASE ~ ReadBinary
  <2>1. UNCHANGED <<stream, arrived, consumed>>
    BY <1>2 DEF Next, vars, CallNext, ReadCustom, ReadFails, ReadClosed,
                Cancel, IntoTransport
  <2>2. result' = result \/ result' # "parser_error"
    BY <1>2 DEF Next, vars, CallNext, ReadCustom, ReadFails, ReadClosed,
                Cancel, IntoTransport, Return
  <2> QED BY <2>1, <2>2 DEF ParserErrorIsTruthful, Holds
<1> QED BY <1>1, <1>2

\* A peer that ends its lines with LF never provokes a parser error with a
\* frame that is merely incomplete.
THEOREM ParserErrorsAreTruthfulWithoutCRLF == Spec => []TruthfulWithoutCRLF
<1>1. Init => TruthfulWithoutCRLF
  BY DEF Init, TruthfulWithoutCRLF, ParserErrorIsTruthful
<1>2. IInv /\ TruthfulWithoutCRLF /\ [Next]_vars => TruthfulWithoutCRLF'
  <2> SUFFICES ASSUME IInv, TruthfulWithoutCRLF, [Next]_vars, NoCRLF'
               PROVE  ParserErrorIsTruthful'
    BY DEF TruthfulWithoutCRLF, NoCRLF
  <2>1. stream' = stream
    BY DEF Next, vars, CallNext, ReadBinary, ReadCustom, ReadFails, ReadClosed,
           Cancel, IntoTransport
  <2>2. NoCRLF
    BY <2>1 DEF NoCRLF
  <2> QED BY <2>2, TruthfulStep DEF TruthfulWithoutCRLF, NoCRLF
<1> QED BY <1>1, <1>2, Invariance, PTL DEF Spec

=============================================================================
