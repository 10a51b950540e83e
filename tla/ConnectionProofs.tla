-------------------------- MODULE ConnectionProofs --------------------------
(***************************************************************************)
(* What the operations on a direction of a connection change, for any      *)
(* frames.                                                                 *)
(***************************************************************************)
EXTENDS Connection, TLAPS

\* The fields of a direction.
LEMMA LinkFields ==
  ASSUME NEW Frames, NEW link, LinkOK(link, Frames)
  PROVE  /\ link.sent \in Seq(Frames) /\ Len(link.sent) \in Nat
         /\ link.arrived \in Nat /\ link.decoded \in Nat
         /\ link.closed \in BOOLEAN
         /\ link.decoded <= link.arrived /\ link.arrived <= Len(link.sent)
BY DEF LinkOK

\* A write appends one frame and leaves the positions of the reader alone.
LEMMA PutEffect ==
  ASSUME NEW Frames, NEW link, LinkOK(link, Frames), NEW f \in Frames
  PROVE  /\ LinkOK(Put(link, f), Frames)
         /\ Put(link, f).sent = Append(link.sent, f)
         /\ Put(link, f).arrived = link.arrived
         /\ Put(link, f).decoded = link.decoded
         /\ Len(Put(link, f).sent) = Len(link.sent) + 1
         /\ Put(link, f).sent[Len(link.sent) + 1] = f
         /\ \A i \in 1..Len(link.sent) : Put(link, f).sent[i] = link.sent[i]
BY DEF LinkOK, Put

\* Closing changes no frame and no position.
LEMMA ShutEffect ==
  ASSUME NEW Frames, NEW link, LinkOK(link, Frames)
  PROVE  /\ LinkOK(Shut(link), Frames)
         /\ Shut(link).sent = link.sent
         /\ Shut(link).arrived = link.arrived
         /\ Shut(link).decoded = link.decoded
BY DEF LinkOK, Shut

\* An empty buffer skips what has arrived and was not decoded.
LEMMA EmptyBufferEffect ==
  ASSUME NEW Frames, NEW link, LinkOK(link, Frames)
  PROVE  /\ LinkOK(EmptyBuffer(link), Frames)
         /\ EmptyBuffer(link).sent = link.sent
         /\ EmptyBuffer(link).arrived = link.arrived
         /\ EmptyBuffer(link).decoded = link.arrived
BY DEF LinkOK, EmptyBuffer

\* Decoding takes the frame behind the last one, which has been written.
LEMMA DecodeEffect ==
  ASSUME NEW Frames, NEW link, LinkOK(link, Frames),
         NEW got \in 1..Len(link.sent), Readable(link, got)
  PROVE  /\ LinkOK(Decode(link, got), Frames)
         /\ Decode(link, got).sent = link.sent
         /\ Decode(link, got).decoded = link.decoded + 1
         /\ link.decoded + 1 \in 1..Len(link.sent)
         /\ Front(link) = link.sent[link.decoded + 1]
         /\ Front(link) \in Frames
<1>1. /\ link.sent \in Seq(Frames) /\ Len(link.sent) \in Nat
      /\ link.decoded \in Nat
      /\ got \in Nat /\ got <= Len(link.sent) /\ link.decoded < got
  BY LinkFields DEF Readable
<1>2. /\ Decode(link, got).sent = link.sent
      /\ Decode(link, got).arrived = got
      /\ Decode(link, got).decoded = link.decoded + 1
      /\ Decode(link, got) \in
            [sent : Seq(Frames), arrived : Nat, decoded : Nat, closed : BOOLEAN]
  <2>1. link \in [sent : Seq(Frames), arrived : Nat, decoded : Nat, closed : BOOLEAN]
    BY DEF LinkOK
  <2>2. link.decoded + 1 \in Nat
    BY <1>1
  <2>3. /\ Decode(link, got).sent = link.sent
        /\ Decode(link, got).arrived = got
        /\ Decode(link, got).decoded = link.decoded + 1
    BY <2>1 DEF Decode
  <2>4. Decode(link, got) \in
            [sent : Seq(Frames), arrived : Nat, decoded : Nat, closed : BOOLEAN]
    BY <2>1, <2>2, <1>1 DEF Decode
  <2> QED BY <2>3, <2>4
<1>3. /\ link.decoded + 1 \in 1..Len(link.sent)
      /\ link.decoded + 1 <= got
  BY <1>1
<1>4. Front(link) \in Frames
  BY <1>1, <1>3 DEF Front
<1>5. LinkOK(Decode(link, got), Frames)
  BY <1>1, <1>2, <1>3 DEF LinkOK
<1> QED BY <1>2, <1>3, <1>4, <1>5 DEF Front

\* Arrival alone decodes nothing.
LEMMA FillEffect ==
  ASSUME NEW Frames, NEW link, LinkOK(link, Frames),
         NEW got \in 1..Len(link.sent), Readable(link, got)
  PROVE  /\ LinkOK(Fill(link, got), Frames)
         /\ Fill(link, got).sent = link.sent
         /\ Fill(link, got).decoded = link.decoded
<1>1. /\ got \in Nat /\ got <= Len(link.sent) /\ link.decoded < got
      /\ link.decoded \in Nat
  BY LinkFields DEF Readable
<1> QED BY <1>1 DEF LinkOK, Fill

=============================================================================
