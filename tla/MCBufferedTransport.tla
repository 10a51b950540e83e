------------------------ MODULE MCBufferedTransport ------------------------
(***************************************************************************)
(* Small streams for BufferedTransport: every frame has two bytes, so that *)
(* a chunk may end inside it.                                              *)
(***************************************************************************)
EXTENDS BufferedTransport, FiniteSets

MCFrameSize == 2

\* The stream of n frames with line endings eol, outcomes kind and a tail of
\* bytes that belong to an unfinished frame.
MCStream(n, eol, kind, tail) ==
    LET end[i \in 0..n] ==
          IF i = 0 THEN 0 ELSE end[i - 1] + eol[i - 1] + MCFrameSize
    IN  [n |-> n, end |-> end, eol |-> eol, kind |-> kind,
         size |-> end[n] + eol[n] + tail]

MCStreamsOf(n, eols, kinds) ==
    {MCStream(n, eol, kind, tail) :
        eol \in [0..n -> eols], kind \in [1..n -> kinds], tail \in 0..1}

\* Up to two frames of every kind with every line ending.
MCAllStreams == MCStreamsOf(1, 0..2, Kinds) \cup MCStreamsOf(2, 0..2, Kinds)

\* Messages that are each followed by a CR LF, and nothing else.
MCFollowedStreams ==
    {MCStream(n, [i \in 0..n |-> IF i = 0 THEN 0 ELSE 2],
              [i \in 1..n |-> "message"], 0) : n \in 1..2}

\* Three frames of every kind for the liveness checks.
MCLiveStreams ==
    {MCStream(3, [i \in 0..3 |-> e], kind, tail) :
        e \in 0..2, kind \in [1..3 -> Kinds], tail \in 0..1}

=============================================================================
