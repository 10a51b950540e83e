--------------------------- MODULE FrameDelivery ---------------------------
(***************************************************************************)
(* What a STOMP handle promises to the code that reads from it: the frames *)
(* of the peer's stream are reported one at a time, in the order in which  *)
(* they were sent, each exactly once, up to the first one that cannot be   *)
(* parsed, and none is reported any more once the handle is finished.      *)
(* Nothing is said about chunks, buffers, calls or their cancellation.     *)
(***************************************************************************)
EXTENDS FrameStream

VARIABLES
    stream,     \* the peer's stream
    delivered,  \* the frames reported to the caller so far
    open        \* whether more may be reported

vars == <<stream, delivered, open>>

Init ==
    /\ stream \in Streams
    /\ delivered = << >>
    /\ open = TRUE

\* The frame that comes next is reported.
Deliver ==
    /\ open
    /\ Len(delivered) < stream.n
    /\ stream.kind[Len(delivered) + 1] \in Reportable
    /\ delivered' = Append(delivered, Len(delivered) + 1)
    /\ UNCHANGED <<stream, open>>

\* The connection is closed, or the handle is given up.
Finish ==
    /\ open
    /\ open' = FALSE
    /\ UNCHANGED <<stream, delivered>>

Next == Deliver \/ Finish

Spec == Init /\ [][Next]_vars

=============================================================================
