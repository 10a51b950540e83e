---------------------------- MODULE FrameStream ----------------------------
(***************************************************************************)
(* The byte stream one STOMP peer sends to the other, seen from the parser *)
(* in src/frame.rs: where each frame ends and what becomes of it.  A byte  *)
(* is its offset in the stream; its value is not represented.              *)
(*                                                                         *)
(*   n     the number of frames in the stream                              *)
(*   end   end[i] is the offset of the byte at which parse_frame decides   *)
(*         about frame i: its terminating NUL, or, when the frame is       *)
(*         malformed, the first byte no frame can continue with            *)
(*   eol   eol[i] is the length of the line ending behind frame i (0: the  *)
(*         next frame follows at once, 1: LF, 2: CR LF); eol[0] is the one *)
(*         in front of the first frame                                     *)
(*   kind  what to_server_msg or to_client_msg makes of frame i            *)
(*   size  the length of the stream; bytes behind the last line ending     *)
(*         belong to a frame that never ends                               *)
(***************************************************************************)
EXTENDS Integers, Sequences

CONSTANT Streams        \* the streams a peer may send

\* The outcomes of parse_frame and of the conversion into a Message: a
\* message; a frame the conversion rejects (an unknown command, a missing
\* header); a frame whose header text is not UTF-8, on which the unwrap of
\* all_headers or optional_headers panics; and bytes no frame starts with.
Kinds == {"message", "unrecognized", "panics", "malformed"}

\* The frames next() hands to its caller, as a message or as an error.
Reportable == {"message", "unrecognized"}

WellFormed(s) ==
    /\ s.n \in Nat
    /\ s.end \in [0..s.n -> Nat]
    /\ s.eol \in [0..s.n -> 0..2]
    /\ s.kind \in [1..s.n -> Kinds]
    /\ s.size \in Nat
    /\ s.end[0] = 0
    /\ \A i, j \in 0..s.n : i < j => s.end[i] + s.eol[i] < s.end[j]
    /\ s.end[s.n] + s.eol[s.n] <= s.size

ASSUME StreamsAssumption == \A s \in Streams : WellFormed(s)

=============================================================================
