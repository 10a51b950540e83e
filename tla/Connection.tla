----------------------------- MODULE Connection -----------------------------
(***************************************************************************)
(* The connection between a client and a server, and what BufferedTransport *)
(* makes of each of its directions, at the grain of whole frames (the      *)
(* module BufferedTransport justifies the grain: frames are decoded once   *)
(* each, in order, and no byte of an undecoded one is lost).  The          *)
(* transport itself is the application's; the traits in                    *)
(* src/transport/mod.rs, client.rs and server.rs say what is used of it.   *)
(*                                                                         *)
(* A direction is a record of                                              *)
(*   sent     the frames written to it, in order                           *)
(*   arrived  how many of them the reader's transport.read() has returned  *)
(*            completely                                                   *)
(*   decoded  how many of them decode() has advanced the buffer past       *)
(*   closed   whether the writer has closed or dropped its transport       *)
(* so that the frames decoded+1 .. arrived are in the reader's buffer.     *)
(***************************************************************************)
EXTENDS Integers, Sequences

CONSTANT Coalesce   \* whether one read may complete several frames

ASSUME CoalesceAssumption == Coalesce \in BOOLEAN

VARIABLES
    c2s,   \* the direction from the client to the server
    s2c,   \* the direction from the server to the client
    up     \* whether the connection still carries data

NewLink == [sent |-> << >>, arrived |-> 0, decoded |-> 0, closed |-> FALSE]

ConnectionInit == c2s = NewLink /\ s2c = NewLink /\ up = TRUE

\* transport.write() has put frame f on the wire.
Put(link, f) == [link EXCEPT !.sent = Append(@, f)]

\* transport.read() returns the frames up to got, or a chunk without the end
\* of a frame, and decode() finds a complete frame in the buffer.
Readable(link, got) ==
    /\ got \in link.arrived..Len(link.sent)
    /\ link.decoded < got
    /\ Coalesce \/ got <= link.arrived + 1

\* The frame at the front of the buffer.
Front(link) == link.sent[link.decoded + 1]

\* Faulty variant: off by one.
DecodeBehind(link, got) == [link EXCEPT !.arrived = got, !.decoded = got + 1]

\* decode() advances the buffer past that frame.
Decode(link, got) == [link EXCEPT !.arrived = got, !.decoded = @ + 1]

\* decode() fails to parse, and leaves the buffer alone.
Fill(link, got) == [link EXCEPT !.arrived = got]

\* A new BufferedTransport is made for the transport, with an empty buffer.
EmptyBuffer(link) == [link EXCEPT !.decoded = link.arrived]

\* The writer's transport is closed or dropped.
Shut(link) == [link EXCEPT !.closed = TRUE]

\* transport.read() returns ConnectionClosed, or fails.
AtEnd(link) == ~ up \/ (link.closed /\ link.arrived = Len(link.sent))

\* Nothing is decoded before it has arrived, or arrives before it was written.
LinkOK(link, Frames) ==
    /\ link \in [sent : Seq(Frames), arrived : Nat, decoded : Nat, closed : BOOLEAN]
    /\ link.decoded <= link.arrived
    /\ link.arrived <= Len(link.sent)

\* The connection breaks: reads and writes fail from now on.
Break ==
    /\ up
    /\ up' = FALSE
    /\ UNCHANGED <<c2s, s2c>>

=============================================================================
