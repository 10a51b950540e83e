---------------------------- MODULE ClientHandle ----------------------------
(***************************************************************************)
(* ClientStompHandle (src/handle/client.rs) and the application that uses  *)
(* it on one connection: connect, then send_message and read_response,     *)
(* until the application drops the handle.                                 *)
(*                                                                         *)
(* The variables are this end's; the peer is whatever writes to s2c and    *)
(* reads from c2s.                                                         *)
(***************************************************************************)
EXTENDS Connection

CONSTANTS
    Credentials,  \* the credentials a client may present
    ClientSends   \* a bound: how many frames this end writes

ASSUME ClientSendsAssumption == ClientSends \in Nat

VARIABLES
    client,     \* "start"       CONNECT not yet on the wire
                \* "connecting"  in transport.next() of client_handshake
                \* "ready"       the handle was returned
                \* "failed"      connect returned an error or was dropped, and
                \*               the transport with it
                \* "gone"        the handle was dropped
    responses   \* the frames read_response has returned, in order

clientVars == <<client, responses>>

\* The library offers version 1.2 only.
Connect(login) == [cmd |-> "CONNECT", versions |-> {"1.2"}, login |-> login]
SendFrame(n) == [cmd |-> "SEND", n |-> n]

ClientInit ==
    /\ client = "start"
    /\ responses = << >>

\* CONNECT goes onto the wire.
WriteConnect ==
    /\ client = "start"
    /\ up
    /\ \E login \in Credentials : c2s' = Put(c2s, Connect(login))
    /\ client' = "connecting"
    /\ UNCHANGED <<s2c, up, responses>>

\* Faulty variant: the handle gets a BufferedTransport of its own.
AwaitConnectedFreshBuffer ==
    /\ client = "connecting"
    /\ up
    /\ \E got \in 1..Len(s2c.sent) :
        /\ Readable(s2c, got)
        /\ s2c' = EmptyBuffer(Fill(s2c, got))
        /\ IF Front(s2c).cmd = "CONNECTED"
           THEN client' = "ready" /\ UNCHANGED c2s
           ELSE client' = "failed" /\ c2s' = Shut(c2s)
    /\ UNCHANGED <<up, responses>>

\* Faulty variant: any reply makes the connection.
AwaitConnectedLax ==
    /\ client = "connecting"
    /\ up
    /\ \/ \E got \in 1..Len(s2c.sent) :
            /\ Readable(s2c, got)
            /\ s2c' = Decode(s2c, got)
       \/ AtEnd(s2c) /\ UNCHANGED s2c
    /\ client' = "ready"
    /\ UNCHANGED <<c2s, up, responses>>

\* next() returns a frame, or the error of its conversion or its parser.
AwaitConnected ==
    /\ client = "connecting"
    /\ up
    /\ \E got \in 1..Len(s2c.sent) :
        /\ Readable(s2c, got)
        /\ s2c' = Decode(s2c, got)
        /\ IF Front(s2c).cmd = "CONNECTED"
           THEN client' = "ready" /\ UNCHANGED c2s
           ELSE client' = "failed" /\ c2s' = Shut(c2s)
    /\ UNCHANGED <<up, responses>>

\* The write fails (before or after CONNECT went out), next() returns a
\* side-channel message or an error, or the future of connect is dropped, by
\* a timeout of the caller for example.
GiveUpConnect ==
    /\ client \in {"start", "connecting"}
    /\ client' = "failed"
    /\ c2s' = Shut(c2s)
    /\ UNCHANGED <<s2c, up, responses>>

\* Faulty variant: the end of the connection is taken for a pause.
AwaitConnectedClosedReadsOn ==
    /\ client = "connecting"
    /\ AtEnd(s2c)
    /\ UNCHANGED <<c2s, s2c, up, client, responses>>

\* next() finds the connection closed or broken.
AwaitConnectedClosed ==
    /\ client = "connecting"
    /\ AtEnd(s2c)
    /\ client' = "failed"
    /\ c2s' = Shut(c2s)
    /\ UNCHANGED <<s2c, up, responses>>

\* send_message.
ClientSendMessage ==
    /\ client = "ready"
    /\ up
    /\ Len(c2s.sent) < ClientSends
    /\ c2s' = Put(c2s, SendFrame(Len(c2s.sent) + 1))
    /\ UNCHANGED <<s2c, up, client, responses>>

\* read_response returns a frame.
ReadResponse ==
    /\ client = "ready"
    /\ up
    /\ \E got \in 1..Len(s2c.sent) :
        /\ Readable(s2c, got)
        /\ s2c' = Decode(s2c, got)
        /\ responses' = Append(responses, Front(s2c))
    /\ UNCHANGED <<c2s, up, client>>

\* The handle is dropped, or consumed by into_transport, and the transport is
\* dropped with it or behind it.
DropClient ==
    /\ client = "ready"
    /\ client' = "gone"
    /\ c2s' = Shut(c2s)
    /\ UNCHANGED <<s2c, up, responses>>

ClientNext ==
    \/ WriteConnect
    \/ AwaitConnected
    \/ AwaitConnectedClosed
    \/ GiveUpConnect
    \/ ClientSendMessage
    \/ ReadResponse
    \/ DropClient

=============================================================================
