---------------------------- MODULE ServerHandle ----------------------------
(***************************************************************************)
(* ServerStompHandle (src/handle/server.rs) and the application that uses  *)
(* it on one connection: wait_for_connection with its two callbacks, then  *)
(* send_message and read_data, until the application gives the handle up.  *)
(*                                                                         *)
(* The variables are this end's; the peer is whatever writes to c2s and    *)
(* reads from s2c.                                                         *)
(***************************************************************************)
EXTENDS Connection

CONSTANTS
    Accepted,     \* the credentials handle_login accepts
    ServerSends,  \* a bound: how many frames this end writes
    Retries       \* a bound: how often it tries again after a rejection

ASSUME ServerSendsAssumption == ServerSends \in Nat

VARIABLES
    server,    \* "waiting"   in transport.next() of client_handshake
               \* "replying"  session created, CONNECTED not yet on the wire
               \* "replied"   CONNECTED on the wire, write not yet returned
               \* "ready"     the handle was returned
               \* "rejected"  ClientHandshakeError, which owns the transport
               \* "gone"      the transport was dropped
    logins,    \* the credentials handle_login was called with, in order
    sessions,  \* how often create_session was called
    retries,   \* how often wait_for_connection was called again
    received   \* the frames read_data has returned, in order

serverVars == <<server, logins, sessions, retries, received>>

\* What an application frame carries is its place in its direction.
Connected == [cmd |-> "CONNECTED"]
MessageFrame(n) == [cmd |-> "MESSAGE", n |-> n]

ServerInit ==
    /\ server = "waiting"
    /\ logins = << >>
    /\ sessions = 0
    /\ retries = 0
    /\ received = << >>

\* Faulty variant: the session is created before the login is checked.
HandshakeConnectEagerSession(f) ==
    /\ "1.2" \in f.versions
    /\ logins' = Append(logins, f.login)
    /\ sessions' = sessions + 1
    /\ server' = IF f.login \in Accepted THEN "replying" ELSE "rejected"

\* Faulty variant: what handle_login answers is ignored.
HandshakeConnectIgnoresLogin(f) ==
    /\ "1.2" \in f.versions
    /\ logins' = Append(logins, f.login)
    /\ server' = "replying"
    /\ sessions' = sessions + 1

\* Faulty variant: after a refused login, the server waits for a better one.
HandshakeConnectWaitsOn(f) ==
    \/ /\ "1.2" \in f.versions
       /\ f.login \in Accepted
       /\ logins' = Append(logins, f.login)
       /\ server' = "replying"
       /\ sessions' = sessions + 1
    \/ /\ f.login \notin Accepted
       /\ logins' = Append(logins, f.login)
       /\ UNCHANGED <<server, sessions>>

\* Faulty variant: handle_login is called before the version is known.
HandshakeConnectLoginFirst(f) ==
    /\ logins' = Append(logins, f.login)
    /\ \/ /\ f.login \in Accepted /\ "1.2" \in f.versions
          /\ server' = "replying"
          /\ sessions' = sessions + 1
       \/ /\ f.login \notin Accepted \/ "1.2" \notin f.versions
          /\ server' = "rejected"
          /\ UNCHANGED sessions

\* The callbacks are called in this order, each at most once, and without an
\* await in between: the version the client offers, its credentials, and
\* then the session.
HandshakeConnect(f) ==
    \/ /\ "1.2" \notin f.versions
       /\ server' = "rejected"
       /\ UNCHANGED <<logins, sessions>>
    \/ /\ "1.2" \in f.versions
       /\ logins' = Append(logins, f.login)
       /\ \/ /\ f.login \notin Accepted
             /\ server' = "rejected"
             /\ UNCHANGED sessions
          \/ /\ f.login \in Accepted
             /\ server' = "replying"
             /\ sessions' = sessions + 1

\* Faulty variant: the handshake looks at the first frame without taking it
\* out of the buffer.
HandshakeFramePeeks ==
    /\ server = "waiting"
    /\ up
    /\ \E got \in 1..Len(c2s.sent) :
        /\ Readable(c2s, got)
        /\ c2s' = Fill(c2s, got)
        /\ IF Front(c2s).cmd = "CONNECT"
           THEN HandshakeConnect(Front(c2s))
           ELSE server' = "rejected" /\ UNCHANGED <<logins, sessions>>
    /\ UNCHANGED <<s2c, up, retries, received>>

\* Faulty variant: the handle gets a BufferedTransport of its own.
HandshakeFrameFreshBuffer ==
    /\ server = "waiting"
    /\ up
    /\ \E got \in 1..Len(c2s.sent) :
        /\ Readable(c2s, got)
        /\ c2s' = EmptyBuffer(Fill(c2s, got))
        /\ IF Front(c2s).cmd = "CONNECT"
           THEN HandshakeConnect(Front(c2s))
           ELSE server' = "rejected" /\ UNCHANGED <<logins, sessions>>
    /\ UNCHANGED <<s2c, up, retries, received>>

\* next() returns a frame, or the error of its conversion or its parser;
\* everything but a CONNECT is refused.
HandshakeFrame ==
    /\ server = "waiting"
    /\ up
    /\ \E got \in 1..Len(c2s.sent) :
        /\ Readable(c2s, got)
        /\ LET f == Front(c2s) IN
           /\ c2s' = IF f.cmd = "malformed" THEN Fill(c2s, got)
                                            ELSE Decode(c2s, got)
           /\ IF f.cmd = "CONNECT"
              THEN HandshakeConnect(f)
              ELSE server' = "rejected" /\ UNCHANGED <<logins, sessions>>
    /\ UNCHANGED <<s2c, up, retries, received>>

\* next() returns a side-channel message, or the error of a failed read.
HandshakeOther ==
    /\ server = "waiting"
    /\ server' = "rejected"
    /\ UNCHANGED <<c2s, s2c, up, logins, sessions, retries, received>>

\* next() finds the connection closed.
HandshakeClosed ==
    /\ server = "waiting"
    /\ AtEnd(c2s)
    /\ server' = "rejected"
    /\ UNCHANGED <<c2s, s2c, up, logins, sessions, retries, received>>

\* CONNECTED goes onto the wire; write() has not returned.
WriteConnected ==
    /\ server = "replying"
    /\ up
    /\ s2c' = Put(s2c, Connected)
    /\ server' = "replied"
    /\ UNCHANGED <<c2s, up, logins, sessions, retries, received>>

\* write() returns Ok, and wait_for_connection the handle.
WriteConnectedOk ==
    /\ server = "replied"
    /\ server' = "ready"
    /\ UNCHANGED <<c2s, s2c, up, logins, sessions, retries, received>>

\* Faulty variant: a failed write is tried again.
WriteConnectedErrRetries ==
    /\ server \in {"replying", "replied"}
    /\ server' = "replying"
    /\ UNCHANGED <<c2s, s2c, up, logins, sessions, retries, received>>

\* write() fails, before or after the frame went out.
WriteConnectedErr ==
    /\ server \in {"replying", "replied"}
    /\ server' = "rejected"
    /\ UNCHANGED <<c2s, s2c, up, logins, sessions, retries, received>>

\* send_message.
SendMessage ==
    /\ server = "ready"
    /\ up
    /\ Len(s2c.sent) < ServerSends
    /\ s2c' = Put(s2c, MessageFrame(Len(s2c.sent) + 1))
    /\ UNCHANGED <<c2s, up, server, logins, sessions, retries, received>>

\* read_data returns a frame, as a message or as the error of its conversion,
\* or a parser error.
ReadData ==
    /\ server = "ready"
    /\ up
    /\ \E got \in 1..Len(c2s.sent) :
        /\ Readable(c2s, got)
        /\ IF Front(c2s).cmd = "malformed"
           THEN c2s' = Fill(c2s, got) /\ UNCHANGED received
           ELSE c2s' = Decode(c2s, got) /\ received' = Append(received, Front(c2s))
    /\ UNCHANGED <<s2c, up, server, logins, sessions, retries>>

\* The application calls wait_for_connection again, with the transport of the
\* ClientHandshakeError.  A new BufferedTransport begins with an empty buffer:
\* what the old one held is lost.
Retry ==
    /\ server = "rejected"
    /\ retries < Retries
    /\ server' = "waiting"
    /\ retries' = retries + 1
    /\ c2s' = EmptyBuffer(c2s)
    /\ UNCHANGED <<s2c, up, logins, sessions, received>>

\* The transport is dropped: with the future of wait_for_connection, with the
\* ClientHandshakeError, or with the handle.
DropServer ==
    /\ server # "gone"
    /\ server' = "gone"
    /\ s2c' = Shut(s2c)
    /\ UNCHANGED <<c2s, up, logins, sessions, retries, received>>

ServerNext ==
    \/ HandshakeFrame
    \/ HandshakeOther
    \/ HandshakeClosed
    \/ WriteConnected
    \/ WriteConnectedOk
    \/ WriteConnectedErr
    \/ SendMessage
    \/ ReadData
    \/ Retry
    \/ DropServer

=============================================================================
