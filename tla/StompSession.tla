---------------------------- MODULE StompSession ----------------------------
(***************************************************************************)
(* One connection with this library at both ends: ClientStompHandle and    *)
(* ServerStompHandle, their applications, and a connection that may break  *)
(* at any moment.                                                          *)
(***************************************************************************)
EXTENDS ClientHandle, ServerHandle

vars == <<c2s, s2c, up, clientVars, serverVars>>

Init == ConnectionInit /\ ClientInit /\ ServerInit

ClientStep(A) == A /\ UNCHANGED serverVars

ServerStep(A) == A /\ UNCHANGED clientVars

Next ==
    \/ ClientStep(ClientNext)
    \/ ServerStep(ServerNext)
    \/ Break /\ UNCHANGED <<clientVars, serverVars>>

Spec == Init /\ [][Next]_vars

(***************************************************************************)
(* Fairness.  Both ends are tasks that a runtime keeps polling: connect is *)
(* called and its write made, frames that are on the wire reach a pending  *)
(* read, and so does the end of the connection.  The write of CONNECTED    *)
(* returns, with success or not.  An application that is handed a          *)
(* ClientHandshakeError lets go of it, as examples/stomp_server.rs does.   *)
(* Nobody is obliged to send, to give up, or to break the connection.      *)
(***************************************************************************)
FairSpec ==
    /\ Spec
    /\ WF_vars(ClientStep(client = "start" /\ (WriteConnect \/ GiveUpConnect)))
    /\ WF_vars(ClientStep(AwaitConnected))
    /\ WF_vars(ClientStep(AwaitConnectedClosed))
    /\ WF_vars(ServerStep(HandshakeFrame))
    /\ WF_vars(ServerStep(HandshakeClosed))
    /\ WF_vars(ServerStep(server = "replying" /\ (WriteConnected \/ WriteConnectedErr)))
    /\ WF_vars(ServerStep(server = "replied" /\ (WriteConnectedOk \/ WriteConnectedErr)))
    /\ WF_vars(ServerStep(server = "rejected" /\ DropServer))

-----------------------------------------------------------------------------

ClientFrames ==
    [cmd : {"CONNECT"}, versions : {{"1.2"}}, login : Credentials]
        \cup [cmd : {"SEND"}, n : Nat]

ServerFrames == {Connected} \cup [cmd : {"MESSAGE"}, n : Nat]

\* Type invariant.
TypeOK ==
    /\ LinkOK(c2s, ClientFrames)
    /\ LinkOK(s2c, ServerFrames)
    /\ up \in BOOLEAN
    /\ client \in {"start", "connecting", "ready", "failed", "gone"}
    /\ responses \in Seq(ServerFrames)
    /\ server \in {"waiting", "replying", "replied", "ready", "rejected", "gone"}
    /\ logins \in Seq(Credentials)
    /\ sessions \in Nat
    /\ retries \in Nat
    /\ received \in Seq(ClientFrames)

\* A client has a handle only if the server asked handle_login about the
\* credentials this client presented, accepted them, created one session for
\* them and put CONNECTED on the wire, whatever errors, retries and broken
\* connections happened; the server itself need not have got a handle.
Agreement ==
    client \in {"ready", "gone"} =>
        /\ logins = <<c2s.sent[1].login>>
        /\ c2s.sent[1].login \in Accepted
        /\ sessions = 1
        /\ s2c.sent # << >> /\ s2c.sent[1] = Connected

\* No session without an accepted login, and never two of them, although a
\* server may call wait_for_connection again and again on the connection.
SessionPerLogin ==
    /\ sessions <= 1
    /\ sessions = 1 => Len(logins) = 1 /\ logins[1] \in Accepted

\* The server's application reads the client's messages from the first one
\* on, in order and once each, and no frame of the handshake.
ServerHearsAll ==
    \A i \in 1..Len(received) : received[i] = SendFrame(i + 1)

\* The same for the client: what the server sends right behind CONNECTED, in
\* the same chunk even, stays in the buffer that connect passes on to the
\* handle.
ClientHearsAll ==
    \A i \in 1..Len(responses) : responses[i] = MessageFrame(i + 1)

\* CONNECTED is the first frame a server writes, and the only one of its kind.
OneConnected ==
    \A i \in 1..Len(s2c.sent) : s2c.sent[i] = Connected <=> i = 1

\* connect comes to an end, with a handle or without one, although it has no
\* timeout: the server answers, or drops the transport.  There is one way in
\* which it does not: the server's application has called wait_for_connection
\* again, and each end waits for a frame of the other for ever.
ConnectSettles ==
    <>[](client = "connecting") => <>[](server = "waiting" /\ retries > 0)

\* The first call of wait_for_connection comes to an end.
WaitSettles ==
    (server = "waiting" /\ retries = 0) ~> server # "waiting"

Behind(s) == SubSeq(s, 2, Len(s))

Presented == IF c2s.sent = << >> THEN {} ELSE {c2s.sent[1].login}

Granted == IF sessions = 0 THEN {} ELSE {logins[i] : i \in 1..Len(logins)}

Joined == client \in {"ready", "gone"}

\* The two handles keep the promise of Conversation.
Talk == INSTANCE Conversation WITH
    Words <- {SendFrame(i) : i \in 2..ClientSends}
             \cup {MessageFrame(i) : i \in 2..ServerSends},
    presented <- Presented,
    granted <- Granted,
    joined <- Joined,
    clientSaid <- Behind(c2s.sent),
    serverHeard <- received,
    serverSaid <- Behind(s2c.sent),
    clientHeard <- responses

ImplementsConversation == Talk!Spec

=============================================================================
