--------------------------- MODULE ExampleClient ---------------------------
(***************************************************************************)
(* The program of examples/stomp_client.rs on a WebSocket: it connects,    *)
(* subscribes, pings the server past the handle, waits for the answer,     *)
(* disconnects and waits for the end.  Every STOMP frame and every Ping,   *)
(* Pong and Close is a WebSocket message of its own, so that a direction   *)
(* of Connection is read one message at a time.                            *)
(***************************************************************************)
EXTENDS ClientHandle

VARIABLES
    todo,    \* what main does next once it has its handle
    outcome  \* what the last read_response returned, before the Goodbye

exampleClientVars == <<clientVars, todo, outcome>>

Subscribe  == [cmd |-> "SUBSCRIBE"]
Disconnect == [cmd |-> "DISCONNECT"]
Ping  == [cmd |-> "PING"]
Pong  == [cmd |-> "PONG"]
Close == [cmd |-> "CLOSE"]

ExampleClientInit ==
    /\ ClientInit
    /\ todo = "subscribe"
    /\ outcome = "none"

\* A write fails when the connection is broken, and may fail when the peer
\* has dropped its end.
MayFail(back) == ~ up \/ back.closed

\* connect(..).await.unwrap().
ConnectOrPanic ==
    /\ \/ WriteConnect
       \/ AwaitConnected
       \/ AwaitConnectedClosed
       \/ client = "start" /\ MayFail(s2c) /\ GiveUpConnect
    /\ UNCHANGED <<todo, outcome>>

\* send(..).await.unwrap().
Send(m, next) ==
    /\ client = "ready"
    /\ up
    /\ c2s' = Put(c2s, m)
    /\ todo' = next
    /\ UNCHANGED <<s2c, up, client, responses, outcome>>

SendSubscribe  == todo = "subscribe" /\ Send(Subscribe, "ping")
SendPing       == todo = "ping" /\ Send(Ping, "listen")
SendDisconnect == todo = "disconnect" /\ Send(Disconnect, "await_close")

\* The process ends, and its end of the connection with it.
Exit(how) ==
    /\ DropClient
    /\ todo' = how

SendPanics ==
    /\ todo \in {"subscribe", "ping", "disconnect"}
    /\ MayFail(s2c)
    /\ Exit("panicked")
    /\ UNCHANGED outcome

HasMessage(link) == up /\ link.decoded < Len(link.sent)

\* WsTransport::read takes one message off the stream.
Take == s2c' = Decode(s2c, s2c.decoded + 1)

\* The first read_response: a frame or a side-channel message of any kind
\* will do.
Listen ==
    /\ client = "ready"
    /\ todo = "listen"
    /\ HasMessage(s2c)
    /\ Front(s2c) # Close
    /\ Take
    /\ responses' = Append(responses, Front(s2c))
    /\ todo' = "disconnect"
    /\ UNCHANGED <<c2s, up, client, outcome>>

\* It returns an error, which is unwrapped.
ListenPanics ==
    /\ todo = "listen"
    /\ AtEnd(s2c) \/ (HasMessage(s2c) /\ Front(s2c) = Close)
    /\ Exit("panicked")
    /\ UNCHANGED outcome

\* Faulty variant: main says Goodbye without waiting for the server.
AwaitCloseHurries ==
    /\ todo = "await_close"
    /\ Exit("goodbye")
    /\ outcome' = "closed"

\* The second read_response.  A Close is ConnectionClosed; an error of the
\* stream, which has ended without one, is ReadError::Other.
AwaitClose ==
    /\ todo = "await_close"
    /\ Exit("goodbye")
    /\ \/ /\ HasMessage(s2c)
          /\ outcome' = IF Front(s2c) = Close THEN "closed" ELSE "unexpected"
       \/ /\ AtEnd(s2c)
          /\ outcome' = "error"

ExampleClientNext ==
    \/ ConnectOrPanic
    \/ SendSubscribe
    \/ SendPing
    \/ SendDisconnect
    \/ SendPanics
    \/ Listen
    \/ ListenPanics
    \/ AwaitClose

=============================================================================
