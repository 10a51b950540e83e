--------------------------- MODULE ExampleServer ---------------------------
(***************************************************************************)
(* handle_socket of examples/stomp_server.rs, the task of one WebSocket:   *)
(* it waits for a client and accepts it, then answers its Pings and Pongs  *)
(* past the handle, takes note of what it sends, and closes the connection *)
(* when it disconnects.  As in ExampleClient, everything is a WebSocket    *)
(* message of its own.                                                     *)
(***************************************************************************)
EXTENDS ServerHandle

VARIABLE answer   \* what the loop is about to send: a message, or "nothing";
                  \* "leave" when it is left

exampleServerVars == <<serverVars, answer>>

ExampleServerInit == ServerInit /\ answer = "nothing"

\* wait_for_connection, which accepts every login, and the return from the
\* task when it fails.
WaitOrReturn ==
    /\ \/ HandshakeFrame
       \/ HandshakeClosed
       \/ WriteConnected
       \/ WriteConnectedOk
       \/ (~ up \/ c2s.closed) /\ WriteConnectedErr
       \/ server = "rejected" /\ DropServer
    /\ UNCHANGED answer

\* Faulty variant: a DISCONNECT is noted like the other frames.
ReactionOnlyNotes(m) ==
    CASE m.cmd = "PING" -> "PONG"
      [] m.cmd = "PONG" -> "PING"
      [] m.cmd \in {"UNKNOWN", "malformed", "CLOSE"} -> "leave"
      [] OTHER -> "nothing"

\* Faulty variant: a Ping is noted like a frame.
ReactionIgnoresPing(m) ==
    CASE m.cmd = "PONG" -> "PING"
      [] m.cmd = "DISCONNECT" -> "CLOSE"
      [] m.cmd \in {"UNKNOWN", "malformed", "CLOSE"} -> "leave"
      [] OTHER -> "nothing"

\* The arms of the match on what read_data returned; its errors all leave the
\* loop, a Close among them.
Reaction(m) ==
    CASE m.cmd = "PING" -> "PONG"
      [] m.cmd = "PONG" -> "PING"
      [] m.cmd = "DISCONNECT" -> "CLOSE"
      [] m.cmd \in {"UNKNOWN", "malformed", "CLOSE"} -> "leave"
      [] OTHER -> "nothing"

LoopRead ==
    /\ answer = "nothing"
    /\ ReadData
    /\ answer' = Reaction(Front(c2s))

\* Faulty variant: the WebSocket library answers too.
LoopAnswerTwice ==
    /\ server = "ready"
    /\ answer \in {"PING", "PONG"}
    /\ up
    /\ s2c' = Put(Put(s2c, [cmd |-> answer]), [cmd |-> answer])
    /\ answer' = "nothing"
    /\ UNCHANGED <<c2s, up, serverVars>>

\* The answer goes out through as_mut_transport(), and the loop goes on.
LoopAnswer ==
    /\ server = "ready"
    /\ answer \in {"PING", "PONG"}
    /\ up
    /\ s2c' = Put(s2c, [cmd |-> answer])
    /\ answer' = "nothing"
    /\ UNCHANGED <<c2s, up, serverVars>>

\* Faulty variant: the loop goes on behind the Close.
LoopCloseGoesOn ==
    /\ server = "ready"
    /\ answer = "CLOSE"
    /\ \/ up /\ s2c' = Put(s2c, [cmd |-> "CLOSE"])
       \/ (~ up \/ c2s.closed) /\ UNCHANGED s2c
    /\ answer' = "nothing"
    /\ UNCHANGED <<c2s, up, serverVars>>

\* into_transport() and send_close_message, whose result is ignored: the
\* socket is dropped with the Close on the wire or without.
LoopClose ==
    /\ server = "ready"
    /\ answer = "CLOSE"
    /\ server' = "gone"
    /\ \/ up /\ s2c' = Shut(Put(s2c, [cmd |-> "CLOSE"]))
       \/ (~ up \/ c2s.closed) /\ s2c' = Shut(s2c)
    /\ UNCHANGED <<c2s, up, logins, sessions, retries, received, answer>>

\* The loop is left after an error of read_data or of an answer.
LoopLeave ==
    /\ server = "ready"
    /\ \/ answer = "leave"
       \/ answer = "nothing" /\ AtEnd(c2s)
       \/ answer \in {"PING", "PONG"} /\ (~ up \/ c2s.closed)
    /\ DropServer
    /\ UNCHANGED answer

ExampleServerNext ==
    \/ WaitOrReturn
    \/ LoopRead
    \/ LoopAnswer
    \/ LoopClose
    \/ LoopLeave

=============================================================================
