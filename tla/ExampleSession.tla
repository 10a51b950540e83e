--------------------------- MODULE ExampleSession ---------------------------
(***************************************************************************)
(* The task of the example server and a client on one WebSocket, which may *)
(* break at any moment.  The client is the example client, or one that     *)
(* sends frames, Pings, Pongs and a Close as it likes, and drops its end   *)
(* when it likes.                                                          *)
(***************************************************************************)
EXTENDS ExampleClient, ExampleServer

CONSTANTS
    Offers,   \* the CONNECT frames that other client may send
    Visits    \* a bound: how many messages it sends

\* The handle_login of the example server accepts every login.
ASSUME LoginsAssumption == Credentials \subseteq Accepted

VARIABLE peer   \* "example" or "other": the client

vars == <<c2s, s2c, up, exampleClientVars, exampleServerVars, peer>>

Commands == {"SUBSCRIBE", "SEND", "DISCONNECT", "PING", "PONG", "CLOSE",
             "UNKNOWN", "malformed"}

Init ==
    /\ ConnectionInit
    /\ ExampleClientInit
    /\ ExampleServerInit
    /\ peer \in {"example", "other"}

\* Behind a Close nothing more is sent.
OtherPuts(m) ==
    /\ up
    /\ ~ c2s.closed
    /\ Len(c2s.sent) < Visits
    /\ c2s' = IF m.cmd = "CLOSE" THEN Shut(Put(c2s, m)) ELSE Put(c2s, m)
    /\ UNCHANGED <<s2c, up>>

OtherDrops ==
    /\ ~ c2s.closed
    /\ c2s' = Shut(c2s)
    /\ UNCHANGED <<s2c, up>>

ClientStep ==
    /\ peer = "example"
    /\ ExampleClientNext
    /\ UNCHANGED <<exampleServerVars, peer>>

OtherStep ==
    /\ peer = "other"
    /\ \/ \E m \in Offers \cup [cmd : Commands] : OtherPuts(m)
       \/ OtherDrops
    /\ UNCHANGED <<exampleClientVars, exampleServerVars, peer>>

ServerStep == ExampleServerNext /\ UNCHANGED <<exampleClientVars, peer>>

Next ==
    \/ ClientStep
    \/ OtherStep
    \/ ServerStep
    \/ Break /\ UNCHANGED <<exampleClientVars, exampleServerVars, peer>>

Spec == Init /\ [][Next]_vars

\* The programs are tasks that a runtime keeps polling, and what is on the
\* wire, or its end, reaches a pending read.  The connection need not break,
\* and the other client need not do anything.
FairSpec == Spec /\ WF_vars(ClientStep) /\ WF_vars(ServerStep)

-----------------------------------------------------------------------------

\* The client reports a clean end of the connection only after a complete
\* exchange: the server has read the subscription, the Ping and the
\* DISCONNECT, in that order and nothing else, and the client has read the
\* answer to its Ping.
CleanEnd ==
    outcome = "closed" =>
        /\ received = <<Subscribe, Ping, Disconnect>>
        /\ s2c.sent = <<Connected, Pong, Close>>
        /\ responses = <<Pong>>

\* On a connection that does not break nothing goes wrong: neither program
\* fails, and the client's last read finds the connection closed and nothing
\* else, although Pings and Pongs go past the handles on both sides.
SoundWithoutBreak ==
    up /\ peer = "example" =>
        /\ client # "failed"
        /\ todo # "panicked"
        /\ outcome \in {"none", "closed"}
        /\ server # "rejected"

\* Both programs come to an end, whatever happens to the connection, although
\* neither has a timeout, if a read that waits on it returns when it breaks.
BothEnd == peer = "example" => <>(client \in {"failed", "gone"} /\ server = "gone")

Answers == [PING |-> "PONG", PONG |-> "PING", DISCONNECT |-> "CLOSE"]

\* Those of the messages heard that the server answers.
Asked(heard) ==
    LET upto[i \in 0..Len(heard)] ==
          IF i = 0 THEN << >>
          ELSE IF heard[i].cmd \in DOMAIN Answers THEN Append(upto[i - 1], heard[i])
          ELSE upto[i - 1]
    IN  upto[Len(heard)]

\* What the server sends past its handle keeps in step with what it reads
\* through it: CONNECTED first, then one answer for each Ping, Pong and
\* DISCONNECT, in the order in which they came and none of them twice.
AnswersInStep ==
    LET asked == Asked(received) IN
    /\ Len(s2c.sent) <= Len(asked) + 1
    /\ server = "ready" /\ answer = "nothing" => Len(s2c.sent) = Len(asked) + 1
    /\ \A i \in 1..Len(s2c.sent) :
          s2c.sent[i].cmd = IF i = 1 THEN "CONNECTED" ELSE Answers[asked[i - 1].cmd]

\* Nothing that comes behind a DISCONNECT, or in front of a CONNECT that was
\* accepted, reaches the loop.
LoopHearsTheSession ==
    \A i \in 1..Len(received) :
        /\ received[i].cmd = "DISCONNECT" => i = Len(received)
        /\ \E j \in 1..(c2s.decoded - Len(received)) : c2s.sent[j].cmd = "CONNECT"

\* The task of a client that is gone comes to an end, and so does that of one
\* that has disconnected but does not drop its end.
TaskEnds ==
    (~ up \/ c2s.closed \/ \E i \in 1..Len(received) : received[i].cmd = "DISCONNECT")
        ~> server = "gone"

=============================================================================
