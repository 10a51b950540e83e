------------------------ MODULE ExampleSessionProofs ------------------------
(***************************************************************************)
(* Proofs about ExampleSession: what the loop of the example server hears  *)
(* of any client, and how its conversation with the example client goes.   *)
(***************************************************************************)
EXTENDS ExampleSession, ConnectionProofs, Induction, SequenceTheorems

Connects == {Connect(login) : login \in Credentials}

ToServerMessages == Connects \cup Offers \cup [cmd : Commands]

ToClientMessages == [cmd : {"CONNECTED", "PONG", "PING", "CLOSE"}]

Types ==
    /\ LinkOK(c2s, ToServerMessages)
    /\ LinkOK(s2c, ToClientMessages)
    /\ received \in Seq(ToServerMessages)
    /\ responses \in Seq(ToClientMessages)
    /\ answer \in {"nothing", "PING", "PONG", "CLOSE", "leave"}

\* Nothing is read before there is a handle, behind a CONNECT; and a loop that
\* goes on has not read a DISCONNECT.
Loop ==
    /\ server \notin {"ready", "gone"} => received = << >>
    /\ server \in {"replying", "replied", "ready"} \/ received # << >> =>
        \E j \in 1..(c2s.decoded - Len(received)) : c2s.sent[j].cmd = "CONNECT"
    /\ server \notin {"ready", "gone"} => answer = "nothing"
    /\ server # "gone" /\ answer \in {"nothing", "PING", "PONG"} =>
        \A i \in 1..Len(received) : received[i].cmd # "DISCONNECT"
    /\ \A i \in 1..Len(received) : received[i].cmd = "DISCONNECT" => i = Len(received)

LoopInv == Types /\ Loop

-----------------------------------------------------------------------------

LEMMA InitLoopInv == Init => LoopInv
<1> SUFFICES ASSUME Init PROVE LoopInv
  OBVIOUS
<1>1. /\ c2s = NewLink /\ s2c = NewLink /\ server = "waiting" /\ received = << >>
      /\ responses = << >> /\ answer = "nothing"
  BY DEF Init, ConnectionInit, ExampleClientInit, ClientInit, ExampleServerInit,
         ServerInit
<1>2. Types
  BY <1>1 DEF Types, LinkOK, NewLink
<1>3. Loop
  BY <1>1 DEF Loop
<1> QED BY <1>2, <1>3 DEF LoopInv

\* The message behind those that were read, taken off the stream.
LEMMA TakeEffect ==
  ASSUME NEW Messages, NEW link, LinkOK(link, Messages),
         link.decoded < Len(link.sent)
  PROVE  /\ LinkOK(Decode(link, link.decoded + 1), Messages)
         /\ Decode(link, link.decoded + 1).sent = link.sent
         /\ Decode(link, link.decoded + 1).arrived = link.decoded + 1
         /\ Decode(link, link.decoded + 1).decoded = link.decoded + 1
         /\ Front(link) = link.sent[link.decoded + 1]
         /\ Front(link) \in Messages
<1> DEFINE next == link.decoded + 1
<1>1. /\ link \in [sent : Seq(Messages), arrived : Nat, decoded : Nat, closed : BOOLEAN]
      /\ next \in Nat /\ next \in 1..Len(link.sent) /\ next <= Len(link.sent)
  BY LinkFields DEF LinkOK
<1>2. /\ Decode(link, next).sent = link.sent
      /\ Decode(link, next).arrived = next
      /\ Decode(link, next).decoded = next
  BY <1>1 DEF Decode
<1>3. Decode(link, next) \in
        [sent : Seq(Messages), arrived : Nat, decoded : Nat, closed : BOOLEAN]
  BY <1>1 DEF Decode
<1>4. Front(link) = link.sent[next] /\ link.sent[next] \in Messages
  BY <1>1 DEF Front
<1>5. LinkOK(Decode(link, next), Messages)
  <2> HIDE DEF next
  <2> QED BY <1>1, <1>2, <1>3 DEF LinkOK
<1> QED BY <1>2, <1>4, <1>5

\* A message more on the way to the server, or none, changes nothing that the
\* server has heard.
LEMMA ClientSideLoopInv ==
  ASSUME LoopInv, UNCHANGED exampleServerVars,
         LinkOK(c2s', ToServerMessages), LinkOK(s2c', ToClientMessages),
         responses' \in Seq(ToClientMessages),
         c2s'.decoded = c2s.decoded,
         \A i \in 1..Len(c2s.sent) : c2s'.sent[i] = c2s.sent[i]
  PROVE  LoopInv'
<1>1. UNCHANGED <<server, received, answer>>
  BY DEF exampleServerVars, serverVars
<1>2. Types'
  BY <1>1 DEF LoopInv, Types
<1>3. /\ c2s.decoded \in Nat /\ c2s.arrived \in Nat /\ Len(c2s.sent) \in Nat
      /\ c2s.decoded <= c2s.arrived /\ c2s.arrived <= Len(c2s.sent)
      /\ Len(received) \in Nat
  BY LinkFields DEF LoopInv, Types
<1>4. \A j \in 1..(c2s.decoded - Len(received)) : c2s'.sent[j] = c2s.sent[j]
  BY <1>3
<1>5. Loop'
  BY <1>1, <1>4 DEF LoopInv, Loop
<1> QED BY <1>2, <1>5 DEF LoopInv

\* The steps of the example client.
LEMMA ClientLoopInv ==
  ASSUME LoopInv, ExampleClientNext, UNCHANGED exampleServerVars
  PROVE  LoopInv'
<1>1. /\ LinkOK(c2s, ToServerMessages) /\ LinkOK(s2c, ToClientMessages)
      /\ responses \in Seq(ToClientMessages)
  BY DEF LoopInv, Types
<1>2. LinkOK(Shut(c2s), ToServerMessages) /\ Shut(c2s).sent = c2s.sent
      /\ Shut(c2s).decoded = c2s.decoded
  BY <1>1, ShutEffect
<1>3. ASSUME NEW m \in ToServerMessages, c2s' = Put(c2s, m), UNCHANGED <<s2c, responses>>
      PROVE  LoopInv'
  <2>1. /\ LinkOK(c2s', ToServerMessages) /\ c2s'.decoded = c2s.decoded
        /\ \A i \in 1..Len(c2s.sent) : c2s'.sent[i] = c2s.sent[i]
    BY <1>1, <1>3, PutEffect
  <2> QED BY <1>1, <1>3, <2>1, ClientSideLoopInv
<1>4. ASSUME c2s' = Shut(c2s), UNCHANGED <<s2c, responses>> PROVE LoopInv'
  BY <1>1, <1>2, <1>4, ClientSideLoopInv
<1>5. ASSUME NEW got \in 1..Len(s2c.sent), Readable(s2c, got), s2c' = Decode(s2c, got),
             c2s' = c2s \/ c2s' = Shut(c2s),
             responses' = responses \/ responses' = Append(responses, Front(s2c))
      PROVE  LoopInv'
  <2>1. LinkOK(s2c', ToClientMessages) /\ Front(s2c) \in ToClientMessages
    BY <1>1, <1>5, DecodeEffect
  <2>2. responses' \in Seq(ToClientMessages)
    BY <1>1, <1>5, <2>1
  <2> QED BY <1>1, <1>2, <1>5, <2>1, <2>2, ClientSideLoopInv
<1>6. /\ \A login \in Credentials : Connect(login) \in ToServerMessages
      /\ Subscribe \in ToServerMessages /\ Ping \in ToServerMessages
      /\ Disconnect \in ToServerMessages
  BY DEF ToServerMessages, Connects, Commands, Subscribe, Ping, Disconnect
<1>7. CASE ConnectOrPanic
  <2>1. CASE WriteConnect
    BY <1>3, <1>6, <2>1 DEF WriteConnect
  <2>2. CASE AwaitConnected
    BY <1>5, <2>2 DEF AwaitConnected
  <2>3. CASE AwaitConnectedClosed \/ GiveUpConnect
    BY <1>4, <2>3 DEF AwaitConnectedClosed, GiveUpConnect
  <2> QED BY <1>7, <2>1, <2>2, <2>3 DEF ConnectOrPanic
<1>8. CASE SendSubscribe \/ SendPing \/ SendDisconnect
  BY <1>3, <1>6, <1>8 DEF SendSubscribe, SendPing, SendDisconnect, Send
<1>9. CASE SendPanics \/ ListenPanics \/ AwaitClose
  BY <1>4, <1>9 DEF SendPanics, ListenPanics, AwaitClose, Exit, DropClient
<1>10. CASE Listen
  <2>1. /\ s2c' = Decode(s2c, s2c.decoded + 1) /\ s2c.decoded < Len(s2c.sent)
        /\ c2s' = c2s /\ responses' = Append(responses, Front(s2c))
    BY <1>10 DEF Listen, Take, HasMessage
  <2>2. LinkOK(s2c', ToClientMessages) /\ Front(s2c) \in ToClientMessages
    BY <1>1, <2>1, TakeEffect
  <2>3. responses' \in Seq(ToClientMessages)
    BY <1>1, <2>1, <2>2
  <2> QED BY <1>1, <2>1, <2>2, <2>3, ClientSideLoopInv
<1> QED BY <1>7, <1>8, <1>9, <1>10 DEF ExampleClientNext

\* Whatever another client writes, the server has not heard it yet.
LEMMA OtherLoopInv ==
  ASSUME LoopInv, OtherStep
  PROVE  LoopInv'
<1>1. /\ UNCHANGED <<exampleClientVars, exampleServerVars>>
      /\ \/ \E m \in Offers \cup [cmd : Commands] : OtherPuts(m)
         \/ OtherDrops
  BY DEF OtherStep
<1>2. /\ LinkOK(c2s, ToServerMessages) /\ LinkOK(s2c, ToClientMessages)
      /\ responses \in Seq(ToClientMessages) /\ responses' = responses
  BY <1>1 DEF LoopInv, Types, exampleClientVars, clientVars
<1>3. CASE OtherDrops
  <2>1. c2s' = Shut(c2s) /\ s2c' = s2c
    BY <1>3 DEF OtherDrops
  <2>2. /\ LinkOK(c2s', ToServerMessages)
        /\ c2s'.sent = c2s.sent /\ c2s'.decoded = c2s.decoded
    BY <1>2, <2>1, ShutEffect
  <2> QED BY <1>1, <1>2, <2>1, <2>2, ClientSideLoopInv
<1>4. ASSUME NEW m \in Offers \cup [cmd : Commands], OtherPuts(m)
      PROVE  LoopInv'
  <2>1. s2c' = s2c /\ (c2s' = Put(c2s, m) \/ c2s' = Shut(Put(c2s, m)))
    BY <1>4 DEF OtherPuts
  <2>2. m \in ToServerMessages
    BY DEF ToServerMessages
  <2>3. /\ LinkOK(Put(c2s, m), ToServerMessages)
        /\ Put(c2s, m).decoded = c2s.decoded
        /\ \A i \in 1..Len(c2s.sent) : Put(c2s, m).sent[i] = c2s.sent[i]
    <3>1. LinkOK(c2s, ToServerMessages)
      BY <1>2
    <3> QED BY <3>1, <2>2, PutEffect
  <2>4. /\ LinkOK(Shut(Put(c2s, m)), ToServerMessages)
        /\ Shut(Put(c2s, m)).decoded = Put(c2s, m).decoded
        /\ Shut(Put(c2s, m)).sent = Put(c2s, m).sent
    BY <2>3, ShutEffect
  <2> QED BY <1>1, <1>2, <2>1, <2>3, <2>4, ClientSideLoopInv
<1> QED BY <1>1, <1>3, <1>4

\* The first frame of the handshake, and the CONNECT it must be.
LEMMA HandshakeLoopInv ==
  ASSUME LoopInv, HandshakeFrame, UNCHANGED <<exampleClientVars, answer>>
  PROVE  LoopInv'
<1> DEFINE f == Front(c2s)
<1>1. PICK got \in 1..Len(c2s.sent) :
        /\ Readable(c2s, got)
        /\ c2s' = IF f.cmd = "malformed" THEN Fill(c2s, got)
                                         ELSE Decode(c2s, got)
        /\ IF f.cmd = "CONNECT"
           THEN HandshakeConnect(f)
           ELSE server' = "rejected" /\ UNCHANGED <<logins, sessions>>
  BY DEF HandshakeFrame
<1>2. /\ server = "waiting" /\ UNCHANGED <<s2c, received, answer, responses>>
      /\ received = << >> /\ answer = "nothing"
  BY DEF HandshakeFrame, LoopInv, Loop, exampleClientVars, clientVars
<1>3. LinkOK(c2s, ToServerMessages) /\ c2s.decoded \in Nat
  BY LinkFields DEF LoopInv, Types
<1>4. /\ LinkOK(c2s', ToServerMessages) /\ c2s'.sent = c2s.sent
      /\ f.cmd # "malformed" => c2s'.decoded = c2s.decoded + 1
      /\ f = c2s.sent[c2s.decoded + 1]
  BY <1>1, <1>3, DecodeEffect, FillEffect
<1>5. /\ server' \in {"replying", "rejected"}
      /\ server' = "replying" => f.cmd = "CONNECT"
  BY <1>1 DEF HandshakeConnect
<1>6. Types'
  BY <1>2, <1>4 DEF LoopInv, Types
<1>7. server' = "replying" =>
        \E j \in 1..(c2s'.decoded - Len(received')) : c2s'.sent[j].cmd = "CONNECT"
  <2>1. Len(received') = 0
    BY <1>2
  <2>2. server' = "replying" => c2s'.decoded = c2s.decoded + 1
    BY <1>4, <1>5
  <2> QED BY <1>2, <1>3, <1>4, <1>5, <2>1, <2>2
<1>8. Loop'
  BY <1>2, <1>5, <1>7 DEF Loop
<1> QED BY <1>6, <1>8 DEF LoopInv

\* Steps of the server that hear nothing.
LEMMA ServerSideLoopInv ==
  ASSUME LoopInv, UNCHANGED <<c2s, received>>, UNCHANGED exampleClientVars,
         LinkOK(s2c', ToClientMessages),
         \/ answer' = answer
         \/ server = "ready" /\ answer \in {"PING", "PONG"} /\ answer' = "nothing",
         \/ server' = server
         \/ server' = "gone"
         \/ server = "waiting" /\ server' = "rejected"
         \/ server \in {"replying", "replied"} /\ server' \in {"replied", "ready", "rejected"}
  PROVE  LoopInv'
<1>1. responses' = responses
  BY DEF exampleClientVars, clientVars
<1>2. Types'
  BY <1>1 DEF LoopInv, Types
<1>3. Loop'
  BY DEF LoopInv, Loop
<1> QED BY <1>2, <1>3 DEF LoopInv

\* One more frame or side-channel message is heard, and answered in its turn.
LEMMA LoopReadLoopInv ==
  ASSUME LoopInv, LoopRead, UNCHANGED exampleClientVars
  PROVE  LoopInv'
<1> DEFINE m == Front(c2s)
<1>1. PICK got \in 1..Len(c2s.sent) :
        /\ Readable(c2s, got)
        /\ IF m.cmd = "malformed"
           THEN c2s' = Fill(c2s, got) /\ UNCHANGED received
           ELSE c2s' = Decode(c2s, got) /\ received' = Append(received, m)
  BY DEF LoopRead, ReadData
<1>2. /\ server = "ready" /\ answer = "nothing" /\ answer' = Reaction(m)
      /\ UNCHANGED <<s2c, server, responses>>
  BY DEF LoopRead, ReadData, exampleClientVars, clientVars
<1>3. LinkOK(c2s, ToServerMessages)
  BY DEF LoopInv, Types
<1>4. /\ c2s.decoded \in Nat
      /\ received \in Seq(ToServerMessages) /\ Len(received) \in Nat
  BY <1>3, LinkFields DEF LoopInv, Types
<1>5. /\ LinkOK(c2s', ToServerMessages) /\ c2s'.sent = c2s.sent /\ m \in ToServerMessages
      /\ m.cmd = "malformed" => c2s'.decoded = c2s.decoded
      /\ m.cmd # "malformed" => c2s'.decoded = c2s.decoded + 1
  BY <1>1, <1>3, DecodeEffect, FillEffect
<1>6. PICK j \in 1..(c2s.decoded - Len(received)) : c2s.sent[j].cmd = "CONNECT"
  BY <1>2 DEF LoopInv, Loop
<1>7. \A i \in 1..Len(received) : received[i].cmd # "DISCONNECT"
  BY <1>2 DEF LoopInv, Loop
<1>8. /\ answer' \in {"nothing", "PING", "PONG", "CLOSE", "leave"}
      /\ m.cmd = "DISCONNECT" => answer' = "CLOSE"
  BY <1>2 DEF Reaction
<1>9. CASE m.cmd = "malformed"
  <2>1. UNCHANGED <<received, server>> /\ c2s'.decoded = c2s.decoded
    BY <1>1, <1>2, <1>5, <1>9
  <2>2. Types'
    BY <1>2, <1>5, <1>8, <2>1 DEF LoopInv, Types
  <2>3. Loop'
    BY <1>2, <1>5, <1>6, <1>7, <2>1 DEF Loop
  <2> QED BY <2>2, <2>3 DEF LoopInv
<1>10. CASE m.cmd # "malformed"
  <2>1. /\ received' = Append(received, m) /\ c2s'.decoded = c2s.decoded + 1
        /\ received' \in Seq(ToServerMessages)
        /\ Len(received') = Len(received) + 1
        /\ received'[Len(received) + 1] = m
        /\ \A i \in 1..Len(received) : received'[i] = received[i]
    <3>1. received' = Append(received, m) /\ c2s'.decoded = c2s.decoded + 1
      BY <1>1, <1>5, <1>10
    <3> HIDE DEF m
    <3>2. /\ Append(received, m) \in Seq(ToServerMessages)
          /\ Len(Append(received, m)) = Len(received) + 1
          /\ Append(received, m)[Len(received) + 1] = m
          /\ \A i \in 1..Len(received) : Append(received, m)[i] = received[i]
      BY <1>4, <1>5, AppendProperties
    <3> QED BY <3>1, <3>2
  <2>2. c2s'.decoded - Len(received') = c2s.decoded - Len(received)
    BY <1>4, <2>1
  <2>3. \A i \in 1..Len(received') : i \in 1..Len(received) \/ i = Len(received) + 1
    BY <1>4, <2>1
  <2>4. Types'
    BY <1>2, <1>5, <1>8, <2>1 DEF LoopInv, Types
  <2>5. /\ \E k \in 1..(c2s'.decoded - Len(received')) : c2s'.sent[k].cmd = "CONNECT"
        /\ \A i \in 1..Len(received') :
              received'[i].cmd = "DISCONNECT" => i = Len(received') /\ answer' = "CLOSE"
    BY <1>5, <1>6, <1>7, <1>8, <2>1, <2>2, <2>3
  <2>6. Loop'
    BY <1>2, <2>5 DEF Loop
  <2> QED BY <2>4, <2>6 DEF LoopInv
<1> QED BY <1>9, <1>10

\* The steps of the server's task.
LEMMA ServerLoopInv ==
  ASSUME LoopInv, ExampleServerNext, UNCHANGED exampleClientVars
  PROVE  LoopInv'
<1>1. LinkOK(s2c, ToClientMessages)
  BY DEF LoopInv, Types
<1>2. LinkOK(Shut(s2c), ToClientMessages)
  BY <1>1, ShutEffect
<1>3. ASSUME NEW m \in ToClientMessages
      PROVE  LinkOK(Put(s2c, m), ToClientMessages)
             /\ LinkOK(Shut(Put(s2c, m)), ToClientMessages)
  BY <1>1, PutEffect, ShutEffect
<1>4. CASE WaitOrReturn
  <2>1. answer' = answer
    BY <1>4 DEF WaitOrReturn
  <2>2. CASE HandshakeFrame
    BY <2>1, <2>2, HandshakeLoopInv
  <2>3. CASE HandshakeClosed \/ WriteConnectedOk \/ WriteConnectedErr
    BY <1>1, <2>1, <2>3, ServerSideLoopInv
       DEF HandshakeClosed, WriteConnectedOk, WriteConnectedErr
  <2>4. CASE WriteConnected
    <3>1. /\ server = "replying" /\ server' = "replied" /\ UNCHANGED <<c2s, received>>
          /\ s2c' = Put(s2c, Connected)
      BY <2>4 DEF WriteConnected
    <3>2. Connected \in ToClientMessages
      BY DEF Connected, ToClientMessages
    <3> QED BY <1>3, <2>1, <3>1, <3>2, ServerSideLoopInv
  <2>5. CASE DropServer
    BY <1>2, <2>1, <2>5, ServerSideLoopInv DEF DropServer
  <2> QED BY <1>4, <2>2, <2>3, <2>4, <2>5 DEF WaitOrReturn
<1>5. CASE LoopRead
  BY <1>5, LoopReadLoopInv
<1>6. CASE LoopAnswer
  <2>1. /\ server = "ready" /\ answer \in {"PING", "PONG"} /\ answer' = "nothing"
        /\ s2c' = Put(s2c, [cmd |-> answer])
        /\ UNCHANGED <<c2s, server, received>>
    BY <1>6 DEF LoopAnswer, serverVars
  <2>2. [cmd |-> answer] \in ToClientMessages
    BY <2>1 DEF ToClientMessages
  <2> QED BY <1>3, <2>1, <2>2, ServerSideLoopInv
<1>7. CASE LoopClose
  <2>1. /\ server' = "gone" /\ UNCHANGED <<c2s, received, answer>>
        /\ s2c' = Shut(Put(s2c, Close)) \/ s2c' = Shut(s2c)
    BY <1>7 DEF LoopClose, Close
  <2>2. Close \in ToClientMessages
    BY DEF Close, ToClientMessages
  <2> QED BY <1>2, <1>3, <2>1, <2>2, ServerSideLoopInv
<1>8. CASE LoopLeave
  BY <1>2, <1>8, ServerSideLoopInv DEF LoopLeave, DropServer
<1> QED BY <1>4, <1>5, <1>6, <1>7, <1>8 DEF ExampleServerNext

LEMMA NextLoopInv == LoopInv /\ [Next]_vars => LoopInv'
<1> SUFFICES ASSUME LoopInv, [Next]_vars PROVE LoopInv'
  OBVIOUS
<1>1. CASE ClientStep
  BY <1>1, ClientLoopInv DEF ClientStep
<1>2. CASE OtherStep
  BY <1>2, OtherLoopInv
<1>3. CASE ServerStep
  BY <1>3, ServerLoopInv DEF ServerStep
<1>4. CASE (Break /\ UNCHANGED <<exampleClientVars, exampleServerVars, peer>>)
           \/ UNCHANGED vars
  <2>1. UNCHANGED <<c2s, s2c, responses>> /\ UNCHANGED exampleServerVars
    BY <1>4 DEF Break, vars, exampleClientVars, clientVars
  <2> QED BY <2>1, ClientSideLoopInv DEF LoopInv, Types
<1> QED BY <1>1, <1>2, <1>3, <1>4 DEF Next

\* Whatever a client sends, and for any number of messages: nothing that comes
\* in front of its CONNECT or behind its DISCONNECT reaches the server's loop.
THEOREM LoopHears == Spec => []LoopHearsTheSession
<1>1. LoopInv => LoopHearsTheSession
  <2> SUFFICES ASSUME LoopInv, NEW i \in 1..Len(received)
               PROVE  /\ received[i].cmd = "DISCONNECT" => i = Len(received)
                      /\ \E j \in 1..(c2s.decoded - Len(received)) :
                            c2s.sent[j].cmd = "CONNECT"
    BY DEF LoopHearsTheSession
  <2>1. received # << >>
    OBVIOUS
  <2> QED BY <2>1 DEF LoopInv, Loop
<1> QED BY <1>1, InitLoopInv, NextLoopInv, PTL DEF Spec

-----------------------------------------------------------------------------
(***************************************************************************)
(* The answers of the server, for any client.                              *)
(***************************************************************************)

\* Asked goes message by message.
LEMMA AskedAppend ==
  ASSUME NEW Messages
  PROVE  /\ Asked(<< >>) = << >>
         /\ \A s \in Seq(Messages) : Asked(s) \in Seq(Messages)
         /\ \A s \in Seq(Messages), m \in Messages :
               Asked(Append(s, m)) =
                   IF m.cmd \in DOMAIN Answers THEN Append(Asked(s), m) ELSE Asked(s)
<1> DEFINE V  == Seq(Messages)
           op == [p \in V \X Messages |->
                    IF p[2].cmd \in DOMAIN Answers THEN Append(p[1], p[2]) ELSE p[1]]
           value == [s \in V |-> Asked(s)]
<1>1. ASSUME NEW v \in V, NEW m \in Messages
      PROVE  /\ (IF m.cmd \in DOMAIN Answers THEN Append(v, m) ELSE v) \in V
             /\ op[<<v, m>>] = IF m.cmd \in DOMAIN Answers THEN Append(v, m) ELSE v
  <2>1. (IF m.cmd \in DOMAIN Answers THEN Append(v, m) ELSE v) \in V
    OBVIOUS
  <2> QED BY <2>1
<1>2. op \in [V \X Messages -> V]
  BY <1>1
<1>3. << >> \in V
  OBVIOUS
<1> HIDE DEF op
<1>4. ASSUME NEW t \in V
      PROVE  \E u : Follows(u, t, << >>, op, V) /\ value[t] = u[Len(t)]
  <2> DEFINE Upto(u) ==
        u = [i \in 0..Len(t) |->
               IF i = 0 THEN << >>
               ELSE IF t[i].cmd \in DOMAIN Answers THEN Append(u[i - 1], t[i])
               ELSE u[i - 1]]
  <2>1. PICK w \in [0..Len(t) -> V] : Folds(w, t, << >>, op)
    BY <1>2, <1>3, FoldExists
  <2>2. \A i \in 1..Len(t) : i - 1 \in 0..Len(t) /\ t[i] \in Messages
    OBVIOUS
  <2>3. ASSUME NEW i \in 0..Len(t)
        PROVE  w[i] = IF i = 0 THEN << >>
                      ELSE IF t[i].cmd \in DOMAIN Answers THEN Append(w[i - 1], t[i])
                      ELSE w[i - 1]
    <3>1. w[i] = IF i = 0 THEN << >> ELSE op[<<w[i - 1], t[i]>>]
      BY <2>1 DEF Folds
    <3>2. ASSUME i # 0
          PROVE  op[<<w[i - 1], t[i]>>] =
                   IF t[i].cmd \in DOMAIN Answers THEN Append(w[i - 1], t[i]) ELSE w[i - 1]
      <4>1. i \in 1..Len(t)
        BY <3>2
      <4>2. w[i - 1] \in V /\ t[i] \in Messages
        BY <2>2, <4>1
      <4> QED BY <1>1, <4>2
    <3> QED BY <3>1, <3>2
  <2>4. Upto(w)
    BY <2>3
  <2> DEFINE u == CHOOSE u : Upto(u)
  <2>5. Upto(u)
    BY <2>4
  <2>6. Asked(t) = u[Len(t)]
    BY DEF Asked
  <2> HIDE DEF u
  <2>7. \A i \in 0..Len(t) : u[i] = IF i = 0 THEN << >>
                                    ELSE IF t[i].cmd \in DOMAIN Answers THEN Append(u[i - 1], t[i])
                                    ELSE u[i - 1]
    BY <2>5
  <2>8. Follows(u, t, << >>, op, V)
    <3> SUFFICES ASSUME NEW i \in 0..Len(t)
                 PROVE  IF i = 0 THEN u[i] = << >>
                        ELSE u[i - 1] \in V => u[i] = op[<<u[i - 1], t[i]>>]
      BY DEF Follows
    <3>1. i = 0 \/ i \in 1..Len(t)
      OBVIOUS
    <3>2. ASSUME i # 0, u[i - 1] \in V PROVE u[i] = op[<<u[i - 1], t[i]>>]
      <4>1. t[i] \in Messages
        BY <2>2, <3>1, <3>2
      <4>2. op[<<u[i - 1], t[i]>>] =
              IF t[i].cmd \in DOMAIN Answers THEN Append(u[i - 1], t[i]) ELSE u[i - 1]
        BY <1>1, <3>2, <4>1
      <4> QED BY <2>7, <3>2, <4>2
    <3> QED BY <2>7, <3>2
  <2> QED BY <2>6, <2>8
<1> HIDE DEF value, V
<1>5. /\ value[<< >>] = << >>
      /\ \A s \in Seq(Messages) : value[s] \in V
      /\ \A s \in Seq(Messages), m \in Messages : value[Append(s, m)] = op[<<value[s], m>>]
  <2>1. \A s \in Seq(Messages) : \E u : Follows(u, s, << >>, op, V) /\ value[s] = u[Len(s)]
    BY <1>4 DEF V
  <2>2. IsFold(value, Messages, << >>, op, V)
    BY <1>2, <1>3, <2>1 DEF IsFold
  <2> QED BY <2>2, FoldAppend
<1>6. \A s \in Seq(Messages) : value[s] = Asked(s)
  BY DEF value, V
<1>7. ASSUME NEW s \in Seq(Messages), NEW m \in Messages
      PROVE  Asked(Append(s, m)) =
               IF m.cmd \in DOMAIN Answers THEN Append(Asked(s), m) ELSE Asked(s)
  <2>1. Append(s, m) \in Seq(Messages)
    OBVIOUS
  <2>2. value[Append(s, m)] = op[<<value[s], m>>] /\ value[s] \in V
    BY <1>5
  <2> QED BY <1>1, <1>6, <2>1, <2>2
<1>8. << >> \in Seq(Messages)
  OBVIOUS
<1> QED BY <1>5, <1>6, <1>7, <1>8 DEF V

LEMMA AskedOneMore ==
  ASSUME NEW Messages, NEW s \in Seq(Messages), NEW m \in Messages
  PROVE  /\ Asked(s) \in Seq(Messages)
         /\ Asked(Append(s, m)) =
              IF m.cmd \in DOMAIN Answers THEN Append(Asked(s), m) ELSE Asked(s)
BY AskedAppend

\* The server has answered what it heard, but for what it is about to answer.
Answered ==
    LET asked == Asked(received)
        n     == Len(s2c.sent)
    IN  /\ server \in {"waiting", "replying", "replied", "ready", "rejected", "gone"}
        /\ n <= Len(asked) + 1
        /\ \A i \in 1..n :
              s2c.sent[i].cmd = IF i = 1 THEN "CONNECTED" ELSE Answers[asked[i - 1].cmd]
        /\ server \in {"waiting", "replying"} => n = 0
        /\ server \in {"replied", "ready"} => n >= 1
        /\ server = "ready" /\ answer \in {"nothing", "leave"} => n = Len(asked) + 1
        /\ server = "ready" /\ answer \in {"PING", "PONG", "CLOSE"} =>
              n = Len(asked) /\ Answers[asked[n].cmd] = answer

LEMMA InitAnswered == Init => Answered
<1> SUFFICES ASSUME Init PROVE Answered
  OBVIOUS
<1>1. s2c = NewLink /\ server = "waiting" /\ received = << >>
  BY DEF Init, ConnectionInit, ExampleServerInit, ServerInit
<1>2. Asked(received) = << >>
  BY <1>1, AskedAppend
<1> QED BY <1>1, <1>2 DEF Answered, NewLink

\* Steps of the server that neither hear nor say anything.
LEMMA SilentAnswered ==
  ASSUME LoopInv, Answered, s2c'.sent = s2c.sent, received' = received,
         \/ UNCHANGED <<server, answer>>
         \/ server' \in {"rejected", "gone"}
         \/ server = "waiting" /\ server' = "replying"
         \/ server = "replied" /\ server' = "ready" /\ answer' = answer
  PROVE  Answered'
<1>1. Asked(received') = Asked(received)
  OBVIOUS
<1>2. server = "replied" => answer = "nothing" /\ Len(s2c.sent) = Len(Asked(received)) + 1
  <2>1. server = "replied" => answer = "nothing" /\ received = << >>
    BY DEF LoopInv, Loop
  <2>2. Asked(<< >>) = << >>
    BY AskedAppend
  <2>3. Len(s2c.sent) \in Nat
    BY LinkFields DEF LoopInv, Types
  <2> QED BY <2>1, <2>2, <2>3 DEF Answered
<1> QED BY <1>1, <1>2 DEF Answered

\* The client writes nothing to itself.
LEMMA ClientKeepsSent ==
  ASSUME LoopInv, ExampleClientNext
  PROVE  s2c'.sent = s2c.sent
<1>1. s2c \in [sent : Seq(ToClientMessages), arrived : Nat, decoded : Nat, closed : BOOLEAN]
  BY DEF LoopInv, Types, LinkOK
<1>2. \A got : Decode(s2c, got).sent = s2c.sent
  BY <1>1 DEF Decode
<1>3. CASE ConnectOrPanic
  BY <1>2, <1>3 DEF ConnectOrPanic, WriteConnect, AwaitConnected, AwaitConnectedClosed,
                    GiveUpConnect
<1>4. CASE SendSubscribe \/ SendPing \/ SendDisconnect
  BY <1>4 DEF SendSubscribe, SendPing, SendDisconnect, Send
<1>5. CASE SendPanics \/ ListenPanics \/ AwaitClose
  BY <1>5 DEF SendPanics, ListenPanics, AwaitClose, Exit, DropClient
<1>6. CASE Listen
  BY <1>2, <1>6 DEF Listen, Take
<1> QED BY <1>3, <1>4, <1>5, <1>6 DEF ExampleClientNext

\* A message more is heard.
LEMMA LoopReadAnswered ==
  ASSUME LoopInv, Answered, LoopRead
  PROVE  Answered'
<1> DEFINE m     == Front(c2s)
           asked == Asked(received)
           n     == Len(s2c.sent)
<1>1. /\ server = "ready" /\ answer = "nothing" /\ answer' = Reaction(m)
      /\ UNCHANGED <<s2c, server>>
      /\ IF m.cmd = "malformed" THEN received' = received ELSE received' = Append(received, m)
      /\ \E got \in 1..Len(c2s.sent) : Readable(c2s, got)
  BY DEF LoopRead, ReadData
<1>2. /\ received \in Seq(ToServerMessages) /\ m \in ToServerMessages /\ n \in Nat
  <2>1. LinkOK(c2s, ToServerMessages) /\ LinkOK(s2c, ToClientMessages)
    BY DEF LoopInv, Types
  <2> QED BY <1>1, <2>1, DecodeEffect, LinkFields DEF LoopInv, Types
<1>3. /\ asked \in Seq(ToServerMessages) /\ n = Len(asked) + 1
      /\ \A i \in 1..n :
            s2c.sent[i].cmd = IF i = 1 THEN "CONNECTED" ELSE Answers[asked[i - 1].cmd]
  BY <1>1, <1>2, AskedOneMore DEF Answered
<1>4. /\ m.cmd \in DOMAIN Answers => answer' = Answers[m.cmd] /\ answer' \in {"PING", "PONG", "CLOSE"}
      /\ m.cmd \notin DOMAIN Answers => answer' \in {"nothing", "leave"}
      /\ m.cmd = "malformed" => answer' = "leave"
  BY <1>1 DEF Answers, Reaction
<1>5. CASE m.cmd \notin DOMAIN Answers
  <2>1. Asked(received') = asked
    BY <1>1, <1>2, <1>5, AskedOneMore
  <2> HIDE DEF asked
  <2> QED BY <1>1, <1>3, <1>4, <1>5, <2>1 DEF Answered
<1>6. CASE m.cmd \in DOMAIN Answers
  <2>1. m.cmd # "malformed"
    BY <1>6 DEF Answers
  <2>2. Asked(received') = Append(asked, m)
    BY <1>1, <1>2, <1>6, <2>1, AskedOneMore
  <2> HIDE DEF asked, m
  <2>3. /\ Len(Append(asked, m)) = n
        /\ Append(asked, m)[n] = m
        /\ \A i \in 1..n : i # 1 => Append(asked, m)[i - 1] = asked[i - 1]
    BY <1>2, <1>3
  <2>4. \A i \in 1..n : s2c.sent[i].cmd =
            IF i = 1 THEN "CONNECTED" ELSE Answers[Append(asked, m)[i - 1].cmd]
    BY <1>3, <2>3
  <2> QED BY <1>1, <1>2, <1>4, <1>6, <2>2, <2>3, <2>4 DEF Answered
<1> QED BY <1>5, <1>6

\* What was asked is answered.
LEMMA AnswerAnswered ==
  ASSUME LoopInv, Answered, server = "ready", answer \in {"PING", "PONG", "CLOSE"},
         s2c'.sent = Append(s2c.sent, [cmd |-> answer]), received' = received,
         \/ server' = "ready" /\ answer' = "nothing"
         \/ server' = "gone"
  PROVE  Answered'
<1> DEFINE asked == Asked(received)
           n     == Len(s2c.sent)
           a     == [cmd |-> answer]
<1>1. /\ received \in Seq(ToServerMessages) /\ s2c.sent \in Seq(ToClientMessages)
      /\ a \in ToClientMessages
  BY LinkFields DEF LoopInv, Types, ToClientMessages
<1>2. asked \in Seq(ToServerMessages)
  BY <1>1, AskedAppend
<1>3. /\ n = Len(asked) /\ n >= 1 /\ Answers[asked[n].cmd] = answer
      /\ \A i \in 1..n :
            s2c.sent[i].cmd = IF i = 1 THEN "CONNECTED" ELSE Answers[asked[i - 1].cmd]
  BY DEF Answered
<1>4. a.cmd = answer
  OBVIOUS
<1> HIDE DEF a, asked
<1>5. /\ s2c'.sent = Append(s2c.sent, a) /\ Len(s2c'.sent) = n + 1
      /\ s2c'.sent[n + 1] = a
      /\ \A i \in 1..n : s2c'.sent[i] = s2c.sent[i]
  <2>1. s2c'.sent = Append(s2c.sent, a)
    BY DEF a
  <2> QED BY <1>1, <2>1
<1>6. \A i \in 1..(n + 1) :
        s2c'.sent[i].cmd = IF i = 1 THEN "CONNECTED" ELSE Answers[asked[i - 1].cmd]
  <2> SUFFICES ASSUME NEW i \in 1..(n + 1)
               PROVE  s2c'.sent[i].cmd = IF i = 1 THEN "CONNECTED" ELSE Answers[asked[i - 1].cmd]
    OBVIOUS
  <2>1. n \in Nat
    BY <1>1
  <2>2. CASE i \in 1..n
    BY <1>3, <1>5, <2>2
  <2>3. CASE i = n + 1
    <3>1. i # 1 /\ i - 1 = n
      BY <1>3, <2>1, <2>3
    <3> QED BY <1>3, <1>4, <1>5, <2>3, <3>1
  <2> QED BY <2>1, <2>2, <2>3
<1>7. Asked(received') = asked
  BY DEF asked
<1> QED BY <1>2, <1>3, <1>5, <1>6, <1>7 DEF Answered

LEMMA ServerAnswered ==
  ASSUME LoopInv, Answered, ExampleServerNext
  PROVE  Answered'
<1>1. s2c \in [sent : Seq(ToClientMessages), arrived : Nat, decoded : Nat, closed : BOOLEAN]
  BY DEF LoopInv, Types, LinkOK
<1>2. /\ Shut(s2c).sent = s2c.sent
      /\ \A m : Put(s2c, m).sent = Append(s2c.sent, m)
      /\ \A m : Shut(Put(s2c, m)).sent = Append(s2c.sent, m)
  BY <1>1 DEF Shut, Put
<1>3. CASE WaitOrReturn
  <2>1. answer' = answer
    BY <1>3 DEF WaitOrReturn
  <2>2. CASE HandshakeFrame
    BY <2>1, <2>2, SilentAnswered DEF HandshakeFrame, HandshakeConnect
  <2>3. CASE HandshakeClosed \/ WriteConnectedOk \/ WriteConnectedErr
    BY <2>1, <2>3, SilentAnswered DEF HandshakeClosed, WriteConnectedOk, WriteConnectedErr
  <2>4. CASE WriteConnected
    <3>1. /\ server = "replying" /\ server' = "replied" /\ received' = received
          /\ s2c'.sent = Append(s2c.sent, Connected)
      BY <1>2, <2>4 DEF WriteConnected
    <3>2. Len(s2c.sent) = 0
      BY <3>1 DEF Answered
    <3>3. Len(s2c'.sent) = 1 /\ s2c'.sent[1].cmd = "CONNECTED"
      BY <1>1, <3>1, <3>2 DEF Connected
    <3>4. Asked(received') = Asked(received) /\ Len(Asked(received)) \in Nat
      BY <3>1, AskedAppend DEF LoopInv, Types
    <3> QED BY <3>1, <3>3, <3>4 DEF Answered
  <2>5. CASE DropServer
    BY <1>2, <2>5, SilentAnswered DEF DropServer
  <2> QED BY <1>3, <2>2, <2>3, <2>4, <2>5 DEF WaitOrReturn
<1>4. CASE LoopRead
  BY <1>4, LoopReadAnswered
<1>5. CASE LoopAnswer
  <2>1. /\ server = "ready" /\ answer \in {"PING", "PONG"} /\ answer' = "nothing"
        /\ server' = server /\ received' = received
        /\ s2c' = Put(s2c, [cmd |-> answer])
    BY <1>5 DEF LoopAnswer, serverVars
  <2> QED BY <1>2, <2>1, AnswerAnswered
<1>6. CASE LoopClose
  <2>1. /\ server = "ready" /\ answer = "CLOSE" /\ server' = "gone" /\ received' = received
        /\ s2c' = Shut(Put(s2c, [cmd |-> answer])) \/ s2c' = Shut(s2c)
    BY <1>6 DEF LoopClose
  <2>2. CASE s2c' = Shut(s2c)
    BY <1>2, <2>1, <2>2, SilentAnswered
  <2>3. CASE s2c' = Shut(Put(s2c, [cmd |-> answer]))
    BY <1>2, <2>1, <2>3, AnswerAnswered
  <2> QED BY <2>1, <2>2, <2>3
<1>7. CASE LoopLeave
  BY <1>2, <1>7, SilentAnswered DEF LoopLeave, DropServer
<1> QED BY <1>3, <1>4, <1>5, <1>6, <1>7 DEF ExampleServerNext

LEMMA NextAnswered == LoopInv /\ Answered /\ [Next]_vars => Answered'
<1> SUFFICES ASSUME LoopInv, Answered, [Next]_vars PROVE Answered'
  OBVIOUS
<1>1. ASSUME s2c'.sent = s2c.sent, UNCHANGED exampleServerVars PROVE Answered'
  BY <1>1, SilentAnswered DEF exampleServerVars, serverVars
<1>2. CASE ClientStep
  BY <1>1, <1>2, ClientKeepsSent DEF ClientStep
<1>3. CASE OtherStep
  BY <1>1, <1>3 DEF OtherStep, OtherPuts, OtherDrops
<1>4. CASE ServerStep
  BY <1>4, ServerAnswered DEF ServerStep
<1>5. CASE (Break /\ UNCHANGED <<exampleClientVars, exampleServerVars, peer>>)
           \/ UNCHANGED vars
  BY <1>1, <1>5 DEF Break, vars
<1> QED BY <1>2, <1>3, <1>4, <1>5 DEF Next

\* Whatever a client sends, and for any number of messages: what the server
\* sends past its handle answers what it hears through it, in order, each
\* message once.
THEOREM AlwaysInStep == Spec => []AnswersInStep
<1>1. Answered => AnswersInStep
  BY DEF Answered, AnswersInStep
<1> QED BY <1>1, InitLoopInv, NextLoopInv, InitAnswered, NextAnswered, PTL DEF Spec

-----------------------------------------------------------------------------
(***************************************************************************)
(* The conversation with the example client.                               *)
(***************************************************************************)

\* The messages the example client writes, as far as it has come.
Wrote ==
    LET written == Len(c2s.sent) IN
    /\ written <= 4
    /\ written >= 1 => c2s.sent[1] \in Connects
    /\ written >= 2 => c2s.sent[2] = Subscribe
    /\ written >= 3 => c2s.sent[3] = Ping
    /\ written >= 4 => c2s.sent[4] = Disconnect

\* Where its program is when it has written and read so many messages.
At(written, read) ==
    \/ client = "start"      /\ todo = "subscribe"   /\ written = 0 /\ read = 0
    \/ client = "connecting" /\ todo = "subscribe"   /\ written = 1 /\ read = 0
    \/ client = "ready"      /\ todo = "subscribe"   /\ written = 1 /\ read = 1
    \/ client = "ready"      /\ todo = "ping"        /\ written = 2 /\ read = 1
    \/ client = "ready"      /\ todo = "listen"      /\ written = 3 /\ read = 1
    \/ client = "ready"      /\ todo = "disconnect"  /\ written = 3 /\ read = 2
    \/ client = "ready"      /\ todo = "await_close" /\ written = 4 /\ read = 2
    \/ client \in {"failed", "gone"}

\* What it has read, and what its last read made of it.
Read(read) ==
    /\ client \notin {"failed", "gone"} =>
        /\ responses = IF read = 2 THEN <<Pong>> ELSE << >>
        /\ ~ c2s.closed
    /\ s2c.arrived = read
    /\ outcome # "none" => client = "gone"
    /\ outcome = "closed" => Len(s2c.sent) >= 3 /\ responses = <<Pong>>

ClientSide == Wrote /\ At(Len(c2s.sent), s2c.decoded) /\ Read(s2c.decoded)

\* What the server has heard of it.
ServerSide ==
    /\ received = << >> \/ Len(received) = c2s.decoded - 1
    /\ \A i \in 1..Len(received) : received[i] = c2s.sent[i + 1]
    /\ server = "waiting" => c2s.decoded = 0
    /\ server \in {"replying", "replied", "ready"} => Len(received) = c2s.decoded - 1
    /\ answer # "leave"
    /\ s2c.closed => server = "gone"

\* Where both ends are as long as the connection holds.
Unbroken ==
    /\ client # "failed" /\ todo # "panicked" /\ server # "rejected"
    /\ outcome \in {"none", "closed"}
    /\ client = "gone" => outcome = "closed"
    /\ server = "gone" => Len(s2c.sent) = 3

Exchange ==
    IF peer = "example" THEN ClientSide /\ ServerSide /\ (up => Unbroken)
                        ELSE outcome = "none"

\* What the two have said to each other, by how much the server has said.
Script ==
    LET said  == Len(s2c.sent)
        heard == Len(received)
    IN  /\ heard \in 0..3
        /\ heard >= 1 => received[1] = Subscribe /\ Len(c2s.sent) >= 2
        /\ heard >= 2 => received[2] = Ping /\ Len(c2s.sent) >= 3
        /\ heard >= 3 => received[3] = Disconnect /\ Len(c2s.sent) = 4
        /\ Asked(received) = CASE heard <= 1 -> << >>
                               [] heard = 2 -> <<Ping>>
                               [] heard = 3 -> <<Ping, Disconnect>>
        /\ said \in 0..3
        /\ said >= 1 => s2c.sent[1] = Connected
        /\ said >= 2 => s2c.sent[2] = Pong /\ heard >= 2
        /\ said >= 3 => s2c.sent[3] = Close /\ heard = 3

\* The server is asked nothing but the Ping and the DISCONNECT.
LEMMA ScriptedQuestions ==
  ASSUME LoopInv, ClientSide, ServerSide
  PROVE  LET heard == Len(received) IN
         /\ heard \in 0..3
         /\ heard >= 1 => received[1] = Subscribe /\ Len(c2s.sent) >= 2
         /\ heard >= 2 => received[2] = Ping /\ Len(c2s.sent) >= 3
         /\ heard >= 3 => received[3] = Disconnect /\ Len(c2s.sent) = 4
         /\ Asked(received) = CASE heard <= 1 -> << >>
                                [] heard = 2 -> <<Ping>>
                                [] heard = 3 -> <<Ping, Disconnect>>
<1> DEFINE heard == Len(received)
           M     == ToServerMessages
<1>1. /\ received \in Seq(M) /\ heard \in Nat
      /\ c2s.decoded \in Nat /\ c2s.decoded <= Len(c2s.sent) /\ Len(c2s.sent) \in Nat
  BY LinkFields DEF LoopInv, Types
<1>2. /\ heard = 0 \/ heard = c2s.decoded - 1
      /\ \A i \in 1..heard : received[i] = c2s.sent[i + 1]
      /\ Len(c2s.sent) <= 4
      /\ Len(c2s.sent) >= 2 => c2s.sent[2] = Subscribe
      /\ Len(c2s.sent) >= 3 => c2s.sent[3] = Ping
      /\ Len(c2s.sent) >= 4 => c2s.sent[4] = Disconnect
  BY DEF ServerSide, ClientSide, Wrote
<1>3. heard \in 0..3 /\ (heard = 0 \/ heard + 1 <= Len(c2s.sent))
  <2>1. /\ heard \in Nat /\ c2s.decoded \in Nat /\ Len(c2s.sent) \in Nat
        /\ c2s.decoded <= Len(c2s.sent) /\ Len(c2s.sent) <= 4
        /\ heard = 0 \/ heard = c2s.decoded - 1
    BY <1>1, <1>2
  <2> HIDE DEF heard
  <2> QED BY <2>1
<1>4. /\ heard >= 1 => received[1] = Subscribe /\ Len(c2s.sent) >= 2
      /\ heard >= 2 => received[2] = Ping /\ Len(c2s.sent) >= 3
      /\ heard >= 3 => received[3] = Disconnect /\ Len(c2s.sent) = 4
  <2>1. Len(c2s.sent) \in Nat /\ \A i \in 1..heard : received[i] = c2s.sent[i + 1]
    BY <1>1, <1>2
  <2> HIDE DEF heard
  <2>2. /\ heard >= 1 => received[1] = c2s.sent[2]
        /\ heard >= 2 => received[2] = c2s.sent[3]
        /\ heard >= 3 => received[3] = c2s.sent[4]
    BY <1>3, <2>1
  <2>3. /\ heard >= 1 => Len(c2s.sent) >= 2
        /\ heard >= 2 => Len(c2s.sent) >= 3
        /\ heard >= 3 => Len(c2s.sent) >= 4
    BY <1>3, <2>1
  <2>4. /\ Len(c2s.sent) <= 4
        /\ Len(c2s.sent) >= 2 => c2s.sent[2] = Subscribe
        /\ Len(c2s.sent) >= 3 => c2s.sent[3] = Ping
        /\ Len(c2s.sent) >= 4 => c2s.sent[4] = Disconnect
    BY <1>2
  <2>5. heard >= 1 => c2s.sent[2] = Subscribe
    BY <2>3, <2>4
  <2>6. heard >= 2 => c2s.sent[3] = Ping
    BY <2>3, <2>4
  <2>7. heard >= 3 => c2s.sent[4] = Disconnect
    BY <2>3, <2>4
  <2>8. heard >= 3 => Len(c2s.sent) = 4
    <3> DEFINE written == Len(c2s.sent)
    <3>1. written \in Nat /\ heard \in 0..3
      BY <1>3, <2>1
    <3>2. written <= 4 /\ (heard >= 3 => written >= 4)
      BY <2>3, <2>4
    <3> HIDE DEF written
    <3>3. heard >= 3 => written = 4
      BY <3>1, <3>2
    <3> QED BY <3>3 DEF written
  <2> QED BY <2>2, <2>3, <2>5, <2>6, <2>7, <2>8
<1>5. /\ Subscribe \in M /\ Ping \in M /\ Disconnect \in M
      /\ Subscribe.cmd \notin DOMAIN Answers
      /\ Ping.cmd \in DOMAIN Answers /\ Disconnect.cmd \in DOMAIN Answers
  BY DEF ToServerMessages, Commands, Subscribe, Ping, Disconnect, Answers
<1> DEFINE s1 == Append(<< >>, Subscribe)
           s2 == Append(s1, Ping)
           s3 == Append(s2, Disconnect)
<1>6. << >> \in Seq(M) /\ s1 \in Seq(M) /\ s2 \in Seq(M) /\ s3 \in Seq(M)
  BY <1>5
<1>7. /\ Asked(<< >>) = << >>
      /\ Asked(s1) = << >>
      /\ Asked(s2) = <<Ping>>
      /\ Asked(s3) = <<Ping, Disconnect>>
  <2>1. Asked(<< >>) = << >>
    BY AskedAppend
  <2>2. Asked(s1) = << >>
    BY <1>5, <1>6, <2>1, AskedOneMore
  <2>3. Asked(s2) = Append(<< >>, Ping)
    <3> HIDE DEF s1
    <3> QED BY <1>5, <1>6, <2>2, AskedOneMore
  <2>4. Asked(s3) = Append(<<Ping>>, Disconnect)
    <3>1. Append(<< >>, Ping) = <<Ping>>
      OBVIOUS
    <3> HIDE DEF s2
    <3> QED BY <1>5, <1>6, <2>3, <3>1, AskedOneMore
  <2> QED BY <2>1, <2>2, <2>3, <2>4
<1>8. /\ heard = 0 => received = << >>
      /\ heard = 1 => received = s1
      /\ heard = 2 => received = s2
      /\ heard = 3 => received = s3
  BY <1>1, <1>4
<1>9. heard = 0 \/ heard = 1 \/ heard = 2 \/ heard = 3
  BY <1>3
<1> QED
  <2> HIDE DEF s1, s2, s3
  <2> QED BY <1>3, <1>4, <1>7, <1>8, <1>9

\* And it answers nothing else.
LEMMA ScriptHolds ==
  ASSUME LoopInv, Answered, ClientSide, ServerSide
  PROVE  Script
<1> DEFINE said  == Len(s2c.sent)
           heard == Len(received)
           asked == Asked(received)
<1>1. /\ heard \in 0..3
      /\ heard >= 1 => received[1] = Subscribe /\ Len(c2s.sent) >= 2
      /\ heard >= 2 => received[2] = Ping /\ Len(c2s.sent) >= 3
      /\ heard >= 3 => received[3] = Disconnect /\ Len(c2s.sent) = 4
      /\ asked = CASE heard <= 1 -> << >>
                   [] heard = 2 -> <<Ping>>
                   [] heard = 3 -> <<Ping, Disconnect>>
  BY ScriptedQuestions
<1>2. s2c.sent \in Seq(ToClientMessages) /\ said \in Nat
  BY LinkFields DEF LoopInv, Types
<1>3. /\ said <= Len(asked) + 1
      /\ \A i \in 1..said :
            s2c.sent[i].cmd = IF i = 1 THEN "CONNECTED" ELSE Answers[asked[i - 1].cmd]
  BY DEF Answered
<1>4. \A c \in {"CONNECTED", "PONG", "PING", "CLOSE"}, m \in ToClientMessages :
        m.cmd = c => m = [cmd |-> c]
  BY DEF ToClientMessages
<1>5. /\ Len(asked) <= 2
      /\ Len(asked) >= 1 => heard >= 2 /\ asked[1] = Ping
      /\ Len(asked) >= 2 => heard = 3 /\ asked[2] = Disconnect
  <2>1. CASE heard <= 1
    BY <1>1, <2>1
  <2>2. CASE heard = 2
    BY <1>1, <2>2
  <2>3. CASE heard = 3
    BY <1>1, <2>3
  <2> QED BY <1>1, <2>1, <2>2, <2>3
<1> HIDE DEF asked
<1>6. Len(asked) \in Nat
  BY AskedAppend DEF asked, LoopInv, Types
<1>7. said >= 1 => s2c.sent[1] = Connected
  BY <1>2, <1>3, <1>4 DEF Connected
<1>8. said >= 2 => s2c.sent[2] = Pong /\ heard >= 2
  <2> SUFFICES ASSUME said >= 2 PROVE s2c.sent[2] = Pong /\ heard >= 2
    OBVIOUS
  <2>1. heard >= 2 /\ asked[1] = Ping
    BY <1>2, <1>3, <1>5, <1>6
  <2>2. s2c.sent[2].cmd = Answers[asked[1].cmd] /\ s2c.sent[2] \in ToClientMessages
    BY <1>2, <1>3
  <2>3. s2c.sent[2].cmd = "PONG"
    BY <2>1, <2>2 DEF Ping, Answers
  <2> QED BY <1>4, <2>1, <2>2, <2>3 DEF Pong
<1>9. said >= 3 => s2c.sent[3] = Close /\ heard = 3
  <2> SUFFICES ASSUME said >= 3 PROVE s2c.sent[3] = Close /\ heard = 3
    OBVIOUS
  <2>1. heard = 3 /\ asked[2] = Disconnect
    BY <1>2, <1>3, <1>5, <1>6
  <2>2. s2c.sent[3].cmd = Answers[asked[2].cmd] /\ s2c.sent[3] \in ToClientMessages
    BY <1>2, <1>3
  <2>3. s2c.sent[3].cmd = "CLOSE"
    BY <2>1, <2>2 DEF Disconnect, Answers
  <2> QED BY <1>4, <2>1, <2>2, <2>3 DEF Close
<1>10. said \in 0..3
  <2>1. said \in Nat /\ Len(asked) \in Nat /\ said <= Len(asked) + 1 /\ Len(asked) <= 2
    BY <1>2, <1>3, <1>5, <1>6
  <2> HIDE DEF said
  <2> QED BY <2>1
<1> QED BY <1>1, <1>7, <1>8, <1>9, <1>10 DEF Script, asked

LEMMA InitExchange == Init => Exchange
<1> SUFFICES ASSUME Init PROVE Exchange
  OBVIOUS
<1>1. /\ c2s = NewLink /\ s2c = NewLink /\ up = TRUE /\ server = "waiting"
      /\ received = << >> /\ answer = "nothing" /\ client = "start"
      /\ responses = << >> /\ todo = "subscribe" /\ outcome = "none"
  BY DEF Init, ConnectionInit, ExampleServerInit, ServerInit, ExampleClientInit, ClientInit
<1>2. ClientSide
  BY <1>1 DEF ClientSide, Wrote, At, Read, NewLink
<1>3. ServerSide
  BY <1>1 DEF ServerSide, NewLink
<1>4. Unbroken
  BY <1>1 DEF Unbroken
<1> QED BY <1>1, <1>2, <1>3, <1>4 DEF Exchange

\* What a step of the server needs to leave of the client's side.
LEMMA ServerKeepsClientSide ==
  ASSUME ClientSide, UNCHANGED exampleClientVars,
         c2s'.sent = c2s.sent, c2s'.closed = c2s.closed,
         s2c'.arrived = s2c.arrived, s2c'.decoded = s2c.decoded,
         Len(s2c.sent) \in Nat, Len(s2c'.sent) \in Nat, Len(s2c'.sent) >= Len(s2c.sent)
  PROVE  ClientSide'
<1>1. UNCHANGED <<client, responses, todo, outcome>>
  BY DEF exampleClientVars, clientVars
<1>2. Len(s2c.sent) >= 3 => Len(s2c'.sent) >= 3
  OBVIOUS
<1>3. Wrote'
  BY DEF ClientSide, Wrote
<1>4. At(Len(c2s.sent), s2c.decoded)'
  BY <1>1 DEF ClientSide, At
<1>5. Read(s2c.decoded)'
  BY <1>1, <1>2 DEF ClientSide, Read
<1> QED BY <1>3, <1>4, <1>5 DEF ClientSide

\* And a step of the client of the server's.
LEMMA ClientKeepsServerSide ==
  ASSUME LoopInv, ServerSide, UNCHANGED exampleServerVars,
         c2s'.decoded = c2s.decoded, s2c'.closed = s2c.closed,
         \A i \in 1..Len(c2s.sent) : c2s'.sent[i] = c2s.sent[i]
  PROVE  ServerSide'
<1>1. UNCHANGED <<server, received, answer>>
  BY DEF exampleServerVars, serverVars
<1>2. /\ Len(received) \in Nat /\ c2s.decoded \in Nat /\ Len(c2s.sent) \in Nat
      /\ c2s.decoded <= Len(c2s.sent)
      /\ Len(received) = 0 \/ Len(received) = c2s.decoded - 1
  <2>1. received \in Seq(ToServerMessages) /\ LinkOK(c2s, ToServerMessages)
    BY DEF LoopInv, Types
  <2>2. Len(<< >>) = 0
    OBVIOUS
  <2> QED BY <2>1, <2>2, LinkFields DEF ServerSide
<1>3. \A i \in 1..Len(received) : i + 1 \in 1..Len(c2s.sent)
  BY <1>2
<1>4. \A i \in 1..Len(received) : received'[i] = c2s'.sent[i + 1]
  BY <1>1, <1>3 DEF ServerSide
<1> QED BY <1>1, <1>4 DEF ServerSide

\* One more message on the wire.
LEMMA OneMoreWritten ==
  ASSUME LoopInv, NEW m \in ToServerMessages, c2s' = Put(c2s, m)
  PROVE  /\ c2s'.decoded = c2s.decoded /\ c2s'.closed = c2s.closed
         /\ Len(c2s.sent) \in Nat /\ Len(c2s'.sent) = Len(c2s.sent) + 1
         /\ c2s'.sent[Len(c2s.sent) + 1] = m
         /\ \A i \in 1..Len(c2s.sent) : c2s'.sent[i] = c2s.sent[i]
<1>1. LinkOK(c2s, ToServerMessages)
  BY DEF LoopInv, Types
<1>2. c2s \in [sent : Seq(ToServerMessages), arrived : Nat, decoded : Nat, closed : BOOLEAN]
  BY <1>1 DEF LinkOK
<1>3. c2s'.closed = c2s.closed
  BY <1>2 DEF Put
<1>4. Len(c2s.sent) \in Nat
  BY <1>1, LinkFields
<1>5. /\ Put(c2s, m).decoded = c2s.decoded
      /\ Len(Put(c2s, m).sent) = Len(c2s.sent) + 1
      /\ Put(c2s, m).sent[Len(c2s.sent) + 1] = m
      /\ \A i \in 1..Len(c2s.sent) : Put(c2s, m).sent[i] = c2s.sent[i]
  BY <1>1, PutEffect
<1> QED BY <1>3, <1>4, <1>5

\* It belongs to what the example client writes.
LEMMA WroteOneMore ==
  ASSUME Wrote, NEW m,
         Len(c2s.sent) \in Nat, Len(c2s'.sent) = Len(c2s.sent) + 1,
         c2s'.sent[Len(c2s.sent) + 1] = m,
         \A i \in 1..Len(c2s.sent) : c2s'.sent[i] = c2s.sent[i],
         \/ Len(c2s.sent) = 0 /\ m \in Connects
         \/ Len(c2s.sent) = 1 /\ m = Subscribe
         \/ Len(c2s.sent) = 2 /\ m = Ping
         \/ Len(c2s.sent) = 3 /\ m = Disconnect
  PROVE  Wrote'
<1> DEFINE written == Len(c2s.sent)
<1>1. /\ written \in Nat /\ Len(c2s'.sent) = written + 1
      /\ c2s'.sent[written + 1] = m
      /\ \A i \in 1..written : c2s'.sent[i] = c2s.sent[i]
  OBVIOUS
<1>2. /\ written >= 1 => c2s.sent[1] \in Connects
      /\ written >= 2 => c2s.sent[2] = Subscribe
      /\ written >= 3 => c2s.sent[3] = Ping
  BY DEF Wrote
<1>3. CASE written = 0 /\ m \in Connects
  <2>1. Len(c2s'.sent) = 1 /\ c2s'.sent[1] \in Connects
    BY <1>1, <1>3
  <2> QED BY <2>1 DEF Wrote
<1>4. CASE written = 1 /\ m = Subscribe
  <2>1. Len(c2s'.sent) = 2 /\ c2s'.sent[1] \in Connects /\ c2s'.sent[2] = Subscribe
    BY <1>1, <1>2, <1>4
  <2> QED BY <2>1 DEF Wrote
<1>5. CASE written = 2 /\ m = Ping
  <2>1. /\ Len(c2s'.sent) = 3 /\ c2s'.sent[1] \in Connects
        /\ c2s'.sent[2] = Subscribe /\ c2s'.sent[3] = Ping
    BY <1>1, <1>2, <1>5
  <2> QED BY <2>1 DEF Wrote
<1>6. CASE written = 3 /\ m = Disconnect
  <2>1. /\ Len(c2s'.sent) = 4 /\ c2s'.sent[1] \in Connects
        /\ c2s'.sent[2] = Subscribe /\ c2s'.sent[3] = Ping /\ c2s'.sent[4] = Disconnect
    BY <1>1, <1>2, <1>6
  <2> QED BY <2>1 DEF Wrote
<1> QED BY <1>3, <1>4, <1>5, <1>6

\* The client's program writes one more message.
LEMMA ClientWrites ==
  ASSUME LoopInv, ClientSide, ServerSide, UNCHANGED exampleServerVars,
         NEW m \in ToServerMessages, c2s' = Put(c2s, m), s2c' = s2c,
         UNCHANGED <<responses, outcome>>,
         \/ /\ client = "start" /\ m \in Connects
            /\ client' = "connecting" /\ todo' = todo
         \/ /\ client = "ready" /\ client' = "ready"
            /\ \/ todo = "subscribe" /\ m = Subscribe /\ todo' = "ping"
               \/ todo = "ping" /\ m = Ping /\ todo' = "listen"
               \/ todo = "disconnect" /\ m = Disconnect /\ todo' = "await_close"
  PROVE  ClientSide' /\ ServerSide' /\ todo' # "panicked"
<1>1. /\ c2s'.decoded = c2s.decoded /\ c2s'.closed = c2s.closed
      /\ Len(c2s.sent) \in Nat /\ Len(c2s'.sent) = Len(c2s.sent) + 1
      /\ c2s'.sent[Len(c2s.sent) + 1] = m
      /\ \A i \in 1..Len(c2s.sent) : c2s'.sent[i] = c2s.sent[i]
  BY OneMoreWritten
<1>2. ServerSide'
  BY <1>1, ClientKeepsServerSide
<1>3. Wrote /\ At(Len(c2s.sent), s2c.decoded) /\ Read(s2c.decoded)
  BY DEF ClientSide
<1>4. \/ Len(c2s.sent) = 0 /\ m \in Connects
      \/ Len(c2s.sent) = 1 /\ m = Subscribe
      \/ Len(c2s.sent) = 2 /\ m = Ping
      \/ Len(c2s.sent) = 3 /\ m = Disconnect
  BY <1>3 DEF At
<1>5. Wrote'
  BY <1>1, <1>3, <1>4, WroteOneMore
<1>6. At(Len(c2s.sent), s2c.decoded)' /\ todo' # "panicked"
  <2> DEFINE written == Len(c2s.sent)
             further == Len(c2s'.sent)
  <2>1. written \in Nat /\ further = written + 1
    BY <1>1
  <2>2. At(written, s2c.decoded)
    BY <1>3
  <2> HIDE DEF written, further
  <2>3. /\ \/ client' = "connecting" /\ todo' = "subscribe"   /\ further = 1 /\ s2c.decoded = 0
           \/ client' = "ready"      /\ todo' = "ping"        /\ further = 2 /\ s2c.decoded = 1
           \/ client' = "ready"      /\ todo' = "listen"      /\ further = 3 /\ s2c.decoded = 1
           \/ client' = "ready"      /\ todo' = "await_close" /\ further = 4 /\ s2c.decoded = 2
    BY <2>1, <2>2 DEF At
  <2> QED BY <2>3 DEF At, further
<1>7. Read(s2c.decoded)'
  <2>1. client' \in {"connecting", "ready"} /\ client \in {"start", "ready"}
    OBVIOUS
  <2> QED BY <1>1, <1>3, <2>1 DEF Read
<1> QED BY <1>2, <1>5, <1>6, <1>7 DEF ClientSide

\* The client's program reads one more message, and goes on.
LEMMA ClientReads ==
  ASSUME ClientSide, ServerSide, LoopInv, UNCHANGED exampleServerVars,
         c2s' = c2s, ~ c2s.closed,
         s2c'.sent = s2c.sent, s2c'.closed = s2c.closed,
         s2c'.arrived = s2c'.decoded, s2c'.decoded = s2c.decoded + 1,
         client' = "ready", outcome' = "none",
         \/ client = "connecting" /\ UNCHANGED <<todo, responses>>
         \/ /\ client = "ready" /\ todo = "listen" /\ todo' = "disconnect"
            /\ responses' = <<Pong>>
  PROVE  ClientSide' /\ ServerSide'
<1>1. ServerSide'
  BY ClientKeepsServerSide
<1>2. /\ Wrote /\ At(Len(c2s.sent), s2c.decoded) /\ Read(s2c.decoded)
      /\ s2c.decoded \in Nat
  BY LinkFields DEF ClientSide, LoopInv, Types
<1>3. Wrote'
  BY <1>2 DEF Wrote
<1>4. \/ client = "connecting" /\ s2c.decoded = 0
      \/ client = "ready" /\ s2c.decoded = 1
  BY <1>2 DEF At
<1>5. At(Len(c2s.sent), s2c.decoded)'
  <2>1. CASE client = "connecting" /\ s2c.decoded = 0
    BY <1>2, <2>1 DEF At
  <2>2. CASE client = "ready" /\ s2c.decoded = 1
    BY <1>2, <2>2 DEF At
  <2> QED BY <1>4, <2>1, <2>2
<1>6. Read(s2c.decoded)'
  BY <1>2, <1>4 DEF Read
<1> QED BY <1>1, <1>3, <1>5, <1>6 DEF ClientSide

\* The client's program ends.
LEMMA ClientEnds ==
  ASSUME ClientSide, ServerSide, LoopInv, UNCHANGED exampleServerVars,
         c2s' = Shut(c2s), s2c' = s2c, UNCHANGED responses,
         \/ client' = "failed" /\ client # "gone" /\ outcome' = outcome
         \/ /\ client = "ready" /\ client' = "gone"
            /\ outcome' = "closed" => Len(s2c.sent) >= 3 /\ responses = <<Pong>>
  PROVE  ClientSide' /\ ServerSide'
<1>1. c2s'.sent = c2s.sent /\ c2s'.decoded = c2s.decoded
  BY ShutEffect DEF LoopInv, Types
<1>2. ServerSide'
  BY <1>1, ClientKeepsServerSide
<1>3. Wrote' /\ At(Len(c2s.sent), s2c.decoded)' /\ Read(s2c.decoded)'
  BY <1>1 DEF ClientSide, Wrote, At, Read
<1> QED BY <1>2, <1>3 DEF ClientSide

\* As long as the connection holds, the server is gone only when all has been
\* said, and the client only behind that.
LEMMA GoneLast ==
  ASSUME LoopInv, Answered, ClientSide, ServerSide, Unbroken
  PROVE  /\ s2c.closed => Len(s2c.sent) = 3 /\ Len(c2s.sent) = 4
         /\ c2s.closed => Len(s2c.sent) = 3 /\ Len(received) = 3 /\ received[3] = Disconnect
<1>1. Script
  BY ScriptHolds
<1>2. s2c.closed => Len(s2c.sent) = 3
  BY DEF ServerSide, Unbroken
<1>3. c2s.closed => Len(s2c.sent) = 3
  <2> DEFINE said == Len(s2c.sent)
  <2>1. c2s.closed => said >= 3
    BY DEF ClientSide, Read, Unbroken
  <2>2. said \in 0..3
    BY <1>1 DEF Script
  <2> HIDE DEF said
  <2>3. c2s.closed => said = 3
    BY <2>1, <2>2
  <2> QED BY <2>3 DEF said
<1>4. Len(s2c.sent) = 3 => Len(received) = 3
  BY <1>1 DEF Script
<1>5. Len(received) = 3 => received[3] = Disconnect /\ Len(c2s.sent) = 4
  BY <1>1 DEF Script
<1> QED BY <1>2, <1>3, <1>4, <1>5

LEMMA ClientExchange ==
  ASSUME LoopInv, Answered, Exchange, ClientStep
  PROVE  Exchange'
<1>1. /\ peer = "example" /\ peer' = "example" /\ ExampleClientNext
      /\ UNCHANGED exampleServerVars /\ UNCHANGED <<server, received>>
  BY DEF ClientStep, exampleServerVars, serverVars
<1>2. ClientSide /\ ServerSide /\ (up => Unbroken)
  BY <1>1 DEF Exchange
<1>3. /\ Script
      /\ up => /\ s2c.closed => Len(s2c.sent) = 3 /\ Len(c2s.sent) = 4
  BY <1>2, ScriptHolds, GoneLast
<1>4. /\ LinkOK(c2s, ToServerMessages) /\ LinkOK(s2c, ToClientMessages)
      /\ s2c.sent \in Seq(ToClientMessages) /\ Len(s2c.sent) \in Nat
      /\ s2c.decoded \in Nat /\ s2c.arrived \in Nat /\ Len(c2s.sent) \in Nat
      /\ s2c \in [sent : Seq(ToClientMessages), arrived : Nat, decoded : Nat, closed : BOOLEAN]
      /\ s2c.decoded <= Len(s2c.sent)
  BY LinkFields DEF LoopInv, Types, LinkOK
<1>5. client \in {"start", "connecting", "ready"} => ~ c2s.closed /\ outcome = "none"
  BY <1>2 DEF ClientSide, Read
<1>6. client \in {"start", "connecting"} \/ (client = "ready" /\ todo # "await_close") =>
        /\ Len(c2s.sent) <= 3 /\ (up => ~ s2c.closed)
        /\ client \in {"start", "connecting"} => Len(s2c.sent) <= 1
  <2> DEFINE written == Len(c2s.sent)
             said    == Len(s2c.sent)
             heard   == Len(received)
  <2>1. At(written, s2c.decoded)
    BY <1>2 DEF ClientSide
  <2>2. /\ written \in Nat /\ said \in 0..3 /\ heard \in 0..3
        /\ said >= 2 => heard >= 2
        /\ heard >= 2 => written >= 3
    BY <1>3, <1>4 DEF Script
  <2>3. up /\ s2c.closed => written = 4
    BY <1>3
  <2> HIDE DEF written, said, heard
  <2>4. written <= 1 => said <= 1
    BY <2>2
  <2> SUFFICES ASSUME \/ client \in {"start", "connecting"}
                      \/ client = "ready" /\ todo # "await_close"
               PROVE  /\ written <= 3 /\ (up => ~ s2c.closed)
                      /\ client \in {"start", "connecting"} => said <= 1
    BY DEF written, said
  <2>5. /\ written \in 0..3
        /\ client \in {"start", "connecting"} => written <= 1
    BY <2>1 DEF At
  <2>6. written # 4
    BY <2>5
  <2> QED BY <2>3, <2>4, <2>5, <2>6
<1>7. ASSUME up, ClientSide', ServerSide', up' = up, Len(s2c'.sent) = Len(s2c.sent),
             client' \notin {"failed"}, todo' # "panicked",
             outcome' \in {"none", "closed"}, client' = "gone" => outcome' = "closed"
      PROVE  Exchange'
  <2>1. Unbroken'
    BY <1>1, <1>2, <1>7 DEF Unbroken
  <2> QED BY <1>1, <1>7, <2>1 DEF Exchange
<1>8. ASSUME ~ up, ClientSide', ServerSide', up' = up PROVE Exchange'
  BY <1>1, <1>8 DEF Exchange
<1>9. \A got : /\ Decode(s2c, got).sent = s2c.sent /\ Decode(s2c, got).closed = s2c.closed
               /\ Decode(s2c, got).arrived = got /\ Decode(s2c, got).decoded = s2c.decoded + 1
  BY <1>4 DEF Decode
<1>10. CASE ConnectOrPanic
  <2>1. CASE WriteConnect
    <3>1. PICK login \in Credentials : c2s' = Put(c2s, Connect(login))
      BY <2>1 DEF WriteConnect
    <3>2. /\ client = "start" /\ client' = "connecting" /\ up /\ up' = up /\ s2c' = s2c
          /\ UNCHANGED <<responses, todo, outcome>>
      BY <1>10, <2>1 DEF WriteConnect, ConnectOrPanic
    <3>3. Connect(login) \in Connects /\ Connect(login) \in ToServerMessages
      BY DEF Connects, ToServerMessages
    <3>4. ClientSide' /\ ServerSide' /\ todo' # "panicked"
      BY <1>1, <1>2, <1>5, <3>1, <3>2, <3>3, ClientWrites
    <3> QED BY <1>5, <1>7, <3>2, <3>4
  <2>2. CASE AwaitConnected
    <3>1. PICK got \in 1..Len(s2c.sent) :
            /\ Readable(s2c, got)
            /\ s2c' = Decode(s2c, got)
            /\ IF Front(s2c).cmd = "CONNECTED"
               THEN client' = "ready" /\ UNCHANGED c2s
               ELSE client' = "failed" /\ c2s' = Shut(c2s)
      BY <2>2 DEF AwaitConnected
    <3>2. /\ client = "connecting" /\ up /\ up' = up
          /\ UNCHANGED <<responses, todo, outcome>>
      BY <1>10, <2>2 DEF AwaitConnected, ConnectOrPanic
    <3>3. s2c.decoded = 0 /\ Len(s2c.sent) <= 1 /\ todo = "subscribe"
      BY <1>2, <1>6, <3>2 DEF ClientSide, At
    <3>4. got = 1 /\ Front(s2c).cmd = "CONNECTED"
      <4>1. got = 1 /\ Len(s2c.sent) >= 1
        BY <1>4, <3>3
      <4>2. s2c.sent[1] = Connected
        BY <1>3, <4>1 DEF Script
      <4> QED BY <3>3, <4>1, <4>2 DEF Front, Connected
    <3>5. ClientSide' /\ ServerSide'
      BY <1>1, <1>2, <1>5, <1>9, <3>1, <3>2, <3>3, <3>4, ClientReads
    <3> QED BY <1>5, <1>7, <1>9, <3>1, <3>2, <3>3, <3>4, <3>5
  <2>3. CASE AwaitConnectedClosed \/ (client = "start" /\ MayFail(s2c) /\ GiveUpConnect)
    <3>1. /\ client \in {"start", "connecting"} /\ client' = "failed"
          /\ c2s' = Shut(c2s) /\ s2c' = s2c /\ up' = up
          /\ UNCHANGED <<responses, outcome>>
          /\ ~ up \/ s2c.closed
      BY <1>10, <2>3 DEF AwaitConnectedClosed, GiveUpConnect, MayFail, AtEnd, ConnectOrPanic
    <3>2. ~ up
      BY <1>6, <3>1
    <3>3. ClientSide' /\ ServerSide'
      BY <1>1, <1>2, <3>1, ClientEnds
    <3> QED BY <1>8, <3>1, <3>2, <3>3
  <2> QED BY <1>10, <2>1, <2>2, <2>3 DEF ConnectOrPanic
<1>11. CASE SendSubscribe \/ SendPing \/ SendDisconnect
  <2>1. PICK m \in {Subscribe, Ping, Disconnect} :
          /\ c2s' = Put(c2s, m)
          /\ \/ todo = "subscribe" /\ m = Subscribe /\ todo' = "ping"
             \/ todo = "ping" /\ m = Ping /\ todo' = "listen"
             \/ todo = "disconnect" /\ m = Disconnect /\ todo' = "await_close"
    BY <1>11 DEF SendSubscribe, SendPing, SendDisconnect, Send
  <2>2. /\ client = "ready" /\ client' = "ready" /\ up /\ up' = up /\ s2c' = s2c
        /\ UNCHANGED <<responses, outcome>>
    BY <1>11 DEF SendSubscribe, SendPing, SendDisconnect, Send
  <2>3. m \in ToServerMessages
    BY DEF ToServerMessages, Commands, Subscribe, Ping, Disconnect
  <2>4. ClientSide' /\ ServerSide' /\ todo' # "panicked"
    BY <1>1, <1>2, <1>5, <2>1, <2>2, <2>3, ClientWrites
  <2> QED BY <1>5, <1>7, <2>2, <2>4
<1>12. CASE SendPanics \/ ListenPanics
  <2>1. /\ client = "ready" /\ client' = "gone" /\ todo # "await_close"
        /\ c2s' = Shut(c2s) /\ s2c' = s2c /\ up' = up
        /\ UNCHANGED <<responses, outcome>>
    BY <1>12 DEF SendPanics, ListenPanics, Exit, DropClient
  <2>2. ~ up
    <3>1. CASE SendPanics \/ AtEnd(s2c)
      <4>1. ~ up \/ s2c.closed
        BY <3>1 DEF SendPanics, MayFail, AtEnd
      <4> QED BY <1>6, <2>1, <4>1
    <3>2. CASE todo = "listen" /\ HasMessage(s2c) /\ Front(s2c) = Close
      <4>1. s2c.decoded = 1
        BY <1>2, <2>1, <3>2 DEF ClientSide, At
      <4>2. Len(s2c.sent) >= 2
        BY <1>4, <3>2, <4>1 DEF HasMessage
      <4>3. s2c.sent[2] = Pong
        BY <1>3, <4>2 DEF Script
      <4>4. s2c.sent[2] = Close
        BY <3>2, <4>1 DEF Front
      <4> QED BY <4>3, <4>4 DEF Pong, Close
    <3> QED BY <1>12, <3>1, <3>2 DEF ListenPanics
  <2>3. ClientSide' /\ ServerSide'
    BY <1>1, <1>2, <1>5, <2>1, ClientEnds
  <2> QED BY <1>8, <2>1, <2>2, <2>3
<1>13. CASE Listen
  <2>1. /\ client = "ready" /\ client' = "ready" /\ todo = "listen" /\ todo' = "disconnect"
        /\ up /\ up' = up /\ s2c.decoded < Len(s2c.sent)
        /\ s2c' = Decode(s2c, s2c.decoded + 1)
        /\ responses' = Append(responses, Front(s2c))
        /\ c2s' = c2s /\ outcome' = outcome
    BY <1>13 DEF Listen, HasMessage, Take
  <2>2. s2c.decoded = 1 /\ responses = << >>
    BY <1>2, <2>1 DEF ClientSide, At, Read
  <2>3. Front(s2c) = Pong
    <3>1. Len(s2c.sent) >= 2
      BY <1>4, <2>1, <2>2
    <3>2. s2c.sent[2] = Pong
      BY <1>3, <3>1 DEF Script
    <3> QED BY <2>2, <3>2 DEF Front
  <2>4. responses' = <<Pong>>
    BY <2>1, <2>2, <2>3
  <2>5. ClientSide' /\ ServerSide'
    BY <1>1, <1>2, <1>5, <1>9, <2>1, <2>2, <2>4, ClientReads
  <2> QED BY <1>5, <1>7, <1>9, <2>1, <2>5
<1>14. CASE AwaitClose
  <2>1. /\ client = "ready" /\ client' = "gone" /\ todo = "await_close" /\ todo' = "goodbye"
        /\ c2s' = Shut(c2s) /\ s2c' = s2c /\ up' = up /\ UNCHANGED responses
    BY <1>14 DEF AwaitClose, Exit, DropClient
  <2>2. s2c.decoded = 2 /\ s2c.arrived = 2 /\ responses = <<Pong>>
    BY <1>2, <2>1 DEF ClientSide, At, Read
  <2>3. CASE HasMessage(s2c) /\ outcome' = IF Front(s2c) = Close THEN "closed" ELSE "unexpected"
    <3>1. up /\ Len(s2c.sent) >= 3
      BY <1>4, <2>2, <2>3 DEF HasMessage
    <3>2. s2c.sent[3] = Close
      BY <1>3, <3>1 DEF Script
    <3>3. outcome' = "closed"
      BY <2>2, <2>3, <3>2 DEF Front
    <3>4. ClientSide' /\ ServerSide'
      BY <1>1, <1>2, <2>1, <2>2, <3>1, ClientEnds
    <3> QED BY <1>7, <2>1, <3>1, <3>3, <3>4
  <2>4. CASE AtEnd(s2c) /\ outcome' = "error"
    <3>1. ~ up
      <4>1. Len(s2c.sent) = 3 => s2c.arrived # Len(s2c.sent)
        BY <2>2
      <4> QED BY <1>3, <2>4, <4>1 DEF AtEnd
    <3>2. ClientSide' /\ ServerSide'
      BY <1>1, <1>2, <2>1, <2>4, ClientEnds
    <3> QED BY <1>8, <2>1, <3>1, <3>2
  <2> QED BY <1>14, <2>3, <2>4 DEF AwaitClose
<1> QED BY <1>1, <1>10, <1>11, <1>12, <1>13, <1>14 DEF ExampleClientNext

\* Steps of the server that read nothing.
LEMMA ServerGoesOn ==
  ASSUME LoopInv, ServerSide, c2s' = c2s, received' = received, answer' # "leave",
         \/ server' = "gone"
         \/ s2c'.closed = s2c.closed /\ server' = server
         \/ /\ s2c'.closed = s2c.closed /\ server \in {"waiting", "replying", "replied"}
            /\ server' = "rejected"
         \/ /\ s2c'.closed = s2c.closed /\ server \in {"replying", "replied"}
            /\ server' \in {"replied", "ready"}
  PROVE  ServerSide'
BY DEF ServerSide

\* A handle of the server is at work only as long as it has not answered the
\* DISCONNECT.
LEMMA NotYetDisconnected ==
  ASSUME LoopInv, Answered, ServerSide, Script,
         server \in {"waiting", "replying", "replied", "ready"}
  PROVE  /\ Len(s2c.sent) # 3
         /\ server = "ready" /\ answer = "CLOSE" => Len(s2c.sent) = 2
<1> DEFINE said  == Len(s2c.sent)
           asked == Asked(received)
           heard == Len(received)
<1>1. /\ said \in 0..3 /\ heard \in 0..3 /\ (said >= 3 => heard = 3)
      /\ asked = CASE heard <= 1 -> << >>
                   [] heard = 2 -> <<Ping>>
                   [] heard = 3 -> <<Ping, Disconnect>>
      /\ heard >= 3 => received[3] = Disconnect
  BY DEF Script
<1>2. Len(asked) \in 0..2 /\ (Len(asked) >= 1 => asked[1] = Ping)
  <2>1. heard = 0 \/ heard = 1 \/ heard = 2 \/ heard = 3
    BY <1>1
  <2> HIDE DEF heard, asked
  <2>2. CASE heard = 0 \/ heard = 1
    <3>1. asked = << >>
      BY <1>1, <2>2
    <3> QED BY <3>1
  <2>3. CASE heard = 2
    <3>1. asked = <<Ping>>
      BY <1>1, <2>3
    <3> QED BY <3>1
  <2>4. CASE heard = 3
    <3>1. asked = <<Ping, Disconnect>>
      BY <1>1, <2>4
    <3> QED BY <3>1
  <2> QED BY <2>1, <2>2, <2>3, <2>4
<1>3. CASE server \in {"waiting", "replying", "replied"}
  <2>1. received = << >>
    BY <1>3 DEF LoopInv, Loop
  <2>2. heard = 0
    BY <2>1
  <2> QED BY <1>1, <1>3, <2>2
<1>4. CASE server = "ready"
  <2>1. CASE answer \in {"PING", "PONG", "CLOSE"}
    <3>1. said = Len(asked) /\ said >= 1 /\ Answers[asked[said].cmd] = answer
      BY <1>4, <2>1 DEF Answered
    <3>0. said \in 0..3 /\ Len(asked) \in 0..2
      BY <1>1, <1>2
    <3> HIDE DEF said, asked
    <3>2. said # 3
      BY <1>2, <3>1
    <3>3. answer = "CLOSE" => said # 1
      <4>1. said = 1 => Answers[Ping.cmd] = answer
        BY <1>2, <3>1
      <4> QED BY <4>1 DEF Answers, Ping
    <3>4. said \in 1..2
      BY <3>0, <3>1, <3>2
    <3>5. answer = "CLOSE" => said = 2
      BY <3>3, <3>4
    <3> QED BY <3>2, <3>5 DEF said
  <2>2. CASE answer = "nothing"
    <3>1. \A i \in 1..heard : received[i].cmd # "DISCONNECT"
      BY <1>4, <2>2 DEF LoopInv, Loop
    <3>2. heard # 3
      BY <1>1, <3>1 DEF Disconnect
    <3>3. said \in 0..3 /\ heard \in 0..3 /\ (said >= 3 => heard = 3)
      BY <1>1
    <3> HIDE DEF said, heard
    <3>4. said # 3
      BY <3>2, <3>3
    <3> QED BY <2>2, <3>4 DEF said
  <2> QED BY <2>1, <2>2 DEF LoopInv, Types, ServerSide
<1> QED BY <1>3, <1>4

\* The next message to the server's loop is one of the client's program.
LEMMA NextToHear ==
  ASSUME LoopInv, ClientSide, ServerSide, server = "ready",
         NEW got \in 1..Len(c2s.sent), Readable(c2s, got)
  PROVE  Front(c2s) \in {Subscribe, Ping, Disconnect}
<1> DEFINE next    == c2s.decoded + 1
           written == Len(c2s.sent)
<1>1. /\ LinkOK(c2s, ToServerMessages) /\ received \in Seq(ToServerMessages)
      /\ Len(received) = c2s.decoded - 1 /\ c2s.decoded \in Nat
  BY LinkFields DEF LoopInv, Types, ServerSide
<1>2. next \in 1..written /\ Front(c2s) = c2s.sent[next] /\ written \in Nat
  BY <1>1, DecodeEffect, LinkFields
<1>3. next >= 2
  BY <1>1
<1>4. /\ written <= 4
      /\ written >= 2 => c2s.sent[2] = Subscribe
      /\ written >= 3 => c2s.sent[3] = Ping
      /\ written >= 4 => c2s.sent[4] = Disconnect
  BY DEF ClientSide, Wrote
<1> HIDE DEF next, written
<1>5. next = 2 \/ next = 3 \/ next = 4
  BY <1>2, <1>3, <1>4
<1> QED BY <1>2, <1>4, <1>5

\* One more message is heard.
LEMMA ServerHearsMore ==
  ASSUME LoopInv, ClientSide, ServerSide, server = "ready",
         NEW got \in 1..Len(c2s.sent), Readable(c2s, got), c2s' = Decode(c2s, got),
         received' = Append(received, Front(c2s)),
         answer' = Reaction(Front(c2s)), UNCHANGED <<s2c, server>>
  PROVE  ServerSide'
<1> DEFINE m == Front(c2s)
<1>1. /\ received \in Seq(ToServerMessages) /\ c2s.decoded \in Nat
      /\ m = c2s.sent[c2s.decoded + 1] /\ m \in ToServerMessages
      /\ c2s'.sent = c2s.sent /\ c2s'.decoded = c2s.decoded + 1
  BY DecodeEffect, LinkFields DEF LoopInv, Types
<1>2. /\ Len(received) = c2s.decoded - 1
      /\ \A i \in 1..Len(received) : received[i] = c2s.sent[i + 1]
  BY DEF ServerSide
<1>3. answer' # "leave"
  BY NextToHear DEF Reaction, Subscribe, Ping, Disconnect
<1>4. received' = Append(received, m)
  OBVIOUS
<1> HIDE DEF m
<1>5. Len(received') = Len(received) + 1 /\ Len(received) \in Nat
  BY <1>1, <1>4
<1>6. ASSUME NEW i \in 1..Len(received') PROVE received'[i] = c2s'.sent[i + 1]
  <2>1. CASE i \in 1..Len(received)
    BY <1>1, <1>2, <1>4, <2>1
  <2>2. CASE i = Len(received) + 1
    BY <1>1, <1>2, <1>4, <1>5, <2>2
  <2> QED BY <1>5, <2>1, <2>2
<1>7. Len(received') = c2s'.decoded - 1
  BY <1>1, <1>2, <1>5
<1> QED BY <1>3, <1>6, <1>7 DEF ServerSide

LEMMA ServerExchange ==
  ASSUME LoopInv, Answered, Exchange, ServerStep, peer = "example"
  PROVE  Exchange'
<1>1. peer' = "example" /\ ExampleServerNext /\ UNCHANGED exampleClientVars
      /\ UNCHANGED <<client, responses, todo, outcome>>
  BY DEF ServerStep, exampleClientVars, clientVars
<1>2. ClientSide /\ ServerSide /\ (up => Unbroken)
  BY DEF Exchange
<1>3. Script
  BY <1>2, ScriptHolds
<1>4. /\ up /\ c2s.closed => Len(s2c.sent) = 3
      /\ server \in {"waiting", "replying", "replied", "ready"} => Len(s2c.sent) # 3
      /\ server = "ready" /\ answer = "CLOSE" => Len(s2c.sent) = 2
  BY <1>2, <1>3, GoneLast, NotYetDisconnected
<1>5. /\ LinkOK(c2s, ToServerMessages) /\ LinkOK(s2c, ToClientMessages)
      /\ s2c \in [sent : Seq(ToClientMessages), arrived : Nat, decoded : Nat, closed : BOOLEAN]
      /\ c2s \in [sent : Seq(ToServerMessages), arrived : Nat, decoded : Nat, closed : BOOLEAN]
      /\ Len(s2c.sent) \in Nat
  BY LinkFields DEF LoopInv, Types, LinkOK
<1>6. \A m : /\ Len(Put(s2c, m).sent) = Len(s2c.sent) + 1
              /\ Put(s2c, m).arrived = s2c.arrived /\ Put(s2c, m).decoded = s2c.decoded
              /\ Put(s2c, m).closed = s2c.closed
              /\ Shut(Put(s2c, m)).sent = Put(s2c, m).sent
              /\ Shut(Put(s2c, m)).arrived = s2c.arrived
              /\ Shut(Put(s2c, m)).decoded = s2c.decoded
  BY <1>5 DEF Put, Shut
<1>7. Shut(s2c).sent = s2c.sent /\ Shut(s2c).arrived = s2c.arrived
      /\ Shut(s2c).decoded = s2c.decoded
  BY <1>5 DEF Shut
<1>8. ASSUME ServerSide', up' = up, ~ up \/ server' \notin {"rejected", "gone"},
             c2s'.sent = c2s.sent, c2s'.closed = c2s.closed,
             s2c'.arrived = s2c.arrived, s2c'.decoded = s2c.decoded,
             Len(s2c'.sent) \in Nat, Len(s2c'.sent) >= Len(s2c.sent)
      PROVE  Exchange'
  <2>1. ClientSide'
    BY <1>1, <1>2, <1>5, <1>8, ServerKeepsClientSide
  <2>2. up' => Unbroken'
    BY <1>1, <1>2, <1>8 DEF Unbroken
  <2> QED BY <1>1, <1>8, <2>1, <2>2 DEF Exchange
<1>9. CASE WaitOrReturn
  <2>1. CASE HandshakeFrame
    <3>1. PICK got \in 1..Len(c2s.sent) :
            /\ Readable(c2s, got)
            /\ c2s' = IF Front(c2s).cmd = "malformed" THEN Fill(c2s, got)
                                                      ELSE Decode(c2s, got)
            /\ IF Front(c2s).cmd = "CONNECT"
               THEN HandshakeConnect(Front(c2s))
               ELSE server' = "rejected" /\ UNCHANGED <<logins, sessions>>
      BY <2>1 DEF HandshakeFrame
    <3>2. /\ server = "waiting" /\ up' = up /\ UNCHANGED <<s2c, received, answer>>
          /\ received = << >> /\ c2s.decoded = 0
      BY <1>2, <1>9, <2>1 DEF HandshakeFrame, WaitOrReturn, ServerSide, LoopInv, Loop
    <3>3. /\ Front(c2s) = c2s.sent[1] /\ Len(c2s.sent) >= 1 /\ Len(c2s.sent) \in Nat
          /\ Decode(c2s, got).sent = c2s.sent /\ Decode(c2s, got).decoded = 1
      BY <1>5, <3>1, <3>2, DecodeEffect, LinkFields
    <3>4. Front(c2s) \in Connects
      BY <1>2, <3>3 DEF ClientSide, Wrote
    <3>5. /\ Front(c2s).cmd = "CONNECT" /\ Front(c2s).versions = {"1.2"}
          /\ Front(c2s).login \in Accepted
      BY <3>4, LoginsAssumption DEF Connects, Connect
    <3>6. server' = "replying" /\ c2s' = Decode(c2s, got)
      BY <3>1, <3>5 DEF HandshakeConnect
    <3>7. c2s'.closed = c2s.closed
      BY <1>5, <3>6 DEF Decode
    <3>8. ServerSide'
      <4>1. Len(received') = 0 /\ received' = << >> /\ c2s'.decoded = 1
        BY <3>2, <3>3, <3>6
      <4>2. answer' # "leave" /\ ~ s2c'.closed
        BY <1>2, <3>2 DEF ServerSide
      <4> QED BY <3>6, <4>1, <4>2 DEF ServerSide
    <3> QED BY <1>5, <1>8, <3>2, <3>3, <3>6, <3>7, <3>8
  <2>2. CASE HandshakeClosed
    <3>1. /\ server = "waiting" /\ server' = "rejected" /\ up' = up
          /\ UNCHANGED <<c2s, s2c, received, answer>> /\ AtEnd(c2s)
      BY <1>9, <2>2 DEF HandshakeClosed, WaitOrReturn
    <3>2. ~ up
      BY <1>4, <3>1 DEF AtEnd
    <3>3. ServerSide'
      BY <1>2, <3>1, ServerGoesOn DEF ServerSide
    <3> QED BY <1>5, <1>8, <3>1, <3>2, <3>3
  <2>3. CASE WriteConnected
    <3>1. /\ server = "replying" /\ server' = "replied" /\ up' = up
          /\ UNCHANGED <<c2s, received, answer>> /\ s2c' = Put(s2c, Connected)
      BY <1>9, <2>3 DEF WriteConnected, WaitOrReturn
    <3>2. ServerSide'
      BY <1>2, <1>6, <3>1, ServerGoesOn DEF ServerSide
    <3>3. Len(s2c'.sent) = Len(s2c.sent) + 1
      BY <1>6, <3>1
    <3> QED BY <1>5, <1>6, <1>8, <3>1, <3>2, <3>3
  <2>4. CASE WriteConnectedOk
    <3>1. /\ server = "replied" /\ server' = "ready" /\ up' = up
          /\ UNCHANGED <<c2s, s2c, received, answer>>
      BY <1>9, <2>4 DEF WriteConnectedOk, WaitOrReturn
    <3>2. ServerSide'
      BY <1>2, <3>1, ServerGoesOn DEF ServerSide
    <3> QED BY <1>5, <1>8, <3>1, <3>2
  <2>5. CASE (~ up \/ c2s.closed) /\ WriteConnectedErr
    <3>1. /\ server \in {"replying", "replied"} /\ server' = "rejected" /\ up' = up
          /\ UNCHANGED <<c2s, s2c, received, answer>>
      BY <1>9, <2>5 DEF WriteConnectedErr, WaitOrReturn
    <3>2. ~ up
      BY <1>4, <2>5, <3>1
    <3>3. ServerSide'
      BY <1>2, <3>1, ServerGoesOn DEF ServerSide
    <3> QED BY <1>5, <1>8, <3>1, <3>2, <3>3
  <2>6. CASE server = "rejected" /\ DropServer
    <3>1. /\ server' = "gone" /\ up' = up /\ s2c' = Shut(s2c)
          /\ UNCHANGED <<c2s, received, answer>>
      BY <1>9, <2>6 DEF DropServer, WaitOrReturn
    <3>2. ~ up
      BY <1>2, <2>6 DEF Unbroken
    <3>3. ServerSide'
      BY <1>2, <3>1, ServerGoesOn DEF ServerSide
    <3> QED BY <1>5, <1>7, <1>8, <3>1, <3>2, <3>3
  <2> QED BY <1>9, <2>1, <2>2, <2>3, <2>4, <2>5, <2>6 DEF WaitOrReturn
<1>10. CASE LoopRead
  <2>1. PICK got \in 1..Len(c2s.sent) :
          /\ Readable(c2s, got)
          /\ IF Front(c2s).cmd = "malformed"
             THEN c2s' = Fill(c2s, got) /\ UNCHANGED received
             ELSE c2s' = Decode(c2s, got) /\ received' = Append(received, Front(c2s))
    BY <1>10 DEF LoopRead, ReadData
  <2>2. /\ server = "ready" /\ up' = up /\ UNCHANGED <<s2c, server>>
        /\ answer' = Reaction(Front(c2s))
    BY <1>10 DEF LoopRead, ReadData
  <2>3. Front(c2s).cmd # "malformed"
    BY <1>2, <2>1, <2>2, NextToHear DEF Subscribe, Ping, Disconnect
  <2>4. ServerSide'
    BY <1>2, <2>1, <2>2, <2>3, ServerHearsMore
  <2>5. c2s'.sent = c2s.sent /\ c2s'.closed = c2s.closed
    BY <1>5, <2>1, <2>3 DEF Decode
  <2> QED BY <1>5, <1>8, <2>2, <2>4, <2>5
<1>11. CASE LoopAnswer
  <2>1. /\ server = "ready" /\ server' = "ready" /\ up' = up /\ answer' = "nothing"
        /\ UNCHANGED <<c2s, received>> /\ s2c' = Put(s2c, [cmd |-> answer])
    BY <1>11 DEF LoopAnswer, serverVars
  <2>2. ServerSide'
    BY <1>2, <1>6, <2>1, ServerGoesOn
  <2>3. Len(s2c'.sent) = Len(s2c.sent) + 1
    BY <1>6, <2>1
  <2> QED BY <1>5, <1>6, <1>8, <2>1, <2>2, <2>3
<1>12. CASE LoopClose
  <2>1. /\ server = "ready" /\ answer = "CLOSE" /\ server' = "gone" /\ up' = up
        /\ UNCHANGED <<c2s, received, answer>>
        /\ \/ up /\ s2c' = Shut(Put(s2c, [cmd |-> "CLOSE"]))
           \/ (~ up \/ c2s.closed) /\ s2c' = Shut(s2c)
    BY <1>12 DEF LoopClose
  <2>2. ServerSide'
    BY <1>2, <2>1, ServerGoesOn DEF ServerSide
  <2>3. CASE ~ up
    BY <1>5, <1>6, <1>7, <1>8, <2>1, <2>2, <2>3
  <2>4. CASE up
    <3>1. ~ c2s.closed /\ Len(s2c.sent) = 2
      BY <1>4, <2>1, <2>4
    <3> DEFINE more == Put(s2c, [cmd |-> "CLOSE"])
    <3>2. s2c' = Shut(more)
      BY <2>1, <2>4, <3>1
    <3>3. /\ Len(more.sent) = Len(s2c.sent) + 1 /\ Shut(more).sent = more.sent
          /\ Shut(more).arrived = s2c.arrived /\ Shut(more).decoded = s2c.decoded
      BY <1>6
    <3> HIDE DEF more
    <3>4. Len(s2c'.sent) = 3
      BY <3>2, <3>3, <3>1
    <3>5. s2c'.arrived = s2c.arrived /\ s2c'.decoded = s2c.decoded
      BY <3>2, <3>3
    <3>6. ClientSide'
      BY <1>1, <1>2, <1>5, <2>1, <3>5, <3>1, <3>4, ServerKeepsClientSide
    <3>7. Unbroken'
      BY <1>1, <1>2, <2>1, <2>4, <3>4 DEF Unbroken
    <3> QED BY <1>1, <2>2, <3>6, <3>7 DEF Exchange
  <2> QED BY <2>3, <2>4
<1>13. CASE LoopLeave
  <2>1. /\ server = "ready" /\ server' = "gone" /\ up' = up /\ s2c' = Shut(s2c)
        /\ UNCHANGED <<c2s, received, answer>>
        /\ answer = "leave" \/ ~ up \/ c2s.closed
    BY <1>13 DEF LoopLeave, DropServer, AtEnd
  <2>2. ~ up
    BY <1>2, <1>4, <2>1 DEF ServerSide
  <2>3. ServerSide'
    BY <1>2, <2>1, ServerGoesOn DEF ServerSide
  <2> QED BY <1>5, <1>7, <1>8, <2>1, <2>2, <2>3
<1> QED BY <1>1, <1>9, <1>10, <1>11, <1>12, <1>13 DEF ExampleServerNext

LEMMA NextExchange == LoopInv /\ Answered /\ Exchange /\ [Next]_vars => Exchange'
<1> SUFFICES ASSUME LoopInv, Answered, Exchange, [Next]_vars PROVE Exchange'
  OBVIOUS
<1>1. ASSUME UNCHANGED <<exampleClientVars, peer>>, peer # "example" PROVE Exchange'
  BY <1>1 DEF Exchange, exampleClientVars
<1>2. CASE ClientStep
  BY <1>2, ClientExchange
<1>3. CASE OtherStep
  BY <1>1, <1>3 DEF OtherStep
<1>4. CASE ServerStep
  BY <1>1, <1>4, ServerExchange DEF ServerStep
<1>5. CASE (Break /\ UNCHANGED <<exampleClientVars, exampleServerVars, peer>>)
           \/ UNCHANGED vars
  <2>1. UNCHANGED <<c2s, s2c, exampleClientVars, exampleServerVars, peer>>
        /\ (up' => up)
    BY <1>5 DEF Break, vars
  <2>2. UNCHANGED <<client, responses, todo, outcome, server, received, answer>>
    BY <2>1 DEF exampleClientVars, exampleServerVars, clientVars, serverVars
  <2>3. CASE peer # "example"
    BY <1>1, <2>1, <2>3
  <2>4. CASE peer = "example"
    <3>1. ClientSide /\ ServerSide /\ (up => Unbroken)
      BY <2>4 DEF Exchange
    <3>2. ClientSide'
      BY <2>1, <2>2, <3>1 DEF ClientSide, Wrote, At, Read
    <3>3. ServerSide'
      BY <2>1, <2>2, <3>1 DEF ServerSide
    <3>4. up' => Unbroken'
      BY <2>1, <2>2, <3>1 DEF Unbroken
    <3> QED BY <2>1, <2>4, <3>2, <3>3, <3>4 DEF Exchange
  <2> QED BY <2>3, <2>4
<1> QED BY <1>2, <1>3, <1>4, <1>5 DEF Next

\* Whatever happens to the connection, for any credentials: when the example
\* client reports a clean end, all that it and the server meant to say to each
\* other was said and heard.
THEOREM CleanEndIsComplete == Spec => []CleanEnd
<1>1. LoopInv /\ Answered /\ Exchange => CleanEnd
  <2> SUFFICES ASSUME LoopInv, Answered, Exchange, outcome = "closed"
               PROVE  /\ received = <<Subscribe, Ping, Disconnect>>
                      /\ s2c.sent = <<Connected, Pong, Close>>
                      /\ responses = <<Pong>>
    BY DEF CleanEnd
  <2>1. ClientSide /\ ServerSide
    BY DEF Exchange
  <2>2. Script
    BY <2>1, ScriptHolds
  <2>3. Len(s2c.sent) >= 3 /\ responses = <<Pong>>
    BY <2>1 DEF ClientSide, Read
  <2>4. Len(s2c.sent) = 3
    <3> DEFINE said == Len(s2c.sent)
    <3>1. said \in 0..3 /\ said >= 3
      BY <2>2, <2>3 DEF Script
    <3> HIDE DEF said
    <3>2. said = 3
      BY <3>1
    <3> QED BY <3>2 DEF said
  <2>5. /\ s2c.sent[1] = Connected /\ s2c.sent[2] = Pong /\ s2c.sent[3] = Close
        /\ Len(received) = 3
    BY <2>2, <2>4 DEF Script
  <2>6. received[1] = Subscribe /\ received[2] = Ping /\ received[3] = Disconnect
    BY <2>2, <2>5 DEF Script
  <2>7. s2c.sent \in Seq(ToClientMessages) /\ received \in Seq(ToServerMessages)
    BY LinkFields DEF LoopInv, Types
  <2>8. s2c.sent = <<Connected, Pong, Close>>
    BY <2>4, <2>5, <2>7
  <2>9. received = <<Subscribe, Ping, Disconnect>>
    BY <2>5, <2>6, <2>7
  <2> QED BY <2>3, <2>8, <2>9
<1> QED BY <1>1, InitLoopInv, NextLoopInv, InitAnswered, NextAnswered, InitExchange,
           NextExchange, PTL DEF Spec

\* And as long as the connection holds, nothing goes wrong between the two.
THEOREM NothingFailsUnbroken == Spec => []SoundWithoutBreak
<1>1. Exchange => SoundWithoutBreak
  BY DEF Exchange, Unbroken, SoundWithoutBreak
<1> QED BY <1>1, InitLoopInv, NextLoopInv, InitAnswered, NextAnswered, InitExchange,
           NextExchange, PTL DEF Spec

=============================================================================
