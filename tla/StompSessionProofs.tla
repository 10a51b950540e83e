------------------------- MODULE StompSessionProofs -------------------------
(***************************************************************************)
(* Proofs about StompSession, for any sets of credentials, any number of   *)
(* messages and of attempts, and either kind of transport: what each end   *)
(* knows of the other, and that the two handles implement Conversation.    *)
(***************************************************************************)
EXTENDS StompSession, ConnectionProofs, SequenceTheorems

\* What the client has written, by its phase.
ClientWrote ==
    /\ client = "start" => c2s.sent = << >>
    /\ client \in {"connecting", "failed"} => Len(c2s.sent) <= 1
    /\ client \in {"connecting", "ready", "gone"} => Len(c2s.sent) >= 1
    /\ Len(c2s.sent) >= 1 => c2s.sent[1].cmd = "CONNECT"
    /\ \A i \in 2..Len(c2s.sent) : c2s.sent[i] = SendFrame(i)

\* What the client has read, by its phase.
ClientRead ==
    /\ client \in {"start", "connecting"} => s2c.decoded = 0
    /\ client \in {"ready", "gone"} => Len(responses) = s2c.decoded - 1
    /\ client \in {"start", "connecting", "failed"} => responses = << >>

\* What the server has read, by its phase: the client's CONNECT is the first
\* frame it decodes, and what came of it is settled from then on.
ServerRead ==
    /\ c2s.arrived = 0 \/ c2s.decoded > 0
    /\ c2s.decoded = 0 =>
        /\ logins = << >> /\ sessions = 0
        /\ server \in {"waiting", "rejected", "gone"}
    /\ c2s.decoded > 0 =>
        /\ logins = <<c2s.sent[1].login>>
        /\ sessions = IF c2s.sent[1].login \in Accepted THEN 1 ELSE 0
    /\ server \in {"replying", "replied", "ready"} => sessions = 1
    /\ server \in {"replying", "replied", "ready"} =>
        Len(received) = c2s.decoded - 1
    /\ server \notin {"ready", "gone"} => received = << >>

\* What the server has written, by its phase.
ServerWrote ==
    /\ server = "replying" => s2c.sent = << >>
    /\ server \in {"replied", "ready"} => Len(s2c.sent) >= 1
    /\ Len(s2c.sent) >= 1 => c2s.decoded > 0 /\ sessions = 1
    /\ Len(s2c.sent) >= 1 => s2c.sent[1] = Connected
    /\ \A i \in 2..Len(s2c.sent) : s2c.sent[i] = MessageFrame(i)

IInv ==
    /\ TypeOK
    /\ ClientWrote
    /\ ClientRead
    /\ ServerRead
    /\ ServerWrote
    /\ ServerHearsAll
    /\ ClientHearsAll


-----------------------------------------------------------------------------

\* The kinds of frames that travel in either direction.
LEMMA FrameKinds ==
  /\ \A f \in ClientFrames : f.cmd \in {"CONNECT", "SEND"}
  /\ \A f \in ServerFrames : f.cmd \in {"CONNECTED", "MESSAGE"}
  /\ \A n \in Nat : /\ SendFrame(n) \in ClientFrames
                    /\ SendFrame(n).cmd = "SEND"
                    /\ MessageFrame(n) \in ServerFrames
                    /\ MessageFrame(n).cmd = "MESSAGE"
                    /\ MessageFrame(n) # Connected
  /\ \A l \in Credentials : /\ Connect(l) \in ClientFrames
                            /\ Connect(l).cmd = "CONNECT"
                            /\ Connect(l).login = l
  /\ Connected \in ServerFrames /\ Connected.cmd = "CONNECTED"
  /\ \A f \in ClientFrames : f.cmd = "CONNECT" =>
        f.login \in Credentials /\ f.versions = {"1.2"}
BY DEF ClientFrames, ServerFrames, SendFrame, MessageFrame, Connect, Connected

-----------------------------------------------------------------------------
(***************************************************************************)
(* The steps of the client.                                                *)
(***************************************************************************)

\* CONNECT is the first frame a client writes.
LEMMA WriteConnectInv ==
  ASSUME IInv, WriteConnect, UNCHANGED serverVars
  PROVE  IInv'
<1>1. PICK login \in Credentials : c2s' = Put(c2s, Connect(login))
  BY DEF WriteConnect
<1>2. client = "start" /\ client' = "connecting" /\ UNCHANGED <<s2c, up, responses>>
      /\ UNCHANGED <<server, logins, sessions, retries, received>>
  BY DEF WriteConnect, serverVars
<1>3. LinkOK(c2s, ClientFrames) /\ Connect(login) \in ClientFrames
      /\ Connect(login).cmd = "CONNECT"
  BY FrameKinds DEF IInv, TypeOK
<1>4. Len(c2s.sent) = 0
  BY <1>2 DEF IInv, ClientWrote
<1>5. /\ LinkOK(c2s', ClientFrames)
      /\ c2s'.arrived = c2s.arrived /\ c2s'.decoded = c2s.decoded
      /\ Len(c2s'.sent) = 1 /\ c2s'.sent[1] = Connect(login)
  <2>1. /\ LinkOK(c2s', ClientFrames)
        /\ c2s'.arrived = c2s.arrived /\ c2s'.decoded = c2s.decoded
        /\ Len(c2s'.sent) = Len(c2s.sent) + 1
        /\ c2s'.sent[Len(c2s.sent) + 1] = Connect(login)
    BY <1>1, <1>3, PutEffect
  <2> QED BY <2>1, <1>4
<1>6. c2s.decoded = 0 /\ c2s.arrived = 0
  BY <1>3, <1>4, LinkFields
<1>7. TypeOK'
  BY <1>2, <1>5 DEF IInv, TypeOK
<1>8. ClientWrote' /\ ClientRead'
  BY <1>2, <1>3, <1>5 DEF IInv, ClientWrote, ClientRead
<1>9. ServerRead' /\ ServerWrote' /\ ServerHearsAll' /\ ClientHearsAll'
  BY <1>2, <1>5, <1>6
     DEF IInv, ServerRead, ServerWrote, ServerHearsAll, ClientHearsAll
<1> QED BY <1>7, <1>8, <1>9 DEF IInv

\* The client reads its first frame: it is CONNECTED.
LEMMA AwaitConnectedInv ==
  ASSUME IInv, AwaitConnected, UNCHANGED serverVars
  PROVE  IInv'
<1>1. PICK got \in 1..Len(s2c.sent) :
        /\ Readable(s2c, got)
        /\ s2c' = Decode(s2c, got)
        /\ IF Front(s2c).cmd = "CONNECTED"
           THEN client' = "ready" /\ UNCHANGED c2s
           ELSE client' = "failed" /\ c2s' = Shut(c2s)
  BY DEF AwaitConnected
<1>2. client = "connecting" /\ UNCHANGED <<up, responses>>
      /\ UNCHANGED <<server, logins, sessions, retries, received>>
  BY DEF AwaitConnected, serverVars
<1>3. LinkOK(s2c, ServerFrames) /\ s2c.decoded = 0
  BY <1>2 DEF IInv, TypeOK, ClientRead
<1>4. /\ LinkOK(s2c', ServerFrames)
      /\ s2c'.sent = s2c.sent /\ s2c'.decoded = 1
      /\ 1 \in 1..Len(s2c.sent) /\ Front(s2c) = s2c.sent[1]
  BY <1>1, <1>3, DecodeEffect
<1>5. client' = "ready" /\ c2s' = c2s
  BY <1>1, <1>4, FrameKinds DEF IInv, ServerWrote
<1>6. TypeOK'
  BY <1>2, <1>4, <1>5 DEF IInv, TypeOK
<1>7. ClientWrote' /\ ClientRead'
  BY <1>2, <1>4, <1>5 DEF IInv, ClientWrote, ClientRead
<1>8. ServerRead' /\ ServerWrote' /\ ServerHearsAll' /\ ClientHearsAll'
  BY <1>2, <1>4, <1>5
     DEF IInv, ServerRead, ServerWrote, ServerHearsAll, ClientHearsAll
<1> QED BY <1>6, <1>7, <1>8 DEF IInv

\* The client gives up, or drops its handle.
LEMMA ClientLeavesInv ==
  ASSUME IInv, UNCHANGED serverVars, UNCHANGED <<s2c, up, responses>>,
         c2s' = Shut(c2s),
         \/ client \in {"start", "connecting"} /\ client' = "failed"
         \/ client = "ready" /\ client' = "gone"
  PROVE  IInv'
<1>1. UNCHANGED <<server, logins, sessions, retries, received>>
  BY DEF serverVars
<1>2. /\ LinkOK(c2s', ClientFrames)
      /\ c2s'.sent = c2s.sent
      /\ c2s'.arrived = c2s.arrived /\ c2s'.decoded = c2s.decoded
  BY ShutEffect DEF IInv, TypeOK
<1>3. TypeOK'
  BY <1>1, <1>2 DEF IInv, TypeOK
<1>4. ClientWrote' /\ ClientRead'
  BY <1>1, <1>2 DEF IInv, ClientWrote, ClientRead
<1>5. ServerRead' /\ ServerWrote' /\ ServerHearsAll' /\ ClientHearsAll'
  BY <1>1, <1>2
     DEF IInv, ServerRead, ServerWrote, ServerHearsAll, ClientHearsAll
<1> QED BY <1>3, <1>4, <1>5 DEF IInv

\* Each later one is a SEND in its place.
LEMMA ClientSendMessageInv ==
  ASSUME IInv, ClientSendMessage, UNCHANGED serverVars
  PROVE  IInv'
<1> DEFINE k == Len(c2s.sent)
<1>1. client = "ready" /\ UNCHANGED <<s2c, up, client, responses>>
      /\ UNCHANGED <<server, logins, sessions, retries, received>>
      /\ c2s' = Put(c2s, SendFrame(k + 1))
  BY DEF ClientSendMessage, serverVars
<1>2. LinkOK(c2s, ClientFrames) /\ k \in Nat /\ k >= 1
      /\ SendFrame(k + 1) \in ClientFrames
  <2>1. LinkOK(c2s, ClientFrames) /\ k >= 1
    BY <1>1 DEF IInv, TypeOK, ClientWrote
  <2>2. k \in Nat
    BY <2>1, LinkFields
  <2>3. k + 1 \in Nat
    BY <2>2
  <2> QED BY <2>1, <2>2, <2>3, FrameKinds
<1>3. /\ LinkOK(c2s', ClientFrames)
      /\ c2s'.arrived = c2s.arrived /\ c2s'.decoded = c2s.decoded
      /\ Len(c2s'.sent) = k + 1
      /\ c2s'.sent[k + 1] = SendFrame(k + 1)
      /\ \A i \in 1..k : c2s'.sent[i] = c2s.sent[i]
  BY <1>1, <1>2, PutEffect
<1>4. c2s'.sent[1] = c2s.sent[1]
  BY <1>2, <1>3
<1>5. TypeOK'
  BY <1>1, <1>3 DEF IInv, TypeOK
<1>6. ClientWrote'
  <2>1. \A i \in 2..Len(c2s'.sent) : c2s'.sent[i] = SendFrame(i)
    <3> SUFFICES ASSUME NEW i \in 2..(k + 1) PROVE c2s'.sent[i] = SendFrame(i)
      BY <1>3
    <3>1. CASE i = k + 1
      BY <3>1, <1>3
    <3>2. CASE i # k + 1
      <4>1. i \in 2..k /\ i \in 1..k
        BY <3>2, <1>2
      <4> QED BY <4>1, <1>3 DEF IInv, ClientWrote
    <3> QED BY <3>1, <3>2
  <2> QED BY <2>1, <1>1, <1>2, <1>3, <1>4 DEF IInv, ClientWrote
<1>7. ClientRead'
  BY <1>1, <1>3 DEF IInv, ClientRead
<1>8. ServerRead' /\ ServerWrote' /\ ServerHearsAll' /\ ClientHearsAll'
  BY <1>1, <1>3, <1>4
     DEF IInv, ServerRead, ServerWrote, ServerHearsAll, ClientHearsAll
<1> QED BY <1>5, <1>6, <1>7, <1>8 DEF IInv

\* The next response is the frame behind those that were read.
LEMMA ReadResponseInv ==
  ASSUME IInv, ReadResponse, UNCHANGED serverVars
  PROVE  IInv'
<1> DEFINE k == s2c.decoded + 1
<1>1. PICK got \in 1..Len(s2c.sent) :
        /\ Readable(s2c, got)
        /\ s2c' = Decode(s2c, got)
        /\ responses' = Append(responses, Front(s2c))
  BY DEF ReadResponse
<1>2. client = "ready" /\ UNCHANGED <<c2s, up, client>>
      /\ UNCHANGED <<server, logins, sessions, retries, received>>
  BY DEF ReadResponse, serverVars
<1>3. LinkOK(s2c, ServerFrames) /\ responses \in Seq(ServerFrames)
      /\ Len(responses) = s2c.decoded - 1
  BY <1>2 DEF IInv, TypeOK, ClientRead
<1>4. /\ LinkOK(s2c', ServerFrames)
      /\ s2c'.sent = s2c.sent /\ s2c'.decoded = k
      /\ k \in 1..Len(s2c.sent) /\ Front(s2c) = s2c.sent[k]
      /\ Front(s2c) \in ServerFrames
  BY <1>1, <1>3, DecodeEffect
<1>5. s2c.decoded \in Nat /\ Len(responses) \in Nat /\ s2c.decoded >= 1
  BY <1>3 DEF LinkOK
<1>6. k \in 2..Len(s2c.sent)
  BY <1>4, <1>5
<1>7. Front(s2c) = MessageFrame(Len(responses) + 2)
  BY <1>3, <1>4, <1>5, <1>6 DEF IInv, ServerWrote
<1>8. /\ Len(responses') = Len(responses) + 1
      /\ responses' \in Seq(ServerFrames)
      /\ \A i \in 1..Len(responses') :
            responses'[i] = IF i = Len(responses) + 1 THEN Front(s2c)
                                                      ELSE responses[i]
  BY <1>1, <1>3, <1>4
<1>9. TypeOK'
  BY <1>2, <1>4, <1>8 DEF IInv, TypeOK
<1>10. ClientWrote' /\ ClientRead'
  BY <1>2, <1>3, <1>4, <1>5, <1>8 DEF IInv, ClientWrote, ClientRead
<1>11. ServerRead' /\ ServerWrote' /\ ServerHearsAll'
  BY <1>2, <1>4 DEF IInv, ServerRead, ServerWrote, ServerHearsAll
<1>12. ClientHearsAll'
  <2> SUFFICES ASSUME NEW i \in 1..Len(responses')
               PROVE  responses'[i] = MessageFrame(i + 1)
    BY DEF ClientHearsAll
  <2>1. CASE i = Len(responses) + 1
    <3>1. i + 1 = Len(responses) + 2
      BY <2>1, <1>5
    <3> QED BY <2>1, <3>1, <1>7, <1>8
  <2>2. CASE i # Len(responses) + 1
    <3>1. i \in 1..Len(responses)
      BY <2>2, <1>5, <1>8
    <3> QED BY <2>2, <3>1, <1>8 DEF IInv, ClientHearsAll
  <2> QED BY <2>1, <2>2
<1> QED BY <1>9, <1>10, <1>11, <1>12 DEF IInv

-----------------------------------------------------------------------------
(***************************************************************************)
(* The steps of the server.                                                *)
(***************************************************************************)

\* The first frame the server takes is the client's CONNECT.
LEMMA FirstFrame ==
  ASSUME IInv, NEW got \in 1..Len(c2s.sent), Readable(c2s, got), c2s.decoded = 0
  PROVE  /\ Front(c2s) = c2s.sent[1]
         /\ Front(c2s) \in ClientFrames
         /\ Front(c2s).cmd = "CONNECT"
         /\ Front(c2s).versions = {"1.2"}
         /\ Front(c2s).login \in Credentials
<1>1. LinkOK(c2s, ClientFrames)
  BY DEF IInv, TypeOK
<1>2. /\ Front(c2s) = c2s.sent[1] /\ Front(c2s) \in ClientFrames
      /\ 1 \in 1..Len(c2s.sent)
  BY <1>1, DecodeEffect
<1>3. Len(c2s.sent) >= 1
  BY <1>2, <1>1, LinkFields
<1>4. Front(c2s).cmd = "CONNECT"
  BY <1>2, <1>3 DEF IInv, ClientWrote
<1> QED BY <1>2, <1>4, FrameKinds

\* Every later one is a SEND, in its place.
LEMMA LaterFrame ==
  ASSUME IInv, NEW got \in 1..Len(c2s.sent), Readable(c2s, got), c2s.decoded > 0
  PROVE  /\ Front(c2s) = SendFrame(c2s.decoded + 1)
         /\ Front(c2s) \in ClientFrames
         /\ Front(c2s).cmd = "SEND"
<1>1. LinkOK(c2s, ClientFrames) /\ c2s.decoded \in Nat
  BY LinkFields DEF IInv, TypeOK
<1>2. /\ Front(c2s) = c2s.sent[c2s.decoded + 1] /\ Front(c2s) \in ClientFrames
      /\ c2s.decoded + 1 \in 1..Len(c2s.sent)
  BY <1>1, DecodeEffect
<1>3. c2s.decoded + 1 \in 2..Len(c2s.sent) /\ c2s.decoded + 1 \in Nat
  BY <1>1, <1>2
<1>4. Front(c2s) = SendFrame(c2s.decoded + 1)
  BY <1>2, <1>3 DEF IInv, ClientWrote
<1> QED BY <1>2, <1>3, <1>4, FrameKinds

\* What an accepted or a refused login leaves behind.
LEMMA HandshakeFrameInv ==
  ASSUME IInv, HandshakeFrame, UNCHANGED clientVars
  PROVE  IInv'
<1> DEFINE f == Front(c2s)
           first == c2s.sent[1]
<1>1. PICK got \in 1..Len(c2s.sent) :
        /\ Readable(c2s, got)
        /\ c2s' = IF f.cmd = "malformed" THEN Fill(c2s, got)
                                         ELSE Decode(c2s, got)
        /\ IF f.cmd = "CONNECT"
           THEN HandshakeConnect(f)
           ELSE server' = "rejected" /\ UNCHANGED <<logins, sessions>>
  BY DEF HandshakeFrame
<1>2. server = "waiting" /\ UNCHANGED <<s2c, up, retries, received>>
      /\ UNCHANGED <<client, responses>>
  BY DEF HandshakeFrame, clientVars
<1>3. LinkOK(c2s, ClientFrames) /\ received = << >>
  BY <1>2 DEF IInv, TypeOK, ServerRead
<1>4. c2s.decoded \in Nat
  BY <1>3, LinkFields
<1>5. f \in ClientFrames /\ f.cmd \in {"CONNECT", "SEND"}
  BY <1>1, <1>3, DecodeEffect, FrameKinds
<1>6. /\ LinkOK(c2s', ClientFrames)
      /\ c2s'.sent = c2s.sent /\ c2s'.decoded = c2s.decoded + 1
  BY <1>1, <1>3, <1>5, DecodeEffect
<1>7. c2s'.decoded > 0
  BY <1>4, <1>6
<1>8. /\ logins' = <<first.login>> /\ logins' \in Seq(Credentials)
      /\ sessions' = (IF first.login \in Accepted THEN 1 ELSE 0)
      /\ server' = "rejected" \/ (server' = "replying" /\ sessions' = 1)
      /\ c2s.decoded > 0 => UNCHANGED <<logins, sessions>> /\ server' = "rejected"
      /\ server' = "replying" => s2c.sent = << >>
  <2>1. CASE c2s.decoded = 0
    <3>1. f = first /\ f.cmd = "CONNECT" /\ f.versions = {"1.2"}
          /\ f.login \in Credentials
      BY <1>1, <2>1, FirstFrame
    <3>2. logins = << >> /\ sessions = 0 /\ s2c.sent = << >>
      <4>1. logins = << >> /\ sessions = 0 /\ ~ (Len(s2c.sent) >= 1)
        BY <2>1 DEF IInv, ServerRead, ServerWrote
      <4>2. s2c.sent \in Seq(ServerFrames) /\ Len(s2c.sent) \in Nat
        BY LinkFields DEF IInv, TypeOK
      <4>3. Len(s2c.sent) = 0
        BY <4>1, <4>2
      <4> QED BY <4>1, <4>2, <4>3
    <3>3. HandshakeConnect(f) /\ "1.2" \in f.versions
      BY <1>1, <3>1
    <3>4. logins' = <<first.login>>
      BY <3>1, <3>2, <3>3 DEF HandshakeConnect
    <3>5. \/ first.login \notin Accepted /\ server' = "rejected" /\ sessions' = 0
          \/ first.login \in Accepted /\ server' = "replying" /\ sessions' = 1
      BY <3>1, <3>2, <3>3 DEF HandshakeConnect
    <3> QED BY <2>1, <3>1, <3>2, <3>4, <3>5
  <2>2. CASE c2s.decoded > 0
    <3>1. server' = "rejected" /\ UNCHANGED <<logins, sessions>>
      BY <1>1, <2>2, LaterFrame
    <3> QED BY <2>2, <3>1 DEF IInv, TypeOK, ServerRead
  <2> QED BY <1>4, <2>1, <2>2
<1>9. TypeOK'
  BY <1>2, <1>6, <1>8 DEF IInv, TypeOK
<1>10. ClientWrote' /\ ClientRead'
  BY <1>2, <1>6 DEF IInv, ClientWrote, ClientRead
<1>11. ServerRead'
  <2>1. server' = "replying" => c2s'.decoded = 1 /\ Len(received') = 0
    BY <1>2, <1>3, <1>4, <1>6, <1>8
  <2> QED BY <2>1, <1>2, <1>3, <1>6, <1>7, <1>8 DEF ServerRead
<1>12. ServerWrote'
  <2>1. Len(s2c.sent) >= 1 => c2s.decoded > 0 /\ sessions = 1
    BY DEF IInv, ServerWrote
  <2> QED BY <2>1, <1>2, <1>7, <1>8 DEF IInv, ServerWrote
<1>13. ServerHearsAll' /\ ClientHearsAll'
  BY <1>2 DEF IInv, ServerHearsAll, ClientHearsAll
<1> QED BY <1>9, <1>10, <1>11, <1>12, <1>13 DEF IInv

\* Steps of the handshake that touch neither direction.
LEMMA ServerPhaseInv ==
  ASSUME IInv, UNCHANGED clientVars,
         UNCHANGED <<c2s, s2c, up, logins, sessions, retries, received>>,
         \/ server \in {"waiting", "replying", "replied"} /\ server' = "rejected"
         \/ server = "replied" /\ server' = "ready"
  PROVE  IInv'
<1>1. UNCHANGED <<client, responses>>
  BY DEF clientVars
<1>2. TypeOK'
  BY <1>1 DEF IInv, TypeOK
<1>3. ClientWrote' /\ ClientRead'
  BY <1>1 DEF IInv, ClientWrote, ClientRead
<1>4. received = << >> /\ Len(received) = 0
  BY DEF IInv, ServerRead
<1>5. ServerRead' /\ ServerWrote'
  BY <1>1, <1>4 DEF IInv, ServerRead, ServerWrote
<1>6. ServerHearsAll' /\ ClientHearsAll'
  BY <1>1 DEF IInv, ServerHearsAll, ClientHearsAll
<1> QED BY <1>2, <1>3, <1>5, <1>6 DEF IInv

\* CONNECTED is the first frame a server writes.
LEMMA WriteConnectedInv ==
  ASSUME IInv, WriteConnected, UNCHANGED clientVars
  PROVE  IInv'
<1>1. server = "replying" /\ server' = "replied" /\ s2c' = Put(s2c, Connected)
      /\ UNCHANGED <<c2s, up, logins, sessions, retries, received>>
      /\ UNCHANGED <<client, responses>>
  BY DEF WriteConnected, clientVars
<1>2. LinkOK(s2c, ServerFrames) /\ Connected \in ServerFrames
  BY FrameKinds DEF IInv, TypeOK
<1>3. Len(s2c.sent) = 0
  BY <1>1 DEF IInv, ServerWrote
<1>4. /\ LinkOK(s2c', ServerFrames)
      /\ s2c'.decoded = s2c.decoded
      /\ Len(s2c'.sent) = 1 /\ s2c'.sent[1] = Connected
  <2>1. /\ LinkOK(s2c', ServerFrames)
        /\ s2c'.decoded = s2c.decoded
        /\ Len(s2c'.sent) = Len(s2c.sent) + 1
        /\ s2c'.sent[Len(s2c.sent) + 1] = Connected
    BY <1>1, <1>2, PutEffect
  <2> QED BY <2>1, <1>3
<1>5. sessions = 1 /\ c2s.decoded > 0
  <2>1. sessions = 1 /\ c2s.decoded # 0
    BY <1>1 DEF IInv, ServerRead
  <2>2. c2s.decoded \in Nat
    BY LinkFields DEF IInv, TypeOK
  <2> QED BY <2>1, <2>2
<1>6. TypeOK'
  BY <1>1, <1>4 DEF IInv, TypeOK
<1>7. ClientWrote' /\ ClientRead'
  BY <1>1, <1>4 DEF IInv, ClientWrote, ClientRead
<1>8. ServerRead'
  BY <1>1 DEF IInv, ServerRead
<1>9. ServerWrote'
  BY <1>1, <1>4, <1>5 DEF ServerWrote
<1>10. ServerHearsAll' /\ ClientHearsAll'
  BY <1>1 DEF IInv, ServerHearsAll, ClientHearsAll
<1> QED BY <1>6, <1>7, <1>8, <1>9, <1>10 DEF IInv

\* Each later one is a MESSAGE in its place.
LEMMA SendMessageInv ==
  ASSUME IInv, SendMessage, UNCHANGED clientVars
  PROVE  IInv'
<1> DEFINE k == Len(s2c.sent)
<1>1. server = "ready" /\ s2c' = Put(s2c, MessageFrame(k + 1))
      /\ UNCHANGED <<c2s, up, server, logins, sessions, retries, received>>
      /\ UNCHANGED <<client, responses>>
  BY DEF SendMessage, clientVars
<1>2. LinkOK(s2c, ServerFrames) /\ k \in Nat /\ k >= 1
      /\ MessageFrame(k + 1) \in ServerFrames
  <2>1. LinkOK(s2c, ServerFrames) /\ k >= 1
    BY <1>1 DEF IInv, TypeOK, ServerWrote
  <2>2. k \in Nat
    BY <2>1, LinkFields
  <2>3. k + 1 \in Nat
    BY <2>2
  <2> QED BY <2>1, <2>2, <2>3, FrameKinds
<1>3. /\ LinkOK(s2c', ServerFrames)
      /\ s2c'.decoded = s2c.decoded
      /\ Len(s2c'.sent) = k + 1
      /\ s2c'.sent[k + 1] = MessageFrame(k + 1)
      /\ \A i \in 1..k : s2c'.sent[i] = s2c.sent[i]
  BY <1>1, <1>2, PutEffect
<1>4. s2c'.sent[1] = s2c.sent[1]
  BY <1>2, <1>3
<1>5. TypeOK'
  BY <1>1, <1>3 DEF IInv, TypeOK
<1>6. ClientWrote' /\ ClientRead'
  BY <1>1, <1>3 DEF IInv, ClientWrote, ClientRead
<1>7. ServerRead'
  BY <1>1 DEF IInv, ServerRead
<1>8. ServerWrote'
  <2>1. \A i \in 2..Len(s2c'.sent) : s2c'.sent[i] = MessageFrame(i)
    <3> SUFFICES ASSUME NEW i \in 2..(k + 1) PROVE s2c'.sent[i] = MessageFrame(i)
      BY <1>3
    <3>1. CASE i = k + 1
      BY <3>1, <1>3
    <3>2. CASE i # k + 1
      <4>1. i \in 2..k /\ i \in 1..k
        BY <3>2, <1>2
      <4> QED BY <4>1, <1>3 DEF IInv, ServerWrote
    <3> QED BY <3>1, <3>2
  <2> QED BY <2>1, <1>1, <1>2, <1>3, <1>4 DEF IInv, ServerWrote
<1>9. ServerHearsAll' /\ ClientHearsAll'
  BY <1>1 DEF IInv, ServerHearsAll, ClientHearsAll
<1> QED BY <1>5, <1>6, <1>7, <1>8, <1>9 DEF IInv

\* The next message received is the frame behind those that were read.
LEMMA ReadDataInv ==
  ASSUME IInv, ReadData, UNCHANGED clientVars
  PROVE  IInv'
<1> DEFINE k == c2s.decoded + 1
<1>1. PICK got \in 1..Len(c2s.sent) :
        /\ Readable(c2s, got)
        /\ IF Front(c2s).cmd = "malformed"
           THEN c2s' = Fill(c2s, got) /\ UNCHANGED received
           ELSE c2s' = Decode(c2s, got) /\ received' = Append(received, Front(c2s))
  BY DEF ReadData
<1>2. server = "ready" /\ UNCHANGED <<s2c, up, server, logins, sessions, retries>>
      /\ UNCHANGED <<client, responses>>
  BY DEF ReadData, clientVars
<1>3. LinkOK(c2s, ClientFrames) /\ received \in Seq(ClientFrames)
      /\ Len(received) = c2s.decoded - 1
  BY <1>2 DEF IInv, TypeOK, ServerRead
<1>4. /\ c2s.decoded \in Nat /\ Len(received) \in Nat /\ c2s.decoded > 0
      /\ k = Len(received) + 2
  BY <1>3, LinkFields
<1>5. Front(c2s) = SendFrame(k) /\ Front(c2s) \in ClientFrames
      /\ Front(c2s).cmd = "SEND"
  BY <1>1, <1>4, LaterFrame
<1>6. c2s' = Decode(c2s, got) /\ received' = Append(received, Front(c2s))
  BY <1>1, <1>5
<1>7. /\ LinkOK(c2s', ClientFrames)
      /\ c2s'.sent = c2s.sent /\ c2s'.decoded = k
  BY <1>1, <1>3, <1>6, DecodeEffect
<1>8. /\ Len(received') = Len(received) + 1
      /\ received' \in Seq(ClientFrames)
      /\ \A i \in 1..Len(received') :
            received'[i] = IF i = Len(received) + 1 THEN Front(c2s)
                                                    ELSE received[i]
  BY <1>3, <1>5, <1>6
<1>9. TypeOK'
  BY <1>2, <1>7, <1>8 DEF IInv, TypeOK
<1>10. ClientWrote' /\ ClientRead'
  BY <1>2, <1>7 DEF IInv, ClientWrote, ClientRead
<1>11. ServerRead'
  <2>1. k > 0 /\ Len(received') = k - 1
    BY <1>4, <1>8
  <2> QED BY <2>1, <1>2, <1>4, <1>7 DEF IInv, ServerRead
<1>12. ServerWrote' /\ ClientHearsAll'
  <2>1. c2s'.decoded > 0
    BY <1>4, <1>7
  <2> QED BY <2>1, <1>2 DEF IInv, ServerWrote, ClientHearsAll
<1>13. ServerHearsAll'
  <2> SUFFICES ASSUME NEW i \in 1..Len(received')
               PROVE  received'[i] = SendFrame(i + 1)
    BY DEF ServerHearsAll
  <2>1. CASE i = Len(received) + 1
    <3>1. i + 1 = k
      BY <2>1, <1>4
    <3> QED BY <2>1, <3>1, <1>5, <1>8
  <2>2. CASE i # Len(received) + 1
    <3>1. i \in 1..Len(received)
      BY <2>2, <1>4, <1>8
    <3> QED BY <2>2, <3>1, <1>8 DEF IInv, ServerHearsAll
  <2> QED BY <2>1, <2>2
<1> QED BY <1>9, <1>10, <1>11, <1>12, <1>13 DEF IInv

\* A buffer that is thrown away never held the client's CONNECT alone: if the
\* first frame has arrived, it has been decoded.
LEMMA RetryInv ==
  ASSUME IInv, Retry, UNCHANGED clientVars
  PROVE  IInv'
<1>1. server = "rejected" /\ server' = "waiting" /\ retries' = retries + 1
      /\ c2s' = EmptyBuffer(c2s)
      /\ UNCHANGED <<s2c, up, logins, sessions, received>>
      /\ UNCHANGED <<client, responses>>
  BY DEF Retry, clientVars
<1>2. LinkOK(c2s, ClientFrames)
  BY DEF IInv, TypeOK
<1>3. /\ LinkOK(c2s', ClientFrames)
      /\ c2s'.sent = c2s.sent
      /\ c2s'.arrived = c2s.arrived /\ c2s'.decoded = c2s.arrived
  BY <1>1, <1>2, EmptyBufferEffect
<1>4. /\ c2s.decoded = 0 => c2s'.decoded = 0
      /\ c2s.decoded > 0 => c2s'.decoded > 0
      /\ c2s.decoded = 0 \/ c2s.decoded > 0
      /\ c2s'.arrived = 0 \/ c2s'.decoded > 0
  <2>1. /\ c2s.arrived \in Nat /\ c2s.decoded \in Nat
        /\ c2s.decoded <= c2s.arrived
    BY <1>2, LinkFields
  <2>2. c2s.arrived = 0 \/ c2s.decoded > 0
    BY DEF IInv, ServerRead
  <2> QED BY <2>1, <2>2, <1>3
<1>5. TypeOK'
  <2>1. retries' \in Nat
    BY <1>1 DEF IInv, TypeOK
  <2> QED BY <2>1, <1>1, <1>3 DEF IInv, TypeOK
<1>6. ClientWrote' /\ ClientRead'
  BY <1>1, <1>3 DEF IInv, ClientWrote, ClientRead
<1>7. ServerRead'
  <2>1. c2s'.decoded = 0 => c2s.decoded = 0
    BY <1>3, <1>4
  <2>2. c2s'.decoded > 0 => c2s.decoded > 0
    BY <1>3, <1>4
  <2> QED BY <2>1, <2>2, <1>1, <1>3, <1>4 DEF IInv, ServerRead
<1>8. ServerWrote'
  BY <1>1, <1>3, <1>4 DEF IInv, ServerWrote
<1>9. ServerHearsAll' /\ ClientHearsAll'
  BY <1>1 DEF IInv, ServerHearsAll, ClientHearsAll
<1> QED BY <1>5, <1>6, <1>7, <1>8, <1>9 DEF IInv

\* The server goes.
LEMMA DropServerInv ==
  ASSUME IInv, DropServer, UNCHANGED clientVars
  PROVE  IInv'
<1>1. server' = "gone" /\ s2c' = Shut(s2c)
      /\ UNCHANGED <<c2s, up, logins, sessions, retries, received>>
      /\ UNCHANGED <<client, responses>>
  BY DEF DropServer, clientVars
<1>2. /\ LinkOK(s2c', ServerFrames)
      /\ s2c'.sent = s2c.sent /\ s2c'.decoded = s2c.decoded
  BY <1>1, ShutEffect DEF IInv, TypeOK
<1>3. TypeOK'
  BY <1>1, <1>2 DEF IInv, TypeOK
<1>4. ClientWrote' /\ ClientRead'
  BY <1>1, <1>2 DEF IInv, ClientWrote, ClientRead
<1>5. ServerRead' /\ ServerWrote'
  BY <1>1, <1>2 DEF IInv, ServerRead, ServerWrote
<1>6. ServerHearsAll' /\ ClientHearsAll'
  BY <1>1 DEF IInv, ServerHearsAll, ClientHearsAll
<1> QED BY <1>3, <1>4, <1>5, <1>6 DEF IInv

-----------------------------------------------------------------------------
(***************************************************************************)
(* The inductive invariant.                                                *)
(***************************************************************************)

\* It holds at the start.
LEMMA InitInv == Init => IInv
<1> SUFFICES ASSUME Init PROVE IInv
  OBVIOUS
<1>1. /\ c2s = NewLink /\ s2c = NewLink /\ up = TRUE
      /\ client = "start" /\ responses = << >>
      /\ server = "waiting" /\ logins = << >> /\ sessions = 0 /\ retries = 0
      /\ received = << >>
  BY DEF Init, ConnectionInit, ClientInit, ServerInit
<1>2. /\ NewLink.sent = << >> /\ NewLink.arrived = 0 /\ NewLink.decoded = 0
      /\ Len(NewLink.sent) = 0
      /\ LinkOK(NewLink, ClientFrames) /\ LinkOK(NewLink, ServerFrames)
  BY DEF NewLink, LinkOK
<1>3. TypeOK
  BY <1>1, <1>2 DEF TypeOK
<1>4. ClientWrote /\ ClientRead /\ ServerRead /\ ServerWrote
  BY <1>1, <1>2 DEF ClientWrote, ClientRead, ServerRead, ServerWrote
<1>5. ServerHearsAll /\ ClientHearsAll
  BY <1>1 DEF ServerHearsAll, ClientHearsAll
<1> QED BY <1>3, <1>4, <1>5 DEF IInv

\* The client keeps it.
LEMMA ClientNextInv ==
  ASSUME IInv, ClientNext, UNCHANGED serverVars
  PROVE  IInv'
<1>1. CASE WriteConnect
  BY <1>1, WriteConnectInv
<1>2. CASE AwaitConnected
  BY <1>2, AwaitConnectedInv
<1>3. CASE AwaitConnectedClosed
  BY <1>3, ClientLeavesInv DEF AwaitConnectedClosed
<1>4. CASE GiveUpConnect
  BY <1>4, ClientLeavesInv DEF GiveUpConnect
<1>5. CASE ClientSendMessage
  BY <1>5, ClientSendMessageInv
<1>6. CASE ReadResponse
  BY <1>6, ReadResponseInv
<1>7. CASE DropClient
  BY <1>7, ClientLeavesInv DEF DropClient
<1> QED BY <1>1, <1>2, <1>3, <1>4, <1>5, <1>6, <1>7 DEF ClientNext

\* The server keeps it.
LEMMA ServerNextInv ==
  ASSUME IInv, ServerNext, UNCHANGED clientVars
  PROVE  IInv'
<1>1. CASE HandshakeFrame
  BY <1>1, HandshakeFrameInv
<1>2. CASE HandshakeOther
  BY <1>2, ServerPhaseInv DEF HandshakeOther
<1>3. CASE HandshakeClosed
  BY <1>3, ServerPhaseInv DEF HandshakeClosed
<1>4. CASE WriteConnected
  BY <1>4, WriteConnectedInv
<1>5. CASE WriteConnectedOk
  BY <1>5, ServerPhaseInv DEF WriteConnectedOk
<1>6. CASE WriteConnectedErr
  BY <1>6, ServerPhaseInv DEF WriteConnectedErr
<1>7. CASE SendMessage
  BY <1>7, SendMessageInv
<1>8. CASE ReadData
  BY <1>8, ReadDataInv
<1>9. CASE Retry
  BY <1>9, RetryInv
<1>10. CASE DropServer
  BY <1>10, DropServerInv
<1> QED BY <1>1, <1>2, <1>3, <1>4, <1>5, <1>6, <1>7, <1>8, <1>9, <1>10
        DEF ServerNext

\* Neither end moves: the connection breaks, or nothing happens.
LEMMA QuietInv ==
  ASSUME IInv, UNCHANGED <<c2s, s2c, clientVars, serverVars>>, up' \in BOOLEAN
  PROVE  IInv'
<1>1. UNCHANGED <<client, responses, server, logins, sessions, retries, received>>
  BY DEF clientVars, serverVars
<1>2. TypeOK'
  BY <1>1 DEF IInv, TypeOK
<1>3. ClientWrote' /\ ClientRead' /\ ServerRead' /\ ServerWrote'
  BY <1>1 DEF IInv, ClientWrote, ClientRead, ServerRead, ServerWrote
<1>4. ServerHearsAll' /\ ClientHearsAll'
  BY <1>1 DEF IInv, ServerHearsAll, ClientHearsAll
<1> QED BY <1>2, <1>3, <1>4 DEF IInv

\* Every step keeps it.
LEMMA NextInv == IInv /\ [Next]_vars => IInv'
<1> SUFFICES ASSUME IInv, [Next]_vars PROVE IInv'
  OBVIOUS
<1>1. CASE ClientStep(ClientNext)
  BY <1>1, ClientNextInv DEF ClientStep
<1>2. CASE ServerStep(ServerNext)
  BY <1>2, ServerNextInv DEF ServerStep
<1>3. CASE Break /\ UNCHANGED <<clientVars, serverVars>>
  BY <1>3, QuietInv DEF Break
<1>4. CASE UNCHANGED vars
  BY <1>4, QuietInv DEF vars, IInv, TypeOK
<1> QED BY <1>1, <1>2, <1>3, <1>4 DEF Next

\* IInv holds of every state of every connection.
THEOREM Invariance == Spec => []IInv
<1> QED BY InitInv, NextInv, PTL DEF Spec

-----------------------------------------------------------------------------
(***************************************************************************)
(* What a connection guarantees.                                           *)
(***************************************************************************)

\* Each end, the connection and what they have read keep their types; no
\* frame is decoded before it has arrived or arrives before it was written.
THEOREM TypeCorrect == Spec => []TypeOK
<1>1. IInv => TypeOK
  BY DEF IInv
<1> QED BY <1>1, Invariance, PTL

\* The server's application is handed no frame of the handshake, and none of
\* the client's frames twice or out of its turn.
THEOREM ServerHears == Spec => []ServerHearsAll
<1>1. IInv => ServerHearsAll
  BY DEF IInv
<1> QED BY <1>1, Invariance, PTL

\* The same for the client's application: nothing that arrives behind
\* CONNECTED, in the same chunk for example, is lost with the handshake.
THEOREM ClientHears == Spec => []ClientHearsAll
<1>1. IInv => ClientHearsAll
  BY DEF IInv
<1> QED BY <1>1, Invariance, PTL

\* However often a server tries again on a connection, it creates a session
\* at most once, and for a login that handle_login accepted.
THEOREM SessionsAreForLogins == Spec => []SessionPerLogin
<1>1. IInv => SessionPerLogin
  <2> SUFFICES ASSUME IInv PROVE SessionPerLogin
    OBVIOUS
  <2>1. c2s.decoded \in Nat
    BY LinkFields DEF IInv, TypeOK
  <2>2. CASE c2s.decoded = 0
    BY <2>2 DEF IInv, ServerRead, SessionPerLogin
  <2>3. CASE c2s.decoded > 0
    <3>1. logins = <<c2s.sent[1].login>> /\ Len(logins) = 1
          /\ logins[1] = c2s.sent[1].login
      BY <2>3 DEF IInv, ServerRead
    <3>2. sessions = IF c2s.sent[1].login \in Accepted THEN 1 ELSE 0
      BY <2>3 DEF IInv, ServerRead
    <3> QED BY <3>1, <3>2 DEF SessionPerLogin
  <2> QED BY <2>1, <2>2, <2>3
<1> QED BY <1>1, Invariance, PTL

\* CONNECTED goes out once, and before anything else.
THEOREM ConnectedComesFirst == Spec => []OneConnected
<1>1. IInv => OneConnected
  <2> SUFFICES ASSUME IInv, NEW i \in 1..Len(s2c.sent)
               PROVE  s2c.sent[i] = Connected <=> i = 1
    BY DEF OneConnected
  <2>1. Len(s2c.sent) \in Nat
    BY LinkFields DEF IInv, TypeOK
  <2>2. CASE i = 1
    <3>1. Len(s2c.sent) >= 1
      BY <2>1, <2>2
    <3> QED BY <2>2, <3>1 DEF IInv, ServerWrote
  <2>3. CASE i # 1
    <3>1. i \in 2..Len(s2c.sent) /\ i \in Nat
      BY <2>1, <2>3
    <3>2. s2c.sent[i] = MessageFrame(i)
      BY <3>1 DEF IInv, ServerWrote
    <3> QED BY <2>3, <3>1, <3>2, FrameKinds
  <2> QED BY <2>2, <2>3
<1> QED BY <1>1, Invariance, PTL

\* A client's handle stands for a session that the server has created for the
\* credentials this client presented.
THEOREM HandlesAgree == Spec => []Agreement
<1>1. IInv => Agreement
  <2> SUFFICES ASSUME IInv, client \in {"ready", "gone"}
               PROVE  /\ logins = <<c2s.sent[1].login>>
                      /\ c2s.sent[1].login \in Accepted
                      /\ sessions = 1
                      /\ s2c.sent # << >> /\ s2c.sent[1] = Connected
    BY DEF Agreement
  <2>1. Len(s2c.sent) >= 1
    <3>1. Len(responses) = s2c.decoded - 1 /\ Len(responses) \in Nat
      BY DEF IInv, TypeOK, ClientRead
    <3>2. /\ s2c.decoded \in Nat /\ s2c.arrived \in Nat /\ Len(s2c.sent) \in Nat
          /\ s2c.decoded <= s2c.arrived /\ s2c.arrived <= Len(s2c.sent)
      BY LinkFields DEF IInv, TypeOK
    <3> QED BY <3>1, <3>2
  <2>2. c2s.decoded > 0 /\ sessions = 1 /\ s2c.sent[1] = Connected
    BY <2>1 DEF IInv, ServerWrote
  <2>3. logins = <<c2s.sent[1].login>>
        /\ sessions = IF c2s.sent[1].login \in Accepted THEN 1 ELSE 0
    BY <2>2 DEF IInv, ServerRead
  <2>4. s2c.sent # << >>
    BY <2>1
  <2> QED BY <2>2, <2>3, <2>4
<1> QED BY <1>1, Invariance, PTL

-----------------------------------------------------------------------------
(***************************************************************************)
(* What an end says is what it writes behind its frame of the handshake.   *)
(***************************************************************************)

\* The frames behind the first one.
LEMMA BehindFrames ==
  ASSUME NEW Frames, NEW s \in Seq(Frames), Len(s) >= 1
  PROVE  /\ Behind(s) \in Seq(Frames)
         /\ Len(Behind(s)) = Len(s) - 1
         /\ \A i \in 1..(Len(s) - 1) : Behind(s)[i] = s[i + 1]
<1>1. s # << >>
  OBVIOUS
<1>2. Behind(s) = Tail(s)
  BY <1>1, TailIsSubSeq DEF Behind
<1>3. /\ Tail(s) \in Seq(Frames)
      /\ Len(Tail(s)) = Len(s) - 1
      /\ \A i \in 1..Len(Tail(s)) : Tail(s)[i] = s[i + 1]
  BY <1>1, HeadTailProperties
<1> QED BY <1>2, <1>3

\* The first frame says nothing.
LEMMA BehindFirst ==
  ASSUME NEW Frames, NEW s \in Seq(Frames), Len(s) <= 1
  PROVE  Behind(s) = << >>
BY SubSeqEmpty DEF Behind

\* Any other frame is one word more.
LEMMA BehindAppend ==
  ASSUME NEW Frames, NEW s \in Seq(Frames), NEW f \in Frames, Len(s) >= 1
  PROVE  Behind(Append(s, f)) = Append(Behind(s), f)
<1> DEFINE t == Append(s, f)
<1>1. /\ t \in Seq(Frames) /\ Len(t) = Len(s) + 1
      /\ Len(s) \in Nat
      /\ \A i \in 1..Len(s) : t[i] = s[i]
      /\ t[Len(s) + 1] = f
  OBVIOUS
<1>2. /\ Behind(s) \in Seq(Frames)
      /\ Len(Behind(s)) = Len(s) - 1
      /\ \A i \in 1..(Len(s) - 1) : Behind(s)[i] = s[i + 1]
  BY BehindFrames
<1>3. /\ Behind(t) \in Seq(Frames)
      /\ Len(Behind(t)) = Len(s)
      /\ \A i \in 1..Len(s) : Behind(t)[i] = t[i + 1]
  <2>1. Len(t) >= 1 /\ Len(t) - 1 = Len(s)
    BY <1>1
  <2> HIDE DEF t
  <2> QED BY <1>1, <2>1, BehindFrames
<1>4. /\ Append(Behind(s), f) \in Seq(Frames)
      /\ Len(Append(Behind(s), f)) = Len(s)
      /\ \A i \in 1..(Len(s) - 1) : Append(Behind(s), f)[i] = Behind(s)[i]
      /\ Append(Behind(s), f)[Len(s)] = f
  <2>1. Len(Behind(s)) + 1 = Len(s)
    BY <1>1, <1>2
  <2> QED BY <1>2, <2>1, AppendProperties
<1>5. ASSUME NEW i \in 1..Len(s) PROVE Behind(t)[i] = Append(Behind(s), f)[i]
  <2> HIDE DEF t
  <2>1. CASE i = Len(s)
    BY <1>1, <1>3, <1>4, <2>1
  <2>2. CASE i # Len(s)
    <3>1. i \in 1..(Len(s) - 1) /\ i + 1 \in 1..Len(s)
      BY <1>1, <2>2
    <3> QED BY <1>1, <1>2, <1>3, <1>4, <3>1
  <2> QED BY <2>1, <2>2
<1>6. Behind(t) = Append(Behind(s), f)
  <2> HIDE DEF t
  <2> QED BY <1>1, <1>3, <1>4, <1>5, SeqEqual
<1> QED BY <1>6

-----------------------------------------------------------------------------
(***************************************************************************)
(* The steps, by what they do in Conversation.                             *)
(***************************************************************************)

\* Conversation sees only what was written, what was read and who was let in.
LEMMA Unseen ==
  ASSUME c2s'.sent = c2s.sent, s2c'.sent = s2c.sent,
         UNCHANGED <<logins, sessions, received, responses>>,
         Joined' = Joined
  PROVE  UNCHANGED Talk!vars
<1>1. Presented' = Presented
  BY DEF Presented
<1>2. Granted' = Granted
  BY DEF Granted
<1>3. Behind(c2s.sent)' = Behind(c2s.sent) /\ Behind(s2c.sent)' = Behind(s2c.sent)
  BY DEF Behind
<1> QED BY <1>1, <1>2, <1>3 DEF Talk!vars

\* At first nothing was said.
LEMMA InitTalk == Init => Talk!Init
<1> SUFFICES ASSUME Init PROVE Talk!Init
  OBVIOUS
<1>1. c2s.sent = << >> /\ s2c.sent = << >>
  BY DEF Init, ConnectionInit, NewLink
<1>2. Behind(c2s.sent) = << >> /\ Behind(s2c.sent) = << >>
  BY <1>1, SubSeqEmpty DEF Behind
<1>3. sessions = 0 /\ received = << >> /\ responses = << >> /\ client = "start"
  BY DEF Init, ClientInit, ServerInit
<1> QED BY <1>1, <1>2, <1>3 DEF Talk!Init, Presented, Granted, Joined

\* The client's CONNECT presents its credentials.
LEMMA WriteConnectTalk ==
  ASSUME IInv, WriteConnect, UNCHANGED serverVars
  PROVE  Talk!Present
<1>1. LinkOK(c2s, ClientFrames) /\ c2s.sent = << >>
  BY DEF IInv, TypeOK, ClientWrote, WriteConnect
<1>2. PICK login \in Credentials : c2s' = Put(c2s, Connect(login))
  BY DEF WriteConnect
<1>3. Connect(login) \in ClientFrames /\ Connect(login).login = login
  BY DEF Connect, ClientFrames
<1>4. c2s'.sent = Append(c2s.sent, Connect(login))
  BY <1>1, <1>2, <1>3, PutEffect
<1>5. /\ c2s'.sent = <<Connect(login)>> /\ c2s'.sent # << >>
      /\ Len(c2s'.sent) <= 1 /\ c2s'.sent \in Seq(ClientFrames)
  BY <1>1, <1>3, <1>4
<1>6. Presented = {} /\ Presented' = {login}
  BY <1>1, <1>3, <1>5 DEF Presented
<1>7. Behind(c2s.sent)' = Behind(c2s.sent)
  <2>1. Behind(c2s.sent) = << >>
    BY <1>1, SubSeqEmpty DEF Behind
  <2>2. Behind(c2s'.sent) = << >>
    BY <1>5, BehindFirst
  <2> QED BY <2>1, <2>2
<1>8. /\ UNCHANGED <<logins, sessions, received, s2c, responses>>
      /\ Joined' = Joined
  BY DEF WriteConnect, serverVars, Joined
<1>9. Granted' = Granted /\ Behind(s2c.sent)' = Behind(s2c.sent)
  BY <1>8 DEF Granted, Behind
<1> QED BY <1>6, <1>7, <1>8, <1>9 DEF Talk!Present, Talk!said

\* CONNECTED makes the client's handle, and a session was granted before.
LEMMA AwaitConnectedTalk ==
  ASSUME IInv, AwaitConnected, UNCHANGED serverVars
  PROVE  Talk!Join \/ UNCHANGED Talk!vars
<1>1. PICK got \in 1..Len(s2c.sent) :
        /\ Readable(s2c, got)
        /\ s2c' = Decode(s2c, got)
        /\ IF Front(s2c).cmd = "CONNECTED"
           THEN client' = "ready" /\ UNCHANGED c2s
           ELSE client' = "failed" /\ c2s' = Shut(c2s)
  BY DEF AwaitConnected
<1>2. LinkOK(c2s, ClientFrames) /\ LinkOK(s2c, ServerFrames)
  BY DEF IInv, TypeOK
<1>3. s2c'.sent = s2c.sent /\ c2s'.sent = c2s.sent /\ Len(s2c.sent) \in Nat
  BY <1>1, <1>2, DecodeEffect, ShutEffect, LinkFields
<1>4. /\ UNCHANGED <<logins, sessions, received, responses>>
      /\ client = "connecting"
  BY DEF AwaitConnected, serverVars
<1>5. CASE Front(s2c).cmd = "CONNECTED"
  <2>1. ~ Joined /\ Joined'
    BY <1>1, <1>4, <1>5 DEF Joined
  <2>2. sessions = 1 /\ Len(logins) = 1
    <3>1. Len(s2c.sent) >= 1
      BY <1>1, <1>3
    <3> QED BY <3>1 DEF IInv, ServerWrote, ServerRead
  <2>3. Granted # {}
    BY <2>2 DEF Granted
  <2>4. /\ Presented' = Presented /\ Granted' = Granted
        /\ Behind(c2s.sent)' = Behind(c2s.sent)
        /\ Behind(s2c.sent)' = Behind(s2c.sent)
    BY <1>3, <1>4 DEF Presented, Granted, Behind
  <2> QED BY <1>4, <2>1, <2>3, <2>4 DEF Talk!Join, Talk!said
<1>6. CASE Front(s2c).cmd # "CONNECTED"
  <2>1. Joined' = Joined
    BY <1>1, <1>4, <1>6 DEF Joined
  <2> QED BY <1>3, <1>4, <2>1, Unseen
<1> QED BY <1>5, <1>6

\* A client that gives up, or leaves, says and hears nothing.
LEMMA ClientLeavesTalk ==
  ASSUME IInv, UNCHANGED serverVars,
         AwaitConnectedClosed \/ GiveUpConnect \/ DropClient
  PROVE  UNCHANGED Talk!vars
<1>1. /\ c2s' = Shut(c2s) /\ UNCHANGED <<s2c, responses>>
      /\ \/ client \in {"start", "connecting"} /\ client' = "failed"
         \/ client = "ready" /\ client' = "gone"
  BY DEF AwaitConnectedClosed, GiveUpConnect, DropClient
<1>2. c2s'.sent = c2s.sent
  BY <1>1, ShutEffect DEF IInv, TypeOK
<1>3. Joined' = Joined
  BY <1>1 DEF Joined
<1> QED BY <1>1, <1>2, <1>3, Unseen DEF serverVars

\* send_message of the client.
LEMMA ClientSendMessageTalk ==
  ASSUME IInv, ClientSendMessage, UNCHANGED serverVars
  PROVE  Talk!ClientSpeaks
<1> DEFINE f == SendFrame(Len(c2s.sent) + 1)
<1>1. /\ LinkOK(c2s, ClientFrames) /\ Len(c2s.sent) \in Nat
      /\ c2s.sent \in Seq(ClientFrames) /\ Len(c2s.sent) >= 1
  BY LinkFields DEF IInv, TypeOK, ClientWrote, ClientSendMessage
<1>2. f \in ClientFrames
  BY <1>1 DEF ClientFrames, SendFrame
<1>3. c2s' = Put(c2s, f) /\ Len(c2s.sent) < ClientSends
  BY DEF ClientSendMessage
<1>4. /\ c2s'.sent = Append(c2s.sent, f)
      /\ Len(c2s'.sent) = Len(c2s.sent) + 1
      /\ c2s'.sent[1] = c2s.sent[1]
  <2>1. 1 \in 1..Len(c2s.sent)
    BY <1>1
  <2> QED BY <1>1, <1>2, <1>3, <2>1, PutEffect
<1>5. Behind(c2s.sent)' = Append(Behind(c2s.sent), f)
  <2>1. Behind(c2s'.sent) = Append(Behind(c2s.sent), f)
    BY <1>1, <1>2, <1>4, BehindAppend
  <2> QED BY <2>1
<1>6. Len(c2s.sent) + 1 \in 2..ClientSends
  BY <1>1, <1>3, ClientSendsAssumption
<1>7. /\ UNCHANGED <<logins, sessions, received, s2c, responses>>
      /\ Joined /\ Joined' = Joined
  BY DEF ClientSendMessage, serverVars, Joined
<1>8. Presented' = Presented
  <2>1. c2s.sent # << >> /\ c2s'.sent # << >>
    BY <1>1, <1>4
  <2> QED BY <1>4, <2>1 DEF Presented
<1>9. Granted' = Granted /\ Behind(s2c.sent)' = Behind(s2c.sent)
  BY <1>7 DEF Granted, Behind
<1> QED BY <1>5, <1>6, <1>7, <1>8, <1>9 DEF Talk!ClientSpeaks

\* read_response: the client hears the next word.
LEMMA ReadResponseTalk ==
  ASSUME IInv, ReadResponse, UNCHANGED serverVars
  PROVE  Talk!ClientHears
<1>1. PICK got \in 1..Len(s2c.sent) :
        /\ Readable(s2c, got)
        /\ s2c' = Decode(s2c, got)
        /\ responses' = Append(responses, Front(s2c))
  BY DEF ReadResponse
<1>2. client = "ready" /\ UNCHANGED <<c2s, client>> /\ UNCHANGED serverVars
  BY DEF ReadResponse
<1>3. LinkOK(s2c, ServerFrames)
  BY DEF IInv, TypeOK
<1>4. /\ s2c'.sent = s2c.sent
      /\ s2c.decoded + 1 \in 1..Len(s2c.sent)
      /\ Front(s2c) = s2c.sent[s2c.decoded + 1]
  BY <1>1, <1>3, DecodeEffect
<1>5. /\ Len(responses) = s2c.decoded - 1 /\ Len(responses) \in Nat
      /\ s2c.decoded \in Nat
      /\ s2c.sent \in Seq(ServerFrames) /\ Len(s2c.sent) \in Nat
  BY <1>2, <1>3, LinkFields DEF IInv, TypeOK, ClientRead
<1>6. /\ Len(Behind(s2c.sent)) = Len(s2c.sent) - 1
      /\ \A i \in 1..(Len(s2c.sent) - 1) : Behind(s2c.sent)[i] = s2c.sent[i + 1]
  <2>1. Len(s2c.sent) >= 1
    BY <1>4, <1>5
  <2> QED BY <1>5, <2>1, BehindFrames
<1>7. /\ Len(responses) < Len(Behind(s2c.sent))
      /\ Front(s2c) = Behind(s2c.sent)[Len(responses) + 1]
  <2>1. /\ Len(responses) + 1 \in 1..(Len(s2c.sent) - 1)
        /\ Len(responses) + 1 + 1 = s2c.decoded + 1
    BY <1>4, <1>5
  <2>2. Behind(s2c.sent)[Len(responses) + 1] = s2c.sent[Len(responses) + 1 + 1]
    BY <1>6, <2>1
  <2> QED BY <1>4, <1>5, <1>6, <2>1, <2>2
<1>8. /\ Presented' = Presented /\ Granted' = Granted
      /\ Behind(c2s.sent)' = Behind(c2s.sent)
      /\ Behind(s2c.sent)' = Behind(s2c.sent)
      /\ Joined /\ Joined' = Joined /\ received' = received
  BY <1>2, <1>4 DEF Presented, Granted, Behind, Joined, serverVars
<1> QED BY <1>1, <1>7, <1>8 DEF Talk!ClientHears

-----------------------------------------------------------------------------

\* A refused or a broken handshake grants nothing, and an accepted one what
\* was presented.
LEMMA HandshakeFrameTalk ==
  ASSUME IInv, HandshakeFrame, UNCHANGED clientVars
  PROVE  Talk!Grant \/ UNCHANGED Talk!vars
<1> DEFINE f == Front(c2s)
           first == c2s.sent[1]
<1>1. PICK got \in 1..Len(c2s.sent) :
        /\ Readable(c2s, got)
        /\ c2s' = IF f.cmd = "malformed" THEN Fill(c2s, got)
                                         ELSE Decode(c2s, got)
        /\ IF f.cmd = "CONNECT"
           THEN HandshakeConnect(f)
           ELSE server' = "rejected" /\ UNCHANGED <<logins, sessions>>
  BY DEF HandshakeFrame
<1>2. LinkOK(c2s, ClientFrames) /\ c2s.decoded \in Nat
      /\ c2s.sent \in Seq(ClientFrames) /\ Len(c2s.sent) \in Nat
  BY LinkFields DEF IInv, TypeOK
<1>3. /\ UNCHANGED <<s2c, received, responses>> /\ Joined' = Joined
      /\ UNCHANGED client
  BY DEF HandshakeFrame, clientVars, Joined
<1>4. c2s'.sent = c2s.sent
  BY <1>1, <1>2, DecodeEffect, FillEffect
<1>5. CASE UNCHANGED <<logins, sessions>>
  BY <1>3, <1>4, <1>5, Unseen
<1>6. CASE c2s.decoded > 0
  <2>1. f.cmd = "SEND"
    BY <1>1, <1>6, LaterFrame
  <2> QED BY <1>1, <1>5, <2>1
<1>7. CASE c2s.decoded = 0
  <2>1. /\ f = first /\ f.cmd = "CONNECT" /\ f.versions = {"1.2"}
        /\ logins = << >> /\ sessions = 0
    BY <1>1, <1>7, FirstFrame DEF IInv, ServerRead
  <2>2. /\ logins' = <<first.login>>
        /\ \/ first.login \notin Accepted /\ sessions' = 0
           \/ first.login \in Accepted /\ sessions' = 1
    <3>1. HandshakeConnect(f) /\ "1.2" \in f.versions
      BY <1>1, <2>1
    <3> QED BY <2>1, <3>1 DEF HandshakeConnect
  <2>3. c2s.sent # << >>
    BY <1>1, <1>2
  <2>4. Presented = {first.login} /\ Presented' = Presented
    BY <1>4, <2>3 DEF Presented
  <2>5. /\ Behind(c2s.sent)' = Behind(c2s.sent)
        /\ Behind(s2c.sent)' = Behind(s2c.sent)
    BY <1>3, <1>4 DEF Behind
  <2>6. Granted = {}
    BY <2>1 DEF Granted
  <2>7. CASE first.login \in Accepted /\ sessions' = 1
    <3>1. Granted' = {first.login}
      BY <2>2, <2>7 DEF Granted
    <3> QED BY <1>3, <2>4, <2>5, <2>6, <2>7, <3>1 DEF Talk!Grant, Talk!said
  <2>8. CASE first.login \notin Accepted /\ sessions' = 0
    <3>1. Granted' = {}
      BY <2>8 DEF Granted
    <3> QED BY <1>3, <2>4, <2>5, <2>6, <3>1 DEF Talk!vars
  <2> QED BY <2>2, <2>7, <2>8
<1> QED BY <1>2, <1>6, <1>7

\* The server's CONNECTED says nothing.
LEMMA WriteConnectedTalk ==
  ASSUME IInv, WriteConnected, UNCHANGED clientVars
  PROVE  UNCHANGED Talk!vars
<1>1. /\ LinkOK(s2c, ServerFrames) /\ s2c.sent = << >>
      /\ s2c' = Put(s2c, Connected) /\ Connected \in ServerFrames
  BY DEF IInv, TypeOK, ServerWrote, WriteConnected, ServerFrames
<1>2. s2c'.sent = Append(s2c.sent, Connected)
  BY <1>1, PutEffect
<1>3. s2c'.sent \in Seq(ServerFrames) /\ Len(s2c'.sent) <= 1
  BY <1>1, <1>2
<1>4. Behind(s2c.sent)' = Behind(s2c.sent)
  <2>1. Behind(s2c.sent) = << >>
    BY <1>1, SubSeqEmpty DEF Behind
  <2>2. Behind(s2c'.sent) = << >>
    BY <1>3, BehindFirst
  <2> QED BY <2>1, <2>2
<1>5. UNCHANGED <<c2s, logins, sessions, received, client, responses>>
  BY DEF WriteConnected, clientVars
<1>6. /\ Presented' = Presented /\ Granted' = Granted /\ Joined' = Joined
      /\ Behind(c2s.sent)' = Behind(c2s.sent)
  BY <1>5 DEF Presented, Granted, Joined, Behind
<1> QED BY <1>4, <1>5, <1>6 DEF Talk!vars

\* send_message of the server.
LEMMA SendMessageTalk ==
  ASSUME IInv, SendMessage, UNCHANGED clientVars
  PROVE  Talk!ServerSpeaks
<1> DEFINE f == MessageFrame(Len(s2c.sent) + 1)
<1>1. /\ LinkOK(s2c, ServerFrames) /\ Len(s2c.sent) \in Nat
      /\ s2c.sent \in Seq(ServerFrames) /\ Len(s2c.sent) >= 1
  BY LinkFields DEF IInv, TypeOK, ServerWrote, SendMessage
<1>2. f \in ServerFrames
  BY <1>1 DEF ServerFrames, MessageFrame
<1>3. s2c' = Put(s2c, f) /\ Len(s2c.sent) < ServerSends
  BY DEF SendMessage
<1>4. s2c'.sent = Append(s2c.sent, f)
  BY <1>1, <1>2, <1>3, PutEffect
<1>5. Behind(s2c.sent)' = Append(Behind(s2c.sent), f)
  <2>1. Behind(s2c'.sent) = Append(Behind(s2c.sent), f)
    BY <1>1, <1>2, <1>4, BehindAppend
  <2> QED BY <2>1
<1>6. Len(s2c.sent) + 1 \in 2..ServerSends
  BY <1>1, <1>3, ServerSendsAssumption
<1>7. UNCHANGED <<c2s, logins, sessions, received, client, responses>>
  BY DEF SendMessage, clientVars
<1>8. Granted # {}
  <2>1. sessions = 1 /\ Len(logins) = 1
    BY <1>1 DEF IInv, ServerWrote, ServerRead
  <2> QED BY <2>1 DEF Granted
<1>9. /\ Presented' = Presented /\ Granted' = Granted /\ Joined' = Joined
      /\ Behind(c2s.sent)' = Behind(c2s.sent)
  BY <1>7 DEF Presented, Granted, Joined, Behind
<1> QED BY <1>5, <1>6, <1>7, <1>8, <1>9 DEF Talk!ServerSpeaks

\* read_data: the server hears the next word.
LEMMA ReadDataTalk ==
  ASSUME IInv, ReadData, UNCHANGED clientVars
  PROVE  Talk!ServerHears
<1>1. PICK got \in 1..Len(c2s.sent) :
        /\ Readable(c2s, got)
        /\ IF Front(c2s).cmd = "malformed"
           THEN c2s' = Fill(c2s, got) /\ UNCHANGED received
           ELSE /\ c2s' = Decode(c2s, got)
                /\ received' = Append(received, Front(c2s))
  BY DEF ReadData
<1>2. /\ server = "ready"
      /\ UNCHANGED <<s2c, logins, sessions, client, responses>>
  BY DEF ReadData, clientVars
<1>3. LinkOK(c2s, ClientFrames)
  BY DEF IInv, TypeOK
<1>4. /\ c2s.decoded + 1 \in 1..Len(c2s.sent)
      /\ Front(c2s) = c2s.sent[c2s.decoded + 1]
      /\ Front(c2s).cmd # "malformed"
  BY <1>1, <1>3, DecodeEffect, FrameKinds
<1>5. c2s' = Decode(c2s, got) /\ received' = Append(received, Front(c2s))
  BY <1>1, <1>4
<1>6. c2s'.sent = c2s.sent
  BY <1>1, <1>3, <1>5, DecodeEffect
<1>7. /\ Len(received) = c2s.decoded - 1 /\ Len(received) \in Nat
      /\ c2s.decoded \in Nat
      /\ c2s.sent \in Seq(ClientFrames) /\ Len(c2s.sent) \in Nat
  BY <1>2, <1>3, LinkFields DEF IInv, TypeOK, ServerRead
<1>8. /\ Len(Behind(c2s.sent)) = Len(c2s.sent) - 1
      /\ \A i \in 1..(Len(c2s.sent) - 1) : Behind(c2s.sent)[i] = c2s.sent[i + 1]
  <2>1. Len(c2s.sent) >= 1
    BY <1>4, <1>7
  <2> QED BY <1>7, <2>1, BehindFrames
<1>9. /\ Len(received) < Len(Behind(c2s.sent))
      /\ Front(c2s) = Behind(c2s.sent)[Len(received) + 1]
  <2>1. /\ Len(received) + 1 \in 1..(Len(c2s.sent) - 1)
        /\ Len(received) + 1 + 1 = c2s.decoded + 1
    BY <1>4, <1>7
  <2>2. Behind(c2s.sent)[Len(received) + 1] = c2s.sent[Len(received) + 1 + 1]
    BY <1>8, <2>1
  <2> QED BY <1>4, <1>7, <1>8, <2>1, <2>2
<1>10. /\ Presented' = Presented /\ Granted' = Granted /\ Joined' = Joined
       /\ Behind(c2s.sent)' = Behind(c2s.sent)
       /\ Behind(s2c.sent)' = Behind(s2c.sent)
  BY <1>2, <1>6 DEF Presented, Granted, Behind, Joined
<1> QED BY <1>2, <1>5, <1>9, <1>10 DEF Talk!ServerHears

\* The other steps of the server say, hear and grant nothing.
LEMMA ServerPhaseTalk ==
  ASSUME IInv, UNCHANGED clientVars,
         \/ HandshakeOther \/ HandshakeClosed
         \/ WriteConnectedOk \/ WriteConnectedErr
         \/ Retry \/ DropServer
  PROVE  UNCHANGED Talk!vars
<1>1. UNCHANGED <<logins, sessions, received, client, responses>>
  BY DEF HandshakeOther, HandshakeClosed, WriteConnectedOk, WriteConnectedErr,
         Retry, DropServer, clientVars
<1>2. LinkOK(c2s, ClientFrames) /\ LinkOK(s2c, ServerFrames)
  BY DEF IInv, TypeOK
<1>3. /\ c2s' = c2s \/ c2s' = EmptyBuffer(c2s)
      /\ s2c' = s2c \/ s2c' = Shut(s2c)
  BY DEF HandshakeOther, HandshakeClosed, WriteConnectedOk, WriteConnectedErr,
         Retry, DropServer
<1>4. c2s'.sent = c2s.sent /\ s2c'.sent = s2c.sent
  BY <1>2, <1>3, EmptyBufferEffect, ShutEffect
<1>5. Joined' = Joined
  BY <1>1 DEF Joined
<1> QED BY <1>1, <1>4, <1>5, Unseen

-----------------------------------------------------------------------------

\* Every step of a connection is one of Conversation, or says nothing.
LEMMA NextTalk == IInv /\ [Next]_vars => [Talk!Next]_(Talk!vars)
<1> SUFFICES ASSUME IInv, [Next]_vars
             PROVE  Talk!Next \/ UNCHANGED Talk!vars
  OBVIOUS
<1>1. CASE ClientStep(ClientNext)
  <2>1. UNCHANGED serverVars /\ ClientNext
    BY <1>1 DEF ClientStep
  <2>2. CASE WriteConnect
    BY <2>1, <2>2, WriteConnectTalk DEF Talk!Next
  <2>3. CASE AwaitConnected
    BY <2>1, <2>3, AwaitConnectedTalk DEF Talk!Next
  <2>4. CASE AwaitConnectedClosed \/ GiveUpConnect \/ DropClient
    BY <2>1, <2>4, ClientLeavesTalk
  <2>5. CASE ClientSendMessage
    BY <2>1, <2>5, ClientSendMessageTalk DEF Talk!Next
  <2>6. CASE ReadResponse
    BY <2>1, <2>6, ReadResponseTalk DEF Talk!Next
  <2> QED BY <2>1, <2>2, <2>3, <2>4, <2>5, <2>6 DEF ClientNext
<1>2. CASE ServerStep(ServerNext)
  <2>1. UNCHANGED clientVars /\ ServerNext
    BY <1>2 DEF ServerStep
  <2>2. CASE HandshakeFrame
    BY <2>1, <2>2, HandshakeFrameTalk DEF Talk!Next
  <2>3. CASE WriteConnected
    BY <2>1, <2>3, WriteConnectedTalk
  <2>4. CASE SendMessage
    BY <2>1, <2>4, SendMessageTalk DEF Talk!Next
  <2>5. CASE ReadData
    BY <2>1, <2>5, ReadDataTalk DEF Talk!Next
  <2>6. CASE \/ HandshakeOther \/ HandshakeClosed
             \/ WriteConnectedOk \/ WriteConnectedErr
             \/ Retry \/ DropServer
    BY <2>1, <2>6, ServerPhaseTalk
  <2> QED BY <2>1, <2>2, <2>3, <2>4, <2>5, <2>6 DEF ServerNext
<1>3. CASE Break /\ UNCHANGED <<clientVars, serverVars>>
  BY <1>3, Unseen DEF Break, clientVars, serverVars, Joined
<1>4. CASE UNCHANGED vars
  BY <1>4, Unseen DEF vars, clientVars, serverVars, Joined
<1> QED BY <1>1, <1>2, <1>3, <1>4 DEF Next

\* ClientStompHandle and ServerStompHandle keep the promise of Conversation:
\* whatever is retried, given up or broken, a client has its handle only once
\* its own credentials were granted a session, and neither end misses,
\* repeats or reorders what the other says behind the handshake.
THEOREM HandlesKeepTheirPromise == Spec => ImplementsConversation
<1>1. Init => Talk!Init
  BY InitTalk
<1>2. IInv /\ [Next]_vars => [Talk!Next]_(Talk!vars)
  BY NextTalk
<1> QED BY <1>1, <1>2, Invariance, PTL DEF Spec, ImplementsConversation, Talk!Spec

=============================================================================
