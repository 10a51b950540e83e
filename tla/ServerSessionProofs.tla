------------------------- MODULE ServerSessionProofs -------------------------
(***************************************************************************)
(* Proofs about ServerSession: what a server's handle guarantees to its    *)
(* application whatever the client at the other end does, for any frames   *)
(* that a client may offer and any number of frames and attempts.          *)
(***************************************************************************)
EXTENDS ServerSession, ConnectionProofs, FiniteSetTheorems

Frames == Offers \cup UNION {OtherFrames(n) : n \in Nat}

Replies == {Connected} \cup [cmd : {"MESSAGE"}, n : Nat]

Logins == {f.login : f \in Offers}

Types ==
    /\ LinkOK(c2s, Frames)
    /\ LinkOK(s2c, Replies)
    /\ logins \in Seq(Logins)
    /\ sessions \in Nat
    /\ received \in Seq(Frames)

\* Nothing is read before there is a handle, and while CONNECTED is on its
\* way the last frame that was decoded is the CONNECT that was accepted.
ReadsOn ==
    /\ server \notin {"ready", "gone"} => received = << >>
    /\ server \in {"replying", "replied"} =>
        c2s.decoded > 0 /\ Opens(c2s.sent[c2s.decoded])
    /\ ReadsOnFromConnect

\* A session whose CONNECTED is not yet on the wire is still to be answered.
Counted ==
    /\ sessions = Cardinality(Where(logins, Accepted))
    /\ Cardinality(Where(s2c.sent, {Connected}))
        + (IF server = "replying" THEN 1 ELSE 0) <= sessions

IInv == Types /\ ReadsOn /\ LoginsAreOffered /\ Counted

-----------------------------------------------------------------------------

\* Of the frames of a client only the offered ones are CONNECT frames.
LEMMA ConnectsAreOffers ==
  ASSUME NEW f \in Frames, f.cmd = "CONNECT"
  PROVE  f \in Offers
<1>1. ASSUME NEW n \in Nat, f \in OtherFrames(n) PROVE FALSE
  BY <1>1 DEF OtherFrames
<1> QED BY <1>1 DEF Frames

\* A place is added for an element of the set, and none for another.
LEMMA WhereAppend ==
  ASSUME NEW S, NEW s \in Seq(S), NEW f \in S, NEW T
  PROVE  /\ IsFiniteSet(Where(s, T))
         /\ Cardinality(Where(s, T)) \in Nat
         /\ Cardinality(Where(Append(s, f), T)) =
                Cardinality(Where(s, T)) + IF f \in T THEN 1 ELSE 0
<1>1. IsFiniteSet(1..Len(s)) /\ Where(s, T) \in SUBSET (1..Len(s))
  BY FS_Interval DEF Where
<1>2. IsFiniteSet(Where(s, T))
  BY <1>1, FS_Subset
<1>3. Cardinality(Where(s, T)) \in Nat
  BY <1>2, FS_CardinalityType
<1>4. Where(Append(s, f), T) =
        Where(s, T) \cup IF f \in T THEN {Len(s) + 1} ELSE {}
  <2>1. /\ Len(Append(s, f)) = Len(s) + 1 /\ Len(s) \in Nat
        /\ \A i \in 1..Len(s) : Append(s, f)[i] = s[i]
        /\ Append(s, f)[Len(s) + 1] = f
    OBVIOUS
  <2>2. 1..(Len(s) + 1) = (1..Len(s)) \cup {Len(s) + 1}
    BY <2>1
  <2> QED BY <2>1, <2>2 DEF Where
<1>5. Len(s) + 1 \notin Where(s, T)
  BY DEF Where
<1>6. CASE f \in T
  <2>1. Where(Append(s, f), T) = Where(s, T) \cup {Len(s) + 1}
    BY <1>4, <1>6
  <2>2. Cardinality(Where(s, T) \cup {Len(s) + 1}) = Cardinality(Where(s, T)) + 1
    BY <1>2, <1>5, FS_AddElement
  <2> QED BY <1>2, <1>3, <1>6, <2>1, <2>2
<1>7. CASE f \notin T
  <2>1. Where(Append(s, f), T) = Where(s, T)
    BY <1>4, <1>7
  <2> QED BY <1>2, <1>3, <1>7, <2>1
<1> QED BY <1>6, <1>7

\* What was offered stays offered while more is written and decoded.
LEMMA OfferedStays ==
  ASSUME Types, LoginsAreOffered, logins' = logins,
         c2s'.decoded \in Nat, c2s.decoded <= c2s'.decoded,
         \A i \in 1..Len(c2s.sent) : c2s'.sent[i] = c2s.sent[i]
  PROVE  LoginsAreOffered'
<1>1. PICK at \in [1..Len(logins) -> 1..c2s.decoded] :
        /\ \A i, j \in 1..Len(logins) : i < j => at[i] < at[j]
        /\ \A i \in 1..Len(logins) :
            /\ c2s.sent[at[i]].cmd = "CONNECT"
            /\ "1.2" \in c2s.sent[at[i]].versions
            /\ c2s.sent[at[i]].login = logins[i]
  BY DEF LoginsAreOffered
<1>2. /\ c2s.decoded \in Nat /\ c2s.arrived \in Nat /\ Len(c2s.sent) \in Nat
      /\ c2s.decoded <= c2s.arrived /\ c2s.arrived <= Len(c2s.sent)
  BY LinkFields DEF Types
<1>3. \A i \in 1..Len(logins) :
        at[i] \in 1..Len(c2s.sent) /\ at[i] \in 1..c2s'.decoded
  BY <1>1, <1>2
<1>4. at \in [1..Len(logins) -> 1..c2s'.decoded]
  BY <1>1, <1>3
<1>5. \A i \in 1..Len(logins) :
        /\ c2s'.sent[at[i]].cmd = "CONNECT"
        /\ "1.2" \in c2s'.sent[at[i]].versions
        /\ c2s'.sent[at[i]].login = logins[i]
  BY <1>1, <1>3
<1> QED BY <1>1, <1>4, <1>5 DEF LoginsAreOffered

-----------------------------------------------------------------------------

LEMMA InitInv == Init => IInv
<1> SUFFICES ASSUME Init PROVE IInv
  OBVIOUS
<1>1. /\ c2s = NewLink /\ s2c = NewLink /\ server = "waiting"
      /\ logins = << >> /\ sessions = 0 /\ received = << >>
  BY DEF Init, ConnectionInit, ServerInit
<1>2. Types
  BY <1>1 DEF Types, LinkOK, NewLink
<1>3. ReadsOn
  BY <1>1 DEF ReadsOn, ReadsOnFromConnect
<1>4. LoginsAreOffered
  <2> DEFINE at == [i \in 1..Len(logins) |-> 1]
  <2>1. \A i \in 1..Len(logins) : FALSE
    BY <1>1
  <2>2. at \in [1..Len(logins) -> 1..c2s.decoded]
    BY <2>1
  <2> HIDE DEF at
  <2> QED BY <2>1, <2>2 DEF LoginsAreOffered
<1>5. Counted
  <2>1. Where(logins, Accepted) = {} /\ Where(s2c.sent, {Connected}) = {}
    BY <1>1 DEF Where, NewLink
  <2>2. /\ Cardinality(Where(logins, Accepted)) = 0
        /\ Cardinality(Where(s2c.sent, {Connected})) = 0
    BY <2>1, FS_EmptySet, Zenon
  <2> QED BY <1>1, <2>2 DEF Counted
<1> QED BY <1>2, <1>3, <1>4, <1>5 DEF IInv

\* The client writes one more frame.
LEMMA ClientWriteInv ==
  ASSUME IInv, ClientWrite
  PROVE  IInv'
<1>1. PICK f \in Offers \cup OtherFrames(Len(c2s.sent) + 1) : c2s' = Put(c2s, f)
  BY DEF ClientWrite
<1>2. /\ LinkOK(c2s, Frames)
      /\ c2s.decoded \in Nat /\ c2s.arrived \in Nat /\ Len(c2s.sent) \in Nat
      /\ c2s.decoded <= c2s.arrived /\ c2s.arrived <= Len(c2s.sent)
  BY LinkFields DEF IInv, Types
<1>3. f \in Frames
  BY <1>1, <1>2 DEF Frames
<1>4. /\ LinkOK(c2s', Frames)
      /\ c2s'.decoded = c2s.decoded
      /\ \A i \in 1..Len(c2s.sent) : c2s'.sent[i] = c2s.sent[i]
  BY <1>1, <1>2, <1>3, PutEffect
<1>5. UNCHANGED <<s2c, server, logins, sessions, received>>
  BY DEF ClientWrite, serverVars
<1>6. Types'
  BY <1>4, <1>5 DEF IInv, Types
<1>7. ReadsOn'
  <2>1. server \in {"replying", "replied"} =>
          c2s'.decoded > 0 /\ Opens(c2s'.sent[c2s'.decoded])
    BY <1>2, <1>4 DEF IInv, ReadsOn
  <2>2. ASSUME server = "ready"
        PROVE  LET first == c2s'.decoded - Len(received) IN
               /\ first > 0
               /\ Opens(c2s'.sent[first])
               /\ \A i \in 1..Len(received) : received[i] = c2s'.sent[first + i]
    <3> DEFINE first == c2s.decoded - Len(received)
    <3>1. Len(received) \in Nat
      BY DEF IInv, Types
    <3>2. /\ first > 0 /\ Opens(c2s.sent[first])
          /\ \A i \in 1..Len(received) : received[i] = c2s.sent[first + i]
      BY <2>2 DEF IInv, ReadsOn, ReadsOnFromConnect
    <3>3. first \in 1..Len(c2s.sent)
          /\ \A i \in 1..Len(received) : first + i \in 1..Len(c2s.sent)
      BY <1>2, <3>1, <3>2
    <3> QED BY <1>4, <3>2, <3>3
  <2> QED BY <1>5, <2>1, <2>2 DEF IInv, ReadsOn, ReadsOnFromConnect
<1>8. LoginsAreOffered'
  BY <1>2, <1>4, <1>5, OfferedStays DEF IInv
<1>9. Counted'
  BY <1>5 DEF IInv, Counted
<1> QED BY <1>6, <1>7, <1>8, <1>9 DEF IInv

\* Steps that change neither what was written or decoded nor the sessions.
LEMMA QuietInv ==
  ASSUME IInv, LinkOK(c2s', Frames), LinkOK(s2c', Replies),
         c2s'.sent = c2s.sent, c2s'.decoded = c2s.decoded, s2c'.sent = s2c.sent,
         UNCHANGED <<logins, sessions, received>>,
         \/ server' = server
         \/ server' = "gone"
         \/ server \notin {"ready", "gone"} /\ server' = "rejected"
         \/ server = "replied" /\ server' = "ready"
  PROVE  IInv'
<1>1. /\ c2s.decoded \in Nat /\ c2s.arrived \in Nat /\ Len(c2s.sent) \in Nat
      /\ c2s.decoded <= c2s.arrived /\ c2s.arrived <= Len(c2s.sent)
      /\ sessions \in Nat
  BY LinkFields DEF IInv, Types
<1>2. Types'
  BY DEF IInv, Types
<1>3. ReadsOn'
  <2>1. server = "replied" => received = << >> /\ Len(received) = 0
    BY DEF IInv, ReadsOn
  <2>2. CASE server = "replied" /\ server' = "ready"
    <3>1. c2s.decoded - Len(received) = c2s.decoded
      BY <1>1, <2>1, <2>2
    <3> QED BY <2>1, <2>2, <3>1 DEF IInv, ReadsOn, ReadsOnFromConnect
  <2>3. CASE server' = server
    BY <2>3 DEF IInv, ReadsOn, ReadsOnFromConnect
  <2>4. CASE server' = "gone"
    BY <2>4 DEF ReadsOn, ReadsOnFromConnect
  <2>5. CASE server' = "rejected"
    BY <2>5 DEF IInv, ReadsOn, ReadsOnFromConnect
  <2> QED BY <2>2, <2>3, <2>4, <2>5
<1>4. LoginsAreOffered'
  BY <1>1, OfferedStays DEF IInv
<1>5. Counted'
  <2>1. /\ Where(logins', Accepted) = Where(logins, Accepted)
        /\ Where(s2c'.sent, {Connected}) = Where(s2c.sent, {Connected})
    OBVIOUS
  <2>2. Cardinality(Where(s2c.sent, {Connected})) \in Nat
    <3>1. s2c.sent \in Seq(Replies) /\ Connected \in Replies
      BY LinkFields DEF IInv, Types, Replies
    <3> QED BY <3>1, WhereAppend
  <2>3. server' = "replying" => server = "replying"
    OBVIOUS
  <2> QED BY <1>1, <2>1, <2>2, <2>3 DEF IInv, Counted
<1> QED BY <1>2, <1>3, <1>4, <1>5 DEF IInv

\* The handshake takes one frame: the client's next one, whatever it is.
LEMMA HandshakeFrameInv ==
  ASSUME IInv, HandshakeFrame
  PROVE  IInv'
<1> DEFINE f == Front(c2s)
<1>1. PICK got \in 1..Len(c2s.sent) :
        /\ Readable(c2s, got)
        /\ c2s' = IF f.cmd = "malformed" THEN Fill(c2s, got)
                                         ELSE Decode(c2s, got)
        /\ IF f.cmd = "CONNECT"
           THEN HandshakeConnect(f)
           ELSE server' = "rejected" /\ UNCHANGED <<logins, sessions>>
  BY DEF HandshakeFrame
<1>2. server = "waiting" /\ UNCHANGED <<s2c, received>> /\ received = << >>
  BY DEF HandshakeFrame, IInv, ReadsOn
<1>3. /\ LinkOK(c2s, Frames) /\ LinkOK(s2c, Replies)
      /\ c2s.decoded \in Nat /\ Len(c2s.sent) \in Nat
      /\ logins \in Seq(Logins) /\ Len(logins) \in Nat /\ sessions \in Nat
  BY LinkFields DEF IInv, Types
<1>4. /\ f = c2s.sent[c2s.decoded + 1] /\ f \in Frames
      /\ c2s.decoded + 1 \in 1..Len(c2s.sent)
  BY <1>1, <1>3, DecodeEffect
<1>5. /\ LinkOK(c2s', Frames) /\ c2s'.sent = c2s.sent
      /\ c2s'.decoded \in {c2s.decoded, c2s.decoded + 1}
      /\ f.cmd # "malformed" => c2s'.decoded = c2s.decoded + 1
  BY <1>1, <1>3, DecodeEffect, FillEffect
<1>6. c2s'.decoded \in Nat /\ c2s.decoded <= c2s'.decoded
  BY <1>3, <1>5
<1>7. CASE server' = "rejected" /\ UNCHANGED <<logins, sessions>>
  <2>1. Types'
    BY <1>2, <1>5, <1>7 DEF IInv, Types
  <2>2. ReadsOn'
    BY <1>2, <1>7 DEF ReadsOn, ReadsOnFromConnect
  <2>3. LoginsAreOffered'
    BY <1>5, <1>6, <1>7, OfferedStays DEF IInv
  <2>4. Counted'
    BY <1>2, <1>7 DEF IInv, Counted
  <2> QED BY <2>1, <2>2, <2>3, <2>4 DEF IInv
<1>8. CASE /\ f.cmd = "CONNECT" /\ "1.2" \in f.versions
           /\ logins' = Append(logins, f.login)
           /\ \/ /\ f.login \notin Accepted /\ server' = "rejected"
                 /\ sessions' = sessions
              \/ /\ f.login \in Accepted /\ server' = "replying"
                 /\ sessions' = sessions + 1
  <2>1. f \in Offers /\ f.login \in Logins
    BY <1>4, <1>8, ConnectsAreOffers DEF Logins
  <2>2. c2s'.decoded = c2s.decoded + 1
    BY <1>5, <1>8
  <2>3. Types'
    <3>1. logins' \in Seq(Logins) /\ sessions' \in Nat
      BY <1>3, <1>8, <2>1
    <3> QED BY <1>2, <1>5, <3>1 DEF IInv, Types
  <2>4. ReadsOn'
    <3>1. server' = "replying" =>
            c2s'.decoded > 0 /\ Opens(c2s'.sent[c2s'.decoded])
      BY <1>3, <1>4, <1>5, <1>8, <2>2 DEF Opens
    <3> QED BY <1>2, <1>8, <3>1 DEF ReadsOn, ReadsOnFromConnect
  <2>5. LoginsAreOffered'
    <3> DEFINE n == Len(logins)
               d == c2s.decoded + 1
    <3>1. PICK at \in [1..n -> 1..c2s.decoded] :
            /\ \A i, j \in 1..n : i < j => at[i] < at[j]
            /\ \A i \in 1..n :
                /\ c2s.sent[at[i]].cmd = "CONNECT"
                /\ "1.2" \in c2s.sent[at[i]].versions
                /\ c2s.sent[at[i]].login = logins[i]
      BY DEF IInv, LoginsAreOffered
    <3> DEFINE to == [i \in 1..(n + 1) |-> IF i = n + 1 THEN d ELSE at[i]]
    <3>2. /\ Len(logins') = n + 1 /\ logins'[n + 1] = f.login
          /\ \A i \in 1..n : logins'[i] = logins[i]
      BY <1>3, <1>8, <2>1
    <3>3. /\ \A i \in 1..(n + 1) : i \in 1..n \/ i = n + 1
          /\ \A i \in 1..n : i # n + 1 /\ i \in 1..(n + 1)
          /\ n + 1 \in 1..(n + 1)
      BY <1>3
    <3>4. to[n + 1] = d /\ \A i \in 1..n : to[i] = at[i]
      BY <3>3
    <3>5. /\ \A i \in 1..n : at[i] \in 1..d /\ at[i] < d /\ at[i] \in Nat
          /\ d \in 1..d
      BY <1>3, <3>1
    <3>6. to \in [1..(n + 1) -> 1..d]
      BY <3>1, <3>3, <3>5
    <3> HIDE DEF to, n, d
    <3>7. ASSUME NEW i \in 1..(n + 1), NEW j \in 1..(n + 1), i < j
          PROVE  to[i] < to[j]
      <4>1. i \in 1..n
        BY <1>3, <3>7 DEF n
      <4>2. CASE j = n + 1
        BY <3>4, <3>5, <4>1, <4>2
      <4>3. CASE j \in 1..n
        BY <3>1, <3>4, <3>7, <4>1, <4>3
      <4> QED BY <3>3, <4>2, <4>3
    <3>8. ASSUME NEW i \in 1..(n + 1)
          PROVE  /\ c2s'.sent[to[i]].cmd = "CONNECT"
                 /\ "1.2" \in c2s'.sent[to[i]].versions
                 /\ c2s'.sent[to[i]].login = logins'[i]
      <4>1. CASE i = n + 1
        BY <1>4, <1>5, <1>8, <3>2, <3>4, <4>1 DEF d
      <4>2. CASE i \in 1..n
        BY <1>5, <3>1, <3>2, <3>4, <4>2
      <4> QED BY <3>3, <4>1, <4>2
    <3>9. c2s'.decoded = d
      BY <2>2 DEF d
    <3> QED BY <3>2, <3>6, <3>7, <3>8, <3>9 DEF LoginsAreOffered
  <2>6. Counted'
    <3>1. Cardinality(Where(logins', Accepted)) =
            Cardinality(Where(logins, Accepted)) + IF f.login \in Accepted THEN 1 ELSE 0
      BY <1>3, <1>8, <2>1, WhereAppend
    <3>2. Where(s2c'.sent, {Connected}) = Where(s2c.sent, {Connected})
      BY <1>2
    <3>3. Cardinality(Where(s2c.sent, {Connected})) \in Nat
      <4>1. s2c.sent \in Seq(Replies) /\ Connected \in Replies
        BY <1>3, LinkFields DEF Replies
      <4> QED BY <4>1, WhereAppend
    <3>4. /\ sessions = Cardinality(Where(logins, Accepted))
          /\ Cardinality(Where(s2c.sent, {Connected})) <= sessions
      BY <1>2, <3>3 DEF IInv, Counted
    <3>5. sessions' = Cardinality(Where(logins', Accepted))
      BY <1>3, <1>8, <3>1, <3>4
    <3>6. Cardinality(Where(s2c.sent, {Connected}))
            + (IF server' = "replying" THEN 1 ELSE 0) <= sessions'
      BY <1>3, <1>8, <3>3, <3>4
    <3> QED BY <3>2, <3>5, <3>6 DEF Counted
  <2> QED BY <2>3, <2>4, <2>5, <2>6 DEF IInv
<1> QED BY <1>1, <1>7, <1>8 DEF HandshakeConnect

\* CONNECTED goes out for the session that was waiting for it.
LEMMA WriteConnectedInv ==
  ASSUME IInv, WriteConnected
  PROVE  IInv'
<1>1. /\ server = "replying" /\ server' = "replied" /\ s2c' = Put(s2c, Connected)
      /\ UNCHANGED <<c2s, logins, sessions, received>>
  BY DEF WriteConnected
<1>2. LinkOK(s2c, Replies) /\ s2c.sent \in Seq(Replies) /\ Connected \in Replies
  BY LinkFields DEF IInv, Types, Replies
<1>3. LinkOK(s2c', Replies) /\ s2c'.sent = Append(s2c.sent, Connected)
  <2>1. /\ LinkOK(Put(s2c, Connected), Replies)
        /\ Put(s2c, Connected).sent = Append(s2c.sent, Connected)
    BY <1>2, PutEffect
  <2> QED BY <1>1, <2>1
<1>4. Types'
  BY <1>1, <1>3 DEF IInv, Types
<1>5. ReadsOn'
  BY <1>1 DEF IInv, ReadsOn, ReadsOnFromConnect
<1>6. LoginsAreOffered'
  BY <1>1 DEF IInv, LoginsAreOffered
<1>7. Counted'
  <2>1. /\ Cardinality(Where(s2c.sent, {Connected})) \in Nat
        /\ Cardinality(Where(s2c'.sent, {Connected})) =
                Cardinality(Where(s2c.sent, {Connected})) + 1
    BY <1>2, <1>3, WhereAppend
  <2>2. Cardinality(Where(s2c.sent, {Connected})) + 1 <= sessions
    BY <1>1 DEF IInv, Counted
  <2>3. sessions' = Cardinality(Where(logins', Accepted))
    BY <1>1 DEF IInv, Counted
  <2> QED BY <1>1, <2>1, <2>2, <2>3 DEF IInv, Types, Counted
<1> QED BY <1>4, <1>5, <1>6, <1>7 DEF IInv

\* send_message writes no CONNECTED.
LEMMA SendMessageInv ==
  ASSUME IInv, SendMessage
  PROVE  IInv'
<1> DEFINE f == MessageFrame(Len(s2c.sent) + 1)
<1>1. /\ server = "ready" /\ s2c' = Put(s2c, f)
      /\ UNCHANGED <<c2s, server, logins, sessions, received>>
  BY DEF SendMessage
<1>2. LinkOK(s2c, Replies) /\ s2c.sent \in Seq(Replies) /\ Len(s2c.sent) \in Nat
  BY LinkFields DEF IInv, Types
<1>3. f \in Replies /\ f.cmd = "MESSAGE" /\ Connected.cmd = "CONNECTED"
  BY <1>2 DEF Replies, MessageFrame, Connected
<1>4. LinkOK(s2c', Replies) /\ s2c'.sent = Append(s2c.sent, f)
  <2> HIDE DEF f
  <2>1. /\ LinkOK(Put(s2c, f), Replies)
        /\ Put(s2c, f).sent = Append(s2c.sent, f)
    BY <1>2, <1>3, PutEffect
  <2> QED BY <1>1, <2>1
<1>5. Types'
  BY <1>1, <1>4 DEF IInv, Types
<1>6. ReadsOn'
  BY <1>1 DEF IInv, ReadsOn, ReadsOnFromConnect
<1>7. LoginsAreOffered'
  BY <1>1 DEF IInv, LoginsAreOffered
<1>8. Counted'
  <2>1. f # Connected
    BY <1>3
  <2>2. /\ Cardinality(Where(s2c.sent, {Connected})) \in Nat
        /\ Cardinality(Where(s2c'.sent, {Connected})) =
                Cardinality(Where(s2c.sent, {Connected})) + 0
    <3> HIDE DEF f
    <3> QED BY <1>2, <1>3, <1>4, <2>1, WhereAppend
  <2>3. Cardinality(Where(s2c'.sent, {Connected})) =
            Cardinality(Where(s2c.sent, {Connected}))
    BY <2>2
  <2> QED BY <1>1, <2>3 DEF IInv, Counted
<1> QED BY <1>5, <1>6, <1>7, <1>8 DEF IInv

\* read_data returns the frame behind those it has returned.
LEMMA ReadDataInv ==
  ASSUME IInv, ReadData
  PROVE  IInv'
<1>1. PICK got \in 1..Len(c2s.sent) :
        /\ Readable(c2s, got)
        /\ IF Front(c2s).cmd = "malformed"
           THEN c2s' = Fill(c2s, got) /\ UNCHANGED received
           ELSE /\ c2s' = Decode(c2s, got)
                /\ received' = Append(received, Front(c2s))
  BY DEF ReadData
<1>2. server = "ready" /\ UNCHANGED <<s2c, server, logins, sessions>>
  BY DEF ReadData
<1>3. /\ LinkOK(c2s, Frames) /\ LinkOK(s2c, Replies)
      /\ c2s.decoded \in Nat /\ Len(c2s.sent) \in Nat
      /\ received \in Seq(Frames) /\ Len(received) \in Nat
  BY LinkFields DEF IInv, Types
<1>4. CASE c2s' = Fill(c2s, got) /\ UNCHANGED received
  <2>1. /\ LinkOK(c2s', Frames)
        /\ c2s'.sent = c2s.sent /\ c2s'.decoded = c2s.decoded
    BY <1>1, <1>3, <1>4, FillEffect
  <2> QED BY <1>2, <1>3, <1>4, <2>1, QuietInv
<1>5. CASE c2s' = Decode(c2s, got) /\ received' = Append(received, Front(c2s))
  <2> DEFINE first == c2s.decoded - Len(received)
  <2>1. /\ LinkOK(c2s', Frames)
        /\ c2s'.sent = c2s.sent /\ c2s'.decoded = c2s.decoded + 1
        /\ Front(c2s) = c2s.sent[c2s.decoded + 1] /\ Front(c2s) \in Frames
    BY <1>1, <1>3, <1>5, DecodeEffect
  <2>2. Types'
    BY <1>2, <1>3, <1>5, <2>1 DEF IInv, Types
  <2>3. ReadsOn'
    <3>1. /\ first > 0 /\ Opens(c2s.sent[first])
          /\ \A i \in 1..Len(received) : received[i] = c2s.sent[first + i]
      BY <1>2 DEF IInv, ReadsOn, ReadsOnFromConnect
    <3>2. /\ Len(received') = Len(received) + 1
          /\ received'[Len(received) + 1] = Front(c2s)
          /\ \A i \in 1..Len(received) : received'[i] = received[i]
      BY <1>3, <1>5, <2>1
    <3>3. /\ c2s'.decoded - Len(received') = first
          /\ first + (Len(received) + 1) = c2s.decoded + 1
      BY <1>3, <2>1, <3>2
    <3>4. ASSUME NEW i \in 1..Len(received')
          PROVE  received'[i] = c2s'.sent[first + i]
      <4>1. CASE i = Len(received) + 1
        BY <2>1, <3>2, <3>3, <4>1
      <4>2. CASE i \in 1..Len(received)
        BY <2>1, <3>1, <3>2, <4>2
      <4> QED BY <1>3, <3>2, <4>1, <4>2
    <3>5. first > 0 /\ Opens(c2s'.sent[first])
      BY <2>1, <3>1
    <3> HIDE DEF first
    <3> QED BY <1>2, <3>3, <3>4, <3>5 DEF ReadsOn, ReadsOnFromConnect
  <2>4. LoginsAreOffered'
    <3>1. c2s'.decoded \in Nat /\ c2s.decoded <= c2s'.decoded
      BY <1>3, <2>1
    <3> QED BY <1>2, <2>1, <3>1, OfferedStays DEF IInv
  <2>5. Counted'
    BY <1>2 DEF IInv, Counted
  <2> QED BY <2>2, <2>3, <2>4, <2>5 DEF IInv
<1> QED BY <1>1, <1>4, <1>5

\* Another attempt begins with an empty buffer and without a handle.
LEMMA RetryInv ==
  ASSUME IInv, Retry
  PROVE  IInv'
<1>1. /\ server = "rejected" /\ server' = "waiting" /\ c2s' = EmptyBuffer(c2s)
      /\ UNCHANGED <<s2c, logins, sessions, received>>
  BY DEF Retry
<1>2. LinkOK(c2s, Frames) /\ c2s.arrived \in Nat /\ c2s.decoded <= c2s.arrived
  BY LinkFields DEF IInv, Types
<1>3. /\ LinkOK(c2s', Frames)
      /\ c2s'.sent = c2s.sent /\ c2s'.decoded = c2s.arrived
  BY <1>1, <1>2, EmptyBufferEffect
<1>4. Types'
  BY <1>1, <1>3 DEF IInv, Types
<1>5. ReadsOn'
  BY <1>1 DEF IInv, ReadsOn, ReadsOnFromConnect
<1>6. LoginsAreOffered'
  BY <1>1, <1>2, <1>3, OfferedStays DEF IInv
<1>7. Counted'
  BY <1>1 DEF IInv, Counted
<1> QED BY <1>4, <1>5, <1>6, <1>7 DEF IInv

\* Every step keeps it.
LEMMA NextInv == IInv /\ [Next]_vars => IInv'
<1> SUFFICES ASSUME IInv, [Next]_vars PROVE IInv'
  OBVIOUS
<1>1. LinkOK(c2s, Frames) /\ LinkOK(s2c, Replies)
  BY DEF IInv, Types
<1>2. CASE ClientWrite
  BY <1>2, ClientWriteInv
<1>3. CASE ClientClose
  <2>1. c2s' = Shut(c2s) /\ UNCHANGED <<s2c, server, logins, sessions, received>>
    BY <1>3 DEF ClientClose, serverVars
  <2>2. /\ LinkOK(c2s', Frames)
        /\ c2s'.sent = c2s.sent /\ c2s'.decoded = c2s.decoded
    BY <1>1, <2>1, ShutEffect
  <2> QED BY <1>1, <2>1, <2>2, QuietInv
<1>4. CASE HandshakeFrame
  BY <1>4, HandshakeFrameInv
<1>5. CASE HandshakeOther \/ HandshakeClosed \/ WriteConnectedOk \/ WriteConnectedErr
  <2>1. /\ UNCHANGED <<c2s, s2c, logins, sessions, received>>
        /\ \/ server \notin {"ready", "gone"} /\ server' = "rejected"
           \/ server = "replied" /\ server' = "ready"
    BY <1>5 DEF HandshakeOther, HandshakeClosed, WriteConnectedOk, WriteConnectedErr
  <2> QED BY <1>1, <2>1, QuietInv
<1>6. CASE WriteConnected
  BY <1>6, WriteConnectedInv
<1>7. CASE SendMessage
  BY <1>7, SendMessageInv
<1>8. CASE ReadData
  BY <1>8, ReadDataInv
<1>9. CASE Retry
  BY <1>9, RetryInv
<1>10. CASE DropServer
  <2>1. /\ s2c' = Shut(s2c) /\ server' = "gone"
        /\ UNCHANGED <<c2s, logins, sessions, received>>
    BY <1>10 DEF DropServer
  <2>2. LinkOK(s2c', Replies) /\ s2c'.sent = s2c.sent
    BY <1>1, <2>1, ShutEffect
  <2> QED BY <1>1, <2>1, <2>2, QuietInv
<1>11. CASE (Break /\ UNCHANGED serverVars) \/ UNCHANGED vars
  BY <1>1, <1>11, QuietInv DEF Break, serverVars, vars
<1> QED BY <1>2, <1>3, <1>4, <1>5, <1>6, <1>7, <1>8, <1>9, <1>10, <1>11
        DEF Next, ServerNext

\* IInv holds of every state of every connection.
THEOREM Invariance == Spec => []IInv
<1> QED BY InitInv, NextInv, PTL DEF Spec

-----------------------------------------------------------------------------
(***************************************************************************)
(* What a handle guarantees.                                               *)
(***************************************************************************)

\* A server's application reads on right behind a CONNECT whose version and
\* login were accepted, whatever the client wrote before it, and misses none
\* of what the client sent along with it.
THEOREM ReadingGoesOn == Spec => []ReadsOnFromConnect
<1>1. IInv => ReadsOnFromConnect
  BY DEF IInv, ReadsOn
<1> QED BY <1>1, Invariance, PTL

\* handle_login is asked only about clients that offer version 1.2, in the
\* order in which they offer it.
THEOREM LoginsWereOffered == Spec => []LoginsAreOffered
<1>1. IInv => LoginsAreOffered
  BY DEF IInv
<1> QED BY <1>1, Invariance, PTL

\* There are as many sessions as accepted logins, and no CONNECTED without a
\* session of its own, however often the server tries again and whichever
\* writes fail.
THEOREM SessionsAreCounted == Spec => []SessionsMatchLogins
<1>1. IInv => SessionsMatchLogins
  <2> SUFFICES ASSUME IInv PROVE SessionsMatchLogins
    OBVIOUS
  <2>1. Cardinality(Where(s2c.sent, {Connected})) \in Nat /\ sessions \in Nat
    <3>1. s2c.sent \in Seq(Replies) /\ Connected \in Replies /\ sessions \in Nat
      BY LinkFields DEF IInv, Types, Replies
    <3> QED BY <3>1, WhereAppend
  <2> QED BY <2>1 DEF IInv, Counted, SessionsMatchLogins
<1> QED BY <1>1, Invariance, PTL

==============================================================================
