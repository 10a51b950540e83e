------------------------- MODULE FrameParserProofs -------------------------
(***************************************************************************)
(* Proofs about parse_frame on a buffer that grows (GrowingBuffer) and on  *)
(* the bytes of a stream that is cut into chunks (WireReader).             *)
(*                                                                         *)
(* What one parse has decided, a parse of more bytes decides too: there is *)
(* a lemma per rule of the parser, which says where the rule can stop      *)
(* (...Range), that it stops there again (...Stable), and that it does the *)
(* same on the same symbols at another place (...Moves).  From these it    *)
(* follows that next() takes the frames the peer sent out of its buffer,   *)
(* however they arrive: the inductive invariant is WireInv.                *)
(*                                                                         *)
(* What the parser finds is what a grammar of frames calls one             *)
(* (FramesAreFound), and what it decides on the buffer, and when, is what  *)
(* BufferedTransport says of the same stream (IsBufferedTransport, along   *)
(* the invariant InStep).                                                  *)
(***************************************************************************)
EXTENDS GrowingBuffer, WireReader, Induction, SequenceTheorems, FiniteSetTheorems

\* g is s with more symbols behind it.
Extends(s, g) ==
    /\ Len(s) \in Nat
    /\ Len(g) \in Nat
    /\ Len(s) <= Len(g)
    /\ \A i \in 1..Len(s) : g[i] = s[i]

\* A part of s is a part of g.
LEMMA SubSeqStable ==
  ASSUME NEW s, NEW g, Extends(s, g), NEW a \in Nat, NEW b \in Nat,
         a > 0, b <= Len(s)
  PROVE  SubSeq(g, a, b) = SubSeq(s, a, b)
<1>1. \A i \in a..b : g[i] = s[i]
  BY DEF Extends
<1> QED BY <1>1

-----------------------------------------------------------------------------

\* Until stops at the first symbol to stop at, or at the end.
LEMMA UntilRange ==
  ASSUME NEW s, Len(s) \in Nat, NEW p \in 0..Len(s), NEW stops
  PROVE  /\ Until(s, p, stops) \in p..Len(s)
         /\ Until(s, p, stops) < Len(s) => s[Until(s, p, stops) + 1] \in stops
         /\ \A r \in p..(Until(s, p, stops) - 1) : s[r + 1] \notin stops
<1> DEFINE X == {Len(s)} \cup {q \in p..(Len(s) - 1) : s[q + 1] \in stops}
<1>1. X \in SUBSET Nat /\ X # {}
  OBVIOUS
<1>2. PICK q \in X : \A y \in X : q <= y
  BY <1>1, LeastNat
<1>3. \E r \in p..Len(s) :
        /\ r = Len(s) \/ s[r + 1] \in stops
        /\ \A x \in p..(r - 1) : s[x + 1] \notin stops
  <2>1. q \in p..Len(s) /\ (q = Len(s) \/ s[q + 1] \in stops)
    OBVIOUS
  <2>2. \A r \in p..(q - 1) : s[r + 1] \notin stops
    BY <1>2
  <2> QED BY <2>1, <2>2
<1>4. /\ Until(s, p, stops) \in p..Len(s)
      /\ Until(s, p, stops) = Len(s) \/ s[Until(s, p, stops) + 1] \in stops
      /\ \A x \in p..(Until(s, p, stops) - 1) : s[x + 1] \notin stops
  BY <1>3, Zenon DEF Until
<1> QED BY <1>4

\* If it does not stop at the end, it stops at the same symbol when there are
\* more, and when the same symbols are to be stopped at.
LEMMA UntilStable ==
  ASSUME NEW s, NEW g, Extends(s, g), NEW p \in 0..Len(s), NEW S, NEW T,
         \A i \in 1..Len(s) : s[i] \in S <=> s[i] \in T,
         Until(s, p, S) < Len(s)
  PROVE  Until(g, p, T) = Until(s, p, S)
<1> DEFINE q == Until(s, p, S)
           r == Until(g, p, T)
<1>1. /\ q \in p..Len(s) /\ q < Len(s) /\ s[q + 1] \in S
      /\ \A x \in p..(q - 1) : s[x + 1] \notin S
  BY UntilRange DEF Extends
<1>2. /\ r \in p..Len(g)
      /\ r < Len(g) => g[r + 1] \in T
      /\ \A x \in p..(r - 1) : g[x + 1] \notin T
  BY UntilRange DEF Extends
<1> HIDE DEF q, r
<1>3. q + 1 \in 1..Len(s) /\ g[q + 1] = s[q + 1]
  BY <1>1 DEF Extends
<1>4. ~ (r < q)
  <2> SUFFICES ASSUME r < q PROVE FALSE
    OBVIOUS
  <2>1. r + 1 \in 1..Len(s) /\ g[r + 1] = s[r + 1] /\ r \in p..(q - 1) /\ r < Len(g)
    BY <1>1, <1>2 DEF Extends
  <2> QED BY <1>1, <1>2, <2>1
<1>5. ~ (q < r)
  BY <1>1, <1>2, <1>3
<1>6. q = r
  BY <1>1, <1>2, <1>4, <1>5
<1> QED BY <1>6 DEF q, r

-----------------------------------------------------------------------------

LEMMA EndOfLineRange ==
  ASSUME NEW s, Len(s) \in Nat, NEW p \in 0..Len(s)
  PROVE  /\ EndOfLine(s, p) \in {NeedsMore, Fails} \cup {p + 1, p + 2}
         /\ EndOfLine(s, p) >= 0 => EndOfLine(s, p) <= Len(s)
BY DEF EndOfLine, NeedsMore, Fails

LEMMA EndOfLineStable ==
  ASSUME NEW s, NEW g, Extends(s, g), NEW p \in 0..Len(s),
         EndOfLine(s, p) # NeedsMore
  PROVE  EndOfLine(g, p) = EndOfLine(s, p)
<1>1. p # Len(s) /\ p + 1 \in 1..Len(s) /\ p # Len(g)
  BY DEF EndOfLine, Extends
<1>2. g[p + 1] = s[p + 1]
  BY <1>1 DEF Extends
<1>3. CASE s[p + 1] = LF \/ s[p + 1] # CR
  BY <1>1, <1>2, <1>3 DEF EndOfLine
<1>4. CASE s[p + 1] = CR /\ s[p + 1] # LF
  <2>1. p + 2 \in 1..Len(s) /\ p + 1 # Len(g) /\ p + 1 # Len(s)
    BY <1>1, <1>4 DEF EndOfLine, Extends
  <2>2. g[p + 2] = s[p + 2]
    BY <2>1 DEF Extends
  <2> QED BY <1>1, <1>2, <1>4, <2>1, <2>2 DEF EndOfLine
<1> QED BY <1>3, <1>4

LEMMA OptEndOfLineRange ==
  ASSUME NEW s, Len(s) \in Nat, NEW p \in 0..Len(s)
  PROVE  OptEndOfLine(s, p) \in p..Len(s)
BY EndOfLineRange DEF OptEndOfLine, NeedsMore, Fails

\* What is not yet there is a line ending that has not begun, or its CR.
LEMMA OptEndOfLineStable ==
  ASSUME NEW s, NEW g, Extends(s, g), NEW p \in 0..Len(s)
  PROVE  \/ OptEndOfLine(g, p) = OptEndOfLine(s, p)
         \/ /\ OptEndOfLine(s, p) = p
            /\ p = Len(s) \/ (p + 1 = Len(s) /\ s[p + 1] = CR)
<1>1. CASE EndOfLine(s, p) # NeedsMore
  BY <1>1, EndOfLineStable DEF OptEndOfLine
<1>2. CASE EndOfLine(s, p) = NeedsMore
  <2>1. p = Len(s) \/ (p + 1 = Len(s) /\ s[p + 1] = CR)
    BY <1>2 DEF EndOfLine, NeedsMore, Fails, Extends
  <2>2. OptEndOfLine(s, p) = p
    BY <1>2 DEF OptEndOfLine, NeedsMore
  <2> QED BY <2>1, <2>2
<1> QED BY <1>1, <1>2

LEMMA Alpha1Range ==
  ASSUME NEW s, Len(s) \in Nat, NEW p \in 0..Len(s)
  PROVE  /\ Alpha1(s, p) \in {NeedsMore, Fails} \cup ((p + 1)..(Len(s) - 1))
         /\ p < Len(s) /\ s[p + 1] \notin Letters => Alpha1(s, p) = Fails
         /\ p = Len(s) => Alpha1(s, p) = NeedsMore
<1> DEFINE S == {s[i] : i \in 1..Len(s)} \ Letters
           stop == Until(s, p, S)
<1>1. /\ stop \in p..Len(s)
      /\ \A x \in p..(stop - 1) : s[x + 1] \notin S
  BY UntilRange
<1>2. Alpha1(s, p) = IF stop = Len(s) THEN NeedsMore ELSE IF stop = p THEN Fails ELSE stop
  BY DEF Alpha1
<1>3. ASSUME p < Len(s), s[p + 1] \notin Letters PROVE stop = p
  <2>1. p + 1 \in 1..Len(s)
    BY <1>3
  <2>2. s[p + 1] \in S
    BY <1>3, <2>1
  <2> HIDE DEF S
  <2> QED BY <1>1, <2>2
<1> HIDE DEF stop
<1> QED BY <1>1, <1>2, <1>3 DEF NeedsMore, Fails

LEMMA Alpha1Stable ==
  ASSUME NEW s, NEW g, Extends(s, g), NEW p \in 0..Len(s), Alpha1(s, p) # NeedsMore
  PROVE  Alpha1(g, p) = Alpha1(s, p)
<1> DEFINE S == {s[i] : i \in 1..Len(s)} \ Letters
           T == {g[i] : i \in 1..Len(g)} \ Letters
<1>1. \A i \in 1..Len(s) : s[i] \in S <=> s[i] \in T
  <2> SUFFICES ASSUME NEW i \in 1..Len(s) PROVE s[i] \in S <=> s[i] \in T
    OBVIOUS
  <2>1. i \in 1..Len(g) /\ g[i] = s[i]
    BY DEF Extends
  <2> QED BY <2>1
<1>2. Until(s, p, S) \in p..Len(s) /\ Until(s, p, S) # Len(s)
  BY UntilRange DEF Alpha1, Extends
<1>3. Until(g, p, T) = Until(s, p, S)
  <2> HIDE DEF S, T
  <2>1. Until(s, p, S) < Len(s)
    BY <1>2 DEF Extends
  <2> QED BY <1>1, <2>1, UntilStable
<1>4. Until(s, p, S) # Len(g)
  BY <1>2 DEF Extends
<1> QED BY <1>2, <1>3, <1>4 DEF Alpha1

-----------------------------------------------------------------------------

\* Where the key and the value of a header line end.
LEMMA KeyEndRange ==
  ASSUME NEW s, Len(s) \in Nat, NEW p \in 0..Len(s)
  PROVE  /\ KeyEnd(s, p) \in p..Len(s)
         /\ KeyEnd(s, p) < Len(s) => ValueEnd(s, p) \in (KeyEnd(s, p) + 1)..Len(s)
<1>1. KeyEnd(s, p) \in p..Len(s)
  BY UntilRange DEF KeyEnd
<1>2. ASSUME KeyEnd(s, p) < Len(s)
      PROVE  ValueEnd(s, p) \in (KeyEnd(s, p) + 1)..Len(s)
  <2>1. KeyEnd(s, p) + 1 \in 0..Len(s)
    BY <1>1, <1>2
  <2> QED BY <2>1, UntilRange DEF ValueEnd
<1> QED BY <1>1, <1>2

LEMMA HeaderRange ==
  ASSUME NEW s, Len(s) \in Nat, NEW p \in 0..Len(s)
  PROVE  /\ Header(s, p) \in {NeedsMore, Fails} \cup ((p + 1)..Len(s))
         /\ Header(s, p) >= 0 => /\ KeyEnd(s, p) < Len(s)
                                 /\ ValueEnd(s, p) < Len(s)
<1>1. KeyEnd(s, p) \in p..Len(s)
  BY KeyEndRange
<1>2. CASE KeyEnd(s, p) = Len(s) \/ KeyEnd(s, p) = p \/ s[KeyEnd(s, p) + 1] # Colon
  BY <1>2 DEF Header, NeedsMore, Fails
<1>3. CASE ~ (KeyEnd(s, p) = Len(s) \/ KeyEnd(s, p) = p \/ s[KeyEnd(s, p) + 1] # Colon)
  <2>1. Header(s, p) = EndOfLine(s, ValueEnd(s, p))
    BY <1>3 DEF Header
  <2>2. KeyEnd(s, p) < Len(s) /\ ValueEnd(s, p) \in (KeyEnd(s, p) + 1)..Len(s)
    BY <1>1, <1>3, KeyEndRange
  <2>3. ValueEnd(s, p) \in 0..Len(s) /\ ValueEnd(s, p) > p
    BY <1>1, <2>2
  <2>4. /\ Header(s, p) \in {NeedsMore, Fails} \cup {ValueEnd(s, p) + 1, ValueEnd(s, p) + 2}
        /\ Header(s, p) >= 0 => Header(s, p) <= Len(s)
    BY <2>1, <2>3, EndOfLineRange
  <2> QED BY <1>1, <2>2, <2>3, <2>4 DEF NeedsMore, Fails
<1> QED BY <1>2, <1>3

\* A header line that is complete, or is none, is the same one in more bytes.
LEMMA HeaderStable ==
  ASSUME NEW s, NEW g, Extends(s, g), NEW p \in 0..Len(s), Header(s, p) # NeedsMore
  PROVE  /\ Header(g, p) = Header(s, p)
         /\ Header(s, p) >= 0 => /\ Key(g, p) = Key(s, p)
                                 /\ Value(g, p) = Value(s, p)
<1>1. Len(s) \in Nat /\ Len(g) \in Nat /\ Len(s) <= Len(g)
  BY DEF Extends
<1>2. KeyEnd(s, p) \in p..Len(s) /\ KeyEnd(s, p) # Len(s)
  BY <1>1, KeyEndRange DEF Header
<1>3. KeyEnd(g, p) = KeyEnd(s, p)
  BY <1>1, <1>2, UntilStable DEF KeyEnd
<1>4. KeyEnd(s, p) + 1 \in 1..Len(s) /\ KeyEnd(g, p) # Len(g)
      /\ g[KeyEnd(s, p) + 1] = s[KeyEnd(s, p) + 1]
  BY <1>1, <1>2, <1>3 DEF Extends
<1>5. CASE KeyEnd(s, p) = p \/ s[KeyEnd(s, p) + 1] # Colon
  BY <1>2, <1>3, <1>4, <1>5 DEF Header, Fails
<1>6. CASE ~ (KeyEnd(s, p) = p \/ s[KeyEnd(s, p) + 1] # Colon)
  <2>1. Header(s, p) = EndOfLine(s, ValueEnd(s, p))
    BY <1>2, <1>6 DEF Header
  <2>2. ValueEnd(s, p) \in (KeyEnd(s, p) + 1)..Len(s)
    BY <1>1, <1>2, KeyEndRange
  <2>3. ValueEnd(s, p) \in 0..Len(s)
    BY <1>1, <1>2, <2>2
  <2>4. ValueEnd(s, p) < Len(s)
    BY <1>1, <2>1, <2>3 DEF EndOfLine
  <2>5. ValueEnd(g, p) = ValueEnd(s, p)
    BY <1>1, <1>2, <1>3, <1>4, <2>4, UntilStable DEF ValueEnd
  <2>6. EndOfLine(g, ValueEnd(s, p)) = EndOfLine(s, ValueEnd(s, p))
    BY <2>1, <2>3, EndOfLineStable
  <2>7. Header(g, p) = Header(s, p)
    BY <1>2, <1>3, <1>4, <1>6, <2>1, <2>5, <2>6 DEF Header
  <2>8. Key(g, p) = Key(s, p)
    <3>1. p + 1 \in Nat /\ p + 1 > 0 /\ KeyEnd(s, p) \in Nat /\ KeyEnd(s, p) <= Len(s)
      BY <1>1, <1>2
    <3>2. SubSeq(g, p + 1, KeyEnd(s, p)) = SubSeq(s, p + 1, KeyEnd(s, p))
      BY <3>1, SubSeqStable
    <3> QED BY <1>3, <3>2 DEF Key
  <2>9. Value(g, p) = Value(s, p)
    <3>1. KeyEnd(s, p) + 2 \in Nat /\ KeyEnd(s, p) + 2 > 0
          /\ ValueEnd(s, p) \in Nat /\ ValueEnd(s, p) <= Len(s)
      BY <1>1, <1>2, <2>2
    <3>2. SubSeq(g, KeyEnd(s, p) + 2, ValueEnd(s, p))
            = SubSeq(s, KeyEnd(s, p) + 2, ValueEnd(s, p))
      BY <3>1, SubSeqStable
    <3> QED BY <1>3, <2>5, <3>2 DEF Value
  <2> QED BY <2>7, <2>8, <2>9
<1> QED BY <1>5, <1>6

-----------------------------------------------------------------------------

\* The two recursions over the header lines, as functions of the position.
HeadersFrom(s, p) ==
    CHOOSE from : from = [q \in p..Len(s) |->
        LET next == Header(s, q) IN
        IF next = Fails THEN EndOfLine(s, q) ELSE Then(next, LAMBDA n : from[n])]

LengthFrom(s, p) ==
    CHOOSE from : from = [q \in p..Len(s) |->
        IF Header(s, q) < 0 THEN {}
        ELSE IF Key(s, q) = <<ContentLengthKey>> THEN Number(Value(s, q))
        ELSE from[Header(s, q)]]

LEMMA HeadersFromDef ==
  ASSUME NEW s, Len(s) \in Nat, NEW p \in 0..Len(s)
  PROVE  /\ HeadersEnd(s, p) = HeadersFrom(s, p)[p]
         /\ \A q \in p..Len(s) :
               HeadersFrom(s, p)[q] =
                  IF Header(s, q) = Fails THEN EndOfLine(s, q)
                  ELSE IF Header(s, q) < 0 THEN Header(s, q)
                  ELSE HeadersFrom(s, p)[Header(s, q)]
<1> DEFINE known == {q \in p..Len(s) : Header(s, q) < 0}
           value == [q \in p..Len(s) |-> IF Header(s, q) = Fails THEN EndOfLine(s, q)
                                                                 ELSE Header(s, q)]
           next  == [q \in p..Len(s) |-> Header(s, q)]
<1>1. \A q \in p..Len(s) : q \notin known => next[q] \in (q + 1)..Len(s)
  BY HeaderRange DEF NeedsMore, Fails
<1>2. \E f : Jumps(f, p, Len(s), known, value, next)
  <2>1. p \in Int /\ Len(s) \in Int
    OBVIOUS
  <2> HIDE DEF known, value, next
  <2> QED BY <1>1, <2>1, JumpRecursion, Zenon
<1>3. PICK f : f = [q \in p..Len(s) |-> IF q \in known THEN value[q] ELSE f[next[q]]]
  <2> HIDE DEF known, value, next
  <2> QED BY <1>2 DEF Jumps
<1>4. f = [q \in p..Len(s) |->
              LET next_ == Header(s, q) IN
              IF next_ = Fails THEN EndOfLine(s, q) ELSE Then(next_, LAMBDA n : f[n])]
  <2>1. ASSUME NEW q \in p..Len(s)
        PROVE  (IF q \in known THEN value[q] ELSE f[next[q]])
                = IF Header(s, q) = Fails THEN EndOfLine(s, q)
                  ELSE Then(Header(s, q), LAMBDA n : f[n])
    BY HeaderRange DEF Then, Fails, NeedsMore
  <2> HIDE DEF known, value, next
  <2> QED BY <1>3, <2>1
<1>5. HeadersFrom(s, p) = [q \in p..Len(s) |->
              LET next_ == Header(s, q) IN
              IF next_ = Fails THEN EndOfLine(s, q)
              ELSE Then(next_, LAMBDA n : HeadersFrom(s, p)[n])]
  BY <1>4 DEF HeadersFrom
<1>6. HeadersEnd(s, p) = HeadersFrom(s, p)[p]
  BY DEF HeadersEnd, HeadersFrom
<1>7. ASSUME NEW q \in p..Len(s)
      PROVE  HeadersFrom(s, p)[q] =
                  IF Header(s, q) = Fails THEN EndOfLine(s, q)
                  ELSE IF Header(s, q) < 0 THEN Header(s, q)
                  ELSE HeadersFrom(s, p)[Header(s, q)]
  BY <1>5 DEF Then
<1> QED BY <1>6, <1>7

LEMMA LengthFromDef ==
  ASSUME NEW s, Len(s) \in Nat, NEW p \in 0..Len(s)
  PROVE  /\ ContentLength(s, p) = LengthFrom(s, p)[p]
         /\ \A q \in p..Len(s) :
               LengthFrom(s, p)[q] =
                  IF Header(s, q) < 0 THEN {}
                  ELSE IF Key(s, q) = <<ContentLengthKey>> THEN Number(Value(s, q))
                  ELSE LengthFrom(s, p)[Header(s, q)]
<1> DEFINE known == {q \in p..Len(s) : Header(s, q) < 0 \/ Key(s, q) = <<ContentLengthKey>>}
           value == [q \in p..Len(s) |-> IF Header(s, q) < 0 THEN {} ELSE Number(Value(s, q))]
           next  == [q \in p..Len(s) |-> Header(s, q)]
<1>1. \A q \in p..Len(s) : q \notin known => next[q] \in (q + 1)..Len(s)
  BY HeaderRange DEF NeedsMore, Fails
<1>2. \E f : Jumps(f, p, Len(s), known, value, next)
  <2>1. p \in Int /\ Len(s) \in Int
    OBVIOUS
  <2> HIDE DEF known, value, next
  <2> QED BY <1>1, <2>1, JumpRecursion, Zenon
<1>3. PICK f : f = [q \in p..Len(s) |-> IF q \in known THEN value[q] ELSE f[next[q]]]
  <2> HIDE DEF known, value, next
  <2> QED BY <1>2 DEF Jumps
<1>4. f = [q \in p..Len(s) |->
              IF Header(s, q) < 0 THEN {}
              ELSE IF Key(s, q) = <<ContentLengthKey>> THEN Number(Value(s, q))
              ELSE f[Header(s, q)]]
  <2>1. ASSUME NEW q \in p..Len(s)
        PROVE  (IF q \in known THEN value[q] ELSE f[next[q]])
                = IF Header(s, q) < 0 THEN {}
                  ELSE IF Key(s, q) = <<ContentLengthKey>> THEN Number(Value(s, q))
                  ELSE f[Header(s, q)]
    OBVIOUS
  <2> HIDE DEF known, value, next
  <2> QED BY <1>3, <2>1
<1>5. LengthFrom(s, p) = [q \in p..Len(s) |->
              IF Header(s, q) < 0 THEN {}
              ELSE IF Key(s, q) = <<ContentLengthKey>> THEN Number(Value(s, q))
              ELSE LengthFrom(s, p)[Header(s, q)]]
  BY <1>4 DEF LengthFrom
<1>6. ContentLength(s, p) = LengthFrom(s, p)[p]
  BY DEF ContentLength, LengthFrom
<1> QED BY <1>5, <1>6

-----------------------------------------------------------------------------

LEMMA HeadersFromRange ==
  ASSUME NEW s, Len(s) \in Nat, NEW p \in 0..Len(s)
  PROVE  \A q \in p..Len(s) :
            HeadersFrom(s, p)[q] \in {NeedsMore, Fails} \cup (q..Len(s))
<1> DEFINE Good(q) == HeadersFrom(s, p)[q] \in {NeedsMore, Fails} \cup (q..Len(s))
           S == {q \in p..Len(s) : Good(q)}
<1>1. ASSUME NEW q \in p..Len(s), \A r \in (q + 1)..Len(s) : r \in S
      PROVE  q \in S
  <2>1. CASE Header(s, q) = Fails
    <3>1. HeadersFrom(s, p)[q] = EndOfLine(s, q)
      BY <2>1, HeadersFromDef
    <3> QED BY <3>1, EndOfLineRange DEF NeedsMore, Fails
  <2>2. CASE Header(s, q) = NeedsMore
    <3>1. HeadersFrom(s, p)[q] = NeedsMore
      BY <2>2, HeadersFromDef DEF NeedsMore, Fails
    <3> QED BY <3>1
  <2>3. CASE Header(s, q) \in (q + 1)..Len(s)
    <3>1. HeadersFrom(s, p)[q] = HeadersFrom(s, p)[Header(s, q)]
      BY <2>3, HeadersFromDef DEF Fails
    <3>2. Good(Header(s, q))
      BY <1>1, <2>3
    <3> QED BY <2>3, <3>1, <3>2
  <2> QED BY <2>1, <2>2, <2>3, HeaderRange
<1>2. \A q \in p..Len(s) : q \in S
  <2>1. \A q \in p..Len(s) : (\A r \in (q + 1)..Len(s) : r \in S) => q \in S
    <3> HIDE DEF S
    <3> QED BY <1>1
  <2>2. p \in Int /\ Len(s) \in Int
    OBVIOUS
  <2> HIDE DEF S
  <2> QED BY <2>1, <2>2, Downward, Zenon
<1> QED BY <1>2

\* The lengths that a header can announce.
LEMMA NumberRange == \A text : Number(text) \subseteq 0..MaxLength
BY DEF Number

LEMMA LengthFromRange ==
  ASSUME NEW s, Len(s) \in Nat, NEW p \in 0..Len(s)
  PROVE  \A q \in p..Len(s) : LengthFrom(s, p)[q] \subseteq 0..MaxLength
<1> DEFINE S == {q \in p..Len(s) : LengthFrom(s, p)[q] \subseteq 0..MaxLength}
<1>1. ASSUME NEW q \in p..Len(s), \A r \in (q + 1)..Len(s) : r \in S
      PROVE  q \in S
  <2>1. CASE Header(s, q) < 0 \/ Key(s, q) = <<ContentLengthKey>>
    <3>1. LengthFrom(s, p)[q] = {} \/ LengthFrom(s, p)[q] = Number(Value(s, q))
      BY <2>1, LengthFromDef
    <3> QED BY <3>1, NumberRange
  <2>2. CASE ~ (Header(s, q) < 0 \/ Key(s, q) = <<ContentLengthKey>>)
    <3>1. LengthFrom(s, p)[q] = LengthFrom(s, p)[Header(s, q)]
      BY <2>2, LengthFromDef
    <3>2. Header(s, q) \in (q + 1)..Len(s)
      BY <2>2, HeaderRange DEF NeedsMore, Fails
    <3> QED BY <1>1, <3>1, <3>2
  <2> QED BY <2>1, <2>2
<1>2. \A q \in p..Len(s) : q \in S
  <2>1. \A q \in p..Len(s) : (\A r \in (q + 1)..Len(s) : r \in S) => q \in S
    <3> HIDE DEF S
    <3> QED BY <1>1
  <2>2. p \in Int /\ Len(s) \in Int
    OBVIOUS
  <2> HIDE DEF S
  <2> QED BY <2>1, <2>2, Downward, Zenon
<1> QED BY <1>2

\* Headers that end, or that fail to, do so in more bytes too; and if they end
\* they announce the same length.
LEMMA HeadersStable ==
  ASSUME NEW s, NEW g, Extends(s, g), NEW p \in 0..Len(s), HeadersEnd(s, p) # NeedsMore
  PROVE  /\ HeadersEnd(g, p) = HeadersEnd(s, p)
         /\ HeadersEnd(s, p) >= 0 => ContentLength(g, p) = ContentLength(s, p)
<1> DEFINE F == HeadersFrom(s, p)
           G == HeadersFrom(g, p)
           C == LengthFrom(s, p)
           D == LengthFrom(g, p)
           Same(q) == F[q] # NeedsMore => /\ G[q] = F[q]
                                          /\ F[q] >= 0 => D[q] = C[q]
           S == {q \in p..Len(s) : Same(q)}
<1>1. Len(s) \in Nat /\ Len(g) \in Nat /\ Len(s) <= Len(g) /\ p \in 0..Len(g)
  BY DEF Extends
<1>2. ASSUME NEW q \in p..Len(s)
      PROVE  /\ F[q] = IF Header(s, q) = Fails THEN EndOfLine(s, q)
                       ELSE IF Header(s, q) < 0 THEN Header(s, q)
                       ELSE F[Header(s, q)]
             /\ G[q] = IF Header(g, q) = Fails THEN EndOfLine(g, q)
                       ELSE IF Header(g, q) < 0 THEN Header(g, q)
                       ELSE G[Header(g, q)]
             /\ C[q] = IF Header(s, q) < 0 THEN {}
                       ELSE IF Key(s, q) = <<ContentLengthKey>> THEN Number(Value(s, q))
                       ELSE C[Header(s, q)]
             /\ D[q] = IF Header(g, q) < 0 THEN {}
                       ELSE IF Key(g, q) = <<ContentLengthKey>> THEN Number(Value(g, q))
                       ELSE D[Header(g, q)]
  <2>1. q \in p..Len(g)
    BY <1>1
  <2> QED BY <1>1, <2>1, HeadersFromDef, LengthFromDef
<1> HIDE DEF F, G, C, D
<1>3. ASSUME NEW q \in p..Len(s), \A r \in (q + 1)..Len(s) : r \in S
      PROVE  Same(q)
  <2> SUFFICES ASSUME F[q] # NeedsMore
               PROVE  /\ G[q] = F[q]
                      /\ F[q] >= 0 => D[q] = C[q]
    OBVIOUS
  <2>1. q \in 0..Len(s)
    BY <1>1
  <2>2. /\ Header(s, q) \in {NeedsMore, Fails} \cup ((q + 1)..Len(s))
        /\ Header(s, q) # NeedsMore
    BY <1>1, <1>2, <2>1, HeaderRange DEF NeedsMore, Fails
  <2>3. /\ Header(g, q) = Header(s, q)
        /\ Header(s, q) >= 0 => Key(g, q) = Key(s, q) /\ Value(g, q) = Value(s, q)
    BY <2>1, <2>2, HeaderStable
  <2>4. CASE Header(s, q) = Fails
    <3>1. F[q] = EndOfLine(s, q) /\ G[q] = EndOfLine(g, q) /\ C[q] = {} /\ D[q] = {}
      BY <1>2, <2>3, <2>4 DEF Fails
    <3> QED BY <2>1, <3>1, EndOfLineStable
  <2>5. CASE Header(s, q) \in (q + 1)..Len(s)
    <3>1. Header(s, q) >= 0 /\ ~ (Header(s, q) < 0) /\ Header(s, q) # Fails
      BY <2>5, <1>1 DEF Fails
    <3>2. F[q] = F[Header(s, q)] /\ G[q] = G[Header(s, q)]
      BY <1>2, <2>3, <3>1
    <3>3. Same(Header(s, q))
      BY <1>3, <2>5
    <3>4. C[q] = D[q] \/ (C[q] = C[Header(s, q)] /\ D[q] = D[Header(s, q)])
      BY <1>2, <2>3, <3>1
    <3> QED BY <3>2, <3>3, <3>4
  <2> QED BY <2>2, <2>4, <2>5
<1>4. \A q \in p..Len(s) : q \in S
  <2>1. \A q \in p..Len(s) : (\A r \in (q + 1)..Len(s) : r \in S) => q \in S
    BY <1>3
  <2>2. p \in Int /\ Len(s) \in Int
    BY <1>1
  <2> HIDE DEF S
  <2> QED BY <2>1, <2>2, Downward, Zenon
<1>5. Same(p)
  BY <1>1, <1>4
<1>6. /\ HeadersEnd(s, p) = F[p] /\ HeadersEnd(g, p) = G[p]
      /\ ContentLength(s, p) = C[p] /\ ContentLength(g, p) = D[p]
  BY <1>1, HeadersFromDef, LengthFromDef DEF F, G, C, D
<1> QED BY <1>5, <1>6

LEMMA HeadersRange ==
  ASSUME NEW s, Len(s) \in Nat, NEW p \in 0..Len(s)
  PROVE  /\ HeadersEnd(s, p) \in {NeedsMore, Fails} \cup (p..Len(s))
         /\ ContentLength(s, p) \subseteq 0..MaxLength
<1>1. p \in p..Len(s)
  OBVIOUS
<1> QED BY <1>1, HeadersFromRange, LengthFromRange, HeadersFromDef, LengthFromDef

-----------------------------------------------------------------------------

LEMMA BodyEndRange ==
  ASSUME NEW s, Len(s) \in Nat, NEW p \in 0..Len(s),
         NEW length, length \subseteq 0..MaxLength
  PROVE  BodyEnd(s, p, length) \in {NeedsMore} \cup (p..Len(s))
<1>1. CASE length = {}
  BY <1>1, UntilRange DEF BodyEnd
<1>2. CASE length # {}
  <2>1. (CHOOSE n \in length : TRUE) \in 0..MaxLength
    BY <1>2
  <2> QED BY <1>2, <2>1, MaxLengthAssumption DEF BodyEnd
<1> QED BY <1>1, <1>2

LEMMA BodyEndStable ==
  ASSUME NEW s, NEW g, Extends(s, g), NEW p \in 0..Len(s),
         NEW length, length \subseteq 0..MaxLength, BodyEnd(s, p, length) # NeedsMore
  PROVE  BodyEnd(g, p, length) = BodyEnd(s, p, length)
<1>1. Len(s) \in Nat /\ Len(g) \in Nat /\ Len(s) <= Len(g)
  BY DEF Extends
<1>2. CASE length = {}
  <2>1. Until(s, p, {NUL}) \in p..Len(s) /\ Until(s, p, {NUL}) # Len(s)
    BY <1>1, <1>2, UntilRange DEF BodyEnd
  <2>2. Until(g, p, {NUL}) = Until(s, p, {NUL})
    BY <1>1, <2>1, UntilStable
  <2> QED BY <1>1, <1>2, <2>1, <2>2 DEF BodyEnd
<1>3. CASE length # {}
  <2>1. (CHOOSE n \in length : TRUE) \in 0..MaxLength
    BY <1>3
  <2> QED BY <1>1, <1>3, <2>1, MaxLengthAssumption, SMTT(30) DEF BodyEnd
<1> QED BY <1>2, <1>3

LEMMA TerminatorRange ==
  ASSUME NEW s, Len(s) \in Nat, NEW p \in 0..Len(s)
  PROVE  Terminator(s, p) \in {NeedsMore, Fails} \cup ((p + 1)..Len(s))
BY OptEndOfLineRange DEF Terminator

\* More bytes may complete the line ending behind the NUL, and change nothing
\* else.
LEMMA TerminatorStable ==
  ASSUME NEW s, NEW g, Extends(s, g), NEW p \in 0..Len(s), Terminator(s, p) # NeedsMore
  PROVE  IF Terminator(s, p) = Fails
         THEN Terminator(g, p) = Fails
         ELSE Terminator(g, p) \in {Terminator(s, p), OptEndOfLine(g, Terminator(s, p))}
<1>1. Len(s) \in Nat /\ Len(g) \in Nat /\ Len(s) <= Len(g)
  BY DEF Extends
<1>2. p # Len(s) /\ p # Len(g) /\ p + 1 \in 1..Len(s)
  BY <1>1 DEF Terminator
<1>3. g[p + 1] = s[p + 1]
  BY <1>2 DEF Extends
<1>4. CASE s[p + 1] # NUL
  BY <1>2, <1>3, <1>4 DEF Terminator
<1>5. CASE s[p + 1] = NUL
  <2>1. Terminator(s, p) = OptEndOfLine(s, p + 1) /\ Terminator(g, p) = OptEndOfLine(g, p + 1)
    BY <1>2, <1>3, <1>5 DEF Terminator
  <2>2. OptEndOfLine(s, p + 1) # Fails
    BY <1>1, <1>2, OptEndOfLineRange DEF Fails
  <2>3. OptEndOfLine(g, p + 1) = OptEndOfLine(s, p + 1) \/ OptEndOfLine(s, p + 1) = p + 1
    BY <1>1, <1>2, OptEndOfLineStable
  <2> QED BY <2>1, <2>2, <2>3
<1> QED BY <1>4, <1>5

-----------------------------------------------------------------------------

\* Where the parts of the first frame in s end.
Start(s)       == OptEndOfLine(s, 0)
CommandStop(s) == Alpha1(s, Start(s))
LineStop(s)     == IF CommandStop(s) < 0 THEN CommandStop(s) ELSE EndOfLine(s, CommandStop(s))
HeadersStop(s) == IF LineStop(s) < 0 THEN LineStop(s) ELSE HeadersEnd(s, LineStop(s))
LengthOf(s)    == ContentLength(s, LineStop(s))
BodyStop(s)    == IF HeadersStop(s) < 0 THEN HeadersStop(s) ELSE BodyEnd(s, HeadersStop(s), LengthOf(s))
Stop(s)        == IF BodyStop(s) < 0 THEN BodyStop(s) ELSE Terminator(s, BodyStop(s))

\* The parts that are there follow one another.
LEMMA PartsRange ==
  ASSUME NEW s, Len(s) \in Nat
  PROVE  /\ Start(s) \in 0..Len(s)
         /\ CommandStop(s) \in {NeedsMore, Fails} \cup ((Start(s) + 1)..Len(s))
         /\ LineStop(s) \in {NeedsMore, Fails} \cup (0..Len(s))
         /\ LineStop(s) >= 0 => CommandStop(s) >= 0
         /\ HeadersStop(s) \in {NeedsMore, Fails} \cup (0..Len(s))
         /\ HeadersStop(s) >= 0 => LineStop(s) >= 0
         /\ LineStop(s) >= 0 => LengthOf(s) \subseteq 0..MaxLength
         /\ BodyStop(s) \in {NeedsMore, Fails} \cup (0..Len(s))
         /\ BodyStop(s) >= 0 => HeadersStop(s) >= 0
         /\ Stop(s) \in {NeedsMore, Fails} \cup (0..Len(s))
         /\ Stop(s) >= 0 => BodyStop(s) >= 0
<1>1. Start(s) \in 0..Len(s)
  BY OptEndOfLineRange DEF Start
<1>2. CommandStop(s) \in {NeedsMore, Fails} \cup ((Start(s) + 1)..(Len(s) - 1))
  BY <1>1, Alpha1Range DEF CommandStop
<1>3. /\ LineStop(s) \in {NeedsMore, Fails} \cup (0..Len(s))
      /\ LineStop(s) >= 0 => CommandStop(s) >= 0
  <2>1. CASE CommandStop(s) < 0
    BY <1>1, <1>2, <2>1 DEF LineStop, NeedsMore, Fails
  <2>2. CASE CommandStop(s) \in 0..Len(s)
    BY <2>2, EndOfLineRange DEF LineStop, NeedsMore, Fails
  <2> QED BY <1>1, <1>2, <2>1, <2>2 DEF NeedsMore, Fails
<1>4. /\ HeadersStop(s) \in {NeedsMore, Fails} \cup (0..Len(s))
      /\ HeadersStop(s) >= 0 => LineStop(s) >= 0
      /\ LineStop(s) >= 0 => LengthOf(s) \subseteq 0..MaxLength
  <2>1. CASE LineStop(s) < 0
    BY <1>3, <2>1 DEF HeadersStop, NeedsMore, Fails
  <2>2. CASE LineStop(s) \in 0..Len(s)
    BY <2>2, HeadersRange DEF HeadersStop, LengthOf, NeedsMore, Fails
  <2> QED BY <1>3, <2>1, <2>2 DEF NeedsMore, Fails
<1>5. /\ BodyStop(s) \in {NeedsMore, Fails} \cup (0..Len(s))
      /\ BodyStop(s) >= 0 => HeadersStop(s) >= 0
  <2>1. CASE HeadersStop(s) < 0
    BY <1>4, <2>1 DEF BodyStop, NeedsMore, Fails
  <2>2. CASE HeadersStop(s) \in 0..Len(s)
    <3>1. LengthOf(s) \subseteq 0..MaxLength
      BY <1>4, <2>2
    <3> QED BY <2>2, <3>1, BodyEndRange DEF BodyStop, NeedsMore, Fails
  <2> QED BY <1>4, <2>1, <2>2 DEF NeedsMore, Fails
<1>6. /\ Stop(s) \in {NeedsMore, Fails} \cup (0..Len(s))
      /\ Stop(s) >= 0 => BodyStop(s) >= 0
  <2>1. CASE BodyStop(s) < 0
    BY <1>5, <2>1 DEF Stop, NeedsMore, Fails
  <2>2. CASE BodyStop(s) \in 0..Len(s)
    BY <2>2, TerminatorRange DEF Stop, NeedsMore, Fails
  <2> QED BY <1>5, <2>1, <2>2 DEF NeedsMore, Fails
<1>7. CommandStop(s) \in {NeedsMore, Fails} \cup ((Start(s) + 1)..Len(s))
  BY <1>1, <1>2
<1> QED BY <1>1, <1>3, <1>4, <1>5, <1>6, <1>7

\* Of a frame that is found every part is there.
LEMMA FoundParts ==
  ASSUME NEW s, Len(s) \in Nat, Stop(s) >= 0
  PROVE  /\ Start(s) \in 0..Len(s) /\ CommandStop(s) \in (Start(s) + 1)..Len(s)
         /\ LineStop(s) \in 0..Len(s) /\ HeadersStop(s) \in 0..Len(s)
         /\ BodyStop(s) \in 0..Len(s) /\ LengthOf(s) \subseteq 0..MaxLength
         /\ CommandStop(s) = Alpha1(s, Start(s))
         /\ LineStop(s) = EndOfLine(s, CommandStop(s))
         /\ HeadersStop(s) = HeadersEnd(s, LineStop(s))
         /\ LengthOf(s) = ContentLength(s, LineStop(s))
         /\ BodyStop(s) = BodyEnd(s, HeadersStop(s), LengthOf(s))
         /\ Stop(s) = Terminator(s, BodyStop(s))
<1>1. /\ BodyStop(s) >= 0 /\ HeadersStop(s) >= 0 /\ LineStop(s) >= 0 /\ CommandStop(s) >= 0
  BY PartsRange
<1>2. ~ (BodyStop(s) < 0) /\ BodyStop(s) \in 0..Len(s)
  BY <1>1, PartsRange DEF NeedsMore, Fails
<1>3. ~ (HeadersStop(s) < 0) /\ HeadersStop(s) \in 0..Len(s)
  BY <1>1, PartsRange DEF NeedsMore, Fails
<1>4. ~ (LineStop(s) < 0) /\ LineStop(s) \in 0..Len(s) /\ LengthOf(s) \subseteq 0..MaxLength
  BY <1>1, PartsRange DEF NeedsMore, Fails
<1>5. /\ ~ (CommandStop(s) < 0) /\ CommandStop(s) \in (Start(s) + 1)..Len(s)
      /\ Start(s) \in 0..Len(s)
  BY <1>1, PartsRange DEF NeedsMore, Fails
<1>6. CommandStop(s) = Alpha1(s, Start(s)) /\ LengthOf(s) = ContentLength(s, LineStop(s))
  BY DEF CommandStop, LengthOf
<1>7. LineStop(s) = EndOfLine(s, CommandStop(s))
  BY <1>5 DEF LineStop
<1>8. HeadersStop(s) = HeadersEnd(s, LineStop(s))
  BY <1>4 DEF HeadersStop
<1>9. BodyStop(s) = BodyEnd(s, HeadersStop(s), LengthOf(s))
  BY <1>3 DEF BodyStop
<1>10. Stop(s) = Terminator(s, BodyStop(s))
  BY <1>2 DEF Stop
<1> QED BY <1>2, <1>3, <1>4, <1>5, <1>6, <1>7, <1>8, <1>9, <1>10

LEMMA ParseFrameDef ==
  ASSUME NEW s, Len(s) \in Nat
  PROVE  /\ ParseFrame(s).end = Stop(s)
         /\ Stop(s) >= 0 =>
               /\ ParseFrame(s).command = SubSeq(s, Start(s) + 1, CommandStop(s))
               /\ ParseFrame(s).body = SubSeq(s, HeadersStop(s) + 1, BodyStop(s))
<1> DEFINE command == IF Stop(s) < 0 THEN << >> ELSE SubSeq(s, Start(s) + 1, CommandStop(s))
           body == IF Stop(s) < 0 THEN << >> ELSE SubSeq(s, HeadersStop(s) + 1, BodyStop(s))
<1>1. ParseFrame(s) = [end |-> Stop(s), start |-> Start(s), nul |-> BodyStop(s) + 1,
                       command |-> command, body |-> body]
  BY Zenon DEF ParseFrame, Then, Start, CommandStop, LineStop, HeadersStop, LengthOf,
               BodyStop, Stop
<1>2. /\ ParseFrame(s).end = Stop(s)
      /\ ParseFrame(s).command = command
      /\ ParseFrame(s).body = body
  <2> HIDE DEF command, body
  <2> QED BY <1>1
<1>3. Stop(s) \in Int
  BY PartsRange DEF NeedsMore, Fails
<1>4. Stop(s) >= 0 => ~ (Stop(s) < 0)
  BY <1>3
<1> QED BY <1>2, <1>4, Zenon

\* Where the parser says that a frame begins, and has its NUL.
LEMMA ParsedWhere ==
  ASSUME NEW s
  PROVE  ParseFrame(s).start = Start(s) /\ ParseFrame(s).nul = BodyStop(s) + 1
<1> DEFINE command == IF Stop(s) < 0 THEN << >> ELSE SubSeq(s, Start(s) + 1, CommandStop(s))
           body == IF Stop(s) < 0 THEN << >> ELSE SubSeq(s, HeadersStop(s) + 1, BodyStop(s))
<1>1. ParseFrame(s) = [end |-> Stop(s), start |-> Start(s), nul |-> BodyStop(s) + 1,
                       command |-> command, body |-> body]
  BY Zenon DEF ParseFrame, Then, Start, CommandStop, LineStop, HeadersStop, LengthOf,
               BodyStop, Stop
<1> HIDE DEF command, body
<1> QED BY <1>1

\* A frame that is found lies in this order.
LEMMA FoundInOrder ==
  ASSUME NEW s, Len(s) \in Nat, Stop(s) >= 0
  PROVE  /\ Start(s) \in 0..Len(s)
         /\ BodyStop(s) \in (Start(s) + 1)..(Len(s) - 1)
         /\ Stop(s) = OptEndOfLine(s, BodyStop(s) + 1)
         /\ Stop(s) \in (BodyStop(s) + 1)..Len(s)
         /\ s[BodyStop(s) + 1] = NUL
         /\ s[Start(s) + 1] \in Letters
<1>1. /\ BodyStop(s) \in 0..Len(s) /\ HeadersStop(s) \in 0..Len(s) /\ LineStop(s) \in 0..Len(s)
      /\ Start(s) \in 0..Len(s) /\ CommandStop(s) \in (Start(s) + 1)..Len(s)
      /\ LengthOf(s) \subseteq 0..MaxLength
  BY FoundParts
<1>2. /\ CommandStop(s) = Alpha1(s, Start(s))
      /\ LineStop(s) = EndOfLine(s, CommandStop(s))
      /\ HeadersStop(s) = HeadersEnd(s, LineStop(s))
      /\ LengthOf(s) = ContentLength(s, LineStop(s))
      /\ BodyStop(s) = BodyEnd(s, HeadersStop(s), LengthOf(s))
      /\ Stop(s) = Terminator(s, BodyStop(s))
  BY FoundParts
<1>3. /\ CommandStop(s) < LineStop(s)
      /\ LineStop(s) <= HeadersStop(s)
      /\ HeadersStop(s) <= BodyStop(s)
  <2>1. EndOfLine(s, CommandStop(s)) \in {NeedsMore, Fails} \cup {CommandStop(s) + 1, CommandStop(s) + 2}
    BY <1>1, EndOfLineRange
  <2>2. HeadersEnd(s, LineStop(s)) \in {NeedsMore, Fails} \cup (LineStop(s)..Len(s))
    BY <1>1, HeadersRange
  <2>3. BodyEnd(s, HeadersStop(s), LengthOf(s)) \in {NeedsMore} \cup (HeadersStop(s)..Len(s))
    BY <1>1, BodyEndRange
  <2> QED BY <1>1, <1>2, <2>1, <2>2, <2>3 DEF NeedsMore, Fails
<1>4. /\ BodyStop(s) # Len(s) /\ s[BodyStop(s) + 1] = NUL
      /\ Stop(s) = OptEndOfLine(s, BodyStop(s) + 1)
  BY <1>1, <1>2 DEF Terminator, NeedsMore, Fails
<1>5. Stop(s) \in (BodyStop(s) + 1)..Len(s)
  <2>1. BodyStop(s) + 1 \in 0..Len(s)
    BY <1>1, <1>4
  <2> QED BY <1>4, <2>1, OptEndOfLineRange
<1>6. s[Start(s) + 1] \in Letters
  <2>1. Start(s) < Len(s)
    BY <1>1
  <2>2. CASE s[Start(s) + 1] \notin Letters
    <3>1. Alpha1(s, Start(s)) = Fails
      BY <1>1, <2>1, <2>2, Alpha1Range
    <3> QED BY <1>1, <1>2, <3>1 DEF Fails
  <2> QED BY <2>2
<1> QED BY <1>1, <1>3, <1>4, <1>5, <1>6

\* A parse that has decided has found the command where any later one does,
\* but in the CR of a CR LF.
LEMMA StartStable ==
  ASSUME NEW s, NEW g, Extends(s, g), Stop(s) # NeedsMore, ~ (Len(s) = 1 /\ s[1] = CR)
  PROVE  Start(g) = Start(s)
<1>1. Len(s) \in Nat
  BY DEF Extends
<1>2. CASE Start(s) = 0 /\ Len(s) = 0
  <2>1. CommandStop(s) = NeedsMore
    BY <1>1, <1>2, Alpha1Range DEF CommandStop
  <2> QED BY <2>1 DEF Stop, BodyStop, HeadersStop, LineStop, NeedsMore
<1>3. CASE ~ (Start(s) = 0 /\ Len(s) = 0)
  <2>1. 0 \in 0..Len(s)
    BY <1>1
  <2> QED BY <1>1, <1>3, <2>1, OptEndOfLineStable DEF Start
<1> QED BY <1>2, <1>3

\* What a parse has decided, a parse of more bytes decides too.
LEMMA ParseFrameStable ==
  ASSUME NEW s, NEW g, Extends(s, g), ~ (Len(s) = 1 /\ s[1] = CR)
  PROVE  /\ ParseFrame(s).end = Fails => ParseFrame(g).end = Fails
         /\ ParseFrame(s).end >= 0 =>
               /\ ParseFrame(g).command = ParseFrame(s).command
               /\ ParseFrame(g).body = ParseFrame(s).body
               /\ ParseFrame(g).end \in {ParseFrame(s).end,
                                         OptEndOfLine(g, ParseFrame(s).end)}
<1>1. Len(s) \in Nat /\ Len(g) \in Nat /\ Len(s) <= Len(g)
  BY DEF Extends
<1>2. CASE Stop(s) = NeedsMore
  BY <1>1, <1>2, ParseFrameDef DEF NeedsMore, Fails
<1>3. CASE Stop(s) # NeedsMore
  <2>1. Start(g) = Start(s) /\ Start(s) \in 0..Len(s)
    BY <1>1, <1>3, StartStable, PartsRange
  <2>2. CommandStop(s) # NeedsMore /\ LineStop(s) # NeedsMore /\ HeadersStop(s) # NeedsMore
        /\ BodyStop(s) # NeedsMore
    BY <1>3 DEF Stop, BodyStop, HeadersStop, LineStop, NeedsMore
  <2>3. CommandStop(g) = CommandStop(s)
    BY <2>1, <2>2, Alpha1Stable DEF CommandStop
  <2>4. LineStop(g) = LineStop(s)
    <3>1. CASE CommandStop(s) < 0
      BY <2>3, <3>1 DEF LineStop
    <3>2. CASE CommandStop(s) \in 0..Len(s)
      <4>1. EndOfLine(s, CommandStop(s)) # NeedsMore
        BY <2>2, <3>2 DEF LineStop
      <4> QED BY <2>3, <3>2, <4>1, EndOfLineStable DEF LineStop
    <3> QED BY <1>1, <2>1, <3>1, <3>2, PartsRange DEF NeedsMore, Fails
  <2>5. /\ HeadersStop(g) = HeadersStop(s)
        /\ HeadersStop(s) >= 0 => LengthOf(g) = LengthOf(s)
    <3>1. CASE LineStop(s) < 0
      <4>1. HeadersStop(s) = LineStop(s) /\ HeadersStop(g) = LineStop(g) /\ ~ (LineStop(s) >= 0)
        BY <1>1, <2>4, <3>1, PartsRange DEF HeadersStop, NeedsMore, Fails
      <4> QED BY <2>4, <4>1
    <3>2. CASE LineStop(s) \in 0..Len(s)
      <4>1. HeadersStop(s) = HeadersEnd(s, LineStop(s)) /\ HeadersStop(g) = HeadersEnd(g, LineStop(s))
        BY <2>4, <3>2 DEF HeadersStop
      <4> QED BY <2>2, <2>4, <3>2, <4>1, HeadersStable DEF LengthOf
    <3> QED BY <1>1, <3>1, <3>2, PartsRange DEF NeedsMore, Fails
  <2>6. BodyStop(g) = BodyStop(s)
    <3>1. CASE HeadersStop(s) < 0
      BY <2>5, <3>1 DEF BodyStop
    <3>2. CASE HeadersStop(s) \in 0..Len(s)
      <4>1. BodyStop(s) = BodyEnd(s, HeadersStop(s), LengthOf(s))
            /\ BodyStop(g) = BodyEnd(g, HeadersStop(s), LengthOf(s))
        BY <2>5, <3>2 DEF BodyStop
      <4>2. LengthOf(s) \subseteq 0..MaxLength
        BY <1>1, <3>2, PartsRange
      <4> QED BY <2>2, <3>2, <4>1, <4>2, BodyEndStable
    <3> QED BY <1>1, <3>1, <3>2, PartsRange DEF NeedsMore, Fails
  <2>7. IF Stop(s) = Fails
        THEN Stop(g) = Fails
        ELSE Stop(g) \in {Stop(s), OptEndOfLine(g, Stop(s))}
    <3>1. CASE BodyStop(s) < 0
      BY <2>6, <3>1 DEF Stop
    <3>2. CASE BodyStop(s) \in 0..Len(s)
      <4>1. Stop(s) = Terminator(s, BodyStop(s)) /\ Stop(g) = Terminator(g, BodyStop(s))
        BY <2>6, <3>2 DEF Stop
      <4> QED BY <1>3, <3>2, <4>1, TerminatorStable
    <3> QED BY <1>1, <3>1, <3>2, PartsRange DEF NeedsMore, Fails
  <2>8. CASE Stop(s) = Fails
    BY <1>1, <2>7, <2>8, ParseFrameDef DEF Fails
  <2>9. CASE Stop(s) \in 0..Len(s)
    <3>1. /\ CommandStop(s) \in (Start(s) + 1)..Len(s)
          /\ HeadersStop(s) \in 0..Len(s)
          /\ BodyStop(s) \in 0..Len(s)
      BY <1>1, <2>1, <2>9, PartsRange DEF NeedsMore, Fails
    <3>2. SubSeq(g, Start(s) + 1, CommandStop(s)) = SubSeq(s, Start(s) + 1, CommandStop(s))
      <4>1. Start(s) + 1 \in Nat /\ Start(s) + 1 > 0 /\ CommandStop(s) \in Nat /\ CommandStop(s) <= Len(s)
        BY <1>1, <2>1, <3>1
      <4> QED BY <4>1, SubSeqStable
    <3>3. SubSeq(g, HeadersStop(s) + 1, BodyStop(s)) = SubSeq(s, HeadersStop(s) + 1, BodyStop(s))
      <4>1. HeadersStop(s) + 1 \in Nat /\ HeadersStop(s) + 1 > 0 /\ BodyStop(s) \in Nat /\ BodyStop(s) <= Len(s)
        BY <1>1, <3>1
      <4> QED BY <4>1, SubSeqStable
    <3>4. Stop(s) >= 0 /\ Stop(s) # Fails
      BY <1>1, <2>9 DEF Fails
    <3>5. Stop(g) >= 0
      <4>1. Stop(s) \in 0..Len(g)
        BY <1>1, <2>9
      <4>2. OptEndOfLine(g, Stop(s)) \in Stop(s)..Len(g)
        BY <1>1, <4>1, OptEndOfLineRange
      <4> QED BY <1>1, <2>7, <3>4, <4>1, <4>2
    <3> QED BY <2>1, <2>3, <2>5, <2>6, <2>7, <3>2, <3>3, <3>4, <3>5, <1>1, ParseFrameDef
  <2> QED BY <1>1, <1>3, <2>8, <2>9, PartsRange
<1> QED BY <1>2, <1>3

-----------------------------------------------------------------------------
(***************************************************************************)
(* What is incomplete can be completed.                                    *)
(***************************************************************************)

\* There are bytes that make a frame of s.
Viable(S, s) == \E t \in Seq(S) : ParseFrame(s \o t).end >= 0

\* Appending keeps what was there.
LEMMA ExtendsAppended ==
  ASSUME NEW S, NEW s \in Seq(S), NEW t \in Seq(S)
  PROVE  /\ s \o t \in Seq(S)
         /\ Extends(s, s \o t)
         /\ Len(s \o t) = Len(s) + Len(t)
         /\ \A i \in 1..Len(t) : (s \o t)[Len(s) + i] = t[i]
BY DEF Extends

\* What one, two or three symbols add.
LEMMA AppendedSymbols ==
  ASSUME NEW S, NEW s \in Seq(S), NEW a \in S, NEW b \in S, NEW c \in S
  PROVE  /\ <<a>> \in Seq(S) /\ <<a, b>> \in Seq(S) /\ <<a, b, c>> \in Seq(S)
         /\ Len(s \o <<a>>) = Len(s) + 1 /\ (s \o <<a>>)[Len(s) + 1] = a
         /\ Len(s \o <<a, b>>) = Len(s) + 2
         /\ (s \o <<a, b>>)[Len(s) + 1] = a /\ (s \o <<a, b>>)[Len(s) + 2] = b
         /\ Len(s \o <<a, b, c>>) = Len(s) + 3 /\ (s \o <<a, b, c>>)[Len(s) + 1] = a
         /\ (s \o <<a, b, c>>)[Len(s) + 2] = b /\ (s \o <<a, b, c>>)[Len(s) + 3] = c
<1>1. <<a>> \in Seq(S) /\ <<a, b>> \in Seq(S) /\ <<a, b, c>> \in Seq(S)
  OBVIOUS
<1>2. Len(s \o <<a>>) = Len(s) + 1 /\ (s \o <<a>>)[Len(s) + 1] = a
  OBVIOUS
<1>3. /\ Len(s \o <<a, b>>) = Len(s) + 2
      /\ (s \o <<a, b>>)[Len(s) + 1] = a /\ (s \o <<a, b>>)[Len(s) + 2] = b
  OBVIOUS
<1>4. /\ Len(s \o <<a, b, c>>) = Len(s) + 3 /\ (s \o <<a, b, c>>)[Len(s) + 1] = a
      /\ (s \o <<a, b, c>>)[Len(s) + 2] = b /\ (s \o <<a, b, c>>)[Len(s) + 3] = c
  OBVIOUS
<1> QED BY <1>1, <1>2, <1>3, <1>4

LEMMA SeqMonotone == ASSUME NEW S, NEW T, S \subseteq T, NEW s \in Seq(S) PROVE s \in Seq(T)
OBVIOUS

\* It may be done in two steps.
LEMMA ViableLater ==
  ASSUME NEW S, NEW s \in Seq(S), NEW t \in Seq(S), Viable(S, s \o t)
  PROVE  Viable(S, s)
<1>1. PICK u \in Seq(S) : ParseFrame((s \o t) \o u).end >= 0
  BY DEF Viable
<1>2. (s \o t) \o u = s \o (t \o u) /\ t \o u \in Seq(S)
  OBVIOUS
<1> QED BY <1>1, <1>2 DEF Viable

\* Until stops at a symbol to stop at that has none in front of it.
LEMMA UntilAt ==
  ASSUME NEW s, Len(s) \in Nat, NEW p \in 0..Len(s), NEW k \in p..(Len(s) - 1), NEW stops,
         \A r \in p..(k - 1) : s[r + 1] \notin stops, s[k + 1] \in stops
  PROVE  Until(s, p, stops) = k
<1> DEFINE q == Until(s, p, stops)
<1>1. /\ q \in p..Len(s)
      /\ q < Len(s) => s[q + 1] \in stops
      /\ \A r \in p..(q - 1) : s[r + 1] \notin stops
  BY UntilRange
<1> HIDE DEF q
<1>2. ~ (k < q)
  BY <1>1
<1>3. ~ (q < k)
  BY <1>1
<1> QED BY <1>1, <1>2, <1>3 DEF q

\* An LF at the end of the buffer is the empty line behind the headers.
LEMMA EmptyLine ==
  ASSUME NEW s, Len(s) \in Nat, NEW p \in 0..Len(s), NEW q \in p..Len(s),
         q + 1 = Len(s), s[q + 1] = LF
  PROVE  HeadersFrom(s, p)[q] = Len(s)
<1>1. KeyEnd(s, q) = q
  BY UntilAt DEF KeyEnd
<1>2. Header(s, q) = Fails
  BY <1>1 DEF Header
<1>3. EndOfLine(s, q) = q + 1
  BY DEF EndOfLine
<1> QED BY <1>2, <1>3, HeadersFromDef

\* A header line that is incomplete.
LEMMA HeaderWaits ==
  ASSUME NEW s, Len(s) \in Nat, NEW q \in 0..Len(s), Header(s, q) = NeedsMore
  PROVE  \/ KeyEnd(s, q) = Len(s)
         \/ /\ KeyEnd(s, q) < Len(s) /\ KeyEnd(s, q) # q /\ s[KeyEnd(s, q) + 1] = Colon
            /\ \/ ValueEnd(s, q) = Len(s)
               \/ ValueEnd(s, q) + 1 = Len(s) /\ s[ValueEnd(s, q) + 1] = CR
<1>1. KeyEnd(s, q) \in q..Len(s)
  BY KeyEndRange
<1>2. CASE KeyEnd(s, q) = Len(s)
  BY <1>2
<1>3. CASE KeyEnd(s, q) < Len(s)
  <2>1. /\ KeyEnd(s, q) # q /\ s[KeyEnd(s, q) + 1] = Colon
        /\ EndOfLine(s, ValueEnd(s, q)) = NeedsMore
    BY <1>3 DEF Header, NeedsMore, Fails
  <2>2. ValueEnd(s, q) \in 0..Len(s)
    BY <1>1, <1>3, KeyEndRange
  <2>3. ValueEnd(s, q) = Len(s) \/ (ValueEnd(s, q) + 1 = Len(s) /\ s[ValueEnd(s, q) + 1] = CR)
    BY <2>1, <2>2 DEF EndOfLine, NeedsMore, Fails
  <2> QED BY <1>3, <2>1, <2>3
<1> QED BY <1>1, <1>2, <1>3

\* Headers that are incomplete can be completed, with the last byte.
LEMMA HeadersViable ==
  ASSUME NEW S, LF \in S, Colon \in S, NEW s \in Seq(S), NEW p \in 0..Len(s),
         HeadersEnd(s, p) = NeedsMore
  PROVE  \E t \in Seq(S) : HeadersEnd(s \o t, p) = Len(s \o t)
<1> DEFINE Good(q) == HeadersFrom(s, p)[q] = NeedsMore =>
                         \E t \in Seq(S) : HeadersFrom(s \o t, p)[q] = Len(s \o t)
           Q == {q \in p..Len(s) : Good(q)}
<1>1. Len(s) \in Nat
  OBVIOUS
<1>2. ASSUME NEW q \in p..Len(s), \A r \in (q + 1)..Len(s) : r \in Q
      PROVE  Good(q)
  <2> SUFFICES ASSUME HeadersFrom(s, p)[q] = NeedsMore
               PROVE  \E t \in Seq(S) : HeadersFrom(s \o t, p)[q] = Len(s \o t)
    OBVIOUS
  <2>0. q \in 0..Len(s)
    BY <1>1
  <2>1. CASE Header(s, q) = Fails
    <3>1. EndOfLine(s, q) = NeedsMore
      BY <2>1, <1>1, HeadersFromDef
    <3>2. q # Len(s)
      <4>1. q = Len(s) => KeyEnd(s, q) = Len(s)
        BY <2>0, KeyEndRange
      <4> QED BY <4>1, <2>1 DEF Header, NeedsMore, Fails
    <3>3. q + 1 = Len(s) /\ s[q + 1] = CR
      BY <2>0, <3>1, <3>2 DEF EndOfLine, NeedsMore, Fails
    <3> DEFINE t == <<LF>>
               g == s \o t
    <3>4. /\ t \in Seq(S) /\ Extends(s, g) /\ Len(g) = Len(s) + 1 /\ g[Len(s) + 1] = LF
      <4>1. t \in Seq(S)
        BY AppendedSymbols
      <4> HIDE DEF g
      <4>2. Extends(s, s \o t)
        BY <4>1, ExtendsAppended
      <4> QED BY <4>1, <4>2, AppendedSymbols DEF g
    <3> HIDE DEF t, g
    <3>5. Header(g, q) = Fails
      BY <2>0, <2>1, <3>4, HeaderStable DEF Fails, NeedsMore
    <3>6. g[q + 1] = CR
      BY <3>3, <3>4, <2>0 DEF Extends
    <3>7. EndOfLine(g, q) = Len(g)
      BY <3>3, <3>4, <3>6, <2>0 DEF EndOfLine, CR, LF
    <3>8. Len(g) \in Nat /\ p \in 0..Len(g) /\ q \in p..Len(g)
      BY <1>1, <3>4
    <3>9. HeadersFrom(g, p)[q] = Len(g)
      BY <3>5, <3>7, <3>8, HeadersFromDef
    <3> QED BY <3>4, <3>9 DEF g
  <2>2. CASE Header(s, q) = NeedsMore /\ q = Len(s)
    <3> DEFINE t == <<LF>>
               g == s \o t
    <3>1. /\ t \in Seq(S) /\ Len(g) = Len(s) + 1 /\ g[Len(s) + 1] = LF
      <4>1. t \in Seq(S)
        BY AppendedSymbols
      <4> HIDE DEF g
      <4>2. Extends(s, s \o t)
        BY <4>1, ExtendsAppended
      <4> QED BY <4>1, <4>2, AppendedSymbols DEF g
    <3> HIDE DEF t, g
    <3>2. Len(g) \in Nat /\ p \in 0..Len(g) /\ q \in p..Len(g) /\ q + 1 = Len(g) /\ g[q + 1] = LF
      BY <1>1, <2>2, <3>1
    <3>3. HeadersFrom(g, p)[q] = Len(g)
      BY <3>2, EmptyLine
    <3> QED BY <3>1, <3>3 DEF g
  <2>3. CASE Header(s, q) = NeedsMore /\ q # Len(s) /\ KeyEnd(s, q) = Len(s)
    <3> DEFINE t == <<Colon, LF, LF>>
               g == s \o t
    <3>1. /\ t \in Seq(S) /\ Extends(s, g) /\ Len(g) = Len(s) + 3
          /\ g[Len(s) + 1] = Colon /\ g[Len(s) + 2] = LF /\ g[Len(s) + 3] = LF
      <4>1. t \in Seq(S)
        BY AppendedSymbols
      <4> HIDE DEF g
      <4>2. Extends(s, s \o t)
        BY <4>1, ExtendsAppended
      <4> QED BY <4>1, <4>2, AppendedSymbols DEF g
    <3> HIDE DEF t, g
    <3>2. Len(g) \in Nat /\ q \in 0..Len(g) /\ Len(s) \in q..(Len(g) - 1)
      BY <1>1, <3>1
    <3>3. KeyEnd(g, q) = Len(s)
      <4>1. \A r \in q..(Len(s) - 1) : s[r + 1] \notin {Colon, CR, LF}
        <5>1. Until(s, q, {Colon, CR, LF}) = Len(s)
          BY <2>3 DEF KeyEnd
        <5> QED BY <1>1, <2>0, <5>1, UntilRange
      <4>2. \A r \in q..(Len(s) - 1) : g[r + 1] \notin {Colon, CR, LF}
        BY <4>1, <3>1, <2>0 DEF Extends
      <4>3. g[Len(s) + 1] \in {Colon, CR, LF}
        BY <3>1
      <4>4. Until(g, q, {Colon, CR, LF}) = Len(s)
        BY ONLY <3>2, <4>2, <4>3, UntilAt
      <4> QED BY <4>4 DEF KeyEnd
    <3>4. ValueEnd(g, q) = Len(s) + 1
      <4>1. \A r \in (Len(s) + 1)..(Len(s) + 1 - 1) : g[r + 1] \notin {CR, LF}
        BY <1>1
      <4>2. Len(s) + 1 \in 0..Len(g) /\ Len(s) + 1 \in (Len(s) + 1)..(Len(g) - 1)
            /\ g[Len(s) + 1 + 1] \in {CR, LF}
        BY <1>1, <3>1
      <4>3. Until(g, Len(s) + 1, {CR, LF}) = Len(s) + 1
        BY ONLY <3>2, <4>1, <4>2, UntilAt
      <4> QED BY <3>3, <4>3 DEF ValueEnd
    <3>5. Header(g, q) = Len(s) + 2
      <4>1. EndOfLine(g, Len(s) + 1) = Len(s) + 2
        BY <1>1, <3>1 DEF EndOfLine
      <4> QED BY <1>1, <2>3, <3>1, <3>3, <3>4, <4>1 DEF Header
    <3>6. /\ p \in 0..Len(g) /\ q \in p..Len(g)
          /\ Len(s) + 2 \in p..Len(g) /\ Len(s) + 2 + 1 = Len(g) /\ g[Len(s) + 2 + 1] = LF
      BY <1>1, <3>1
    <3>7. HeadersFrom(g, p)[q] = HeadersFrom(g, p)[Len(s) + 2]
      BY <1>1, <3>2, <3>5, <3>6, HeadersFromDef DEF Fails
    <3>8. HeadersFrom(g, p)[Len(s) + 2] = Len(g)
      BY <3>2, <3>6, EmptyLine
    <3> QED BY <3>1, <3>7, <3>8 DEF g
  <2>4. CASE Header(s, q) = NeedsMore /\ KeyEnd(s, q) # Len(s)
    <3> DEFINE t == <<LF, LF>>
               g == s \o t
    <3>1. /\ t \in Seq(S) /\ Extends(s, g) /\ Len(g) = Len(s) + 2
          /\ g[Len(s) + 1] = LF /\ g[Len(s) + 2] = LF
      <4>1. t \in Seq(S)
        BY AppendedSymbols
      <4> HIDE DEF g
      <4>2. Extends(s, s \o t)
        BY <4>1, ExtendsAppended
      <4> QED BY <4>1, <4>2, AppendedSymbols DEF g
    <3> HIDE DEF t, g
    <3> DEFINE k == KeyEnd(s, q)
               v == ValueEnd(s, q)
    <3>2. /\ k < Len(s) /\ k # q /\ s[k + 1] = Colon
          /\ v = Len(s) \/ (v + 1 = Len(s) /\ s[v + 1] = CR)
      BY <1>1, <2>0, <2>4, HeaderWaits
    <3>3. k \in q..Len(s) /\ v \in (k + 1)..Len(s)
      BY <1>1, <2>0, <3>2, KeyEndRange
    <3>4. Len(g) \in Nat /\ q \in 0..Len(g) /\ v \in 0..(Len(g) - 1)
      BY <1>1, <3>1, <3>3
    <3>5. KeyEnd(g, q) = k /\ g[k + 1] = Colon
      <4>1. KeyEnd(g, q) = k
        BY <2>0, <3>1, <3>2, UntilStable DEF KeyEnd
      <4>2. k + 1 \in 1..Len(s)
        BY <2>0, <3>2, <3>3
      <4> QED BY <3>1, <3>2, <4>1, <4>2 DEF Extends
    <3>6. ValueEnd(g, q) = v
      <4> HIDE DEF k
      <4>1. \A r \in (k + 1)..(v - 1) : s[r + 1] \notin {CR, LF}
        <5>1. k + 1 \in 0..Len(s) /\ v = Until(s, k + 1, {CR, LF})
          BY <2>0, <3>2, <3>3 DEF ValueEnd, k
        <5> HIDE DEF v
        <5> QED BY <1>1, <5>1, UntilRange
      <4>2. \A r \in (k + 1)..(v - 1) : g[r + 1] \notin {CR, LF}
        <5> SUFFICES ASSUME NEW r \in (k + 1)..(v - 1) PROVE g[r + 1] \notin {CR, LF}
          OBVIOUS
        <5>1. r + 1 \in 1..Len(s)
          BY <2>0, <3>3
        <5>2. g[r + 1] = s[r + 1]
          BY <3>1, <5>1 DEF Extends
        <5> QED BY <4>1, <5>2
      <4>3. g[v + 1] \in {CR, LF}
        <5>1. CASE v = Len(s)
          BY <5>1, <3>1
        <5>2. CASE v + 1 = Len(s) /\ s[v + 1] = CR
          BY <5>2, <3>1, <3>3, <2>0 DEF Extends
        <5> QED BY <3>2, <5>1, <5>2
      <4>4. k + 1 \in 0..Len(g) /\ v \in (k + 1)..(Len(g) - 1)
        BY <2>0, <3>1, <3>3
      <4> HIDE DEF v
      <4>5. Until(g, k + 1, {CR, LF}) = v
        BY ONLY <3>4, <4>2, <4>3, <4>4, UntilAt
      <4> QED BY <3>5, <4>5 DEF ValueEnd
    <3> HIDE DEF k, v
    <3>7. EndOfLine(g, v) = Len(s) + 1
      <4>1. CASE v = Len(s)
        BY <4>1, <3>1, <1>1 DEF EndOfLine
      <4>2. CASE v + 1 = Len(s) /\ s[v + 1] = CR
        <5>1. g[v + 1] = CR
          BY <4>2, <3>1, <3>3, <2>0 DEF Extends
        <5>2. v \in Nat /\ v # Len(g) /\ v + 1 # Len(g) /\ g[v + 2] = LF
          BY <4>2, <3>1, <3>4
        <5> QED BY <5>1, <5>2, <4>2 DEF EndOfLine, CR, LF
      <4> QED BY <3>2, <4>1, <4>2
    <3>8. Header(g, q) = Len(s) + 1
      <4>1. KeyEnd(g, q) # Len(g) /\ KeyEnd(g, q) # q
        BY <2>0, <3>1, <3>2, <3>3, <3>5
      <4> QED BY <4>1, <3>5, <3>6, <3>7 DEF Header
    <3>9. /\ p \in 0..Len(g) /\ q \in p..Len(g)
          /\ Len(s) + 1 \in p..Len(g) /\ Len(s) + 1 + 1 = Len(g) /\ g[Len(s) + 1 + 1] = LF
      BY <1>1, <3>1
    <3>10. HeadersFrom(g, p)[q] = HeadersFrom(g, p)[Len(s) + 1]
      BY <1>1, <3>4, <3>8, <3>9, HeadersFromDef DEF Fails
    <3>11. HeadersFrom(g, p)[Len(s) + 1] = Len(g)
      BY <3>4, <3>9, EmptyLine
    <3> QED BY <3>1, <3>10, <3>11 DEF g
  <2>5. CASE Header(s, q) \in (q + 1)..Len(s)
    <3>1. Header(s, q) >= 0 /\ ~ (Header(s, q) < 0) /\ Header(s, q) # Fails
          /\ Header(s, q) # NeedsMore
      BY <2>0, <2>5 DEF Fails, NeedsMore
    <3>2. HeadersFrom(s, p)[q] = HeadersFrom(s, p)[Header(s, q)]
      BY <1>1, <3>1, HeadersFromDef
    <3>3. Good(Header(s, q))
      BY <1>2, <2>5
    <3>4. PICK t \in Seq(S) : HeadersFrom(s \o t, p)[Header(s, q)] = Len(s \o t)
      BY <3>2, <3>3
    <3>5. /\ Len(s \o t) \in Nat /\ p \in 0..Len(s \o t) /\ q \in p..Len(s \o t)
          /\ Extends(s, s \o t)
      BY <1>1, ExtendsAppended
    <3>6. Header(s \o t, q) = Header(s, q)
      BY <2>0, <3>1, <3>5, HeaderStable
    <3>7. HeadersFrom(s \o t, p)[q] = HeadersFrom(s \o t, p)[Header(s, q)]
      <4> DEFINE f == s \o t
                 h == Header(s, q)
      <4>1. /\ Len(f) \in Nat /\ p \in 0..Len(f) /\ q \in p..Len(f)
            /\ Header(f, q) = h /\ ~ (h < 0) /\ h # Fails
        BY <3>1, <3>5, <3>6
      <4> HIDE DEF f, h
      <4>2. HeadersFrom(f, p)[q] = HeadersFrom(f, p)[h]
        BY ONLY <4>1, HeadersFromDef
      <4> QED BY <4>2 DEF f, h
    <3> QED BY <3>4, <3>7
  <2> QED BY <1>1, <2>0, <2>1, <2>2, <2>3, <2>4, <2>5, HeaderRange, KeyEndRange
<1>3. \A q \in p..Len(s) : q \in Q
  <2>1. \A q \in p..Len(s) : (\A r \in (q + 1)..Len(s) : r \in Q) => q \in Q
    <3> HIDE DEF Good
    <3> QED BY <1>2
  <2>2. p \in Int /\ Len(s) \in Int
    BY <1>1
  <2> HIDE DEF Q
  <2> QED BY <2>1, <2>2, Downward, Zenon
<1>4. PICK t \in Seq(S) : HeadersFrom(s \o t, p)[p] = Len(s \o t)
  <2>1. HeadersFrom(s, p)[p] = NeedsMore
    BY <1>1, HeadersFromDef
  <2>2. Good(p)
    <3>1. p \in p..Len(s)
      BY <1>1
    <3> HIDE DEF Good
    <3> QED BY <1>3, <3>1
  <2> QED BY <2>1, <2>2
<1>5. Len(s \o t) \in Nat /\ p \in 0..Len(s \o t)
  BY <1>1, ExtendsAppended
<1> QED BY <1>4, <1>5, HeadersFromDef

LEMMA StartStays ==
  ASSUME NEW s, NEW g, Extends(s, g), Len(s) >= 2
  PROVE  Start(g) = Start(s)
<1>1. Len(s) \in Nat
  BY DEF Extends
<1>2. 0 \in 0..Len(s)
  BY <1>1
<1>3. Len(s) # 0 /\ Len(s) # 1
  <2> DEFINE n == Len(s)
  <2>1. n \in Nat /\ n >= 2
    BY <1>1
  <2> HIDE DEF n
  <2>2. n # 0 /\ n # 1
    BY <2>1
  <2> QED BY <2>2 DEF n
<1>4. OptEndOfLine(g, 0) = OptEndOfLine(s, 0)
        \/ (OptEndOfLine(s, 0) = 0 /\ (0 = Len(s) \/ (0 + 1 = Len(s) /\ s[0 + 1] = CR)))
  BY <1>2, OptEndOfLineStable
<1>5. 0 + 1 = 1
  OBVIOUS
<1> QED BY <1>3, <1>4, <1>5 DEF Start

\* A line that is there, and what is in front of it, is where it was when
\* more has arrived.
LEMMA LineStable ==
  ASSUME NEW s, NEW g, Extends(s, g), LineStop(s) >= 0
  PROVE  LineStop(g) = LineStop(s)
<1>1. Len(s) \in Nat /\ Len(g) \in Nat /\ Len(s) <= Len(g)
  BY DEF Extends
<1>2. /\ Start(s) \in 0..Len(s) /\ CommandStop(s) \in (Start(s) + 1)..(Len(s) - 1)
      /\ CommandStop(s) # NeedsMore
  BY <1>1, PartsRange, Alpha1Range DEF CommandStop, NeedsMore, Fails
<1>3. Start(g) = Start(s)
  <2> DEFINE a == Start(s)
             c == CommandStop(s)
             n == Len(s)
  <2>1. n \in Nat /\ a \in 0..n /\ c \in (a + 1)..(n - 1)
    BY <1>1, <1>2
  <2> HIDE DEF a, c, n
  <2>2. n >= 2
    BY <2>1
  <2> QED BY <2>2, StartStays DEF n
<1>4. CommandStop(g) = CommandStop(s)
  BY <1>2, <1>3, Alpha1Stable DEF CommandStop
<1>5. LineStop(s) = EndOfLine(s, CommandStop(s)) /\ LineStop(g) = EndOfLine(g, CommandStop(s))
  BY <1>1, <1>2, <1>4 DEF LineStop
<1>6. CommandStop(s) \in 0..Len(s) /\ EndOfLine(s, CommandStop(s)) # NeedsMore
  BY <1>1, <1>2, <1>5 DEF NeedsMore
<1> QED BY <1>5, <1>6, EndOfLineStable

\* A head that is complete leaves a body to be completed.
LEMMA BodyViable ==
  ASSUME NEW S, NUL \in S, NEW s \in Seq(S), HeadersStop(s) >= 0, Stop(s) = NeedsMore
  PROVE  Viable(S, s)
<1>1. Len(s) \in Nat
  OBVIOUS
<1> DEFINE h == HeadersStop(s)
           length == LengthOf(s)
           missing == IF length = {} THEN 1
                      ELSE h + (CHOOSE n \in length : TRUE) + 1 - Len(s)
           t == [i \in 1..missing |-> NUL]
           g == s \o t
<1>2. h \in 0..Len(s) /\ length \subseteq 0..MaxLength /\ LineStop(s) >= 0
  BY <1>1, PartsRange DEF NeedsMore, Fails
<1>3. /\ length # {} => (CHOOSE n \in length : TRUE) \in Nat
      /\ missing \in Nat /\ missing >= 1
  <2>1. BodyStop(s) = BodyEnd(s, h, length) /\ BodyStop(s) \in {NeedsMore} \cup (h..Len(s))
    BY <1>1, <1>2, BodyEndRange DEF BodyStop
  <2>2. CASE length = {}
    BY <2>2
  <2>3. CASE length # {}
    <3> DEFINE n == CHOOSE n \in length : TRUE
    <3>1. n \in 0..MaxLength
      BY <2>3, <1>2
    <3>2. n \in Nat
      BY <3>1, MaxLengthAssumption
    <3> HIDE DEF n
    <3>3. CASE h + n > Len(s)
      <4>1. missing = h + n + 1 - Len(s)
        BY <2>3 DEF n
      <4> QED BY <1>1, <1>2, <2>3, <3>2, <3>3, <4>1 DEF n
    <3>4. CASE h + n <= Len(s)
      <4>1. BodyStop(s) = h + n
        BY <1>1, <1>2, <2>1, <2>3, <3>2, <3>4 DEF BodyEnd, n
      <4>2. Terminator(s, h + n) = NeedsMore
        BY <1>1, <1>2, <3>2, <4>1 DEF Stop
      <4>3. h + n = Len(s)
        <5>1. h + n \in 0..Len(s)
          BY <1>1, <1>2, <3>2, <3>4
        <5>2. h + n + 1 \in 0..Len(s) => OptEndOfLine(s, h + n + 1) # NeedsMore
          BY <1>1, OptEndOfLineRange DEF NeedsMore
        <5> QED BY <1>1, <4>2, <5>1, <5>2 DEF Terminator, NeedsMore, Fails
      <4>4. missing = h + n + 1 - Len(s)
        BY <2>3 DEF n
      <4> QED BY <1>1, <1>2, <2>3, <3>2, <4>3, <4>4 DEF n
    <3> QED BY <1>1, <1>2, <3>2, <3>3, <3>4
  <2> QED BY <2>2, <2>3
<1> HIDE DEF missing
<1>4. t \in Seq(S) /\ Len(t) = missing
  BY <1>3
<1>5. /\ Extends(s, g) /\ Len(g) = Len(s) + missing
      /\ \A i \in 1..missing : g[Len(s) + i] = NUL
  BY <1>3, <1>4, ExtendsAppended
<1> HIDE DEF t, g
<1>6. Len(g) \in Nat /\ h \in 0..Len(g) /\ Len(s) <= Len(g)
  BY <1>1, <1>2, <1>3, <1>5
<1>7. HeadersStop(g) = h /\ LengthOf(g) = length
  <2>1. LineStop(g) = LineStop(s) /\ LineStop(s) \in 0..Len(s)
    BY <1>1, <1>2, <1>5, LineStable, PartsRange DEF NeedsMore, Fails
  <2>2. HeadersEnd(s, LineStop(s)) = h /\ h # NeedsMore
    BY <1>2, <2>1, <1>1 DEF HeadersStop, NeedsMore
  <2>3. HeadersEnd(g, LineStop(s)) = h /\ ContentLength(g, LineStop(s)) = length
    BY <1>2, <1>5, <2>1, <2>2, HeadersStable DEF LengthOf
  <2> QED BY <2>1, <2>3, <1>1 DEF HeadersStop, LengthOf
<1>8. \E b \in 0..(Len(g) - 1) : BodyStop(g) = b /\ g[b + 1] = NUL
  <2>1. BodyStop(g) = BodyEnd(g, h, length)
    BY <1>2, <1>7, <1>1 DEF BodyStop
  <2>2. CASE length = {}
    <3> DEFINE b == Until(g, h, {NUL})
    <3>1. /\ b \in h..Len(g)
          /\ b < Len(g) => g[b + 1] = NUL
          /\ \A r \in h..(b - 1) : g[r + 1] # NUL
      BY <1>6, UntilRange
    <3> HIDE DEF b
    <3>2. Len(s) \in h..(Len(g) - 1) /\ g[Len(s) + 1] = NUL
      BY <1>1, <1>2, <1>3, <1>5
    <3>3. b <= Len(s)
      BY <1>1, <1>2, <1>6, <3>1, <3>2
    <3>4. b \in 0..(Len(g) - 1)
      BY <1>1, <1>2, <1>6, <3>1, <3>2, <3>3
    <3>5. BodyStop(g) = b
      BY <1>6, <2>1, <2>2, <3>4 DEF BodyEnd, b
    <3> QED BY <3>1, <3>4, <3>5
  <2>3. CASE length # {}
    <3> DEFINE n == CHOOSE n \in length : TRUE
    <3>1. n \in Nat /\ missing = h + n + 1 - Len(s)
      BY <1>3, <2>3 DEF missing
    <3> HIDE DEF n
    <3>2. Len(g) = h + n + 1
      BY <1>1, <1>2, <1>5, <3>1
    <3>3. g[h + n + 1] = NUL
      <4>1. missing \in 1..missing /\ Len(s) + missing = h + n + 1
        BY <1>1, <1>2, <1>3, <3>1
      <4> QED BY <1>5, <4>1
    <3>4. BodyStop(g) = h + n
      BY <1>2, <2>1, <2>3, <3>1, <3>2, SMTT(30) DEF BodyEnd, n
    <3>5. h + n \in 0..(Len(g) - 1)
      BY <1>1, <1>2, <3>1, <3>2
    <3> QED BY <3>3, <3>4, <3>5
  <2> QED BY <2>2, <2>3
<1>9. PICK b \in 0..(Len(g) - 1) : BodyStop(g) = b /\ g[b + 1] = NUL
  BY <1>8
<1>10. Stop(g) = OptEndOfLine(g, b + 1)
  BY <1>6, <1>9 DEF Stop, Terminator
<1>11. Stop(g) >= 0
  <2>1. b + 1 \in 0..Len(g)
    BY <1>6, <1>9
  <2>2. OptEndOfLine(g, b + 1) \in (b + 1)..Len(g)
    BY <1>6, <2>1, OptEndOfLineRange
  <2> QED BY <1>6, <1>9, <1>10, <2>2
<1>12. ParseFrame(g).end >= 0
  BY <1>6, <1>11, ParseFrameDef
<1> QED BY <1>4, <1>12 DEF Viable, g

\* So does a first line.
LEMMA HeadViable ==
  ASSUME NEW S, LF \in S, Colon \in S, NUL \in S, NEW s \in Seq(S),
         LineStop(s) >= 0, Stop(s) = NeedsMore
  PROVE  Viable(S, s)
<1>1. Len(s) \in Nat /\ LineStop(s) \in 0..Len(s)
  BY PartsRange DEF NeedsMore, Fails
<1>2. HeadersStop(s) = HeadersEnd(s, LineStop(s))
  BY <1>1 DEF HeadersStop
<1>3. CASE HeadersStop(s) >= 0
  BY <1>3, BodyViable
<1>4. CASE ~ (HeadersStop(s) >= 0)
  <2>1. HeadersStop(s) = NeedsMore
    BY <1>1, <1>4, PartsRange DEF Stop, BodyStop, NeedsMore, Fails
  <2>2. PICK t \in Seq(S) : HeadersEnd(s \o t, LineStop(s)) = Len(s \o t)
    BY <1>1, <1>2, <2>1, HeadersViable
  <2> DEFINE g == s \o t
  <2>3. g \in Seq(S) /\ Extends(s, g)
    BY ExtendsAppended
  <2>4. HeadersEnd(g, LineStop(s)) = Len(g)
    BY <2>2
  <2> HIDE DEF g
  <2>5. Len(g) \in Nat
    BY <2>3
  <2>6. HeadersStop(g) = Len(g)
    <3>1. LineStop(g) = LineStop(s)
      BY <2>3, LineStable
    <3> QED BY <1>1, <2>4, <3>1 DEF HeadersStop
  <2>7. Stop(g) = NeedsMore
    <3> DEFINE length == LengthOf(g)
    <3>1. length \subseteq 0..MaxLength
      BY <2>5, <2>6, PartsRange
    <3>2. BodyStop(g) = BodyEnd(g, Len(g), length)
      BY <2>5, <2>6 DEF BodyStop
    <3> HIDE DEF length
    <3>3. BodyStop(g) \in {NeedsMore, Len(g)}
      <4>1. Len(g) \in 0..Len(g)
        BY <2>5
      <4>2. BodyEnd(g, Len(g), length) \in {NeedsMore} \cup (Len(g)..Len(g))
        BY <2>5, <3>1, <4>1, BodyEndRange
      <4> QED BY <2>5, <3>2, <4>2
    <3> QED BY <2>5, <3>3 DEF Stop, Terminator, NeedsMore
  <2>8. Viable(S, g)
    BY <2>3, <2>5, <2>6, <2>7, BodyViable
  <2> QED BY <2>8, ViableLater DEF g
<1> QED BY <1>3, <1>4

\* A first line that is incomplete can be completed.
LEMMA LineViable ==
  ASSUME NEW S, LF \in S, Letters \subseteq S, Letters # {}, NEW s \in Seq(S),
         LineStop(s) = NeedsMore
  PROVE  \E t \in Seq(S) : LineStop(s \o t) = Len(s \o t)
<1>1. Len(s) \in Nat /\ 0 \in 0..Len(s) /\ Start(s) \in 0..Len(s)
  <2>1. Len(s) \in Nat
    OBVIOUS
  <2> QED BY <2>1, PartsRange
<1>2. CASE CommandStop(s) >= 0
  <2> DEFINE c == CommandStop(s)
             g == s \o <<LF>>
  <2>1. c \in (Start(s) + 1)..(Len(s) - 1) /\ EndOfLine(s, c) = NeedsMore
    BY <1>1, <1>2, Alpha1Range DEF CommandStop, LineStop, NeedsMore, Fails
  <2> HIDE DEF c
  <2>2. c + 1 = Len(s) /\ s[c + 1] = CR
    BY <1>1, <2>1 DEF EndOfLine, NeedsMore, Fails
  <2>3. <<LF>> \in Seq(S) /\ Extends(s, g) /\ Len(g) = Len(s) + 1 /\ g[Len(s) + 1] = LF
    <3>1. <<LF>> \in Seq(S)
      BY AppendedSymbols
    <3> HIDE DEF g
    <3>2. Len(g) = Len(s) + 1 /\ g[Len(s) + 1] = LF
      BY AppendedSymbols DEF g
    <3> QED BY <3>1, <3>2, ExtendsAppended DEF g
  <2> HIDE DEF g
  <2>4. Start(g) = Start(s)
    <3> DEFINE a == Start(s)
               n == Len(s)
    <3>1. n \in Nat /\ a \in 0..n /\ c \in (a + 1)..(n - 1)
      BY <1>1, <2>1
    <3> HIDE DEF a, n
    <3>2. n >= 2
      BY <3>1
    <3> QED BY <2>3, <3>2, StartStays DEF n
  <2>5. CommandStop(g) = c
    <3>1. Alpha1(s, Start(s)) = c /\ c # NeedsMore
      BY <1>1, <2>1 DEF c, CommandStop, NeedsMore
    <3>2. Alpha1(g, Start(s)) = c
      BY <1>1, <2>3, <3>1, Alpha1Stable
    <3> QED BY <2>4, <3>2 DEF CommandStop
  <2>6. EndOfLine(g, c) = Len(g)
    <3>1. g[c + 1] = CR
      BY <1>1, <2>1, <2>2, <2>3 DEF Extends
    <3>2. c \in Nat /\ c # Len(g) /\ c + 1 # Len(g) /\ g[c + 2] = LF
      BY <1>1, <2>1, <2>2, <2>3
    <3> QED BY <2>2, <2>3, <3>1, <3>2 DEF EndOfLine, CR, LF
  <2>7. LineStop(g) = Len(g)
    BY <1>1, <2>1, <2>5, <2>6 DEF LineStop
  <2> QED BY <2>3, <2>7 DEF g
<1>3. CASE ~ (CommandStop(s) >= 0)
  <2>1. Alpha1(s, Start(s)) = NeedsMore
    BY <1>1, <1>3, PartsRange DEF LineStop, CommandStop, NeedsMore, Fails
  <2>2. PICK letter \in Letters : TRUE
    OBVIOUS
  <2> DEFINE t == <<letter, LF>>
             g == s \o t
             stops(u) == {u[i] : i \in 1..Len(u)} \ Letters
  <2>3. /\ letter \in S /\ t \in Seq(S) /\ Extends(s, g) /\ Len(g) = Len(s) + 2
        /\ g[Len(s) + 1] = letter /\ g[Len(s) + 2] = LF
    <3>1. letter \in S
      OBVIOUS
    <3>2. t \in Seq(S)
      BY <3>1, AppendedSymbols
    <3> HIDE DEF g
    <3>3. Len(g) = Len(s) + 2 /\ g[Len(s) + 1] = letter /\ g[Len(s) + 2] = LF
      BY <3>1, AppendedSymbols DEF g
    <3> HIDE DEF t
    <3> QED BY <3>1, <3>2, <3>3, ExtendsAppended DEF g
  <2> HIDE DEF t, g
  <2>4. letter # LF /\ letter # CR /\ LF \notin Letters
    BY LettersAssumption
  <2>5. Start(g) = Start(s)
    <3>1. CASE Len(s) = 0
      <4>1. g[1] = letter /\ Len(g) = 2
        BY <2>3, <3>1
      <4>2. EndOfLine(g, 0) = Fails
        BY <2>4, <4>1 DEF EndOfLine
      <4>3. Start(g) = 0
        BY <4>2 DEF Start, OptEndOfLine, Fails
      <4> QED BY <1>1, <3>1, <4>3
    <3>2. CASE Len(s) = 1 /\ s[1] = CR
      <4>1. EndOfLine(s, 0) = NeedsMore
        BY <3>2 DEF EndOfLine, CR, LF
      <4>2. Start(s) = 0
        BY <4>1 DEF Start, OptEndOfLine, NeedsMore
      <4>3. Alpha1(s, 0) = Fails
        BY <1>1, <3>2, LettersAssumption, Alpha1Range
      <4> QED BY <2>1, <4>2, <4>3 DEF NeedsMore, Fails
    <3>3. CASE ~ (Len(s) = 0 \/ (Len(s) = 1 /\ s[1] = CR))
      <4>1. ~ (0 = Len(s) \/ (0 + 1 = Len(s) /\ s[0 + 1] = CR))
        BY <1>1, <3>3
      <4> QED BY <1>1, <2>3, <4>1, OptEndOfLineStable DEF Start
    <3> QED BY <3>1, <3>2, <3>3
  <2>6. \A r \in Start(s)..(Len(s) - 1) : s[r + 1] \in Letters
    <3>1. Until(s, Start(s), stops(s)) = Len(s)
      BY <2>1, <1>1, UntilRange DEF Alpha1, NeedsMore, Fails
    <3>2. \A r \in Start(s)..(Len(s) - 1) : s[r + 1] \notin stops(s)
      <4> HIDE DEF stops
      <4> QED BY <1>1, <3>1, UntilRange
    <3> SUFFICES ASSUME NEW r \in Start(s)..(Len(s) - 1) PROVE s[r + 1] \in Letters
      OBVIOUS
    <3>3. r + 1 \in 1..Len(s)
      BY <1>1
    <3> QED BY <3>2, <3>3
  <2>7. \A r \in Start(s)..(Len(s) + 1 - 1) : g[r + 1] \notin stops(g)
    <3> SUFFICES ASSUME NEW r \in Start(s)..Len(s) PROVE g[r + 1] \in Letters
      BY <1>1
    <3>1. CASE r = Len(s)
      BY <2>3, <3>1
    <3>2. CASE r # Len(s)
      <4>1. r \in Start(s)..(Len(s) - 1) /\ r + 1 \in 1..Len(s)
        BY <1>1, <3>2
      <4> QED BY <2>3, <2>6, <4>1 DEF Extends
    <3> QED BY <3>1, <3>2
  <2>8. g[Len(s) + 1 + 1] \in stops(g)
    <3>1. Len(s) + 2 \in 1..Len(g) /\ Len(s) + 1 + 1 = Len(s) + 2
      BY <1>1, <2>3
    <3> QED BY <2>3, <2>4, <3>1
  <2>9. Until(g, Start(s), stops(g)) = Len(s) + 1
    <3>1. Len(g) \in Nat /\ Start(s) \in 0..Len(g) /\ Len(s) + 1 \in Start(s)..(Len(g) - 1)
      BY <1>1, <2>3
    <3> DEFINE T == stops(g)
               a == Start(s)
               k == Len(s) + 1
    <3>2. /\ Len(g) \in Nat /\ a \in 0..Len(g) /\ k \in a..(Len(g) - 1)
          /\ \A r \in a..(k - 1) : g[r + 1] \notin T
          /\ g[k + 1] \in T
      BY <2>7, <2>8, <3>1
    <3> HIDE DEF T, a, k
    <3>3. Until(g, a, T) = k
      BY ONLY <3>2, UntilAt
    <3> QED BY <3>3 DEF T, a, k
  <2>10. CommandStop(g) = Len(s) + 1
    BY <1>1, <2>3, <2>5, <2>9 DEF CommandStop, Alpha1
  <2>11. EndOfLine(g, Len(s) + 1) = Len(g)
    BY <1>1, <2>3 DEF EndOfLine
  <2>12. LineStop(g) = Len(g)
    BY <1>1, <2>10, <2>11 DEF LineStop
  <2> QED BY <2>3, <2>12 DEF g
<1> QED BY <1>2, <1>3

\* parse_frame never asks in vain for more.
LEMMA IncompleteViable ==
  ASSUME NEW S, LF \in S, Colon \in S, NUL \in S, Letters \subseteq S, Letters # {},
         NEW s \in Seq(S), ParseFrame(s).end = NeedsMore
  PROVE  Viable(S, s)
<1>1. Len(s) \in Nat /\ Stop(s) = NeedsMore
  BY ParseFrameDef
<1>2. CASE LineStop(s) >= 0
  BY <1>1, <1>2, HeadViable
<1>3. CASE ~ (LineStop(s) >= 0)
  <2>1. LineStop(s) = NeedsMore
    BY <1>1, <1>3, PartsRange DEF Stop, BodyStop, HeadersStop, NeedsMore, Fails
  <2>2. PICK t \in Seq(S) : LineStop(s \o t) = Len(s \o t)
    BY <2>1, LineViable
  <2> DEFINE g == s \o t
  <2>3. g \in Seq(S) /\ Len(g) \in Nat /\ LineStop(g) = Len(g)
    BY <2>2
  <2> HIDE DEF g
  <2>4. HeadersStop(g) = NeedsMore
    <3>1. KeyEnd(g, Len(g)) = Len(g)
      <4>1. Len(g) \in 0..Len(g)
        BY <2>3
      <4>2. KeyEnd(g, Len(g)) \in Len(g)..Len(g)
        BY <2>3, <4>1, KeyEndRange
      <4> QED BY <2>3, <4>2
    <3>2. Header(g, Len(g)) = NeedsMore
      BY <3>1 DEF Header
    <3>3. HeadersEnd(g, Len(g)) = NeedsMore
      BY <2>3, <3>2, HeadersFromDef DEF NeedsMore, Fails
    <3> QED BY <2>3, <3>3 DEF HeadersStop
  <2>5. Stop(g) = NeedsMore
    BY <2>4 DEF Stop, BodyStop, NeedsMore
  <2>6. Viable(S, g)
    BY <2>3, <2>5, HeadViable
  <2> QED BY <2>6, ViableLater DEF g
<1> QED BY <1>2, <1>3

-----------------------------------------------------------------------------

\* The verdict is the one of a parse from the front of what has been read.
ParsedAfresh ==
    /\ input \in Seq(STRING)
    /\ verdict = ParseFrame(input)

\* decode() parses from the front of the buffer, each time (transport/client.rs
\* decode): the verdict is that of all that has been read.
LEMMA AlwaysParsedAfresh == Growth => []ParsedAfresh
<1>1. GrowthInit => ParsedAfresh
  BY TextsAssumption DEF GrowthInit, ParsedAfresh
<1>2. ParsedAfresh /\ [GrowthNext]_growing => ParsedAfresh'
  <2> SUFFICES ASSUME ParsedAfresh, [GrowthNext]_growing PROVE ParsedAfresh'
    OBVIOUS
  <2>1. CASE GrowthNext
    <3>1. PICK piece \in Pieces : input' = input \o piece /\ verdict' = ParseFrame(input')
      BY <2>1 DEF GrowthNext, AppendAndParse
    <3>2. piece \in Seq(STRING)
      BY TextsAssumption
    <3> QED BY <3>1, <3>2 DEF ParsedAfresh
  <2>2. CASE UNCHANGED growing
    BY <2>2 DEF ParsedAfresh, growing
  <2> QED BY <2>1, <2>2
<1> QED BY <1>1, <1>2, PTL DEF Growth

LEMMA StepStands ==
  ASSUME ParsedAfresh, GrowthNext
  PROVE  /\ verdict.end = Fails /\ input # <<CR>> => verdict'.end = Fails
         /\ verdict.end >= 0 =>
              /\ verdict'.command = verdict.command
              /\ verdict'.body = verdict.body
              /\ verdict'.end \in {verdict.end, OptEndOfLine(input', verdict.end)}
<1>1. PICK piece \in Pieces : /\ input' = input \o piece
                              /\ verdict' = ParseFrame(input')
  BY DEF GrowthNext, AppendAndParse
<1>2. input \in Seq(STRING) /\ piece \in Seq(STRING) /\ verdict = ParseFrame(input)
  BY TextsAssumption DEF ParsedAfresh
<1>3. Extends(input, input')
  BY <1>1, <1>2 DEF Extends
<1>4. CASE input = <<CR>>
  <2>1. Start(input) = 0 /\ Alpha1(input, 0) = Fails
    <3>1. Len(input) = 1 /\ input[1] = CR
      BY <1>4
    <3>2. OptEndOfLine(input, 0) = 0
      BY <3>1 DEF OptEndOfLine, EndOfLine, NeedsMore, CR, LF
    <3>3. Alpha1(input, 0) = Fails
      BY <3>1, LettersAssumption, Alpha1Range
    <3> QED BY <3>2, <3>3 DEF Start
  <2>2. verdict.end = Fails
    BY <1>2, <2>1, ParseFrameDef DEF Stop, BodyStop, HeadersStop, LineStop, CommandStop, Fails
  <2> QED BY <1>4, <2>2 DEF Fails
<1>5. CASE input # <<CR>>
  <2>1. ~ (Len(input) = 1 /\ input[1] = CR)
    BY <1>2, <1>5
  <2> QED BY <1>1, <1>2, <1>3, <2>1, ParseFrameStable
<1> QED BY <1>4, <1>5

\* What has been decided stays decided, however the bytes are cut and however
\* many there are.
THEOREM DecisionsAlwaysStand == Growth => DecisionsStand
<1>1. ParsedAfresh /\ [GrowthNext]_growing =>
        [/\ verdict.end = Fails /\ input # <<CR>> => verdict'.end = Fails
         /\ verdict.end >= 0 =>
              /\ verdict'.command = verdict.command
              /\ verdict'.body = verdict.body
              /\ verdict'.end \in {verdict.end, OptEndOfLine(input', verdict.end)}]_growing
  BY StepStands
<1> QED BY <1>1, AlwaysParsedAfresh, PTL DEF Growth, DecisionsStand

\* parse_frame asks for more only when more can make a frame of what there is
\* (frame.rs parse_frame, transport/client.rs decode): for completions of any
\* kind, over any set of symbols that has those of the texts, and those with a
\* meaning.
THEOREM NeverWaitsInVain ==
  ASSUME NEW Symbols, STRING \subseteq Symbols, {LF, Colon, NUL} \cup Letters \subseteq Symbols,
         Letters # {}, Seq(Symbols) \subseteq Completions
  PROVE  Growth => []IncompleteIsViable
<1>1. ParsedAfresh => IncompleteIsViable
  <2> SUFFICES ASSUME ParsedAfresh, verdict.end = NeedsMore
               PROVE  \E text \in Completions : ParseFrame(input \o text).end >= 0
    BY DEF IncompleteIsViable
  <2>1. input \in Seq(Symbols)
    BY SeqMonotone, Zenon DEF ParsedAfresh
  <2>2. Viable(Symbols, input)
    BY <2>1, IncompleteViable DEF ParsedAfresh
  <2> QED BY <2>2 DEF Viable
<1> QED BY <1>1, AlwaysParsedAfresh, PTL

-----------------------------------------------------------------------------
(***************************************************************************)
(* GrowingBuffer: the parser and the grammar.                              *)
(***************************************************************************)

\* The LF at position h ends a head that begins behind the LF at position q.
HeadAt(s, q, h) ==
    /\ q \in 1..(h - 1) /\ h \in 1..Len(s)
    /\ s[q] = LF /\ s[h] = LF
    /\ \A i \in q..h : s[i] = CR => s[i + 1] = LF
    /\ IsHead(s, q, h)

\* A line that ends where parse_header has stopped is a header line.
LEMMA HeaderTaken ==
  ASSUME NEW s, Len(s) \in Nat, NEW q \in 0..Len(s), Header(s, q) >= 0
  PROVE  LET n == Header(s, q) IN
         /\ n \in (q + 2)..Len(s)
         /\ IsNextEnd(s, q, n) /\ IsHeaderLine(s, q, n)
         /\ \A i \in (q + 1)..n : s[i] = CR => s[i + 1] = LF
         /\ ValueEnd(s, q) = TextEnd(s, n)
         /\ s[KeyEnd(s, q) + 1] = Colon /\ KeyEnd(s, q) \in (q + 1)..(TextEnd(s, n) - 1)
         /\ \A i \in (q + 1)..KeyEnd(s, q) : s[i] # Colon
<1> DEFINE n == Header(s, q)
           e == KeyEnd(s, q)
           v == ValueEnd(s, q)
<1>1. /\ e \in q..(Len(s) - 1) /\ e # q /\ s[e + 1] = Colon
      /\ n = EndOfLine(s, v)
  BY KeyEndRange, HeaderRange DEF Header, NeedsMore, Fails
<1>2. \A r \in q..(e - 1) : s[r + 1] \notin {Colon, CR, LF}
  BY UntilRange DEF KeyEnd
<1>3. /\ v \in (e + 1)..(Len(s) - 1)
      /\ \A r \in (e + 1)..(v - 1) : s[r + 1] \notin {CR, LF}
  <2>1. e + 1 \in 0..Len(s) /\ v = Until(s, e + 1, {CR, LF})
    BY <1>1 DEF ValueEnd
  <2>2. v < Len(s)
    BY HeaderRange
  <2> HIDE DEF e, v
  <2> QED BY <2>1, <2>2, UntilRange
<1> HIDE DEF n, e, v
<1>4. /\ \/ n = v + 1 /\ s[v + 1] = LF
         \/ n = v + 2 /\ s[v + 1] = CR /\ s[v + 2] = LF
      /\ n <= Len(s)
  <2>1. n >= 0
    BY DEF n
  <2> QED BY <1>1, <1>3, <2>1 DEF EndOfLine, NeedsMore, Fails
<1>5. ASSUME NEW i \in (q + 1)..v
      PROVE  s[i] # CR /\ s[i] # LF
  <2>1. CASE i <= e
    <3>1. i - 1 \in q..(e - 1) /\ (i - 1) + 1 = i
      BY <1>1, <1>3, <2>1
    <3> QED BY <1>2, <3>1
  <2>2. CASE i = e + 1
    BY <1>1, <2>2 DEF Colon, CR, LF
  <2>3. CASE i > e + 1
    <3>1. i - 1 \in (e + 1)..(v - 1) /\ (i - 1) + 1 = i
      BY <1>1, <1>3, <2>3
    <3> QED BY <1>3, <3>1
  <2> QED BY <1>1, <1>3, <2>1, <2>2, <2>3
<1>6. v = TextEnd(s, n)
  <2>1. v \in (q + 1)..v /\ v \in Nat /\ v > 1 - 1
    BY <1>1, <1>3
  <2>2. s[v] # CR
    BY <1>5, <2>1
  <2> QED BY <1>4, <2>1, <2>2 DEF TextEnd, CR, LF
<1>7. IsNextEnd(s, q, n)
  <2>1. ASSUME NEW k \in (q + 1)..(n - 1) PROVE s[k] # LF
    <3>1. k \in (q + 1)..v \/ (k = v + 1 /\ s[v + 1] = CR)
      BY <1>1, <1>3, <1>4, <2>1
    <3> QED BY <1>5, <3>1 DEF CR, LF
  <2>2. q < n /\ s[n] = LF
    BY <1>1, <1>3, <1>4
  <2> QED BY <2>1, <2>2 DEF IsNextEnd
<1>8. IsHeaderLine(s, q, n)
  <2>1. s[q + 1] # Colon
    <3>1. q \in q..(e - 1)
      BY <1>1
    <3> QED BY <1>2, <3>1
  <2>2. e + 1 \in (q + 2)..v
    BY <1>1, <1>3
  <2> QED BY <1>1, <1>6, <2>1, <2>2 DEF IsHeaderLine
<1>9. \A i \in (q + 1)..n : s[i] = CR => s[i + 1] = LF
  <2>1. ASSUME NEW i \in (q + 1)..n, s[i] = CR PROVE s[i + 1] = LF
    <3>1. i \in (q + 1)..v \/ i = v + 1 \/ i = v + 2
      BY <1>1, <1>3, <1>4, <2>1
    <3>2. i # v + 2 /\ i \notin (q + 1)..v
      BY <1>1, <1>3, <1>4, <1>5, <2>1 DEF CR, LF
    <3> QED BY <1>3, <1>4, <2>1, <3>1, <3>2 DEF CR, LF
  <2> QED BY <2>1
<1>10. \A i \in (q + 1)..e : s[i] # Colon
  <2>1. ASSUME NEW i \in (q + 1)..e PROVE s[i] # Colon
    <3>1. i - 1 \in q..(e - 1) /\ (i - 1) + 1 = i
      BY <1>1, <2>1
    <3> QED BY <1>2, <3>1
  <2> QED BY <2>1
<1>11. n \in (q + 2)..Len(s) /\ e \in (q + 1)..(v - 1)
  BY <1>1, <1>3, <1>4
<1> QED BY <1>1, <1>6, <1>7, <1>8, <1>9, <1>10, <1>11 DEF n, e, v

\* parse_header takes a header line.
LEMMA HeaderLineTaken ==
  ASSUME NEW s, Len(s) \in Nat, NEW q \in 0..Len(s), NEW n \in 1..Len(s),
         IsNextEnd(s, q, n), IsHeaderLine(s, q, n),
         \A i \in (q + 1)..n : s[i] = CR => s[i + 1] = LF
  PROVE  Header(s, q) = n
<1> DEFINE v == TextEnd(s, n)
           e == KeyEnd(s, q)
<1>1. /\ q < n /\ s[n] = LF /\ \A k \in (q + 1)..(n - 1) : s[k] # LF
      /\ s[q + 1] # Colon
  BY DEF IsNextEnd, IsHeaderLine
<1>2. PICK k \in (q + 2)..v : s[k] = Colon
  BY DEF IsHeaderLine
<1>3. /\ v \in Int /\ q + 2 <= v
      /\ \/ n = v + 1 /\ s[v + 1] = LF
         \/ n = v + 2 /\ s[v + 1] = CR
      /\ s[v] # CR \/ n = v + 2
  BY <1>1, <1>2 DEF TextEnd, CR, LF
<1> HIDE DEF v
<1>4. ASSUME NEW i \in (q + 1)..v
      PROVE  s[i] # CR /\ s[i] # LF
  <2>1. i \in (q + 1)..(n - 1) /\ i \in (q + 1)..n
    BY <1>1, <1>3
  <2>2. s[i] # LF
    BY <1>1, <2>1
  <2>3. ASSUME s[i] = CR PROVE FALSE
    <3>1. s[i + 1] = LF
      BY <2>1, <2>3
    <3>2. i + 1 = n
      <4>1. i + 1 \in (q + 1)..(n - 1) \/ i + 1 = n
        BY <2>1
      <4> QED BY <1>1, <3>1, <4>1
    <3>3. i = v /\ n = v + 1
      BY <1>3, <3>2
    <3> QED BY <1>3, <2>3, <3>3
  <2> QED BY <2>2, <2>3
<1>5. /\ e \in q..Len(s)
      /\ e < Len(s) => s[e + 1] \in {Colon, CR, LF}
      /\ \A r \in q..(e - 1) : s[r + 1] \notin {Colon, CR, LF}
  BY UntilRange DEF KeyEnd
<1> HIDE DEF e
<1>6. e <= k - 1
  <2>1. SUFFICES ASSUME e > k - 1 PROVE FALSE
    BY <1>2, <1>5
  <2>2. k - 1 \in q..(e - 1) /\ (k - 1) + 1 = k
    BY <1>2, <1>5, <2>1
  <2> QED BY <1>2, <1>5, <2>2
<1>7. e # q
  <2>1. q + 1 \in (q + 1)..v
    BY <1>3
  <2> QED BY <1>1, <1>4, <1>5, <1>6, <1>3, <2>1
<1>8. s[e + 1] = Colon /\ e < Len(s) /\ e + 1 <= v
  <2>1. e < Len(s) /\ e + 1 \in (q + 1)..v
    BY <1>2, <1>3, <1>5, <1>6
  <2> QED BY <1>4, <1>5, <2>1
<1>9. ValueEnd(s, q) = v
  <2>1. e + 1 \in 0..Len(s) /\ v \in (e + 1)..(Len(s) - 1)
    BY <1>3, <1>5, <1>8
  <2>2. ASSUME NEW r \in (e + 1)..(v - 1) PROVE s[r + 1] \notin {CR, LF}
    <3>1. r + 1 \in (q + 1)..v
      BY <1>5, <1>3
    <3> QED BY <1>4, <3>1
  <2>3. s[v + 1] \in {CR, LF}
    BY <1>3
  <2>4. Until(s, e + 1, {CR, LF}) = v
    BY <2>1, <2>2, <2>3, UntilAt
  <2> QED BY <2>4 DEF ValueEnd, e
<1>10. EndOfLine(s, v) = n
  <2>1. v # Len(s) /\ v \in Nat
    BY <1>3
  <2>2. n = v + 2 => v + 1 # Len(s) /\ s[v + 2] = LF
    BY <1>1, <1>3
  <2> QED BY <1>3, <2>1, <2>2 DEF EndOfLine, CR, LF
<1>11. Header(s, q) = EndOfLine(s, ValueEnd(s, q))
  BY <1>5, <1>7, <1>8 DEF Header, e
<1> QED BY <1>9, <1>10, <1>11

\* There is one next LF.
LEMMA NextEndUnique ==
  ASSUME NEW s, NEW i \in Int, NEW j \in Int, NEW k \in Int, IsNextEnd(s, i, j), IsNextEnd(s, i, k)
  PROVE  j = k
<1>1. CASE j < k
  <2>1. j \in (i + 1)..(k - 1)
    BY <1>1 DEF IsNextEnd
  <2> QED BY <2>1 DEF IsNextEnd
<1>2. CASE k < j
  <2>1. k \in (i + 1)..(j - 1)
    BY <1>2 DEF IsNextEnd
  <2> QED BY <2>1 DEF IsNextEnd
<1> QED BY <1>1, <1>2

\* An empty line is a line ending.
LEMMA EmptyLineTaken ==
  ASSUME NEW s, Len(s) \in Nat, NEW q \in 1..Len(s), s[q] = LF, NEW n \in Nat
  PROVE  EndOfLine(s, q) = n
            <=> /\ n <= Len(s) /\ IsNextEnd(s, q, n) /\ TextEnd(s, n) = q
                /\ \A i \in (q + 1)..n : s[i] = CR => s[i + 1] = LF
<1>1. ASSUME EndOfLine(s, q) = n
      PROVE  /\ n <= Len(s) /\ IsNextEnd(s, q, n) /\ TextEnd(s, n) = q
             /\ \A i \in (q + 1)..n : s[i] = CR => s[i + 1] = LF
  <2>1. /\ \/ n = q + 1 /\ s[q + 1] = LF
           \/ n = q + 2 /\ s[q + 1] = CR /\ s[q + 2] = LF
        /\ n <= Len(s)
    BY <1>1 DEF EndOfLine, NeedsMore, Fails
  <2>2. CASE n = q + 1
    <3>1. n - 1 = q /\ n > 1 /\ s[n] = LF /\ ~ (\E k \in (q + 1)..(n - 1) : TRUE)
      BY <2>1, <2>2
    <3>2. \A i \in (q + 1)..n : i = n
      BY <2>2
    <3> QED BY <2>1, <3>1, <3>2 DEF IsNextEnd, TextEnd, CR, LF
  <2>3. CASE n = q + 2
    <3>1. n - 1 = q + 1 /\ n - 2 = q /\ n > 1 /\ q < n /\ s[n] = LF /\ s[n - 1] = CR
      BY <2>1, <2>3
    <3>2. \A i \in (q + 1)..n : i = n \/ i = q + 1
      BY <2>3
    <3>3. \A i \in (q + 1)..(n - 1) : i = q + 1
      BY <2>3
    <3> QED BY <2>1, <2>3, <3>1, <3>2, <3>3 DEF IsNextEnd, TextEnd, CR, LF
  <2> QED BY <2>1, <2>2, <2>3
<1>2. ASSUME n <= Len(s), IsNextEnd(s, q, n), TextEnd(s, n) = q
      PROVE  EndOfLine(s, q) = n
  <2>1. q < n /\ s[n] = LF
    BY <1>2 DEF IsNextEnd
  <2>2. n = q + 1 \/ (n = q + 2 /\ s[q + 1] = CR)
    BY <1>2, <2>1 DEF TextEnd
  <2> QED BY <1>2, <2>1, <2>2 DEF EndOfLine, CR, LF
<1> QED BY <1>1, <1>2

\* A head is an empty line ...
LEMMA HeadIsEmptyLine ==
  ASSUME NEW s, Len(s) \in Nat, NEW q \in 1..Len(s), s[q] = LF, EndOfLine(s, q) >= 0
  PROVE  HeadAt(s, q, EndOfLine(s, q)) /\ Announced(s, q, EndOfLine(s, q)) = {}
<1> DEFINE h == EndOfLine(s, q)
<1>1. h \in Nat
  BY EndOfLineRange DEF NeedsMore, Fails
<1> HIDE DEF h
<1>2. /\ h <= Len(s) /\ IsNextEnd(s, q, h) /\ TextEnd(s, h) = q
      /\ \A i \in (q + 1)..h : s[i] = CR => s[i + 1] = LF
  BY <1>1, EmptyLineTaken DEF h
<1>3. q < h /\ s[h] = LF /\ \A k \in (q + 1)..(h - 1) : s[k] # LF
  BY <1>2 DEF IsNextEnd
<1>4. LineEnds(s, q, h - 1) = {q}
  <2>1. \A i \in q..(h - 1) : i = q \/ i \in (q + 1)..(h - 1)
    BY <1>1
  <2>2. q \in q..(h - 1)
    BY <1>1, <1>3
  <2> QED BY <1>3, <2>1, <2>2 DEF LineEnds
<1>5. IsHead(s, q, h)
  <2>1. h \in (q + 1)..h
    BY <1>1, <1>3
  <2> QED BY <1>2, <1>4, <2>1 DEF IsHead
<1>6. \A i \in q..h : s[i] = CR => s[i + 1] = LF
  <2>1. \A i \in q..h : i = q \/ i \in (q + 1)..h
    BY <1>1
  <2> QED BY <1>2, <2>1 DEF CR, LF
<1>7. s[q + 1] \in {CR, LF}
  BY <1>1 DEF h, EndOfLine, NeedsMore, Fails
<1>8. {i \in LineEnds(s, q, h - 1) : s[i + 1] = ContentLengthKey /\ s[i + 2] = Colon} = {}
  BY <1>4, <1>7 DEF ContentLengthKey, CR, LF
<1>9. Announced(s, q, h) = {}
  BY <1>8 DEF Announced
<1>10. HeadAt(s, q, h)
  BY <1>1, <1>2, <1>3, <1>5, <1>6 DEF HeadAt
<1> QED BY <1>9, <1>10 DEF h

\* ... or a header line and a head.
LEMMA HeadIsHeaderLine ==
  ASSUME NEW s, Len(s) \in Nat, NEW q \in 1..Len(s), s[q] = LF, Header(s, q) >= 0,
         NEW h, HeadAt(s, Header(s, q), h)
  PROVE  /\ HeadAt(s, q, h)
         /\ Announced(s, q, h) = IF Key(s, q) = <<ContentLengthKey>> THEN Number(Value(s, q))
                                 ELSE Announced(s, Header(s, q), h)
<1> DEFINE n == Header(s, q)
           e == KeyEnd(s, q)
<1>1. /\ n \in (q + 2)..Len(s)
      /\ IsNextEnd(s, q, n) /\ IsHeaderLine(s, q, n)
      /\ \A i \in (q + 1)..n : s[i] = CR => s[i + 1] = LF
      /\ ValueEnd(s, q) = TextEnd(s, n)
      /\ s[e + 1] = Colon /\ e \in (q + 1)..(TextEnd(s, n) - 1)
      /\ \A i \in (q + 1)..e : s[i] # Colon
  BY HeaderTaken
<1>2. /\ n \in 1..(h - 1) /\ h \in 1..Len(s) /\ s[n] = LF /\ s[h] = LF
      /\ \A i \in n..h : s[i] = CR => s[i + 1] = LF
      /\ IsHead(s, n, h)
  BY DEF HeadAt
<1>3. \A k \in (q + 1)..(n - 1) : s[k] # LF
  BY <1>1 DEF IsNextEnd
<1> HIDE DEF n, e
<1>4. LineEnds(s, q, h - 1) = {q} \cup LineEnds(s, n, h - 1)
  <2>1. \A i \in q..(h - 1) : i = q \/ i \in (q + 1)..(n - 1) \/ i \in n..(h - 1)
    BY <1>1, <1>2
  <2>2. q \in q..(h - 1) /\ \A i \in n..(h - 1) : i \in q..(h - 1)
    BY <1>1, <1>2
  <2> QED BY <1>3, <2>1, <2>2 DEF LineEnds
<1>5. IsHead(s, q, h)
  <2>1. n \in (q + 1)..h /\ n # h
    BY <1>1, <1>2
  <2>2. \E j \in (q + 1)..h : /\ IsNextEnd(s, q, j)
                             /\ IF j = h THEN TextEnd(s, j) = q ELSE IsHeaderLine(s, q, j)
    BY <1>1, <2>1
  <2> QED BY <1>2, <1>4, <2>2 DEF IsHead
<1>6. HeadAt(s, q, h)
  <2>1. \A i \in q..h : i = q \/ i \in (q + 1)..n \/ i \in n..h
    BY <1>1, <1>2
  <2>2. \A i \in q..h : s[i] = CR => s[i + 1] = LF
    BY <1>1, <1>2, <2>1 DEF CR, LF
  <2> QED BY <1>1, <1>2, <1>5, <2>2 DEF HeadAt
<1> DEFINE named == s[q + 1] = ContentLengthKey /\ s[q + 2] = Colon
           K(i) == {x \in LineEnds(s, i, h - 1) : s[x + 1] = ContentLengthKey /\ s[x + 2] = Colon}
<1>7. Key(s, q) = <<ContentLengthKey>> <=> named
  <2>1. s[q + 2] = Colon <=> e = q + 1
    <3>1. CASE e = q + 1
      BY <1>1, <3>1
    <3>2. CASE e # q + 1
      <4>1. q + 2 \in (q + 1)..e
        BY <1>1, <3>2
      <4> QED BY <1>1, <3>2, <4>1
    <3> QED BY <3>1, <3>2
  <2>2. Key(s, q) = SubSeq(s, q + 1, e) /\ q \in Nat /\ e \in Nat /\ q + 1 <= e
    BY <1>1 DEF Key, e
  <2>3. Len(SubSeq(s, q + 1, e)) = e - q /\ SubSeq(s, q + 1, e)[1] = s[q + 1]
    BY <2>2
  <2>4. CASE e = q + 1
    <3>1. SubSeq(s, q + 1, e) = [i \in 1..1 |-> s[i + q]]
      BY <2>2, <2>4
    <3>2. SubSeq(s, q + 1, e) = <<ContentLengthKey>> <=> s[q + 1] = ContentLengthKey
      <4>1. s[1 + q] = s[q + 1]
        BY <2>2
      <4> DEFINE k == ContentLengthKey
                 x == s[q + 1]
      <4>2. [i \in 1..1 |-> s[i + q]] = <<x>>
        BY <4>1
      <4> HIDE DEF x, k
      <4>3. <<x>> = <<k>> <=> x = k
        OBVIOUS
      <4> QED BY <3>1, <4>2, <4>3 DEF x, k
    <3> QED BY <2>1, <2>2, <2>4, <3>2
  <2>5. CASE e # q + 1
    <3>1. Len(SubSeq(s, q + 1, e)) # 1
      BY <2>2, <2>3, <2>5
    <3>2. Len(<<ContentLengthKey>>) = 1
      OBVIOUS
    <3>3. SubSeq(s, q + 1, e) # <<ContentLengthKey>>
      BY <3>1, <3>2, Zenon
    <3> QED BY <2>1, <2>2, <2>5, <3>3
  <2> QED BY <2>4, <2>5
<1>8. CASE named
  <2>1. q \in K(q) /\ K(q) # {}
    BY <1>4, <1>8
  <2>2. \A x \in K(q) : x \in Int /\ q <= x
    BY DEF LineEnds
  <2>3. (CHOOSE i \in K(q) : \A j \in K(q) : i <= j) = q
    <3> HIDE DEF K
    <3>1. \A i \in K(q) : (\A j \in K(q) : i <= j) => i = q
      BY <2>1, <2>2
    <3>2. \A j \in K(q) : q <= j
      BY <2>2
    <3> QED BY <2>1, <3>1, <3>2
  <2>4. (CHOOSE j \in (q + 1)..h : IsNextEnd(s, q, j)) = n
    <3>1. n \in (q + 1)..h
      BY <1>1, <1>2
    <3>2. \A j \in (q + 1)..h : IsNextEnd(s, q, j) => j = n
      BY <1>1, NextEndUnique
    <3> QED BY <1>1, <3>1, <3>2
  <2>5. Announced(s, q, h) = Number(SubSeq(s, q + 3, TextEnd(s, n)))
    BY <2>1, <2>3, <2>4 DEF Announced
  <2>6. e = q + 1
    <3>1. e # q + 1 => q + 2 \in (q + 1)..e
      BY <1>1
    <3> QED BY <1>1, <1>8, <3>1
  <2>7. Value(s, q) = SubSeq(s, q + 3, TextEnd(s, n))
    <3>1. e + 2 = q + 3
      BY <2>6
    <3> QED BY <1>1, <3>1 DEF Value, e
  <2> QED BY <1>6, <1>7, <1>8, <2>5, <2>7 DEF n
<1>9. CASE ~ named
  <2>1. K(q) = K(n)
    BY <1>4, <1>9
  <2>2. Announced(s, q, h) = Announced(s, n, h)
    <3> DEFINE A(keys) ==
                 LET first == CHOOSE i \in keys : \A j \in keys : i <= j
                     last  == CHOOSE j \in (first + 1)..h : IsNextEnd(s, first, j)
                 IN  IF keys = {} THEN {} ELSE Number(SubSeq(s, first + 3, TextEnd(s, last)))
    <3>1. Announced(s, q, h) = A(K(q)) /\ Announced(s, n, h) = A(K(n))
      BY Zenon DEF Announced
    <3> HIDE DEF A, K
    <3> QED BY <2>1, <3>1
  <2> QED BY <1>6, <1>7, <1>9, <2>2 DEF n
<1> QED BY <1>8, <1>9

\* It is nothing else.
LEMMA HeadSplits ==
  ASSUME NEW s, Len(s) \in Nat, NEW q, NEW h, HeadAt(s, q, h)
  PROVE  \/ EndOfLine(s, q) = h
         \/ Header(s, q) \in (q + 1)..(h - 1) /\ HeadAt(s, Header(s, q), h)
<1>1. /\ q \in 1..(h - 1) /\ h \in 1..Len(s) /\ s[q] = LF /\ s[h] = LF
      /\ \A i \in q..h : s[i] = CR => s[i + 1] = LF
      /\ IsHead(s, q, h)
  BY DEF HeadAt
<1>2. q \in LineEnds(s, q, h - 1)
  BY <1>1 DEF LineEnds
<1>3. PICK j \in (q + 1)..h : /\ IsNextEnd(s, q, j)
                             /\ IF j = h THEN TextEnd(s, j) = q ELSE IsHeaderLine(s, q, j)
  BY <1>1, <1>2 DEF IsHead
<1>4. q \in 1..Len(s) /\ q \in 0..Len(s) /\ j \in 1..Len(s) /\ j \in Nat
      /\ \A i \in (q + 1)..j : s[i] = CR => s[i + 1] = LF
  <2>1. \A i \in (q + 1)..j : i \in q..h
    BY <1>1, <1>3
  <2> QED BY <1>1, <1>3, <2>1
<1>5. CASE j = h
  BY <1>1, <1>3, <1>4, <1>5, EmptyLineTaken
<1>6. CASE j # h
  <2>1. Header(s, q) = j
    BY <1>3, <1>4, <1>6, HeaderLineTaken
  <2>2. LineEnds(s, j, h - 1) \subseteq LineEnds(s, q, h - 1)
    BY <1>1, <1>3 DEF LineEnds
  <2>3. IsHead(s, j, h)
    BY <1>1, <2>2 DEF IsHead
  <2>4. s[j] = LF
    BY <1>3 DEF IsNextEnd
  <2>5. \A i \in j..h : s[i] = CR => s[i + 1] = LF
    BY <1>1, <1>3
  <2>6. HeadAt(s, j, h)
    BY <1>1, <1>3, <1>6, <2>3, <2>4, <2>5 DEF HeadAt
  <2> QED BY <1>1, <1>3, <1>6, <2>1, <2>6
<1> QED BY <1>5, <1>6

\* repeat(0.., parse_header) and the empty line find the head there is, and
\* get_content_length the length it announces.
LEMMA HeadersFound ==
  ASSUME NEW s, Len(s) \in Nat, NEW p \in 1..Len(s), s[p] = LF, NEW h \in Nat
  PROVE  /\ HeadersEnd(s, p) = h <=> HeadAt(s, p, h)
         /\ HeadAt(s, p, h) => ContentLength(s, p) = Announced(s, p, h)
<1> DEFINE F == HeadersFrom(s, p)
           L == LengthFrom(s, p)
           Good(q) == s[q] = LF => /\ F[q] = h <=> HeadAt(s, q, h)
                                   /\ HeadAt(s, q, h) => L[q] = Announced(s, q, h)
           S == {q \in p..Len(s) : Good(q)}
<1>1. p \in 0..Len(s)
  OBVIOUS
<1>2. ASSUME NEW q \in p..Len(s), \A r \in (q + 1)..Len(s) : r \in S, s[q] = LF
      PROVE  /\ F[q] = h <=> HeadAt(s, q, h)
             /\ HeadAt(s, q, h) => L[q] = Announced(s, q, h)
  <2>1. q \in 1..Len(s) /\ q \in 0..Len(s)
    OBVIOUS
  <2>2. F[q] = IF Header(s, q) = Fails THEN EndOfLine(s, q)
               ELSE IF Header(s, q) < 0 THEN Header(s, q)
               ELSE F[Header(s, q)]
    BY <1>1, HeadersFromDef
  <2>3. L[q] = IF Header(s, q) < 0 THEN {}
               ELSE IF Key(s, q) = <<ContentLengthKey>> THEN Number(Value(s, q))
               ELSE L[Header(s, q)]
    BY <1>1, LengthFromDef
  <2>4. EndOfLine(s, q) = h => Header(s, q) = Fails /\ HeadAt(s, q, h) /\ Announced(s, q, h) = {}
    <3>1. ASSUME EndOfLine(s, q) = h PROVE Header(s, q) = Fails
      <4>1. q < Len(s) /\ s[q + 1] \in {CR, LF}
        BY <2>1, <3>1 DEF EndOfLine, NeedsMore, Fails
      <4>2. KeyEnd(s, q) = q
        <5>1. q \in q..(Len(s) - 1) /\ s[q + 1] \in {Colon, CR, LF}
              /\ \A r \in q..(q - 1) : s[r + 1] \notin {Colon, CR, LF}
          BY <2>1, <4>1
        <5> QED BY <2>1, <5>1, UntilAt DEF KeyEnd
      <4> QED BY <2>1, <4>1, <4>2 DEF Header
    <3> QED BY <1>2, <2>1, <3>1, HeadIsEmptyLine
  <2> HIDE DEF F, L
  <2>5. CASE Header(s, q) \in {NeedsMore, Fails}
    <3>1. Header(s, q) < 0 /\ L[q] = {}
      BY <2>3, <2>5 DEF NeedsMore, Fails
    <3>2. HeadAt(s, q, h) => EndOfLine(s, q) = h
      BY <2>1, <2>5, HeadSplits DEF NeedsMore, Fails
    <3>3. F[q] = h => EndOfLine(s, q) = h
      BY <2>2, <2>5 DEF NeedsMore, Fails
    <3> QED BY <2>2, <2>4, <3>1, <3>2, <3>3
  <2>6. CASE Header(s, q) \in (q + 1)..Len(s)
    <3> DEFINE n == Header(s, q)
    <3>1. Header(s, q) >= 0 /\ ~ (Header(s, q) < 0) /\ Header(s, q) # Fails
      BY <2>1, <2>6 DEF Fails
    <3>2. s[n] = LF
      BY <2>1, <3>1, HeaderTaken DEF IsNextEnd
    <3>3. /\ F[n] = h <=> HeadAt(s, n, h)
          /\ HeadAt(s, n, h) => L[n] = Announced(s, n, h)
      BY <1>2, <2>6, <3>2
    <3>4. F[q] = F[n]
      BY <2>2, <3>1
    <3>5. L[q] = IF Key(s, q) = <<ContentLengthKey>> THEN Number(Value(s, q)) ELSE L[n]
      BY <2>3, <3>1
    <3>6. HeadAt(s, q, h) => HeadAt(s, n, h)
      BY <2>4, <3>1, HeadSplits
    <3>7. HeadAt(s, n, h) =>
             /\ HeadAt(s, q, h)
             /\ Announced(s, q, h) = IF Key(s, q) = <<ContentLengthKey>> THEN Number(Value(s, q))
                                     ELSE Announced(s, n, h)
      BY <1>2, <2>1, <3>1, HeadIsHeaderLine
    <3> HIDE DEF n
    <3> QED BY <3>3, <3>4, <3>5, <3>6, <3>7
  <2> QED BY <2>1, <2>5, <2>6, HeaderRange
<1>3. \A q \in p..Len(s) : q \in S
  <2>1. \A q \in p..Len(s) : (\A r \in (q + 1)..Len(s) : r \in S) => q \in S
    BY <1>2
  <2>2. p \in Int /\ Len(s) \in Int
    OBVIOUS
  <2> HIDE DEF S
  <2> QED BY <2>1, <2>2, Downward, Zenon
<1>4. p \in S
  <2>1. p \in p..Len(s)
    OBVIOUS
  <2> HIDE DEF S
  <2> QED BY <1>3, <2>1
<1>5. HeadersEnd(s, p) = F[p] /\ ContentLength(s, p) = L[p]
  BY <1>1, HeadersFromDef, LengthFromDef
<1> HIDE DEF F, L
<1> QED BY <1>4, <1>5

\* A text is one number or none.
LEMMA NumberIsOne == \A text : Number(text) = {} \/ \E n \in Nat : Number(text) = {n}
<1> TAKE text
<1>1. \A x, y \in Number(text) : x = y
  BY DEF Number
<1>2. Number(text) \subseteq Nat
  BY NumberRange, MaxLengthAssumption
<1> QED BY <1>1, <1>2

\* So a head announces one length or none.
LEMMA AnnouncedIsOne ==
  ASSUME NEW s, NEW line, NEW head
  PROVE  Announced(s, line, head) = {} \/ \E n \in Nat : Announced(s, line, head) = {n}
<1> DEFINE keys  == {i \in LineEnds(s, line, head - 1) :
                       s[i + 1] = ContentLengthKey /\ s[i + 2] = Colon}
           first == CHOOSE i \in keys : \A j \in keys : i <= j
           last  == CHOOSE j \in (first + 1)..head : IsNextEnd(s, first, j)
           text  == SubSeq(s, first + 3, TextEnd(s, last))
<1>1. Announced(s, line, head) = IF keys = {} THEN {} ELSE Number(text)
  BY Zenon DEF Announced
<1> HIDE DEF keys, text
<1> QED BY <1>1, NumberIsOne

\* The optional line ending at the front of the buffer.
LEMMA StartIs ==
  ASSUME NEW s, Len(s) \in Nat, Len(s) > 1, s[1] = CR => s[2] = LF
  PROVE  Start(s) = IF s[1] = LF THEN 1 ELSE IF s[1] = CR THEN 2 ELSE 0
<1>1. EndOfLine(s, 0) = IF s[1] = LF THEN 1 ELSE IF s[1] = CR THEN 2 ELSE Fails
  BY DEF EndOfLine, CR, LF
<1> QED BY <1>1 DEF Start, OptEndOfLine, Fails, CR, LF

\* alpha1 and line_ending take a line of letters ...
LEMMA CommandTaken ==
  ASSUME NEW s, Len(s) \in Nat, NEW a \in 0..Len(s), Alpha1(s, a) >= 0,
         NEW n \in Nat, EndOfLine(s, Alpha1(s, a)) = n
  PROVE  /\ n \in (a + 2)..Len(s) /\ s[n] = LF
         /\ a < TextEnd(s, n)
         /\ \A i \in (a + 1)..TextEnd(s, n) : s[i] \in Letters
         /\ \A i \in (a + 1)..n : s[i] = CR => s[i + 1] = LF
<1> DEFINE S == {s[i] : i \in 1..Len(s)} \ Letters
           c == Alpha1(s, a)
<1>1. c \in (a + 1)..(Len(s) - 1)
  BY Alpha1Range DEF NeedsMore, Fails
<1>2. c = Until(s, a, S)
  BY <1>1 DEF Alpha1, NeedsMore, Fails
<1>3. \A r \in a..(c - 1) : s[r + 1] \notin S
  <2> HIDE DEF S, c
  <2> QED BY <1>2, UntilRange
<1>4. ASSUME NEW i \in (a + 1)..c PROVE s[i] \in Letters
  <2>1. i - 1 \in a..(c - 1) /\ (i - 1) + 1 = i /\ i \in 1..Len(s)
    BY <1>1
  <2>2. s[i] \notin S
    BY <1>3, <2>1
  <2> QED BY <2>1, <2>2
<1> HIDE DEF c
<1>5. /\ \/ n = c + 1 /\ s[c + 1] = LF
         \/ n = c + 2 /\ s[c + 1] = CR /\ s[c + 2] = LF
      /\ n <= Len(s)
  <2>1. EndOfLine(s, c) = n
    BY DEF c
  <2> QED BY <1>1, <2>1 DEF EndOfLine, NeedsMore, Fails
<1>6. TextEnd(s, n) = c
  <2>1. s[c] # CR
    BY <1>1, <1>4, LettersAssumption
  <2> QED BY <1>1, <1>5, <2>1 DEF TextEnd, CR, LF
<1>7. ASSUME NEW i \in (a + 1)..n, s[i] = CR PROVE s[i + 1] = LF
  <2>1. i \in (a + 1)..c \/ i = c + 1 \/ i = c + 2
    BY <1>1, <1>5
  <2>2. i \notin (a + 1)..c
    BY <1>4, <1>7, LettersAssumption
  <2>3. i = c + 1 /\ n = c + 2
    BY <1>1, <1>5, <1>7, <2>1, <2>2 DEF CR, LF
  <2> QED BY <1>1, <1>5, <2>3
<1> QED BY <1>1, <1>4, <1>5, <1>6, <1>7

\* ... and nothing else.
LEMMA LettersTaken ==
  ASSUME NEW s, Len(s) \in Nat, NEW a \in 0..Len(s), NEW n \in (a + 2)..(Len(s) - 1), s[n] = LF,
         a < TextEnd(s, n), \A i \in (a + 1)..TextEnd(s, n) : s[i] \in Letters
  PROVE  Alpha1(s, a) = TextEnd(s, n) /\ EndOfLine(s, TextEnd(s, n)) = n
<1> DEFINE S == {s[i] : i \in 1..Len(s)} \ Letters
           c == TextEnd(s, n)
<1>1. /\ c \in (a + 1)..(Len(s) - 1)
      /\ \/ n = c + 1 /\ s[c + 1] = LF
         \/ n = c + 2 /\ s[c + 1] = CR /\ s[c + 2] = LF
  BY DEF TextEnd
<1> HIDE DEF c
<1>2. ASSUME NEW r \in a..(c - 1) PROVE s[r + 1] \notin S
  <2>1. r + 1 \in (a + 1)..c
    BY <1>1
  <2> QED BY <2>1 DEF c
<1>3. s[c + 1] \in S
  <2>1. s[c + 1] \notin Letters /\ c + 1 \in 1..Len(s)
    BY <1>1, LettersAssumption
  <2> QED BY <2>1
<1>4. Until(s, a, S) = c
  <2> HIDE DEF S
  <2> QED BY <1>1, <1>2, <1>3, UntilAt
<1>5. Alpha1(s, a) = c
  BY <1>1, <1>4 DEF Alpha1
<1>6. EndOfLine(s, c) = n
  BY <1>1 DEF EndOfLine, CR, LF
<1> QED BY <1>5, <1>6 DEF c

\* The body ends where the grammar says.
LEMMA BodyTaken ==
  ASSUME NEW s, Len(s) \in Nat, NEW h \in 0..Len(s), NEW e \in h..(Len(s) - 1), s[e + 1] = NUL,
         NEW length, length = {} \/ \E m \in Nat : length = {m}
  PROVE  BodyEnd(s, h, length) = e
            <=> IF length = {} THEN \A i \in (h + 1)..e : s[i] # NUL
                ELSE length = {e - h}
<1>1. CASE length = {}
  <2> DEFINE u == Until(s, h, {NUL})
  <2>1. u \in h..Len(s) /\ \A r \in h..(u - 1) : s[r + 1] # NUL
    BY UntilRange
  <2>2. (\A i \in (h + 1)..e : s[i] # NUL) => u = e
    <3> SUFFICES ASSUME \A i \in (h + 1)..e : s[i] # NUL PROVE u = e
      OBVIOUS
    <3>1. \A r \in h..(e - 1) : s[r + 1] \notin {NUL}
      <4> SUFFICES ASSUME NEW r \in h..(e - 1) PROVE s[r + 1] # NUL
        OBVIOUS
      <4>1. r + 1 \in (h + 1)..e
        OBVIOUS
      <4> QED BY <4>1
    <3> QED BY <3>1, UntilAt
  <2>3. u = e => \A i \in (h + 1)..e : s[i] # NUL
    <3> SUFFICES ASSUME u = e, NEW i \in (h + 1)..e PROVE s[i] # NUL
      OBVIOUS
    <3>1. i - 1 \in h..(u - 1) /\ (i - 1) + 1 = i
      OBVIOUS
    <3> HIDE DEF u
    <3> QED BY <2>1, <3>1
  <2>4. BodyEnd(s, h, length) = IF u > Len(s) \/ u = Len(s) THEN NeedsMore ELSE u
    BY <1>1 DEF BodyEnd
  <2> HIDE DEF u
  <2>5. BodyEnd(s, h, length) = e <=> u = e
    BY <2>1, <2>4 DEF NeedsMore
  <2> QED BY <1>1, <2>2, <2>3, <2>5
<1>2. ASSUME NEW m \in Nat, length = {m}
      PROVE  BodyEnd(s, h, length) = e <=> length = {e - h}
  <2>1. (CHOOSE n \in length : TRUE) = m
    BY <1>2
  <2>2. BodyEnd(s, h, length) = IF h + m > Len(s) THEN NeedsMore ELSE h + m
    BY <1>2, <2>1 DEF BodyEnd
  <2>3. BodyEnd(s, h, length) = e <=> m = e - h
    <3>1. e \in Nat /\ h \in Nat /\ h <= e /\ e < Len(s)
      OBVIOUS
    <3> QED BY <1>2, <2>2, <3>1 DEF NeedsMore
  <2>4. length = {e - h} <=> m = e - h
    BY <1>2
  <2> QED BY <2>3, <2>4
<1> QED BY <1>1, <1>2

\* What parse_frame finds is a frame.
LEMMA FoundIsFrame ==
  ASSUME NEW s, Len(s) \in Nat, Stop(s) >= 0
  PROVE  /\ HeadersStop(s) \in 1..Len(s) /\ BodyStop(s) + 1 \in (HeadersStop(s) + 1)..Len(s)
         /\ IsFrame(s, HeadersStop(s), BodyStop(s) + 1)
<1> DEFINE a == Start(s)
           c == CommandStop(s)
           n == LineStop(s)
           h == HeadersStop(s)
           e == BodyStop(s)
           length == LengthOf(s)
<1>1. /\ a \in 0..Len(s) /\ c \in (a + 1)..Len(s) /\ n \in 0..Len(s) /\ h \in 0..Len(s)
      /\ e \in 0..Len(s)
      /\ c = Alpha1(s, a) /\ n = EndOfLine(s, c) /\ h = HeadersEnd(s, n)
      /\ length = ContentLength(s, n) /\ e = BodyEnd(s, h, length) /\ Stop(s) = Terminator(s, e)
  BY FoundParts
<1>2. e < Len(s) /\ s[e + 1] = NUL
  BY <1>1 DEF Terminator, NeedsMore, Fails
<1> HIDE DEF a, c, n, h, e, length
<1>3. /\ n \in (a + 2)..Len(s) /\ s[n] = LF
      /\ a < TextEnd(s, n)
      /\ \A i \in (a + 1)..TextEnd(s, n) : s[i] \in Letters
      /\ \A i \in (a + 1)..n : s[i] = CR => s[i + 1] = LF
  BY <1>1, CommandTaken
<1>4. HeadAt(s, n, h) /\ length = Announced(s, n, h)
  BY <1>1, <1>3, HeadersFound
<1>5. /\ n \in 1..(h - 1) /\ h \in 1..Len(s) /\ s[h] = LF
      /\ \A i \in n..h : s[i] = CR => s[i + 1] = LF
      /\ IsHead(s, n, h)
  BY <1>4 DEF HeadAt
<1>6. s[1] = CR => s[2] = LF
  <2>1. CASE a = 0
    <3>1. 1 \in (a + 1)..n
      BY <1>1, <1>3, <2>1
    <3>2. s[1] = CR => s[1 + 1] = LF
      BY <1>3, <3>1
    <3> QED BY <3>2
  <2>2. CASE a # 0
    <3>1. EndOfLine(s, 0) >= 0
      BY <1>1, <2>2, EndOfLineRange DEF a, Start, OptEndOfLine, NeedsMore, Fails
    <3> QED BY <3>1 DEF EndOfLine, NeedsMore, Fails, CR, LF
  <2> QED BY <2>1, <2>2
<1>7. a = IF s[1] = LF THEN 1 ELSE IF s[1] = CR THEN 2 ELSE 0
  BY <1>1, <1>3, <1>6, StartIs DEF a
<1>8. \A i \in 1..h : s[i] = CR => s[i + 1] = LF
  <2> SUFFICES ASSUME NEW i \in 1..h, s[i] = CR PROVE s[i + 1] = LF
    OBVIOUS
  <2>1. CASE i \in (a + 1)..n \/ i \in n..h
    BY <1>3, <1>5, <2>1
  <2>2. CASE i <= a
    <3>1. i = 1 \/ (i = 2 /\ a = 2)
      BY <1>7, <2>2
    <3>2. i # 2
      BY <1>6, <1>7, <3>1 DEF CR, LF
    <3> QED BY <1>6, <3>1, <3>2
  <2> QED BY <1>1, <1>3, <1>5, <2>1, <2>2
<1>9. h <= e
  <2>1. length \subseteq 0..MaxLength
    BY <1>1, FoundParts DEF length
  <2>2. e \in {NeedsMore} \cup (h..Len(s))
    BY <1>1, <2>1, BodyEndRange
  <2> QED BY <1>1, <2>2 DEF NeedsMore
<1>10. IF length = {} THEN \A i \in (h + 1)..e : s[i] # NUL ELSE length = {e - h}
  <2>1. length = {} \/ \E m \in Nat : length = {m}
    BY <1>4, AnnouncedIsOne
  <2>2. e \in h..(Len(s) - 1)
    BY <1>1, <1>2, <1>9
  <2>3. h \in 0..Len(s) /\ s[e + 1] = NUL /\ BodyEnd(s, h, length) = e
    BY <1>1, <1>2
  <2>4. BodyEnd(s, h, length) = e
          <=> IF length = {} THEN \A i \in (h + 1)..e : s[i] # NUL ELSE length = {e - h}
    BY ONLY Len(s) \in Nat, <2>1, <2>2, <2>3, BodyTaken
  <2> QED BY <2>3, <2>4
<1>11. n \in LineEnds(s, a + 2, h - 1)
  BY <1>1, <1>3, <1>5 DEF LineEnds
<1>12. IF Announced(s, n, h) = {} THEN \A i \in (h + 1)..((e + 1) - 1) : s[i] # NUL
       ELSE Announced(s, n, h) = {(e + 1) - 1 - h}
  BY <1>1, <1>4, <1>10
<1>13. IsFrame(s, h, e + 1)
  BY <1>2, <1>3, <1>5, <1>7, <1>8, <1>11, <1>12 DEF IsFrame
<1> QED BY <1>1, <1>2, <1>5, <1>9, <1>13 DEF h, e

\* A frame at the front of the buffer is what parse_frame finds.
LEMMA FrameIsFound ==
  ASSUME NEW s, Len(s) \in Nat, NEW h \in 1..Len(s), NEW nul \in (h + 1)..Len(s), IsFrame(s, h, nul)
  PROVE  Stop(s) >= 0 /\ HeadersStop(s) = h /\ BodyStop(s) + 1 = nul
<1> DEFINE a == IF s[1] = LF THEN 1 ELSE IF s[1] = CR THEN 2 ELSE 0
<1>1. /\ s[h] = LF /\ s[nul] = NUL
      /\ \A i \in 1..h : s[i] = CR => s[i + 1] = LF
  BY DEF IsFrame
<1>2. PICK n \in LineEnds(s, a + 2, h - 1) :
        /\ a < TextEnd(s, n)
        /\ \A i \in (a + 1)..TextEnd(s, n) : s[i] \in Letters
        /\ IsHead(s, n, h)
        /\ IF Announced(s, n, h) = {}
           THEN \A i \in (h + 1)..(nul - 1) : s[i] # NUL
           ELSE Announced(s, n, h) = {nul - 1 - h}
  BY Zenon DEF IsFrame
<1>3. a \in Nat /\ n \in (a + 2)..(h - 1) /\ s[n] = LF
  BY <1>2 DEF LineEnds
<1>4. Start(s) = a
  <2>1. Len(s) > 1 /\ 1 \in 1..h
    BY <1>3
  <2>2. s[1] = CR => s[1 + 1] = LF
    BY <1>1, <2>1
  <2> QED BY <2>1, <2>2, StartIs
<1> HIDE DEF a
<1>5. Alpha1(s, a) = TextEnd(s, n) /\ EndOfLine(s, TextEnd(s, n)) = n
  <2>1. a \in 0..Len(s) /\ n \in (a + 2)..(Len(s) - 1)
    BY <1>3
  <2> QED BY <1>2, <1>3, <2>1, LettersTaken
<1>6. CommandStop(s) >= 0 /\ LineStop(s) = n
  <2>1. CommandStop(s) = TextEnd(s, n)
    BY <1>4, <1>5 DEF CommandStop
  <2>2. TextEnd(s, n) \in Nat
    BY <1>2, <1>3 DEF TextEnd
  <2> QED BY <1>5, <2>1, <2>2 DEF LineStop
<1>7. HeadAt(s, n, h)
  <2>1. \A i \in n..h : s[i] = CR => s[i + 1] = LF
    BY <1>1, <1>3
  <2> QED BY <1>1, <1>2, <1>3, <2>1 DEF HeadAt
<1>8. HeadersEnd(s, n) = h /\ ContentLength(s, n) = Announced(s, n, h)
  <2>1. n \in 1..Len(s) /\ h \in Nat
    BY <1>3
  <2> QED BY <1>3, <1>7, <2>1, HeadersFound
<1>9. HeadersStop(s) = h /\ LengthOf(s) = Announced(s, n, h)
  <2>1. ~ (LineStop(s) < 0)
    BY <1>3, <1>6
  <2> QED BY <1>6, <1>8, <2>1 DEF HeadersStop, LengthOf
<1>10. BodyStop(s) = nul - 1
  <2> DEFINE e == nul - 1
  <2>1. e \in h..(Len(s) - 1) /\ e + 1 = nul /\ h \in 0..Len(s)
    OBVIOUS
  <2>2. BodyEnd(s, h, Announced(s, n, h)) = e
    BY <1>1, <1>2, <2>1, AnnouncedIsOne, BodyTaken
  <2> QED BY <1>9, <2>2 DEF BodyStop
<1>11. Stop(s) >= 0
  <2>1. Stop(s) = Terminator(s, nul - 1)
    BY <1>10 DEF Stop
  <2>2. Terminator(s, nul - 1) = OptEndOfLine(s, nul)
    BY <1>1 DEF Terminator
  <2>3. OptEndOfLine(s, nul) \in nul..Len(s)
    BY OptEndOfLineRange
  <2> QED BY <2>1, <2>2, <2>3
<1> QED BY <1>9, <1>10, <1>11

\* parse_frame (frame.rs) accepts exactly the frames of the grammar: the
\* buffer begins with a frame if and only if it finds one, and it is that one,
\* for any buffer of any symbols.
LEMMA FramesFound ==
  ASSUME NEW s, Len(s) \in Nat
  PROVE  /\ Frames(s) = IF ParseFrame(s).end < 0 THEN {}
                        ELSE {<<ParseFrame(s).nul, ParseFrame(s).body>>}
         /\ ParseFrame(s).end >= 0 => ParseFrame(s).end = OptEndOfLine(s, ParseFrame(s).nul)
<1>1. ParseFrame(s).end = Stop(s) /\ ParseFrame(s).nul = BodyStop(s) + 1
  BY ParseFrameDef, ParsedWhere
<1> DEFINE P == {f \in (1..Len(s)) \X (1..Len(s)) : f[1] < f[2] /\ IsFrame(s, f[1], f[2])}
<1>2. Frames(s) = {<<f[2], SubSeq(s, f[1] + 1, f[2] - 1)>> : f \in P}
  BY Zenon DEF Frames
<1>3. ASSUME NEW f \in P
      PROVE  Stop(s) >= 0 /\ f = <<HeadersStop(s), BodyStop(s) + 1>>
  <2>1. f[1] \in 1..Len(s) /\ f[2] \in (f[1] + 1)..Len(s) /\ IsFrame(s, f[1], f[2])
    OBVIOUS
  <2>2. f = <<f[1], f[2]>>
    OBVIOUS
  <2> HIDE DEF P
  <2> QED BY <2>1, <2>2, FrameIsFound
<1>4. CASE Stop(s) >= 0
  <2> DEFINE h == HeadersStop(s)
             nul == BodyStop(s) + 1
  <2>1. /\ h \in 1..Len(s) /\ nul \in (h + 1)..Len(s) /\ IsFrame(s, h, nul)
    BY <1>4, FoundIsFrame
  <2> HIDE DEF h, nul
  <2>2. <<h, nul>> \in P
    BY <2>1
  <2>3. P = {<<h, nul>>}
    <3> HIDE DEF P
    <3> QED BY <1>3, <2>2 DEF h, nul
  <2>4. Frames(s) = {<<nul, SubSeq(s, h + 1, nul - 1)>>}
    <3> HIDE DEF P
    <3>1. <<h, nul>>[1] = h /\ <<h, nul>>[2] = nul
      OBVIOUS
    <3> QED BY <1>2, <2>3, <3>1
  <2>5. ParseFrame(s).body = SubSeq(s, h + 1, nul - 1)
    <3>1. ParseFrame(s).body = SubSeq(s, HeadersStop(s) + 1, BodyStop(s))
      BY <1>4, ParseFrameDef
    <3>2. BodyStop(s) = nul - 1
      BY <1>4, FoundParts DEF nul
    <3> QED BY <3>1, <3>2 DEF h
  <2>6. Stop(s) = OptEndOfLine(s, nul)
    BY <1>4, FoundInOrder DEF nul
  <2>7. ~ (ParseFrame(s).end < 0) /\ ParseFrame(s).nul = nul
    BY <1>1, <1>4, PartsRange DEF nul, NeedsMore, Fails
  <2> QED BY <1>1, <2>4, <2>5, <2>6, <2>7
<1>5. CASE ~ (Stop(s) >= 0)
  <2>1. P = {}
    <3> HIDE DEF P
    <3> QED BY <1>3, <1>5
  <2>2. ParseFrame(s).end < 0 /\ ~ (ParseFrame(s).end >= 0)
    BY <1>1, <1>5, PartsRange DEF NeedsMore, Fails
  <2>3. Frames(s) = {}
    <3> HIDE DEF P
    <3> QED BY <1>2, <2>1
  <2> QED BY <2>2, <2>3
<1> QED BY <1>4, <1>5

\* parse_frame (frame.rs) finds a frame exactly when the buffer begins with
\* one, and that one: for buffers of any length, in any pieces, over any symbols.
THEOREM FramesAreFound == Growth => []FindsFrames
<1>1. ParsedAfresh => FindsFrames
  BY FramesFound DEF ParsedAfresh, FindsFrames
<1> QED BY <1>1, AlwaysParsedAfresh, PTL

-----------------------------------------------------------------------------
(***************************************************************************)
(* The same symbols at another place: what a rule takes depends on these   *)
(* symbols alone.                                                          *)
(***************************************************************************)

\* The n symbols of s behind position a are those of g behind position b.
Window(s, a, g, b, n) ==
    /\ Len(s) \in Nat /\ Len(g) \in Nat /\ a \in Nat /\ b \in Nat /\ n \in Nat
    /\ a + n <= Len(s) /\ b + n <= Len(g)
    /\ \A i \in 1..n : s[a + i] = g[b + i]

\* A window is one seen from the other side, too.
LEMMA WindowBack ==
  ASSUME NEW s, NEW g, NEW a, NEW b, NEW n, Window(s, a, g, b, n)
  PROVE  Window(g, b, s, a, n)
BY DEF Window

LEMMA WindowAt ==
  ASSUME NEW s, NEW g, NEW a, NEW b, NEW n, Window(s, a, g, b, n), NEW x \in 0..(n - 1)
  PROVE  s[a + x + 1] = g[b + x + 1]
<1>1. x + 1 \in 1..n /\ a + (x + 1) = a + x + 1 /\ b + (x + 1) = b + x + 1
  BY DEF Window
<1>2. \A i \in 1..n : s[a + i] = g[b + i]
  BY DEF Window
<1>3. s[a + (x + 1)] = g[b + (x + 1)]
  BY <1>1, <1>2
<1> QED BY <1>1, <1>3

\* The symbols behind position p, up to position q.
Between(s, p, q) == SubSeq(s, p + 1, q)

\* A part of both is the same.
LEMMA WindowParts ==
  ASSUME NEW s, NEW g, NEW a, NEW b, NEW n, Window(s, a, g, b, n),
         NEW x \in 0..n, NEW y \in 0..n
  PROVE  Between(g, b + x, b + y) = Between(s, a + x, a + y)
<1> DEFINE p == a + x + 1
           q == a + y
           t == b + x + 1
           u == b + y
           m == y - x
<1>1. m \in Int /\ a \in Nat /\ b \in Nat /\ x \in Nat /\ n \in Nat
  BY DEF Window
<1>2. \A i \in 1..m : s[p + i - 1] = g[t + i - 1]
  <2> SUFFICES ASSUME NEW i \in 1..m PROVE s[p + i - 1] = g[t + i - 1]
    OBVIOUS
  <2>1. x + i - 1 \in 0..(n - 1)
    BY <1>1
  <2>2. s[a + (x + i - 1) + 1] = g[b + (x + i - 1) + 1]
    BY <2>1, WindowAt
  <2>3. a + (x + i - 1) + 1 = p + i - 1 /\ b + (x + i - 1) + 1 = t + i - 1
    BY <1>1
  <2> QED BY <2>2, <2>3
<1>3. /\ q - p + 1 = m /\ u - t + 1 = m
      /\ p \in Int /\ q \in Int /\ t \in Int /\ u \in Int
  BY <1>1
<1> HIDE DEF m, p, q, t, u
<1>4. /\ SubSeq(s, p, q) = [i \in 1..m |-> s[p + i - 1]]
      /\ SubSeq(g, t, u) = [i \in 1..m |-> g[t + i - 1]]
  BY <1>1, <1>3
<1>5. [i \in 1..m |-> s[p + i - 1]] = [i \in 1..m |-> g[t + i - 1]]
  BY <1>2, Zenon
<1> QED BY <1>4, <1>5 DEF p, q, t, u, Between

LEMMA UntilMoves ==
  ASSUME NEW s, NEW g, NEW a, NEW b, NEW n, Window(s, a, g, b, n),
         NEW x \in 0..n, NEW y \in 0..(n - 1), NEW S, NEW T,
         \A i \in 1..n : s[a + i] \in S <=> g[b + i] \in T,
         Until(s, a + x, S) = a + y
  PROVE  Until(g, b + x, T) = b + y
<1>1. /\ Len(s) \in Nat /\ Len(g) \in Nat /\ a \in Nat /\ b \in Nat /\ n \in Nat
      /\ a + n <= Len(s) /\ b + n <= Len(g)
  BY DEF Window
<1>2. a + x \in 0..Len(s) /\ b + x \in 0..Len(g)
  BY <1>1
<1> DEFINE u == Until(s, a + x, S)
<1>3. /\ u \in (a + x)..Len(s)
      /\ u < Len(s) => s[u + 1] \in S
      /\ \A r \in (a + x)..(u - 1) : s[r + 1] \notin S
  BY <1>1, <1>2, UntilRange
<1>3a. u = a + y
  OBVIOUS
<1> HIDE DEF u
<1>4. b + y \in (b + x)..(Len(g) - 1)
  BY <1>1, <1>3, <1>3a
<1>5. g[b + y + 1] \in T
  <2>1. y + 1 \in 1..n /\ a + (y + 1) = a + y + 1 /\ b + (y + 1) = b + y + 1
        /\ u < Len(s) /\ u + 1 = a + (y + 1)
    BY <1>1, <1>3a
  <2>2. s[a + (y + 1)] \in S
    BY <1>3, <2>1
  <2>3. g[b + (y + 1)] \in T
    BY <2>1, <2>2
  <2> QED BY <2>1, <2>3
<1>6. \A r \in (b + x)..(b + y - 1) : g[r + 1] \notin T
  <2> SUFFICES ASSUME NEW r \in (b + x)..(b + y - 1) PROVE g[r + 1] \notin T
    OBVIOUS
  <2> DEFINE z == r - b
  <2>1. /\ z + 1 \in 1..n /\ r + 1 = b + (z + 1) /\ a + z \in (a + x)..(u - 1)
        /\ a + z + 1 = a + (z + 1)
    BY <1>1, <1>3a
  <2> HIDE DEF z
  <2>2. s[a + (z + 1)] \notin S
    BY <1>3, <2>1
  <2> QED BY <2>1, <2>2
<1> QED BY <1>1, <1>2, <1>4, <1>5, <1>6, UntilAt

\* The rules, one by one.
LEMMA EndOfLineMoves ==
  ASSUME NEW s, NEW g, NEW a, NEW b, NEW n, Window(s, a, g, b, n),
         NEW x \in 0..n, NEW y \in 0..n, EndOfLine(s, a + x) = a + y
  PROVE  /\ EndOfLine(g, b + x) = b + y
         /\ x < y /\ g[b + x + 1] \in {LF, CR}
<1>1. /\ Len(s) \in Nat /\ Len(g) \in Nat /\ a \in Nat /\ b \in Nat /\ n \in Nat
      /\ a + n <= Len(s) /\ b + n <= Len(g)
  BY DEF Window
<1>2. a + y >= 0 /\ a + y # NeedsMore /\ a + y # Fails
  BY <1>1 DEF NeedsMore, Fails
<1>3. \/ s[a + x + 1] = LF /\ y = x + 1
      \/ s[a + x + 1] = CR /\ s[a + x + 2] = LF /\ y = x + 2
  BY <1>1, <1>2 DEF EndOfLine
<1>4. CASE s[a + x + 1] = LF /\ y = x + 1
  <2>1. x \in 0..(n - 1)
    BY <1>1, <1>4
  <2>2. g[b + x + 1] = LF
    BY <1>4, <2>1, WindowAt
  <2>3. b + x # Len(g) /\ b + x + 1 = b + y
    BY <1>1, <1>4
  <2> QED BY <1>4, <2>2, <2>3 DEF EndOfLine
<1>5. CASE s[a + x + 1] = CR /\ s[a + x + 2] = LF /\ y = x + 2
  <2>1. /\ x \in 0..(n - 1) /\ x + 1 \in 0..(n - 1)
        /\ a + (x + 1) + 1 = a + x + 2 /\ b + (x + 1) + 1 = b + x + 2
    BY <1>1, <1>5
  <2>2. /\ s[a + x + 1] = g[b + x + 1]
        /\ s[a + (x + 1) + 1] = g[b + (x + 1) + 1]
    BY <2>1, WindowAt
  <2>4. g[b + x + 1] = CR /\ g[b + x + 2] = LF
    BY <1>5, <2>1, <2>2
  <2>3. b + x # Len(g) /\ b + x + 1 # Len(g) /\ b + x + 2 = b + y /\ x < y
    BY <1>1, <1>5
  <2>5. EndOfLine(g, b + x) = b + x + 2
    BY <2>3, <2>4 DEF EndOfLine, CR, LF
  <2> QED BY <2>3, <2>4, <2>5
<1> QED BY <1>3, <1>4, <1>5

LEMMA Alpha1Moves ==
  ASSUME NEW s, NEW g, NEW a, NEW b, NEW n, Window(s, a, g, b, n),
         NEW x \in 0..n, NEW y \in 0..(n - 1), Alpha1(s, a + x) = a + y
  PROVE  Alpha1(g, b + x) = b + y
<1>1. /\ Len(s) \in Nat /\ Len(g) \in Nat /\ a \in Nat /\ b \in Nat /\ n \in Nat
      /\ a + n <= Len(s) /\ b + n <= Len(g)
  BY DEF Window
<1> DEFINE S == {s[i] : i \in 1..Len(s)} \ Letters
           T == {g[i] : i \in 1..Len(g)} \ Letters
<1>2. \A i \in 1..n : s[a + i] \in S <=> g[b + i] \in T
  <2> SUFFICES ASSUME NEW i \in 1..n PROVE s[a + i] \in S <=> g[b + i] \in T
    OBVIOUS
  <2>1. a + i \in 1..Len(s) /\ b + i \in 1..Len(g) /\ s[a + i] = g[b + i]
    BY <1>1 DEF Window
  <2> QED BY <2>1
<1>3. a + y # NeedsMore /\ a + y # Fails
  BY <1>1 DEF NeedsMore, Fails
<1>4. Until(s, a + x, S) = a + y /\ a + y # a + x
  BY <1>3 DEF Alpha1
<1> HIDE DEF S, T
<1>5. Until(g, b + x, T) = b + y
  BY <1>2, <1>4, UntilMoves
<1>6. b + y # Len(g) /\ b + y # b + x
  BY <1>1, <1>4
<1> QED BY <1>5, <1>6 DEF Alpha1, T

LEMMA HeaderMoves ==
  ASSUME NEW s, NEW g, NEW a, NEW b, NEW n, Window(s, a, g, b, n),
         NEW x \in 0..n, NEW y \in 0..n, Header(s, a + x) = a + y
  PROVE  /\ Header(g, b + x) = b + y
         /\ Key(g, b + x) = Key(s, a + x)
         /\ Value(g, b + x) = Value(s, a + x)
<1>1. /\ Len(s) \in Nat /\ Len(g) \in Nat /\ a \in Nat /\ b \in Nat /\ n \in Nat
      /\ a + n <= Len(s) /\ b + n <= Len(g)
  BY DEF Window
<1> DEFINE k == KeyEnd(s, a + x)
           v == ValueEnd(s, a + x)
<1>2. a + x \in 0..Len(s) /\ a + y >= 0 /\ a + y # NeedsMore /\ a + y # Fails
  BY <1>1 DEF NeedsMore, Fails
<1>3. k # Len(s) /\ k # a + x /\ s[k + 1] = Colon /\ EndOfLine(s, v) = a + y
  BY <1>2 DEF Header
<1>4. k \in (a + x)..(Len(s) - 1) /\ v \in (k + 1)..Len(s)
  <2>1. k \in (a + x)..Len(s) /\ (k < Len(s) => v \in (k + 1)..Len(s))
    BY <1>1, <1>2, KeyEndRange
  <2> QED BY <1>1, <1>3, <2>1
<1>5. a + y \in {v + 1, v + 2}
  <2>1. v \in 0..Len(s)
    BY <1>1, <1>4
  <2> QED BY <1>1, <1>2, <1>3, <2>1, EndOfLineRange
<1> DEFINE u == k - a
           w == v - a
<1>6. /\ k = a + u /\ v = a + w /\ u \in 0..(n - 1) /\ w \in 0..(n - 1)
      /\ x < u /\ u < w /\ k + 1 = a + (u + 1) /\ u + 1 \in 0..n /\ u + 1 \in 1..n /\ w \in 0..n
      /\ x \in 0..(n - 1)
  <2> HIDE DEF k, v
  <2>1. k # a + x
    BY <1>3
  <2> QED BY <1>1, <1>4, <1>5, <2>1
<1> HIDE DEF u, w
<1>7. KeyEnd(g, b + x) = b + u
  <2>1. Until(s, a + x, {Colon, CR, LF}) = a + u
    BY <1>6 DEF KeyEnd
  <2>2. \A i \in 1..n : s[a + i] \in {Colon, CR, LF} <=> g[b + i] \in {Colon, CR, LF}
    BY DEF Window
  <2> QED BY <1>6, <2>1, <2>2, UntilMoves DEF KeyEnd
<1>8. ValueEnd(g, b + x) = b + w
  <2>1. Until(s, a + (u + 1), {CR, LF}) = a + w
    BY <1>6 DEF ValueEnd
  <2>2. \A i \in 1..n : s[a + i] \in {CR, LF} <=> g[b + i] \in {CR, LF}
    BY DEF Window
  <2>3. Until(g, b + (u + 1), {CR, LF}) = b + w
    BY <1>6, <2>1, <2>2, UntilMoves
  <2>4. b + (u + 1) = b + u + 1
    BY <1>1, <1>6
  <2> QED BY <1>7, <2>3, <2>4 DEF ValueEnd
<1>9. EndOfLine(g, b + w) = b + y
  BY <1>3, <1>6, EndOfLineMoves
<1>10. g[b + u + 1] = Colon /\ b + u # Len(g) /\ b + u # b + x
  <2>1. g[b + (u + 1)] = Colon
    BY <1>3, <1>6 DEF Window
  <2>2. b + (u + 1) = b + u + 1 /\ b + u # Len(g) /\ b + u # b + x
    BY <1>1, <1>6
  <2> QED BY <2>1, <2>2
<1>11. Header(g, b + x) = b + y
  BY <1>7, <1>8, <1>9, <1>10 DEF Header
<1>12. Key(g, b + x) = Key(s, a + x)
  <2>1. x \in 0..n /\ u \in 0..n
    BY <1>1, <1>6
  <2>2. Between(g, b + x, b + u) = Between(s, a + x, a + u)
    BY <2>1, WindowParts
  <2> QED BY <1>6, <1>7, <2>2 DEF Key, Between
<1>13. Value(g, b + x) = Value(s, a + x)
  <2>1. Between(g, b + (u + 1), b + w) = Between(s, a + (u + 1), a + w)
    BY <1>6, WindowParts
  <2>2. b + (u + 1) + 1 = b + u + 2 /\ a + (u + 1) + 1 = a + u + 2
    BY <1>1, <1>6
  <2> QED BY <1>6, <1>7, <1>8, <2>1, <2>2 DEF Value, Between
<1> QED BY <1>11, <1>12, <1>13

\* The headers of both end at the same symbol, and announce the same length.
LEMMA HeadersMove ==
  ASSUME NEW s, NEW g, NEW a, NEW b, NEW n, Window(s, a, g, b, n),
         NEW x \in 0..n, NEW y \in 0..n, HeadersEnd(s, a + x) = a + y
  PROVE  /\ HeadersEnd(g, b + x) = b + y
         /\ ContentLength(g, b + x) = ContentLength(s, a + x)
<1> DEFINE F == HeadersFrom(s, a + x)
           G == HeadersFrom(g, b + x)
           C == LengthFrom(s, a + x)
           D == LengthFrom(g, b + x)
           Same(z) == F[a + z] = a + y => G[b + z] = b + y /\ D[b + z] = C[a + z]
           Q == {z \in x..n : Same(z)}
<1>1. /\ Len(s) \in Nat /\ Len(g) \in Nat /\ a \in Nat /\ b \in Nat /\ n \in Nat
      /\ a + n <= Len(s) /\ b + n <= Len(g)
      /\ a + x \in 0..Len(s) /\ b + x \in 0..Len(g)
      /\ a + y # NeedsMore /\ a + y # Fails /\ a + y >= 0
  BY DEF Window, NeedsMore, Fails
<1>2. ASSUME NEW z \in x..n
      PROVE  /\ F[a + z] = IF Header(s, a + z) = Fails THEN EndOfLine(s, a + z)
                           ELSE IF Header(s, a + z) < 0 THEN Header(s, a + z)
                           ELSE F[Header(s, a + z)]
             /\ G[b + z] = IF Header(g, b + z) = Fails THEN EndOfLine(g, b + z)
                           ELSE IF Header(g, b + z) < 0 THEN Header(g, b + z)
                           ELSE G[Header(g, b + z)]
             /\ C[a + z] = IF Header(s, a + z) < 0 THEN {}
                           ELSE IF Key(s, a + z) = <<ContentLengthKey>>
                                THEN Number(Value(s, a + z))
                           ELSE C[Header(s, a + z)]
             /\ D[b + z] = IF Header(g, b + z) < 0 THEN {}
                           ELSE IF Key(g, b + z) = <<ContentLengthKey>>
                                THEN Number(Value(g, b + z))
                           ELSE D[Header(g, b + z)]
  <2>1. a + z \in (a + x)..Len(s) /\ b + z \in (b + x)..Len(g)
    BY <1>1
  <2> QED BY <1>1, <2>1, HeadersFromDef, LengthFromDef
<1>3. \A q \in (a + x)..Len(s) : F[q] \in {NeedsMore, Fails} \cup (q..Len(s))
  BY <1>1, HeadersFromRange
<1> HIDE DEF F, G, C, D
<1>4. ASSUME NEW z \in x..n, \A r \in (z + 1)..n : r \in Q
      PROVE  Same(z)
  <2> SUFFICES ASSUME F[a + z] = a + y
               PROVE  G[b + z] = b + y /\ D[b + z] = C[a + z]
    OBVIOUS
  <2>1. z \in 0..n /\ a + z \in 0..Len(s) /\ b + z \in 0..Len(g)
    BY <1>1
  <2>2. Header(s, a + z) \in {NeedsMore, Fails} \cup ((a + z + 1)..Len(s))
    BY <1>1, <2>1, HeaderRange
  <2>3. CASE Header(s, a + z) = Fails
    <3>1. EndOfLine(s, a + z) = a + y /\ C[a + z] = {}
      BY <1>2, <2>3 DEF Fails
    <3>2. /\ EndOfLine(g, b + z) = b + y
          /\ z < y /\ g[b + z + 1] \in {LF, CR}
      BY <2>1, <3>1, EndOfLineMoves
    <3>3. Header(g, b + z) = Fails
      <4>1. b + z \in (b + z)..(Len(g) - 1) /\ b + z # Len(g)
        BY <1>1, <2>1, <3>2
      <4>2. \A r \in (b + z)..(b + z - 1) : g[r + 1] \notin {Colon, CR, LF}
        BY <1>1, <2>1
      <4>3. KeyEnd(g, b + z) = b + z
        <5> DEFINE v == b + z
                   stops == {Colon, CR, LF}
        <5>1. /\ Len(g) \in Nat /\ v \in 0..Len(g) /\ v \in v..(Len(g) - 1)
              /\ g[v + 1] \in stops /\ \A r \in v..(v - 1) : g[r + 1] \notin stops
          BY <1>1, <2>1, <3>2, <4>1, <4>2
        <5> HIDE DEF v, stops
        <5>2. Until(g, v, stops) = v
          BY ONLY <5>1, UntilAt
        <5> QED BY <5>2 DEF KeyEnd, v, stops
      <4> QED BY <4>1, <4>3 DEF Header
    <3>4. G[b + z] = b + y /\ D[b + z] = {}
      BY <1>2, <3>2, <3>3 DEF Fails
    <3> QED BY <3>1, <3>4
  <2>4. CASE Header(s, a + z) = NeedsMore
    <3>1. F[a + z] = NeedsMore
      BY <1>2, <2>4 DEF NeedsMore, Fails
    <3> QED BY <1>1, <3>1
  <2>5. CASE Header(s, a + z) \in (a + z + 1)..Len(s)
    <3> DEFINE t == Header(s, a + z) - a
    <3>1. /\ Header(s, a + z) >= 0 /\ ~ (Header(s, a + z) < 0) /\ Header(s, a + z) # Fails
          /\ Header(s, a + z) = a + t /\ t \in Nat /\ z < t
      BY <1>1, <2>1, <2>5, SMTT(30) DEF Fails
    <3> HIDE DEF t
    <3>2. F[a + z] = F[a + t]
      BY <1>2, <3>1
    <3>3. t <= y
      <4>1. a + t \in (a + x)..Len(s)
        BY <1>1, <2>1, <2>5, <3>1
      <4>2. a + y \in (a + t)..Len(s)
        BY <1>1, <1>3, <3>2, <4>1
      <4> QED BY <1>1, <3>1, <4>2
    <3>4. t \in 0..n /\ t \in (z + 1)..n
      BY <1>1, <2>1, <3>1, <3>3
    <3>5. /\ Header(g, b + z) = b + t
          /\ Key(g, b + z) = Key(s, a + z)
          /\ Value(g, b + z) = Value(s, a + z)
      BY <2>1, <3>1, <3>4, HeaderMoves
    <3>6. b + t >= 0 /\ ~ (b + t < 0) /\ b + t # Fails
      BY <1>1, <3>1 DEF Fails
    <3>7. G[b + z] = G[b + t]
      BY <1>2, <3>5, <3>6
    <3>8. Same(t)
      BY <1>4, <3>4
    <3>9. C[a + z] = D[b + z] \/ (C[a + z] = C[a + t] /\ D[b + z] = D[b + t])
      BY <1>2, <3>1, <3>5, <3>6
    <3> QED BY <3>2, <3>7, <3>8, <3>9
  <2> QED BY <2>2, <2>3, <2>4, <2>5
<1>5. \A z \in x..n : z \in Q
  <2>1. \A z \in x..n : (\A r \in (z + 1)..n : r \in Q) => z \in Q
    <3> HIDE DEF Same
    <3> QED BY <1>4
  <2>2. x \in Int /\ n \in Int
    BY <1>1
  <2> HIDE DEF Q
  <2> QED BY <2>1, <2>2, Downward, Zenon
<1>6. Same(x)
  <2>1. x \in x..n
    BY <1>1
  <2> HIDE DEF Same
  <2> QED BY <1>5, <2>1
<1>7. /\ HeadersEnd(s, a + x) = F[a + x] /\ HeadersEnd(g, b + x) = G[b + x]
      /\ ContentLength(s, a + x) = C[a + x] /\ ContentLength(g, b + x) = D[b + x]
  BY <1>1, HeadersFromDef, LengthFromDef DEF F, G, C, D
<1> QED BY <1>6, <1>7

LEMMA BodyEndMoves ==
  ASSUME NEW s, NEW g, NEW a, NEW b, NEW n, Window(s, a, g, b, n),
         NEW x \in 0..n, NEW y \in 0..(n - 1),
         NEW length, length \subseteq 0..MaxLength,
         BodyEnd(s, a + x, length) = a + y
  PROVE  BodyEnd(g, b + x, length) = b + y
<1>1. /\ Len(s) \in Nat /\ Len(g) \in Nat /\ a \in Nat /\ b \in Nat /\ n \in Nat
      /\ a + n <= Len(s) /\ b + n <= Len(g)
      /\ a + y # NeedsMore
  BY DEF Window, NeedsMore
<1>2. CASE length = {}
  <2>1. Until(s, a + x, {NUL}) = a + y
    BY <1>1, <1>2 DEF BodyEnd
  <2>2. \A i \in 1..n : s[a + i] \in {NUL} <=> g[b + i] \in {NUL}
    BY DEF Window
  <2>3. Until(g, b + x, {NUL}) = b + y
    BY <2>1, <2>2, UntilMoves
  <2>4. ~ (b + y > Len(g)) /\ b + y # Len(g)
    BY <1>1
  <2> QED BY <1>2, <2>3, <2>4 DEF BodyEnd
<1>3. CASE length # {}
  <2> DEFINE m == CHOOSE m \in length : TRUE
  <2>1. m \in Nat
    <3>1. m \in 0..MaxLength
      BY <1>3
    <3> HIDE DEF m
    <3> QED BY <3>1, MaxLengthAssumption
  <2>2. a + x + m = a + y
    BY <1>1, <1>3 DEF BodyEnd
  <2>3. b + x + m = b + y
    <3> HIDE DEF m
    <3> QED BY <1>1, <2>1, <2>2
  <2>4. ~ (b + y > Len(g))
    BY <1>1
  <2> QED BY <1>3, <2>3, <2>4 DEF BodyEnd
<1> QED BY <1>2, <1>3

\* A frame is found where its symbols are.
LEMMA FrameMoves ==
  ASSUME NEW s, NEW g, NEW n, Window(s, Start(s), g, Start(g), n),
         Stop(s) >= 0, BodyStop(s) + 1 <= Start(s) + n
  PROVE  /\ Stop(g) >= 0
         /\ BodyStop(g) - Start(g) = BodyStop(s) - Start(s)
         /\ CommandStop(g) - Start(g) = CommandStop(s) - Start(s)
         /\ ParseFrame(g).command = ParseFrame(s).command
<1> DEFINE a == Start(s)
           b == Start(g)
<1>1. /\ Len(s) \in Nat /\ Len(g) \in Nat /\ a \in Nat /\ b \in Nat /\ n \in Nat
      /\ a + n <= Len(s) /\ b + n <= Len(g) /\ a <= Len(s) /\ b <= Len(g)
  BY DEF Window
<1>2. /\ BodyStop(s) \in 0..Len(s) /\ HeadersStop(s) \in 0..Len(s) /\ LineStop(s) \in 0..Len(s)
      /\ CommandStop(s) \in (a + 1)..Len(s)
      /\ LengthOf(s) \subseteq 0..MaxLength
  BY <1>1, FoundParts
<1>3. /\ CommandStop(s) = Alpha1(s, a)
      /\ LineStop(s) = EndOfLine(s, CommandStop(s))
      /\ HeadersStop(s) = HeadersEnd(s, LineStop(s))
      /\ LengthOf(s) = ContentLength(s, LineStop(s))
      /\ BodyStop(s) = BodyEnd(s, HeadersStop(s), LengthOf(s))
      /\ Stop(s) = Terminator(s, BodyStop(s))
  BY <1>1, FoundParts
<1>4. /\ CommandStop(s) < LineStop(s)
      /\ LineStop(s) <= HeadersStop(s)
      /\ HeadersStop(s) <= BodyStop(s)
  <2>1. EndOfLine(s, CommandStop(s)) \in {NeedsMore, Fails} \cup {CommandStop(s) + 1, CommandStop(s) + 2}
    BY <1>1, <1>2, EndOfLineRange
  <2>2. HeadersEnd(s, LineStop(s)) \in {NeedsMore, Fails} \cup (LineStop(s)..Len(s))
    BY <1>1, <1>2, HeadersRange
  <2>3. BodyEnd(s, HeadersStop(s), LengthOf(s)) \in {NeedsMore} \cup (HeadersStop(s)..Len(s))
    BY <1>1, <1>2, BodyEndRange
  <2> HIDE DEF a, b
  <2>4. CommandStop(s) < LineStop(s)
    BY <1>1, <1>2, <1>3, <2>1, SMTT(30) DEF NeedsMore, Fails
  <2>5. LineStop(s) <= HeadersStop(s)
    BY <1>1, <1>2, <1>3, <2>2 DEF NeedsMore, Fails
  <2>6. HeadersStop(s) <= BodyStop(s)
    BY <1>1, <1>2, <1>3, <2>3 DEF NeedsMore, Fails
  <2> QED BY <2>4, <2>5, <2>6
<1> DEFINE c == CommandStop(s) - a
           l == LineStop(s) - a
           h == HeadersStop(s) - a
           e == BodyStop(s) - a
<1>5. /\ c \in 0..(n - 1) /\ l \in 0..n /\ h \in 0..n /\ e \in 0..(n - 1) /\ 0 \in 0..n
      /\ CommandStop(s) = a + c /\ LineStop(s) = a + l /\ HeadersStop(s) = a + h
      /\ BodyStop(s) = a + e /\ c \in 0..n /\ e \in 0..n /\ c > 0
  <2>1. BodyStop(s) + 1 <= a + n
    OBVIOUS
  <2> HIDE DEF a, b
  <2>2. ASSUME NEW v \in 0..Len(s), a <= v, v <= BodyStop(s)
        PROVE  v - a \in 0..n /\ v - a \in 0..(n - 1) /\ v = a + (v - a)
    BY <1>1, <1>2, <2>1, <2>2
  <2>3. CommandStop(s) \in 0..Len(s) /\ a < CommandStop(s)
    BY <1>1, <1>2
  <2>4. /\ a <= CommandStop(s) /\ CommandStop(s) <= BodyStop(s)
        /\ a <= LineStop(s) /\ LineStop(s) <= BodyStop(s)
        /\ a <= HeadersStop(s) /\ a <= BodyStop(s) /\ BodyStop(s) <= BodyStop(s)
    BY <1>1, <1>2, <1>4, <2>3
  <2>5. c \in 0..n /\ c \in 0..(n - 1) /\ CommandStop(s) = a + c
    BY <2>2, <2>3, <2>4
  <2>6. l \in 0..n /\ LineStop(s) = a + l
    BY <1>2, <2>2, <2>4
  <2>7. h \in 0..n /\ HeadersStop(s) = a + h
    BY <1>2, <1>4, <2>2, <2>4
  <2>8. e \in 0..n /\ e \in 0..(n - 1) /\ BodyStop(s) = a + e
    BY <1>2, <2>2, <2>4
  <2>9. c > 0 /\ 0 \in 0..n
    BY <1>1, <2>3
  <2> QED BY <2>5, <2>6, <2>7, <2>8, <2>9
<1> HIDE DEF a, b, c, l, h, e
<1>6. Window(s, a, g, b, n)
  BY DEF a, b
<1>7. CommandStop(g) = b + c
  <2>0. a + 0 = a /\ Alpha1(s, a) = a + c
    BY <1>1, <1>3, <1>5
  <2>1. Alpha1(s, a + 0) = a + c
    BY <2>0
  <2>2. Alpha1(g, b + 0) = b + c
    BY <1>5, <1>6, <2>1, Alpha1Moves
  <2> QED BY <1>1, <2>2 DEF CommandStop, b
<1>8. LineStop(g) = b + l
  <2>1. EndOfLine(g, b + c) = b + l
    BY <1>3, <1>5, <1>6, EndOfLineMoves
  <2> QED BY <1>1, <1>5, <1>7, <2>1 DEF LineStop
<1>9. HeadersStop(g) = b + h /\ LengthOf(g) = LengthOf(s)
  <2>1. /\ HeadersEnd(g, b + l) = b + h
        /\ ContentLength(g, b + l) = ContentLength(s, a + l)
    BY <1>3, <1>5, <1>6, HeadersMove
  <2> QED BY <1>1, <1>3, <1>5, <1>8, <2>1 DEF HeadersStop, LengthOf
<1>10. BodyStop(g) = b + e
  <2>1. BodyEnd(g, b + h, LengthOf(s)) = b + e
    BY <1>2, <1>3, <1>5, <1>6, BodyEndMoves
  <2> QED BY <1>1, <1>5, <1>9, <2>1 DEF BodyStop
<1>11. Stop(g) >= 0
  <2>1. s[a + e + 1] = NUL
    <3>1. a + e # Len(s)
      BY <1>1, <1>5
    <3>2. Terminator(s, a + e) # Fails
      BY <1>3, <1>5 DEF Fails
    <3> QED BY <3>1, <3>2 DEF Terminator
  <2>2. /\ e \in 0..(n - 1)
        /\ b + e # Len(g) /\ b + e + 1 \in 0..Len(g) /\ b + e >= 0 /\ ~ (b + e < 0)
    BY <1>1, <1>5
  <2>3. g[b + e + 1] = NUL
    BY <1>6, <2>1, <2>2, WindowAt
  <2>4. Stop(g) = OptEndOfLine(g, b + e + 1)
    BY <1>10, <2>2, <2>3 DEF Stop, Terminator
  <2>5. OptEndOfLine(g, b + e + 1) \in (b + e + 1)..Len(g)
    BY <1>1, <2>2, OptEndOfLineRange
  <2> QED BY <1>1, <2>2, <2>4, <2>5
<1>12. ParseFrame(g).command = ParseFrame(s).command
  <2>1. /\ ParseFrame(s).command = SubSeq(s, a + 1, a + c)
        /\ ParseFrame(g).command = SubSeq(g, b + 1, b + c)
    BY <1>1, <1>5, <1>7, <1>11, ParseFrameDef DEF a, b
  <2>2. 0 \in 0..n /\ c \in 0..n /\ b + 1 = b + 0 + 1 /\ a + 1 = a + 0 + 1
    BY <1>1, <1>5
  <2>3. Between(g, b + 0, b + c) = Between(s, a + 0, a + c)
    BY <1>6, <2>2, WindowParts
  <2> QED BY <2>1, <2>2, <2>3 DEF Between
<1>13. /\ BodyStop(g) - b = BodyStop(s) - a
       /\ CommandStop(g) - b = CommandStop(s) - a
  BY <1>1, <1>5, <1>7, <1>10
<1> QED BY <1>11, <1>12, <1>13 DEF a, b

-----------------------------------------------------------------------------
(***************************************************************************)
(* WireReader: the frames of a text that is parsed all at once.            *)
(***************************************************************************)

\* What is left of a text behind its first p symbols.
Rest(text, p) == SubSeq(text, p + 1, Len(text))

\* The symbols of what is left.
LEMMA RestSymbols ==
  ASSUME NEW S, NEW text \in Seq(S), NEW p \in 0..Len(text)
  PROVE  /\ Rest(text, p) \in Seq(S)
         /\ Len(Rest(text, p)) = Len(text) - p
         /\ \A i \in 1..(Len(text) - p) : Rest(text, p)[i] = text[p + i]
BY DEF Rest

-----------------------------------------------------------------------------

\* The frame at position p of a text, and the frames from its beginning.
FrameAt(text, p) ==
    [first |-> p + Start(Rest(text, p)) + 1,
     last  |-> p + (BodyStop(Rest(text, p)) + 1),
     next  |-> p + Stop(Rest(text, p))]

FrameRecords == [first : Int, last : Int, next : Int]

FramesFrom(text) ==
    LET from[p \in 0..Len(text)] ==
          LET parsed == ParseFrame(SubSeq(text, p + 1, Len(text))) IN
          IF parsed.end < 0 THEN << >>
          ELSE <<[first |-> p + parsed.start + 1, last |-> p + parsed.nul,
                  next |-> p + parsed.end]>> \o from[p + parsed.end]
    IN  from

\* FramesOf, without the recursive function it is written with.
LEMMA FramesFromDef ==
  ASSUME NEW S, NEW text \in Seq(S)
  PROVE  /\ FramesOf(text) = FramesFrom(text)[0]
         /\ \A p \in 0..Len(text) :
               /\ FramesFrom(text)[p] \in Seq(FrameRecords)
               /\ FramesFrom(text)[p] =
                    IF Stop(Rest(text, p)) < 0 THEN << >>
                    ELSE <<FrameAt(text, p)>> \o FramesFrom(text)[p + Stop(Rest(text, p))]
<1> DEFINE L == Len(text)
           V == Seq(FrameRecords)
           known == {p \in 0..L : Stop(Rest(text, p)) < 0}
           value == [p \in 0..L |-> << >>]
           next  == [p \in 0..L |-> p + Stop(Rest(text, p))]
           op    == [d \in (0..L) \X V |-> <<FrameAt(text, d[1])>> \o d[2]]
<1>1. L \in Nat /\ \A p \in 0..L : Rest(text, p) \in Seq(S) /\ Len(Rest(text, p)) = L - p
  BY RestSymbols
<1>2. ASSUME NEW p \in 0..L
      PROVE  /\ Stop(Rest(text, p)) \in Int
             /\ Stop(Rest(text, p)) >= 0 => p + Stop(Rest(text, p)) \in (p + 1)..L
             /\ FrameAt(text, p) \in FrameRecords
  <2> DEFINE r == Rest(text, p)
  <2>1. Len(r) \in Nat /\ Len(r) = L - p
    BY <1>1
  <2>2. Start(r) \in Int /\ BodyStop(r) \in Int /\ Stop(r) \in Int
    BY <2>1, PartsRange DEF NeedsMore, Fails
  <2>3. Stop(r) >= 0 => Start(r) \in 0..Len(r) /\ BodyStop(r) \in (Start(r) + 1)..(Len(r) - 1)
                        /\ Stop(r) \in (BodyStop(r) + 1)..Len(r)
    BY <2>1, FoundInOrder
  <2> HIDE DEF r
  <2>4. Stop(r) >= 0 => p + Stop(r) \in (p + 1)..L
    BY <1>1, <2>1, <2>2, <2>3
  <2>5. FrameAt(text, p) \in FrameRecords
    BY <1>1, <2>2 DEF r, FrameAt, FrameRecords
  <2> QED BY <2>2, <2>4, <2>5 DEF r
<1>3. \A p \in 0..L : IF p \in known THEN value[p] \in V ELSE next[p] \in (p + 1)..L
  <2> SUFFICES ASSUME NEW p \in 0..L
               PROVE  IF p \in known THEN value[p] \in V ELSE next[p] \in (p + 1)..L
    OBVIOUS
  <2>1. << >> \in Seq(FrameRecords)
    OBVIOUS
  <2>2. ~ (Stop(Rest(text, p)) < 0) => Stop(Rest(text, p)) >= 0
    BY <1>2
  <2> QED BY <1>2, <2>1, <2>2
<1>4. op \in [(0..L) \X V -> V]
  <2>1. \A p \in 0..L, v \in V : <<FrameAt(text, p)>> \o v \in V
    BY <1>2
  <2> HIDE DEF V
  <2> QED BY <2>1
<1>5. PICK f \in [0..L -> V] : Descends(f, 0, L, known, value, next, op)
  <2> HIDE DEF V, known, value, next, op, L
  <2>1. 0 \in Int /\ L \in Int
    BY <1>1
  <2> QED BY <1>3, <1>4, <2>1, DownwardRecursion
<1>6. ASSUME NEW p \in 0..L
      PROVE  f[p] = IF Stop(Rest(text, p)) < 0 THEN << >>
                    ELSE <<FrameAt(text, p)>> \o f[p + Stop(Rest(text, p))]
  <2>1. f[p] = IF p \in known THEN value[p] ELSE op[<<p, f[next[p]]>>]
    <3> HIDE DEF V, known, value, next, op, L
    <3> QED BY <1>5 DEF Descends
  <2>2. p \notin known => next[p] \in 0..L /\ f[next[p]] \in V
    <3>1. p \notin known => next[p] \in (p + 1)..L
      <4> HIDE DEF known, value, next, L, V
      <4> QED BY <1>3
    <3> HIDE DEF known, next, V
    <3> QED BY <1>1, <1>5, <3>1
  <2>3. \A v \in V : op[<<p, v>>] = <<FrameAt(text, p)>> \o v
    <3> HIDE DEF V
    <3> QED OBVIOUS
  <2> HIDE DEF V, op
  <2> QED BY <2>1, <2>2, <2>3
<1>7. f = [p \in 0..L |->
              LET parsed == ParseFrame(SubSeq(text, p + 1, Len(text))) IN
              IF parsed.end < 0 THEN << >>
              ELSE <<[first |-> p + parsed.start + 1, last |-> p + parsed.nul,
                      next |-> p + parsed.end]>> \o f[p + parsed.end]]
  <2>1. ASSUME NEW p \in 0..L
        PROVE  (LET parsed == ParseFrame(SubSeq(text, p + 1, Len(text))) IN
                IF parsed.end < 0 THEN << >>
                ELSE <<[first |-> p + parsed.start + 1, last |-> p + parsed.nul,
                        next |-> p + parsed.end]>> \o f[p + parsed.end])
                = IF Stop(Rest(text, p)) < 0 THEN << >>
                  ELSE <<FrameAt(text, p)>> \o f[p + Stop(Rest(text, p))]
    <3>1. Len(Rest(text, p)) \in Nat
      BY <1>1
    <3>2. /\ ParseFrame(Rest(text, p)).end = Stop(Rest(text, p))
          /\ ParseFrame(Rest(text, p)).start = Start(Rest(text, p))
          /\ ParseFrame(Rest(text, p)).nul = BodyStop(Rest(text, p)) + 1
      BY <3>1, ParseFrameDef, ParsedWhere
    <3> QED BY <3>2, Zenon DEF FrameAt, Rest
  <2>2. f = [p \in 0..L |-> f[p]]
    OBVIOUS
  <2> QED BY <1>6, <2>1, <2>2
<1>8. FramesFrom(text) = [p \in 0..L |->
              LET parsed == ParseFrame(SubSeq(text, p + 1, Len(text))) IN
              IF parsed.end < 0 THEN << >>
              ELSE <<[first |-> p + parsed.start + 1, last |-> p + parsed.nul,
                      next |-> p + parsed.end]>> \o FramesFrom(text)[p + parsed.end]]
  BY <1>7 DEF FramesFrom
<1>9. ASSUME NEW p \in 0..L
      PROVE  FramesFrom(text)[p] =
                IF Stop(Rest(text, p)) < 0 THEN << >>
                ELSE <<FrameAt(text, p)>> \o FramesFrom(text)[p + Stop(Rest(text, p))]
  <2>1. Len(Rest(text, p)) \in Nat
    BY <1>1
  <2>2. /\ ParseFrame(Rest(text, p)).end = Stop(Rest(text, p))
        /\ ParseFrame(Rest(text, p)).start = Start(Rest(text, p))
        /\ ParseFrame(Rest(text, p)).nul = BodyStop(Rest(text, p)) + 1
    BY <2>1, ParseFrameDef, ParsedWhere
  <2>3. FramesFrom(text)[p] =
              LET parsed == ParseFrame(Rest(text, p)) IN
              IF parsed.end < 0 THEN << >>
              ELSE <<[first |-> p + parsed.start + 1, last |-> p + parsed.nul,
                      next |-> p + parsed.end]>> \o FramesFrom(text)[p + parsed.end]
    BY <1>8 DEF Rest
  <2> QED BY <2>2, <2>3, Zenon DEF FrameAt
<1>10. \A p \in 0..L : FramesFrom(text)[p] \in V
  <2> DEFINE Q == {p \in 0..L : FramesFrom(text)[p] \in V}
  <2>1. ASSUME NEW p \in 0..L, \A r \in (p + 1)..L : r \in Q PROVE p \in Q
    <3>1. CASE Stop(Rest(text, p)) < 0
      <4>1. << >> \in V
        OBVIOUS
      <4> QED BY <1>9, <3>1, <4>1
    <3>2. CASE ~ (Stop(Rest(text, p)) < 0)
      <4>1. p + Stop(Rest(text, p)) \in (p + 1)..L /\ FrameAt(text, p) \in FrameRecords
        BY <1>2, <3>2
      <4>2. FramesFrom(text)[p + Stop(Rest(text, p))] \in V
        BY <2>1, <4>1
      <4>3. <<FrameAt(text, p)>> \o FramesFrom(text)[p + Stop(Rest(text, p))] \in V
        BY <4>1, <4>2
      <4> QED BY <1>9, <3>2, <4>3
    <3> QED BY <3>1, <3>2
  <2>2. \A p \in 0..L : p \in Q
    <3> HIDE DEF Q, L
    <3>1. 0 \in Int /\ L \in Int
      BY <1>1
    <3> QED BY <2>1, <3>1, Downward
  <2> QED BY <2>2
<1>11. FramesOf(text) = FramesFrom(text)[0]
  BY DEF FramesOf, FramesFrom
<1> QED BY <1>9, <1>10, <1>11

-----------------------------------------------------------------------------

\* The position behind the first k of the frames that begin at p.
Behind(frames, p, k) == IF k = 0 THEN p ELSE frames[k].next

\* The frames of a text from position p on, one behind the other, and then
\* none.
Chain(text, p, frames) ==
    /\ frames \in Seq(FrameRecords)
    /\ \A k \in 0..Len(frames) : Behind(frames, p, k) \in p..Len(text)
    /\ \A k \in 1..Len(frames) :
        /\ Stop(Rest(text, Behind(frames, p, k - 1))) >= 0
        /\ frames[k] = FrameAt(text, Behind(frames, p, k - 1))
    /\ Stop(Rest(text, Behind(frames, p, Len(frames)))) < 0

\* A frame in front of a chain makes a longer one.
LEMMA ChainLonger ==
  ASSUME NEW S, NEW text \in Seq(S), NEW p \in 0..Len(text), NEW frames,
         Stop(Rest(text, p)) >= 0, FrameAt(text, p) \in FrameRecords,
         p + Stop(Rest(text, p)) \in (p + 1)..Len(text),
         Chain(text, p + Stop(Rest(text, p)), frames)
  PROVE  Chain(text, p, <<FrameAt(text, p)>> \o frames)
<1> DEFINE x == FrameAt(text, p)
           q == p + Stop(Rest(text, p))
           all == <<x>> \o frames
           n == Len(frames)
<1>1. frames \in Seq(FrameRecords) /\ n \in Nat
  BY DEF Chain
<1>2. x.next = q
  BY DEF FrameAt
<1>3. /\ all \in Seq(FrameRecords) /\ Len(all) = n + 1 /\ all[1] = x
      /\ \A k \in 1..n : all[k + 1] = frames[k]
  <2> HIDE DEF x
  <2> QED BY <1>1 DEF x
<1> HIDE DEF x, all
<1>4. \A k \in 0..n : Behind(all, p, k + 1) = Behind(frames, q, k)
  <2> SUFFICES ASSUME NEW k \in 0..n PROVE Behind(all, p, k + 1) = Behind(frames, q, k)
    OBVIOUS
  <2>1. k + 1 # 0
    BY <1>1
  <2>2. CASE k = 0
    BY <1>2, <1>3, <2>1, <2>2 DEF Behind
  <2>3. CASE k # 0
    <3>1. k \in 1..n
      BY <1>1, <2>3
    <3> QED BY <1>3, <2>1, <2>3, <3>1 DEF Behind
  <2> QED BY <2>2, <2>3
<1>5. ASSUME NEW k \in 0..Len(all) PROVE Behind(all, p, k) \in p..Len(text)
  <2>1. CASE k = 0
    BY <2>1 DEF Behind
  <2>2. CASE k # 0
    <3>1. k - 1 \in 0..n /\ (k - 1) + 1 = k
      BY <1>1, <1>3, <2>2
    <3>2. Behind(frames, q, k - 1) \in q..Len(text)
      BY <3>1 DEF Chain
    <3>3. Behind(all, p, k) = Behind(frames, q, k - 1)
      BY <1>4, <3>1
    <3>4. q \in (p + 1)..Len(text)
      OBVIOUS
    <3> HIDE DEF q
    <3> QED BY <3>2, <3>3, <3>4
  <2> QED BY <2>1, <2>2
<1>6. ASSUME NEW k \in 1..Len(all)
      PROVE  /\ Stop(Rest(text, Behind(all, p, k - 1))) >= 0
             /\ all[k] = FrameAt(text, Behind(all, p, k - 1))
  <2>1. CASE k = 1
    <3>1. Behind(all, p, k - 1) = p
      BY <2>1 DEF Behind
    <3> QED BY <1>3, <2>1, <3>1 DEF x
  <2>2. CASE k # 1
    <3>1. k - 1 \in 1..n /\ (k - 1) + 1 = k /\ (k - 1) - 1 \in 0..n
          /\ ((k - 1) - 1) + 1 = k - 1
      BY <1>1, <1>3, <2>2
    <3>2. /\ Stop(Rest(text, Behind(frames, q, (k - 1) - 1))) >= 0
          /\ frames[k - 1] = FrameAt(text, Behind(frames, q, (k - 1) - 1))
      BY <3>1 DEF Chain
    <3>3. Behind(all, p, k - 1) = Behind(frames, q, (k - 1) - 1)
      BY <1>4, <3>1
    <3>4. all[k] = frames[k - 1]
      BY <1>3, <3>1
    <3> QED BY <3>2, <3>3, <3>4
  <2> QED BY <2>1, <2>2
<1>7. Stop(Rest(text, Behind(all, p, Len(all)))) < 0
  <2>1. Stop(Rest(text, Behind(frames, q, n))) < 0
    BY DEF Chain
  <2>2. Behind(all, p, n + 1) = Behind(frames, q, n)
    BY <1>1, <1>4
  <2> QED BY <1>3, <2>1, <2>2
<1>8. Chain(text, p, all)
  BY <1>3, <1>5, <1>6, <1>7 DEF Chain
<1> QED BY <1>8 DEF all, x

\* The frames of a text are a chain from its beginning.
LEMMA FramesChain ==
  ASSUME NEW S, NEW text \in Seq(S)
  PROVE  Chain(text, 0, FramesOf(text))
<1> DEFINE L == Len(text)
           Q == {p \in 0..L : Chain(text, p, FramesFrom(text)[p])}
<1>1. L \in Nat
  OBVIOUS
<1>2. ASSUME NEW p \in 0..L, \A r \in (p + 1)..L : r \in Q PROVE p \in Q
  <2> DEFINE r == Rest(text, p)
  <2>1. r \in Seq(S) /\ Len(r) = L - p /\ Len(r) \in Nat
    BY <1>1, RestSymbols
  <2>2. Stop(r) \in Int
    BY <2>1, PartsRange DEF NeedsMore, Fails
  <2>3. CASE Stop(r) < 0
    <3>1. FramesFrom(text)[p] = << >>
      BY <2>3, FramesFromDef
    <3>2. Chain(text, p, << >>)
      BY <1>1, <2>3 DEF Chain, Behind
    <3> QED BY <3>1, <3>2
  <2>4. CASE Stop(r) >= 0
    <3>1. /\ Start(r) \in 0..Len(r) /\ BodyStop(r) \in (Start(r) + 1)..(Len(r) - 1)
          /\ Stop(r) \in (BodyStop(r) + 1)..Len(r)
      BY <2>1, <2>4, FoundInOrder
    <3>2. p + Stop(r) \in (p + 1)..L
      <4> HIDE DEF r
      <4> QED BY <1>1, <2>1, <3>1
    <3>3. FrameAt(text, p) \in FrameRecords
      <4> HIDE DEF r
      <4>1. p + Start(r) + 1 \in Int /\ p + (BodyStop(r) + 1) \in Int /\ p + Stop(r) \in Int
        BY <1>1, <2>1, <3>1
      <4> QED BY <4>1 DEF FrameAt, FrameRecords, r
    <3>4. Chain(text, p + Stop(r), FramesFrom(text)[p + Stop(r)])
      BY <1>2, <3>2
    <3>5. Chain(text, p, <<FrameAt(text, p)>> \o FramesFrom(text)[p + Stop(r)])
      BY <2>4, <3>2, <3>3, <3>4, ChainLonger
    <3>6. FramesFrom(text)[p] = <<FrameAt(text, p)>> \o FramesFrom(text)[p + Stop(r)]
      <4>1. ~ (Stop(r) < 0)
        BY <2>2, <2>4
      <4> QED BY <4>1, FramesFromDef
    <3> QED BY <3>5, <3>6
  <2> QED BY <2>2, <2>3, <2>4
<1>3. \A p \in 0..L : p \in Q
  <2> HIDE DEF Q, L
  <2>1. 0 \in Int /\ L \in Int
    BY <1>1
  <2> QED BY <1>2, <2>1, Downward
<1>4. Chain(text, 0, FramesFrom(text)[0])
  <2>1. 0 \in 0..L
    BY <1>1
  <2> QED BY <1>3, <2>1
<1> QED BY <1>4, FramesFromDef

\* A line ending is the same in what is left of a text.
LEMMA RestEndOfLine ==
  ASSUME NEW S, NEW text \in Seq(S), NEW p \in 0..Len(text), NEW q \in 0..(Len(text) - p)
  PROVE  OptEndOfLine(text, p + q) = p + OptEndOfLine(Rest(text, p), q)
<1> DEFINE r == Rest(text, p)
           L == Len(text)
<1>1. Len(r) = L - p /\ L \in Nat /\ p + q \in 0..L
  BY RestSymbols
<1>2. \A i \in 1..(L - p) : r[i] = text[p + i]
  BY RestSymbols
<1> HIDE DEF r
<1>3. /\ q < Len(r) => r[q + 1] = text[p + q + 1]
      /\ q + 1 < Len(r) => r[q + 2] = text[p + q + 2]
  <2>1. q < Len(r) => q + 1 \in 1..(L - p) /\ p + (q + 1) = p + q + 1
    BY <1>1
  <2>2. q + 1 < Len(r) => q + 2 \in 1..(L - p) /\ p + (q + 2) = p + q + 2
    BY <1>1
  <2>3. q < Len(r) => r[q + 1] = text[p + (q + 1)]
    BY <1>2, <2>1
  <2>4. q + 1 < Len(r) => r[q + 2] = text[p + (q + 2)]
    BY <1>2, <2>2
  <2> QED BY <2>1, <2>2, <2>3, <2>4
<1>4. \/ EndOfLine(r, q) < 0 /\ EndOfLine(text, p + q) < 0
      \/ EndOfLine(r, q) = q + 1 /\ EndOfLine(text, p + q) = p + q + 1
      \/ EndOfLine(r, q) = q + 2 /\ EndOfLine(text, p + q) = p + q + 2
  <2>1. CASE q = Len(r)
    <3>1. p + q = L
      BY <1>1, <2>1
    <3>2. EndOfLine(r, q) = NeedsMore /\ EndOfLine(text, p + q) = NeedsMore
      BY <2>1, <3>1 DEF EndOfLine
    <3> QED BY <3>2 DEF NeedsMore
  <2>2. CASE q < Len(r)
    <3>1. p + q # L /\ q # Len(r)
      BY <1>1, <2>2
    <3>2. CASE r[q + 1] = LF
      BY <1>3, <2>2, <3>1, <3>2 DEF EndOfLine
    <3>3. CASE r[q + 1] # LF /\ r[q + 1] # CR
      <4>1. EndOfLine(r, q) = Fails /\ EndOfLine(text, p + q) = Fails
        BY <1>3, <2>2, <3>1, <3>3 DEF EndOfLine
      <4> QED BY <4>1 DEF Fails
    <3>4. CASE r[q + 1] # LF /\ r[q + 1] = CR /\ q + 1 = Len(r)
      <4>1. p + q + 1 = L
        BY <1>1, <3>4
      <4>2. EndOfLine(r, q) = NeedsMore /\ EndOfLine(text, p + q) = NeedsMore
        BY <1>3, <2>2, <3>1, <3>4, <4>1 DEF EndOfLine
      <4> QED BY <4>2 DEF NeedsMore
    <3>5. CASE r[q + 1] # LF /\ r[q + 1] = CR /\ q + 1 # Len(r)
      <4>1. p + q + 1 # L /\ q + 1 < Len(r)
        BY <1>1, <2>2, <3>5
      <4>2. r[q + 1] = text[p + q + 1] /\ r[q + 2] = text[p + q + 2]
        BY <1>3, <2>2, <4>1
      <4>3. CASE r[q + 2] = LF
        BY <3>1, <3>5, <4>1, <4>2, <4>3 DEF EndOfLine
      <4>4. CASE r[q + 2] # LF
        <5>1. EndOfLine(r, q) = Fails /\ EndOfLine(text, p + q) = Fails
          BY <3>1, <3>5, <4>1, <4>2, <4>4 DEF EndOfLine
        <5> QED BY <5>1 DEF Fails
      <4> QED BY <4>3, <4>4
    <3> QED BY <3>2, <3>3, <3>4, <3>5
  <2> QED BY <1>1, <2>1, <2>2
<1>5. CASE EndOfLine(r, q) < 0 /\ EndOfLine(text, p + q) < 0
  BY <1>5 DEF OptEndOfLine, r
<1>6. CASE EndOfLine(r, q) = q + 1 /\ EndOfLine(text, p + q) = p + q + 1
  <2>1. ~ (q + 1 < 0) /\ ~ (p + q + 1 < 0) /\ p + q + 1 = p + (q + 1)
    BY <1>1
  <2> QED BY <1>6, <2>1 DEF OptEndOfLine, r
<1>7. CASE EndOfLine(r, q) = q + 2 /\ EndOfLine(text, p + q) = p + q + 2
  <2>1. ~ (q + 2 < 0) /\ ~ (p + q + 2 < 0) /\ p + q + 2 = p + (q + 2)
    BY <1>1
  <2> QED BY <1>7, <2>1 DEF OptEndOfLine, r
<1> QED BY <1>4, <1>5, <1>6, <1>7

\* How the frames of a text lie in it.
LEMMA ChainOrder ==
  ASSUME NEW S, NEW text \in Seq(S), NEW frames, Chain(text, 0, frames)
  PROVE  /\ Len(frames) \in Nat
         /\ \A k \in 1..Len(frames) :
              /\ Behind(frames, 0, k - 1) \in 0..(frames[k].first - 1)
              /\ frames[k].first \in 1..frames[k].last
              /\ frames[k].last \in 1..frames[k].next
              /\ frames[k].next \in 1..Len(text)
              /\ text[frames[k].first] \in Letters
              /\ text[frames[k].last] = NUL
              /\ frames[k].next = OptEndOfLine(text, frames[k].last)
         /\ \A j, k \in 0..Len(frames) :
              j <= k => Behind(frames, 0, j) <= Behind(frames, 0, k)
<1> DEFINE N == Len(frames)
           L == Len(text)
           B(k) == Behind(frames, 0, k)
<1>1. N \in Nat /\ L \in Nat /\ \A k \in 0..N : B(k) \in 0..L
  BY DEF Chain
<1>2. ASSUME NEW k \in 1..N
      PROVE  /\ B(k - 1) \in 0..(frames[k].first - 1)
             /\ frames[k].first \in 1..frames[k].last
             /\ frames[k].last \in 1..frames[k].next
             /\ frames[k].next \in 1..L
             /\ text[frames[k].first] \in Letters
             /\ text[frames[k].last] = NUL
             /\ frames[k].next = OptEndOfLine(text, frames[k].last)
             /\ B(k - 1) < frames[k].next
  <2> DEFINE p == B(k - 1)
             r == Rest(text, p)
  <2>1. k - 1 \in 0..N
    BY <1>1
  <2>2. p \in 0..L
    BY <1>1, <2>1
  <2>3. Stop(r) >= 0 /\ frames[k] = FrameAt(text, p)
    BY DEF Chain
  <2> HIDE DEF p
  <2>4. Len(r) = L - p /\ \A i \in 1..(L - p) : r[i] = text[p + i]
    BY <2>2, RestSymbols
  <2>5. frames[k].first = p + Start(r) + 1 /\ frames[k].last = p + (BodyStop(r) + 1)
        /\ frames[k].next = p + Stop(r)
    BY <2>3 DEF FrameAt
  <2> HIDE DEF r
  <2>6. /\ Start(r) \in 0..Len(r)
        /\ BodyStop(r) \in (Start(r) + 1)..(Len(r) - 1)
        /\ Stop(r) = OptEndOfLine(r, BodyStop(r) + 1)
        /\ Stop(r) \in (BodyStop(r) + 1)..Len(r)
        /\ r[BodyStop(r) + 1] = NUL
        /\ r[Start(r) + 1] \in Letters
    BY <1>1, <2>2, <2>3, <2>4, FoundInOrder
  <2> DEFINE st == Start(r)
             e  == BodyStop(r)
             z  == Stop(r)
             f  == frames[k]
  <2>7. /\ p \in 0..(f.first - 1) /\ f.first \in 1..f.last
        /\ f.last \in 1..f.next /\ f.next \in 1..L /\ p < f.next
        /\ st + 1 \in 1..(L - p) /\ e + 1 \in 1..(L - p)
        /\ e + 1 \in 0..(L - p)
        /\ p + (st + 1) = f.first
    <3>1. /\ st \in 0..(L - p) /\ e \in (st + 1)..((L - p) - 1) /\ z \in (e + 1)..(L - p)
          /\ f.first = p + st + 1 /\ f.last = p + (e + 1) /\ f.next = p + z
      BY <2>4, <2>5, <2>6
    <3> HIDE DEF st, e, z, f
    <3> QED BY <1>1, <2>2, <3>1
  <2>8. text[f.first] \in Letters /\ text[f.last] = NUL
    <3>1. r[st + 1] = text[p + (st + 1)]
      BY <2>4, <2>7
    <3>2. r[e + 1] = text[p + (e + 1)]
      BY <2>4, <2>7
    <3> QED BY <2>5, <2>6, <2>7, <3>1, <3>2
  <2>9. f.next = OptEndOfLine(text, f.last)
    <3>1. OptEndOfLine(text, p + (e + 1)) = p + OptEndOfLine(r, e + 1)
      <4>1. e + 1 \in 0..(L - p)
        BY <2>7
      <4> HIDE DEF e
      <4> QED BY <2>2, <4>1, RestEndOfLine DEF r
    <3> QED BY <2>5, <2>6, <3>1
  <2> QED BY <2>7, <2>8, <2>9 DEF p
<1>3. \A k \in 1..N : B(k - 1) <= B(k)
  <2> SUFFICES ASSUME NEW k \in 1..N PROVE B(k - 1) <= B(k)
    OBVIOUS
  <2>1. B(k) = frames[k].next
    BY <1>1 DEF Behind
  <2>2. B(k - 1) \in 0..L /\ frames[k].next \in 0..L
    <3>1. k - 1 \in 0..N /\ k \in 0..N
      BY <1>1
    <3> HIDE DEF B
    <3> QED BY <1>1, <2>1, <3>1
  <2> HIDE DEF B
  <2> QED BY <1>2, <2>1, <2>2
<1>4. \A j, k \in 0..N : j <= k => B(j) <= B(k)
  <2> DEFINE Q == {n \in Nat : \A j, k \in 0..N : j + n = k => B(j) <= B(k)}
  <2> HIDE DEF B
  <2>1. 0 \in Q
    BY <1>1
  <2>2. ASSUME NEW n \in Nat, n \in Q PROVE n + 1 \in Q
    <3> SUFFICES ASSUME NEW j \in 0..N, NEW k \in 0..N, j + (n + 1) = k PROVE B(j) <= B(k)
      OBVIOUS
    <3>1. k - 1 \in 0..N /\ j + n = k - 1 /\ k \in 1..N
      BY <1>1
    <3>2. B(j) <= B(k - 1)
      BY <2>2, <3>1
    <3>3. B(k - 1) <= B(k)
      BY <1>3, <3>1
    <3> QED BY <1>1, <3>1, <3>2, <3>3
  <2>3. \A n \in Nat : n \in Q
    <3> HIDE DEF Q
    <3> QED BY <2>1, <2>2, Upward
  <2> SUFFICES ASSUME NEW j \in 0..N, NEW k \in 0..N, j <= k PROVE B(j) <= B(k)
    OBVIOUS
  <2>4. k - j \in Nat /\ j + (k - j) = k
    BY <1>1
  <2> QED BY <2>3, <2>4
<1> QED BY <1>1, <1>2, <1>4

-----------------------------------------------------------------------------
(***************************************************************************)
(* WireReader: the offsets in the buffer and the frames of the stream.     *)
(***************************************************************************)

\* The position behind the first k frames of the stream.
Position(k) == Behind(sent, 0, k)

\* Where a frame, or the line ending behind it, ends.
Ends == {Position(k) : k \in 0..Len(sent)} \cup {sent[k].last : k \in 1..Len(sent)}

\* The offsets next() has taken out of the buffer.
Consumed == (1..arrived) \ (lost \cup Offsets(buffer))

\* Torn, whatever becomes of the bytes in the buffer.
TornForGood ==
    \E o \in 0..arrived :
        /\ o \notin Seams
        /\ \/ o \in lost /\ o + 1 \in Consumed
           \/ o \in Consumed /\ o + 1 \in lost

\* What has been consumed are whole frames, with the line ending behind them
\* or without it, and those are what has been reported, in order.
WholeFrames ==
    /\ \A o \in Consumed \cup {0} : o + 1 \in Consumed \/ o \in Ends
    /\ \A k \in 1..Len(sent) :
         sent[k].last \in Consumed => \E i \in Reports : reported[i].last = sent[k].last
    /\ \A i \in Reports :
         \E k \in 1..Len(sent) : /\ reported[i].first = sent[k].first
                                 /\ reported[i].last = sent[k].last
                                 /\ sent[k].last \in Consumed
    /\ \A i, j \in Reports : i < j => reported[i].last < reported[j].last

\* The buffer holds what has arrived last and is neither consumed nor lost.
Buffered ==
    /\ sent = FramesOf(wire.bytes)
    /\ buffer \in Seq(Nat)
    /\ reported \in Seq([what : {"frame", "custom"}, first : Nat, last : Nat])
    /\ \A o \in Consumed : \A i \in 1..Len(buffer) : o < buffer[i]

\* The inductive invariant.  It says nothing of the frames once one is torn for
\* good: the buffer may begin anywhere then.
WireInv ==
    /\ TypeOK
    /\ Buffered
    /\ TornForGood \/ WholeFrames

\* The stream is what the peer sends, and sent the frames in it.
Sent == wire.bytes \in Seq(STRING) /\ sent = FramesOf(wire.bytes)

\* The frames of the stream, one behind the other.
LEMMA SentOrder ==
  ASSUME Sent
  PROVE  /\ Len(sent) \in Nat /\ Len(wire.bytes) \in Nat
         /\ \A k \in 0..Len(sent) : Position(k) \in 0..Len(wire.bytes)
         /\ Position(0) = 0
         /\ \A k \in 1..Len(sent) :
              /\ Position(k) = sent[k].next
              /\ Position(k - 1) \in 0..(sent[k].first - 1)
              /\ sent[k].first \in 1..sent[k].last
              /\ sent[k].last \in 1..sent[k].next
              /\ sent[k].next \in 1..Len(wire.bytes)
              /\ wire.bytes[sent[k].first] \in Letters
              /\ wire.bytes[sent[k].last] = NUL
              /\ sent[k].next = OptEndOfLine(wire.bytes, sent[k].last)
              /\ Stop(Rest(wire.bytes, Position(k - 1))) >= 0
              /\ sent[k] = FrameAt(wire.bytes, Position(k - 1))
         /\ \A j, k \in 0..Len(sent) : j <= k => Position(j) <= Position(k)
         /\ Stop(Rest(wire.bytes, Position(Len(sent)))) < 0
<1>1. Chain(wire.bytes, 0, sent) /\ wire.bytes \in Seq(STRING)
  BY FramesChain DEF Sent
<1>2. Len(sent) \in Nat /\ \A k \in 1..Len(sent) : k # 0
  BY <1>1 DEF Chain
<1>3. Position(0) = 0 /\ \A k \in 1..Len(sent) : Position(k) = sent[k].next
  BY <1>2 DEF Position, Behind
<1>4. /\ \A k \in 1..Len(sent) :
           /\ Behind(sent, 0, k - 1) \in 0..(sent[k].first - 1)
           /\ sent[k].first \in 1..sent[k].last
           /\ sent[k].last \in 1..sent[k].next
           /\ sent[k].next \in 1..Len(wire.bytes)
           /\ wire.bytes[sent[k].first] \in Letters
           /\ wire.bytes[sent[k].last] = NUL
           /\ sent[k].next = OptEndOfLine(wire.bytes, sent[k].last)
      /\ \A j, k \in 0..Len(sent) :
           j <= k => Behind(sent, 0, j) <= Behind(sent, 0, k)
  <2>1. ASSUME NEW k \in 1..Len(sent)
        PROVE  /\ Behind(sent, 0, k - 1) \in 0..(sent[k].first - 1)
               /\ sent[k].first \in 1..sent[k].last
               /\ sent[k].last \in 1..sent[k].next
               /\ sent[k].next \in 1..Len(wire.bytes)
               /\ wire.bytes[sent[k].first] \in Letters
               /\ wire.bytes[sent[k].last] = NUL
               /\ sent[k].next = OptEndOfLine(wire.bytes, sent[k].last)
    BY <1>1, ChainOrder
  <2>2. \A j, k \in 0..Len(sent) : j <= k => Behind(sent, 0, j) <= Behind(sent, 0, k)
    BY <1>1, ChainOrder
  <2> QED BY <2>1, <2>2
<1>5. \A k \in 0..Len(sent) : Position(k) \in 0..Len(wire.bytes)
  BY <1>1 DEF Chain, Position
<1>6. /\ \A k \in 1..Len(sent) :
           /\ Stop(Rest(wire.bytes, Position(k - 1))) >= 0
           /\ sent[k] = FrameAt(wire.bytes, Position(k - 1))
      /\ Stop(Rest(wire.bytes, Position(Len(sent)))) < 0
  BY <1>1 DEF Chain, Position
<1>7. \A k \in 1..Len(sent) : Position(k - 1) \in 0..(sent[k].first - 1)
  BY <1>4 DEF Position
<1>8. \A j, k \in 0..Len(sent) : j <= k => Position(j) <= Position(k)
  BY <1>4 DEF Position
<1>9. Len(wire.bytes) \in Nat
  BY <1>1
<1> QED BY <1>2, <1>3, <1>4, <1>5, <1>6, <1>7, <1>8, <1>9

\* Frames do not overlap.
LEMMA SentApart ==
  ASSUME Sent, NEW j \in 1..Len(sent), NEW k \in 1..Len(sent), j < k
  PROVE  sent[j].last < sent[k].first /\ sent[j].next < sent[k].first
<1>1. j \in 0..Len(sent) /\ k - 1 \in 0..Len(sent) /\ j <= k - 1
  BY SentOrder
<1>2. Position(j) <= Position(k - 1)
  BY <1>1, SentOrder
<1>3. /\ Position(j) = sent[j].next
      /\ Position(k - 1) \in 0..(sent[k].first - 1)
      /\ sent[k].first \in 1..sent[k].last
      /\ sent[k].last \in 1..sent[k].next
      /\ sent[k].next \in 1..Len(wire.bytes)
      /\ sent[j].last \in 1..sent[j].next
      /\ sent[j].next \in 1..Len(wire.bytes)
  BY SentOrder
<1>4. /\ Len(wire.bytes) \in Nat
      /\ sent[k].next \in Int /\ sent[j].next \in Int /\ sent[k].last \in Int
      /\ sent[k].first \in Int /\ sent[j].last \in Int
  BY <1>3, SentOrder, SMTT(30)
<1> QED BY <1>2, <1>3, <1>4

\* What there is where a line ending may be.
LEMMA EndOfLineSymbols ==
  ASSUME NEW s, Len(s) \in Nat, NEW p \in 0..Len(s)
  PROVE  \/ /\ OptEndOfLine(s, p) = p
            /\ \/ p = Len(s)
               \/ s[p + 1] \notin {LF, CR}
               \/ s[p + 1] = CR /\ (p + 1 = Len(s) \/ s[p + 2] # LF)
         \/ p < Len(s) /\ OptEndOfLine(s, p) = p + 1 /\ s[p + 1] = LF
         \/ p + 1 < Len(s) /\ OptEndOfLine(s, p) = p + 2 /\ s[p + 1] = CR /\ s[p + 2] = LF
<1>1. CASE p = Len(s)
  BY <1>1 DEF OptEndOfLine, EndOfLine, NeedsMore
<1>2. CASE p # Len(s) /\ s[p + 1] = LF
  <2>1. EndOfLine(s, p) = p + 1 /\ ~ (p + 1 < 0) /\ p < Len(s)
    BY <1>2 DEF EndOfLine
  <2> QED BY <1>2, <2>1 DEF OptEndOfLine
<1>3. CASE p # Len(s) /\ s[p + 1] # LF /\ s[p + 1] # CR
  <2>1. EndOfLine(s, p) = Fails
    BY <1>3 DEF EndOfLine
  <2> QED BY <1>3, <2>1 DEF OptEndOfLine, Fails
<1>4. CASE p # Len(s) /\ s[p + 1] # LF /\ s[p + 1] = CR
  <2>1. CASE p + 1 = Len(s)
    <3>1. EndOfLine(s, p) = NeedsMore
      BY <1>4, <2>1 DEF EndOfLine
    <3> QED BY <1>4, <2>1, <3>1 DEF OptEndOfLine, NeedsMore
  <2>2. CASE p + 1 # Len(s) /\ s[p + 2] = LF
    <3>1. EndOfLine(s, p) = p + 2 /\ ~ (p + 2 < 0) /\ p + 1 < Len(s)
      BY <1>4, <2>2 DEF EndOfLine
    <3> QED BY <1>4, <2>2, <3>1 DEF OptEndOfLine
  <2>3. CASE p + 1 # Len(s) /\ s[p + 2] # LF
    <3>1. EndOfLine(s, p) = Fails
      BY <1>4, <2>3 DEF EndOfLine
    <3> QED BY <1>4, <2>3, <3>1 DEF OptEndOfLine, Fails
  <2> QED BY <2>1, <2>2, <2>3
<1> QED BY <1>1, <1>2, <1>3, <1>4

\* The symbols of the stream are as distinct as their names.
LEMMA SymbolsApart ==
  /\ NUL # CR /\ NUL # LF /\ CR # LF
  /\ \A l \in Letters : l \notin {CR, LF}
BY LettersAssumption DEF NUL, CR, LF

\* Where a stream may be cut a frame ends, or it is over; no CR is there, and
\* a line ending behind it is the one that follows the NUL of a frame.
LEMMA SeamFacts ==
  ASSUME Sent, NEW o \in Seams, o # 0, o # Len(wire.bytes)
  PROVE  /\ o \in 1..(Len(wire.bytes) - 1)
         /\ o \in Ends
         /\ wire.bytes[o] # CR
         /\ \/ OptEndOfLine(wire.bytes, o) = o
            \/ \E k \in 1..Len(sent) : o = sent[k].last
<1>1. PICK k \in 1..Len(sent) :
         \/ o = sent[k].last
         \/ o = sent[k].next /\ OptEndOfLine(wire.bytes, o) = o
  BY DEF Seams
<1>2. /\ sent[k].last \in 1..sent[k].next
      /\ sent[k].next \in 1..Len(wire.bytes)
      /\ wire.bytes[sent[k].last] = NUL
      /\ sent[k].next = OptEndOfLine(wire.bytes, sent[k].last)
      /\ Position(k) = sent[k].next
      /\ Len(wire.bytes) \in Nat /\ Len(sent) \in Nat
  BY SentOrder
<1>3. sent[k].last \in 0..Len(wire.bytes) /\ sent[k].next \in 0..Len(wire.bytes)
  BY <1>2
<1>4. wire.bytes[sent[k].next] \in {NUL, LF}
  <2>1. \/ sent[k].next = sent[k].last
        \/ sent[k].next = sent[k].last + 1 /\ wire.bytes[sent[k].last + 1] = LF
        \/ sent[k].next = sent[k].last + 2 /\ wire.bytes[sent[k].last + 2] = LF
    BY <1>2, <1>3, EndOfLineSymbols
  <2> QED BY <1>2, <2>1
<1>5. wire.bytes[o] # CR
  BY <1>1, <1>2, <1>4, SymbolsApart
<1>6. o \in 1..(Len(wire.bytes) - 1)
  BY <1>1, <1>2, <1>3
<1>7. o \in Ends
  <2>1. k \in 0..Len(sent)
    BY <1>2
  <2> QED BY <1>1, <1>2, <2>1 DEF Ends
<1> QED BY <1>1, <1>5, <1>6, <1>7

\* A symbol behind an end that is no line ending is where the next parse of
\* the whole text begins.
LEMMA EndThenSymbol ==
  ASSUME Sent, NEW o \in Ends, o < Len(wire.bytes), wire.bytes[o + 1] \notin {CR, LF}
  PROVE  \E k \in 0..Len(sent) : o = Position(k) /\ Start(Rest(wire.bytes, o)) = 0
<1> DEFINE L == Len(wire.bytes)
<1>1. ASSUME NEW k \in 0..Len(sent), o = Position(k)
      PROVE  Start(Rest(wire.bytes, o)) = 0
  <2>1. o \in 0..L /\ L \in Nat /\ wire.bytes \in Seq(STRING) /\ 0 \in 0..(L - o) /\ o + 0 = o
    BY <1>1, SentOrder DEF Sent
  <2>2. OptEndOfLine(wire.bytes, o) = o
    BY <2>1, EndOfLineSymbols
  <2>3. OptEndOfLine(wire.bytes, o + 0) = o + OptEndOfLine(Rest(wire.bytes, o), 0)
    BY <2>1, RestEndOfLine
  <2>4. OptEndOfLine(Rest(wire.bytes, o), 0) \in Int
    <3>1. Len(Rest(wire.bytes, o)) \in Nat /\ 0 \in 0..Len(Rest(wire.bytes, o))
      BY <2>1, RestSymbols
    <3> QED BY <3>1, OptEndOfLineRange
  <2> QED BY <2>1, <2>2, <2>3, <2>4 DEF Start
<1>2. CASE \E k \in 0..Len(sent) : o = Position(k)
  BY <1>1, <1>2
<1>3. ASSUME NEW k \in 1..Len(sent), o = sent[k].last
      PROVE  \E l \in 0..Len(sent) : o = Position(l)
  <2>1. /\ sent[k].last \in 1..sent[k].next
        /\ sent[k].next \in 1..Len(wire.bytes)
        /\ sent[k].next = OptEndOfLine(wire.bytes, sent[k].last)
        /\ Position(k) = sent[k].next
        /\ L \in Nat /\ Len(sent) \in Nat
    BY SentOrder
  <2>2. o \in 0..L
    BY <1>3, <2>1
  <2>3. OptEndOfLine(wire.bytes, o) = o
    BY <2>1, <2>2, EndOfLineSymbols
  <2>4. k \in 0..Len(sent)
    BY <2>1
  <2> QED BY <1>3, <2>1, <2>3, <2>4
<1> QED BY <1>1, <1>2, <1>3 DEF Ends

\* Offsets of the stream, in order.
InOrder(b) ==
    /\ b \in Seq(1..Len(wire.bytes))
    /\ \A i, j \in 1..Len(b) : i < j => b[i] < b[j]

\* The first m of them begin behind an end, and wherever one is left out, the
\* stream may be cut on both sides of what is left out.
Clean(b, m) ==
    /\ b[1] - 1 \in Ends
    /\ \A i \in 1..(m - 1) :
         b[i + 1] = b[i] + 1 \/ (b[i] \in Seams /\ b[i + 1] - 1 \in Seams)

\* The symbols of the bytes at some offsets.
LEMMA TextSymbols ==
  ASSUME Sent, NEW b, InOrder(b)
  PROVE  /\ Text(b) \in Seq(STRING)
         /\ Len(Text(b)) = Len(b) /\ Len(b) \in Nat
         /\ \A i \in 1..Len(b) : /\ Text(b)[i] = wire.bytes[b[i]]
                                 /\ b[i] \in 1..Len(wire.bytes)
<1>1. Len(b) \in Nat /\ \A i \in 1..Len(b) : b[i] \in 1..Len(wire.bytes)
  BY DEF InOrder
<1>2. \A i \in 1..Len(b) : wire.bytes[b[i]] \in STRING
  BY <1>1 DEF Sent
<1> QED BY <1>1, <1>2 DEF Text

\* Behind a line ending at its front, a buffer begins where a frame of the
\* stream does, or where the first symbol is that is none.
LEMMA BeginsWhereSent ==
  ASSUME Sent, NEW b, InOrder(b), Start(Text(b)) < Len(b),
         Clean(b, Start(Text(b)) + 1),
         Text(b)[Start(Text(b)) + 1] \notin {CR, LF}
  PROVE  \E k \in 0..Len(sent) :
            b[Start(Text(b)) + 1] - 1 = Position(k) + Start(Rest(wire.bytes, Position(k)))
<1> DEFINE c  == Text(b)
           st == Start(c)
           L  == Len(wire.bytes)
           o  == b[st + 1] - 1
           Done == \E k \in 0..Len(sent) : o = Position(k) + Start(Rest(wire.bytes, Position(k)))
<1> SUFFICES Done
  OBVIOUS
<1>1. /\ c \in Seq(STRING) /\ Len(c) = Len(b) /\ Len(b) \in Nat /\ L \in Nat
      /\ \A i \in 1..Len(b) : c[i] = wire.bytes[b[i]] /\ b[i] \in 1..L
      /\ wire.bytes \in Seq(STRING)
  BY TextSymbols, SentOrder DEF Sent
<1>2. \/ st = 0
      \/ st = 1 /\ c[1] = LF
      \/ st = 2 /\ c[1] = CR /\ c[2] = LF
  <2>1. 0 \in 0..Len(c) /\ Len(c) \in Nat
    BY <1>1
  <2> QED BY <2>1, EndOfLineSymbols DEF Start
<1> HIDE DEF c, st
<1>3. \A i, j \in 1..Len(b) : i < j => b[i] < b[j]
  BY DEF InOrder
<1>4. st + 1 \in 1..Len(b) /\ st < Len(b)
  <2>1. st < Len(b)
    BY DEF st, c
  <2> QED BY <1>1, <1>2, <2>1
<1>5. b[st + 1] \in 1..L /\ o \in 0..(L - 1) /\ o < L
      /\ wire.bytes[o + 1] \notin {CR, LF}
  <2>1. b[st + 1] \in 1..L /\ c[st + 1] = wire.bytes[b[st + 1]]
    BY <1>1, <1>4
  <2>2. c[st + 1] \notin {CR, LF}
    BY DEF c, st
  <2>3. o \in 0..(L - 1) /\ o < L /\ o + 1 = b[st + 1]
    BY <1>1, <2>1
  <2> QED BY <2>1, <2>2, <2>3
<1>6. Clean(b, st + 1) /\ o = b[st + 1] - 1
  BY DEF st, c
<1> HIDE DEF o, Done
<1>7. o \in Ends => Done
  <2> SUFFICES ASSUME o \in Ends PROVE Done
    OBVIOUS
  <2>1. PICK k \in 0..Len(sent) : o = Position(k) /\ Start(Rest(wire.bytes, o)) = 0
    BY <1>5, EndThenSymbol
  <2>2. Position(k) + Start(Rest(wire.bytes, Position(k))) = o
    <3>1. Position(k) \in 0..L
      BY SentOrder
    <3> QED BY <1>1, <2>1, <3>1
  <2> QED BY <2>1, <2>2 DEF Done
<1>8. \A p \in Ends : (p \in 0..L /\ OptEndOfLine(wire.bytes, p) = o) => Done
  <2> SUFFICES ASSUME NEW p \in Ends, p \in 0..L, OptEndOfLine(wire.bytes, p) = o PROVE Done
    OBVIOUS
  <2>1. CASE \E k \in 0..Len(sent) : p = Position(k)
    <3>1. PICK k \in 0..Len(sent) : p = Position(k)
      BY <2>1
    <3>2. 0 \in 0..(L - p) /\ p + 0 = p
      BY <1>1
    <3>3. OptEndOfLine(wire.bytes, p + 0) = p + OptEndOfLine(Rest(wire.bytes, p), 0)
      BY <1>1, <3>2, RestEndOfLine
    <3> QED BY <3>1, <3>2, <3>3 DEF Start, Done
  <2>2. CASE \E k \in 1..Len(sent) : p = sent[k].last
    <3>1. PICK k \in 1..Len(sent) : p = sent[k].last
      BY <2>2
    <3>2. k \in 0..Len(sent) /\ o = Position(k)
      BY <3>1, SentOrder
    <3>3. o \in Ends
      BY <3>2 DEF Ends
    <3> QED BY <1>7, <3>3
  <2> QED BY <2>1, <2>2 DEF Ends
<1>9. \A i \in 1..st : \/ b[i + 1] = b[i] + 1
                       \/ /\ b[i] \in Seams /\ b[i + 1] - 1 \in Seams
                          /\ wire.bytes[b[i]] # CR
                          /\ b[i + 1] - 1 \in Ends
  <2> SUFFICES ASSUME NEW i \in 1..st, b[i] \in Seams, b[i + 1] - 1 \in Seams
               PROVE  wire.bytes[b[i]] # CR /\ b[i + 1] - 1 \in Ends
    <3>1. \A i \in 1..st : i \in 1..((st + 1) - 1)
      BY <1>2
    <3> QED BY <1>6, <3>1 DEF Clean
  <2>1. /\ i \in 1..Len(b) /\ i + 1 \in 1..Len(b) /\ i < i + 1
    BY <1>1, <1>2, <1>4
  <2>2. b[i] \in 1..L /\ b[i + 1] \in 1..L /\ b[i] < b[i + 1]
    BY <1>1, <1>3, <2>1
  <2>3. b[i] # 0 /\ b[i] # L /\ b[i + 1] - 1 # 0 /\ b[i + 1] - 1 # L
    BY <1>1, <2>2
  <2> QED BY <2>3, SeamFacts
<1>10. b[1] - 1 \in Ends
  BY <1>6 DEF Clean
<1>11. CASE st = 0
  <2>1. o = b[0 + 1] - 1 /\ 0 + 1 = 1
    BY <1>6, <1>11
  <2> QED BY <1>7, <1>10, <2>1
<1>12. CASE st = 1 /\ c[1] = LF
  <2>1. /\ 1 \in 1..st /\ 1 \in 1..Len(b) /\ 2 \in 1..Len(b) /\ o = b[1 + 1] - 1
        /\ 1 + 1 = 2
    BY <1>1, <1>4, <1>6, <1>12
  <2>2. CASE b[2] = b[1] + 1
    <3> DEFINE p == b[1] - 1
    <3>1. b[1] \in 1..L /\ wire.bytes[b[1]] = LF
      BY <1>1, <1>12, <2>1
    <3>2. p \in 0..L /\ p + 1 = b[1] /\ p # L /\ o = p + 1
      BY <1>1, <2>1, <2>2, <3>1
    <3> HIDE DEF p
    <3>3. OptEndOfLine(wire.bytes, p) = o
      BY <1>1, <3>1, <3>2, EndOfLineSymbols, SymbolsApart
    <3> QED BY <1>8, <1>10, <3>2, <3>3, Zenon DEF p
  <2> QED BY <1>7, <1>9, <2>1, <2>2, Zenon
<1>13. CASE st = 2 /\ c[1] = CR /\ c[2] = LF
  <2>1. /\ 1 \in 1..st /\ 2 \in 1..st /\ 1 \in 1..Len(b) /\ 2 \in 1..Len(b) /\ 3 \in 1..Len(b)
        /\ o = b[2 + 1] - 1 /\ 1 + 1 = 2 /\ 2 + 1 = 3
    BY <1>1, <1>4, <1>6, <1>13
  <2>2. b[1] \in 1..L /\ wire.bytes[b[1]] = CR /\ b[2] \in 1..L /\ wire.bytes[b[2]] = LF
    BY <1>1, <1>13, <2>1
  <2>3. b[2] = b[1] + 1
    BY <1>9, <2>1, <2>2
  <2>4. CASE b[3] = b[2] + 1
    <3> DEFINE p == b[1] - 1
    <3>1. /\ p \in 0..L /\ p + 1 = b[1] /\ p + 2 = b[2] /\ p # L /\ p + 1 # L /\ o = p + 2
      BY <1>1, <2>1, <2>2, <2>3, <2>4
    <3> HIDE DEF p
    <3>2. OptEndOfLine(wire.bytes, p) = o
      BY <1>1, <2>2, <3>1, EndOfLineSymbols, SymbolsApart
    <3> QED BY <1>8, <1>10, <3>1, <3>2, Zenon DEF p
  <2> QED BY <1>7, <1>9, <2>1, <2>4, Zenon
<1> QED BY <1>2, <1>11, <1>12, <1>13

\* The n offsets behind place st of the buffer are those behind a, without a
\* gap.
Run(b, st, a, n) == \A i \in 1..n : b[st + i] = a + i

\* They have the same symbols as the stream has there.
LEMMA RunWindow ==
  ASSUME Sent, NEW b, InOrder(b), NEW st \in Nat, NEW p \in 0..Len(wire.bytes), NEW x \in Nat,
         NEW n \in Nat, n > 0, st + n <= Len(b), Run(b, st, p + x, n)
  PROVE  Window(Text(b), st, Rest(wire.bytes, p), x, n)
<1> DEFINE c == Text(b)
           w == Rest(wire.bytes, p)
           L == Len(wire.bytes)
<1>1. /\ Len(c) = Len(b) /\ Len(b) \in Nat /\ L \in Nat
      /\ \A i \in 1..Len(b) : c[i] = wire.bytes[b[i]] /\ b[i] \in 1..L
  BY TextSymbols, SentOrder
<1>2. Len(w) = L - p /\ \A i \in 1..(L - p) : w[i] = wire.bytes[p + i]
  BY RestSymbols DEF Sent
<1> HIDE DEF c, w
<1>3. ASSUME NEW i \in 1..n
      PROVE  st + i \in 1..Len(b) /\ b[st + i] = p + (x + i)
  <2>1. b[st + i] = p + x + i
    BY DEF Run
  <2>2. p + x + i = p + (x + i) /\ st + i \in 1..Len(b)
    BY <1>1
  <2> QED BY <2>1, <2>2
<1>4. x + n <= Len(w)
  <2>1. n \in 1..n
    OBVIOUS
  <2>2. p + (x + n) <= L
    BY <1>1, <1>3, <2>1
  <2> QED BY <1>1, <1>2, <2>2
<1>5. ASSUME NEW i \in 1..n PROVE c[st + i] = w[x + i]
  <2>1. c[st + i] = wire.bytes[p + (x + i)]
    BY <1>1, <1>3
  <2>2. x + i \in 1..(L - p)
    BY <1>1, <1>2, <1>4
  <2> QED BY <1>2, <2>1, <2>2
<1>6. Len(w) \in Nat /\ st + n <= Len(c)
  BY <1>1, <1>2
<1> QED BY <1>1, <1>4, <1>5, <1>6 DEF Window, c, w

\* A clean buffer that begins where the stream is at has no gap before the
\* next frame is complete in it.
LEMMA NoGapInFrame ==
  ASSUME Sent, NEW b, InOrder(b), NEW m \in 1..Len(b), Clean(b, m), NEW st \in 0..(m - 1),
         NEW k \in 0..Len(sent), NEW a \in Nat, Position(k) <= a, b[st + 1] = a + 1
  PROVE  \/ Run(b, st, a, m - st)
         \/ /\ k + 1 \in 1..Len(sent)
            /\ \E d \in 1..(m - st) : Run(b, st, a, d) /\ sent[k + 1].last <= a + d
<1> DEFINE n == m - st
           D == {i \in 1..n : b[st + i] # a + i}
           L == Len(wire.bytes)
<1>1. /\ Len(b) \in Nat /\ L \in Nat /\ n \in Nat /\ m \in Nat /\ st \in Nat
      /\ Len(sent) \in Nat /\ st + n = m
      /\ \A i \in 1..Len(b) : b[i] \in 1..L
      /\ \A i, j \in 1..Len(b) : i < j => b[i] < b[j]
  <2>1. Len(b) \in Nat
    BY DEF InOrder
  <2> QED BY <2>1, TextSymbols, SentOrder, SMTT(30) DEF InOrder
<1>2. CASE D = {}
  BY <1>2 DEF Run
<1>3. CASE D # {}
  <2>1. D \in SUBSET Nat
    OBVIOUS
  <2>2. PICK e \in D : \A f \in D : e <= f
    <3> HIDE DEF D
    <3> QED BY <1>3, <2>1, LeastNat
  <2> DEFINE d == e - 1
             r == st + d
  <2>3. e \in 1..n /\ b[st + e] # a + e /\ e # 1
    BY <2>2
  <2>4. /\ d \in 1..n /\ d \in Nat /\ r \in 1..(m - 1) /\ r + 1 = st + e /\ d + 1 = e
        /\ r \in 1..Len(b) /\ r + 1 \in 1..Len(b) /\ r < r + 1
    <3> HIDE DEF n
    <3> QED BY <1>1, <2>3
  <2>5. Run(b, st, a, d)
    <3> SUFFICES ASSUME NEW i \in 1..d PROVE b[st + i] = a + i
      BY DEF Run
    <3>1. i \in 1..n /\ i < e /\ i \in Nat
      <4> HIDE DEF n
      <4> QED BY <1>1, <2>3, <2>4
    <3>2. i \notin D
      BY <2>1, <2>2, <3>1
    <3> QED BY <3>1, <3>2
  <2> HIDE DEF d, n, D
  <2>6. b[r] = a + d
    <3>1. d \in 1..d
      BY <2>4
    <3> QED BY <2>5, <3>1 DEF Run
  <2>7. b[r + 1] # b[r] + 1
    <3>1. a + d + 1 = a + e
      BY <2>4
    <3> QED BY <2>3, <2>4, <2>6, <3>1
  <2>8. b[r] \in Seams
    BY <2>4, <2>7 DEF Clean
  <2>9. b[r] # 0 /\ b[r] # L /\ b[r] \in 1..L
    BY <1>1, <2>4, SMTT(30)
  <2>10. b[r] \in Ends
    BY <2>8, <2>9, SeamFacts
  <2>11. Position(k) < b[r]
    <3>1. Position(k) \in 0..L
      BY SentOrder
    <3> QED BY <1>1, <2>4, <2>6, <3>1
  <2>12. ASSUME NEW j \in 1..Len(sent), b[r] \in {sent[j].last, sent[j].next}
         PROVE  k + 1 \in 1..Len(sent) /\ sent[k + 1].last <= b[r]
    <3>1. /\ sent[j].last \in 1..sent[j].next /\ sent[j].next \in 1..L
          /\ Position(j) = sent[j].next /\ j \in 0..Len(sent)
      BY <1>1, SentOrder
    <3>2. k < j
      <4>1. j <= k => Position(j) <= Position(k)
        BY <3>1, SentOrder
      <4>2. Position(k) \in 0..L
        BY SentOrder
      <4>3. sent[j].last \in Int /\ sent[j].next \in Int
        BY <1>1, <3>1
      <4> DEFINE x == sent[j].last
                 z == sent[j].next
                 y == Position(k)
      <4>4. /\ j <= k => z <= y
            /\ y < b[r] /\ b[r] \in {x, z} /\ x \in 1..z /\ z \in 1..L /\ y \in 0..L
        BY <2>11, <2>12, <3>1, <4>1, <4>2, <4>3
      <4> HIDE DEF x, z, y
      <4>5. ~ (j <= k)
        BY <1>1, <4>4
      <4> QED BY <1>1, <4>5
    <3>3. k + 1 \in 1..Len(sent)
      BY <1>1, <3>2
    <3>4. CASE k + 1 = j
      <4>1. sent[j].last \in Int /\ sent[j].next \in Int
        BY <1>1, <3>1
      <4> QED BY <2>12, <3>1, <3>3, <3>4, <4>1
    <3>5. CASE k + 1 < j
      <4>1. PICK l \in 1..Len(sent) : l = k + 1
        BY <3>3
      <4>2. sent[l].last < sent[j].first
        BY <3>5, <4>1, SentApart
      <4>3. /\ sent[j].first \in 1..sent[j].last
            /\ sent[l].last \in 1..sent[l].next /\ sent[l].next \in 1..L
        BY SentOrder
      <4> DEFINE f == sent[j].first
                 x == sent[j].last
                 z == sent[j].next
                 y == sent[l].last
                 v == sent[l].next
      <4>4. f \in 1..x /\ x \in 1..z /\ z \in 1..L /\ y \in 1..v /\ v \in 1..L /\ y < f
            /\ b[r] \in {x, z} /\ b[r] \in 1..L
        BY <2>9, <2>12, <3>1, <4>2, <4>3
      <4>5. y <= b[r]
        <5> HIDE DEF f, x, z, y, v
        <5> QED BY <1>1, <4>4, SMTT(30)
      <4> QED BY <3>3, <4>1, <4>5
    <3> QED BY <1>1, <3>2, <3>3, <3>4, <3>5
  <2>13. k + 1 \in 1..Len(sent) /\ sent[k + 1].last <= b[r]
    <3>1. CASE \E j \in 0..Len(sent) : b[r] = Position(j)
      <4>1. PICK j \in 0..Len(sent) : b[r] = Position(j)
        BY <3>1
      <4>2. j # 0
        BY <2>9, <4>1, SentOrder
      <4>3. j \in 1..Len(sent) /\ Position(j) = sent[j].next
        BY <1>1, <4>2, SentOrder
      <4> QED BY <2>12, <4>1, <4>3
    <3>2. CASE \E j \in 1..Len(sent) : b[r] = sent[j].last
      BY <2>12, <3>2
    <3> QED BY <2>10, <3>1, <3>2 DEF Ends
  <2> QED BY <2>4, <2>5, <2>6, <2>13 DEF n
<1> QED BY <1>2, <1>3

\* The frame that is found at the front of a clean buffer is the next one the
\* peer sent.
LEMMA FindsSent ==
  ASSUME Sent, NEW b, InOrder(b), Stop(Text(b)) >= 0,
         Clean(b, BodyStop(Text(b)) + 1)
  PROVE  \E k \in 1..Len(sent) :
            /\ b[Start(Text(b)) + 1] = sent[k].first
            /\ b[BodyStop(Text(b)) + 1] = sent[k].last
<1> DEFINE c   == Text(b)
           st  == Start(c)
           nul == BodyStop(c) + 1
           L   == Len(wire.bytes)
<1>1. /\ c \in Seq(STRING) /\ Len(c) = Len(b) /\ Len(b) \in Nat /\ L \in Nat
      /\ Len(sent) \in Nat
      /\ \A i \in 1..Len(b) : b[i] \in 1..L
  BY TextSymbols, SentOrder
<1>2. /\ st \in Nat /\ nul \in 1..Len(b) /\ st + 1 < nul /\ c[st + 1] \in Letters
  <2>1. /\ st \in 0..Len(c) /\ BodyStop(c) \in (st + 1)..(Len(c) - 1) /\ c[st + 1] \in Letters
    BY <1>1, FoundInOrder
  <2> HIDE DEF c, st
  <2> QED BY <1>1, <2>1
<1>3. PICK k \in 0..Len(sent) :
         b[st + 1] - 1 = Position(k) + Start(Rest(wire.bytes, Position(k)))
  <2>1. st < Len(b) /\ c[st + 1] \notin {CR, LF}
    <3>1. c[st + 1] \notin {CR, LF}
      BY <1>2, SymbolsApart
    <3> HIDE DEF c, st, nul
    <3> QED BY <1>1, <1>2, <3>1
  <2>2. Clean(b, st + 1)
    <3>1. Clean(b, nul)
      OBVIOUS
    <3> HIDE DEF c, st, nul
    <3>2. \A i \in 1..((st + 1) - 1) : i \in 1..(nul - 1)
      BY <1>1, <1>2
    <3> QED BY <3>1, <3>2 DEF Clean
  <2> QED BY <2>1, <2>2, BeginsWhereSent
<1> DEFINE p == Position(k)
           w == Rest(wire.bytes, p)
           x == Start(w)
           a == p + x
<1>4. p \in 0..L /\ Len(w) = L - p /\ Len(w) \in Nat
  <2>1. p \in 0..L
    BY SentOrder
  <2>2. Len(w) = L - p
    <3>1. wire.bytes \in Seq(STRING)
      BY DEF Sent
    <3> QED BY <2>1, <3>1, RestSymbols
  <2> HIDE DEF p, w
  <2> QED BY <1>1, <2>1, <2>2
<1>5. x \in Nat /\ a \in Nat /\ p <= a /\ b[st + 1] = a + 1
  <2>1. x \in 0..Len(w)
    BY <1>4, PartsRange
  <2>2. st + 1 \in 1..Len(b)
    <3> HIDE DEF st, nul
    <3> QED BY <1>1, <1>2
  <2>3. b[st + 1] \in Int /\ b[st + 1] - 1 = a
    BY <1>1, <1>3, <2>2
  <2> HIDE DEF x, p, st, w
  <2> QED BY <1>1, <1>4, <2>1, <2>3
<1>6. Clean(b, nul)
  OBVIOUS
<1>7. k + 1 \in 1..Len(sent) => /\ Stop(w) >= 0
                                /\ sent[k + 1].first = a + 1
                                /\ sent[k + 1].last = p + (BodyStop(w) + 1)
  <2> SUFFICES ASSUME k + 1 \in 1..Len(sent)
               PROVE  /\ Stop(w) >= 0
                      /\ sent[k + 1].first = a + 1
                      /\ sent[k + 1].last = p + (BodyStop(w) + 1)
    OBVIOUS
  <2>1. (k + 1) - 1 = k
    BY <1>1
  <2>2. Stop(w) >= 0 /\ sent[k + 1] = FrameAt(wire.bytes, p)
    BY <2>1, SentOrder
  <2> QED BY <2>2 DEF FrameAt
<1>8. Stop(w) >= 0 => k + 1 \in 1..Len(sent)
  <2>1. Stop(w) \in Int
    BY <1>4, PartsRange DEF NeedsMore, Fails
  <2>2. Stop(Rest(wire.bytes, Position(Len(sent)))) < 0
    BY SentOrder
  <2>3. Stop(w) >= 0 => k # Len(sent)
    BY <2>1, <2>2
  <2> HIDE DEF w
  <2> QED BY <1>1, <2>3
<1>9. Stop(c) >= 0 /\ BodyStop(c) \in Int /\ BodyStop(w) \in Int
  <2>1. BodyStop(c) \in Int
    BY <1>1, PartsRange DEF NeedsMore, Fails
  <2>2. BodyStop(w) \in Int
    BY <1>4, PartsRange DEF NeedsMore, Fails
  <2> QED BY <2>1, <2>2
<1>10. CASE Run(b, st, a, nul - st)
  <2> DEFINE n == nul - st
  <2>1. n \in Nat /\ n > 0 /\ st + n = nul /\ st + n <= Len(b)
    <3> HIDE DEF st, nul
    <3> QED BY <1>1, <1>2
  <2>2. Window(c, st, w, x, n)
    <3> HIDE DEF n, x, p, st, nul
    <3> QED BY <1>2, <1>4, <1>5, <1>10, <2>1, RunWindow DEF n
  <2>3. BodyStop(c) + 1 <= st + n
    <3> HIDE DEF c, st
    <3>1. nul \in Int
      BY <1>1, <1>2
    <3> QED BY <2>1, <3>1
  <2>4. /\ Stop(w) >= 0
        /\ BodyStop(w) - x = BodyStop(c) - st
    <3> HIDE DEF n, c, w
    <3> QED BY <1>9, <2>2, <2>3, FrameMoves
  <2>5. b[nul] = a + n
    <3>1. n \in 1..n
      BY <2>1
    <3> HIDE DEF n, nul, st
    <3> QED BY <1>10, <2>1, <3>1 DEF Run, n
  <2>6. k + 1 \in 1..Len(sent) /\ sent[k + 1].first = a + 1
        /\ sent[k + 1].last = p + (BodyStop(w) + 1)
    BY <1>7, <1>8, <2>4
  <2>7. b[nul] = sent[k + 1].last
    <3> DEFINE e == BodyStop(c)
               f == BodyStop(w)
    <3>1. f - x = e - st /\ e \in Int /\ f \in Int /\ n = (e + 1) - st
      BY <1>9, <2>4
    <3>2. b[nul] = (p + x) + n /\ sent[k + 1].last = p + (f + 1)
          /\ p \in Int /\ x \in Int /\ st \in Int
      BY <1>2, <1>4, <1>5, <2>5, <2>6
    <3> HIDE DEF e, f, n, nul, st, x, p, c, w
    <3> QED BY <3>1, <3>2
  <2> QED BY <1>5, <2>6, <2>7
<1>11. ASSUME k + 1 \in 1..Len(sent),
              NEW d \in 1..(nul - st), Run(b, st, a, d), sent[k + 1].last <= a + d
       PROVE  Run(b, st, a, nul - st)
  <2>1. d \in Nat /\ d > 0 /\ st + d <= nul /\ st + d <= Len(b)
    <3> HIDE DEF st, nul
    <3> QED BY <1>1, <1>2
  <2>2. Window(c, st, w, x, d)
    <3> HIDE DEF x, p, st, nul
    <3> QED BY <1>2, <1>4, <1>5, <1>11, <2>1, RunWindow
  <2>3. Window(w, x, c, st, d)
    <3> HIDE DEF c, w, x, st
    <3> QED BY <2>2, WindowBack
  <2>4. BodyStop(w) \in Int /\ BodyStop(c) \in Int
    BY <1>9
  <2>5. Stop(w) >= 0 /\ sent[k + 1].last = p + (BodyStop(w) + 1)
    BY <1>7, <1>11
  <2>6. BodyStop(w) + 1 <= x + d
    <3> HIDE DEF w, x, p
    <3> DEFINE f == BodyStop(w)
               y == sent[k + 1].last
    <3>1. f \in Int /\ y = p + (f + 1) /\ y <= a + d /\ d \in Nat /\ a = p + x
          /\ p \in Int /\ x \in Int
      BY <1>1, <1>4, <1>5, <1>11, <2>1, <2>4, <2>5
    <3> HIDE DEF f, y
    <3>2. f + 1 <= x + d
      BY ONLY <3>1
    <3> QED BY <3>2 DEF f
  <2>7. BodyStop(c) - st = BodyStop(w) - x
    <3> HIDE DEF w, c
    <3> QED BY <2>3, <2>5, <2>6, FrameMoves
  <2>8. nul - st = d
    <3> HIDE DEF w, c, x, st
    <3> QED BY <1>2, <1>5, <2>1, <2>4, <2>6, <2>7, SMTT(30)
  <2> QED BY <1>11, <2>8
<1>12. \/ Run(b, st, a, nul - st)
       \/ /\ k + 1 \in 1..Len(sent)
          /\ \E d \in 1..(nul - st) : Run(b, st, a, d) /\ sent[k + 1].last <= a + d
  <2>1. st \in 0..(nul - 1)
    <3> HIDE DEF st, nul
    <3> QED BY <1>1, <1>2
  <2> HIDE DEF st, nul, a, p
  <2> QED BY <1>2, <1>5, <1>6, <2>1, NoGapInFrame DEF p
<1> QED BY <1>10, <1>11, <1>12

\* With the line ending behind it, it ends where that frame does, or where its
\* line ending does.
LEMMA EndsWhereSent ==
  ASSUME Sent, NEW b, InOrder(b), Stop(Text(b)) >= 0, Clean(b, Stop(Text(b))),
         NEW k \in 1..Len(sent), b[BodyStop(Text(b)) + 1] = sent[k].last
  PROVE  b[Stop(Text(b))] \in Ends
<1> DEFINE c   == Text(b)
           nul == BodyStop(c) + 1
           e   == Stop(c)
           L   == Len(wire.bytes)
<1>1. /\ c \in Seq(STRING) /\ Len(c) = Len(b) /\ Len(b) \in Nat /\ L \in Nat
      /\ Len(sent) \in Nat /\ wire.bytes \in Seq(STRING)
      /\ \A i \in 1..Len(b) : b[i] \in 1..L /\ c[i] = wire.bytes[b[i]]
      /\ \A i, j \in 1..Len(b) : i < j => b[i] < b[j]
  BY TextSymbols, SentOrder DEF InOrder, Sent
<1>2. nul \in 1..Len(b) /\ e = OptEndOfLine(c, nul) /\ e \in nul..Len(b)
  <2>1. /\ Start(c) \in 0..Len(c) /\ BodyStop(c) \in (Start(c) + 1)..(Len(c) - 1)
        /\ e = OptEndOfLine(c, nul) /\ e \in nul..Len(c)
    BY <1>1, FoundInOrder
  <2> HIDE DEF c, e
  <2> QED BY <1>1, <2>1
<1>3. Clean(b, e) /\ b[nul] = sent[k].last
  OBVIOUS
<1> HIDE DEF c, nul, e
<1> SUFFICES b[e] \in Ends
  BY DEF e, c
<1>4. \/ e = nul
      \/ nul < Len(b) /\ e = nul + 1 /\ c[nul + 1] = LF
      \/ nul + 1 < Len(b) /\ e = nul + 2 /\ c[nul + 1] = CR /\ c[nul + 2] = LF
  <2>1. nul \in 0..Len(c) /\ Len(c) \in Nat
    BY <1>1, <1>2
  <2> QED BY <1>1, <1>2, <2>1, EndOfLineSymbols
<1>5. CASE e = nul
  BY <1>3, <1>5 DEF Ends
<1> DEFINE p == b[nul + 1] - 1
<1>6. ASSUME nul < Len(b), e # nul
      PROVE  /\ b[nul + 1] \in 1..L /\ p \in 0..(L - 1) /\ p + 1 = b[nul + 1]
             /\ \/ \E j \in 1..Len(sent) : p = sent[j].last
                \/ OptEndOfLine(wire.bytes, p) = p
  <2>1. nul + 1 \in 1..Len(b) /\ nul < nul + 1
    BY <1>1, <1>2, <1>6
  <2>2. b[nul] \in 1..L /\ b[nul + 1] \in 1..L /\ b[nul] < b[nul + 1]
    BY <1>1, <1>2, <2>1
  <2>3. p \in 0..(L - 1) /\ p + 1 = b[nul + 1] /\ p # 0 /\ p # L
    BY <1>1, <2>2, SMTT(30)
  <2>4. nul \in 1..(e - 1)
    BY <1>2, <1>6
  <2>5. b[nul + 1] = b[nul] + 1 \/ p \in Seams
    BY <1>3, <2>4 DEF Clean
  <2>6. CASE b[nul + 1] = b[nul] + 1
    <3>1. p = sent[k].last
      BY <1>1, <1>3, <2>2, <2>6
    <3> QED BY <2>2, <2>3, <3>1
  <2>7. CASE p \in Seams
    <3> HIDE DEF p
    <3> QED BY <2>2, <2>3, <2>7, SeamFacts
  <2> QED BY <2>5, <2>6, <2>7
<1>7. ASSUME p \in 0..(L - 1), OptEndOfLine(wire.bytes, p) # p, OptEndOfLine(wire.bytes, p) = b[e],
             \/ \E j \in 1..Len(sent) : p = sent[j].last
             \/ OptEndOfLine(wire.bytes, p) = p
      PROVE  b[e] \in Ends
  <2> HIDE DEF p
  <2>1. PICK j \in 1..Len(sent) : p = sent[j].last
    BY <1>7
  <2>2. j \in 0..Len(sent) /\ b[e] = Position(j)
    <3>1. sent[j].next = OptEndOfLine(wire.bytes, sent[j].last) /\ Position(j) = sent[j].next
      BY SentOrder
    <3>2. b[e] = OptEndOfLine(wire.bytes, sent[j].last)
      BY <1>7, <2>1
    <3> QED BY <1>1, <3>1, <3>2
  <2> QED BY <2>2 DEF Ends
<1>8. CASE nul < Len(b) /\ e = nul + 1 /\ c[nul + 1] = LF
  <2>1. nul + 1 \in 1..Len(b) /\ e # nul
    BY <1>1, <1>2, <1>8
  <2>2. wire.bytes[b[nul + 1]] = LF
    BY <1>1, <1>8, <2>1
  <2>3. /\ b[nul + 1] \in 1..L /\ p \in 0..(L - 1) /\ p + 1 = b[nul + 1]
        /\ \/ \E j \in 1..Len(sent) : p = sent[j].last
           \/ OptEndOfLine(wire.bytes, p) = p
    BY <1>6, <1>8, <2>1
  <2> HIDE DEF p
  <2>4. OptEndOfLine(wire.bytes, p) = p + 1
    <3>1. p \in 0..L /\ p # L
      BY <1>1, <2>3
    <3> QED BY <1>1, <2>2, <2>3, <3>1, EndOfLineSymbols, SymbolsApart
  <2>5. OptEndOfLine(wire.bytes, p) = b[e] /\ OptEndOfLine(wire.bytes, p) # p
    BY <1>8, <2>3, <2>4
  <2> QED BY <1>7, <2>3, <2>5
<1>9. CASE nul + 1 < Len(b) /\ e = nul + 2 /\ c[nul + 1] = CR /\ c[nul + 2] = LF
  <2>1. /\ nul + 1 \in 1..Len(b) /\ nul + 2 \in 1..Len(b) /\ e # nul /\ nul < Len(b)
        /\ (nul + 1) + 1 = nul + 2 /\ nul + 1 < nul + 2 /\ nul + 1 \in 1..(e - 1)
    BY <1>1, <1>2, <1>9
  <2>2. wire.bytes[b[nul + 1]] = CR /\ wire.bytes[b[nul + 2]] = LF
    BY <1>1, <1>9, <2>1
  <2>3. /\ b[nul + 1] \in 1..L /\ p \in 0..(L - 1) /\ p + 1 = b[nul + 1]
        /\ \/ \E j \in 1..Len(sent) : p = sent[j].last
           \/ OptEndOfLine(wire.bytes, p) = p
    BY <1>6, <2>1
  <2> HIDE DEF p
  <2>4. b[nul + 2] \in 1..L /\ b[nul + 1] < b[nul + 2]
    BY <1>1, <2>1
  <2>5. b[nul + 2] = b[nul + 1] + 1
    <3>1. b[(nul + 1) + 1] = b[nul + 1] + 1 \/ b[nul + 1] \in Seams
      BY <1>3, <2>1 DEF Clean
    <3>2. b[nul + 1] # 0 /\ b[nul + 1] # L
      BY <1>1, <2>3, <2>4
    <3> QED BY <2>1, <2>2, <3>1, <3>2, SeamFacts
  <2>6. OptEndOfLine(wire.bytes, p) = p + 2
    <3>1. p \in 0..L /\ p # L /\ p + 1 # L /\ p + 2 = b[nul + 2]
      BY <1>1, <2>3, <2>4, <2>5
    <3> QED BY <1>1, <2>2, <2>3, <3>1, EndOfLineSymbols, SymbolsApart
  <2>7. OptEndOfLine(wire.bytes, p) = b[e] /\ OptEndOfLine(wire.bytes, p) # p
    <3>1. p + 2 = b[nul + 2] /\ p + 2 # p
      BY <1>1, <2>3, <2>4, <2>5
    <3> QED BY <1>9, <2>6, <3>1
  <2> QED BY <1>7, <2>3, <2>7
<1> QED BY <1>4, <1>5, <1>8, <1>9

\* The only NUL of the stream that ends a frame and is taken with it is its own.
LEMMA TakesOneEnd ==
  ASSUME Sent, NEW b, InOrder(b), Stop(Text(b)) >= 0, NEW k \in 1..Len(sent),
         b[Start(Text(b)) + 1] = sent[k].first,
         b[BodyStop(Text(b)) + 1] = sent[k].last,
         NEW j \in 1..Len(sent), NEW i \in 1..Stop(Text(b)), b[i] = sent[j].last
  PROVE  j = k
<1> DEFINE c   == Text(b)
           st  == Start(c)
           nul == BodyStop(c) + 1
           e   == Stop(c)
           L   == Len(wire.bytes)
<1>1. /\ c \in Seq(STRING) /\ Len(c) = Len(b) /\ Len(b) \in Nat /\ L \in Nat
      /\ Len(sent) \in Nat
      /\ \A h \in 1..Len(b) : b[h] \in 1..L /\ c[h] = wire.bytes[b[h]]
      /\ \A h, l \in 1..Len(b) : h < l => b[h] < b[l]
  BY TextSymbols, SentOrder DEF InOrder
<1>2. /\ st \in Nat /\ nul \in 1..Len(b) /\ st + 1 < nul /\ e = OptEndOfLine(c, nul)
      /\ e \in nul..Len(b) /\ st = OptEndOfLine(c, 0)
  <2>1. /\ st \in 0..Len(c) /\ BodyStop(c) \in (st + 1)..(Len(c) - 1)
        /\ e = OptEndOfLine(c, nul) /\ e \in nul..Len(c)
    BY <1>1, FoundInOrder
  <2>2. st = OptEndOfLine(c, 0)
    BY DEF Start
  <2> HIDE DEF c, e, st
  <2> QED BY <1>1, <2>1, <2>2, SMTT(30)
<1>3. i \in 1..e /\ b[st + 1] = sent[k].first /\ b[nul] = sent[k].last
  OBVIOUS
<1> HIDE DEF c, nul, e, st
<1>4. i \in 1..Len(b) /\ c[i] = NUL
  <2>1. i \in 1..Len(b)
    BY <1>1, <1>2, <1>3
  <2> QED BY <1>1, <2>1, SentOrder
<1>5. ~ (i <= st)
  <2>1. \/ st = 0
        \/ st = 1 /\ c[1] = LF
        \/ st = 2 /\ c[1] = CR /\ c[2] = LF
    <3>1. 0 \in 0..Len(c) /\ Len(c) \in Nat
      BY <1>1
    <3> QED BY <1>2, <3>1, EndOfLineSymbols
  <2> QED BY <1>3, <1>4, <2>1, SymbolsApart
<1>6. ~ (i > nul)
  <2>1. \/ e = nul
        \/ e = nul + 1 /\ c[nul + 1] = LF
        \/ e = nul + 2 /\ c[nul + 1] = CR /\ c[nul + 2] = LF
    <3>1. nul \in 0..Len(c) /\ Len(c) \in Nat
      BY <1>1, <1>2
    <3> QED BY <1>2, <3>1, EndOfLineSymbols
  <2>2. i > nul => (i = nul + 1 /\ e # nul) \/ (i = nul + 2 /\ e = nul + 2)
    <3>1. i \in Int /\ nul \in Int /\ i <= e /\ e \in {nul, nul + 1, nul + 2}
      BY <1>1, <1>2, <1>3, <1>4, <2>1
    <3> QED BY <3>1
  <2> QED BY <1>4, <2>1, <2>2, SymbolsApart
<1>7. sent[k].first <= sent[j].last /\ sent[j].last <= sent[k].last
  <2>1. st + 1 \in 1..Len(b) /\ (st + 1 = i \/ st + 1 < i) /\ (i = nul \/ i < nul)
        /\ nul \in 1..Len(b)
    BY <1>1, <1>2, <1>4, <1>5, <1>6, SMTT(30)
  <2>2. b[st + 1] \in Int /\ b[i] \in Int /\ b[nul] \in Int
    BY <1>1, <1>4, <2>1
  <2>3. b[st + 1] <= b[i] /\ b[i] <= b[nul]
    BY <1>1, <1>4, <2>1, <2>2
  <2> QED BY <1>3, <2>3
<1>8. /\ sent[k].first \in Int /\ sent[k].last \in Int
      /\ sent[j].first \in Int /\ sent[j].last \in Int /\ sent[j].first <= sent[j].last
  <2> DEFINE kf == sent[k].first
             kl == sent[k].last
             kn == sent[k].next
             jf == sent[j].first
             jl == sent[j].last
             jn == sent[j].next
  <2>1. /\ kf \in 1..kl /\ kl \in 1..kn /\ kn \in 1..L
        /\ jf \in 1..jl /\ jl \in 1..jn /\ jn \in 1..L
    BY SentOrder
  <2> HIDE DEF kf, kl, kn, jf, jl, jn
  <2>2. kf \in Int /\ kl \in Int /\ jf \in Int /\ jl \in Int /\ jf <= jl
    BY <1>1, <2>1
  <2> QED BY <2>2 DEF kf, kl, jf, jl
<1>9. CASE j < k
  BY <1>7, <1>8, <1>9, SentApart
<1>10. CASE k < j
  <2>1. sent[k].last < sent[j].first
    BY <1>10, SentApart
  <2> QED BY <1>7, <1>8, <2>1
<1> QED BY <1>1, <1>9, <1>10

-----------------------------------------------------------------------------
(***************************************************************************)
(* WireReader: its invariant.                                              *)
(***************************************************************************)

\* What the invariant says of the stream.
LEMMA SentHolds == ASSUME TypeOK, Buffered PROVE Sent /\ Len(wire.bytes) \in Nat
<1>1. wire.bytes \in Seq(STRING)
  BY WiresAssumption DEF TypeOK
<1> QED BY <1>1 DEF Sent, Buffered

\* A sequence of members of a smaller set.
LEMMA SeqNarrowed ==
  ASSUME NEW S, NEW T, NEW s \in Seq(S), \A i \in 1..Len(s) : s[i] \in T
  PROVE  s \in Seq(T)
OBVIOUS

\* The buffer with what the next read returns behind it.
LEMMA GrownFacts ==
  ASSUME TypeOK, Buffered, NEW got \in arrived..Len(wire.bytes), NEW g, g = Grown(got)
  PROVE  /\ got \in Nat /\ arrived \in Nat /\ arrived <= got
         /\ g \in Seq(Nat) /\ Len(g) \in Nat /\ InOrder(g)
         /\ \A i \in 1..Len(g) : g[i] \in 1..got
         /\ Offsets(g) \subseteq 1..got /\ lost \cap Offsets(g) = {} /\ lost \subseteq 1..arrived
         /\ Consumed = (1..got) \ (lost \cup Offsets(g))
         /\ \A o \in Consumed : \A i \in 1..Len(g) : o < g[i]
<1> DEFINE m == Len(buffer)
           d == got - arrived
           L == Len(wire.bytes)
<1>1. /\ arrived \in 0..L /\ L \in Nat /\ buffer \in Seq(Nat) /\ m \in Nat /\ got \in 0..L /\ d \in Nat
      /\ got = arrived + d
  BY SentHolds DEF TypeOK, Buffered
<1>2. \A i \in 1..m : buffer[i] \in 1..arrived
  BY DEF TypeOK, Offsets
<1>3. Chunk(got) \in Seq(Nat) /\ Len(Chunk(got)) = d /\ \A i \in 1..d : Chunk(got)[i] = arrived + i
  <2>1. Chunk(got) = [i \in 1..d |-> arrived + i]
    BY DEF Chunk
  <2> HIDE DEF d
  <2>2. \A i \in 1..d : arrived + i \in Nat
    BY <1>1
  <2> QED BY <1>1, <2>1, <2>2
<1>4. /\ g \in Seq(Nat) /\ Len(g) = m + d
      /\ \A i \in 1..m : g[i] = buffer[i]
      /\ \A i \in 1..d : g[m + i] = arrived + i
  <2>1. g = buffer \o Chunk(got)
    BY DEF Grown
  <2>2. /\ buffer \o Chunk(got) \in Seq(Nat)
        /\ Extends(buffer, buffer \o Chunk(got))
        /\ Len(buffer \o Chunk(got)) = m + Len(Chunk(got))
        /\ \A i \in 1..Len(Chunk(got)) : (buffer \o Chunk(got))[m + i] = Chunk(got)[i]
    <3> DEFINE h == Chunk(got)
    <3>1. buffer \in Seq(Nat) /\ h \in Seq(Nat)
      BY <1>1, <1>3
    <3> HIDE DEF h, d, L
    <3>2. /\ buffer \o h \in Seq(Nat) /\ Extends(buffer, buffer \o h)
          /\ Len(buffer \o h) = m + Len(h)
          /\ \A i \in 1..Len(h) : (buffer \o h)[m + i] = h[i]
      BY ONLY <3>1, ExtendsAppended
    <3> QED BY <3>2 DEF h
  <2> QED BY <1>3, <2>1, <2>2 DEF Extends
<1> HIDE DEF m, d, L
<1>5. ASSUME NEW i \in 1..Len(g)
      PROVE  \/ i \in 1..m /\ g[i] = buffer[i] /\ g[i] \in 1..arrived
             \/ i - m \in 1..d /\ g[i] = arrived + (i - m)
  <2>1. CASE i <= m
    <3>1. i \in 1..m
      BY <1>1, <2>1
    <3> QED BY <1>2, <1>4, <3>1
  <2>2. CASE i > m
    <3>1. i - m \in 1..d /\ m + (i - m) = i
      BY <1>1, <1>4, <2>2
    <3> QED BY <1>4, <3>1
  <2> QED BY <1>1, <2>1, <2>2
<1>6. \A i \in 1..Len(g) : g[i] \in 1..got
  BY <1>1, <1>5
<1>7. ASSUME NEW i \in 1..Len(g), NEW j \in 1..Len(g), i < j PROVE g[i] < g[j]
  <2>1. CASE i \in 1..m /\ j \in 1..m
    BY <1>4, <1>7, <2>1 DEF TypeOK, m
  <2>2. CASE j \notin 1..m
    BY <1>1, <1>5, <1>7, <2>2
  <2> QED BY <1>1, <1>7, <2>1, <2>2
<1>8. InOrder(g)
  <2>1. \A i \in 1..Len(g) : g[i] \in 1..L
    BY <1>1, <1>6
  <2>2. g \in Seq(1..L)
    <3>1. g \in Seq(Nat)
      BY <1>4
    <3> QED BY <2>1, <3>1, SeqNarrowed
  <2> QED BY <1>7, <2>2 DEF InOrder, L
<1>9. Offsets(g) = Offsets(buffer) \cup ((arrived + 1)..got)
  <2>1. \A o \in Offsets(g) : o \in Offsets(buffer) \cup ((arrived + 1)..got)
    <3> SUFFICES ASSUME NEW i \in 1..Len(g)
                 PROVE  g[i] \in Offsets(buffer) \cup ((arrived + 1)..got)
      BY DEF Offsets
    <3> QED BY <1>1, <1>5, SMTT(30) DEF Offsets, m
  <2>2. \A i \in 1..m : buffer[i] \in Offsets(g)
    <3>1. \A i \in 1..m : i \in 1..Len(g) /\ g[i] = buffer[i]
      BY <1>1, <1>4
    <3> QED BY <3>1 DEF Offsets
  <2>3. ASSUME NEW o \in (arrived + 1)..got PROVE o \in Offsets(g)
    <3>1. o - arrived \in 1..d /\ m + (o - arrived) \in 1..Len(g) /\ arrived + (o - arrived) = o
      BY <1>1, <1>4
    <3>2. g[m + (o - arrived)] = o
      BY <1>4, <3>1
    <3> QED BY <3>1, <3>2 DEF Offsets
  <2>4. \A o \in Offsets(buffer) : o \in Offsets(g)
    BY <2>2 DEF Offsets, m
  <2> QED BY <2>1, <2>3, <2>4
<1>10. lost \subseteq 1..arrived /\ lost \cap Offsets(buffer) = {} /\ Offsets(buffer) \subseteq 1..arrived
  BY DEF TypeOK
<1>11. /\ Offsets(g) \subseteq 1..got /\ lost \cap Offsets(g) = {}
       /\ Consumed = (1..got) \ (lost \cup Offsets(g))
  <2>1. Offsets(g) \subseteq 1..got
    BY <1>6 DEF Offsets
  <2>2. \A o \in lost : o \notin (arrived + 1)..got
    BY <1>1, <1>10
  <2>3. \A o : o \in 1..got /\ o \notin (arrived + 1)..got <=> o \in 1..arrived
    BY <1>1
  <2> QED BY <1>9, <1>10, <2>1, <2>2, <2>3 DEF Consumed
<1>12. ASSUME NEW o \in Consumed, NEW i \in 1..Len(g) PROVE o < g[i]
  <2>1. o \in 1..arrived /\ \A h \in 1..m : o < buffer[h]
    BY DEF Consumed, Buffered, m
  <2> QED BY <1>1, <1>5, <2>1
<1> QED BY <1>1, <1>4, <1>6, <1>8, <1>10, <1>11, <1>12

\* With the offsets of C consumed, nothing of the first got is torn for good.
Untorn(got, C) ==
    \A o \in 0..got :
        o \in Seams \/ ~ ((o \in lost /\ o + 1 \in C) \/ (o \in C /\ o + 1 \in lost))

\* What is at the front of a buffer is clean, unless that would tear something
\* for good.
LEMMA CleanFront ==
  ASSUME TypeOK, Buffered, WholeFrames, NEW got \in arrived..Len(wire.bytes),
         NEW g, g = Grown(got), NEW e \in 1..Len(g),
         NEW C, C = Consumed \cup {g[i] : i \in 1..e}, Untorn(got, C)
  PROVE  Clean(g, e)
<1> DEFINE L == Len(wire.bytes)
<1>1. /\ Sent /\ InOrder(g) /\ L \in Nat /\ Len(g) \in Nat /\ got \in 0..L
      /\ \A i \in 1..Len(g) : g[i] \in 1..got
      /\ \A i, j \in 1..Len(g) : i < j => g[i] < g[j]
      /\ Consumed = (1..got) \ (lost \cup Offsets(g))
      /\ lost \cap Offsets(g) = {}
      /\ \A o \in Consumed : \A i \in 1..Len(g) : o < g[i]
  BY SentHolds, GrownFacts, SMTT(30) DEF InOrder
<1>2. ASSUME NEW i \in 1..(e - 1), g[i + 1] # g[i] + 1
      PROVE  g[i] \in Seams /\ g[i + 1] - 1 \in Seams
  <2>1. i \in 1..e /\ i + 1 \in 1..e /\ i \in 1..Len(g) /\ i + 1 \in 1..Len(g) /\ i < i + 1
    BY <1>1
  <2>2. g[i] \in 1..got /\ g[i + 1] \in 1..got /\ g[i] < g[i + 1] /\ g[i] \in C /\ g[i + 1] \in C
    BY <1>1, <2>1
  <2>3. g[i] + 1 < g[i + 1]
    BY <1>1, <1>2, <2>2, SMTT(30)
  <2>4. ASSUME NEW o \in (g[i] + 1)..(g[i + 1] - 1) PROVE o \in lost
    <3>1. o \in 1..got /\ g[i] < o /\ o < g[i + 1]
      <4> DEFINE x == g[i]
                 y == g[i + 1]
      <4>1. x \in 1..got /\ y \in 1..got /\ got \in Nat /\ o \in (x + 1)..(y - 1)
        BY <1>1, <2>2
      <4> HIDE DEF x, y
      <4>2. o \in 1..got /\ x < o /\ o < y
        BY <4>1
      <4> QED BY <4>2 DEF x, y
    <3>2. ASSUME NEW j \in 1..Len(g), g[j] = o PROVE FALSE
      <4>1. j <= i \/ i + 1 <= j
        BY <1>1, <2>1
      <4>2. CASE j <= i
        <5>1. g[j] <= g[i]
          <6>1. g[j] \in 1..got /\ (j = i \/ j < i)
            BY <1>1, <2>1, <4>2
          <6>2. j < i => g[j] < g[i]
            BY <1>1, <2>1
          <6> QED BY <1>1, <2>2, <6>1, <6>2
        <5> QED BY <1>1, <2>2, <3>1, <3>2, <5>1
      <4>3. CASE i + 1 <= j
        <5>1. g[i + 1] <= g[j]
          <6>1. g[j] \in 1..got /\ (j = i + 1 \/ i + 1 < j)
            BY <1>1, <2>1, <4>3
          <6>2. i + 1 < j => g[i + 1] < g[j]
            BY <1>1, <2>1
          <6> QED BY <1>1, <2>2, <6>1, <6>2
        <5> QED BY <1>1, <2>2, <3>1, <3>2, <5>1
      <4> QED BY <4>1, <4>2, <4>3
    <3>3. o \notin Consumed
      BY <1>1, <2>1, <2>2, <3>1
    <3> QED BY <1>1, <3>1, <3>2, <3>3 DEF Offsets
  <2>5. g[i] + 1 \in lost /\ g[i + 1] - 1 \in lost /\ (g[i + 1] - 1) + 1 = g[i + 1]
        /\ g[i] \in 0..got /\ g[i + 1] - 1 \in 0..got
    <3>1. g[i] + 1 \in (g[i] + 1)..(g[i + 1] - 1) /\ g[i + 1] - 1 \in (g[i] + 1)..(g[i + 1] - 1)
          /\ (g[i + 1] - 1) + 1 = g[i + 1] /\ g[i] \in 0..got /\ g[i + 1] - 1 \in 0..got
      <4> DEFINE x == g[i]
                 y == g[i + 1]
      <4>1. x \in 1..got /\ y \in 1..got /\ x + 1 < y /\ got \in Nat
        BY <1>1, <2>2, <2>3
      <4> HIDE DEF x, y
      <4>2. /\ x + 1 \in (x + 1)..(y - 1) /\ y - 1 \in (x + 1)..(y - 1)
            /\ (y - 1) + 1 = y /\ x \in 0..got /\ y - 1 \in 0..got
        BY <4>1
      <4> QED BY <4>2 DEF x, y
    <3> QED BY <2>4, <3>1
  <2> QED BY <2>2, <2>5 DEF Untorn
<1>3. g[1] - 1 \in Ends
  <2> DEFINE o == g[1] - 1
  <2>1. 1 \in 1..Len(g) /\ 1 \in 1..e
    BY <1>1
  <2>2. g[1] \in 1..got /\ g[1] \in C /\ o \in 0..got /\ o + 1 = g[1] /\ o < L
    BY <1>1, <2>1
  <2> HIDE DEF o
  <2>3. o + 1 \notin Consumed
    <3>1. g[1] \in Offsets(g)
      BY <2>1 DEF Offsets
    <3> QED BY <1>1, <2>2, <3>1
  <2>4. CASE o \in Consumed \cup {0}
    BY <2>3, <2>4 DEF WholeFrames, o
  <2>5. CASE o \notin Consumed \cup {0}
    <3>1. \A j \in 1..Len(g) : g[j] # o
      <4> SUFFICES ASSUME NEW j \in 1..Len(g) PROVE g[j] # o
        OBVIOUS
      <4>1. g[1] <= g[j]
        BY <1>1, <2>1
      <4>2. g[j] \in 1..got
        BY <1>1
      <4> QED BY <1>1, <2>2, <4>1, <4>2
    <3>2. o \in lost
      <4>1. o \in 1..got
        BY <1>1, <2>2, <2>5
      <4> QED BY <1>1, <2>5, <3>1, <4>1 DEF Offsets
    <3>3. o \in Seams /\ o # 0 /\ o # L
      BY <1>1, <2>2, <2>5, <3>2 DEF Untorn
    <3>4. o \in Ends
      BY <1>1, <3>3, SeamFacts
    <3> QED BY <3>4 DEF o
  <2> QED BY <2>4, <2>5
<1> QED BY <1>2, <1>3 DEF Clean

\* The frame at the front of g is the one sent frame that C has over what was
\* consumed before, and C ends where frames do.
TakesFrame(g, C) ==
    /\ \A o \in C \cup {0} : o + 1 \in C \/ o \in Ends
    /\ \E k \in 1..Len(sent) :
         /\ g[Start(Text(g)) + 1] = sent[k].first
         /\ g[BodyStop(Text(g)) + 1] = sent[k].last
         /\ sent[k].last \in C
         /\ sent[k].last \notin Consumed
         /\ \A j \in 1..Len(sent) : sent[j].last \in C => j = k \/ sent[j].last \in Consumed

\* What a completed parse takes out of a buffer, without tearing anything for
\* good, is the next frame.
LEMMA FrameTaken ==
  ASSUME TypeOK, Buffered, WholeFrames, NEW got \in arrived..Len(wire.bytes),
         NEW g, g = Grown(got), NEW e, e = Stop(Text(g)), e >= 0,
         NEW C, C = Consumed \cup {g[i] : i \in 1..e}, Untorn(got, C)
  PROVE  TakesFrame(g, C)
<1> DEFINE c == Text(g)
           L == Len(wire.bytes)
<1>1. /\ Sent /\ InOrder(g) /\ L \in Nat /\ Len(g) \in Nat /\ got \in 0..L
      /\ \A i \in 1..Len(g) : g[i] \in 1..got
      /\ \A i, j \in 1..Len(g) : i < j => g[i] < g[j]
      /\ Consumed = (1..got) \ (lost \cup Offsets(g))
      /\ lost \cap Offsets(g) = {}
      /\ \A o \in Consumed : \A i \in 1..Len(g) : o < g[i]
  BY SentHolds, GrownFacts DEF InOrder
<1>2. /\ BodyStop(c) + 1 \in 1..e /\ Start(c) + 1 \in 1..e /\ e \in 1..Len(g) /\ Stop(c) >= 0
  <2>1. Len(c) = Len(g) /\ Len(c) \in Nat /\ Stop(c) >= 0 /\ Stop(c) = e
    BY <1>1, TextSymbols
  <2>2. /\ Start(c) \in 0..Len(c) /\ BodyStop(c) \in (Start(c) + 1)..(Len(c) - 1)
        /\ e \in (BodyStop(c) + 1)..Len(c)
    BY <2>1, FoundInOrder
  <2> HIDE DEF c
  <2> QED BY <1>1, <2>1, <2>2
<1>4. Clean(g, e)
  BY <1>2, CleanFront
<1>5. Clean(g, BodyStop(c) + 1)
  <2>1. \A i \in 1..((BodyStop(c) + 1) - 1) : i \in 1..(e - 1)
    BY <1>1, <1>2
  <2> QED BY <1>4, <2>1 DEF Clean
<1>6. PICK k \in 1..Len(sent) :
         /\ g[Start(c) + 1] = sent[k].first
         /\ g[BodyStop(c) + 1] = sent[k].last
  BY <1>1, <1>2, <1>5, FindsSent
<1>7. g[e] \in Ends
  <2>1. g[Stop(c)] \in Ends
    BY <1>1, <1>2, <1>4, <1>6, EndsWhereSent
  <2> QED BY <2>1
<1>8. ASSUME NEW o \in C \cup {0}, o + 1 \notin C PROVE o \in Ends
  <2>1. CASE o \in Consumed \cup {0}
    BY <1>8, <2>1 DEF WholeFrames
  <2>2. CASE \E i \in 1..e : o = g[i]
    <3>1. PICK i \in 1..e : o = g[i]
      BY <2>2
    <3>2. CASE i = e
      BY <1>7, <3>1, <3>2
    <3>3. CASE i # e
      <4>1. i \in 1..(e - 1) /\ i + 1 \in 1..e /\ i \in 1..Len(g) /\ i + 1 \in 1..Len(g) /\ i < i + 1
        BY <1>1, <1>2, <3>3
      <4>2. g[i + 1] \in C
        BY <4>1
      <4>3. g[i] \in Seams
        BY <1>4, <1>8, <3>1, <4>1, <4>2 DEF Clean
      <4>4. g[i] # 0 /\ g[i] # L
        <5>1. g[i] \in 1..got /\ g[i + 1] \in 1..got /\ g[i] < g[i + 1]
          BY <1>1, <4>1
        <5> QED BY <1>1, <5>1
      <4> QED BY <1>1, <3>1, <4>3, <4>4, SeamFacts
    <3> QED BY <3>2, <3>3
  <2> QED BY <2>1, <2>2
<1>9. sent[k].last \in C /\ sent[k].last \notin Consumed
  <2>1. g[BodyStop(c) + 1] \in Offsets(g)
    <3>1. BodyStop(c) + 1 \in 1..Len(g)
      BY <1>1, <1>2
    <3> QED BY <3>1 DEF Offsets
  <2> QED BY <1>1, <1>2, <1>6, <2>1
<1>10. ASSUME NEW j \in 1..Len(sent), sent[j].last \in C, sent[j].last \notin Consumed
       PROVE  j = k
  <2>1. PICK i \in 1..e : sent[j].last = g[i]
    BY <1>10
  <2>2. i \in 1..Stop(c)
    OBVIOUS
  <2> QED BY <1>1, <1>2, <1>6, <2>1, <2>2, TakesOneEnd
<1> QED BY <1>6, <1>8, <1>9, <1>10 DEF TakesFrame

\* The invariant holds at first, when nothing has arrived.
LEMMA WireInit == Init => WireInv
<1> SUFFICES ASSUME Init PROVE WireInv
  OBVIOUS
<1>1. TypeOK
  <2>1. wire \in Wires /\ wire.bytes \in Seq(STRING)
    BY WiresAssumption DEF Init
  <2>2. Len(wire.bytes) \in Nat
    BY <2>1
  <2>3. /\ arrived = 0 /\ told = {} /\ buffer = << >> /\ closed = FALSE
        /\ call = "idle" /\ result = "none" /\ lost = {}
    BY DEF Init
  <2>4. Len(buffer) = 0 /\ Offsets(buffer) = {}
    BY <2>3 DEF Offsets
  <2>5. \A i, j \in 1..Len(buffer) : i < j => buffer[i] < buffer[j]
    BY <2>4
  <2>6. /\ arrived \in 0..Len(wire.bytes) /\ told \subseteq wire.asides
        /\ lost \cup Offsets(buffer) \subseteq 1..arrived /\ lost \cap Offsets(buffer) = {}
    BY <2>2, <2>3, <2>4
  <2>7. closed \in BOOLEAN /\ call \in {"idle", "reading"} /\ result = "none"
    BY <2>3
  <2> QED BY <2>1, <2>5, <2>6, <2>7 DEF TypeOK
<1>2. Buffered /\ Consumed = {} /\ Reports = {}
  BY DEF Init, Buffered, Consumed, Reports
<1>3. 0 \in Ends
  <2>1. Sent
    BY <1>1, <1>2, SentHolds
  <2> QED BY <2>1, SentOrder DEF Ends
<1>4. \A k \in 1..Len(sent) : sent[k].last \notin Consumed
  BY <1>2
<1> QED BY <1>1, <1>2, <1>3, <1>4 DEF WireInv, WholeFrames

\* What is torn for good stays torn.
LEMMA TornLater ==
  ASSUME TornForGood, UNCHANGED <<wire, sent>>, arrived \in Nat, arrived' \in Nat,
         arrived <= arrived', lost \subseteq lost', Consumed \subseteq Consumed'
  PROVE  TornForGood'
<1>1. Seams' = Seams
  BY DEF Seams
<1>2. PICK o \in 0..arrived : /\ o \notin Seams
                              /\ \/ o \in lost /\ o + 1 \in Consumed
                                 \/ o \in Consumed /\ o + 1 \in lost
  BY DEF TornForGood
<1>3. o \in 0..arrived'
  OBVIOUS
<1> QED BY <1>1, <1>2, <1>3 DEF TornForGood

\* A step that consumes nothing and reports no frame.
LEMMA NothingTaken ==
  ASSUME TornForGood \/ WholeFrames, UNCHANGED <<wire, sent>>, arrived \in Nat, arrived' \in Nat,
         arrived <= arrived', lost \subseteq lost', Consumed' = Consumed,
         Reports' = Reports, \A i \in Reports : reported'[i] = reported[i]
  PROVE  (TornForGood \/ WholeFrames)'
<1>1. CASE TornForGood
  BY <1>1, TornLater
<1>2. CASE WholeFrames
  <2>1. Ends' = Ends
    BY DEF Ends, Position
  <2>2. \A o \in Consumed' \cup {0} : o + 1 \in Consumed' \/ o \in Ends'
    BY <1>2, <2>1 DEF WholeFrames
  <2>3. \A k \in 1..Len(sent') :
          sent'[k].last \in Consumed' => \E i \in Reports' : reported'[i].last = sent'[k].last
    BY <1>2 DEF WholeFrames
  <2>4. \A i \in Reports' :
          \E k \in 1..Len(sent') : /\ reported'[i].first = sent'[k].first
                                   /\ reported'[i].last = sent'[k].last
                                   /\ sent'[k].last \in Consumed'
    <3> SUFFICES ASSUME NEW i \in Reports
                 PROVE \E k \in 1..Len(sent) : /\ reported'[i].first = sent[k].first
                                               /\ reported'[i].last = sent[k].last
                                               /\ sent[k].last \in Consumed
      OBVIOUS
    <3>1. reported'[i] = reported[i]
      OBVIOUS
    <3> QED BY <1>2, <3>1 DEF WholeFrames
  <2>5. \A i, j \in Reports' : i < j => reported'[i].last < reported'[j].last
    BY <1>2 DEF WholeFrames
  <2> QED BY <2>2, <2>3, <2>4, <2>5 DEF WholeFrames
<1> QED BY <1>1, <1>2

\* The offsets that a parse leaves in the buffer.
LEMMA RestOffsets ==
  ASSUME NEW g \in Seq(Nat), NEW e \in 1..Len(g)
  PROVE  /\ Rest(g, e) \in Seq(Nat) /\ Len(Rest(g, e)) = Len(g) - e
         /\ \A i \in 1..(Len(g) - e) : Rest(g, e)[i] = g[e + i] /\ e + i \in 1..Len(g)
         /\ Offsets(Rest(g, e)) = {g[i] : i \in (e + 1)..Len(g)}
<1> DEFINE f == Rest(g, e)
<1>1. /\ f \in Seq(Nat) /\ Len(f) = Len(g) - e
      /\ \A i \in 1..(Len(g) - e) : f[i] = g[e + i]
  <2>1. e \in 0..Len(g)
    OBVIOUS
  <2> QED BY <2>1, RestSymbols
<1> HIDE DEF f
<1>2. \A i \in 1..(Len(g) - e) : e + i \in 1..Len(g)
  OBVIOUS
<1>3. Offsets(f) = {f[i] : i \in 1..(Len(g) - e)}
  BY <1>1 DEF Offsets
<1>4. \A i \in (e + 1)..Len(g) : i - e \in 1..(Len(g) - e) /\ e + (i - e) = i
  OBVIOUS
<1>5. ASSUME NEW i \in (e + 1)..Len(g) PROVE g[i] \in Offsets(f)
  <2>1. f[i - e] = g[e + (i - e)]
    BY <1>1, <1>4
  <2> QED BY <1>3, <1>4, <2>1
<1>6. \A i \in 1..(Len(g) - e) : e + i \in (e + 1)..Len(g)
  OBVIOUS
<1>7. \A o \in Offsets(f) : \E i \in (e + 1)..Len(g) : o = g[i]
  BY <1>1, <1>3, <1>6
<1>8. Offsets(f) = {g[i] : i \in (e + 1)..Len(g)}
  BY <1>5, <1>7
<1> QED BY <1>1, <1>2, <1>8 DEF f

\* A parse that has found a frame takes the front of the buffer, up to place
\* e, which is consumed, and leaves the rest.
Advances(g, e) ==
    /\ buffer' \in Seq(Nat) /\ Len(buffer') = Len(g) - e
    /\ \A i \in 1..(Len(g) - e) : buffer'[i] = g[e + i] /\ e + i \in 1..Len(g)
    /\ Offsets(buffer)' = {g[i] : i \in (e + 1)..Len(g)}
    /\ Consumed' = Consumed \cup {g[i] : i \in 1..e}

\* decode() advances the buffer behind what it has parsed.
LEMMA BufferAdvanced ==
  ASSUME TypeOK, Buffered, NEW got \in arrived..Len(wire.bytes),
         NEW g, g = Grown(got), NEW e \in 1..Len(g),
         buffer' = Rest(g, e), arrived' = got, lost' = lost
  PROVE  Advances(g, e)
<1>1. arrived' = got /\ lost' = lost /\ buffer' = Rest(g, e) /\ e \in 1..Len(g)
  OBVIOUS
<1>2. /\ got \in Nat /\ g \in Seq(Nat) /\ Len(g) \in Nat
      /\ \A i \in 1..Len(g) : g[i] \in 1..got
      /\ \A i, j \in 1..Len(g) : i < j => g[i] < g[j]
      /\ Offsets(g) \subseteq 1..got /\ lost \cap Offsets(g) = {}
      /\ Consumed = (1..got) \ (lost \cup Offsets(g))
  BY GrownFacts DEF InOrder
<1>3. /\ buffer' \in Seq(Nat) /\ Len(buffer') = Len(g) - e
      /\ \A i \in 1..(Len(g) - e) : buffer'[i] = g[e + i] /\ e + i \in 1..Len(g)
  <2>1. /\ Rest(g, e) \in Seq(Nat) /\ Len(Rest(g, e)) = Len(g) - e
        /\ \A i \in 1..(Len(g) - e) : Rest(g, e)[i] = g[e + i] /\ e + i \in 1..Len(g)
    BY <1>2, RestOffsets
  <2> QED BY <1>1, <2>1, Zenon
<1>4. Offsets(buffer)' = {g[i] : i \in (e + 1)..Len(g)}
  <2>1. Offsets(buffer)' = Offsets(buffer')
    BY DEF Offsets
  <2>2. Offsets(Rest(g, e)) = {g[i] : i \in (e + 1)..Len(g)}
    BY <1>2, RestOffsets
  <2> QED BY <1>1, <2>1, <2>2
<1>5. Consumed' = Consumed \cup {g[i] : i \in 1..e}
  <2>1. Offsets(g) = {g[i] : i \in 1..e} \cup {g[i] : i \in (e + 1)..Len(g)}
    <3>1. \A i \in 1..Len(g) : i \in 1..e \/ i \in (e + 1)..Len(g)
      BY <1>2, <1>1
    <3>2. \A i \in 1..e : i \in 1..Len(g)
      BY <1>2, <1>1
    <3>3. \A i \in (e + 1)..Len(g) : i \in 1..Len(g)
      BY <1>2, <1>1
    <3> QED BY <3>1, <3>2, <3>3 DEF Offsets
  <2>2. \A i \in 1..e, j \in (e + 1)..Len(g) : g[i] # g[j]
    <3> SUFFICES ASSUME NEW i \in 1..e, NEW j \in (e + 1)..Len(g) PROVE g[i] # g[j]
      OBVIOUS
    <3>1. i \in 1..Len(g) /\ j \in 1..Len(g) /\ i < j
      BY <1>2, <1>1
    <3>2. g[i] < g[j] /\ g[i] \in 1..got /\ g[j] \in 1..got
      BY <1>2, <1>2, <3>1
    <3> QED BY <1>2, <3>2
  <2>3. Consumed' = (1..got) \ (lost \cup {g[i] : i \in (e + 1)..Len(g)})
    BY <1>1, <1>4 DEF Consumed
  <2> QED BY <1>1, <1>2, <2>1, <2>2, <2>3
<1> QED BY <1>3, <1>4, <1>5 DEF Advances

\* The cases of a read.
ReadOutcome(got) ==
    \/ /\ Stop(Text(Grown(got))) < 0
       /\ buffer' = Grown(got)
       /\ UNCHANGED reported
       /\ call' \in {"idle", "reading"} /\ result' \in {"parser_error", result}
    \/ /\ Stop(Text(Grown(got))) >= 0
       /\ buffer' = SubSeq(Grown(got), Stop(Text(Grown(got))) + 1, Len(Grown(got)))
       /\ reported' = Append(reported, [what  |-> "frame",
                                        first |-> Grown(got)[Start(Text(Grown(got))) + 1],
                                        last  |-> Grown(got)[BodyStop(Text(Grown(got))) + 1]])
       /\ call' = "idle" /\ result' \in {"message", "conversion_error"}

\* Every read of bytes is one of the two cases.
LEMMA ReadCases ==
  ASSUME TypeOK, Buffered, ReadBinary
  PROVE  /\ UNCHANGED <<wire, sent, told, lost, closed>>
         /\ \E got \in arrived..Len(wire.bytes) :
              BytesArrive(got) /\ arrived' = got /\ ReadOutcome(got)
<1>1. PICK got \in arrived..Len(wire.bytes) :
        /\ BytesArrive(got)
        /\ \E parsed \in {ParseFrame(Text(Grown(got)))} : Decode(Grown(got), parsed)
  BY DEF ReadBinary
<1> DEFINE g == Grown(got)
           c == Text(g)
           e == Stop(c)
<1>2. Decode(g, ParseFrame(c)) /\ call = "reading" /\ arrived' = got
  BY <1>1 DEF ReadBinary, BytesArrive
<1>3. Len(c) \in Nat
  BY SentHolds, GrownFacts, TextSymbols
<1>4. ParseFrame(c).end = e /\ ParseFrame(c).start = Start(c) /\ ParseFrame(c).nul = BodyStop(c) + 1
  BY <1>3, ParseFrameDef, ParsedWhere
<1> HIDE DEF g, c, e
<1>5. e \in {NeedsMore, Fails} \cup (0..Len(c))
  BY <1>3, PartsRange DEF e
<1>6. ASSUME e < 0 PROVE ReadOutcome(got)
  <2>1. buffer' = g /\ UNCHANGED reported /\ call' \in {"idle", "reading"}
        /\ result' \in {"parser_error", result}
    <3>1. CASE e = NeedsMore
      BY <1>2, <1>4, <3>1 DEF Decode
    <3>2. CASE e = Fails
      <4>1. e # NeedsMore
        BY <3>2 DEF Fails, NeedsMore
      <4> QED BY <1>2, <1>4, <3>2, <4>1 DEF Decode, Return
    <3> QED BY <1>3, <1>5, <1>6, <3>1, <3>2
  <2> QED BY <1>6, <2>1 DEF ReadOutcome, e, c, g
<1>7. ASSUME e >= 0 PROVE ReadOutcome(got)
  <2>1. e # NeedsMore /\ e # Fails
    BY <1>7 DEF NeedsMore, Fails
  <2>2. call' = "idle" /\ result' \in {"message", "conversion_error"}
    BY <1>2, <1>4, <2>1 DEF Decode, Return
  <2>3. /\ buffer' = SubSeq(g, e + 1, Len(g))
        /\ reported' = Append(reported, [what  |-> "frame",
                                         first |-> g[Start(c) + 1],
                                         last  |-> g[BodyStop(c) + 1]])
    BY <1>2, <1>4, <2>1 DEF Decode
  <2> QED BY <1>7, <2>2, <2>3 DEF ReadOutcome, e, c, g
<1>8. e < 0 \/ e >= 0
  BY <1>3, <1>5 DEF NeedsMore, Fails
<1>9. UNCHANGED <<wire, sent, told, lost, closed>>
  BY DEF ReadBinary, peer, app
<1>10. ReadOutcome(got)
  BY <1>6, <1>7, <1>8
<1> QED BY <1>1, <1>2, <1>9, <1>10

\* The steps that change what has arrived or what is in the buffer.
LEMMA ReadKeeps ==
  ASSUME WireInv, ReadBinary
  PROVE  WireInv'
<1>1. PICK got \in arrived..Len(wire.bytes) :
         /\ TypeOK /\ Buffered /\ Sent /\ Len(wire.bytes) \in Nat
         /\ UNCHANGED <<wire, sent, told, lost, closed>>
         /\ arrived' = got /\ ReadOutcome(got)
  BY SentHolds, ReadCases DEF WireInv
<1> DEFINE g == Grown(got)
           c == Text(g)
           e == Stop(c)
<1>2. /\ got \in Nat /\ arrived \in Nat /\ arrived <= got /\ got \in 0..Len(wire.bytes)
      /\ g \in Seq(Nat) /\ Len(g) \in Nat /\ InOrder(g)
      /\ \A i \in 1..Len(g) : g[i] \in 1..got
      /\ Offsets(g) \subseteq 1..got /\ lost \cap Offsets(g) = {} /\ lost \subseteq 1..arrived
      /\ Consumed = (1..got) \ (lost \cup Offsets(g))
      /\ \A o \in Consumed : \A i \in 1..Len(g) : o < g[i]
  BY <1>1, GrownFacts
<1>3. Len(c) = Len(g) /\ Len(c) \in Nat
  BY <1>1, <1>2, TextSymbols
<1>4. \A i, j \in 1..Len(g) : i < j => g[i] < g[j]
  BY <1>2 DEF InOrder
<1> HIDE DEF g, c, e
<1>5. CASE buffer' = g /\ UNCHANGED reported
           /\ call' \in {"idle", "reading"} /\ result' \in {"parser_error", result}
  <2>1. Consumed' = Consumed /\ Reports' = Reports
    BY <1>1, <1>2, <1>5 DEF Consumed, Reports, Offsets
  <2>2. TypeOK'
    <3>1. \A i, j \in 1..Len(buffer') : i < j => buffer'[i] < buffer'[j]
      BY <1>4, <1>5
    <3>2. lost' \cup Offsets(buffer)' \subseteq 1..arrived' /\ lost' \cap Offsets(buffer)' = {}
      <4>1. Offsets(buffer)' = Offsets(g)
        BY <1>5 DEF Offsets
      <4>2. \A o \in 1..arrived : o \in 1..got
        BY <1>2
      <4>3. arrived' = got /\ lost' = lost
        BY <1>1
      <4> QED BY <1>2, <4>1, <4>2, <4>3
    <3> QED BY <1>1, <1>2, <1>5, <3>1, <3>2 DEF TypeOK
  <2>3. Buffered'
    BY <1>1, <1>2, <1>5, <2>1 DEF Buffered
  <2>4. (TornForGood \/ WholeFrames)'
    BY <1>1, <1>2, <1>5, <2>1, NothingTaken DEF WireInv
  <2> QED BY <2>2, <2>3, <2>4 DEF WireInv
<1>6. CASE /\ e >= 0
           /\ buffer' = SubSeq(g, e + 1, Len(g))
           /\ reported' = Append(reported, [what  |-> "frame",
                                            first |-> g[Start(c) + 1],
                                            last  |-> g[BodyStop(c) + 1]])
           /\ call' = "idle" /\ result' \in {"message", "conversion_error"}
  <2> DEFINE C == Consumed \cup {g[i] : i \in 1..e}
             new == [what |-> "frame", first |-> g[Start(c) + 1], last |-> g[BodyStop(c) + 1]]
             n == Len(reported)
  <2>1. /\ Start(c) + 1 \in 1..Len(g) /\ BodyStop(c) + 1 \in 1..Len(g)
        /\ BodyStop(c) + 1 \in 1..e /\ e \in 1..Len(g)
    <3>1. /\ Start(c) \in 0..Len(c) /\ BodyStop(c) \in (Start(c) + 1)..(Len(c) - 1)
          /\ e \in (BodyStop(c) + 1)..Len(c)
      BY <1>3, <1>6, FoundInOrder DEF e
    <3> QED BY <1>2, <1>3, <3>1, SMTT(30)
  <2>2. /\ buffer' \in Seq(Nat) /\ Len(buffer') = Len(g) - e
        /\ \A i \in 1..(Len(g) - e) : buffer'[i] = g[e + i] /\ e + i \in 1..Len(g)
        /\ Offsets(buffer)' = {g[i] : i \in (e + 1)..Len(g)}
        /\ Consumed' = C
    <3>1. /\ TypeOK /\ Buffered /\ g = Grown(got) /\ e \in 1..Len(g)
          /\ buffer' = Rest(g, e) /\ arrived' = got /\ lost' = lost
      BY <1>1, <1>6, <2>1 DEF g, Rest
    <3>2. got \in arrived..Len(wire.bytes)
      OBVIOUS
    <3> HIDE DEF C, new, n
    <3>3. Advances(g, e)
      BY <3>1, <3>2, BufferAdvanced
    <3> QED BY <3>3, Zenon DEF Advances, C
  <2>3. TypeOK'
    <3>1. ASSUME NEW i \in 1..Len(buffer'), NEW j \in 1..Len(buffer'), i < j
          PROVE  buffer'[i] < buffer'[j]
      <4>1. /\ e + i \in 1..Len(g) /\ e + j \in 1..Len(g) /\ e + i < e + j
            /\ buffer'[i] = g[e + i] /\ buffer'[j] = g[e + j]
        <5>1. i \in 1..(Len(g) - e) /\ j \in 1..(Len(g) - e) /\ e \in Nat /\ Len(g) \in Nat
          BY <1>2, <2>1, <2>2
        <5>2. i \in Nat /\ j \in Nat
          BY <5>1
        <5> QED BY <2>2, <3>1, <5>1, <5>2
      <4> QED BY <1>4, <4>1
    <3>2. Offsets(buffer)' \subseteq Offsets(g)
      <4>1. \A i \in (e + 1)..Len(g) : i \in 1..Len(g)
        BY <1>2, <2>1
      <4> QED BY <2>2, <4>1 DEF Offsets
    <3>3. lost' \cup Offsets(buffer)' \subseteq 1..arrived' /\ lost' \cap Offsets(buffer)' = {}
      <4>1. \A o \in 1..arrived : o \in 1..got
        BY <1>2
      <4>2. arrived' = got /\ lost' = lost
        BY <1>1
      <4> QED BY <1>2, <3>2, <4>1, <4>2
    <3> QED BY <1>1, <1>2, <1>6, <3>1, <3>3 DEF TypeOK, Offsets
  <2>4. /\ n \in Nat /\ Len(reported') = n + 1 /\ reported'[n + 1] = new
        /\ \A i \in 1..n : reported'[i] = reported[i]
        /\ reported' \in Seq([what : {"frame", "custom"}, first : Nat, last : Nat])
    <3>1. new \in [what : {"frame", "custom"}, first : Nat, last : Nat]
      BY <1>2, <2>1
    <3>2. reported \in Seq([what : {"frame", "custom"}, first : Nat, last : Nat])
      BY <1>1 DEF Buffered
    <3> HIDE DEF new
    <3> QED BY <1>6, <3>1, <3>2 DEF new
  <2>5. Buffered'
    <3>1. ASSUME NEW o \in C, NEW i \in 1..Len(buffer') PROVE o < buffer'[i]
      <4>1. e + i \in 1..Len(g) /\ buffer'[i] = g[e + i]
        BY <2>2
      <4>2. CASE o \in Consumed
        BY <1>2, <4>1, <4>2
      <4>3. CASE \E j \in 1..e : o = g[j]
        <5>1. PICK j \in 1..e : o = g[j]
          BY <4>3
        <5>2. j \in 1..Len(g) /\ j < e + i
          <6>1. i \in 1..(Len(g) - e) /\ e \in 1..Len(g) /\ Len(g) \in Nat
            BY <1>2, <2>1, <2>2
          <6> QED BY <5>1, <6>1
        <5> QED BY <1>4, <4>1, <5>1, <5>2
      <4> QED BY <4>2, <4>3
    <3> HIDE DEF C
    <3> QED BY <1>1, <2>2, <2>4, <3>1 DEF Buffered
  <2>6. CASE TornForGood
    <3>1. Consumed \subseteq Consumed'
      BY <2>2
    <3> QED BY <1>1, <1>2, <2>3, <2>5, <2>6, <3>1, TornLater DEF WireInv
  <2>7. CASE WholeFrames /\ ~ TornForGood'
    <3>1. Untorn(got, C)
      <4>1. Seams' = Seams
        BY <1>1 DEF Seams
      <4> HIDE DEF C
      <4> QED BY <1>1, <2>2, <2>7, <4>1 DEF TornForGood, Untorn
    <3>2. TakesFrame(g, C)
      <4>1. e = Stop(Text(g)) /\ g = Grown(got) /\ C = Consumed \cup {g[i] : i \in 1..e}
        BY DEF e, c, g
      <4>2. got \in arrived..Len(wire.bytes)
        OBVIOUS
      <4> HIDE DEF C
      <4> QED BY <1>1, <1>6, <2>7, <3>1, <4>1, <4>2, FrameTaken
    <3> HIDE DEF C
    <3>3. PICK k \in 1..Len(sent) :
            /\ new.first = sent[k].first
            /\ new.last = sent[k].last
            /\ sent[k].last \in C
            /\ sent[k].last \notin Consumed
            /\ \A j \in 1..Len(sent) : sent[j].last \in C => j = k \/ sent[j].last \in Consumed
      <4>1. c = Text(g)
        BY DEF c
      <4> QED BY <3>2, <4>1 DEF TakesFrame
    <3>4. /\ Reports' = Reports \cup {n + 1} /\ Reports \subseteq 1..n
          /\ \A i \in Reports : reported'[i] = reported[i] /\ i < n + 1 /\ i # n + 1
          /\ reported'[n + 1] = new
      <4>1. new.what = "frame"
        OBVIOUS
      <4> HIDE DEF new, n
      <4>2. Reports = {i \in 1..n : reported[i].what = "frame"}
        BY DEF Reports, n
      <4>3. Reports' = {i \in 1..(n + 1) : reported'[i].what = "frame"}
        BY <2>4 DEF Reports
      <4> QED BY <2>4, <4>1, <4>2, <4>3, SMTT(30)
    <3>5. Ends' = Ends /\ Consumed \subseteq C
      BY <1>1 DEF Ends, Position, C
    <3>6. \A o \in Consumed' \cup {0} : o + 1 \in Consumed' \/ o \in Ends'
      BY <2>2, <3>2, <3>5 DEF TakesFrame
    <3> HIDE DEF n, new
    <3>7. ASSUME NEW j \in 1..Len(sent), sent[j].last \in C
          PROVE  \E i \in Reports' : reported'[i].last = sent[j].last
      <4>1. CASE sent[j].last \in Consumed
        <5>1. PICK i \in Reports : reported[i].last = sent[j].last
          BY <2>7, <4>1 DEF WholeFrames
        <5>2. i \in Reports' /\ reported'[i] = reported[i]
          BY <3>4, <5>1
        <5> QED BY <5>1, <5>2
      <4>2. CASE j = k
        BY <3>3, <3>4, <4>2
      <4> QED BY <3>3, <3>7, <4>1, <4>2
    <3>8. ASSUME NEW i \in Reports'
          PROVE  \E j \in 1..Len(sent) : /\ reported'[i].first = sent[j].first
                                         /\ reported'[i].last = sent[j].last
                                         /\ sent[j].last \in C
      <4>1. CASE i \in Reports
        <5>1. PICK j \in 1..Len(sent) : /\ reported[i].first = sent[j].first
                                        /\ reported[i].last = sent[j].last
                                        /\ sent[j].last \in Consumed
          BY <2>7, <4>1 DEF WholeFrames
        <5>2. sent[j].last \in C /\ reported'[i] = reported[i]
          BY <3>4, <3>5, <4>1, <5>1
        <5> QED BY <5>1, <5>2
      <4>2. CASE i = n + 1
        BY <3>3, <3>4, <4>2
      <4> QED BY <3>4, <4>1, <4>2
    <3>9. ASSUME NEW i \in Reports', NEW j \in Reports', i < j
          PROVE  reported'[i].last < reported'[j].last
      <4>1. CASE i \in Reports /\ j \in Reports
        BY <2>7, <3>4, <3>9, <4>1 DEF WholeFrames
      <4>2. CASE i \in Reports /\ j = n + 1
        <5>1. reported[i].last \in Consumed
          BY <2>7, <4>2 DEF WholeFrames
        <5>2. new.last = g[BodyStop(c) + 1]
          BY DEF new
        <5> QED BY <1>2, <2>1, <3>4, <4>2, <5>1, <5>2
      <4>3. CASE i = n + 1
        <5>1. j \in 1..(n + 1) /\ n \in Nat
          BY <2>4, <3>4 DEF n
        <5> QED BY <3>9, <4>3, <5>1
      <4> QED BY <3>4, <4>1, <4>2, <4>3
    <3>10. WholeFrames'
      <4>1. Len(sent') = Len(sent) /\ sent' = sent
        BY <1>1
      <4> QED BY <2>2, <3>6, <3>7, <3>8, <3>9, <4>1 DEF WholeFrames
    <3> QED BY <2>3, <2>5, <3>10 DEF WireInv
  <2>8. TornForGood' => WireInv'
    BY <2>3, <2>5 DEF WireInv
  <2> QED BY <2>6, <2>7, <2>8 DEF WireInv
<1>7. \/ /\ e < 0 /\ buffer' = g /\ UNCHANGED reported
         /\ call' \in {"idle", "reading"} /\ result' \in {"parser_error", result}
      \/ /\ e >= 0
         /\ buffer' = SubSeq(g, e + 1, Len(g))
         /\ reported' = Append(reported, [what  |-> "frame",
                                          first |-> g[Start(c) + 1],
                                          last  |-> g[BodyStop(c) + 1]])
         /\ call' = "idle" /\ result' \in {"message", "conversion_error"}
  BY <1>1 DEF ReadOutcome, e, c, g
<1> QED BY <1>5, <1>6, <1>7

\* A step that leaves the bytes alone and reports no frame.
LEMMA BytesUntouched ==
  ASSUME WireInv, UNCHANGED <<wire, sent, arrived, lost, buffer>>,
         Reports' = Reports, \A i \in Reports : reported'[i] = reported[i],
         reported' \in Seq([what : {"frame", "custom"}, first : Nat, last : Nat]),
         told' \subseteq wire.asides, closed' \in BOOLEAN, call' \in {"idle", "reading"},
         result' \in {"none", "message", "custom", "connection_closed",
                      "read_error", "parser_error", "conversion_error"}
  PROVE  WireInv'
<1>1. TypeOK /\ Buffered /\ Sent /\ arrived \in Nat /\ arrived' = arrived
  <2>1. TypeOK /\ Buffered
    BY DEF WireInv
  <2> QED BY <2>1, SentHolds DEF TypeOK
<1>2. Consumed' = Consumed
  BY DEF Consumed, Offsets
<1>3. TypeOK'
  BY <1>1 DEF TypeOK, Offsets
<1>4. Buffered'
  BY <1>1, <1>2 DEF Buffered
<1>5. (TornForGood \/ WholeFrames)'
  BY <1>1, <1>2, NothingTaken DEF WireInv
<1> QED BY <1>3, <1>4, <1>5 DEF WireInv

LEMMA CustomKeeps == ASSUME WireInv, ReadCustom PROVE WireInv'
<1>1. PICK a \in wire.asides :
         /\ AsideArrives(a)
         /\ reported' = Append(reported, [what |-> "custom", first |-> a, last |-> a])
  BY DEF ReadCustom
<1>2. /\ TypeOK /\ Buffered /\ told' = told \cup {a} /\ call' = "idle" /\ result' = "custom"
      /\ UNCHANGED <<wire, sent, arrived, lost, buffer, closed>>
  BY <1>1 DEF WireInv, ReadCustom, AsideArrives, Return, peer, app
<1> DEFINE new == [what |-> "custom", first |-> a, last |-> a]
           n == Len(reported)
           Kinds == [what : {"frame", "custom"}, first : Nat, last : Nat]
<1>3. new \in Kinds /\ reported \in Seq(Kinds) /\ new.what # "frame"
  BY <1>2, WiresAssumption DEF TypeOK, Buffered
<1> HIDE DEF new, Kinds
<1>4. /\ n \in Nat /\ Len(reported') = n + 1 /\ reported'[n + 1] = new
      /\ \A i \in 1..n : reported'[i] = reported[i]
      /\ reported' \in Seq(Kinds)
  BY <1>1, <1>3 DEF new
<1>5. Reports' = Reports /\ \A i \in Reports : reported'[i] = reported[i]
  <2> HIDE DEF n
  <2>1. Reports = {i \in 1..n : reported[i].what = "frame"}
    BY DEF Reports, n
  <2>2. Reports' = {i \in 1..(n + 1) : reported'[i].what = "frame"}
    BY <1>4 DEF Reports
  <2> QED BY <1>3, <1>4, <2>1, <2>2
<1> QED BY <1>2, <1>4, <1>5, BytesUntouched DEF TypeOK, Kinds

LEMMA RewrapKeeps == ASSUME WireInv, Rewrap PROVE WireInv'
<1>1. /\ TypeOK /\ Buffered /\ Sent /\ buffer' = << >> /\ lost' = lost \cup Offsets(buffer)
      /\ UNCHANGED <<wire, sent, arrived, told, closed, call, result, reported>>
  BY SentHolds DEF WireInv, Rewrap, peer
<1>2. Offsets(buffer)' = {} /\ Len(buffer') = 0 /\ buffer' \in Seq(Nat)
  BY <1>1 DEF Offsets
<1>3. Consumed' = Consumed
  BY <1>1, <1>2 DEF Consumed
<1>4. Reports' = Reports
  BY <1>1 DEF Reports
<1>5. TypeOK'
  <2>1. \A i, j \in 1..Len(buffer') : i < j => buffer'[i] < buffer'[j]
    BY <1>2
  <2>2. lost' \cup Offsets(buffer)' \subseteq 1..arrived' /\ lost' \cap Offsets(buffer)' = {}
    BY <1>1, <1>2 DEF TypeOK
  <2> QED BY <1>1, <2>1, <2>2 DEF TypeOK
<1>6. Buffered'
  BY <1>1, <1>2 DEF Buffered
<1>7. arrived \in Nat
  BY <1>1, SentHolds DEF TypeOK
<1>8. (TornForGood \/ WholeFrames)'
  BY <1>1, <1>3, <1>4, <1>7, NothingTaken DEF WireInv
<1> QED BY <1>5, <1>6, <1>8 DEF WireInv

LEMMA RawKeeps == ASSUME WireInv, RawRead PROVE WireInv'
<1>1. TypeOK /\ Buffered /\ Sent /\ Len(wire.bytes) \in Nat
      /\ UNCHANGED <<wire, sent, buffer, closed, call, result, reported>>
  BY SentHolds DEF WireInv, RawRead, peer
<1>2. Reports' = Reports /\ \A i \in Reports : reported'[i] = reported[i]
  BY <1>1 DEF Reports
<1>3. ASSUME NEW a \in wire.asides, AsideArrives(a), UNCHANGED <<arrived, lost>>
      PROVE  WireInv'
  <2>1. told' \subseteq wire.asides
    BY <1>1, <1>3 DEF AsideArrives, TypeOK
  <2> QED BY <1>1, <1>2, <1>3, <2>1, BytesUntouched DEF TypeOK, Buffered
<1>4. ASSUME NEW got \in (arrived + 1)..Len(wire.bytes), BytesArrive(got),
             lost' = lost \cup Offsets(Chunk(got)), UNCHANGED told
      PROVE  WireInv'
  <2>1. arrived' = got /\ arrived \in Nat /\ got \in 0..Len(wire.bytes) /\ arrived < got
    BY <1>1, <1>4 DEF TypeOK, BytesArrive
  <2>2. Offsets(Chunk(got)) = (arrived + 1)..got
    <3> DEFINE d == got - arrived
    <3>1. Chunk(got) = [i \in 1..d |-> arrived + i] /\ d \in Nat
      BY <2>1 DEF Chunk
    <3> HIDE DEF d
    <3>2. Offsets(Chunk(got)) = {arrived + i : i \in 1..d}
      BY <3>1 DEF Offsets
    <3>3. \A i \in 1..d : arrived + i \in (arrived + 1)..got
      BY <2>1 DEF d
    <3>4. \A o \in (arrived + 1)..got : o - arrived \in 1..d /\ arrived + (o - arrived) = o
      BY <2>1 DEF d
    <3> QED BY <3>2, <3>3, <3>4
  <2>3. /\ Offsets(buffer)' = Offsets(buffer) /\ lost \subseteq 1..arrived
        /\ Offsets(buffer) \subseteq 1..arrived /\ lost \cap Offsets(buffer) = {}
    BY <1>1 DEF TypeOK, Offsets
  <2>4. /\ \A o : o \in 1..got /\ o \notin (arrived + 1)..got <=> o \in 1..arrived
        /\ \A o \in (arrived + 1)..got : o \in 1..got
    BY <2>1
  <2>5. Consumed' = Consumed
    <3>1. Consumed' = (1..got) \ (lost \cup ((arrived + 1)..got) \cup Offsets(buffer))
      BY <1>4, <2>1, <2>2, <2>3 DEF Consumed
    <3> QED BY <2>3, <2>4, <3>1 DEF Consumed
  <2>6. TypeOK'
    <3>1. lost' \cup Offsets(buffer)' \subseteq 1..arrived' /\ lost' \cap Offsets(buffer)' = {}
      BY <1>4, <2>1, <2>2, <2>3, <2>4
    <3> QED BY <1>1, <1>4, <2>1, <3>1 DEF TypeOK
  <2>7. Buffered'
    BY <1>1, <2>5 DEF Buffered
  <2>8. (TornForGood \/ WholeFrames)'
    BY <1>1, <1>2, <1>4, <2>1, <2>5, NothingTaken DEF WireInv
  <2> QED BY <2>6, <2>7, <2>8 DEF WireInv
<1> QED BY <1>3, <1>4 DEF RawRead

\* Every step keeps the invariant.
LEMMA WireStep == ASSUME WireInv, [Next]_vars PROVE WireInv'
<1> DEFINE Same == Reports' = Reports /\ \A i \in Reports : reported'[i] = reported[i]
<1>1. ASSUME UNCHANGED reported PROVE Same
  BY <1>1 DEF Reports
<1>2. TypeOK /\ Buffered
  BY DEF WireInv
<1>3. CASE CallNext
  BY <1>1, <1>2, <1>3, BytesUntouched DEF CallNext, peer, app, TypeOK, Buffered
<1>4. CASE ReadBinary
  BY <1>4, ReadKeeps
<1>5. CASE ReadCustom
  BY <1>5, CustomKeeps
<1>6. CASE ReadFails
  BY <1>1, <1>2, <1>6, BytesUntouched DEF ReadFails, Return, peer, app, TypeOK, Buffered
<1>7. CASE ReadClosed
  BY <1>1, <1>2, <1>7, BytesUntouched DEF ReadClosed, Return, peer, app, TypeOK, Buffered
<1>8. CASE Cancel
  BY <1>1, <1>2, <1>8, BytesUntouched DEF Cancel, peer, app, TypeOK, Buffered
<1>9. CASE Rewrap
  BY <1>9, RewrapKeeps
<1>10. CASE RawRead
  BY <1>10, RawKeeps
<1>11. CASE UNCHANGED vars
  BY <1>1, <1>2, <1>11, BytesUntouched DEF vars, peer, app, TypeOK, Buffered
<1> QED BY <1>3, <1>4, <1>5, <1>6, <1>7, <1>8, <1>9, <1>10, <1>11 DEF Next

\* What WireReader keeps: its types, the bytes in the buffer in their order, and
\* whole frames consumed and reported, unless the application has torn one.
THEOREM WireReaderInvariant == Spec => []WireInv
<1>1. Init => WireInv
  BY WireInit
<1>2. WireInv /\ [Next]_vars => WireInv'
  BY WireStep
<1> QED BY <1>1, <1>2, PTL DEF Spec

\* WireReader keeps its types: the buffer holds offsets in the order in which
\* they arrived, and none of them is lost.
THEOREM WireTypes == Spec => []TypeOK
<1>1. WireInv => TypeOK
  BY DEF WireInv
<1> QED BY <1>1, WireReaderInvariant, PTL

\* What is torn for good is torn.
LEMMA TornIsTorn == ASSUME WireInv, TornForGood PROVE Torn
<1>1. PICK o \in 0..arrived : /\ o \notin Seams
                              /\ \/ o \in lost /\ o + 1 \in Consumed
                                 \/ o \in Consumed /\ o + 1 \in lost
  BY DEF TornForGood
<1>2. Consumed \cap lost = {}
  BY DEF Consumed
<1> QED BY <1>1, <1>2 DEF Torn

\* However the bytes of a stream are cut into chunks, the frames next() reports
\* are those the peer sent, whole, in order, none twice and none left out but
\* what the application took past the buffer.
THEOREM FramesAsSent == Spec => []ReportsWhatWasSent
<1>1. ASSUME WireInv, ~ Torn PROVE ReportsWhatWasSent
  <2>1. TypeOK /\ Buffered /\ Sent /\ WholeFrames
    BY <1>1, TornIsTorn, SentHolds DEF WireInv
  <2>2. ASSUME NEW i \in Reports
        PROVE  \E k \in 1..Len(sent) :
                 /\ reported[i].first = sent[k].first
                 /\ reported[i].last = sent[k].last
                 /\ sent[k].last \notin lost
                 /\ \A j \in 1..(k - 1) :
                     \/ sent[j].last \in lost
                     \/ \E h \in Reports : h < i /\ reported[h].last = sent[j].last
    <3>1. PICK k \in 1..Len(sent) : /\ reported[i].first = sent[k].first
                                    /\ reported[i].last = sent[k].last
                                    /\ sent[k].last \in Consumed
      BY <2>1 DEF WholeFrames
    <3>2. sent[k].last \notin lost
      BY <3>1 DEF Consumed
    <3>3. ASSUME NEW j \in 1..(k - 1), sent[j].last \notin lost
          PROVE  \E h \in Reports : h < i /\ reported[h].last = sent[j].last
      <4>1. /\ j \in 1..Len(sent) /\ j < k
            /\ sent[j].last \in Nat \ {0} /\ sent[k].last \in Nat
        <5>1. Len(sent) \in Nat
          BY <2>1, SentOrder
        <5>2. j \in 1..Len(sent) /\ j < k
          BY <5>1
        <5>3. /\ sent[j].last \in 1..sent[j].next /\ sent[j].next \in 1..Len(wire.bytes)
              /\ sent[k].last \in 1..sent[k].next /\ sent[k].next \in 1..Len(wire.bytes)
          BY <2>1, <5>2, SentOrder
        <5> QED BY <5>2, <5>3
      <4>2. sent[j].last < sent[k].last
        <5>1. sent[j].last < sent[k].first /\ sent[k].first \in 1..sent[k].last
          BY <2>1, <4>1, SentApart, SentOrder
        <5> QED BY <4>1, <5>1
      <4>3. sent[j].last \in Consumed
        <5>1. sent[k].last \in 1..arrived /\ arrived \in Nat
          BY <2>1, <3>1, SentHolds DEF Consumed, TypeOK
        <5>2. sent[j].last \in 1..arrived
          BY <4>1, <4>2, <5>1
        <5>3. sent[j].last \notin Offsets(buffer)
          <6> SUFFICES ASSUME NEW h \in 1..Len(buffer), buffer[h] = sent[j].last PROVE FALSE
            BY DEF Offsets
          <6>1. sent[k].last < buffer[h]
            BY <2>1, <3>1 DEF Buffered
          <6> QED BY <4>1, <4>2, <6>1
        <5> QED BY <3>3, <5>2, <5>3 DEF Consumed
      <4>4. PICK h \in Reports : reported[h].last = sent[j].last
        BY <2>1, <4>1, <4>3 DEF WholeFrames
      <4>5. ~ (i <= h)
        <5>1. i = h \/ i < h => reported[i].last <= reported[h].last
          <6>1. i < h => reported[i].last < reported[h].last
            BY <2>1 DEF WholeFrames
          <6> QED BY <3>1, <4>1, <4>4, <6>1
        <5>2. ~ (reported[i].last <= reported[h].last)
          BY <3>1, <4>1, <4>2, <4>4
        <5>3. i \in Nat /\ h \in Nat
          BY <2>1 DEF Reports, Buffered
        <5> QED BY <5>1, <5>2, <5>3
      <4>6. h < i
        <5>1. i \in Nat /\ h \in Nat
          BY <2>1 DEF Reports, Buffered
        <5> QED BY <4>5, <5>1
      <4> QED BY <4>4, <4>6
    <3> QED BY <3>1, <3>2, <3>3
  <2>3. \A i, j \in Reports : i < j => reported[i].last < reported[j].last
    BY <2>1 DEF WholeFrames
  <2> QED BY <2>2, <2>3 DEF ReportsWhatWasSent
<1>2. WireInv => ReportsWhatWasSent
  BY <1>1 DEF ReportsWhatWasSent
<1> QED BY <1>2, WireReaderInvariant, PTL

-----------------------------------------------------------------------------
(***************************************************************************)
(* WireReader: what next() makes of a buffer in which a frame is due.      *)
(***************************************************************************)

\* A buffer in which a frame of the stream is whole, from its first letter
\* on, can be parsed.
LEMMA WholeFrameParses ==
  ASSUME Sent, NEW b, InOrder(b), NEW st, st = Start(Text(b)), st \in Nat,
         NEW k \in 0..Len(sent), k + 1 \in 1..Len(sent),
         NEW d \in Nat, d > 0, st + d <= Len(b),
         Run(b, st, Position(k) + Start(Rest(wire.bytes, Position(k))), d),
         sent[k + 1].last <= Position(k) + Start(Rest(wire.bytes, Position(k))) + d
  PROVE  Stop(Text(b)) >= 0
<1> DEFINE c == Text(b)
           L == Len(wire.bytes)
           p == Position(k)
           w == Rest(wire.bytes, p)
           x == Start(w)
           last == sent[k + 1].last
<1>1. p \in 0..L /\ L \in Nat /\ Len(w) = L - p /\ Len(w) \in Nat
  <2>1. p \in 0..L /\ wire.bytes \in Seq(STRING) /\ L \in Nat
    BY SentOrder DEF Sent
  <2>2. Len(w) = L - p
    BY <2>1, RestSymbols
  <2> HIDE DEF p, w
  <2> QED BY <2>1, <2>2
<1>2. x \in Nat
  BY <1>1, PartsRange
<1>3. Stop(w) >= 0 /\ last = p + (BodyStop(w) + 1)
  <2>1. (k + 1) - 1 = k
    BY SentOrder
  <2>2. Stop(w) >= 0 /\ sent[k + 1] = FrameAt(wire.bytes, p)
    BY <2>1, SentOrder
  <2> QED BY <2>2 DEF FrameAt
<1>4. BodyStop(w) \in Int
  <2>1. Len(w) \in Nat
    BY <1>1
  <2> HIDE DEF w
  <2>2. BodyStop(w) \in {NeedsMore, Fails} \cup (0..Len(w))
    BY <2>1, PartsRange
  <2> QED BY <2>1, <2>2 DEF NeedsMore, Fails
<1>5. Run(b, st, p + x, d) /\ last <= p + x + d
  OBVIOUS
<1>6. Window(w, x, c, st, d)
  <2> HIDE DEF x, p, w, last
  <2>1. Window(c, st, w, x, d)
    BY <1>1, <1>2, <1>5, RunWindow DEF w
  <2> QED BY <2>1, WindowBack
<1>7. BodyStop(w) + 1 <= x + d
  <2> HIDE DEF w, x, p, last
  <2> QED BY <1>1, <1>2, <1>3, <1>4, <1>5, SMTT(30)
<1>8. Window(w, Start(w), c, Start(c), d)
  BY <1>6
<1> HIDE DEF w, c
<1> QED BY <1>3, <1>7, <1>8, FrameMoves DEF c

\* If a frame is still due, the front of a clean buffer is a whole frame, or a
\* part of the next one.
LEMMA FrontOfBuffer ==
  ASSUME Sent, NEW b, InOrder(b), NEW m \in 1..Len(b), Clean(b, m),
         NEW st, st = Start(Text(b)), st < m, Text(b)[st + 1] \notin {CR, LF},
         NEW i \in 1..Len(sent), b[st + 1] <= sent[i].last
  PROVE  \/ Stop(Text(b)) >= 0
         \/ \E k \in 0..Len(sent) :
              /\ k + 1 \in 1..Len(sent)
              /\ sent[k + 1].last <= sent[i].last
              /\ Run(b, st, Position(k) + Start(Rest(wire.bytes, Position(k))), m - st)
              /\ Position(k) + Start(Rest(wire.bytes, Position(k))) + (m - st) < sent[k + 1].last
<1> DEFINE L == Len(wire.bytes)
<1>1. /\ Len(Text(b)) = Len(b) /\ Len(b) \in Nat /\ L \in Nat /\ Len(sent) \in Nat
      /\ wire.bytes \in Seq(STRING)
      /\ \A h \in 1..Len(b) : b[h] \in 1..L
  BY TextSymbols, SentOrder DEF Sent
<1>2. st \in Nat /\ st + 1 \in 1..m /\ st < Len(b) /\ st + 1 \in 1..Len(b) /\ m \in Nat
  <2>1. st \in 0..Len(Text(b))
    BY <1>1, PartsRange
  <2> QED BY <1>1, <2>1
<1>3. PICK k \in 0..Len(sent) :
         b[st + 1] - 1 = Position(k) + Start(Rest(wire.bytes, Position(k)))
  <2>1. Clean(b, st + 1)
    <3>1. \A h \in 1..((st + 1) - 1) : h \in 1..(m - 1)
      BY <1>2
    <3> QED BY <3>1 DEF Clean
  <2> QED BY <1>2, <2>1, BeginsWhereSent
<1> DEFINE p == Position(k)
           x == Start(Rest(wire.bytes, p))
           a == p + x
<1>4. p \in 0..L /\ x \in Nat
  <2>1. p \in 0..L
    BY SentOrder
  <2>2. Len(Rest(wire.bytes, p)) \in Nat
    <3>1. Len(Rest(wire.bytes, p)) = L - p
      BY <1>1, <2>1, RestSymbols
    <3> HIDE DEF p
    <3> QED BY <1>1, <2>1, <3>1
  <2> QED BY <2>1, <2>2, PartsRange
<1>5. b[st + 1] - 1 = a
  BY <1>3
<1> HIDE DEF p, x
<1>6. a \in Nat /\ p <= a /\ b[st + 1] = a + 1
  BY <1>1, <1>2, <1>4, <1>5
<1> HIDE DEF a
<1>7. k < i
  <2>1. /\ sent[i].last \in 1..sent[i].next /\ sent[i].next \in 1..L
        /\ Position(i) = sent[i].next /\ i \in 0..Len(sent)
    BY <1>1, SentOrder
  <2>2. i <= k => Position(i) <= p
    BY <2>1, SentOrder DEF p
  <2>3. sent[i].last \in Int /\ sent[i].next \in Int
    BY <1>1, <2>1
  <2>4. k \in Int /\ i \in Int
    BY <1>1
  <2> QED BY <1>4, <1>6, <2>1, <2>2, <2>3, <2>4
<1>8. k + 1 \in 1..Len(sent) /\ (k + 1 = i \/ k + 1 < i)
  BY <1>1, <1>7
<1>9. PICK l \in 1..Len(sent) : l = k + 1
  BY <1>8
<1>10. /\ sent[l].last \in Nat /\ sent[i].last \in Nat
       /\ sent[l].last <= sent[i].last
  <2> DEFINE ll == sent[l].last
             ln == sent[l].next
             if == sent[i].first
             il == sent[i].last
             in == sent[i].next
  <2>1. /\ ll \in 1..ln /\ ln \in 1..L /\ if \in 1..il /\ il \in 1..in /\ in \in 1..L
    BY SentOrder
  <2>2. l = i \/ ll < if
    BY <1>8, <1>9, SentApart
  <2>3. l = i => ll = il
    OBVIOUS
  <2> HIDE DEF ll, ln, if, il, in
  <2>4. ll \in Nat /\ il \in Nat /\ ll <= il
    BY <1>1, <2>1, <2>2, <2>3
  <2> QED BY <2>4 DEF ll, il
<1>11. ASSUME NEW d \in 1..(m - st), Run(b, st, a, d), sent[k + 1].last <= a + d
       PROVE  Stop(Text(b)) >= 0
  <2>1. d \in Nat /\ d > 0 /\ st + d <= Len(b)
    BY <1>1, <1>2, SMTT(30)
  <2> QED BY <1>2, <1>8, <1>11, <2>1, WholeFrameParses DEF a, x, p
<1>12. \/ Run(b, st, a, m - st)
       \/ \E d \in 1..(m - st) : Run(b, st, a, d) /\ sent[k + 1].last <= a + d
  <2>1. st \in 0..(m - 1)
    BY <1>1, <1>2
  <2> QED BY <1>6, <2>1, NoGapInFrame DEF p
<1>13. CASE Run(b, st, a, m - st) /\ a + (m - st) < sent[k + 1].last
  <2>1. sent[k + 1].last <= sent[i].last
    BY <1>9, <1>10
  <2> QED BY <1>8, <1>13, <2>1 DEF a, x, p
<1>14. CASE Run(b, st, a, m - st) /\ ~ (a + (m - st) < sent[k + 1].last)
  <2>1. m - st \in 1..(m - st) /\ a + (m - st) \in Nat
    BY <1>2, <1>6, SMTT(30)
  <2>2. sent[k + 1].last <= a + (m - st)
    BY <1>9, <1>10, <1>14, <2>1
  <2> QED BY <1>11, <1>14, <2>1, <2>2
<1> QED BY <1>11, <1>12, <1>13, <1>14

\* Behind a line ending at its front a buffer is over, or there is another
\* symbol.
LEMMA FrontSymbols ==
  ASSUME Sent, NEW b, InOrder(b), NEW st, st = Start(Text(b))
  PROVE  /\ st \in 0..Len(b)
         /\ \A h \in 1..st : Text(b)[h] \in {CR, LF}
         /\ st = Len(b) => Stop(Text(b)) = NeedsMore
         /\ st < Len(b) /\ Text(b)[st + 1] \in {CR, LF} => Stop(Text(b)) = Fails
<1> DEFINE c == Text(b)
<1>1. Len(c) = Len(b) /\ Len(c) \in Nat
  BY TextSymbols
<1>2. \/ st = 0
      \/ st = 1 /\ c[1] = LF
      \/ st = 2 /\ c[1] = CR /\ c[2] = LF
  <2>1. 0 \in 0..Len(c)
    BY <1>1
  <2> QED BY <1>1, <2>1, EndOfLineSymbols DEF Start
<1>3. st \in 0..Len(c)
  BY <1>1, PartsRange
<1>4. st = Len(c) => Stop(c) = NeedsMore
  <2> SUFFICES ASSUME st = Len(c) PROVE Stop(c) = NeedsMore
    OBVIOUS
  <2>1. CommandStop(c) = NeedsMore
    BY <1>1, <1>3, Alpha1Range DEF CommandStop
  <2> QED BY <2>1 DEF Stop, BodyStop, HeadersStop, LineStop, NeedsMore
<1>5. st < Len(c) /\ c[st + 1] \in {CR, LF} => Stop(c) = Fails
  <2> SUFFICES ASSUME st < Len(c), c[st + 1] \in {CR, LF} PROVE Stop(c) = Fails
    OBVIOUS
  <2>1. CommandStop(c) = Fails
    BY <1>1, <1>3, Alpha1Range, SymbolsApart DEF CommandStop
  <2> QED BY <2>1 DEF Stop, BodyStop, HeadersStop, LineStop, Fails
<1> HIDE DEF c
<1>6. \A h \in 1..st : c[h] \in {CR, LF}
  BY <1>2
<1> QED BY <1>1, <1>3, <1>4, <1>5, <1>6 DEF c

\* next() does not wait with a frame in the buffer.
LEMMA NoWaitBehindFrame ==
  ASSUME Sent, NEW b, InOrder(b), NEW m \in 1..Len(b), Clean(b, m),
         NEW i \in 1..Len(sent), b[m] = sent[i].last
  PROVE  Stop(Text(b)) # NeedsMore
<1> DEFINE st == Start(Text(b))
           L == Len(wire.bytes)
<1> SUFFICES ASSUME Stop(Text(b)) = NeedsMore PROVE FALSE
  OBVIOUS
<1>1. /\ st \in 0..Len(b)
      /\ \A h \in 1..st : Text(b)[h] \in {CR, LF}
      /\ st # Len(b)
      /\ ~ (st < Len(b) /\ Text(b)[st + 1] \in {CR, LF})
  <2>1. /\ st \in 0..Len(b)
        /\ \A h \in 1..st : Text(b)[h] \in {CR, LF}
        /\ st < Len(b) /\ Text(b)[st + 1] \in {CR, LF} => Stop(Text(b)) = Fails
    BY FrontSymbols
  <2>2. Stop(Text(b)) # Fails
    BY DEF NeedsMore, Fails
  <2>3. st # Len(b)
    <3> SUFFICES ASSUME st = Len(b) PROVE FALSE
      OBVIOUS
    <3>1. Len(b) \in Nat /\ Text(b)[m] = NUL /\ m \in 1..st
      <4>1. Text(b)[m] = wire.bytes[b[m]] /\ wire.bytes[sent[i].last] = NUL /\ Len(b) \in Nat
        BY TextSymbols, SentOrder
      <4> QED BY <4>1
    <3> QED BY <2>1, <3>1, SymbolsApart
  <2> QED BY <2>1, <2>2, <2>3
<1>2. /\ Len(b) \in Nat /\ L \in Nat /\ Text(b)[m] = NUL
      /\ \A h \in 1..Len(b) : b[h] \in 1..L
      /\ \A h, j \in 1..Len(b) : h < j => b[h] < b[j]
  <2>1. Text(b)[m] = wire.bytes[b[m]] /\ wire.bytes[sent[i].last] = NUL
    BY TextSymbols, SentOrder
  <2> QED BY <2>1, TextSymbols, SentOrder DEF InOrder
<1> HIDE DEF st
<1>3. st < m /\ st \in Nat /\ st + 1 \in 1..Len(b)
  <2>1. ~ (m \in 1..st)
    BY <1>1, <1>2, SymbolsApart
  <2> QED BY <1>1, <1>2, <2>1
<1>4. b[st + 1] <= sent[i].last
  <2>1. st + 1 = m \/ st + 1 < m
    BY <1>2, <1>3
  <2> QED BY <1>2, <1>3, <2>1
<1>5. ~ (Stop(Text(b)) >= 0)
  BY DEF NeedsMore
<1>6. Text(b)[st + 1] \notin {CR, LF}
  BY <1>1, <1>2, <1>3
<1>7. PICK k \in 0..Len(sent) :
         /\ k + 1 \in 1..Len(sent)
         /\ sent[k + 1].last <= sent[i].last
         /\ Run(b, st, Position(k) + Start(Rest(wire.bytes, Position(k))), m - st)
         /\ Position(k) + Start(Rest(wire.bytes, Position(k))) + (m - st) < sent[k + 1].last
  BY <1>3, <1>4, <1>5, <1>6, FrontOfBuffer DEF st
<1> DEFINE a == Position(k) + Start(Rest(wire.bytes, Position(k)))
<1>8. b[m] = a + (m - st)
  <2>1. m - st \in 1..(m - st) /\ st + (m - st) = m
    BY <1>2, <1>3
  <2> QED BY <1>7, <2>1 DEF Run
<1> HIDE DEF a
<1>9. sent[k + 1].last <= b[m] /\ b[m] < sent[k + 1].last
  BY <1>7, <1>8 DEF a
<1>10. sent[k + 1].last \in Int /\ b[m] \in Int
  <2>1. PICK l \in 1..Len(sent) : l = k + 1
    BY <1>7
  <2>2. sent[l].last \in 1..sent[l].next /\ sent[l].next \in 1..L
    BY SentOrder
  <2>3. sent[l].last \in Int
    BY <1>2, <2>2
  <2> QED BY <1>2, <2>1, <2>3
<1> QED BY <1>9, <1>10

-----------------------------------------------------------------------------
(***************************************************************************)
(* WireReader: parser errors in front of a frame.                          *)
(***************************************************************************)

\* The bytes of the buffer are clean as long as nothing is torn.
LEMMA BufferClean ==
  ASSUME TypeOK, Buffered, WholeFrames, ~ Torn, buffer # << >>
  PROVE  /\ Sent /\ InOrder(buffer) /\ Len(buffer) \in Nat \ {0}
         /\ Clean(buffer, Len(buffer))
         /\ \A o \in 1..arrived : o \in lost \cup Consumed \cup Offsets(buffer)
         /\ \A o \in Consumed : o < buffer[1]
<1> DEFINE m == Len(buffer)
           C == Consumed \cup {buffer[i] : i \in 1..m}
<1>1. /\ Sent /\ buffer \in Seq(Nat) /\ m \in Nat \ {0} /\ arrived \in arrived..Len(wire.bytes)
  BY SentHolds DEF TypeOK, Buffered
<1>2. Grown(arrived) = buffer
  <2>1. Chunk(arrived) = << >>
    <3>1. arrived - arrived = 0
      BY <1>1
    <3> QED BY <3>1 DEF Chunk
  <2> QED BY <1>1, <2>1 DEF Grown
<1>3. InOrder(buffer)
  BY <1>1, <1>2, GrownFacts
<1>4. Untorn(arrived, C)
  <2>1. C \cap lost = {}
    BY DEF TypeOK, Consumed, Offsets
  <2> HIDE DEF C
  <2> QED BY <2>1 DEF Untorn, Torn
<1>5. m \in 1..m
  BY <1>1
<1>6. Clean(buffer, m)
  BY <1>1, <1>2, <1>4, <1>5, CleanFront
<1>7. \A o \in 1..arrived : o \in lost \cup Consumed \cup Offsets(buffer)
  BY DEF Consumed
<1>8. \A o \in Consumed : o < buffer[1]
  BY <1>1 DEF Buffered
<1> QED BY <1>1, <1>3, <1>6, <1>7, <1>8

\* Texts of strings, and their parts.
LEMMA SentRest ==
  ASSUME Sent, NEW p \in 0..Len(wire.bytes)
  PROVE  /\ Rest(wire.bytes, p) \in Seq(STRING)
         /\ Len(Rest(wire.bytes, p)) = Len(wire.bytes) - p
         /\ \A i \in 1..(Len(wire.bytes) - p) : Rest(wire.bytes, p)[i] = wire.bytes[p + i]
BY RestSymbols DEF Sent

LEMMA StringsAppended ==
  ASSUME NEW s \in Seq(STRING), NEW t \in Seq(STRING)
  PROVE  /\ Extends(s, s \o t)
         /\ Len(s \o t) = Len(s) + Len(t)
         /\ \A i \in 1..Len(t) : (s \o t)[Len(s) + i] = t[i]
BY DEF Extends

\* The symbols of s behind position x.
LEMMA StringsBehind ==
  ASSUME NEW s \in Seq(STRING), NEW x \in 0..Len(s)
  PROVE  /\ SubSeq(s, x + 1, Len(s)) \in Seq(STRING)
         /\ Len(SubSeq(s, x + 1, Len(s))) = Len(s) - x
         /\ \A i \in 1..(Len(s) - x) : SubSeq(s, x + 1, Len(s))[i] = s[x + i]
BY RestSymbols DEF Rest

\* A line ending that is none, as a CR without its LF, is where the stream has
\* no frames any more.
LEMMA NoFrameBehindCR ==
  ASSUME Sent, NEW b, InOrder(b), NEW m, m = Len(b), m >= 2, Clean(b, m),
         Start(Text(b)) = 0, Text(b)[1] = CR, Text(b)[2] # LF,
         NEW i \in 1..Len(sent)
  PROVE  sent[i].last < b[1]
<1> DEFINE L == Len(wire.bytes)
           o == b[1] - 1
<1>1. /\ m \in Nat /\ 1 \in 1..m /\ 2 \in 1..m /\ L \in Nat /\ Len(sent) \in Nat
      /\ b[1] \in 1..L /\ b[2] \in 1..L /\ b[1] < b[2]
      /\ wire.bytes[b[1]] = CR /\ wire.bytes[b[2]] # LF
      /\ wire.bytes \in Seq(STRING)
  <2>1. m \in Nat
    BY TextSymbols
  <2>2. 1 \in 1..m /\ 2 \in 1..m
    BY <2>1
  <2>3. /\ b[1] \in 1..L /\ b[2] \in 1..L
        /\ Text(b)[1] = wire.bytes[b[1]] /\ Text(b)[2] = wire.bytes[b[2]]
    BY <2>2, TextSymbols
  <2>4. b[1] < b[2]
    BY <2>2 DEF InOrder
  <2>5. L \in Nat /\ Len(sent) \in Nat /\ wire.bytes \in Seq(STRING)
    BY SentOrder DEF Sent
  <2> QED BY <2>1, <2>2, <2>3, <2>4, <2>5
<1>2. b[2] = b[1] + 1
  <2>1. 1 \in 1..(m - 1) /\ 1 + 1 = 2
    BY <1>1
  <2>2. b[2] = b[1] + 1 \/ b[1] \in Seams
    BY <2>1 DEF Clean
  <2>3. b[1] # 0 /\ b[1] # L
    BY <1>1
  <2> QED BY <1>1, <2>2, <2>3, SeamFacts
<1>3. o \in Ends /\ o \in 0..L /\ o + 1 = b[1] /\ o + 2 = b[2] /\ o # L
  BY <1>1, <1>2 DEF Clean
<1> HIDE DEF o
<1>4. OptEndOfLine(wire.bytes, o) = o
  <2>1. \/ OptEndOfLine(wire.bytes, o) = o
        \/ OptEndOfLine(wire.bytes, o) = o + 1 /\ wire.bytes[o + 1] = LF
        \/ OptEndOfLine(wire.bytes, o) = o + 2 /\ wire.bytes[o + 2] = LF
    BY <1>1, <1>3, EndOfLineSymbols
  <2> QED BY <1>1, <1>3, <2>1, SymbolsApart
<1>5. \E k \in 0..Len(sent) : o = Position(k)
  <2>1. ASSUME NEW k \in 1..Len(sent), o = sent[k].last
        PROVE  \E l \in 0..Len(sent) : o = Position(l)
    <3>1. Position(k) = sent[k].next /\ sent[k].next = OptEndOfLine(wire.bytes, sent[k].last)
          /\ k \in 0..Len(sent)
      BY <1>1, SentOrder
    <3> QED BY <1>4, <2>1, <3>1
  <2> QED BY <1>3, <2>1 DEF Ends
<1>6. PICK k \in 0..Len(sent) : o = Position(k)
  BY <1>5
<1> DEFINE w == Rest(wire.bytes, o)
<1>7. /\ Len(w) = L - o /\ Len(w) \in Nat /\ w[1] = CR /\ 0 \in 0..Len(w) /\ 0 < Len(w)
  <2>1. Len(w) = L - o /\ \A j \in 1..(L - o) : w[j] = wire.bytes[o + j]
    <3>1. wire.bytes \in Seq(STRING) /\ o \in 0..Len(wire.bytes)
      BY <1>1, <1>3
    <3> QED BY <3>1, SentRest
  <2>2. 1 \in 1..(L - o) /\ L - o \in Nat /\ 0 < L - o
    BY <1>1, <1>3
  <2> HIDE DEF w
  <2> QED BY <1>1, <1>3, <2>1, <2>2
<1>8. OptEndOfLine(w, 0) = 0
  <2>1. 0 \in 0..(L - o) /\ o + 0 = o
    BY <1>1, <1>3
  <2>2. OptEndOfLine(wire.bytes, o + 0) = o + OptEndOfLine(w, 0)
    BY <1>1, <1>3, <2>1, RestEndOfLine
  <2>3. OptEndOfLine(w, 0) \in 0..Len(w)
    <3> HIDE DEF w
    <3> QED BY <1>7, OptEndOfLineRange
  <2> HIDE DEF w
  <2> QED BY <1>1, <1>3, <1>4, <1>7, <2>1, <2>2, <2>3
<1>9. Stop(w) < 0
  <2> HIDE DEF w
  <2>1. CommandStop(w) = Fails
    <3>1. w[0 + 1] \notin Letters
      BY <1>7, SymbolsApart
    <3> QED BY <1>7, <1>8, <3>1, Alpha1Range DEF CommandStop, Start
  <2> QED BY <2>1 DEF Stop, BodyStop, HeadersStop, LineStop, Fails
<1>10. k = Len(sent)
  <2> SUFFICES ASSUME k # Len(sent) PROVE FALSE
    OBVIOUS
  <2>1. PICK l \in 1..Len(sent) : l = k + 1 /\ l - 1 = k
    BY <1>1
  <2>2. Stop(Rest(wire.bytes, Position(l - 1))) >= 0
    BY SentOrder
  <2>3. Stop(w) >= 0
    BY <1>6, <2>1, <2>2
  <2>4. Stop(w) \in Int
    <3> HIDE DEF w
    <3> QED BY <1>7, PartsRange DEF NeedsMore, Fails
  <2> HIDE DEF w
  <2> QED BY <1>9, <2>3, <2>4
<1>11. sent[i].last <= sent[i].next /\ sent[i].next <= o /\ sent[i].last \in Int
       /\ sent[i].next \in Int
  <2>1. /\ sent[i].last \in 1..sent[i].next /\ sent[i].next \in 1..L
        /\ Position(i) = sent[i].next
    BY SentOrder
  <2>2. i \in 0..Len(sent) /\ i <= k
    BY <1>1, <1>10
  <2>3. Position(i) <= Position(k)
    BY <2>2, SentOrder
  <2> QED BY <1>1, <1>6, <2>1, <2>3
<1> QED BY <1>1, <1>3, <1>11

\* A parse that fails on a part of a frame fails on the frame.
LEMMA PartDoesNotFail ==
  ASSUME Sent, NEW b, InOrder(b), NEW st, st = Start(Text(b)), st < Len(b),
         Text(b)[st + 1] \notin {CR, LF},
         NEW k \in 0..Len(sent), k + 1 \in 1..Len(sent),
         Run(b, st, Position(k) + Start(Rest(wire.bytes, Position(k))), Len(b) - st)
  PROVE  Stop(Text(b)) # Fails
<1> DEFINE c == Text(b)
           L == Len(wire.bytes)
           p == Position(k)
           w == Rest(wire.bytes, p)
           x == Start(w)
           n == Len(b) - st
<1>1. /\ c \in Seq(STRING) /\ Len(c) = Len(b) /\ Len(b) \in Nat
      /\ p \in 0..L /\ L \in Nat /\ w \in Seq(STRING) /\ Len(w) \in Nat
  <2>1. p \in 0..L /\ wire.bytes \in Seq(STRING) /\ L \in Nat
    BY SentOrder DEF Sent
  <2>2. Len(w) = L - p /\ w \in Seq(STRING)
    BY <2>1, RestSymbols
  <2> HIDE DEF p, w
  <2> QED BY <2>1, <2>2, TextSymbols
<1>2. x \in Nat /\ st \in Nat /\ n \in Nat /\ n > 0 /\ st + n = Len(b)
  <2>1. x \in 0..Len(w)
    BY <1>1, PartsRange
  <2>2. st \in 0..Len(c)
    BY <1>1, PartsRange
  <2> HIDE DEF x, c, w
  <2> QED BY <1>1, <2>1, <2>2, SMTT(30)
<1>3. Stop(w) >= 0
  <2>1. (k + 1) - 1 = k
    BY SentOrder
  <2> QED BY <2>1, SentOrder
<1>4. Window(c, st, w, x, n)
  <2>1. Run(b, st, p + x, n) /\ st + n <= Len(b)
    BY <1>1, <1>2
  <2> HIDE DEF p, x, n
  <2> QED BY <1>1, <1>2, <2>1, RunWindow DEF w
<1> DEFINE front == SubSeq(c, 1, st)
           rest == SubSeq(w, x + 1, Len(w))
           g == front \o rest
<1>5. /\ x + n <= Len(w) /\ x <= Len(w)
      /\ \A i \in 1..n : c[st + i] = w[x + i]
  <2> HIDE DEF c, w, x, n
  <2>1. x + n <= Len(w) /\ \A i \in 1..n : c[st + i] = w[x + i]
    BY <1>4 DEF Window
  <2>2. x <= Len(w)
    BY <1>1, <1>2, <2>1
  <2> QED BY <2>1, <2>2
<1>6. /\ front \in Seq(STRING) /\ Len(front) = st /\ \A i \in 1..st : front[i] = c[i]
  <2> HIDE DEF c
  <2>1. c \in Seq(STRING) /\ st \in 0..Len(c)
    BY <1>1, <1>2
  <2> QED BY <2>1
<1>7. /\ rest \in Seq(STRING) /\ Len(rest) = Len(w) - x
      /\ \A i \in 1..(Len(w) - x) : rest[i] = w[x + i]
  <2> HIDE DEF w, x
  <2>1. w \in Seq(STRING) /\ x \in 0..Len(w)
    BY <1>1, <1>2, <1>5
  <2> QED BY <2>1, StringsBehind
<1>8. /\ Len(g) \in Nat /\ Len(g) = st + (Len(w) - x) /\ \A i \in 1..st : g[i] = c[i]
      /\ \A i \in 1..(Len(w) - x) : g[st + i] = w[x + i]
  <2> HIDE DEF front, rest, c, w, x, p
  <2>1. /\ Extends(front, front \o rest)
        /\ Len(front \o rest) = Len(front) + Len(rest)
        /\ \A i \in 1..Len(rest) : (front \o rest)[Len(front) + i] = rest[i]
    BY <1>6, <1>7, StringsAppended
  <2> QED BY <1>1, <1>2, <1>5, <1>6, <1>7, <2>1 DEF Extends
<1> HIDE DEF c, p, w, x, n, front, rest, g
<1>9. Extends(c, g)
  <2>1. ASSUME NEW i \in 1..Len(c) PROVE g[i] = c[i]
    <3>1. CASE i <= st
      BY <1>2, <1>8, <3>1, SMTT(30)
    <3>2. CASE i > st
      <4>1. i - st \in 1..n /\ st + (i - st) = i /\ i - st \in 1..(Len(w) - x)
        <5>1. i \in 1..Len(b) /\ Len(b) = st + n /\ n <= Len(w) - x
          BY <1>1, <1>2, <1>5
        <5>2. st \in Nat /\ n \in Nat /\ i \in Nat /\ i <= st + n /\ i > st
          BY <1>2, <3>2, <5>1
        <5>3. Len(w) \in Nat /\ x \in Nat /\ n <= Len(w) - x
          BY <1>1, <1>2, <5>1
        <5>4. i - st \in 1..n /\ st + (i - st) = i
          BY <5>2
        <5>5. 1..n \subseteq 1..(Len(w) - x)
          BY <5>2, <5>3
        <5> QED BY <5>4, <5>5
      <4>2. c[st + (i - st)] = w[x + (i - st)] /\ g[st + (i - st)] = w[x + (i - st)]
        BY <1>5, <1>8, <4>1
      <4> QED BY <4>1, <4>2
    <3> QED BY <1>1, <1>2, <3>1, <3>2
  <2> QED BY <1>1, <1>2, <1>5, <1>8, <2>1, SMTT(30) DEF Extends
<1>10. Text(b)[st + 1] \notin {CR, LF} /\ st = Start(c) /\ c[st + 1] \notin {CR, LF}
  BY DEF c
<1>11. Start(g) = st
  <2>1. CASE Len(c) >= 2
    BY <1>9, <1>10, <2>1, StartStays
  <2>2. CASE Len(c) = 1
    <3>1. st = 0 /\ st + 1 = 1 /\ 1 \in 1..Len(c)
      BY <1>1, <1>2, <2>2
    <3>2. g[1] = c[1] /\ g[0 + 1] \notin {CR, LF} /\ 0 \in 0..Len(g) /\ 0 + 1 = 1 /\ Len(g) \in Nat
      BY <1>9, <1>10, <3>1 DEF Extends
    <3>3. OptEndOfLine(g, 0) = 0
      <4>1. \/ OptEndOfLine(g, 0) = 0
            \/ g[0 + 1] = LF
            \/ g[0 + 1] = CR
        BY <3>2, EndOfLineSymbols
      <4> QED BY <3>2, <4>1
    <3> QED BY <3>1, <3>3 DEF Start
  <2> QED BY <1>1, <1>2, <2>1, <2>2
<1>12. Window(w, Start(w), g, Start(g), Len(w) - x)
  <2>1. Window(w, x, g, st, Len(w) - x)
    <3>1. /\ x + (Len(w) - x) <= Len(w) /\ st + (Len(w) - x) <= Len(g) /\ Len(w) - x \in Nat
      BY <1>1, <1>2, <1>5, <1>8, SMTT(30)
    <3> QED BY <1>1, <1>2, <1>8, <3>1 DEF Window
  <2> QED BY <1>11, <2>1 DEF x
<1>13. Stop(g) >= 0
  <2>1. BodyStop(w) + 1 <= x + (Len(w) - x)
    <3>1. BodyStop(w) \in (Start(w) + 1)..(Len(w) - 1)
      BY <1>1, <1>3, FoundInOrder
    <3> QED BY <1>1, <1>2, <3>1, SMTT(30) DEF x
  <2> QED BY <1>3, <1>12, <2>1, FrameMoves DEF x
<1>14. ~ (Len(c) = 1 /\ c[1] = CR)
  <2> SUFFICES ASSUME Len(c) = 1, c[1] = CR PROVE FALSE
    OBVIOUS
  <2>1. st = 0 /\ st + 1 = 1
    <3>1. Len(b) = 1
      BY <1>1
    <3> QED BY <1>2, <3>1
  <2> QED BY <1>10, <2>1
<1>15. ParseFrame(c).end = Fails => ParseFrame(g).end = Fails
  BY <1>9, <1>14, ParseFrameStable
<1>16. ParseFrame(c).end = Stop(c) /\ ParseFrame(g).end = Stop(g)
  BY <1>1, <1>8, ParseFrameDef
<1> QED BY <1>13, <1>15, <1>16 DEF Fails, c

\* Bytes in front of a frame that could have been read are refused for one of
\* two reasons only: a CR whose LF is on its way, or two line endings in a row.
THEOREM ErrorsAreLineEndings == Spec => []EarlyErrorsAreLineEndings
<1>1. ASSUME WireInv, buffer # << >>, ParseFrame(Text(buffer)).end = Fails, ~ Torn,
             NEW i \in 1..Len(sent), sent[i].last >= buffer[1], sent[i].last \notin lost
      PROVE  \/ Text(buffer) = <<CR>>
             \/ /\ FirstEnding \in 1..(Len(buffer) - 1)
                /\ Text(buffer)[FirstEnding + 1] \in {LF, CR}
  <2> DEFINE b == buffer
             c == Text(b)
             st == Start(c)
             m == Len(b)
  <2>1. /\ Sent /\ InOrder(b) /\ m \in Nat \ {0} /\ Clean(b, m)
        /\ \A o \in 1..arrived : o \in lost \cup Consumed \cup Offsets(b)
        /\ \A o \in Consumed : o < b[1]
        /\ TypeOK /\ Buffered
    <3>1. TypeOK /\ Buffered /\ WholeFrames
      BY <1>1, TornIsTorn DEF WireInv
    <3> QED BY <1>1, <3>1, BufferClean
  <2>2. /\ c \in Seq(STRING) /\ Len(c) = m /\ FirstEnding = st
        /\ \A h \in 1..m : c[h] = wire.bytes[b[h]] /\ b[h] \in 1..Len(wire.bytes)
        /\ \A h, j \in 1..m : h < j => b[h] < b[j]
    <3>1. FirstEnding = st
      BY DEF FirstEnding, Start
    <3> QED BY <2>1, <3>1, TextSymbols DEF InOrder
  <2>3. Stop(c) = Fails
    BY <1>1, <2>1, <2>2, ParseFrameDef
  <2>4. st \in 0..m /\ st # m /\ \A h \in 1..st : c[h] \in {CR, LF}
    BY <2>1, <2>3, FrontSymbols DEF NeedsMore, Fails
  <2>5. c[st + 1] = LF => st # 0
    <3> SUFFICES ASSUME c[st + 1] = LF, st = 0 PROVE FALSE
      OBVIOUS
    <3> HIDE DEF c, st, m
    <3>1. c[0 + 1] = LF /\ OptEndOfLine(c, 0) = 0 /\ 0 \in 0..Len(c) /\ Len(c) \in Nat /\ 0 # Len(c)
      BY <2>1, <2>2, <2>4 DEF st, Start
    <3> QED BY <3>1, EndOfLineSymbols, SymbolsApart
  <2>6. CASE c[st + 1] \in {CR, LF} /\ st # 0
    <3>1. st \in 1..(m - 1)
      <4> HIDE DEF st, m
      <4> QED BY <2>1, <2>4, <2>6
    <3> QED BY <2>2, <2>6, <3>1
  <2>7. CASE c[st + 1] = CR /\ st = 0
    <3>1. c[1] = CR /\ Start(c) = 0
      BY <2>7
    <3>2. CASE m = 1
      <4> HIDE DEF c, m
      <4>1. c = <<CR>>
        BY <2>2, <3>1, <3>2
      <4> QED BY <4>1 DEF c
    <3>3. CASE m >= 2
      <4>1. c[2] # LF
        <5> HIDE DEF c, m
        <5>1. c[0 + 1] = CR /\ OptEndOfLine(c, 0) = 0 /\ 0 \in 0..Len(c) /\ Len(c) \in Nat
              /\ 0 + 1 # Len(c) /\ 0 # Len(c) /\ 0 + 2 = 2
          BY <2>1, <2>2, <3>1, <3>3 DEF Start
        <5>2. c[0 + 2] # LF
          <6>1. \/ /\ OptEndOfLine(c, 0) = 0
                   /\ \/ 0 = Len(c)
                      \/ c[0 + 1] \notin {LF, CR}
                      \/ c[0 + 1] = CR /\ (0 + 1 = Len(c) \/ c[0 + 2] # LF)
                \/ 0 < Len(c) /\ OptEndOfLine(c, 0) = 0 + 1 /\ c[0 + 1] = LF
                \/ 0 + 1 < Len(c) /\ OptEndOfLine(c, 0) = 0 + 2 /\ c[0 + 1] = CR /\ c[0 + 2] = LF
            BY <5>1, EndOfLineSymbols
          <6> QED BY <5>1, <6>1
        <5> QED BY <5>1, <5>2
      <4>2. sent[i].last < b[1]
        BY <2>1, <3>1, <3>3, <4>1, NoFrameBehindCR
      <4>3. sent[i].last \in Int /\ b[1] \in Int
        <5>1. sent[i].last \in 1..sent[i].next /\ sent[i].next \in 1..Len(wire.bytes)
          BY <2>1, SentOrder
        <5>2. Len(wire.bytes) \in Nat /\ 1 \in 1..m
          BY <2>1, SentOrder
        <5> QED BY <2>2, <5>1, <5>2
      <4> QED BY <1>1, <4>2, <4>3
    <3>4. m = 1 \/ m >= 2
      <4> HIDE DEF m
      <4> QED BY <2>1
    <3> QED BY <3>2, <3>3, <3>4
  <2>8. CASE c[st + 1] \notin {CR, LF}
    <3>1. b[st + 1] <= sent[i].last
      <4> SUFFICES ASSUME ~ (b[st + 1] <= sent[i].last) PROVE FALSE
        OBVIOUS
      <4> DEFINE o == sent[i].last
      <4> HIDE DEF c, st, m
      <4>1. st + 1 \in 1..m /\ b[st + 1] \in Offsets(b) /\ b[st + 1] \in 1..Len(wire.bytes)
        BY <2>1, <2>2, <2>4 DEF Offsets, m
      <4>2. b[st + 1] \in 1..arrived /\ arrived \in Nat
        <5>1. Offsets(b) \subseteq 1..arrived /\ arrived \in 0..Len(wire.bytes)
              /\ Len(wire.bytes) \in Nat
          BY <2>1, SentOrder DEF TypeOK
        <5> QED BY <4>1, <5>1
      <4>3. o \in 1..sent[i].next /\ sent[i].next \in 1..Len(wire.bytes)
            /\ Len(wire.bytes) \in Nat /\ wire.bytes[o] = NUL
        BY <2>1, SentOrder
      <4>4. o \in Int
        BY <4>3
      <4> HIDE DEF o
      <4>5. o \in 1..arrived /\ ~ (b[st + 1] <= o)
        <5>1. ~ (b[st + 1] <= o)
          BY DEF o
        <5> QED BY <4>2, <4>3, <4>4, <5>1
      <4>6. o >= b[1] /\ o \notin lost /\ 1 \in 1..m
        BY <1>1, <2>1 DEF o
      <4>7. o \notin Consumed
        BY <2>1, <2>2, <4>4, <4>6
      <4>8. PICK h \in 1..m : o = b[h]
        BY <2>1, <4>5, <4>6, <4>7 DEF Offsets, m
      <4>9. h \in 1..st
        <5>1. st + 1 = h \/ st + 1 < h => b[st + 1] <= b[h]
          BY <2>2, <4>1, <4>8
        <5> QED BY <2>1, <2>4, <4>1, <4>5, <4>8, <5>1
      <4> QED BY <2>2, <2>4, <4>3, <4>8, <4>9, SymbolsApart DEF o
    <3>2. st < m /\ m \in 1..m
      <4> HIDE DEF st, m
      <4> QED BY <2>1, <2>4
    <3>3. ~ (Stop(c) >= 0)
      BY <2>3 DEF Fails
    <3>4. PICK k \in 0..Len(sent) :
             /\ k + 1 \in 1..Len(sent)
             /\ Run(b, st, Position(k) + Start(Rest(wire.bytes, Position(k))), m - st)
      BY <2>1, <2>8, <3>1, <3>2, <3>3, FrontOfBuffer
    <3> QED BY <2>1, <2>3, <2>8, <3>2, <3>4, PartDoesNotFail
  <2> QED BY <2>5, <2>6, <2>7, <2>8
<1>2. WireInv => EarlyErrorsAreLineEndings
  BY <1>1 DEF EarlyErrorsAreLineEndings
<1> QED BY <1>2, WireReaderInvariant, PTL

-----------------------------------------------------------------------------
(***************************************************************************)
(* WireReader: frames and side-channel messages in the order of sending.   *)
(***************************************************************************)

\* A byte in the buffer, in front of the end of the k-th frame, is torn from
\* its neighbour.
TornBefore(k) ==
    \E o \in 1..(sent[k].last - 1) :
        /\ o \notin Seams
        /\ \/ o \in lost /\ o + 1 \in Offsets(buffer)
           \/ o \in Offsets(buffer) /\ o + 1 \in lost

\* No frame is whole in the buffer that a parse could take.
NothingDue ==
    \/ Stop(Text(buffer)) = Fails
    \/ \A k \in 1..Len(sent) : sent[k].last \in Offsets(buffer) => TornBefore(k)

\* What was reported in front of a side-channel message was sent in front of it.
AsidesInTurn ==
    \A i, j \in 1..Len(reported) :
        i < j /\ reported[j].what = "custom" => reported[i].last <= reported[j].last

\* What is reported had arrived, the side-channel messages that have not been
\* returned come behind what has, and, if a read completes one frame at most,
\* a frame is reported by the read that completes it, or never.
InTurn ==
    /\ \A i \in 1..Len(reported) : reported[i].last <= arrived
    /\ \A a \in wire.asides \ told : arrived <= a
    /\ AsidesInTurn
    /\ ~ wire.coalesce /\ ~ TornForGood =>
          /\ NothingDue
          /\ \A i, j \in 1..Len(reported) : i < j => reported[i].last <= reported[j].last

\* The bytes of the buffer are the first of the grown one; the others have
\* just arrived.
LEMMA GrownParts ==
  ASSUME TypeOK, Buffered, NEW got \in arrived..Len(wire.bytes), NEW g, g = Grown(got)
  PROVE  /\ Extends(buffer, g) /\ Offsets(buffer) \subseteq Offsets(g)
         /\ \A o \in Offsets(g) \ Offsets(buffer) : arrived < o
<1> DEFINE m == Len(buffer)
           d == got - arrived
<1>1. /\ buffer \in Seq(Nat) /\ m \in Nat /\ arrived \in Nat /\ got \in Nat /\ d \in Nat
  BY SentHolds DEF TypeOK, Buffered
<1>2. Chunk(got) \in Seq(Nat) /\ Len(Chunk(got)) = d /\ \A i \in 1..d : Chunk(got)[i] = arrived + i
  <2>1. Chunk(got) = [i \in 1..d |-> arrived + i]
    BY DEF Chunk
  <2> HIDE DEF d
  <2>2. \A i \in 1..d : arrived + i \in Nat
    BY <1>1
  <2> QED BY <1>1, <2>1, <2>2
<1>3. /\ Extends(buffer, g) /\ Len(g) = m + d
      /\ \A i \in 1..d : g[m + i] = arrived + i
  <2>1. g = buffer \o Chunk(got)
    BY DEF Grown
  <2>2. /\ Extends(buffer, buffer \o Chunk(got))
        /\ Len(buffer \o Chunk(got)) = m + Len(Chunk(got))
        /\ \A i \in 1..Len(Chunk(got)) : (buffer \o Chunk(got))[m + i] = Chunk(got)[i]
    <3> DEFINE h == Chunk(got)
    <3>1. buffer \in Seq(Nat) /\ h \in Seq(Nat)
      BY <1>1, <1>2
    <3> HIDE DEF h, d
    <3>2. /\ Extends(buffer, buffer \o h)
          /\ Len(buffer \o h) = m + Len(h)
          /\ \A i \in 1..Len(h) : (buffer \o h)[m + i] = h[i]
      BY ONLY <3>1, ExtendsAppended
    <3> QED BY <3>2 DEF h
  <2> QED BY <1>2, <2>1, <2>2
<1> HIDE DEF m, d
<1>4. \A i \in 1..m : i \in 1..Len(g) /\ g[i] = buffer[i]
  BY <1>1, <1>3 DEF Extends, m
<1>5. ASSUME NEW i \in 1..Len(g), ~ (i \in 1..m) PROVE arrived < g[i]
  <2>1. i - m \in 1..d /\ m + (i - m) = i
    BY <1>1, <1>3, <1>5
  <2>2. g[i] = arrived + (i - m)
    BY <1>3, <2>1
  <2> QED BY <1>1, <2>1, <2>2
<1> QED BY <1>3, <1>4, <1>5 DEF Offsets, m

\* If a frame was due in the buffer, none is found in it when it has grown.
LEMMA NothingFoundLater ==
  ASSUME TypeOK, Buffered, NothingDue, NEW got \in arrived..Len(wire.bytes),
         NEW g, g = Grown(got), Stop(Text(g)) >= 0,
         NEW k \in 1..Len(sent), sent[k].last \in Offsets(buffer)
  PROVE  TornBefore(k)
<1>1. /\ Sent /\ Len(wire.bytes) \in Nat /\ InOrder(g) /\ Extends(buffer, g) /\ InOrder(buffer)
  <2>1. Sent /\ Len(wire.bytes) \in Nat /\ InOrder(g) /\ Extends(buffer, g)
    BY SentHolds, GrownFacts, GrownParts
  <2>2. buffer \in Seq(Nat) /\ \A i, j \in 1..Len(buffer) : i < j => buffer[i] < buffer[j]
    BY DEF TypeOK, Buffered
  <2>3. \A i \in 1..Len(buffer) : buffer[i] \in 1..Len(wire.bytes)
    <3>1. \A i \in 1..Len(buffer) : i \in 1..Len(g) /\ g[i] = buffer[i]
      BY <2>1 DEF Extends
    <3> QED BY <2>1, <3>1, TextSymbols
  <2> QED BY <2>1, <2>2, <2>3, SeqNarrowed DEF InOrder
<1> DEFINE s == Text(buffer)
           c == Text(g)
<1>2. /\ Len(s) = Len(buffer) /\ Len(c) = Len(g) /\ Len(buffer) \in Nat /\ Len(g) \in Nat
      /\ \A i \in 1..Len(buffer) : s[i] = wire.bytes[buffer[i]]
      /\ \A i \in 1..Len(g) : c[i] = wire.bytes[g[i]]
  BY <1>1, TextSymbols
<1> HIDE DEF s, c
<1>3. Extends(s, c)
  BY <1>1, <1>2 DEF Extends
<1>4. PICK h \in 1..Len(buffer) : sent[k].last = buffer[h]
  BY DEF Offsets
<1>5. ~ (Len(s) = 1 /\ s[1] = CR)
  <2>1. wire.bytes[sent[k].last] = NUL
    BY <1>1, SentOrder
  <2>2. s[h] = NUL /\ CR # NUL
    BY <1>2, <1>4, <2>1, SymbolsApart
  <2> QED BY <1>2, <2>2
<1>6. Stop(s) # Fails
  <2>1. ParseFrame(s).end = Fails => ParseFrame(c).end = Fails
    BY <1>3, <1>5, ParseFrameStable
  <2>2. ParseFrame(s).end = Stop(s) /\ ParseFrame(c).end = Stop(c)
    BY <1>2, ParseFrameDef
  <2>3. Stop(c) # Fails
    BY DEF c, Fails
  <2> QED BY <2>1, <2>2, <2>3
<1> QED BY <1>6 DEF NothingDue, s

\* If the k-th frame ends in the buffer and nothing is torn in front of that
\* end, a parse would take it without tearing anything.
LEMMA NothingTornInFront ==
  ASSUME TypeOK, Buffered, NEW got \in arrived..Len(wire.bytes), NEW g, g = Grown(got),
         NEW m \in 1..Len(g), NEW k \in 1..Len(sent), g[m] = sent[k].last,
         Untorn(got, Consumed),
         \A o \in 1..(sent[k].last - 1) :
             o \in Seams \/ ~ ((o \in lost /\ o + 1 \in Offsets(g)) \/ (o \in Offsets(g) /\ o + 1 \in lost))
  PROVE  Untorn(got, Consumed \cup {g[i] : i \in 1..m})
<1> DEFINE C == Consumed \cup {g[i] : i \in 1..m}
           z == sent[k].last
<1>1. /\ got \in Nat /\ Len(g) \in Nat /\ lost \subseteq 1..got
      /\ \A i \in 1..Len(g) : g[i] \in 1..got
      /\ \A i, j \in 1..Len(g) : i < j => g[i] < g[j]
  <2>1. /\ got \in Nat /\ arrived \in Nat /\ arrived <= got /\ Len(g) \in Nat /\ InOrder(g)
        /\ \A i \in 1..Len(g) : g[i] \in 1..got
        /\ lost \subseteq 1..arrived
    BY GrownFacts
  <2>2. \A o \in 1..arrived : o \in 1..got
    BY <2>1
  <2> QED BY <2>1, <2>2 DEF InOrder
<1>2. z = g[m] /\ z \in 1..got /\ z \in Seams
  BY <1>1 DEF Seams
<1>3. \A o \in 1..(z - 1) :
          o \in Seams \/ ~ ((o \in lost /\ o + 1 \in Offsets(g)) \/ (o \in Offsets(g) /\ o + 1 \in lost))
  OBVIOUS
<1> HIDE DEF z
<1>4. ASSUME NEW i \in 1..m PROVE g[i] \in Offsets(g) /\ g[i] \in 1..z
  <2>1. i \in 1..Len(g) /\ (i = m \/ i < m)
    BY <1>1
  <2>2. g[i] \in 1..got /\ (g[i] = g[m] \/ g[i] < g[m])
    BY <1>1, <2>1
  <2> QED BY <1>1, <1>2, <2>1, <2>2 DEF Offsets
<1>5. ASSUME NEW o \in 0..got, o \notin Seams, o \in lost, o + 1 \in C PROVE FALSE
  <2>1. CASE o + 1 \in Consumed
    BY <1>5, <2>1 DEF Untorn
  <2>2. CASE \E i \in 1..m : o + 1 = g[i]
    <3>1. o + 1 \in Offsets(g) /\ o + 1 \in 1..z
      BY <1>4, <2>2
    <3>2. o \in 1..(z - 1)
      BY <1>1, <1>2, <1>5, <3>1
    <3> QED BY <1>3, <1>5, <3>1, <3>2
  <2> QED BY <1>5, <2>1, <2>2
<1>6. ASSUME NEW o \in 0..got, o \notin Seams, o \in C, o + 1 \in lost PROVE FALSE
  <2>1. CASE o \in Consumed
    BY <1>6, <2>1 DEF Untorn
  <2>2. CASE \E i \in 1..m : o = g[i]
    <3>1. o \in Offsets(g) /\ o \in 1..z /\ o # z
      BY <1>2, <1>4, <1>6, <2>2
    <3>2. o \in 1..(z - 1)
      BY <1>1, <1>2, <3>1
    <3> QED BY <1>3, <1>6, <3>1, <3>2
  <2> QED BY <1>6, <2>1, <2>2
<1> QED BY <1>5, <1>6 DEF Untorn

\* A read that reports nothing leaves no frame that is due.
LEMMA NothingDueStays ==
  ASSUME TypeOK, Buffered, WholeFrames, NEW got \in arrived..Len(wire.bytes),
         NEW g, g = Grown(got), Stop(Text(g)) < 0,
         UNCHANGED <<wire, sent, lost>>, arrived' = got, buffer' = g, ~ TornForGood'
  PROVE  NothingDue'
<1>1. /\ Sent /\ InOrder(g) /\ Len(wire.bytes) \in Nat
      /\ Consumed = (1..got) \ (lost \cup Offsets(g))
  BY SentHolds, GrownFacts
<1>2. /\ Consumed' = Consumed /\ Seams' = Seams /\ Text(buffer)' = Text(g)
      /\ Offsets(buffer)' = Offsets(g)
  BY <1>1 DEF Consumed, Seams, Text, Offsets
<1>3. Untorn(got, Consumed)
  BY <1>2 DEF TornForGood, Untorn
<1>4. CASE Stop(Text(g)) = Fails
  BY <1>2, <1>4 DEF NothingDue
<1>5. CASE Stop(Text(g)) # Fails
  <2>1. Stop(Text(g)) = NeedsMore
    <3>1. Len(Text(g)) \in Nat
      BY <1>1, TextSymbols
    <3>2. Stop(Text(g)) \in {NeedsMore, Fails} \cup (0..Len(Text(g)))
      BY <3>1, PartsRange
    <3> QED BY <1>5, <3>1, <3>2
  <2>2. ASSUME NEW k \in 1..Len(sent), sent[k].last \in Offsets(g),
               \A o \in 1..(sent[k].last - 1) :
                  o \in Seams \/ ~ ((o \in lost /\ o + 1 \in Offsets(g)) \/ (o \in Offsets(g) /\ o + 1 \in lost))
        PROVE  FALSE
    <3>1. PICK m \in 1..Len(g) : g[m] = sent[k].last
      BY <2>2 DEF Offsets
    <3>2. Untorn(got, Consumed \cup {g[i] : i \in 1..m})
      BY <1>3, <2>2, <3>1, NothingTornInFront
    <3>3. Clean(g, m)
      BY <3>2, CleanFront
    <3> QED BY <1>1, <2>1, <3>1, <3>3, NoWaitBehindFrame
  <2> QED BY <1>2, <2>2 DEF NothingDue, TornBefore
<1> QED BY <1>4, <1>5

\* A read that completes one frame at most, and reports one, reports the one it
\* completes, and leaves no frame that is due.
LEMMA ReportedInTurn ==
  ASSUME TypeOK, Buffered, WholeFrames, NothingDue, NEW got \in arrived..Len(wire.bytes),
         \A i, j \in 1..Len(sent) : i < j => sent[i].last <= arrived \/ got < sent[j].last,
         NEW g, g = Grown(got), NEW e, e = Stop(Text(g)), e \in 1..Len(g), Advances(g, e),
         UNCHANGED <<wire, sent, lost>>, arrived' = got, ~ TornForGood'
  PROVE  NothingDue' /\ arrived < g[BodyStop(Text(g)) + 1]
<1> DEFINE C == Consumed \cup {g[i] : i \in 1..e}
           Left == {g[i] : i \in (e + 1)..Len(g)}
<1>1. /\ got \in Nat /\ arrived \in Nat /\ arrived <= got /\ Len(g) \in Nat /\ Sent
      /\ \A i \in 1..Len(g) : g[i] \in 1..got
      /\ \A i, j \in 1..Len(g) : i < j => g[i] < g[j]
      /\ lost \subseteq 1..arrived
      /\ Consumed = (1..got) \ (lost \cup Offsets(g))
      /\ Offsets(buffer) \subseteq Offsets(g)
      /\ \A o \in Offsets(g) \ Offsets(buffer) : arrived < o
  <2>1. /\ got \in Nat /\ arrived \in Nat /\ arrived <= got /\ Len(g) \in Nat /\ InOrder(g)
        /\ \A i \in 1..Len(g) : g[i] \in 1..got
        /\ lost \subseteq 1..arrived
        /\ Consumed = (1..got) \ (lost \cup Offsets(g))
    BY GrownFacts
  <2>2. Sent /\ Offsets(buffer) \subseteq Offsets(g)
        /\ \A o \in Offsets(g) \ Offsets(buffer) : arrived < o
    BY SentHolds, GrownParts
  <2> QED BY <2>1, <2>2 DEF InOrder
<1>2. Consumed' = C /\ Offsets(buffer)' = Left /\ Seams' = Seams
  BY DEF Advances, Seams
<1>3. Untorn(got, C)
  <2> HIDE DEF C
  <2> QED BY <1>2 DEF TornForGood, Untorn
<1>4. TakesFrame(g, C)
  <2>1. e = Stop(Text(g)) /\ e >= 0 /\ C = Consumed \cup {g[i] : i \in 1..e}
    BY <1>1
  <2> HIDE DEF C
  <2> QED BY <1>3, <2>1, FrameTaken
<1>5. PICK k \in 1..Len(sent) :
        /\ g[BodyStop(Text(g)) + 1] = sent[k].last
        /\ sent[k].last \in C /\ sent[k].last \notin Consumed
  BY <1>4 DEF TakesFrame
<1>6. ASSUME NEW o \in Offsets(g)
      PROVE  o \in 1..got /\ (o \in C \/ o \in Left) /\ ~ (o \in C /\ o \in Left)
  <2>1. PICK i \in 1..Len(g) : o = g[i]
    BY DEF Offsets
  <2>2. i \in 1..e \/ i \in (e + 1)..Len(g)
    BY <1>1
  <2>3. ASSUME NEW h \in 1..e, NEW l \in (e + 1)..Len(g), o = g[h], o = g[l] PROVE FALSE
    <3>1. h \in 1..Len(g) /\ l \in 1..Len(g) /\ h < l
      BY <1>1
    <3>2. g[h] < g[l] /\ g[h] \in 1..got
      BY <1>1, <3>1
    <3> QED BY <1>1, <2>3, <3>2
  <2>4. o \notin Consumed
    BY <1>1
  <2> QED BY <1>1, <2>1, <2>2, <2>3, <2>4
<1>7. ASSUME NEW o \in Offsets(g), NEW z \in Offsets(g), z \in C, o <= z PROVE o \in C
  <2>1. PICK h \in 1..e : z = g[h]
    <3>1. z \notin Consumed
      BY <1>1
    <3> QED BY <1>7, <3>1
  <2>2. PICK i \in 1..Len(g) : o = g[i]
    BY DEF Offsets
  <2>3. i <= h
    <3>1. h \in 1..Len(g) /\ o \in 1..got /\ z \in 1..got /\ (h < i => g[h] < g[i])
      <4>1. h \in 1..Len(g)
        BY <1>1
      <4> QED BY <1>1, <2>1, <2>2, <4>1
    <3> QED BY <1>1, <1>7, <2>1, <2>2, <3>1
  <2>4. i \in 1..e
    BY <1>1, <2>3
  <2> QED BY <2>2, <2>4
<1> HIDE DEF C, Left
<1>8. ASSUME NEW j \in 1..Len(sent), sent[j].last \in Offsets(buffer)
      PROVE  sent[j].last \notin C /\ TornBefore(j)'
  <2> DEFINE z == sent[j].last
  <2>1. TornBefore(j)
    <3>1. Stop(Text(g)) >= 0
      BY <1>1
    <3> QED BY <1>8, <3>1, NothingFoundLater
  <2>2. PICK o \in 1..(z - 1) : /\ o \notin Seams
                                /\ \/ o \in lost /\ o + 1 \in Offsets(buffer)
                                   \/ o \in Offsets(buffer) /\ o + 1 \in lost
    BY <2>1 DEF TornBefore
  <2>3. z \in Offsets(g) /\ z \in 1..got
    BY <1>1, <1>6, <1>8
  <2> HIDE DEF z
  <2>4. o \in 0..got /\ o <= z /\ o + 1 <= z
    BY <1>1, <2>3
  <2>5. \/ o \in lost /\ o + 1 \in Offsets(g) /\ o + 1 \notin C
        \/ o \in Offsets(g) /\ o \notin C /\ o + 1 \in lost
    BY <1>1, <1>3, <2>2, <2>4 DEF Untorn
  <2>6. z \notin C
    BY <1>7, <2>3, <2>4, <2>5
  <2>7. \/ o \in lost /\ o + 1 \in Left
        \/ o \in Left /\ o + 1 \in lost
    BY <1>6, <2>5
  <2>8. TornBefore(j)'
    <3>1. sent' = sent /\ lost' = lost
      OBVIOUS
    <3> QED BY <1>2, <2>2, <2>7, <3>1 DEF TornBefore, z
  <2> QED BY <2>6, <2>8 DEF z
<1>9. sent[k].last \in Offsets(g) /\ arrived < sent[k].last /\ sent[k].last \in 1..got
  <2>1. sent[k].last \in Offsets(g)
    BY <1>5 DEF C, Offsets
  <2>2. sent[k].last \notin Offsets(buffer)
    BY <1>5, <1>8
  <2> QED BY <1>1, <1>6, <2>1, <2>2
<1>10. ASSUME NEW j \in 1..Len(sent), sent[j].last \in Left PROVE TornBefore(j)'
  <2>1. CASE sent[j].last \in Offsets(buffer)
    BY <1>8, <2>1
  <2>2. CASE sent[j].last \notin Offsets(buffer)
    <3>1. sent[j].last \in Offsets(g)
      BY <1>10 DEF Left, Offsets
    <3>2. sent[j].last \notin C /\ sent[j].last \in 1..got /\ arrived < sent[j].last
      BY <1>1, <1>6, <1>10, <2>2, <3>1
    <3>3. j # k
      BY <1>5, <3>2
    <3>4. CASE j < k
      <4>1. sent[j].last <= arrived \/ got < sent[k].last
        BY <3>4
      <4> QED BY <1>1, <1>9, <3>2, <4>1
    <3>5. CASE k < j
      <4>1. sent[k].last <= arrived \/ got < sent[j].last
        BY <3>5
      <4> QED BY <1>1, <1>9, <3>2, <4>1
    <3>6. j \in Int /\ k \in Int
      OBVIOUS
    <3> QED BY <3>3, <3>4, <3>5, <3>6
  <2> QED BY <2>1, <2>2
<1>11. NothingDue'
  <2>1. sent' = sent
    OBVIOUS
  <2> QED BY <1>2, <1>10, <2>1 DEF NothingDue
<1> QED BY <1>5, <1>9, <1>11

\* What has been reported is known by offsets.
LEMMA ReportedOffsets ==
  ASSUME Buffered
  PROVE  Len(reported) \in Nat /\ \A i \in 1..Len(reported) : reported[i].last \in Nat
<1> DEFINE Kinds == [what : {"frame", "custom"}, first : Nat, last : Nat]
<1>1. reported \in Seq(Kinds) /\ \A r \in Kinds : r.last \in Nat
  BY DEF Buffered
<1> HIDE DEF Kinds
<1>2. Len(reported) \in Nat /\ \A i \in 1..Len(reported) : reported[i] \in Kinds
  BY <1>1
<1> QED BY <1>1, <1>2

\* The state is in turn once more when the buffer is the same or empty, and
\* nothing new is reported.
LEMMA TurnUntouched ==
  ASSUME InTurn, UNCHANGED <<wire, sent, reported>>, buffer' = buffer \/ buffer' = << >>,
         lost \subseteq lost', TornForGood => TornForGood',
         arrived \in Nat, arrived' \in Nat, arrived <= arrived', Buffered,
         \A a \in wire.asides \ told' : arrived' <= a
  PROVE  InTurn'
<1>1. ASSUME NothingDue PROVE NothingDue'
  <2>1. CASE buffer' = << >>
    <3>1. Offsets(buffer)' = {}
      BY <2>1 DEF Offsets
    <3> QED BY <3>1 DEF NothingDue
  <2>2. CASE buffer' = buffer
    <3>1. /\ Offsets(buffer)' = Offsets(buffer) /\ Text(buffer)' = Text(buffer)
          /\ Seams' = Seams /\ sent' = sent
      BY <2>2 DEF Offsets, Text, Seams
    <3>2. ASSUME NEW k \in 1..Len(sent), TornBefore(k) PROVE TornBefore(k)'
      BY <3>1, <3>2 DEF TornBefore
    <3>3. CASE Stop(Text(buffer)) = Fails
      BY <3>1, <3>3 DEF NothingDue
    <3>4. CASE \A k \in 1..Len(sent) : sent[k].last \in Offsets(buffer) => TornBefore(k)
      BY <3>1, <3>2, <3>4 DEF NothingDue
    <3> QED BY <1>1, <3>3, <3>4 DEF NothingDue
  <2> QED BY <2>1, <2>2
<1>2. ASSUME NEW i \in 1..Len(reported) PROVE reported[i].last <= arrived'
  <2>1. reported[i].last \in Nat /\ reported[i].last <= arrived
    BY ReportedOffsets DEF InTurn
  <2> QED BY <2>1
<1>3. AsidesInTurn'
  BY DEF InTurn, AsidesInTurn
<1> QED BY <1>1, <1>2, <1>3 DEF InTurn

\* Nothing is reported or due at first.
LEMMA TurnInit == Init => InTurn
<1> SUFFICES ASSUME Init PROVE InTurn
  OBVIOUS
<1>1. wire.asides \subseteq Nat /\ arrived = 0 /\ buffer = << >> /\ reported = << >>
  BY WiresAssumption DEF Init
<1>2. Offsets(buffer) = {}
  BY <1>1 DEF Offsets
<1>3. \A a \in wire.asides \ told : arrived <= a
  BY <1>1
<1> QED BY <1>1, <1>2, <1>3 DEF InTurn, NothingDue, AsidesInTurn

\* A side-channel message is behind all that has been reported, and in front of
\* all that has not arrived.
LEMMA CustomInTurn == ASSUME WireInv, InTurn, ReadCustom PROVE InTurn'
<1>1. PICK a \in wire.asides :
         /\ AsideArrives(a)
         /\ reported' = Append(reported, [what |-> "custom", first |-> a, last |-> a])
  BY DEF ReadCustom
<1>2. /\ TypeOK /\ Buffered /\ told' = told \cup {a} /\ a \in wire.asides \ told
      /\ a <= arrived /\ arrived <= a /\ arrived \in Nat /\ a \in Nat
      /\ UNCHANGED <<wire, sent, arrived, lost, buffer>>
  <2>1. TypeOK /\ Buffered /\ UNCHANGED <<wire, sent, arrived, lost, buffer>>
    BY DEF WireInv, ReadCustom, peer, app
  <2>2. told' = told \cup {a} /\ a \in wire.asides \ told /\ a <= arrived
    BY <1>1 DEF AsideArrives
  <2>3. arrived \in Nat /\ a \in Nat
    BY <2>1, <2>2, SentHolds, WiresAssumption DEF TypeOK
  <2> QED BY <2>1, <2>2, <2>3 DEF InTurn
<1> DEFINE new == [what |-> "custom", first |-> a, last |-> a]
           n == Len(reported)
           Kinds == [what : {"frame", "custom"}, first : Nat, last : Nat]
<1>3. /\ n \in Nat /\ Len(reported') = n + 1 /\ reported'[n + 1].last = a
      /\ \A i \in 1..n : reported'[i] = reported[i] /\ reported[i].last \in Nat
  <2>1. new \in Kinds /\ reported \in Seq(Kinds) /\ new.last = a
    BY <1>2 DEF Buffered
  <2>2. \A i \in 1..n : reported[i].last \in Nat
    BY <1>2, ReportedOffsets
  <2> HIDE DEF new, Kinds
  <2> QED BY <1>1, <2>1, <2>2 DEF new
<1> HIDE DEF n
<1>4. \A i \in 1..n : reported[i].last <= arrived
  BY DEF InTurn, n
<1>5. \A i \in 1..(n + 1) : i \in 1..n \/ i = n + 1
  BY <1>3
<1>6. \A i \in 1..Len(reported') : reported'[i].last <= arrived'
  BY <1>2, <1>3, <1>4, <1>5
<1>7. ASSUME \A i, j \in 1..n : i < j => reported[i].last <= reported[j].last,
             NEW i \in 1..(n + 1), NEW j \in 1..(n + 1), i < j
      PROVE  reported'[i].last <= reported'[j].last
  <2>1. i \in 1..n
    BY <1>3, <1>7
  <2>2. CASE j \in 1..n
    BY <1>3, <1>7, <2>1, <2>2
  <2>3. CASE j = n + 1
    BY <1>2, <1>3, <1>4, <2>1, <2>3
  <2> QED BY <1>5, <2>2, <2>3
<1>8. TornForGood' <=> TornForGood
  BY <1>2 DEF TornForGood, Seams, Consumed, Offsets
<1>9. NothingDue' <=> NothingDue
  BY <1>2 DEF NothingDue, TornBefore, Seams, Text, Offsets
<1>10. \A b \in wire'.asides \ told' : arrived' <= b
  BY <1>2 DEF InTurn
<1>11. AsidesInTurn'
  <2> SUFFICES ASSUME NEW i \in 1..(n + 1), NEW j \in 1..(n + 1), i < j,
                      reported'[j].what = "custom"
               PROVE  reported'[i].last <= reported'[j].last
    BY <1>3 DEF AsidesInTurn
  <2>1. i \in 1..n /\ reported'[i] = reported[i]
    BY <1>3
  <2>2. CASE j \in 1..n
    <3>1. reported'[j] = reported[j]
      BY <1>3, <2>2
    <3> QED BY <2>1, <2>2, <3>1 DEF InTurn, AsidesInTurn, n
  <2>3. CASE j = n + 1
    BY <1>2, <1>3, <1>4, <2>1, <2>3
  <2> QED BY <1>5, <2>2, <2>3
<1> QED BY <1>2, <1>3, <1>6, <1>7, <1>8, <1>9, <1>10, <1>11 DEF InTurn, n

\* A frame that is reported has arrived with this read, and everything reported
\* before it with an earlier one.
LEMMA FrameInTurn ==
  ASSUME InTurn, Buffered, UNCHANGED <<wire, told>>, arrived \in Nat, arrived' \in Nat,
         arrived <= arrived', NEW new, reported' = Append(reported, new),
         new.what = "frame", new.last \in Nat, new.last <= arrived',
         \A a \in wire.asides \ told : arrived' <= a,
         ~ wire.coalesce /\ ~ TornForGood' =>
            ~ TornForGood /\ NothingDue' /\ arrived < new.last
  PROVE  InTurn'
<1> DEFINE n == Len(reported)
<1>1. /\ n \in Nat /\ Len(reported') = n + 1 /\ reported'[n + 1] = new
      /\ \A i \in 1..n : reported'[i] = reported[i] /\ reported[i].last \in Nat
  <2>1. reported \in Seq([what : {"frame", "custom"}, first : Nat, last : Nat])
    BY DEF Buffered
  <2> QED BY <2>1, ReportedOffsets
<1> HIDE DEF n
<1>2. \A i \in 1..n : reported[i].last <= arrived
  BY DEF InTurn, n
<1>3. \A i \in 1..(n + 1) : i \in 1..n \/ i = n + 1
  BY <1>1
<1>4. \A i \in 1..Len(reported') : reported'[i].last <= arrived'
  BY <1>1, <1>2, <1>3
<1>5. ASSUME arrived < new.last,
             \A i, j \in 1..n : i < j => reported[i].last <= reported[j].last,
             NEW i \in 1..(n + 1), NEW j \in 1..(n + 1), i < j
      PROVE  reported'[i].last <= reported'[j].last
  <2>1. i \in 1..n
    BY <1>1, <1>5
  <2>2. CASE j \in 1..n
    BY <1>1, <1>5, <2>1, <2>2
  <2>3. CASE j = n + 1
    BY <1>1, <1>2, <1>5, <2>1, <2>3
  <2> QED BY <1>3, <2>2, <2>3
<1>6. ~ wire.coalesce /\ ~ TornForGood =>
        \A i, j \in 1..n : i < j => reported[i].last <= reported[j].last
  BY DEF InTurn, n
<1>7. ASSUME ~ wire'.coalesce, ~ TornForGood'
      PROVE  /\ NothingDue'
             /\ \A i, j \in 1..Len(reported') : i < j => reported'[i].last <= reported'[j].last
  <2>1. ~ wire.coalesce /\ ~ TornForGood /\ NothingDue' /\ arrived < new.last
    BY <1>7
  <2>2. \A i, j \in 1..n : i < j => reported[i].last <= reported[j].last
    BY <1>6, <2>1
  <2> QED BY <1>1, <1>5, <2>1, <2>2
<1>8. AsidesInTurn'
  <2> SUFFICES ASSUME NEW i \in 1..(n + 1), NEW j \in 1..(n + 1), i < j,
                      reported'[j].what = "custom"
               PROVE  reported'[i].last <= reported'[j].last
    BY <1>1 DEF AsidesInTurn
  <2>1. j \in 1..n
    BY <1>1, <1>3
  <2>2. i \in 1..n
    BY <1>1, <2>1
  <2>3. reported'[i] = reported[i] /\ reported'[j] = reported[j]
    BY <1>1, <2>1, <2>2
  <2> QED BY <2>1, <2>2, <2>3 DEF InTurn, AsidesInTurn, n
<1> QED BY <1>4, <1>7, <1>8 DEF InTurn

\* The steps that bring bytes.
LEMMA ReadInTurn == ASSUME WireInv, InTurn, ReadBinary PROVE InTurn'
<1>1. PICK got \in arrived..Len(wire.bytes) :
         /\ TypeOK /\ Buffered /\ Sent /\ Len(wire.bytes) \in Nat
         /\ UNCHANGED <<wire, sent, told, lost, closed>>
         /\ BytesArrive(got) /\ arrived' = got /\ ReadOutcome(got)
  BY SentHolds, ReadCases DEF WireInv
<1> DEFINE g == Grown(got)
           e == Stop(Text(g))
           z == g[BodyStop(Text(g)) + 1]
<1>2. /\ got \in Nat /\ arrived \in Nat /\ arrived <= got /\ InOrder(g)
      /\ g \in Seq(Nat) /\ Len(g) \in Nat /\ \A i \in 1..Len(g) : g[i] \in 1..got
      /\ Consumed = (1..got) \ (lost \cup Offsets(g))
  BY <1>1, GrownFacts
<1>3. /\ \A a \in wire.asides \ told : got <= a
      /\ ~ wire.coalesce => \A i, j \in 1..Len(sent) :
            i < j => sent[i].last <= arrived \/ got < sent[j].last
  BY <1>1 DEF BytesArrive
<1> HIDE DEF g, e, z
<1>4. CASE e < 0 /\ buffer' = g /\ UNCHANGED reported
  <2>1. Consumed' = Consumed
    BY <1>1, <1>2, <1>4 DEF Consumed, Offsets
  <2>2. TornForGood => TornForGood'
    BY <1>1, <1>2, <2>1, TornLater
  <2>3. ASSUME ~ TornForGood' PROVE NothingDue'
    <3>1. WholeFrames
      BY <2>2, <2>3 DEF WireInv
    <3>2. Stop(Text(g)) < 0 /\ g = Grown(got)
      BY <1>4 DEF e, g
    <3> QED BY <1>1, <1>4, <2>3, <3>1, <3>2, NothingDueStays
  <2>4. \A i \in 1..Len(reported) : reported[i].last <= got
    <3>1. \A i \in 1..Len(reported) : reported[i].last \in Nat /\ reported[i].last <= arrived
      BY <1>1, ReportedOffsets DEF InTurn
    <3> QED BY <1>2, <3>1
  <2>5. AsidesInTurn'
    BY <1>4 DEF InTurn, AsidesInTurn
  <2> QED BY <1>1, <1>3, <1>4, <2>2, <2>3, <2>4, <2>5 DEF InTurn
<1>5. CASE /\ e >= 0
           /\ buffer' = Rest(g, e)
           /\ reported' = Append(reported, [what  |-> "frame",
                                            first |-> g[Start(Text(g)) + 1],
                                            last  |-> z])
  <2>1. e \in 1..Len(g) /\ BodyStop(Text(g)) + 1 \in 1..Len(g)
    <3>1. Len(Text(g)) = Len(g) /\ Len(Text(g)) \in Nat
      BY <1>1, <1>2, TextSymbols
    <3>2. /\ Start(Text(g)) \in 0..Len(Text(g))
          /\ BodyStop(Text(g)) \in (Start(Text(g)) + 1)..(Len(Text(g)) - 1)
          /\ e \in (BodyStop(Text(g)) + 1)..Len(Text(g))
      BY <1>5, <3>1, FoundInOrder DEF e
    <3> QED BY <1>2, <3>1, <3>2, SMTT(30)
  <2>2. z \in Nat /\ z <= got
    BY <1>2, <2>1 DEF z
  <2>3. Advances(g, e)
    <3>1. g = Grown(got) /\ buffer' = Rest(g, e) /\ arrived' = got /\ lost' = lost
      BY <1>1, <1>5 DEF g
    <3> QED BY <1>1, <2>1, <3>1, BufferAdvanced
  <2>4. ASSUME ~ wire.coalesce, ~ TornForGood'
        PROVE  ~ TornForGood /\ NothingDue' /\ arrived < z
    <3>1. ~ TornForGood
      <4>1. Consumed \subseteq Consumed'
        BY <2>3 DEF Advances
      <4> QED BY <1>1, <1>2, <2>4, <4>1, TornLater
    <3>2. WholeFrames /\ NothingDue
      BY <2>4, <3>1 DEF WireInv, InTurn
    <3>3. g = Grown(got) /\ e = Stop(Text(g))
      BY DEF g, e
    <3>4. \A i, j \in 1..Len(sent) : i < j => sent[i].last <= arrived \/ got < sent[j].last
      BY <1>3, <2>4
    <3>5. NothingDue' /\ arrived < g[BodyStop(Text(g)) + 1]
      BY <1>1, <2>1, <2>3, <2>4, <3>2, <3>3, <3>4, ReportedInTurn
    <3> QED BY <3>1, <3>5 DEF z
  <2> DEFINE new == [what |-> "frame", first |-> g[Start(Text(g)) + 1], last |-> z]
  <2>5. reported' = Append(reported, new) /\ new.last = z /\ new.what = "frame"
    BY <1>5
  <2> HIDE DEF new
  <2> QED BY <1>1, <1>2, <1>3, <2>2, <2>4, <2>5, FrameInTurn
<1>6. \/ e < 0 /\ buffer' = g /\ UNCHANGED reported
      \/ /\ e >= 0
         /\ buffer' = Rest(g, e)
         /\ reported' = Append(reported, [what  |-> "frame",
                                          first |-> g[Start(Text(g)) + 1],
                                          last  |-> z])
  BY <1>1 DEF ReadOutcome, e, g, z, Rest
<1> QED BY <1>4, <1>5, <1>6

LEMMA RawInTurn == ASSUME WireInv, InTurn, RawRead PROVE InTurn'
<1>1. TypeOK /\ Buffered /\ Len(wire.bytes) \in Nat /\ arrived \in Nat
      /\ UNCHANGED <<wire, sent, buffer, reported>>
  BY SentHolds DEF WireInv, RawRead, peer, TypeOK
<1>2. ASSUME NEW a \in wire.asides, AsideArrives(a), UNCHANGED <<arrived, lost>>
      PROVE  InTurn'
  <2>1. \A b \in wire.asides \ told' : arrived' <= b
    BY <1>2 DEF AsideArrives, InTurn
  <2>2. TornForGood => TornForGood'
    BY <1>1, <1>2 DEF TornForGood, Seams, Consumed, Offsets
  <2> QED BY <1>1, <1>2, <2>1, <2>2, TurnUntouched
<1>3. ASSUME NEW got \in (arrived + 1)..Len(wire.bytes), BytesArrive(got),
             lost' = lost \cup Offsets(Chunk(got)), UNCHANGED told
      PROVE  InTurn'
  <2>1. /\ arrived' = got /\ got \in Nat /\ arrived <= got
        /\ \A b \in wire.asides \ told' : arrived' <= b
    BY <1>1, <1>3 DEF BytesArrive
  <2>2. Consumed \subseteq Consumed'
    <3>1. \A o \in 1..arrived : o \in 1..got /\ o \notin Offsets(Chunk(got))
      <4> SUFFICES ASSUME NEW o \in 1..arrived, o \in Offsets(Chunk(got)) PROVE FALSE
        BY <1>1, <2>1
      <4>1. PICK i \in 1..Len(Chunk(got)) : o = Chunk(got)[i]
        BY DEF Offsets
      <4>2. Chunk(got) = [h \in 1..(got - arrived) |-> arrived + h] /\ got - arrived \in Nat
        BY <1>1, <2>1 DEF Chunk
      <4> DEFINE d == got - arrived
      <4> HIDE DEF d
      <4>3. i \in 1..d /\ d \in Nat /\ o = arrived + i
        BY <4>1, <4>2 DEF d
      <4> QED BY <1>1, <4>3
    <3> QED BY <1>1, <1>3, <2>1, <3>1 DEF Consumed, Offsets
  <2>3. TornForGood => TornForGood'
    BY <1>1, <1>3, <2>1, <2>2, TornLater
  <2> QED BY <1>1, <1>3, <2>1, <2>3, TurnUntouched
<1> QED BY <1>2, <1>3 DEF RawRead

\* Every step keeps the order.
LEMMA TurnStep == ASSUME WireInv, InTurn, [Next]_vars PROVE InTurn'
<1>1. TypeOK /\ Buffered /\ arrived \in Nat
  BY SentHolds DEF WireInv, TypeOK
<1>2. ASSUME UNCHANGED <<wire, sent, arrived, told, buffer, reported, lost>> PROVE InTurn'
  <2>1. TornForGood => TornForGood'
    BY <1>2 DEF TornForGood, Seams, Consumed, Offsets
  <2>2. \A a \in wire.asides \ told' : arrived' <= a
    BY <1>2 DEF InTurn
  <2> QED BY <1>1, <1>2, <2>1, <2>2, TurnUntouched
<1>3. CASE CallNext \/ ReadFails \/ ReadClosed \/ Cancel \/ UNCHANGED vars
  BY <1>2, <1>3 DEF CallNext, ReadFails, ReadClosed, Cancel, vars, peer, app
<1>4. CASE ReadBinary
  BY <1>4, ReadInTurn
<1>5. CASE ReadCustom
  BY <1>5, CustomInTurn
<1>6. CASE Rewrap
  <2>1. /\ buffer' = << >> /\ lost' = lost \cup Offsets(buffer)
        /\ UNCHANGED <<wire, sent, arrived, told, reported>>
    BY <1>6 DEF Rewrap, peer
  <2>2. Consumed' = Consumed
    <3>1. Offsets(buffer)' = {}
      BY <2>1 DEF Offsets
    <3> QED BY <2>1, <3>1 DEF Consumed
  <2>3. TornForGood => TornForGood'
    BY <1>1, <2>1, <2>2, TornLater
  <2>4. \A a \in wire.asides \ told' : arrived' <= a
    BY <2>1 DEF InTurn
  <2> QED BY <1>1, <2>1, <2>3, <2>4, TurnUntouched
<1>7. CASE RawRead
  BY <1>7, RawInTurn
<1> QED BY <1>3, <1>4, <1>5, <1>6, <1>7 DEF Next

\* A side-channel message is reported in front of every frame that was sent
\* behind it; and over a transport that carries one frame in a message at most,
\* frames and side-channel messages are reported in the order in which they were
\* sent, as long as no frame is torn.
THEOREM SendingOrderKept == Spec => []InSendingOrder
<1>1. Init => WireInv /\ InTurn
  BY WireInit, TurnInit
<1>2. (WireInv /\ InTurn) /\ [Next]_vars => (WireInv /\ InTurn)'
  BY WireStep, TurnStep
<1>3. WireInv /\ InTurn => InSendingOrder
  BY TornIsTorn DEF InTurn, AsidesInTurn, InSendingOrder
<1> QED BY <1>1, <1>2, <1>3, PTL DEF Spec

-----------------------------------------------------------------------------
(***************************************************************************)
(* WireReader: what the parser decides is what BufferedTransport says of the *)
(* same stream, as long as the application leaves the transport alone and  *)
(* there are no blank lines between frames.                                *)
(***************************************************************************)

\* The offsets behind position p of the stream, up to got: the buffer of a
\* transport that is left alone.
Span(p, got) == [i \in 1..(got - p) |-> p + i]

\* It holds the stream without a gap.
LEMMA SpanFacts ==
  ASSUME Sent, NEW got \in 0..Len(wire.bytes), NEW p \in 0..got, NEW g, g = Span(p, got)
  PROVE  /\ InOrder(g) /\ Len(g) = got - p /\ Len(g) \in Nat
         /\ \A i \in 1..Len(g) : g[i] = p + i
         /\ Text(g) \in Seq(STRING) /\ Len(Text(g)) = Len(g)
         /\ \A i \in 1..Len(g) : Text(g)[i] = wire.bytes[p + i]
         /\ Text(g) = SubSeq(wire.bytes, p + 1, got)
         /\ p \in Ends => \A m \in 1..Len(g) : Clean(g, m)
<1> DEFINE L == Len(wire.bytes)
           n == got - p
<1>1. L \in Nat /\ got \in 0..L /\ p \in Nat /\ n \in Nat /\ p + n = got
  BY SentOrder
<1>2. g = [i \in 1..n |-> p + i]
  BY DEF Span
<1> HIDE DEF n
<1>3. \A i \in 1..n : p + i \in 1..L
  BY <1>1
<1>4. g \in Seq(1..L) /\ Len(g) = n /\ \A i \in 1..n : g[i] = p + i
  <2>1. g \in [1..n -> 1..L]
    BY <1>2, <1>3
  <2> QED BY <1>1, <1>2, <2>1
<1>5. InOrder(g)
  <2>1. \A i, j \in 1..n : i < j => p + i < p + j
    BY <1>1
  <2> QED BY <1>4, <2>1 DEF InOrder
<1>6. /\ Text(g) \in Seq(STRING) /\ Len(Text(g)) = Len(g)
      /\ \A i \in 1..Len(g) : Text(g)[i] = wire.bytes[g[i]]
  BY <1>5, TextSymbols
<1>7. Text(g) = SubSeq(wire.bytes, p + 1, got)
  <2>1. Text(g) = [i \in 1..n |-> wire.bytes[p + i]]
    BY <1>4 DEF Text
  <2>2. SubSeq(wire.bytes, p + 1, got) = [i \in 1..n |-> wire.bytes[p + i]]
    <3>1. wire.bytes \in Seq(STRING)
      BY DEF Sent
    <3>2. SubSeq(wire.bytes, p + 1, got) = [i \in 1..(got - (p + 1) + 1) |-> wire.bytes[(p + 1) + i - 1]]
      BY <1>1, <3>1
    <3>3. got - (p + 1) + 1 = n /\ \A i \in 1..n : (p + 1) + i - 1 = p + i
      BY <1>1
    <3> QED BY <3>2, <3>3
  <2> QED BY <2>1, <2>2
<1>8. ASSUME p \in Ends, NEW m \in 1..Len(g) PROVE Clean(g, m)
  <2>1. g[1] - 1 = p
    BY <1>1, <1>4, <1>8
  <2>2. \A i \in 1..(m - 1) : g[i + 1] = g[i] + 1
    <3> SUFFICES ASSUME NEW i \in 1..(m - 1) PROVE g[i + 1] = g[i] + 1
      OBVIOUS
    <3>1. i \in 1..n /\ i + 1 \in 1..n
      BY <1>1, <1>4, <1>8
    <3> QED BY <1>1, <1>4, <3>1
  <2> QED BY <1>8, <2>1, <2>2 DEF Clean
<1>9. n = got - p
  BY <1>1
<1>10. Len(g) = got - p /\ Len(g) \in Nat /\ \A i \in 1..Len(g) : g[i] = p + i
  BY <1>1, <1>4, <1>9
<1>11. \A i \in 1..Len(g) : Text(g)[i] = wire.bytes[p + i]
  <2> TAKE i \in 1..Len(g)
  <2>1. Text(g)[i] = wire.bytes[g[i]] /\ g[i] = p + i
    BY <1>6, <1>10
  <2> QED BY <2>1
<1> QED BY <1>5, <1>6, <1>7, <1>8, <1>10, <1>11

\* A line ending of the stream is one of the buffer if it is all there.
LEMMA SpanEndOfLine ==
  ASSUME Sent, NEW got \in 0..Len(wire.bytes), NEW p \in 0..got, NEW x \in 0..(got - p)
  PROVE  OptEndOfLine(Text(Span(p, got)), x)
            = IF OptEndOfLine(wire.bytes, p + x) <= got
              THEN OptEndOfLine(wire.bytes, p + x) - p ELSE x
<1> DEFINE L == Len(wire.bytes)
           c == Text(Span(p, got))
<1>1. /\ L \in Nat /\ got \in 0..L /\ p \in Nat /\ x \in Nat /\ p + x \in 0..L /\ x <= got - p
      /\ Len(c) = got - p /\ Len(c) \in Nat
      /\ \A i \in 1..(got - p) : c[i] = wire.bytes[p + i]
  <2> DEFINE g == Span(p, got)
  <2>1. /\ Len(g) = got - p /\ Len(g) \in Nat /\ Len(Text(g)) = Len(g)
        /\ \A i \in 1..Len(g) : Text(g)[i] = wire.bytes[p + i]
    BY SpanFacts, ZenonT(40)
  <2>2. L \in Nat /\ got \in 0..L
    BY SentOrder
  <2> HIDE DEF g
  <2> QED BY <2>1, <2>2 DEF g
<1> HIDE DEF c
<1>2. /\ x < got - p => c[x + 1] = wire.bytes[p + x + 1]
      /\ x + 1 < got - p => c[x + 2] = wire.bytes[p + x + 2]
  <2>1. x < got - p => x + 1 \in 1..(got - p) /\ p + (x + 1) = p + x + 1
    BY <1>1
  <2>2. x + 1 < got - p => x + 2 \in 1..(got - p) /\ p + (x + 2) = p + x + 2
    BY <1>1
  <2> QED BY <1>1, <2>1, <2>2
<1>3. \/ /\ OptEndOfLine(wire.bytes, p + x) = p + x
         /\ \/ p + x = L
            \/ wire.bytes[p + x + 1] \notin {LF, CR}
            \/ wire.bytes[p + x + 1] = CR /\ (p + x + 1 = L \/ wire.bytes[p + x + 2] # LF)
      \/ p + x < L /\ OptEndOfLine(wire.bytes, p + x) = p + x + 1 /\ wire.bytes[p + x + 1] = LF
      \/ /\ p + x + 1 < L /\ OptEndOfLine(wire.bytes, p + x) = p + x + 2
         /\ wire.bytes[p + x + 1] = CR /\ wire.bytes[p + x + 2] = LF
  BY <1>1, EndOfLineSymbols
<1>4. \/ /\ OptEndOfLine(c, x) = x
         /\ \/ x = got - p
            \/ c[x + 1] \notin {LF, CR}
            \/ c[x + 1] = CR /\ (x + 1 = got - p \/ c[x + 2] # LF)
      \/ x < got - p /\ OptEndOfLine(c, x) = x + 1 /\ c[x + 1] = LF
      \/ x + 1 < got - p /\ OptEndOfLine(c, x) = x + 2 /\ c[x + 1] = CR /\ c[x + 2] = LF
  <2>1. x \in 0..Len(c)
    BY <1>1
  <2> QED BY <1>1, <2>1, EndOfLineSymbols
<1>5. CASE OptEndOfLine(wire.bytes, p + x) = p + x
  <2>1. OptEndOfLine(c, x) = x
    BY <1>1, <1>2, <1>3, <1>4, <1>5, SymbolsApart, SMTT(30)
  <2> QED BY <1>1, <1>5, <2>1 DEF c
<1>6. CASE p + x < L /\ OptEndOfLine(wire.bytes, p + x) = p + x + 1 /\ wire.bytes[p + x + 1] = LF
  <2>1. OptEndOfLine(c, x) = IF x < got - p THEN x + 1 ELSE x
    BY <1>1, <1>2, <1>4, <1>6, SymbolsApart
  <2> QED BY <1>1, <1>6, <2>1 DEF c
<1>7. CASE /\ p + x + 1 < L /\ OptEndOfLine(wire.bytes, p + x) = p + x + 2
           /\ wire.bytes[p + x + 1] = CR /\ wire.bytes[p + x + 2] = LF
  <2>1. OptEndOfLine(c, x) = IF x + 1 < got - p THEN x + 2 ELSE x
    BY <1>1, <1>2, <1>4, <1>7, SymbolsApart
  <2> QED BY <1>1, <1>7, <2>1 DEF c
<1> QED BY <1>3, <1>5, <1>6, <1>7

-----------------------------------------------------------------------------

\* Where frame k ends, and where the line ending behind it does; 0 stands for
\* the beginning of the stream.
EndAt(k) == IF k = 0 THEN 0 ELSE sent[k].last
EolAt(k) == OptEndOfLine(wire.bytes, EndAt(k))

\* In a stream without blank lines a frame begins behind the line ending of the
\* one before.
LEMMA OneEndingFacts ==
  ASSUME Sent, OneEnding, NEW k \in 0..Len(sent)
  PROVE  /\ EndAt(k) \in Nat /\ EolAt(k) \in Nat /\ EndAt(k) <= EolAt(k)
         /\ EolAt(k) <= EndAt(k) + 2 /\ EolAt(k) <= Len(wire.bytes)
         /\ EndAt(k) \in Ends
         /\ OptEndOfLine(wire.bytes, EolAt(k)) = EolAt(k)
         /\ k > 0 => EolAt(k) = Position(k) /\ EolAt(k) \in Ends
         /\ k < Len(sent) => /\ k + 1 \in 1..Len(sent)
                             /\ sent[k + 1].first = EolAt(k) + 1
                             /\ sent[k + 1].last \in Nat
                             /\ EolAt(k) < sent[k + 1].last
<1> DEFINE L == Len(wire.bytes)
           e == EndAt(k)
           q == EolAt(k)
<1>1. /\ L \in Nat /\ Len(sent) \in Nat /\ wire.bytes \in Seq(STRING)
  BY SentOrder DEF Sent
<1>2. e \in 0..L /\ e \in Ends /\ (k > 0 => q = Position(k) /\ q \in Ends)
  <2>1. CASE k = 0
    <3>1. Position(0) = 0
      BY SentOrder
    <3> QED BY <1>1, <2>1, <3>1 DEF EndAt, Ends
  <2>2. CASE k # 0
    <3>1. k \in 1..Len(sent) /\ e = sent[k].last /\ k \in 0..Len(sent)
      BY <1>1, <2>2 DEF EndAt
    <3>2. /\ sent[k].last \in 1..sent[k].next /\ sent[k].next \in 1..L
          /\ sent[k].next = OptEndOfLine(wire.bytes, sent[k].last)
          /\ Position(k) = sent[k].next
      BY <3>1, SentOrder
    <3>3. e \in 0..L
      BY <1>1, <3>1, <3>2
    <3> QED BY <3>1, <3>2, <3>3 DEF Ends, EolAt
  <2> QED BY <2>1, <2>2
<1>3. q \in e..L /\ q <= e + 2
  <2>1. q \in e..L
    BY <1>1, <1>2, OptEndOfLineRange DEF EolAt
  <2>2. q = e \/ q = e + 1 \/ q = e + 2
    BY <1>1, <1>2, EndOfLineSymbols DEF EolAt
  <2> QED BY <1>1, <1>2, <2>1, <2>2
<1>4. OptEndOfLine(wire.bytes, q) = q
  BY Zenon DEF OneEnding, EolAt, EndAt
<1> HIDE DEF e, q
<1>5. ASSUME k < Len(sent)
      PROVE  /\ k + 1 \in 1..Len(sent) /\ sent[k + 1].first = q + 1
             /\ sent[k + 1].last \in Nat /\ q < sent[k + 1].last
  <2>1. PICK l \in 1..Len(sent) : l = k + 1 /\ l - 1 = k
    BY <1>1, <1>5
  <2> DEFINE p == Position(k)
             w == Rest(wire.bytes, p)
  <2>2. /\ sent[l].first \in 1..sent[l].last /\ sent[l].last \in 1..sent[l].next
        /\ sent[l].next \in 1..L /\ sent[l] = FrameAt(wire.bytes, p) /\ p \in 0..L
    BY <2>1, SentOrder
  <2>3. sent[l].first = p + Start(w) + 1
    BY <2>2 DEF FrameAt
  <2>4. p + Start(w) = OptEndOfLine(wire.bytes, p)
    <3>1. 0 \in 0..(L - p) /\ p + 0 = p
      BY <1>1, <2>2
    <3>2. OptEndOfLine(wire.bytes, p + 0) = p + OptEndOfLine(w, 0)
      BY <1>1, <2>2, <3>1, RestEndOfLine
    <3> QED BY <3>1, <3>2 DEF Start
  <2>5. OptEndOfLine(wire.bytes, p) = q
    <3>1. CASE k = 0
      <4>1. p = 0 /\ e = 0
        BY <3>1, SentOrder DEF e, EndAt
      <4> QED BY <4>1 DEF q, e, EolAt
    <3>2. CASE k # 0
      <4>1. k > 0
        BY <1>1, <3>2
      <4> QED BY <1>2, <1>4, <4>1
    <3> QED BY <3>1, <3>2
  <2> HIDE DEF p, w
  <2> QED BY <1>1, <1>2, <1>3, <2>1, <2>2, <2>3, <2>4, <2>5
<1> QED BY <1>1, <1>2, <1>3, <1>4, <1>5 DEF e, q

\* The ends follow one another.
LEMMA EndsGrow ==
  ASSUME Sent, OneEnding, NEW j \in 0..Len(sent), NEW k \in 0..Len(sent), j < k
  PROVE  EolAt(j) < EndAt(k)
<1>1. Len(sent) \in Nat /\ j < Len(sent) /\ k \in 1..Len(sent) /\ EndAt(k) = sent[k].last
  BY SentOrder DEF EndAt
<1>2. j + 1 \in 1..Len(sent) /\ EolAt(j) \in Nat /\ EolAt(j) < sent[j + 1].last
      /\ sent[j + 1].last \in Nat
  BY <1>1, OneEndingFacts
<1>3. sent[j + 1].last <= sent[k].last
  <2>1. PICK l \in 1..Len(sent) : l = j + 1
    BY <1>2
  <2>2. CASE l = k
    BY <1>2, <2>1, <2>2
  <2>3. CASE l # k
    <3>1. l < k
      BY <1>1, <2>1, <2>3
    <3>2. sent[l].last < sent[k].first
      BY <3>1, SentApart
    <3>3. sent[k].first \in 1..sent[k].last /\ sent[k].last \in 1..sent[k].next
          /\ sent[k].next \in 1..Len(wire.bytes) /\ Len(wire.bytes) \in Nat
      BY SentOrder
    <3> QED BY <1>2, <2>1, <3>2, <3>3
  <2> QED BY <2>2, <2>3
<1>4. sent[k].last \in Nat
  <2>1. sent[k].last \in 1..sent[k].next /\ sent[k].next \in 1..Len(wire.bytes) /\ Len(wire.bytes) \in Nat
    BY <1>1, SentOrder
  <2> QED BY <2>1
<1> QED BY <1>1, <1>2, <1>3, <1>4

\* The first symbol of a frame stays the first when more arrives.
LEMMA StartStands ==
  ASSUME NEW s, NEW g, Extends(s, g), Start(s) < Len(s), s[Start(s) + 1] \notin {CR, LF}
  PROVE  Start(g) = Start(s)
<1>1. Len(s) \in Nat /\ Len(g) \in Nat /\ Len(s) <= Len(g) /\ Start(s) \in 0..Len(s)
  <2>1. Len(s) \in Nat
    BY DEF Extends
  <2> QED BY <2>1, PartsRange DEF Extends
<1>2. CASE Len(s) >= 2
  BY <1>2, StartStays
<1>3. CASE Len(s) = 1
  <2>1. Start(s) = 0 /\ 0 + 1 = 1 /\ 1 \in 1..Len(s) /\ 0 \in 0..Len(g)
    BY <1>1, <1>3
  <2>2. g[0 + 1] \notin {CR, LF}
    BY <2>1 DEF Extends
  <2>3. \/ OptEndOfLine(g, 0) = 0
        \/ g[0 + 1] = LF
        \/ g[0 + 1] = CR
    BY <1>1, <2>1, EndOfLineSymbols
  <2> QED BY <2>1, <2>2, <2>3 DEF Start
<1>4. Len(s) = 1 \/ Len(s) >= 2
  <2> DEFINE n == Len(s)
             a == Start(s)
  <2>1. n \in Nat /\ a \in 0..n /\ a < n
    BY <1>1
  <2> HIDE DEF n, a
  <2>2. n = 1 \/ n >= 2
    BY <2>1
  <2> QED BY <2>2 DEF n
<1> QED BY <1>2, <1>3, <1>4

\* Two buffers that are the same from the first symbol of a frame on are both
\* refused, or none is.
LEMMA FailsMoves ==
  ASSUME NEW s \in Seq(STRING), NEW t \in Seq(STRING), Letters # {}, NEW n,
         Start(s) < Len(s), s[Start(s) + 1] \notin {CR, LF},
         Len(s) = Start(s) + n, Len(t) = Start(t) + n,
         Window(s, Start(s), t, Start(t), n), Stop(s) = Fails
  PROVE  Stop(t) = Fails
<1> DEFINE S == STRING \cup Letters \cup {LF, Colon, NUL}
           a == Start(s)
           b == Start(t)
<1>1. /\ Len(s) \in Nat /\ Len(t) \in Nat /\ a \in Nat /\ b \in Nat /\ n \in Nat /\ n > 0
      /\ s \in Seq(S) /\ t \in Seq(S)
      /\ Len(s) = a + n /\ Len(t) = b + n /\ a < Len(s) /\ b < Len(t)
  <2>1. a \in Nat /\ b \in Nat /\ n \in Nat /\ Len(s) \in Nat /\ Len(t) \in Nat
    BY DEF Window
  <2>2. STRING \subseteq S
    OBVIOUS
  <2> HIDE DEF S
  <2>3. s \in Seq(S) /\ t \in Seq(S)
    BY <2>2, SeqMonotone, Zenon
  <2>4. Len(s) = a + n /\ Len(t) = b + n /\ a < Len(s)
    OBVIOUS
  <2> HIDE DEF a, b
  <2>5. n > 0 /\ b < Len(t)
    BY <2>1, <2>4
  <2> QED BY <2>1, <2>3, <2>4, <2>5
<1>2. LF \in S /\ Colon \in S /\ NUL \in S /\ Letters \subseteq S
  OBVIOUS
<1> HIDE DEF S
<1>3. t[b + 1] \notin {CR, LF}
  <2>1. 0 \in 0..(n - 1)
    BY <1>1
  <2>2. s[a + 0 + 1] = t[b + 0 + 1]
    BY <2>1, WindowAt
  <2> QED BY <1>1, <2>2
<1>4. ASSUME NEW u \in Seq(S), Stop(t \o u) >= 0 PROVE FALSE
  <2> DEFINE x == s \o u
             y == t \o u
  <2>1. /\ Extends(s, x) /\ Extends(t, y) /\ x \in Seq(S) /\ y \in Seq(S) /\ Len(u) \in Nat
        /\ Len(x) = Len(s) + Len(u) /\ Len(y) = Len(t) + Len(u)
        /\ \A i \in 1..Len(u) : x[Len(s) + i] = u[i] /\ y[Len(t) + i] = u[i]
    <3>1. u \in Seq(S) /\ s \in Seq(S) /\ t \in Seq(S)
      BY <1>1
    <3>2. /\ Extends(s, s \o u) /\ s \o u \in Seq(S) /\ Len(s \o u) = Len(s) + Len(u)
          /\ \A i \in 1..Len(u) : (s \o u)[Len(s) + i] = u[i]
      BY ONLY <3>1, ExtendsAppended
    <3>3. /\ Extends(t, t \o u) /\ t \o u \in Seq(S) /\ Len(t \o u) = Len(t) + Len(u)
          /\ \A i \in 1..Len(u) : (t \o u)[Len(t) + i] = u[i]
      BY ONLY <3>1, ExtendsAppended
    <3>4. Len(u) \in Nat
      BY <3>1
    <3> QED BY <3>2, <3>3, <3>4
  <2> HIDE DEF x, y
  <2>2. Start(x) = a /\ Start(y) = b
    BY <1>1, <1>3, <2>1, StartStands
  <2> DEFINE l == Len(u)
             m == n + l
             S1 == Len(s)
             T1 == Len(t)
             X1 == Len(x)
             Y1 == Len(y)
  <2>8. /\ S1 \in Nat /\ T1 \in Nat /\ X1 \in Nat /\ Y1 \in Nat /\ l \in Nat /\ m \in Nat
        /\ S1 = a + n /\ T1 = b + n /\ X1 = a + m /\ Y1 = b + m
    <3>1. /\ S1 \in Nat /\ T1 \in Nat /\ a \in Nat /\ b \in Nat /\ n \in Nat /\ l \in Nat
          /\ S1 = a + n /\ T1 = b + n /\ X1 = S1 + l /\ Y1 = T1 + l
      BY <1>1, <2>1
    <3> HIDE DEF a, b, l, S1, T1, X1, Y1
    <3> QED BY <3>1
  <2>3. Window(y, b, x, a, m)
    <3>1. ASSUME NEW i \in 1..m PROVE y[b + i] = x[a + i]
      <4>1. CASE i <= n
        <5>1. i \in 1..n /\ a + i \in 1..Len(s) /\ b + i \in 1..Len(t)
          <6> HIDE DEF S1, T1, a, b
          <6>1. i \in 1..n /\ a + i \in 1..S1 /\ b + i \in 1..T1
            BY <1>1, <2>8, <4>1
          <6> QED BY <6>1 DEF S1, T1
        <5>2. s[a + i] = t[b + i]
          BY <5>1 DEF Window
        <5> QED BY <2>1, <5>1, <5>2 DEF Extends
      <4>2. CASE i > n
        <5>1. i - n \in 1..Len(u) /\ Len(s) + (i - n) = a + i /\ Len(t) + (i - n) = b + i
          <6> HIDE DEF S1, T1, a, b, l
          <6>1. i - n \in 1..l /\ S1 + (i - n) = a + i /\ T1 + (i - n) = b + i
            BY <1>1, <2>8, <4>2
          <6> QED BY <6>1 DEF S1, T1, l
        <5> QED BY <2>1, <5>1
      <4> QED BY <1>1, <2>8, <4>1, <4>2, SMTT(30)
    <3>2. Len(x) \in Nat /\ Len(y) \in Nat /\ m \in Nat /\ a + m <= Len(x) /\ b + m <= Len(y)
      <4> HIDE DEF a, b, m
      <4> QED BY <1>1, <2>8
    <3> QED BY <1>1, <3>1, <3>2 DEF Window
  <2>4. Stop(y) >= 0 /\ BodyStop(y) + 1 <= b + m
    <3>1. Stop(y) >= 0 /\ Len(y) \in Nat
      BY <1>1, <1>4, <2>1, SMTT(30) DEF y
    <3>2. BodyStop(y) \in (b + 1)..(Len(y) - 1)
      BY <2>2, <3>1, FoundInOrder
    <3> HIDE DEF m
    <3> QED BY <1>1, <2>8, <3>1, <3>2, SMTT(30)
  <2>5. Stop(x) >= 0
    <3>1. Window(y, Start(y), x, Start(x), m) /\ BodyStop(y) + 1 <= Start(y) + m
      BY <2>2, <2>3, <2>4
    <3> HIDE DEF m
    <3> QED BY <2>4, <3>1, FrameMoves
  <2>6. ~ (Len(s) = 1 /\ s[1] = CR)
    <3> SUFFICES ASSUME Len(s) = 1, s[1] = CR PROVE FALSE
      OBVIOUS
    <3>1. a = 0 /\ a + 1 = 1
      BY <1>1
    <3>2. s[a + 1] \notin {CR, LF}
      OBVIOUS
    <3> QED BY <3>1, <3>2
  <2>7. Stop(x) = Fails
    <3>1. ParseFrame(s).end = Fails => ParseFrame(x).end = Fails
      BY <2>1, <2>6, ParseFrameStable
    <3>2. Len(x) \in Nat
      BY <1>1, <2>1
    <3> QED BY <1>1, <3>1, <3>2, ParseFrameDef
  <2> QED BY <2>5, <2>7 DEF Fails
<1>5. Stop(t) # NeedsMore
  <2> SUFFICES ASSUME Stop(t) = NeedsMore PROVE FALSE
    OBVIOUS
  <2>1. ParseFrame(t).end = NeedsMore
    BY <1>1, ParseFrameDef
  <2>2. PICK u \in Seq(S) : ParseFrame(t \o u).end >= 0
    BY <1>1, <1>2, <2>1, IncompleteViable DEF Viable
  <2>3. Len(t \o u) \in Nat
    BY <1>1, <2>2, ExtendsAppended
  <2>4. Stop(t \o u) >= 0
    BY <2>2, <2>3, ParseFrameDef
  <2> QED BY <1>4, <2>4
<1>6. ~ (Stop(t) >= 0)
  <2> SUFFICES ASSUME Stop(t) >= 0 PROVE FALSE
    OBVIOUS
  <2>1. << >> \in Seq(S) /\ t \o << >> = t
    BY <1>1
  <2> QED BY <1>4, <2>1
<1>7. Stop(t) \in {NeedsMore, Fails} \cup (0..Len(t))
  BY <1>1, PartsRange
<1> QED BY <1>1, <1>5, <1>6, <1>7

\* The line ending in front makes no difference to what is refused behind it.
LEMMA EndingSkipped ==
  ASSUME Sent, OneEnding, NEW k \in 1..Len(sent), NEW got \in (EolAt(k) + 1)..Len(wire.bytes)
  PROVE  Stop(Text(Span(EndAt(k), got))) = Fails <=> Stop(Text(Span(EolAt(k), got))) = Fails
<1> DEFINE L == Len(wire.bytes)
           e == EndAt(k)
           q == EolAt(k)
           b == Span(e, got)
           h == Span(q, got)
           s == Text(b)
           t == Text(h)
           n == got - q
<1>1. /\ L \in Nat /\ Len(sent) \in Nat /\ k \in 0..Len(sent) /\ e \in Nat /\ q \in Nat /\ e <= q
      /\ q <= L /\ OptEndOfLine(wire.bytes, q) = q
  BY SentOrder, OneEndingFacts
<1>2. got \in 0..L /\ e \in 0..got /\ q \in 0..got /\ n \in Nat /\ n > 0 /\ q = OptEndOfLine(wire.bytes, e)
  <2>1. got \in (q + 1)..L /\ q = OptEndOfLine(wire.bytes, e)
    BY DEF EolAt
  <2> HIDE DEF e, q
  <2> QED BY <1>1, <2>1
<1>3. /\ InOrder(b) /\ Len(b) = got - e /\ Len(s) = Len(b) /\ s \in Seq(STRING)
      /\ \A i \in 1..Len(b) : s[i] = wire.bytes[e + i]
  <2> HIDE DEF e, q
  <2> QED BY <1>2, SpanFacts, SMTT(30)
<1>4. /\ InOrder(h) /\ Len(h) = got - q /\ Len(t) = Len(h) /\ t \in Seq(STRING)
      /\ \A i \in 1..Len(h) : t[i] = wire.bytes[q + i]
  <2> HIDE DEF e, q
  <2> QED BY <1>2, SpanFacts
<1> HIDE DEF e, q
<1>5. Start(s) = q - e
  <2>1. 0 \in 0..(got - e) /\ e + 0 = e /\ q <= got
    BY <1>1, <1>2
  <2>2. OptEndOfLine(s, 0) = IF OptEndOfLine(wire.bytes, e + 0) <= got
                             THEN OptEndOfLine(wire.bytes, e + 0) - e ELSE 0
    BY <1>2, <2>1, SpanEndOfLine
  <2> QED BY <1>2, <2>1, <2>2 DEF Start
<1>6. Start(t) = 0
  <2>1. 0 \in 0..(got - q) /\ q + 0 = q /\ q - q = 0
    BY <1>1, <1>2
  <2>2. OptEndOfLine(t, 0) = IF OptEndOfLine(wire.bytes, q + 0) <= got
                             THEN OptEndOfLine(wire.bytes, q + 0) - q ELSE 0
    BY <1>2, <2>1, SpanEndOfLine
  <2> QED BY <1>1, <1>2, <2>1, <2>2 DEF Start
<1> HIDE DEF b, h, s, t, n
<1>7. Window(s, Start(s), t, Start(t), n) /\ Len(s) = Start(s) + n /\ Len(t) = Start(t) + n
      /\ Start(s) < Len(s) /\ Start(t) < Len(t)
  <2>1. /\ Len(s) = (q - e) + n /\ Len(t) = 0 + n /\ n \in Nat /\ q - e \in Nat
        /\ q - e < Len(s) /\ 0 < Len(t) /\ Len(s) \in Nat /\ Len(t) \in Nat
    <3> DEFINE x == Len(s)
               y == Len(t)
    <3>1. x = got - e /\ y = got - q
      BY <1>3, <1>4
    <3> HIDE DEF x, y
    <3>2. /\ x = (q - e) + n /\ y = 0 + n /\ n \in Nat /\ q - e \in Nat
          /\ q - e < x /\ 0 < y /\ x \in Nat /\ y \in Nat
      BY <1>1, <1>2, <3>1, SMTT(30) DEF n
    <3> QED BY <3>2 DEF x, y
  <2>2. ASSUME NEW i \in 1..n PROVE s[(q - e) + i] = t[0 + i]
    <3>1. (q - e) + i \in 1..Len(b) /\ i \in 1..Len(h) /\ e + ((q - e) + i) = q + i /\ 0 + i = i
      <4>1. Len(b) = got - e /\ Len(h) = got - q
        BY <1>3, <1>4
      <4>2. (q - e) + i \in 1..(got - e) /\ i \in 1..(got - q) /\ e + ((q - e) + i) = q + i /\ 0 + i = i
        BY <1>1, <1>2 DEF n
      <4> QED BY <4>1, <4>2
    <3>2. s[(q - e) + i] = wire.bytes[e + ((q - e) + i)] /\ t[i] = wire.bytes[q + i]
      BY <1>3, <1>4, <3>1
    <3> QED BY <3>1, <3>2
  <2> QED BY <1>5, <1>6, <2>1, <2>2 DEF Window
<1>8. s[Start(s) + 1] = t[Start(t) + 1]
  <2>1. 0 \in 0..(n - 1) /\ Start(s) + 0 + 1 = Start(s) + 1 /\ Start(t) + 0 + 1 = Start(t) + 1
    BY <1>1, <1>2, <1>5, <1>6 DEF n
  <2> QED BY <1>7, <2>1, WindowAt
<1>9. ASSUME s[Start(s) + 1] \in {CR, LF} PROVE Stop(s) = Fails /\ Stop(t) = Fails
  <2>1. Start(s) < Len(b) /\ Start(t) < Len(h) /\ t[Start(t) + 1] \in {CR, LF}
    BY <1>3, <1>4, <1>7, <1>8, <1>9
  <2>2. Stop(s) = Fails
    BY <1>3, <1>9, <2>1, FrontSymbols DEF s
  <2>3. Stop(t) = Fails
    BY <1>4, <2>1, FrontSymbols DEF t
  <2> QED BY <2>2, <2>3
<1>10. ASSUME s[Start(s) + 1] \notin {CR, LF} PROVE Stop(s) = Fails <=> Stop(t) = Fails
  <2>1. Letters # {}
    BY SentOrder
  <2>2. Window(t, Start(t), s, Start(s), n)
    BY <1>7, WindowBack
  <2>3. s \in Seq(STRING) /\ t \in Seq(STRING) /\ t[Start(t) + 1] \notin {CR, LF}
    BY <1>3, <1>4, <1>8, <1>10
  <2>4. Stop(s) = Fails => Stop(t) = Fails
    BY <1>7, <1>10, <2>1, <2>3, FailsMoves
  <2>5. Stop(t) = Fails => Stop(s) = Fails
    BY <1>7, <2>1, <2>2, <2>3, FailsMoves
  <2> QED BY <2>4, <2>5
<1>11. Stop(s) = Fails <=> Stop(t) = Fails
  BY <1>9, <1>10
<1> QED BY <1>11 DEF s, t, b, h, e, q

\* What is refused behind a line ending stays refused.
LEMMA FailsLater ==
  ASSUME Sent, OneEnding, NEW k \in 0..Len(sent), NEW e \in (EolAt(k) + 1)..Len(wire.bytes),
         NEW got \in e..Len(wire.bytes), Stop(Text(Span(EndAt(k), e))) = Fails
  PROVE  Stop(Text(Span(EndAt(k), got))) = Fails
<1> DEFINE L == Len(wire.bytes)
           p == EndAt(k)
           q == EolAt(k)
           b == Span(p, e)
           h == Span(p, got)
           s == Text(b)
           g == Text(h)
<1>1. /\ L \in Nat /\ p \in Nat /\ q \in Nat /\ p <= q /\ q <= L /\ q = OptEndOfLine(wire.bytes, p)
  BY SentOrder, OneEndingFacts DEF EolAt
<1>2. e \in (q + 1)..L /\ got \in e..L
  OBVIOUS
<1> HIDE DEF p, q
<1>3. e \in 0..L /\ got \in 0..L /\ p \in 0..e /\ p \in 0..got /\ e - p > 0 /\ e <= got
  BY <1>1, <1>2
<1>4. /\ InOrder(b) /\ Len(b) = e - p /\ Len(s) = Len(b) /\ s \in Seq(STRING)
      /\ \A i \in 1..Len(b) : s[i] = wire.bytes[p + i]
  BY <1>3, SpanFacts, ZenonT(40)
<1>5. /\ InOrder(h) /\ Len(h) = got - p /\ Len(g) = Len(h) /\ g \in Seq(STRING)
      /\ \A i \in 1..Len(h) : g[i] = wire.bytes[p + i]
  BY <1>3, SpanFacts, ZenonT(40)
<1>6. Stop(s) = Fails
  BY DEF p
<1>7. OptEndOfLine(g, 0) = IF q <= got THEN q - p ELSE 0
  <2>1. 0 \in 0..(got - p) /\ p + 0 = p
    BY <1>1, <1>3
  <2>2. OptEndOfLine(g, 0) = IF OptEndOfLine(wire.bytes, p + 0) <= got
                             THEN OptEndOfLine(wire.bytes, p + 0) - p ELSE 0
    BY <1>3, <2>1, SpanEndOfLine
  <2> QED BY <1>1, <2>1, <2>2
<1> HIDE DEF b, h, s, g
<1>8. Extends(s, g)
  <2>1. Len(s) \in Nat /\ Len(g) \in Nat /\ Len(s) <= Len(g) /\ \A i \in 1..Len(s) : i \in 1..Len(g)
    BY <1>1, <1>3, <1>4, <1>5
  <2> QED BY <1>4, <1>5, <2>1 DEF Extends
<1>9. CASE Len(s) = 1 /\ s[1] = CR
  <2>1. e = p + 1 /\ q = p /\ q <= got /\ 0 < Len(g) /\ 1 \in 1..Len(s)
    <3>1. e - p = 1 /\ Len(g) = got - p
      BY <1>4, <1>5, <1>9
    <3>2. e = p + 1 /\ q = p /\ q <= got /\ 0 < got - p
      BY <1>1, <1>2, <1>3, <3>1
    <3> QED BY <1>9, <3>1, <3>2
  <2>2. Start(g) = 0 /\ g[0 + 1] = CR
    BY <1>1, <1>7, <1>8, <1>9, <2>1 DEF Start, Extends
  <2>3. Stop(g) = Fails
    BY <1>5, <2>1, <2>2, FrontSymbols DEF g
  <2> QED BY <2>3 DEF g, h, p
<1>10. CASE ~ (Len(s) = 1 /\ s[1] = CR)
  <2>1. ParseFrame(s).end = Fails => ParseFrame(g).end = Fails
    BY <1>8, <1>10, ParseFrameStable
  <2>2. Len(s) \in Nat /\ Len(g) \in Nat
    BY <1>8 DEF Extends
  <2>3. Stop(g) = Fails
    BY <1>6, <2>1, <2>2, ParseFrameDef
  <2> QED BY <2>3 DEF g, h, p
<1> QED BY <1>9, <1>10

-----------------------------------------------------------------------------

\* Behind frame k, with the line ending behind it or without.
At(k, p) == p = EndAt(k) \/ (k > 0 /\ p = EolAt(k))

\* Up to got there is nothing but the CR of the CR LF behind frame k.
CRAlone(k, p, got) == EolAt(k) = EndAt(k) + 2 /\ p = EndAt(k) /\ got = p + 1

\* Where the parser stands in a buffer that begins behind frame k.
LEMMA DueStart ==
  ASSUME Sent, OneEnding, NEW k \in 0..Len(sent), NEW p, At(k, p),
         NEW got \in p..Len(wire.bytes), NEW b, b = Span(p, got), NEW c, c = Text(b)
  PROVE  /\ p \in 0..got /\ got \in 0..Len(wire.bytes) /\ Len(wire.bytes) \in Nat
         /\ EndAt(k) \in Nat /\ EolAt(k) \in Nat /\ EndAt(k) <= p /\ p <= EolAt(k)
         /\ InOrder(b) /\ Len(b) = got - p /\ Len(b) \in Nat /\ Len(c) = Len(b)
         /\ c \in Seq(STRING) /\ c = SubSeq(wire.bytes, p + 1, got)
         /\ \A i \in 1..Len(b) : b[i] = p + i /\ c[i] = wire.bytes[p + i] /\ Clean(b, i)
         /\ OptEndOfLine(wire.bytes, p) = EolAt(k)
         /\ Start(c) = IF EolAt(k) <= got THEN EolAt(k) - p ELSE 0
         /\ Stop(c) \in {NeedsMore, Fails} \cup (0..Len(c))
         /\ got <= EolAt(k) => Stop(c) = NeedsMore \/ CRAlone(k, p, got)
         /\ CRAlone(k, p, got) => Stop(c) = Fails
<1> DEFINE L == Len(wire.bytes)
           e == EndAt(k)
           q == EolAt(k)
           n == Len(b)
<1>1. /\ L \in Nat /\ e \in Nat /\ q \in Nat /\ e <= q /\ q <= e + 2 /\ q <= L /\ e \in Ends
      /\ OptEndOfLine(wire.bytes, q) = q /\ (k > 0 => q \in Ends)
      /\ OptEndOfLine(wire.bytes, e) = q
  BY SentOrder, OneEndingFacts DEF EolAt
<1>2. p = e \/ (k > 0 /\ p = q)
  BY DEF At
<1> HIDE DEF e, q
<1>3. p \in 0..got /\ got \in 0..L /\ p \in Nat /\ got \in Nat /\ e <= p /\ p <= q
      /\ p \in Ends /\ OptEndOfLine(wire.bytes, p) = q
  BY <1>1, <1>2
<1>4. /\ InOrder(b) /\ n = got - p /\ n \in Nat /\ Len(c) = n
      /\ c \in Seq(STRING) /\ c = SubSeq(wire.bytes, p + 1, got)
      /\ \A i \in 1..n : b[i] = p + i /\ c[i] = wire.bytes[p + i] /\ Clean(b, i)
  BY <1>3, SpanFacts, ZenonT(40)
<1>5. OptEndOfLine(c, 0) = IF q <= got THEN q - p ELSE 0
  <2>1. 0 \in 0..(got - p) /\ p + 0 = p
    BY <1>3
  <2>2. OptEndOfLine(c, 0) = IF OptEndOfLine(wire.bytes, p + 0) <= got
                             THEN OptEndOfLine(wire.bytes, p + 0) - p ELSE 0
    BY <1>3, <2>1, SpanEndOfLine
  <2> QED BY <1>3, <2>1, <2>2
<1>6. Start(c) = IF q <= got THEN q - p ELSE 0
  BY <1>5 DEF Start
<1> HIDE DEF n
<1>7. Stop(c) \in {NeedsMore, Fails} \cup (0..Len(c))
  BY <1>4, PartsRange
<1>8. Start(c) = n => Stop(c) = NeedsMore
  BY <1>4, FrontSymbols DEF n
<1>9. got <= q => Stop(c) = NeedsMore \/ (q = e + 2 /\ p = e /\ got = p + 1)
  <2> SUFFICES ASSUME got <= q, ~ (q = e + 2 /\ p = e /\ got = p + 1) PROVE Start(c) = n
    BY <1>8
  <2>1. CASE got = q
    BY <1>1, <1>3, <1>4, <1>6, <2>1
  <2>2. CASE got # q
    BY <1>1, <1>2, <1>3, <1>4, <1>6, <2>2
  <2> QED BY <2>1, <2>2
<1>10. ASSUME q = e + 2, p = e, got = p + 1 PROVE Stop(c) = Fails
  <2>1. Start(c) = 0 /\ n = 1 /\ 1 \in 1..n /\ p < L /\ 0 < n /\ p \in 0..L
    <3>1. ~ (q <= got)
      BY <1>1, <1>3, <1>10
    <3>2. Start(c) = 0
      BY <1>6, <3>1
    <3>3. n = 1
      BY <1>3, <1>4, <1>10
    <3>4. p < L /\ p \in 0..L
      BY <1>1, <1>3, <1>10
    <3> QED BY <3>2, <3>3, <3>4
  <2>2. q = p + 2 /\ q # p /\ q # p + 1
    BY <1>1, <1>3, <1>10
  <2>3. wire.bytes[p + 1] = CR
    BY <1>1, <1>3, <2>1, <2>2, EndOfLineSymbols
  <2>4. c[1] = wire.bytes[p + 1]
    BY <1>4, <2>1
  <2>5. 0 + 1 = 1
    OBVIOUS
  <2>6. c[Start(c) + 1] \in {CR, LF} /\ Start(c) < Len(b)
    BY <2>1, <2>3, <2>4, <2>5 DEF n
  <2> QED BY <1>4, <2>6, FrontSymbols
<1> QED BY <1>1, <1>3, <1>4, <1>6, <1>7, <1>9, <1>10 DEF e, q, n, CRAlone

\* What is found in it is the next frame of the stream.
LEMMA DueIsFound ==
  ASSUME Sent, OneEnding, NEW k \in 0..Len(sent), NEW p, At(k, p),
         NEW got \in p..Len(wire.bytes), NEW c, c = Text(Span(p, got)), Stop(c) >= 0
  PROVE  /\ k < Len(sent)
         /\ p + Start(c) + 1 = sent[k + 1].first
         /\ p + (BodyStop(c) + 1) = sent[k + 1].last
<1> DEFINE L == Len(wire.bytes)
           b == Span(p, got)
           n == Len(b)
           st == Start(c)
           m == BodyStop(c) + 1
           s == Stop(c)
<1>1. /\ p \in Nat /\ got \in Nat /\ Len(sent) \in Nat /\ EndAt(k) \in Nat /\ EndAt(k) <= p
      /\ p <= EolAt(k) /\ EolAt(k) \in Nat
      /\ InOrder(b) /\ n = got - p /\ n \in Nat /\ Len(c) = n
      /\ \A i \in 1..n : b[i] = p + i /\ Clean(b, i)
  BY DueStart, SentOrder
<1>2. /\ st \in 0..n /\ BodyStop(c) \in (st + 1)..(n - 1) /\ s \in (BodyStop(c) + 1)..n
  BY <1>1, FoundInOrder
<1>3. /\ st + 1 \in 1..n /\ m \in 1..n /\ s \in m..n /\ m \in Nat /\ st \in Nat
  <2> HIDE DEF n, st, s
  <2> QED BY <1>1, <1>2, SMTT(30)
<1>4. c = Text(b) /\ Clean(b, BodyStop(Text(b)) + 1) /\ Stop(Text(b)) >= 0
  BY <1>1, <1>3
<1>5. PICK l \in 1..Len(sent) : b[st + 1] = sent[l].first /\ b[m] = sent[l].last
  BY <1>1, <1>4, FindsSent
<1>6. sent[l].first = p + st + 1 /\ sent[l].last = p + m
  BY <1>1, <1>3, <1>5, SMTT(30)
<1> HIDE DEF b, n, st, m, s
<1>7. ~ (l <= k)
  <2> SUFFICES ASSUME l <= k PROVE FALSE
    OBVIOUS
  <2>1. k \in 1..Len(sent) /\ EndAt(k) = sent[k].last
    BY <1>1 DEF EndAt
  <2>2. sent[l].last <= sent[k].last
    <3>1. CASE l = k
      BY <1>1, <1>3, <1>6, <3>1
    <3>2. CASE l # k
      <4>1. l < k
        BY <1>1, <3>2
      <4>2. sent[l].last < sent[k].first
        BY <2>1, <4>1, SentApart
      <4>3. sent[k].first \in 1..sent[k].last /\ sent[k].last \in Nat
        <5>1. sent[k].first \in 1..sent[k].last /\ sent[k].last \in 1..sent[k].next
          BY <2>1, SentOrder
        <5> QED BY <2>1, <5>1, <1>1
      <4> QED BY <1>1, <1>3, <1>6, <4>2, <4>3
    <3> QED BY <3>1, <3>2
  <2> QED BY <1>1, <1>3, <1>6, <2>1, <2>2
<1>8. k < Len(sent) /\ k + 1 \in 1..Len(sent)
  BY <1>1, <1>7
<1>9. l = k + 1
  <2> SUFFICES ASSUME l # k + 1 PROVE FALSE
    OBVIOUS
  <2>1. PICK j \in 1..Len(sent) : j = k + 1
    BY <1>8
  <2>2. j < l
    BY <1>1, <1>7, <2>1
  <2>3. sent[j].last < sent[l].first /\ sent[j].last \in Nat /\ EolAt(k) < sent[j].last
    BY <1>8, <2>1, <2>2, SentApart, OneEndingFacts
  <2> DEFINE i == sent[j].last - p
  <2>4. i \in 1..s /\ i \in 1..n /\ p + i = sent[j].last
    <3> DEFINE x == sent[j].last
               f == sent[l].first
               z == sent[l].last
               q == EolAt(k)
    <3>1. /\ x \in Nat /\ q \in Nat /\ q < x /\ x < f /\ f = p + st + 1 /\ p <= q /\ p \in Nat
          /\ st \in Nat /\ m \in 1..n /\ s \in m..n /\ st + 1 <= m /\ n \in Nat /\ m \in Nat
      <4>1. st + 1 <= m
        <5>1. BodyStop(c) \in (st + 1)..(n - 1) /\ st \in Nat /\ n \in Nat
          BY <1>1, <1>2, <1>3
        <5> QED BY <5>1 DEF m
      <4> QED BY <1>1, <1>3, <1>6, <2>3, <4>1
    <3> HIDE DEF x, f, z, q
    <3>2. x - p \in 1..s /\ x - p \in 1..n /\ p + (x - p) = x
      BY <3>1
    <3> QED BY <3>2 DEF x
  <2> HIDE DEF i
  <2>5. b[i] = sent[j].last
    BY <1>1, <2>4 DEF n
  <2>6. /\ b[Start(Text(b)) + 1] = sent[l].first
        /\ b[BodyStop(Text(b)) + 1] = sent[l].last
        /\ i \in 1..Stop(Text(b))
    BY <1>4, <1>5, <2>4 DEF st, m, s
  <2>7. j = l
    BY <1>1, <1>4, <2>5, <2>6, TakesOneEnd
  <2> QED BY <2>2, <2>7, <1>1
<1> QED BY <1>6, <1>8, <1>9 DEF st, m

\* When it asks for more, the next frame has not arrived.
LEMMA DueIsAwaited ==
  ASSUME Sent, OneEnding, NEW k \in 0..Len(sent), k < Len(sent), NEW p, At(k, p),
         NEW got \in p..Len(wire.bytes), Stop(Text(Span(p, got))) = NeedsMore
  PROVE  got < EndAt(k + 1)
<1> DEFINE L == Len(wire.bytes)
           b == Span(p, got)
           n == Len(b)
<1>1. /\ p \in Nat /\ got \in Nat /\ Len(sent) \in Nat /\ p <= EolAt(k) /\ EolAt(k) \in Nat
      /\ InOrder(b) /\ n = got - p /\ n \in Nat
      /\ \A i \in 1..n : b[i] = p + i /\ Clean(b, i)
  BY DueStart, SentOrder
<1>2. PICK j \in 1..Len(sent) : j = k + 1
  BY <1>1
<1>3. EndAt(k + 1) = sent[j].last /\ EolAt(k) < sent[j].last /\ sent[j].last \in Nat
  BY <1>1, <1>2, OneEndingFacts DEF EndAt
<1> HIDE DEF b, n
<1> SUFFICES ASSUME sent[j].last <= got PROVE FALSE
  BY <1>1, <1>3
<1>4. sent[j].last - p \in 1..n /\ p + (sent[j].last - p) = sent[j].last
  BY <1>1, <1>3
<1>5. PICK m \in 1..n : m = sent[j].last - p
  BY <1>4
<1>6. b[m] = sent[j].last /\ Clean(b, m)
  BY <1>1, <1>4, <1>5
<1>7. Stop(Text(b)) # NeedsMore
  BY <1>1, <1>6, NoWaitBehindFrame DEF n
<1> QED BY <1>7 DEF b

\* It is refused on the first symbol of a CR LF only.
LEMMA DueIsRefused ==
  ASSUME Sent, OneEnding, NEW k \in 0..Len(sent), k < Len(sent), NEW p, At(k, p),
         NEW got \in p..Len(wire.bytes), Stop(Text(Span(p, got))) = Fails
  PROVE  CRAlone(k, p, got)
<1> DEFINE L == Len(wire.bytes)
           b == Span(p, got)
           c == Text(b)
           n == Len(b)
           st == Start(c)
<1>1. /\ p \in Nat /\ got \in Nat /\ Len(sent) \in Nat /\ p <= EolAt(k) /\ EolAt(k) \in Nat
      /\ InOrder(b) /\ n = got - p /\ n \in Nat /\ Len(c) = n
      /\ \A i \in 1..n : b[i] = p + i /\ c[i] = wire.bytes[p + i] /\ Clean(b, i)
      /\ st = IF EolAt(k) <= got THEN EolAt(k) - p ELSE 0
      /\ got <= EolAt(k) => Stop(c) = NeedsMore \/ CRAlone(k, p, got)
  BY DueStart, SentOrder
<1> SUFFICES ASSUME ~ (got <= EolAt(k)) PROVE FALSE
  BY <1>1 DEF NeedsMore, Fails
<1>2. PICK j \in 1..Len(sent) : j = k + 1
  BY <1>1
<1>3. sent[j].first = EolAt(k) + 1 /\ EolAt(k) < sent[j].last /\ sent[j].last \in Nat
      /\ wire.bytes[sent[j].first] \in Letters
  BY <1>1, <1>2, OneEndingFacts, SentOrder
<1>4. /\ st = EolAt(k) - p /\ st + 1 \in 1..n /\ st < n /\ n \in 1..n /\ p + (st + 1) = sent[j].first
      /\ st \in Nat /\ sent[j].first <= sent[j].last
  <2> DEFINE x == sent[j].last
             f == sent[j].first
             q == EolAt(k)
  <2>1. /\ ~ (got <= q) /\ st = IF q <= got THEN q - p ELSE 0
        /\ p \in Nat /\ got \in Nat /\ q \in Nat /\ p <= q /\ n = got - p /\ f = q + 1
        /\ q < x /\ x \in Nat
    BY <1>1, <1>3
  <2> HIDE DEF b, c, n, st, x, f, q
  <2>2. st = q - p
    BY <2>1
  <2>3. st + 1 \in 1..n /\ st < n /\ n \in 1..n /\ p + (st + 1) = f /\ st \in Nat /\ f <= x
    BY <2>1, <2>2
  <2> QED BY <2>2, <2>3 DEF x, f, q
<1>5. c[st + 1] \notin {CR, LF} /\ b[st + 1] <= sent[j].last
  BY <1>1, <1>3, <1>4, SymbolsApart
<1>6. Clean(b, n)
  BY <1>1, <1>4
<1>7. \/ Stop(Text(b)) >= 0
      \/ \E h \in 0..Len(sent) :
              /\ h + 1 \in 1..Len(sent)
              /\ sent[h + 1].last <= sent[j].last
              /\ Run(b, st, Position(h) + Start(Rest(wire.bytes, Position(h))), n - st)
              /\ Position(h) + Start(Rest(wire.bytes, Position(h))) + (n - st) < sent[h + 1].last
  <2>1. /\ n \in 1..Len(b) /\ Clean(b, n) /\ st = Start(Text(b)) /\ st < n
        /\ Text(b)[st + 1] \notin {CR, LF} /\ b[st + 1] <= sent[j].last /\ InOrder(b)
    BY <1>1, <1>4, <1>5, <1>6
  <2> HIDE DEF b, c, n, st
  <2> QED BY <2>1, FrontOfBuffer
<1>8. ~ (Stop(Text(b)) >= 0)
  BY DEF Fails
<1>9. PICK h \in 0..Len(sent) :
         /\ h + 1 \in 1..Len(sent)
         /\ Run(b, st, Position(h) + Start(Rest(wire.bytes, Position(h))), n - st)
  BY <1>7, <1>8
<1>10. Stop(Text(b)) # Fails
  BY <1>1, <1>4, <1>5, <1>9, PartDoesNotFail
<1> QED BY <1>10

\* Behind a line ending, with it or without.
LEMMA SameRefused ==
  ASSUME Sent, OneEnding, NEW k \in 0..Len(sent), NEW p, At(k, p),
         NEW got \in (EolAt(k) + 1)..Len(wire.bytes)
  PROVE  Stop(Text(Span(p, got))) = Fails <=> Stop(Text(Span(EndAt(k), got))) = Fails
<1>1. CASE p = EndAt(k)
  BY <1>1
<1>2. CASE k > 0 /\ p = EolAt(k)
  <2>1. k \in 1..Len(sent)
    BY <1>2, SentOrder
  <2> QED BY <1>2, <2>1, EndingSkipped, Zenon
<1> QED BY <1>1, <1>2 DEF At

\* FailsAt finds the first place where the parser refuses, if there is one.
LEMMA FailsAtFirst ==
  ASSUME Sent, OneEnding, NEW k \in 0..Len(sent), NEW F, F = FailsAt(wire.bytes, EndAt(k))
  PROVE  /\ \A e \in F : /\ e \in (EolAt(k) + 1)..Len(wire.bytes)
                         /\ Stop(Text(Span(EndAt(k), e))) = Fails
         /\ \A e \in (EolAt(k) + 1)..Len(wire.bytes) :
              Stop(Text(Span(EndAt(k), e))) = Fails => \E f \in F : f <= e
<1> DEFINE L == Len(wire.bytes)
           p == EndAt(k)
           q == EolAt(k)
           Refused(e) == ParseFrame(SubSeq(wire.bytes, p + 1, e)).end = Fails
           at == {e \in (q + 1)..L : Refused(e)}
<1>1. F = {e \in at : \A f \in at : e <= f}
  BY DEF FailsAt, EolAt
<1>2. L \in Nat /\ p \in Nat /\ q \in Nat /\ p <= q
  BY SentOrder, OneEndingFacts
<1>3. ASSUME NEW e \in (q + 1)..L PROVE Refused(e) <=> Stop(Text(Span(p, e))) = Fails
  <2>1. e \in 0..L /\ p \in 0..e /\ e - p \in Nat
    <3> HIDE DEF p, q
    <3> QED BY <1>2
  <2> HIDE DEF p, q
  <2>2. Text(Span(p, e)) = SubSeq(wire.bytes, p + 1, e) /\ Len(Text(Span(p, e))) \in Nat
    BY <2>1, SpanFacts
  <2> QED BY <2>2, ParseFrameDef
<1> HIDE DEF p, q, Refused
<1>4. ASSUME NEW e \in F PROVE e \in (q + 1)..L /\ Stop(Text(Span(p, e))) = Fails
  BY <1>1, <1>3, <1>4
<1>5. ASSUME NEW e \in (q + 1)..L, Stop(Text(Span(p, e))) = Fails PROVE \E f \in F : f <= e
  <2>1. e \in at /\ at \subseteq Nat
    BY <1>2, <1>3, <1>5
  <2> HIDE DEF at
  <2>2. PICK f \in at : \A d \in at : f <= d
    BY <2>1, LeastNat
  <2> QED BY <1>1, <2>1, <2>2
<1> QED BY <1>4, <1>5 DEF p, q

\* Behind the last frame nothing is found, and what is refused is refused from
\* the place on that FailsAt finds.
LEMMA NoneDue ==
  ASSUME Sent, OneEnding, NEW k, k = Len(sent), NEW p, At(k, p),
         NEW got \in p..Len(wire.bytes), NEW c, c = Text(Span(p, got))
  PROVE  /\ Stop(c) \in {NeedsMore, Fails}
         /\ Stop(c) = Fails <=> \/ CRAlone(k, p, got)
                                \/ \E e \in FailsAt(wire.bytes, EndAt(k)) : e <= got
<1> DEFINE L == Len(wire.bytes)
           F == FailsAt(wire.bytes, EndAt(k))
<1>1. /\ k \in 0..Len(sent) /\ k \in Nat /\ got \in Nat /\ got \in 0..L /\ L \in Nat
      /\ EolAt(k) \in Nat /\ Len(c) \in Nat
      /\ Stop(c) \in {NeedsMore, Fails} \cup (0..Len(c))
      /\ got <= EolAt(k) => Stop(c) = NeedsMore \/ CRAlone(k, p, got)
      /\ CRAlone(k, p, got) => Stop(c) = Fails
  <2>1. k \in 0..Len(sent) /\ k \in Nat
    BY SentOrder
  <2> QED BY <2>1, DueStart
<1>2. ~ (Stop(c) >= 0)
  <2>1. Stop(c) >= 0 => k < Len(sent)
    BY <1>1, DueIsFound
  <2> QED BY <1>1, <2>1
<1>3. Stop(c) \in {NeedsMore, Fails}
  BY <1>1, <1>2
<1>4. /\ \A e \in F : e \in (EolAt(k) + 1)..L /\ Stop(Text(Span(EndAt(k), e))) = Fails
      /\ \A e \in (EolAt(k) + 1)..L :
              Stop(Text(Span(EndAt(k), e))) = Fails => \E f \in F : f <= e
  BY <1>1, FailsAtFirst
<1> HIDE DEF F
<1>5. ASSUME got <= EolAt(k)
      PROVE  Stop(c) = Fails <=> CRAlone(k, p, got) \/ \E e \in F : e <= got
  <2>1. ~ \E e \in F : e <= got
    BY <1>1, <1>4, <1>5
  <2>2. Fails # NeedsMore
    BY DEF Fails, NeedsMore
  <2> QED BY <1>1, <1>5, <2>1, <2>2
<1>6. ASSUME ~ (got <= EolAt(k))
      PROVE  Stop(c) = Fails <=> CRAlone(k, p, got) \/ \E e \in F : e <= got
  <2>1. got \in (EolAt(k) + 1)..L
    BY <1>1, <1>6
  <2>2. Stop(c) = Fails <=> Stop(Text(Span(EndAt(k), got))) = Fails
    BY <1>1, <2>1, SameRefused
  <2>3. ASSUME NEW e \in F, e <= got PROVE Stop(c) = Fails
    <3>1. e \in (EolAt(k) + 1)..L /\ got \in e..L /\ Stop(Text(Span(EndAt(k), e))) = Fails
      BY <1>1, <1>4, <2>3
    <3> QED BY <1>1, <2>2, <3>1, FailsLater
  <2>4. Stop(c) = Fails => \E e \in F : e <= got
    BY <1>4, <2>1, <2>2
  <2> QED BY <1>1, <2>3, <2>4
<1> QED BY <1>3, <1>5, <1>6 DEF F

-----------------------------------------------------------------------------

\* The stream as BufferedTransport sees it.
LEMMA StreamFacts ==
  ASSUME Sent, stream = StreamOf(wire.bytes, sent),
         NEW W, W = Len(sent), NEW F, F = FailsAt(wire.bytes, EndAt(W))
  PROVE  /\ W \in Nat /\ stream.n \in {W, W + 1} /\ stream.size = Len(wire.bytes)
         /\ stream.n = W + 1 <=> F # {}
         /\ \A i \in 0..W : stream.end[i] = EndAt(i) /\ stream.eol[i] = EolAt(i) - EndAt(i)
         /\ stream.n = W + 1 => /\ stream.end[W + 1] \in F /\ stream.eol[W + 1] = 0
                                /\ stream.kind[W + 1] = "malformed"
         /\ \A i \in 1..W : stream.kind[i] =
              IF ParseFrame(SubSeq(wire.bytes, sent[i].first, Len(wire.bytes))).command \in Known
              THEN "message" ELSE "unrecognized"
         /\ stream.end = [i \in 0..stream.n |-> stream.end[i]]
         /\ stream.eol = [i \in 0..stream.n |-> stream.eol[i]]
         /\ stream.kind = [i \in 1..stream.n |-> stream.kind[i]]
<1> DEFINE n == W + (IF F = {} THEN 0 ELSE 1)
<1>1. W \in Nat
  BY SentOrder
<1>2. F = FailsAt(wire.bytes, IF W = 0 THEN 0 ELSE sent[W].last)
  BY DEF EndAt
<1>3. stream = [n    |-> n,
         end  |-> [i \in 0..n |-> IF i = 0 THEN 0
                                  ELSE IF i <= W THEN sent[i].last
                                  ELSE CHOOSE e \in F : TRUE],
         eol  |-> [i \in 0..n |-> IF i = 0 THEN OptEndOfLine(wire.bytes, 0)
                                  ELSE IF i <= W THEN sent[i].next - sent[i].last
                                  ELSE 0],
         kind |-> [i \in 1..n |->
                    IF i > W THEN "malformed"
                    ELSE IF ParseFrame(SubSeq(wire.bytes, sent[i].first, Len(wire.bytes))).command
                              \in Known
                    THEN "message" ELSE "unrecognized"],
         size |-> Len(wire.bytes)]
  BY <1>2, Zenon DEF StreamOf
<1>4. /\ n \in Nat /\ W <= n /\ n \in {W, W + 1} /\ (n = W + 1 <=> F # {})
      /\ \A i \in 0..W : i \in 0..n /\ i <= W
      /\ \A i \in 1..W : i \in 1..n /\ ~ (i > W)
  BY <1>1
<1> HIDE DEF n
<1>5. ASSUME NEW i \in 0..W
      PROVE  stream.end[i] = EndAt(i) /\ stream.eol[i] = EolAt(i) - EndAt(i)
  <2>1. CASE i = 0
    <3>1. OptEndOfLine(wire.bytes, 0) \in Nat
      <4>1. Len(wire.bytes) \in Nat
        BY SentOrder
      <4>2. 0 \in 0..Len(wire.bytes)
        BY <4>1
      <4>3. OptEndOfLine(wire.bytes, 0) \in 0..Len(wire.bytes)
        BY <4>1, <4>2, OptEndOfLineRange
      <4> QED BY <4>1, <4>3
    <3> QED BY <1>3, <1>4, <2>1, <3>1 DEF EndAt, EolAt
  <2>2. CASE i # 0
    <3>1. sent[i].next = OptEndOfLine(wire.bytes, sent[i].last)
      BY <1>1, <2>2, SentOrder
    <3> QED BY <1>3, <1>4, <2>2, <3>1 DEF EndAt, EolAt
  <2> QED BY <2>1, <2>2
<1>6. ASSUME n = W + 1
      PROVE  stream.end[W + 1] \in F /\ stream.eol[W + 1] = 0 /\ stream.kind[W + 1] = "malformed"
  <2>1. W + 1 \in 0..n /\ W + 1 \in 1..n /\ W + 1 # 0 /\ ~ (W + 1 <= W) /\ W + 1 > W
    BY <1>1, <1>6
  <2>2. stream.end[W + 1] = CHOOSE e \in F : TRUE
    BY <1>3, <2>1
  <2> QED BY <1>3, <1>4, <1>6, <2>1, <2>2
<1>7. ASSUME NEW i \in 1..W
      PROVE  stream.kind[i] =
              IF ParseFrame(SubSeq(wire.bytes, sent[i].first, Len(wire.bytes))).command \in Known
              THEN "message" ELSE "unrecognized"
  BY <1>3, <1>4, <1>7
<1>8. stream.n = n /\ stream.size = Len(wire.bytes)
  BY <1>3
<1>9. /\ stream.end = [i \in 0..n |-> stream.end[i]]
      /\ stream.eol = [i \in 0..n |-> stream.eol[i]]
      /\ stream.kind = [i \in 1..n |-> stream.kind[i]]
  <2> DEFINE Ends0 == [i \in 0..n |-> IF i = 0 THEN 0
                                     ELSE IF i <= W THEN sent[i].last
                                     ELSE CHOOSE e \in F : TRUE]
             Eols == [i \in 0..n |-> IF i = 0 THEN OptEndOfLine(wire.bytes, 0)
                                     ELSE IF i <= W THEN sent[i].next - sent[i].last
                                     ELSE 0]
             Whats == [i \in 1..n |->
                        IF i > W THEN "malformed"
                        ELSE IF ParseFrame(SubSeq(wire.bytes, sent[i].first, Len(wire.bytes))).command
                                  \in Known
                        THEN "message" ELSE "unrecognized"]
  <2>1. stream.end = Ends0 /\ stream.eol = Eols /\ stream.kind = Whats
    BY <1>3
  <2>2. /\ Ends0 = [i \in 0..n |-> Ends0[i]] /\ Eols = [i \in 0..n |-> Eols[i]]
        /\ Whats = [i \in 1..n |-> Whats[i]]
    OBVIOUS
  <2> HIDE DEF Ends0, Eols, Whats
  <2> QED BY <2>1, <2>2
<1> QED BY <1>1, <1>4, <1>5, <1>6, <1>7, <1>8, <1>9

\* It is one that BufferedTransport is meant for: each frame ends behind the line
\* ending of the one before.
LEMMA StreamWellFormed ==
  ASSUME Sent, stream = StreamOf(wire.bytes, sent)
  PROVE  Abstract!WellFormed(stream)
<1> DEFINE W == Len(sent)
           F == FailsAt(wire.bytes, EndAt(W))
           L == Len(wire.bytes)
           n == stream.n
           E(i) == stream.end[i]
           O(i) == stream.eol[i]
<1>1. /\ W \in Nat /\ n \in {W, W + 1} /\ n \in Nat /\ stream.size = L /\ L \in Nat
      /\ \A i \in 0..W : E(i) = EndAt(i) /\ O(i) = EolAt(i) - EndAt(i)
      /\ n = W + 1 => E(W + 1) \in F /\ O(W + 1) = 0 /\ stream.kind[W + 1] = "malformed"
      /\ \A i \in 1..W : stream.kind[i] \in {"message", "unrecognized"}
      /\ stream.end = [i \in 0..n |-> stream.end[i]]
      /\ stream.eol = [i \in 0..n |-> stream.eol[i]]
      /\ stream.kind = [i \in 1..n |-> stream.kind[i]]
  <2>1. W \in Nat /\ L \in Nat
    BY SentOrder
  <2> QED BY <2>1, StreamFacts
<1>2. ASSUME NEW i \in 0..W
      PROVE  /\ EndAt(i) \in 0..L /\ EolAt(i) \in EndAt(i)..L /\ EolAt(i) <= EndAt(i) + 2
             /\ i > 0 => EolAt(i) = Position(i)
  <2>1. EndAt(i) \in 0..L /\ (i > 0 => EolAt(i) = Position(i))
    <3>1. CASE i = 0
      BY <1>1, <3>1 DEF EndAt
    <3>2. CASE i # 0
      <4>1. i \in 1..W /\ EndAt(i) = sent[i].last
        BY <1>1, <3>2 DEF EndAt
      <4>2. /\ sent[i].last \in 1..sent[i].next /\ sent[i].next \in 1..L
            /\ sent[i].next = OptEndOfLine(wire.bytes, sent[i].last) /\ Position(i) = sent[i].next
        BY <4>1, SentOrder
      <4>3. sent[i].last \in 0..L
        BY <1>1, <4>2
      <4> QED BY <4>1, <4>2, <4>3 DEF EolAt
    <3> QED BY <3>1, <3>2
  <2>2. EolAt(i) \in EndAt(i)..L
    BY <1>1, <2>1, OptEndOfLineRange DEF EolAt
  <2>3. EolAt(i) = EndAt(i) \/ EolAt(i) = EndAt(i) + 1 \/ EolAt(i) = EndAt(i) + 2
    BY <1>1, <2>1, EndOfLineSymbols DEF EolAt
  <2>4. EndAt(i) \in Nat
    BY <1>1, <2>1
  <2> QED BY <2>1, <2>2, <2>3, <2>4
<1>3. ASSUME NEW i \in 0..W, NEW j \in 0..W, i < j PROVE EolAt(i) < EndAt(j)
  <2>1. i \in Nat /\ j \in Nat /\ i + 1 \in 1..W /\ j \in 1..W /\ EndAt(j) = sent[j].last
    BY <1>1, <1>3 DEF EndAt
  <2>2. PICK l \in 1..W : l = i + 1 /\ l - 1 = i
    BY <2>1
  <2>3. /\ Position(i) \in 0..(sent[l].first - 1) /\ sent[l].first \in 1..sent[l].last
        /\ sent[l].last \in 1..sent[l].next /\ sent[l].next \in 1..L
        /\ sent[l] = FrameAt(wire.bytes, Position(i)) /\ Position(i) \in 0..L
    BY <2>2, SentOrder
  <2>4. EolAt(i) < sent[l].last
    <3>1. CASE i > 0
      <4> DEFINE q == EolAt(i)
                 f == sent[l].first
                 z == sent[l].last
      <4>1. q \in 0..(f - 1) /\ f \in 1..z /\ z \in 1..sent[l].next /\ sent[l].next \in 1..L
        BY <1>2, <2>3, <3>1
      <4> HIDE DEF q, f, z
      <4>2. q < z
        BY <1>1, <4>1
      <4> QED BY <4>2 DEF q, z
    <3>2. CASE i = 0
      <4> DEFINE w == Rest(wire.bytes, 0)
      <4>1. Position(0) = 0 /\ sent[l].first = 0 + Start(w) + 1
        BY <2>3, <3>2, SentOrder DEF FrameAt
      <4>2. 0 \in 0..L /\ 0 \in 0..(L - 0) /\ 0 + 0 = 0
        BY <1>1
      <4>3. OptEndOfLine(wire.bytes, 0 + 0) = 0 + OptEndOfLine(w, 0)
        BY <4>2, RestEndOfLine DEF Sent
      <4>4. EolAt(0) = 0 + Start(w)
        BY <4>2, <4>3 DEF EolAt, EndAt, Start
      <4> HIDE DEF w
      <4>5. EolAt(0) \in Nat
        BY <1>1, <1>2, <3>2
      <4> QED BY <1>1, <2>3, <3>2, <4>1, <4>4, <4>5
    <3> QED BY <2>1, <3>1, <3>2
  <2>5. sent[l].last <= sent[j].last
    <3>1. CASE l = j
      BY <1>1, <2>3, <3>1
    <3>2. CASE l # j
      <4>1. l < j
        BY <1>3, <2>1, <2>2, <3>2
      <4>2. sent[l].last < sent[j].first
        BY <2>1, <4>1, SentApart
      <4>3. sent[j].first \in 1..sent[j].last /\ sent[j].last \in 1..sent[j].next /\ sent[j].next \in 1..L
        BY <2>1, SentOrder
      <4> QED BY <1>1, <2>3, <4>2, <4>3, SMTT(30)
    <3> QED BY <3>1, <3>2
  <2>6. sent[j].last \in Nat /\ sent[l].last \in Nat /\ EolAt(i) \in Nat
    <3>1. sent[j].last \in 1..sent[j].next /\ sent[j].next \in 1..L
      BY <2>1, SentOrder
    <3>2. sent[j].last \in Nat /\ sent[l].last \in Nat
      BY <1>1, <2>3, <3>1, SMTT(30)
    <3>3. EndAt(i) \in 0..L /\ EolAt(i) \in EndAt(i)..L
      BY <1>2
    <3>4. EolAt(i) \in Nat
      BY <1>1, <3>3
    <3> QED BY <3>2, <3>4
  <2> QED BY <2>1, <2>4, <2>5, <2>6
<1>4. \A e \in F : e \in (EolAt(W) + 1)..L
  BY DEF FailsAt, EolAt
<1>5. W \in 0..W /\ EolAt(W) \in Nat
  <2>1. W \in 0..W
    BY <1>1
  <2>2. EndAt(W) \in 0..L /\ EolAt(W) \in EndAt(W)..L
    BY <1>2, <2>1
  <2> QED BY <1>1, <2>1, <2>2
<1> HIDE DEF W, F, L, E, O, n
<1>6. ASSUME NEW i \in 0..n
      PROVE  E(i) \in 0..L /\ O(i) \in 0..2 /\ E(i) + O(i) <= L
  <2>1. CASE i \in 0..W
    <3>1. /\ E(i) = EndAt(i) /\ O(i) = EolAt(i) - EndAt(i) /\ EndAt(i) \in 0..L
          /\ EolAt(i) \in EndAt(i)..L /\ EolAt(i) <= EndAt(i) + 2
      BY <1>1, <1>2, <2>1
    <3> QED BY <1>1, <3>1
  <2>2. CASE i \notin 0..W
    <3>1. i = W + 1 /\ n = W + 1
      BY <1>1, <2>2
    <3>2. O(i) = 0 /\ E(i) \in (EolAt(W) + 1)..L
      BY <1>1, <1>4, <3>1
    <3> QED BY <1>1, <1>5, <3>2
  <2> QED BY <2>1, <2>2
<1>7. ASSUME NEW i \in 0..n, NEW j \in 0..n, i < j PROVE E(i) + O(i) < E(j)
  <2>1. i \in 0..W
    BY <1>1, <1>7
  <2>2. E(i) + O(i) = EolAt(i) /\ EolAt(i) \in Nat
    <3>1. /\ E(i) = EndAt(i) /\ O(i) = EolAt(i) - EndAt(i) /\ EndAt(i) \in 0..L
          /\ EolAt(i) \in EndAt(i)..L
      BY <1>1, <1>2, <2>1
    <3> QED BY <1>1, <3>1
  <2>3. CASE j \in 0..W
    BY <1>1, <1>3, <1>7, <2>1, <2>2, <2>3
  <2>4. CASE j \notin 0..W
    <3>1. j = W + 1 /\ n = W + 1
      BY <1>1, <2>4
    <3>2. E(j) \in (EolAt(W) + 1)..L
      BY <1>1, <1>4, <3>1
    <3>3. EolAt(i) <= EolAt(W)
      <4>1. CASE i = W
        BY <1>5, <4>1
      <4>2. CASE i # W
        <5>1. i < W
          BY <1>1, <2>1, <4>2
        <5>2. EolAt(i) < EndAt(W) /\ EndAt(W) \in 0..L /\ EolAt(W) \in EndAt(W)..L
          BY <1>2, <1>3, <1>5, <2>1, <5>1
        <5> QED BY <1>1, <1>5, <2>2, <5>2
      <4> QED BY <4>1, <4>2
    <3> QED BY <1>1, <1>5, <2>2, <3>2, <3>3
  <2> QED BY <2>3, <2>4
<1>8. ASSUME NEW i \in 1..n PROVE stream.kind[i] \in Abstract!Kinds
  <2>1. i \in 1..W \/ (i = W + 1 /\ n = W + 1)
    BY <1>1
  <2> QED BY <1>1, <2>1 DEF Abstract!Kinds
<1>9. stream.end \in [0..n -> Nat] /\ stream.eol \in [0..n -> 0..2] /\ stream.kind \in [1..n -> Abstract!Kinds]
  <2>1. \A i \in 0..n : stream.end[i] \in Nat /\ stream.eol[i] \in 0..2
    <3> TAKE i \in 0..n
    <3>1. E(i) \in 0..L /\ O(i) \in 0..2
      BY <1>6
    <3>2. E(i) \in Nat
      BY <1>1, <3>1
    <3> QED BY <3>1, <3>2 DEF E, O
  <2> QED BY <1>1, <1>8, <2>1
<1>10. E(0) = 0 /\ E(n) + O(n) <= L
  <2>1. E(0) = 0
    BY <1>1 DEF EndAt
  <2> QED BY <1>1, <1>6, <2>1
<1> QED BY <1>1, <1>7, <1>9, <1>10 DEF Abstract!WellFormed, n, E, O

-----------------------------------------------------------------------------

\* Only the frame that is due can be at the front of the buffer.
LEMMA HoldsDue ==
  ASSUME Sent, OneEnding, stream = StreamOf(wire.bytes, sent),
         NEW k \in 0..Len(sent), NEW p, At(k, p), arrived - Len(buffer) = p,
         NEW got \in p..Len(wire.bytes), NEW i \in 1..stream.n
  PROVE  Abstract!Holds(i, got) <=> i = k + 1 /\ stream.end[i] <= got
<1> DEFINE W == Len(sent)
           F == FailsAt(wire.bytes, EndAt(W))
           E(j) == stream.end[j]
<1>1. /\ W \in Nat /\ stream.n \in {W, W + 1} /\ k \in Nat /\ i \in Nat /\ i >= 1 /\ i <= stream.n
      /\ \A j \in 0..W : E(j) = EndAt(j)
      /\ stream.n = W + 1 => E(W + 1) \in F
  <2>1. W \in Nat /\ W = Len(sent) /\ F = FailsAt(wire.bytes, EndAt(W)) /\ k \in 0..W
    BY SentOrder
  <2> HIDE DEF W, F
  <2>2. /\ stream.n \in {W, W + 1} /\ (stream.n = W + 1 <=> F # {})
        /\ \A j \in 0..W : stream.end[j] = EndAt(j) /\ stream.eol[j] = EolAt(j) - EndAt(j)
        /\ stream.n = W + 1 => /\ stream.end[W + 1] \in F /\ stream.eol[W + 1] = 0
                               /\ stream.kind[W + 1] = "malformed"
    BY <2>1, StreamFacts
  <2> QED BY <2>1, <2>2
<1>2. /\ p \in Nat /\ EndAt(k) \in Nat /\ EndAt(k) <= p /\ p <= EolAt(k) /\ EolAt(k) \in Nat
      /\ got \in Nat
  BY DueStart
<1>3. \A j \in 0..W : /\ EndAt(j) \in Nat /\ EolAt(j) \in Nat /\ EndAt(j) <= EolAt(j)
                      /\ j < k => EndAt(j) < EndAt(k)
                      /\ k < j => EolAt(k) < EndAt(j)
  <2> TAKE j \in 0..W
  <2>1. EndAt(j) \in Nat /\ EolAt(j) \in Nat /\ EndAt(j) <= EolAt(j)
    BY OneEndingFacts
  <2>2. j < k => EolAt(j) < EndAt(k)
    BY EndsGrow
  <2>3. k < j => EolAt(k) < EndAt(j)
    BY EndsGrow
  <2> QED BY <1>2, <2>1, <2>2, <2>3
<1>4. \A e \in F : e \in Nat /\ EolAt(W) < e
  <2>1. W \in 0..W /\ Len(wire.bytes) \in Nat
    BY <1>1, SentOrder
  <2>2. \A e \in F : e \in (EolAt(W) + 1)..Len(wire.bytes)
    BY <2>1, FailsAtFirst
  <2>3. EolAt(W) \in Nat
    BY <2>1, <1>3
  <2> QED BY <2>1, <2>2, <2>3
<1> HIDE DEF F
<1>5. Abstract!Holds(i, got) <=> E(i - 1) <= p /\ p < E(i) /\ E(i) <= got
  BY DEF Abstract!Holds
<1> HIDE DEF W, E
<1>6. CASE i <= k
  <2>1. i \in 0..W /\ E(i) = EndAt(i) /\ ~ (p < E(i)) /\ i # k + 1
    <3>1. i \in 0..W
      BY <1>1, <1>6 DEF W
    <3>2. i = k \/ i < k
      BY <1>1, <1>6
    <3> QED BY <1>1, <1>2, <1>3, <1>6, <3>1, <3>2
  <2> QED BY <1>5, <2>1
<1>7. CASE i = k + 1
  <2>1. i - 1 = k /\ k \in 0..W
    BY <1>1, <1>7 DEF W
  <2>2. E(i - 1) <= p
    BY <1>1, <1>2, <2>1
  <2>3. p < E(i)
    <3>1. CASE i <= W
      BY <1>1, <1>2, <1>3, <1>7, <3>1
    <3>2. CASE ~ (i <= W)
      <4>1. k = W /\ i = W + 1 /\ stream.n = W + 1
        BY <1>1, <1>7, <2>1, <3>2
      <4>2. E(i) \in Nat /\ EolAt(k) < E(i)
        BY <1>1, <1>4, <4>1
      <4> QED BY <1>2, <4>2
    <3> QED BY <3>1, <3>2
  <2> QED BY <1>5, <1>7, <2>2, <2>3 DEF E
<1>8. CASE i > k + 1
  <2>1. i - 1 \in 0..W /\ k < i - 1 /\ i # k + 1
    BY <1>1, <1>8
  <2>2. E(i - 1) = EndAt(i - 1) /\ EolAt(k) < EndAt(i - 1) /\ EndAt(i - 1) \in Nat
    BY <1>1, <1>3, <2>1
  <2>3. ~ (E(i - 1) <= p)
    BY <1>2, <2>2
  <2> QED BY <1>5, <2>1, <2>3
<1>9. i <= k \/ i = k + 1 \/ i > k + 1
  BY <1>1
<1> QED BY <1>6, <1>7, <1>8, <1>9

\* Only the CR LF behind the last frame that was reported can be torn.
LEMMA LoneCRDue ==
  ASSUME Sent, OneEnding, stream = StreamOf(wire.bytes, sent),
         NEW k \in 0..Len(sent), NEW p, At(k, p), arrived - Len(buffer) = p,
         NEW got \in p..Len(wire.bytes)
  PROVE  Abstract!LoneCR(got) <=> CRAlone(k, p, got)
<1> DEFINE W == Len(sent)
           F == FailsAt(wire.bytes, EndAt(W))
<1>1. /\ W \in Nat /\ stream.n \in {W, W + 1} /\ k \in Nat
      /\ \A j \in 0..W : stream.end[j] = EndAt(j) /\ stream.eol[j] = EolAt(j) - EndAt(j)
      /\ stream.n = W + 1 => stream.eol[W + 1] = 0
  <2>1. W \in Nat /\ W = Len(sent) /\ F = FailsAt(wire.bytes, EndAt(W)) /\ k \in 0..W
    BY SentOrder
  <2> HIDE DEF W, F
  <2>2. /\ stream.n \in {W, W + 1} /\ (stream.n = W + 1 <=> F # {})
        /\ \A j \in 0..W : stream.end[j] = EndAt(j) /\ stream.eol[j] = EolAt(j) - EndAt(j)
        /\ stream.n = W + 1 => /\ stream.end[W + 1] \in F /\ stream.eol[W + 1] = 0
                               /\ stream.kind[W + 1] = "malformed"
    BY <2>1, StreamFacts
  <2> QED BY <2>1, <2>2
<1>2. /\ p \in Nat /\ EndAt(k) \in Nat /\ EndAt(k) <= p /\ p <= EolAt(k) /\ EolAt(k) \in Nat
  BY DueStart
<1>3. Abstract!LoneCR(got)
        <=> \E i \in 0..stream.n : stream.eol[i] = 2 /\ p = stream.end[i] /\ got = p + 1
  BY DEF Abstract!LoneCR
<1>4. ASSUME NEW i \in 0..stream.n, stream.eol[i] = 2, p = stream.end[i], got = p + 1
      PROVE  CRAlone(k, p, got)
  <2>1. i \in 0..W
    <3>1. i # W + 1 \/ stream.n # W + 1
      BY <1>1, <1>4
    <3> QED BY <1>1, <3>1
  <2>2. /\ p = EndAt(i) /\ EolAt(i) - EndAt(i) = 2 /\ EndAt(i) \in Nat /\ EolAt(i) \in Nat
        /\ EndAt(i) <= EolAt(i)
    BY <1>1, <1>4, <2>1, OneEndingFacts
  <2>3. i = k
    <3>1. CASE i < k
      <4>1. EolAt(i) < EndAt(k)
        BY <2>1, <3>1, EndsGrow
      <4> QED BY <1>2, <2>2, <4>1
    <3>2. CASE k < i
      <4>1. EolAt(k) < EndAt(i)
        BY <2>1, <3>2, EndsGrow
      <4> QED BY <1>2, <2>2, <4>1
    <3> QED BY <1>1, <2>1, <3>1, <3>2
  <2> QED BY <1>4, <2>2, <2>3 DEF CRAlone
<1>5. ASSUME CRAlone(k, p, got) PROVE \E i \in 0..stream.n : stream.eol[i] = 2 /\ p = stream.end[i] /\ got = p + 1
  <2>1. k \in 0..stream.n
    BY <1>1
  <2>2. stream.eol[k] = 2 /\ p = stream.end[k] /\ got = p + 1
    BY <1>1, <1>2, <1>5, SMTT(30) DEF CRAlone
  <2> QED BY <2>1, <2>2
<1> QED BY <1>3, <1>4, <1>5

\* What the parser says of the buffer is what BufferedTransport says of it.
LEMMA SaysTheSame ==
  ASSUME Sent, OneEnding, stream = StreamOf(wire.bytes, sent),
         NEW k \in 0..Len(sent), NEW p, At(k, p), arrived - Len(buffer) = p,
         NEW got \in p..Len(wire.bytes), NEW c, c = Text(Span(p, got))
  PROVE  /\ Stop(c) = NeedsMore => Abstract!Incomplete(got)
         /\ Stop(c) = Fails => Abstract!ParseFails(got)
         /\ Stop(c) >= 0 => /\ k + 1 \in 1..stream.n /\ k + 1 \in 1..Len(sent)
                            /\ Abstract!Holds(k + 1, got)
                            /\ p + Stop(c) = Abstract!EndOfParse(k + 1, got)
<1> DEFINE W == Len(sent)
           F == FailsAt(wire.bytes, EndAt(W))
           n == stream.n
<1>1. /\ W \in Nat /\ n \in {W, W + 1} /\ k \in Nat /\ n \in Nat
      /\ n = W + 1 <=> F # {}
      /\ \A j \in 0..W : stream.end[j] = EndAt(j) /\ stream.eol[j] = EolAt(j) - EndAt(j)
      /\ n = W + 1 => stream.end[W + 1] \in F /\ stream.kind[W + 1] = "malformed"
  <2>1. W \in Nat /\ W = Len(sent) /\ F = FailsAt(wire.bytes, EndAt(W)) /\ k \in 0..W
    BY SentOrder
  <2> HIDE DEF W, F
  <2>2. /\ stream.n \in {W, W + 1} /\ (stream.n = W + 1 <=> F # {})
        /\ \A j \in 0..W : stream.end[j] = EndAt(j) /\ stream.eol[j] = EolAt(j) - EndAt(j)
        /\ stream.n = W + 1 => /\ stream.end[W + 1] \in F /\ stream.eol[W + 1] = 0
                               /\ stream.kind[W + 1] = "malformed"
    BY <2>1, StreamFacts
  <2> QED BY <2>1, <2>2
<1>2. \A i \in 1..n : Abstract!Holds(i, got) <=> i = k + 1 /\ stream.end[i] <= got
  BY HoldsDue
<1>3. Abstract!LoneCR(got) <=> CRAlone(k, p, got)
  BY LoneCRDue
<1>4. /\ CRAlone(k, p, got) => Stop(c) = Fails
      /\ p \in Nat /\ got \in Nat /\ got \in 0..Len(wire.bytes) /\ p \in 0..got
      /\ Len(Span(p, got)) = got - p /\ Len(c) = got - p /\ Len(c) \in Nat
      /\ \A i \in 1..(got - p) : Span(p, got)[i] = p + i
      /\ p <= EolAt(k) /\ EolAt(k) \in Nat
  BY DueStart
<1>5. Fails # NeedsMore
  BY DEF Fails, NeedsMore
<1>6. k = W => /\ Stop(c) \in {NeedsMore, Fails}
               /\ Stop(c) = Fails <=> CRAlone(k, p, got) \/ \E e \in F : e <= got
  BY NoneDue
<1>7. ASSUME Stop(c) = NeedsMore PROVE Abstract!Incomplete(got)
  <2>1. ~ Abstract!LoneCR(got)
    BY <1>3, <1>4, <1>5, <1>7
  <2>2. ASSUME NEW i \in 1..n, Abstract!Holds(i, got) PROVE FALSE
    <3>1. i = k + 1 /\ stream.end[i] <= got
      BY <1>2, <2>2
    <3>2. CASE k < W
      <4>1. got < EndAt(k + 1) /\ k + 1 \in 0..W
        BY <1>1, <1>7, <3>2, DueIsAwaited
      <4>2. EndAt(k + 1) \in Nat
        BY <4>1, OneEndingFacts
      <4> QED BY <1>1, <1>4, <3>1, <4>1, <4>2, SMTT(30)
    <3>3. CASE ~ (k < W)
      <4>1. k = W /\ n = W + 1
        BY <1>1, <3>1, <3>3
      <4> QED BY <1>1, <1>5, <1>6, <1>7, <3>1, <4>1
    <3> QED BY <3>2, <3>3
  <2> QED BY <2>1, <2>2 DEF Abstract!Incomplete
<1>8. ASSUME Stop(c) = Fails PROVE Abstract!ParseFails(got)
  <2>1. CASE CRAlone(k, p, got)
    BY <1>3, <2>1 DEF Abstract!ParseFails
  <2>2. CASE ~ CRAlone(k, p, got)
    <3>1. k = W
      <4>1. ~ (k < W)
        BY <1>8, <2>2, DueIsRefused
      <4> QED BY <1>1, <4>1
    <3>2. PICK e \in F : e <= got
      BY <1>6, <1>8, <2>2, <3>1
    <3>3. n = W + 1 /\ k + 1 \in 1..n /\ stream.kind[k + 1] = "malformed" /\ stream.end[k + 1] \in F
      BY <1>1, <3>1, <3>2
    <3>4. stream.end[k + 1] <= got
      <4>1. \A d, f \in F : d <= f
        BY DEF FailsAt
      <4>2. \A f \in F : f \in Nat
        <5>1. W \in 0..W /\ EolAt(W) \in Nat /\ Len(wire.bytes) \in Nat
          BY <1>1, <3>1, <1>4, SentOrder
        <5>2. \A f \in F : f \in (EolAt(W) + 1)..Len(wire.bytes)
          BY <5>1, FailsAtFirst
        <5> QED BY <5>1, <5>2
      <4> QED BY <1>4, <3>2, <3>3, <4>1, <4>2
    <3>5. Abstract!Holds(k + 1, got)
      BY <1>2, <3>3, <3>4
    <3> QED BY <3>3, <3>5 DEF Abstract!ParseFails
  <2> QED BY <2>1, <2>2
<1>9. ASSUME Stop(c) >= 0
      PROVE  /\ k + 1 \in 1..n /\ k + 1 \in 1..W
             /\ Abstract!Holds(k + 1, got)
             /\ p + Stop(c) = Abstract!EndOfParse(k + 1, got)
  <2> DEFINE x == BodyStop(c) + 1
             s == Stop(c)
             l == EndAt(k + 1)
             q == EolAt(k + 1)
  <2>1. k < W /\ p + x = sent[k + 1].last
    BY <1>9, DueIsFound
  <2>2. k + 1 \in 1..n /\ k + 1 \in 1..W /\ k + 1 \in 0..W /\ l = p + x
    BY <1>1, <2>1 DEF EndAt
  <2>3. s = OptEndOfLine(c, x) /\ x \in Nat /\ x \in 0..(got - p)
    <3>1. s = OptEndOfLine(c, BodyStop(c) + 1) /\ BodyStop(c) \in (Start(c) + 1)..(Len(c) - 1)
          /\ Start(c) \in 0..Len(c)
      BY <1>4, <1>9, FoundInOrder
    <3> QED BY <1>4, <3>1, SMTT(30)
  <2>4. q \in Nat /\ l \in Nat /\ stream.end[k + 1] = l /\ stream.eol[k + 1] = q - l
    BY <1>1, <2>2, OneEndingFacts
  <2>5. OptEndOfLine(wire.bytes, p + x) = q
    BY <2>2, Zenon DEF EolAt
  <2> HIDE DEF x, l, q
  <2>6. s = IF q <= got THEN q - p ELSE x
    <3>1. OptEndOfLine(c, x) = IF OptEndOfLine(wire.bytes, p + x) <= got
                               THEN OptEndOfLine(wire.bytes, p + x) - p ELSE x
      BY <1>4, <2>3, SpanEndOfLine
    <3> QED BY <2>3, <2>5, <3>1
  <2> HIDE DEF s
  <2>7. l <= got /\ p + s = IF q <= got THEN q ELSE l
    BY <1>4, <2>2, <2>3, <2>4, <2>6
  <2>8. Abstract!Holds(k + 1, got)
    BY <1>2, <2>2, <2>4, <2>7
  <2>9. Abstract!EndOfParse(k + 1, got) = IF l + (q - l) <= got THEN l + (q - l) ELSE l
    BY <2>4, Zenon DEF Abstract!EndOfParse
  <2>10. l + (q - l) = q
    BY <2>4
  <2> QED BY <2>2, <2>7, <2>8, <2>9, <2>10 DEF s
<1> QED BY <1>7, <1>8, <1>9

\* A frame has the command that it has where the stream is parsed from its
\* first letter on.
LEMMA SameCommand ==
  ASSUME Sent, OneEnding, NEW k \in 0..Len(sent), NEW p, At(k, p),
         NEW got \in p..Len(wire.bytes), NEW c, c = Text(Span(p, got)), Stop(c) >= 0,
         NEW f, f = sent[k + 1].first
  PROVE  ParseFrame(SubSeq(wire.bytes, f, Len(wire.bytes))).command = ParseFrame(c).command
<1> DEFINE L == Len(wire.bytes)
           st == Start(c)
           n == Len(c) - st
           g == Rest(wire.bytes, f - 1)
           C == Len(c)
           G == Len(g)
<1>1. /\ p \in Nat /\ got \in 0..L /\ L \in Nat /\ C = got - p /\ C \in Nat /\ p \in 0..got
      /\ \A i \in 1..(got - p) : c[i] = wire.bytes[p + i]
  <2> DEFINE b == Span(p, got)
  <2>1. /\ p \in 0..got /\ got \in 0..L /\ L \in Nat /\ Len(b) = got - p /\ Len(b) \in Nat
        /\ C = Len(b) /\ \A i \in 1..Len(b) : c[i] = wire.bytes[p + i]
    BY DueStart, SMTT(30)
  <2> HIDE DEF b, C, L
  <2> QED BY <2>1
<1>2. k + 1 \in 1..Len(sent) /\ f = p + st + 1
  <2>1. k < Len(sent) /\ p + Start(c) + 1 = sent[k + 1].first /\ Len(sent) \in Nat
    BY DueIsFound, SentOrder
  <2> QED BY <2>1
<1>3. st \in 0..C /\ BodyStop(c) \in (st + 1)..(C - 1)
  BY <1>1, FoundInOrder
<1>4. wire.bytes[f] \in Letters
  BY <1>2, SentOrder
<1> HIDE DEF st, C
<1>5. /\ n \in Nat /\ f - 1 = p + st /\ f - 1 \in 0..L /\ st + n = C /\ BodyStop(c) + 1 <= st + n
      /\ st + 1 <= C /\ p + C = got
  <2> DEFINE bs == BodyStop(c)
  <2>1. n = C - st /\ bs \in (st + 1)..(C - 1) /\ f = p + st + 1
    BY <1>2, <1>3 DEF C
  <2> HIDE DEF bs, n, L
  <2>2. /\ n \in Nat /\ f - 1 = p + st /\ f - 1 \in 0..L /\ st + n = C /\ bs + 1 <= st + n
        /\ st + 1 <= C /\ p + C = got
    BY <1>1, <1>3, <2>1
  <2> QED BY <2>2 DEF bs
<1> HIDE DEF n
<1>6. G = L - (f - 1) /\ \A i \in 1..(L - (f - 1)) : g[i] = wire.bytes[(f - 1) + i]
  <2>1. wire.bytes \in Seq(STRING)
    BY DEF Sent
  <2> DEFINE w == wire.bytes
             o == f - 1
  <2>2. w \in Seq(STRING) /\ o \in 0..Len(w) /\ g = Rest(w, o) /\ G = Len(g)
    BY <1>5, <2>1
  <2> HIDE DEF w, o, g, G
  <2>3. G = Len(w) - o /\ \A i \in 1..(Len(w) - o) : g[i] = w[o + i]
    BY <2>2, RestSymbols
  <2> QED BY <2>3 DEF w, o
<1> HIDE DEF g, G
<1>7. G \in Nat /\ n <= G /\ n >= 1 /\ 1 \in 1..(L - (f - 1)) /\ (f - 1) + 1 = f
  BY <1>1, <1>2, <1>3, <1>5, <1>6, SMTT(30)
<1>8. Start(g) = 0
  <2>1. g[1] \in Letters /\ 0 + 1 = 1 /\ 0 \in 0..G /\ 0 < G
    BY <1>4, <1>6, <1>7
  <2>2. g[0 + 1] \notin {CR, LF}
    BY <2>1, SymbolsApart
  <2>3. \/ OptEndOfLine(g, 0) = 0
        \/ g[0 + 1] = LF
        \/ g[0 + 1] = CR
    BY <1>7, <2>1, EndOfLineSymbols DEF G
  <2> QED BY <2>2, <2>3 DEF Start
<1>9. Window(c, st, g, 0, n)
  <2>1. ASSUME NEW i \in 1..n PROVE c[st + i] = g[0 + i]
    <3> DEFINE o == f - 1
    <3> HIDE DEF L, o
    <3>1. /\ o = p + st /\ o \in Nat /\ n <= L - o /\ st + n = C /\ C = got - p /\ L \in Nat
          /\ C \in Nat /\ p \in Nat /\ got \in Nat /\ st \in Nat /\ n \in Nat
      <4>1. o = p + st /\ o \in 0..L /\ G = L - o /\ n <= G
        BY <1>5, <1>6, <1>7 DEF o
      <4>2. st + n = C /\ C = got - p /\ L \in Nat /\ C \in Nat /\ p \in Nat /\ got \in 0..L
            /\ st \in 0..C /\ n \in Nat
        BY <1>1, <1>3, <1>5
      <4> QED BY <4>1, <4>2
    <3>2. st + i \in 1..(got - p) /\ i \in 1..(L - o) /\ p + (st + i) = o + i /\ 0 + i = i
      BY <3>1
    <3>3. c[st + i] = wire.bytes[p + (st + i)] /\ g[i] = wire.bytes[o + i]
      BY <1>1, <1>6, <3>2 DEF o
    <3> QED BY <3>2, <3>3
  <2>2. st + n <= C /\ 0 + n <= G /\ 0 \in Nat /\ st \in Nat
    BY <1>1, <1>3, <1>5, <1>7
  <2> QED BY <1>1, <1>5, <1>7, <2>1, <2>2 DEF Window, C, G
<1>10. ParseFrame(g).command = ParseFrame(c).command
  <2>1. Window(c, Start(c), g, Start(g), n) /\ BodyStop(c) + 1 <= Start(c) + n
    BY <1>5, <1>8, <1>9 DEF st
  <2> QED BY <2>1, FrameMoves
<1> QED BY <1>7, <1>10 DEF g, Rest

\* What a read returns comes behind what the buffer holds.
LEMMA SpanGrows ==
  ASSUME NEW p \in Nat, NEW got \in Nat, arrived \in Nat, p <= arrived, arrived <= got,
         buffer = Span(p, arrived)
  PROVE  Grown(got) = Span(p, got)
<1> DEFINE a == arrived - p
           d == got - arrived
           n == got - p
           b == Span(p, arrived)
           h == Chunk(got)
<1>1. a \in Nat /\ d \in Nat /\ n = a + d /\ p + a = arrived
  OBVIOUS
<1>2. b = [i \in 1..a |-> p + i] /\ h = [i \in 1..d |-> arrived + i]
  BY DEF Span, Chunk
<1> HIDE DEF a, d, n, b, h
<1>3. b \in Seq(Nat) /\ h \in Seq(Nat) /\ Len(b) = a /\ Len(h) = d
  BY <1>1, <1>2
<1>4. /\ b \o h \in Seq(Nat) /\ Len(b \o h) = a + d
      /\ \A i \in 1..a : (b \o h)[i] = b[i]
      /\ \A i \in 1..d : (b \o h)[a + i] = h[i]
  <2>1. /\ b \o h \in Seq(Nat) /\ Extends(b, b \o h) /\ Len(b \o h) = Len(b) + Len(h)
        /\ \A i \in 1..Len(h) : (b \o h)[Len(b) + i] = h[i]
    BY ONLY <1>3, ExtendsAppended
  <2> QED BY <1>3, <2>1 DEF Extends
<1>5. \A i \in 1..(a + d) : (b \o h)[i] = p + i
  <2> TAKE i \in 1..(a + d)
  <2>1. CASE i <= a
    <3>1. i \in 1..a
      BY <1>1, <2>1
    <3> QED BY <1>2, <1>4, <3>1
  <2>2. CASE ~ (i <= a)
    <3>1. i - a \in 1..d /\ arrived + (i - a) = p + i /\ a + (i - a) = i
      BY <1>1, <2>2
    <3>2. (b \o h)[a + (i - a)] = h[i - a] /\ h[i - a] = arrived + (i - a)
      BY <1>2, <1>4, <3>1
    <3> QED BY <3>1, <3>2
  <2> QED BY <2>1, <2>2
<1>6. b \o h = [i \in 1..n |-> p + i]
  <2> DEFINE x == b \o h
  <2>1. x \in Seq(Nat) /\ Len(x) = n /\ \A i \in 1..n : x[i] = p + i
    BY <1>1, <1>4, <1>5
  <2> HIDE DEF x
  <2>2. x = [i \in 1..n |-> p + i]
    BY <2>1
  <2> QED BY <2>2 DEF x
<1> QED BY <1>6 DEF Grown, Span, b, h, n

\* What is left when its first symbols are taken.
LEMMA SpanTaken ==
  ASSUME NEW p \in Nat, NEW got \in Nat, p <= got, NEW s \in 0..(got - p), NEW g, g = Span(p, got)
  PROVE  SubSeq(g, s + 1, Len(g)) = Span(p + s, got)
<1> DEFINE n == got - p
           m == got - (p + s)
<1>1. n \in Nat /\ m \in Nat /\ s \in 0..n /\ n = s + m /\ s \in Nat
  OBVIOUS
<1>2. g = [i \in 1..n |-> p + i]
  BY DEF Span
<1> HIDE DEF n, m
<1>3. g \in Seq(Nat) /\ Len(g) = n
  BY <1>1, <1>2
<1>4. /\ Rest(g, s) \in Seq(Nat) /\ Len(Rest(g, s)) = m
      /\ \A i \in 1..m : Rest(g, s)[i] = g[s + i]
  <2>1. /\ Rest(g, s) \in Seq(Nat) /\ Len(Rest(g, s)) = Len(g) - s
        /\ \A i \in 1..(Len(g) - s) : Rest(g, s)[i] = g[s + i]
    BY <1>1, <1>3, RestSymbols, ZenonT(40)
  <2>2. Len(g) - s = m
    BY <1>1, <1>3
  <2> QED BY <2>1, <2>2
<1>5. \A i \in 1..m : g[s + i] = (p + s) + i
  <2> TAKE i \in 1..m
  <2>1. s + i \in 1..n /\ p + (s + i) = (p + s) + i
    BY <1>1
  <2> QED BY <1>2, <2>1
<1>6. Rest(g, s) = [i \in 1..m |-> (p + s) + i]
  BY <1>4, <1>5
<1> QED BY <1>6 DEF Rest, Span, m

\* The numbers of the frames that have been reported.
Numbers(k) == [i \in 1..k |-> i]

\* With one more report, the numbers go one further.
LEMMA NextNumber == ASSUME NEW k \in Nat PROVE Append(Numbers(k), k + 1) = Numbers(k + 1)
<1>1. Numbers(k) \in Seq(Nat) /\ Len(Numbers(k)) = k
  BY DEF Numbers
<1>2. Append(Numbers(k), k + 1) = [i \in 1..(k + 1) |-> IF i <= k THEN Numbers(k)[i] ELSE k + 1]
  BY <1>1
<1>3. \A i \in 1..(k + 1) : (IF i <= k THEN Numbers(k)[i] ELSE k + 1) = i
  BY DEF Numbers
<1> QED BY <1>2, <1>3 DEF Numbers

\* There are finitely many reports, and a frame that is reported is one more.
LEMMA ReportsCounted ==
  ASSUME Buffered
  PROVE  /\ IsFiniteSet(Reports) /\ Cardinality(Reports) \in Nat
         /\ \A e : reported' = Append(reported, e) /\ e.what = "frame"
                     => Cardinality(Reports') = Cardinality(Reports) + 1
         /\ \A e : reported' = Append(reported, e) /\ e.what # "frame" => Reports' = Reports
<1> DEFINE n == Len(reported)
<1>1. n \in Nat /\ reported \in Seq([what : {"frame", "custom"}, first : Nat, last : Nat])
  BY DEF Buffered
<1>2. Reports = {i \in 1..n : reported[i].what = "frame"}
  BY DEF Reports
<1>3. IsFiniteSet(Reports)
  <2>1. IsFiniteSet(1..n)
    BY <1>1, FS_Interval
  <2>2. Reports \in SUBSET (1..n)
    BY <1>2
  <2> QED BY <2>1, <2>2, FS_Subset
<1>4. Cardinality(Reports) \in Nat
  BY <1>3, FS_CardinalityType
<1>5. ASSUME NEW e, reported' = Append(reported, e)
      PROVE  Reports' = Reports \cup (IF e.what = "frame" THEN {n + 1} ELSE {})
  <2>1. /\ Len(reported') = n + 1 /\ reported'[n + 1] = e
        /\ \A i \in 1..n : reported'[i] = reported[i]
    BY <1>1, <1>5
  <2> HIDE DEF n
  <2>2. Reports' = {i \in 1..(n + 1) : reported'[i].what = "frame"}
    BY <2>1 DEF Reports
  <2>3. \A i : i \in 1..(n + 1) <=> i \in 1..n \/ i = n + 1
    BY <1>1
  <2> QED BY <1>2, <2>1, <2>2, <2>3
<1>6. n + 1 \notin Reports
  BY <1>1, <1>2
<1>7. ASSUME NEW e, reported' = Append(reported, e), e.what = "frame"
      PROVE  Cardinality(Reports') = Cardinality(Reports) + 1
  <2>1. Reports' = Reports \cup {n + 1}
    BY <1>5, <1>7
  <2> QED BY <1>3, <1>6, <2>1, FS_AddElement
<1>8. ASSUME NEW e, reported' = Append(reported, e), e.what # "frame"
      PROVE  Reports' = Reports
  BY <1>5, <1>8
<1> QED BY <1>3, <1>4, <1>7, <1>8

-----------------------------------------------------------------------------

\* What the buffer holds while the transport is left alone: all that has arrived
\* behind the frames that have been reported.
InStep ==
    /\ stream = StreamOf(wire.bytes, sent)
    /\ intrusions \in Nat
    /\ OneEnding /\ intrusions = 0 =>
          /\ Cardinality(Reports) \in 0..Len(sent)
          /\ \E p \in 0..arrived : At(Cardinality(Reports), p) /\ buffer = Span(p, arrived)

\* The places in the stream do not change.
LEMMA PlacesStand ==
  ASSUME UNCHANGED <<wire, sent>>
  PROVE  (OneEnding' <=> OneEnding) /\ \A k, p : At(k, p)' <=> At(k, p)
BY DEF OneEnding, At, EndAt, EolAt

\* It begins so.
LEMMA InitInStep ==
  ASSUME Init
  PROVE  InStep /\ (OneEnding => Abstract!Init)
<1>1. /\ wire \in Wires /\ sent = FramesOf(wire.bytes) /\ stream = StreamOf(wire.bytes, sent)
      /\ arrived = 0 /\ closed = FALSE /\ call = "idle" /\ result = "none"
      /\ buffer = << >> /\ reported = << >> /\ intrusions = 0
  BY DEF Init
<1>2. Reports = {} /\ Cardinality(Reports) = 0
  <2>1. Len(reported) = 0
    BY <1>1
  <2>2. Reports = {}
    BY <2>1 DEF Reports
  <2> QED BY <2>2, FS_EmptySet
<1>3. Len(sent) \in Nat
  <2>1. Sent
    BY <1>1, WiresAssumption DEF Sent
  <2> QED BY <2>1, SentOrder
<1>4. buffer = Span(0, 0) /\ Len(buffer) = 0 /\ Numbers(0) = << >>
  BY <1>1 DEF Span, Numbers
<1>5. InStep
  <2>1. At(0, 0) /\ 0 \in 0..arrived /\ 0 \in 0..Len(sent)
    BY <1>1, <1>3 DEF At, EndAt
  <2> QED BY <1>1, <1>2, <1>4, <2>1 DEF InStep
<1>6. Abstract!Init
  <2>1. stream \in {StreamOf(w.bytes, FramesOf(w.bytes)) : w \in Wires}
    BY <1>1
  <2>2. arrived - Len(buffer) = 0
    <3>1. arrived = 0 /\ Len(buffer) = 0
      BY <1>1, <1>4
    <3> QED BY <3>1
  <2>3. [i \in 1..Cardinality(Reports) |-> i] = << >>
    BY <1>2, <1>4 DEF Numbers
  <2> QED BY <1>1, <2>1, <2>2, <2>3 DEF Abstract!Init
<1> QED BY <1>5, <1>6

\* A step that touches neither the bytes nor the reports of frames.
LEMMA BytesInStep ==
  ASSUME InStep, UNCHANGED <<peer, arrived, buffer, app>>, Reports' = Reports
  PROVE  /\ InStep'
         /\ stream' = stream
         /\ (arrived - Len(buffer))' = arrived - Len(buffer)
         /\ [i \in 1..Cardinality(Reports) |-> i]' = [i \in 1..Cardinality(Reports) |-> i]
<1>1. /\ UNCHANGED <<wire, sent, stream, arrived, buffer, intrusions>>
  BY DEF peer, app
<1>2. (OneEnding' <=> OneEnding) /\ \A k, p : At(k, p)' <=> At(k, p)
  BY <1>1, PlacesStand
<1>3. InStep'
  <2>1. (OneEnding /\ intrusions = 0)' =>
          /\ Cardinality(Reports') \in 0..Len(sent')
          /\ \E p \in 0..arrived' : At(Cardinality(Reports), p)' /\ buffer' = Span(p, arrived')
    BY <1>1, <1>2 DEF InStep
  <2> QED BY <1>1, <2>1 DEF InStep, Span
<1> QED BY <1>1, <1>3

-----------------------------------------------------------------------------

\* A read of bytes.
LEMMA ReadBinaryInStep ==
  ASSUME WireInv, InStep, ReadBinary, OneEnding, intrusions = 0
  PROVE  InStep' /\ Abstract!ReadBinary
<1> DEFINE k == Cardinality(Reports)
           L == Len(wire.bytes)
<1>1. TypeOK /\ Buffered /\ Sent /\ L \in Nat /\ arrived \in 0..L /\ arrived \in Nat
  <2>1. TypeOK /\ Buffered
    BY DEF WireInv
  <2> QED BY <2>1, SentHolds DEF TypeOK
<1>2. PICK got \in arrived..L :
        /\ BytesArrive(got)
        /\ \E parsed \in {ParseFrame(Text(Grown(got)))} : Decode(Grown(got), parsed)
  BY DEF ReadBinary
<1>3. PICK p \in 0..arrived : At(k, p) /\ buffer = Span(p, arrived)
  BY DEF InStep
<1>4. k \in 0..Len(sent) /\ k \in Nat /\ stream = StreamOf(wire.bytes, sent) /\ Len(sent) \in Nat
  BY <1>1, SentOrder DEF InStep
<1> HIDE DEF k
<1> DEFINE g == Span(p, got)
           c == Text(g)
           s == Stop(c)
<1>5. /\ p \in Nat /\ got \in Nat /\ p <= arrived /\ arrived <= got /\ got \in p..L /\ got \in 0..L
      /\ p \in 0..got /\ p <= got
  <2> HIDE DEF L
  <2> QED BY <1>1, <1>2
<1>6. Grown(got) = g
  BY <1>1, <1>3, <1>5, SpanGrows
<1>7. /\ Decode(g, ParseFrame(c)) /\ call = "reading" /\ ~ closed /\ arrived' = got
      /\ UNCHANGED <<wire, sent, stream, closed, intrusions>>
  BY <1>2, <1>6 DEF ReadBinary, BytesArrive, peer, app
<1>8. /\ Len(g) = got - p /\ Len(g) \in Nat /\ Len(c) = Len(g)
      /\ s \in {NeedsMore, Fails} \cup (0..Len(c))
  <2>1. /\ Len(g) = got - p /\ Len(g) \in Nat /\ Len(c) = Len(g)
    BY <1>1, <1>5, SpanFacts, ZenonT(40)
  <2>2. s \in {NeedsMore, Fails} \cup (0..Len(c))
    BY <2>1, PartsRange
  <2> QED BY <2>1, <2>2
<1>9. arrived - Len(buffer) = p
  <2>1. arrived \in 0..L /\ p \in 0..arrived
    BY <1>1
  <2>2. Len(buffer) = arrived - p
    BY <1>1, <1>3, <2>1, SpanFacts, ZenonT(40)
  <2> QED BY <1>1, <1>5, <2>2
<1>10. stream.size = L
  BY <1>1, <1>4, StreamFacts
<1>11. /\ s = NeedsMore => Abstract!Incomplete(got)
       /\ s = Fails => Abstract!ParseFails(got)
       /\ s >= 0 => /\ k + 1 \in 1..stream.n /\ k + 1 \in 1..Len(sent)
                    /\ Abstract!Holds(k + 1, got)
                    /\ p + s = Abstract!EndOfParse(k + 1, got)
  BY <1>1, <1>3, <1>4, <1>5, <1>9, SaysTheSame
<1>12. ParseFrame(c).end = s /\ ParseFrame(c).start = Start(c) /\ ParseFrame(c).nul = BodyStop(c) + 1
  BY <1>8, ParseFrameDef, ParsedWhere
<1>13. (OneEnding' <=> OneEnding) /\ \A j, x : At(j, x)' <=> At(j, x)
  BY <1>7, PlacesStand
<1>14. NeedsMore < 0 /\ Fails < 0 /\ NeedsMore # Fails
  BY DEF NeedsMore, Fails
<1>15. Abstract!AppendChunk(got)
  BY <1>7 DEF Abstract!AppendChunk
<1>16. ASSUME NEW j, j = Cardinality(Reports'), NEW q \in 0..got, j \in 0..Len(sent), At(j, q),
              buffer' = Span(q, got)
       PROVE  InStep' /\ (arrived - Len(buffer))' = q
  <2>1. InStep'
    <3>1. At(j, q)' /\ Cardinality(Reports)' = j /\ Span(q, arrived)' = Span(q, got)
      BY <1>7, <1>13, <1>16 DEF Span
    <3> QED BY <1>4, <1>7, <1>13, <1>16, <3>1 DEF InStep
  <2>2. Len(buffer') = got - q
    BY <1>1, <1>5, <1>16, SpanFacts, ZenonT(40)
  <2> QED BY <1>5, <1>7, <2>1, <2>2
<1>17. CASE s < 0
  <2>1. buffer' = g /\ UNCHANGED reported /\ s \in {NeedsMore, Fails}
    <3>1. CASE s = NeedsMore
      BY <1>7, <1>12, <3>1 DEF Decode
    <3>2. CASE s = Fails
      BY <1>7, <1>12, <1>14, <3>2 DEF Decode, Return
    <3>3. s \in {NeedsMore, Fails}
      BY <1>8, <1>17
    <3> QED BY <3>1, <3>2, <3>3
  <2>2. Reports' = Reports
    BY <2>1 DEF Reports
  <2>3. InStep' /\ (arrived - Len(buffer))' = p
    BY <1>3, <1>4, <1>5, <1>16, <2>1, <2>2 DEF k
  <2>4. (arrived - Len(buffer))' = arrived - Len(buffer)
        /\ [i \in 1..Cardinality(Reports) |-> i]' = [i \in 1..Cardinality(Reports) |-> i]
    BY <1>9, <2>2, <2>3
  <2>5. s = NeedsMore => Abstract!DecodeNothing(got)
    <3> SUFFICES ASSUME s = NeedsMore PROVE Abstract!DecodeNothing(got)
      OBVIOUS
    <3>1. UNCHANGED <<call, result>>
      BY <1>7, <1>12 DEF Decode
    <3> QED BY <1>11, <2>4, <3>1 DEF Abstract!DecodeNothing
  <2>6. s = Fails => Abstract!DecodeParserError(got)
    <3> SUFFICES ASSUME s = Fails PROVE Abstract!DecodeParserError(got)
      OBVIOUS
    <3>1. call' = "idle" /\ result' = "parser_error"
      BY <1>7, <1>12, <1>14 DEF Decode, Return
    <3> QED BY <1>11, <2>4, <3>1 DEF Abstract!DecodeParserError, Abstract!Return
  <2>7. Abstract!DecodeNothing(got) \/ Abstract!DecodeParserError(got)
    BY <2>1, <2>5, <2>6
  <2> QED BY <1>7, <1>10, <1>15, <2>3, <2>7 DEF Abstract!ReadBinary
<1>18. CASE s >= 0
  <2>1. s # NeedsMore /\ s # Fails /\ s \in 0..(got - p) /\ p + s \in 0..got /\ s \in Nat
    <3>1. s \in 0..(got - p) /\ s # NeedsMore /\ s # Fails
      <4>1. s \in {NeedsMore, Fails} \cup (0..(got - p)) /\ got - p \in Int
        BY <1>5, <1>8
      <4> HIDE DEF s
      <4>2. s # NeedsMore /\ s # Fails
        BY <1>18 DEF NeedsMore, Fails
      <4> QED BY <4>1, <4>2
    <3> HIDE DEF s
    <3>2. p + s \in 0..got /\ s \in Nat
      BY <1>5, <3>1
    <3> QED BY <3>1, <3>2
  <2>2. /\ buffer' = SubSeq(g, s + 1, Len(g))
        /\ reported' = Append(reported, [what  |-> "frame",
                                         first |-> g[Start(c) + 1],
                                         last  |-> g[BodyStop(c) + 1]])
        /\ call' = "idle"
        /\ result' = IF ParseFrame(c).command \in Known THEN "message" ELSE "conversion_error"
    BY <1>7, <1>12, <2>1 DEF Decode, Return
  <2>3. Cardinality(Reports') = k + 1
    BY <1>1, <2>2, ReportsCounted DEF k
  <2>4. buffer' = Span(p + s, got)
    BY <1>5, <2>1, <2>2, SpanTaken
  <2>5. k + 1 \in 1..Len(sent) /\ k + 1 \in 0..Len(sent) /\ k + 1 \in 1..stream.n /\ k + 1 > 0
    BY <1>4, <1>11, <1>18
  <2>6. At(k + 1, p + s)
    <3>1. stream.end[k + 1] = EndAt(k + 1) /\ stream.eol[k + 1] = EolAt(k + 1) - EndAt(k + 1)
      BY <1>1, <1>4, <2>5, StreamFacts
    <3>2. EndAt(k + 1) \in Nat /\ EolAt(k + 1) \in Nat
      BY <1>1, <2>5, OneEndingFacts
    <3>3. EndAt(k + 1) + (EolAt(k + 1) - EndAt(k + 1)) = EolAt(k + 1)
      BY <3>2
    <3>4. p + s = EndAt(k + 1) \/ p + s = EolAt(k + 1)
      BY <1>11, <1>18, <3>1, <3>3, Zenon DEF Abstract!EndOfParse
    <3> QED BY <2>5, <3>4 DEF At
  <2>7. InStep' /\ (arrived - Len(buffer))' = p + s
    BY <1>16, <2>1, <2>3, <2>4, <2>5, <2>6
  <2>8. (arrived - Len(buffer))' = Abstract!EndOfParse(k + 1, got)
    BY <1>11, <1>18, <2>7
  <2>9. [i \in 1..Cardinality(Reports) |-> i]' = Append([i \in 1..Cardinality(Reports) |-> i], k + 1)
    <3>1. Numbers(k + 1) = Append(Numbers(k), k + 1)
      BY <1>4, NextNumber
    <3> QED BY <2>3, <3>1 DEF Numbers, k
  <2>10. stream.kind[k + 1] = IF ParseFrame(c).command \in Known THEN "message" ELSE "unrecognized"
    <3>1. stream.kind[k + 1] =
            IF ParseFrame(SubSeq(wire.bytes, sent[k + 1].first, Len(wire.bytes))).command \in Known
            THEN "message" ELSE "unrecognized"
      BY <1>1, <1>4, <2>5, StreamFacts
    <3>2. ParseFrame(SubSeq(wire.bytes, sent[k + 1].first, Len(wire.bytes))).command
            = ParseFrame(c).command
      BY <1>1, <1>3, <1>4, <1>5, <1>18, SameCommand
    <3> QED BY <3>1, <3>2
  <2>11. Abstract!DecodeFrame(got)
    <3>1. stream.kind[k + 1] \in Abstract!Reportable
      BY <2>10 DEF Abstract!Reportable
    <3>2. result' = IF stream.kind[k + 1] = "message" THEN "message" ELSE "conversion_error"
      BY <2>2, <2>10
    <3> QED BY <1>11, <1>18, <2>2, <2>5, <2>8, <2>9, <3>1, <3>2 DEF Abstract!DecodeFrame, Abstract!Return
  <2> QED BY <1>7, <1>10, <1>15, <2>7, <2>11 DEF Abstract!ReadBinary
<1>19. s < 0 \/ s >= 0
  BY <1>8, <1>14
<1> QED BY <1>17, <1>18, <1>19

\* Every step that leaves the transport alone is a step of BufferedTransport.
LEMMA StepInStep ==
  ASSUME WireInv, InStep, Next
  PROVE  InStep' /\ (OneEnding /\ intrusions' = 0 => Abstract!Next)
<1> DEFINE Stays == /\ stream' = stream
                    /\ (arrived - Len(buffer))' = arrived - Len(buffer)
                    /\ [i \in 1..Cardinality(Reports) |-> i]'
                         = [i \in 1..Cardinality(Reports) |-> i]
<1>1. ASSUME UNCHANGED <<peer, arrived, buffer, app>>, Reports' = Reports PROVE InStep' /\ Stays
  BY <1>1, BytesInStep
<1>2. ASSUME UNCHANGED reported PROVE Reports' = Reports
  BY <1>2 DEF Reports
<1>3. TypeOK /\ Buffered /\ intrusions \in Nat
  BY DEF WireInv, InStep
<1>4. CASE CallNext
  <2>1. InStep' /\ Stays
    BY <1>1, <1>2, <1>4 DEF CallNext
  <2>2. Abstract!CallNext
    BY <1>4, <2>1 DEF CallNext, Abstract!CallNext
  <2> QED BY <2>1, <2>2 DEF Abstract!Next
<1>5. CASE ReadBinary
  <2>1. CASE OneEnding /\ intrusions = 0
    BY <1>5, <2>1, ReadBinaryInStep DEF Abstract!Next
  <2>2. CASE ~ (OneEnding /\ intrusions = 0)
    <3>1. UNCHANGED <<wire, sent, stream, intrusions>>
      BY <1>5 DEF ReadBinary, peer, app
    <3>2. OneEnding' <=> OneEnding
      BY <3>1, PlacesStand
    <3>3. ~ (OneEnding /\ intrusions = 0)' /\ ~ (OneEnding /\ intrusions' = 0)
      BY <2>2, <3>1, <3>2
    <3> QED BY <3>1, <3>3 DEF InStep
  <2> QED BY <2>1, <2>2
<1>6. CASE ReadCustom
  <2>1. PICK a \in wire.asides :
           /\ AsideArrives(a)
           /\ reported' = Append(reported, [what |-> "custom", first |-> a, last |-> a])
    BY <1>6 DEF ReadCustom
  <2>2. Reports' = Reports
    BY <1>3, <2>1, ReportsCounted
  <2>3. InStep' /\ Stays
    BY <1>1, <1>6, <2>2 DEF ReadCustom
  <2>4. Abstract!ReadCustom
    BY <1>6, <2>1, <2>3
       DEF ReadCustom, AsideArrives, Return, Abstract!ReadCustom, Abstract!Return
  <2> QED BY <2>3, <2>4 DEF Abstract!Next
<1>7. CASE ReadFails
  <2>1. InStep' /\ Stays
    BY <1>1, <1>2, <1>7 DEF ReadFails
  <2>2. Abstract!ReadFails
    BY <1>7, <2>1 DEF ReadFails, Return, Abstract!ReadFails, Abstract!Return
  <2> QED BY <2>1, <2>2 DEF Abstract!Next
<1>8. CASE ReadClosed
  <2>1. InStep' /\ Stays
    BY <1>1, <1>2, <1>8 DEF ReadClosed
  <2>2. Abstract!ReadClosed
    BY <1>8, <2>1 DEF ReadClosed, Return, Abstract!ReadClosed, Abstract!Return
  <2> QED BY <2>1, <2>2 DEF Abstract!Next
<1>9. CASE Cancel
  <2>1. InStep' /\ Stays
    BY <1>1, <1>2, <1>9 DEF Cancel
  <2>2. Abstract!Cancel
    BY <1>9, <2>1 DEF Cancel, Abstract!Cancel
  <2> QED BY <2>1, <2>2 DEF Abstract!Next
<1>10. CASE Rewrap \/ RawRead
  <2>1. UNCHANGED <<wire, sent, stream>> /\ intrusions' = intrusions + 1
    BY <1>10 DEF Rewrap, RawRead, peer
  <2>2. intrusions' \in Nat /\ intrusions' # 0
    BY <1>3, <2>1
  <2> QED BY <2>1, <2>2 DEF InStep
<1> QED BY <1>4, <1>5, <1>6, <1>7, <1>8, <1>9, <1>10 DEF Next

\* So is every step, or it changes nothing.
LEMMA StepsAreIts ==
  ASSUME WireInv, InStep, [Next]_vars
  PROVE  /\ InStep'
         /\ [OneEnding /\ intrusions' = 0 => Abstract!Next]_<<vars, Abstract!vars>>
<1>1. CASE Next
  BY <1>1, StepInStep
<1>2. CASE UNCHANGED vars
  <2>1. UNCHANGED <<peer, arrived, buffer, app>> /\ Reports' = Reports
    BY <1>2 DEF vars, Reports
  <2>2. InStep' /\ UNCHANGED Abstract!vars
    BY <1>2, <2>1, BytesInStep DEF vars, Abstract!vars
  <2> QED BY <1>2, <2>2
<1> QED BY <1>1, <1>2

\* For streams with at most one line ending between frames, and as long as the
\* application leaves the transport alone, what next() does with the bytes is
\* what BufferedTransport says, step by step: the frames it finds, where it
\* leaves the buffer, when it waits for more, and when it reports an error.
THEOREM IsBufferedTransport == Spec => ImplementsTransport
<1>1. Init => InStep /\ (OneEnding => Abstract!Init)
  BY InitInStep
<1>2. WireInv /\ InStep /\ [Next]_vars
        => /\ InStep'
           /\ [OneEnding /\ intrusions' = 0 => Abstract!Next]_<<vars, Abstract!vars>>
  BY StepsAreIts
<1> QED BY <1>1, <1>2, WireReaderInvariant, PTL DEF Spec, ImplementsTransport

\* Whatever the peer sends is a stream that BufferedTransport is meant for: no
\* frame overlaps another, and what is refused comes behind all of them.  That
\* module assumes it of every stream.
THEOREM StreamsAreWellFormed == Spec => []Abstract!WellFormed(stream)
<1>1. WireInv /\ InStep => Abstract!WellFormed(stream)
  BY SentHolds, StreamWellFormed DEF WireInv, InStep
<1>2. Init => InStep
  BY InitInStep
<1>3. WireInv /\ InStep /\ [Next]_vars => InStep'
  BY StepsAreIts
<1> QED BY <1>1, <1>2, <1>3, WireReaderInvariant, PTL DEF Spec

=============================================================================
