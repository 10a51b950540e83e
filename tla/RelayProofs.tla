---------------------------- MODULE RelayProofs ----------------------------
(***************************************************************************)
(* Proofs about Relay: what escaping keeps, what a frame that is written   *)
(* and read again keeps of a message, and what is left of it after any     *)
(* number of connections.                                                  *)
(***************************************************************************)
EXTENDS Relay, Induction, SequenceTheorems

-----------------------------------------------------------------------------
(***************************************************************************)
(* Escaping.                                                               *)
(***************************************************************************)

LEMMA EscapesDef ==
  /\ DOMAIN Letters = {"c", "n", "r"}
  /\ Letters["c"] = ":" /\ Letters["n"] = "LF" /\ Letters["r"] = "CR"
BY DEF Letters, Colon, LF, CR

LEMMA EscapeSymbolDef ==
  ASSUME NEW s \in Symbols
  PROVE  /\ s = "\\" => EscapeSymbol(s) = <<"\\", "\\">>
         /\ s = ":"  => EscapeSymbol(s) = <<"\\", "c">>
         /\ s = "LF" => EscapeSymbol(s) = <<"\\", "n">>
         /\ s = "CR" => EscapeSymbol(s) = <<"\\", "r">>
         /\ s \notin {"\\", ":", "LF", "CR"} => EscapeSymbol(s) = <<s>>
<1>2. CASE s = "\\"
  BY <1>2 DEF EscapeSymbol, Backslash
<1>3. CASE s # "\\" /\ s \in {":", "LF", "CR"}
  <2> DEFINE l == CHOOSE l \in DOMAIN Letters : Letters[l] = s
  <2>1. l = IF s = ":" THEN "c" ELSE IF s = "LF" THEN "n" ELSE "r"
    BY EscapesDef, <1>3
  <2>2. EscapeSymbol(s) = <<"\\", l>>
    BY EscapesDef, <1>3 DEF EscapeSymbol, Backslash
  <2> HIDE DEF l
  <2>3. CASE s = ":"
    BY <2>1, <2>2, <2>3
  <2>4. CASE s = "LF"
    BY <2>1, <2>2, <2>4
  <2>5. CASE s = "CR"
    BY <2>1, <2>2, <2>5
  <2> QED BY <1>3, <2>3, <2>4, <2>5
<1>4. CASE s \notin {"\\", ":", "LF", "CR"}
  BY EscapesDef, <1>4 DEF EscapeSymbol, Backslash
<1> QED BY <1>2, <1>3, <1>4

LEMMA EscapeSymbolType ==
  ASSUME NEW s \in Symbols
  PROVE  EscapeSymbol(s) \in Text
<1>1. {"\\", "c", "n", "r"} \subseteq Symbols
  BY SymbolsAssumption, EscapesDef DEF Backslash
<1>2. \A x, y \in Symbols : <<x, y>> \in Text /\ <<x>> \in Text
  BY DEF Text
<1> QED BY <1>1, <1>2, EscapeSymbolDef

\* Escape goes symbol by symbol.
LEMMA EscapeAppend ==
  /\ Escape(<< >>) = << >>
  /\ \A t \in Text : Escape(t) \in Text
  /\ \A t \in Text, s \in Symbols : Escape(Append(t, s)) = Escape(t) \o EscapeSymbol(s)
<1> DEFINE op    == [p \in Text \X Symbols |-> p[1] \o EscapeSymbol(p[2])]
           value == [t \in Text |-> Escape(t)]
<1>1. ASSUME NEW v \in Text, NEW s \in Symbols
      PROVE  /\ v \o EscapeSymbol(s) \in Text
             /\ op[<<v, s>>] = v \o EscapeSymbol(s)
  <2>1. EscapeSymbol(s) \in Text
    BY EscapeSymbolType
  <2>2. v \o EscapeSymbol(s) \in Text
    BY <2>1 DEF Text
  <2> QED BY <2>2
<1>2. op \in [Text \X Symbols -> Text]
  BY <1>1
<1>3. << >> \in Text
  BY DEF Text
<1> HIDE DEF op
<1>4. ASSUME NEW t \in Text
      PROVE  \E u : Follows(u, t, << >>, op, Text) /\ value[t] = u[Len(t)]
  <2> DEFINE Upto(u) ==
        u = [i \in 0..Len(t) |-> IF i = 0 THEN << >> ELSE u[i - 1] \o EscapeSymbol(t[i])]
  <2>1. PICK w \in [0..Len(t) -> Text] : Folds(w, t, << >>, op)
    BY <1>2, <1>3, FoldExists DEF Text
  <2>2. \A i \in 1..Len(t) : i - 1 \in 0..Len(t) /\ t[i] \in Symbols
    BY DEF Text
  <2>3. ASSUME NEW i \in 0..Len(t)
        PROVE  w[i] = IF i = 0 THEN << >> ELSE w[i - 1] \o EscapeSymbol(t[i])
    <3>1. w[i] = IF i = 0 THEN << >> ELSE op[<<w[i - 1], t[i]>>]
      BY <2>1 DEF Folds
    <3>2. i # 0 => op[<<w[i - 1], t[i]>>] = w[i - 1] \o EscapeSymbol(t[i])
      <4> SUFFICES ASSUME i # 0
                   PROVE  op[<<w[i - 1], t[i]>>] = w[i - 1] \o EscapeSymbol(t[i])
        OBVIOUS
      <4>1. i \in 1..Len(t)
        OBVIOUS
      <4>2. w[i - 1] \in Text /\ t[i] \in Symbols
        BY <2>2, <4>1
      <4> QED BY <1>1, <4>2
    <3> QED BY <3>1, <3>2
  <2>4. Upto(w)
    BY <2>3
  <2> DEFINE u == CHOOSE u : Upto(u)
  <2>5. Upto(u)
    BY <2>4
  <2>6. Escape(t) = u[Len(t)]
    BY DEF Escape
  <2> HIDE DEF u
  <2>7. \A i \in 0..Len(t) : u[i] = IF i = 0 THEN << >> ELSE u[i - 1] \o EscapeSymbol(t[i])
    BY <2>5
  <2>8. Follows(u, t, << >>, op, Text)
    <3> SUFFICES ASSUME NEW i \in 0..Len(t)
                 PROVE  IF i = 0 THEN u[i] = << >>
                        ELSE u[i - 1] \in Text => u[i] = op[<<u[i - 1], t[i]>>]
      BY DEF Follows
    <3>1. i = 0 \/ i \in 1..Len(t)
      OBVIOUS
    <3> QED BY <1>1, <2>2, <2>7, <3>1
  <2> QED BY <2>6, <2>8
<1> HIDE DEF value
<1>5. /\ value[<< >>] = << >>
      /\ \A t \in Seq(Symbols) : value[t] \in Text
      /\ \A t \in Seq(Symbols), s \in Symbols : value[Append(t, s)] = op[<<value[t], s>>]
  <2>1. \A t \in Seq(Symbols) : \E u : Follows(u, t, << >>, op, Text) /\ value[t] = u[Len(t)]
    BY <1>4 DEF Text
  <2>2. IsFold(value, Symbols, << >>, op, Text)
    BY <1>2, <1>3, <2>1 DEF IsFold
  <2> QED BY <2>2, FoldAppend
<1>6. \A t \in Text : value[t] = Escape(t)
  BY DEF value
<1>7. ASSUME NEW t \in Text, NEW s \in Symbols
      PROVE  Escape(Append(t, s)) = Escape(t) \o EscapeSymbol(s)
  <2>1. Append(t, s) \in Text
    BY DEF Text
  <2>2. value[Append(t, s)] = op[<<value[t], s>>] /\ value[t] \in Text
    BY <1>5 DEF Text
  <2> QED BY <1>1, <1>6, <2>1, <2>2
<1> QED BY <1>3, <1>5, <1>6, <1>7 DEF Text

\* The recursion of Unescape, as a function of the position.
UnescapeFrom(text) ==
    CHOOSE from : from = [i \in 1..(Len(text) + 1) |->
        IF i > Len(text) THEN << >>
        ELSE IF text[i] = Backslash /\ i < Len(text)
             THEN UnescapePair(text[i + 1]) \o from[i + 2]
             ELSE <<text[i]>> \o from[i + 1]]

LEMMA UnescapePairType ==
  ASSUME NEW s \in Symbols
  PROVE  UnescapePair(s) \in Text
<1>1. \A x, y \in Symbols : <<x, y>> \in Text /\ <<x>> \in Text
  BY DEF Text
<1>2. "\\" \in Symbols /\ {":", "LF", "CR"} \subseteq Symbols
  BY SymbolsAssumption DEF Backslash, Colon, LF, CR
<1>3. s \in DOMAIN Letters => Letters[s] \in {":", "LF", "CR"}
  BY EscapesDef
<1> QED BY <1>1, <1>2, <1>3 DEF UnescapePair, Backslash

LEMMA UnescapeFromDef ==
  ASSUME NEW t \in Text
  PROVE  /\ Unescape(t) = UnescapeFrom(t)[1]
         /\ \A i \in 1..(Len(t) + 1) :
               UnescapeFrom(t)[i] =
                  IF i > Len(t) THEN << >>
                  ELSE IF t[i] = Backslash /\ i < Len(t)
                       THEN UnescapePair(t[i + 1]) \o UnescapeFrom(t)[i + 2]
                       ELSE <<t[i]>> \o UnescapeFrom(t)[i + 1]
<1> DEFINE n       == Len(t)
           pair(i) == t[i] = Backslash /\ i < n
           taken(i) == IF pair(i) THEN UnescapePair(t[i + 1]) ELSE <<t[i]>>
           known == {n + 1}
           value == [i \in 1..(n + 1) |-> << >>]
           next  == [i \in 1..(n + 1) |-> IF pair(i) THEN i + 2 ELSE i + 1]
           op    == [p \in (1..(n + 1)) \X Text |->
                        IF p[1] = n + 1 THEN << >> ELSE taken(p[1]) \o p[2]]
<1>1. n \in Nat /\ \A i \in 1..n : t[i] \in Symbols
  BY DEF Text
<1>2. ASSUME NEW i \in 1..n
      PROVE  taken(i) \in Text
  <2>1. CASE pair(i)
    <3>1. i + 1 \in 1..n
      BY <1>1, <2>1
    <3> QED BY <1>1, <2>1, <3>1, UnescapePairType
  <2>2. CASE ~ pair(i)
    <3>1. <<t[i]>> \in Text
      BY <1>1 DEF Text
    <3> QED BY <2>2, <3>1
  <2> QED BY <2>1, <2>2
<1>3. << >> \in Text /\ \A v, w \in Text : v \o w \in Text
  BY DEF Text
<1> HIDE DEF taken
<1>4. /\ op \in [(1..(n + 1)) \X Text -> Text]
      /\ \A i \in 1..n, v \in Text : op[<<i, v>>] = taken(i) \o v
  <2>1. \A i \in 1..(n + 1) : i # n + 1 => i \in 1..n
    BY <1>1
  <2>2. \A i \in 1..n : i \in 1..(n + 1) /\ i # n + 1
    BY <1>1
  <2> HIDE DEF n
  <2> QED BY <1>2, <1>3, <2>1, <2>2
<1>5. \A i \in 1..(n + 1) : IF i \in known THEN value[i] \in Text
                            ELSE next[i] \in (i + 1)..(n + 1)
  BY <1>1, <1>3
<1>6. PICK w \in [1..(n + 1) -> Text] : Descends(w, 1, n + 1, known, value, next, op)
  <2>1. 1 \in Int /\ n + 1 \in Int
    BY <1>1
  <2> HIDE DEF n, known, value, next, op
  <2> QED BY <1>4, <1>5, <2>1, DownwardRecursion
<1> DEFINE From(u) == u = [i \in 1..(n + 1) |->
              IF i > n THEN << >>
              ELSE IF t[i] = Backslash /\ i < n
                   THEN UnescapePair(t[i + 1]) \o u[i + 2]
                   ELSE <<t[i]>> \o u[i + 1]]
<1>7. ASSUME NEW i \in 1..(n + 1)
      PROVE  w[i] = IF i > n THEN << >>
                    ELSE IF t[i] = Backslash /\ i < n
                         THEN UnescapePair(t[i + 1]) \o w[i + 2]
                         ELSE <<t[i]>> \o w[i + 1]
  <2>1. w[i] = IF i \in known THEN value[i] ELSE op[<<i, w[next[i]]>>]
    BY <1>6 DEF Descends
  <2>2. CASE i = n + 1
    <3>1. w[i] = << >> /\ i > n
      BY <1>1, <2>1, <2>2
    <3> QED BY <3>1
  <2>3. CASE i \in 1..n
    <3>1. i \notin known /\ next[i] \in 1..(n + 1) /\ ~ (i > n)
      BY <1>1, <1>5, <2>3
    <3>2. w[i] = taken(i) \o w[next[i]]
      <4> HIDE DEF known, next, op, n
      <4> QED BY <1>4, <2>1, <2>3, <3>1
    <3>3. CASE pair(i)
      <4>1. next[i] = i + 2 /\ taken(i) = UnescapePair(t[i + 1])
        BY <3>3 DEF taken
      <4> QED BY <3>1, <3>2, <3>3, <4>1
    <3>4. CASE ~ pair(i)
      <4>1. next[i] = i + 1 /\ taken(i) = <<t[i]>>
        BY <3>4 DEF taken
      <4> QED BY <3>1, <3>2, <3>4, <4>1
    <3> QED BY <3>3, <3>4
  <2>4. i = n + 1 \/ i \in 1..n
    BY <1>1
  <2> QED BY <2>2, <2>3, <2>4, Zenon
<1>8. From(w)
  <2> HIDE DEF n
  <2> QED BY <1>7
<1>9. UnescapeFrom(t) = CHOOSE u : From(u)
  BY DEF UnescapeFrom
<1>10. From(UnescapeFrom(t))
  <2> HIDE DEF From
  <2> QED BY <1>8, <1>9
<1>11. Unescape(t) = UnescapeFrom(t)[1]
  BY DEF Unescape, UnescapeFrom
<1> QED BY <1>10, <1>11

LEMMA UnescapeType ==
  ASSUME NEW t \in Text
  PROVE  Unescape(t) \in Text
<1> DEFINE S == {i \in 1..(Len(t) + 1) : UnescapeFrom(t)[i] \in Text}
<1>1. Len(t) \in Nat /\ \A i \in 1..Len(t) : t[i] \in Symbols /\ <<t[i]>> \in Text
  BY DEF Text
<1>2. << >> \in Text /\ \A v, w \in Text : v \o w \in Text
  BY DEF Text
<1>3. ASSUME NEW i \in 1..(Len(t) + 1), \A j \in (i + 1)..(Len(t) + 1) : j \in S
      PROVE  UnescapeFrom(t)[i] \in Text
  <2>1. CASE i > Len(t)
    BY <1>2, <2>1, UnescapeFromDef
  <2>2. CASE ~ (i > Len(t)) /\ t[i] = Backslash /\ i < Len(t)
    <3>1. UnescapeFrom(t)[i] = UnescapePair(t[i + 1]) \o UnescapeFrom(t)[i + 2]
      BY <2>2, UnescapeFromDef
    <3>2. i + 1 \in 1..Len(t) /\ i + 2 \in (i + 1)..(Len(t) + 1)
      BY <1>1, <2>2
    <3>3. UnescapePair(t[i + 1]) \in Text /\ UnescapeFrom(t)[i + 2] \in Text
      BY <1>1, <1>3, <3>2, UnescapePairType
    <3> QED BY <1>2, <3>1, <3>3
  <2>3. CASE ~ (i > Len(t)) /\ ~ (t[i] = Backslash /\ i < Len(t))
    <3>1. UnescapeFrom(t)[i] = <<t[i]>> \o UnescapeFrom(t)[i + 1]
      BY <2>3, UnescapeFromDef
    <3>2. i \in 1..Len(t) /\ i + 1 \in (i + 1)..(Len(t) + 1)
      BY <1>1, <2>3
    <3>3. <<t[i]>> \in Text /\ UnescapeFrom(t)[i + 1] \in Text
      BY <1>1, <1>3, <3>2
    <3> QED BY <1>2, <3>1, <3>3
  <2> QED BY <2>1, <2>2, <2>3
<1>4. \A i \in 1..(Len(t) + 1) : i \in S
  <2>1. \A i \in 1..(Len(t) + 1) : (\A j \in (i + 1)..(Len(t) + 1) : j \in S) => i \in S
    BY <1>3
  <2>2. 1 \in Int /\ Len(t) + 1 \in Int
    BY <1>1
  <2> HIDE DEF S
  <2> QED BY <2>1, <2>2, Downward, Zenon
<1>5. 1 \in S
  <2> HIDE DEF S
  <2> QED BY <1>1, <1>4
<1> QED BY <1>5, UnescapeFromDef

\* What is in front of a position does not matter behind it.
LEMMA UnescapeTail ==
  ASSUME NEW x \in Text, NEW y \in Text
  PROVE  UnescapeFrom(x \o y)[Len(x) + 1] = Unescape(y)
<1> DEFINE t == x \o y
           m == Len(x)
           n == Len(y)
           S == {i \in 1..(n + 1) : UnescapeFrom(t)[m + i] = UnescapeFrom(y)[i]}
<1>1. /\ t \in Text /\ Len(t) = m + n /\ m \in Nat /\ n \in Nat
      /\ \A i \in 1..n : t[m + i] = y[i]
  BY DEF Text
<1> HIDE DEF t, m, n
<1>2. ASSUME NEW i \in 1..(n + 1), \A j \in (i + 1)..(n + 1) : j \in S
      PROVE  UnescapeFrom(t)[m + i] = UnescapeFrom(y)[i]
  <2>1. /\ m + i \in 1..(Len(t) + 1)
        /\ m + i > Len(t) <=> i > n
        /\ m + i < Len(t) <=> i < n
    BY <1>1
  <2>2. UnescapeFrom(t)[m + i] =
          IF m + i > Len(t) THEN << >>
          ELSE IF t[m + i] = Backslash /\ m + i < Len(t)
               THEN UnescapePair(t[m + i + 1]) \o UnescapeFrom(t)[m + i + 2]
               ELSE <<t[m + i]>> \o UnescapeFrom(t)[m + i + 1]
    BY <1>1, <2>1, UnescapeFromDef
  <2>3. UnescapeFrom(y)[i] =
          IF i > n THEN << >>
          ELSE IF y[i] = Backslash /\ i < n
               THEN UnescapePair(y[i + 1]) \o UnescapeFrom(y)[i + 2]
               ELSE <<y[i]>> \o UnescapeFrom(y)[i + 1]
    BY UnescapeFromDef DEF n
  <2>4. CASE i > n
    BY <2>1, <2>2, <2>3, <2>4
  <2>5. CASE ~ (i > n) /\ y[i] = Backslash /\ i < n
    <3>1. t[m + i] = y[i] /\ t[m + i + 1] = y[i + 1] /\ i + 2 \in (i + 1)..(n + 1)
      <4>1. i \in 1..n /\ i + 1 \in 1..n /\ m + (i + 1) = m + i + 1
        BY <1>1, <2>5
      <4> QED BY <1>1, <4>1
    <3>2. UnescapeFrom(t)[m + i + 2] = UnescapeFrom(y)[i + 2]
      <4>1. i + 2 \in S /\ m + (i + 2) = m + i + 2
        BY <1>1, <1>2, <3>1
      <4> QED BY <4>1
    <3>3. UnescapeFrom(y)[i] = UnescapePair(y[i + 1]) \o UnescapeFrom(y)[i + 2]
      BY <2>3, <2>5
    <3>4. UnescapeFrom(t)[m + i] = UnescapePair(t[m + i + 1]) \o UnescapeFrom(t)[m + i + 2]
      BY <2>1, <2>2, <2>5, <3>1
    <3> QED BY <3>1, <3>2, <3>3, <3>4
  <2>6. CASE ~ (i > n) /\ ~ (y[i] = Backslash /\ i < n)
    <3>1. t[m + i] = y[i] /\ i + 1 \in (i + 1)..(n + 1)
      BY <1>1, <2>6
    <3>2. UnescapeFrom(t)[m + i + 1] = UnescapeFrom(y)[i + 1]
      <4>1. i + 1 \in S /\ m + (i + 1) = m + i + 1
        BY <1>1, <1>2, <3>1
      <4> QED BY <4>1
    <3> QED BY <2>1, <2>2, <2>3, <2>6, <3>1, <3>2
  <2> QED BY <2>4, <2>5, <2>6
<1>3. \A i \in 1..(n + 1) : i \in S
  <2>1. \A i \in 1..(n + 1) : (\A j \in (i + 1)..(n + 1) : j \in S) => i \in S
    BY <1>2
  <2>2. 1 \in Int /\ n + 1 \in Int
    BY <1>1
  <2> HIDE DEF S
  <2> QED BY <2>1, <2>2, Downward, Zenon
<1>4. 1 \in S
  <2> HIDE DEF S
  <2> QED BY <1>1, <1>3
<1> QED BY <1>4, UnescapeFromDef DEF t, m

LEMMA UnescapeFront ==
  ASSUME NEW s \in Symbols, NEW y \in Text
  PROVE  /\ s # Backslash => Unescape(<<s>> \o y) = <<s>> \o Unescape(y)
         /\ Unescape(<<Backslash, s>> \o y) = UnescapePair(s) \o Unescape(y)
<1>1. Backslash \in Symbols
  BY SymbolsAssumption
<1>2. ASSUME s # Backslash PROVE Unescape(<<s>> \o y) = <<s>> \o Unescape(y)
  <2> DEFINE x == <<s>>
             t == x \o y
  <2>1. /\ x \in Text /\ Len(x) = 1 /\ t \in Text
        /\ Len(t) = 1 + Len(y) /\ Len(y) \in Nat /\ t[1] = s
    BY <1>1 DEF Text
  <2> HIDE DEF x
  <2>2. UnescapeFrom(t)[1 + 1] = Unescape(y)
    BY <2>1, UnescapeTail
  <2> HIDE DEF t
  <2>3. UnescapeFrom(t)[1] =
          IF 1 > Len(t) THEN << >>
          ELSE IF t[1] = Backslash /\ 1 < Len(t)
               THEN UnescapePair(t[1 + 1]) \o UnescapeFrom(t)[1 + 2]
               ELSE <<t[1]>> \o UnescapeFrom(t)[1 + 1]
    <3>1. 1 \in 1..(Len(t) + 1)
      BY <2>1
    <3> QED BY <2>1, <3>1, UnescapeFromDef, Zenon
  <2>4. Unescape(t) = UnescapeFrom(t)[1]
    BY <2>1, UnescapeFromDef
  <2>5. Unescape(t) = <<s>> \o Unescape(y)
    BY <1>2, <2>1, <2>2, <2>3, <2>4
  <2> QED BY <2>5 DEF t, x
<1>3. Unescape(<<Backslash, s>> \o y) = UnescapePair(s) \o Unescape(y)
  <2> DEFINE x == <<Backslash, s>>
             t == x \o y
  <2>1. /\ x \in Text /\ Len(x) = 2 /\ t \in Text
        /\ Len(t) = 2 + Len(y) /\ Len(y) \in Nat /\ t[1] = Backslash /\ t[2] = s
    BY <1>1 DEF Text
  <2> HIDE DEF x
  <2>2. UnescapeFrom(t)[2 + 1] = Unescape(y)
    BY <2>1, UnescapeTail
  <2> HIDE DEF t
  <2>3. UnescapeFrom(t)[1] =
          IF 1 > Len(t) THEN << >>
          ELSE IF t[1] = Backslash /\ 1 < Len(t)
               THEN UnescapePair(t[1 + 1]) \o UnescapeFrom(t)[1 + 2]
               ELSE <<t[1]>> \o UnescapeFrom(t)[1 + 1]
    <3>1. 1 \in 1..(Len(t) + 1)
      BY <2>1
    <3> QED BY <2>1, <3>1, UnescapeFromDef, Zenon
  <2>4. Unescape(t) = UnescapeFrom(t)[1]
    BY <2>1, UnescapeFromDef
  <2>5. UnescapeFrom(t)[1] = UnescapePair(t[1 + 1]) \o UnescapeFrom(t)[1 + 2]
    <3>1. ~ (1 > Len(t)) /\ 1 < Len(t)
      BY <2>1
    <3> QED BY <2>1, <2>3, <3>1
  <2>6. 1 + 1 = 2 /\ 1 + 2 = 2 + 1
    OBVIOUS
  <2>7. UnescapeFrom(t)[1] = UnescapePair(s) \o Unescape(y)
    BY <2>1, <2>2, <2>5, <2>6
  <2>8. Unescape(t) = UnescapePair(s) \o Unescape(y)
    BY <2>4, <2>7
  <2> QED BY <2>8 DEF t, x
<1> QED BY <1>2, <1>3

LEMMA UnescapeEmpty == Unescape(<< >>) = << >>
<1>1. << >> \in Text /\ Len(<< >>) = 0 /\ 1 \in 1..(0 + 1) /\ 1 > 0
  BY DEF Text
<1> QED BY <1>1, UnescapeFromDef

\* An escaped symbol in front is read back as the symbol.
LEMMA UnescapeSymbol ==
  ASSUME NEW s \in Symbols, NEW y \in Text
  PROVE  Unescape(EscapeSymbol(s) \o y) = <<s>> \o Unescape(y)
<1>1. {"c", "n", "r", "\\"} \subseteq Symbols
  BY SymbolsAssumption, EscapesDef DEF Backslash
<1>2. /\ UnescapePair("c") = <<":">>
      /\ UnescapePair("n") = <<"LF">>
      /\ UnescapePair("r") = <<"CR">>
      /\ UnescapePair("\\") = <<"\\">>
  BY EscapesDef DEF UnescapePair, Backslash
<1>3. \A l \in {"c", "n", "r", "\\"} : Unescape(<<"\\", l>> \o y) = UnescapePair(l) \o Unescape(y)
  BY <1>1, UnescapeFront DEF Backslash
<1>4. CASE s \notin {"\\", ":", "LF", "CR"}
  BY <1>4, EscapeSymbolDef, UnescapeFront DEF Backslash
<1>5. CASE s = "\\"
  BY <1>2, <1>3, <1>5, EscapeSymbolDef
<1>6. CASE s = ":"
  BY <1>2, <1>3, <1>6, EscapeSymbolDef
<1>7. CASE s = "LF"
  BY <1>2, <1>3, <1>7, EscapeSymbolDef
<1>8. CASE s = "CR"
  BY <1>2, <1>3, <1>8, EscapeSymbolDef
<1> QED BY <1>4, <1>5, <1>6, <1>7, <1>8

\* unescape_header_value undoes write_escaped, for every text.
THEOREM UnescapeEscape == \A t \in Text : Unescape(Escape(t)) = t
<1> DEFINE S == {t \in Text : \A y \in Text : Unescape(Escape(t) \o y) = t \o Unescape(y)}
<1>1. << >> \in S
  <2>1. << >> \in Text
    BY DEF Text
  <2>2. ASSUME NEW y \in Text
        PROVE  Unescape(Escape(<< >>) \o y) = << >> \o Unescape(y)
    <3>1. << >> \o y = y /\ << >> \o Unescape(y) = Unescape(y)
      BY UnescapeType DEF Text
    <3> QED BY <3>1, EscapeAppend
  <2> QED BY <2>1, <2>2
<1>2. ASSUME NEW t \in Text, NEW s \in Symbols, t \in S, NEW y \in Text
      PROVE  Unescape(Escape(Append(t, s)) \o y) = Append(t, s) \o Unescape(y)
  <2>1. Escape(t) \in Seq(Symbols) /\ EscapeSymbol(s) \in Seq(Symbols)
        /\ y \in Seq(Symbols) /\ Unescape(y) \in Seq(Symbols) /\ t \in Seq(Symbols)
        /\ <<s>> \in Seq(Symbols)
    BY EscapeAppend, EscapeSymbolType, UnescapeType DEF Text
  <2>2. Escape(Append(t, s)) \o y = Escape(t) \o (EscapeSymbol(s) \o y)
    <3>1. Escape(Append(t, s)) = Escape(t) \o EscapeSymbol(s)
      BY EscapeAppend
    <3> QED BY <2>1, <3>1, ConcatAssociative
  <2>3. EscapeSymbol(s) \o y \in Text
    BY <2>1 DEF Text
  <2>4. Unescape(Escape(t) \o (EscapeSymbol(s) \o y)) = t \o Unescape(EscapeSymbol(s) \o y)
    BY <1>2, <2>3
  <2>5. Unescape(EscapeSymbol(s) \o y) = <<s>> \o Unescape(y)
    BY UnescapeSymbol
  <2>6. t \o (<<s>> \o Unescape(y)) = Append(t, s) \o Unescape(y)
    <3>1. Append(t, s) = t \o <<s>>
      BY <2>1
    <3>2. (t \o <<s>>) \o Unescape(y) = t \o (<<s>> \o Unescape(y))
      BY <2>1, ConcatAssociative
    <3> QED BY <3>1, <3>2
  <2> QED BY <2>2, <2>4, <2>5, <2>6
<1>3. \A t \in Seq(Symbols), s \in Symbols : t \in S => Append(t, s) \in S
  <2> SUFFICES ASSUME NEW t \in Seq(Symbols), NEW s \in Symbols, t \in S
               PROVE  Append(t, s) \in S
    OBVIOUS
  <2>1. t \in Text /\ Append(t, s) \in Text
    BY DEF Text
  <2> QED BY <1>2, <2>1
<1>4. \A t \in Seq(Symbols) : t \in S
  <2> HIDE DEF S
  <2> QED BY <1>1, <1>3, SequencesUpward
<1>5. ASSUME NEW t \in Text PROVE Unescape(Escape(t)) = t
  <2>0. << >> \in Text /\ Escape(t) \in Text
    BY EscapeAppend DEF Text
  <2>1. << >> \in Text /\ Escape(t) \in Text /\ t \in S
    <3> HIDE DEF S
    <3> QED BY <1>4, <2>0 DEF Text
  <2>2. Unescape(Escape(t) \o << >>) = t \o Unescape(<< >>)
    BY <2>1
  <2>3. Escape(t) \o << >> = Escape(t) /\ t \o << >> = t
    BY <2>1 DEF Text
  <2> QED BY <2>2, <2>3, UnescapeEmpty
<1> QED BY <1>5

-----------------------------------------------------------------------------
(***************************************************************************)
(* Lists of headers.                                                       *)
(***************************************************************************)

\* Without goes header by header.
LEMMA WithoutAppend ==
  ASSUME NEW K
  PROVE  /\ Without(<< >>, K) = << >>
         /\ \A s \in Headers : Without(s, K) \in Headers
         /\ \A s \in Headers, x \in Text \X Text :
               Without(Append(s, x), K) =
                   IF x[1] \in K THEN Without(s, K) ELSE Append(Without(s, K), x)
<1> DEFINE A     == Text \X Text
           op    == [p \in Headers \X A |->
                        IF p[2][1] \in K THEN p[1] ELSE Append(p[1], p[2])]
           value == [s \in Headers |-> Without(s, K)]
<1>0. Headers = Seq(A)
  BY DEF Headers
<1> HIDE DEF A
<1>1. ASSUME NEW v \in Headers, NEW x \in A
      PROVE  /\ (IF x[1] \in K THEN v ELSE Append(v, x)) \in Headers
             /\ op[<<v, x>>] = IF x[1] \in K THEN v ELSE Append(v, x)
  <2>1. (IF x[1] \in K THEN v ELSE Append(v, x)) \in Headers
    BY <1>0
  <2> QED BY <2>1
<1>2. op \in [Headers \X A -> Headers]
  BY <1>1
<1>3. << >> \in Headers
  BY <1>0
<1> HIDE DEF op
<1>4. ASSUME NEW t \in Headers
      PROVE  \E u : Follows(u, t, << >>, op, Headers) /\ value[t] = u[Len(t)]
  <2> DEFINE Upto(u) ==
        u = [i \in 0..Len(t) |->
               IF i = 0 THEN << >>
               ELSE IF t[i][1] \in K THEN u[i - 1]
               ELSE Append(u[i - 1], t[i])]
  <2>1. PICK w \in [0..Len(t) -> Headers] : Folds(w, t, << >>, op)
    BY <1>0, <1>2, <1>3, FoldExists
  <2>2. \A i \in 1..Len(t) : i - 1 \in 0..Len(t) /\ t[i] \in A
    BY <1>0
  <2>3. ASSUME NEW i \in 0..Len(t)
        PROVE  w[i] = IF i = 0 THEN << >>
                      ELSE IF t[i][1] \in K THEN w[i - 1]
                      ELSE Append(w[i - 1], t[i])
    <3>1. w[i] = IF i = 0 THEN << >> ELSE op[<<w[i - 1], t[i]>>]
      BY <2>1 DEF Folds
    <3>2. i # 0 => op[<<w[i - 1], t[i]>>] =
                     IF t[i][1] \in K THEN w[i - 1] ELSE Append(w[i - 1], t[i])
      <4> SUFFICES ASSUME i # 0
                   PROVE  op[<<w[i - 1], t[i]>>] =
                            IF t[i][1] \in K THEN w[i - 1] ELSE Append(w[i - 1], t[i])
        OBVIOUS
      <4>1. i \in 1..Len(t)
        BY <1>0
      <4>2. w[i - 1] \in Headers /\ t[i] \in A
        BY <2>2, <4>1
      <4> QED BY <1>1, <4>2
    <3> QED BY <3>1, <3>2
  <2>4. Upto(w)
    BY <2>3
  <2> DEFINE u == CHOOSE u : Upto(u)
  <2>5. Upto(u)
    BY <2>4
  <2>6. Without(t, K) = u[Len(t)]
    BY DEF Without
  <2> HIDE DEF u
  <2>7. \A i \in 0..Len(t) : u[i] = IF i = 0 THEN << >>
                                    ELSE IF t[i][1] \in K THEN u[i - 1]
                                    ELSE Append(u[i - 1], t[i])
    BY <2>5
  <2>8. Follows(u, t, << >>, op, Headers)
    <3> SUFFICES ASSUME NEW i \in 0..Len(t)
                 PROVE  IF i = 0 THEN u[i] = << >>
                        ELSE u[i - 1] \in Headers => u[i] = op[<<u[i - 1], t[i]>>]
      BY DEF Follows
    <3>1. i = 0 \/ i \in 1..Len(t)
      BY <1>0
    <3>2. ASSUME i # 0, u[i - 1] \in Headers PROVE u[i] = op[<<u[i - 1], t[i]>>]
      <4>1. t[i] \in A
        BY <2>2, <3>1, <3>2
      <4>2. op[<<u[i - 1], t[i]>>] =
              IF t[i][1] \in K THEN u[i - 1] ELSE Append(u[i - 1], t[i])
        BY <1>1, <3>2, <4>1
      <4> QED BY <2>7, <3>2, <4>2
    <3> QED BY <2>7, <3>2
  <2> QED BY <2>6, <2>8
<1> HIDE DEF value
<1>5. /\ value[<< >>] = << >>
      /\ \A s \in Seq(A) : value[s] \in Headers
      /\ \A s \in Seq(A), x \in A : value[Append(s, x)] = op[<<value[s], x>>]
  <2>1. \A s \in Seq(A) : \E u : Follows(u, s, << >>, op, Headers) /\ value[s] = u[Len(s)]
    BY <1>0, <1>4
  <2>2. IsFold(value, A, << >>, op, Headers)
    BY <1>2, <1>3, <2>1 DEF IsFold
  <2> QED BY <2>2, FoldAppend
<1>6. \A s \in Headers : value[s] = Without(s, K)
  BY DEF value
<1>7. ASSUME NEW s \in Headers, NEW x \in A
      PROVE  Without(Append(s, x), K) =
               IF x[1] \in K THEN Without(s, K) ELSE Append(Without(s, K), x)
  <2>1. Append(s, x) \in Headers
    BY <1>0
  <2>2. value[Append(s, x)] = op[<<value[s], x>>] /\ value[s] \in Headers
    BY <1>0, <1>5
  <2> QED BY <1>1, <1>6, <2>1, <2>2
<1> QED BY <1>0, <1>3, <1>5, <1>6, <1>7 DEF A

LEMMA WithoutOne ==
  ASSUME NEW K, NEW s \in Headers, NEW x \in Text \X Text
  PROVE  Without(Append(s, x), K) =
            IF x[1] \in K THEN Without(s, K) ELSE Append(Without(s, K), x)
<1> DEFINE Pairs == Text \X Text
<1>1. \A r \in Headers, y \in Pairs :
          Without(Append(r, y), K) = IF y[1] \in K THEN Without(r, K) ELSE Append(Without(r, K), y)
  BY WithoutAppend
<1>2. x \in Pairs
  OBVIOUS
<1> HIDE DEF Pairs
<1> QED BY <1>1, <1>2

\* The options are what Present takes, one by one.
LEMMA PresentAppend ==
  ASSUME NEW A
  PROVE  /\ Present(<< >>) = << >>
         /\ \A s \in Seq(SUBSET A) : Present(s) \in Seq(A)
         /\ \A s \in Seq(SUBSET A), x \in SUBSET A :
               Present(Append(s, x)) =
                   IF x = {} THEN Present(s) ELSE Append(Present(s), CHOOSE y \in x : TRUE)
<1> DEFINE B     == SUBSET A
           V     == Seq(A)
           one   == [x \in B |-> IF x = {} THEN << >> ELSE <<CHOOSE y \in x : TRUE>>]
           op    == [p \in V \X B |-> p[1] \o one[p[2]]]
           value == [s \in Seq(B) |-> Present(s)]
<1>1. \A x \in B : /\ one[x] = IF x = {} THEN << >> ELSE <<CHOOSE y \in x : TRUE>>
                   /\ one[x] \in V
  <2> SUFFICES ASSUME NEW x \in B
               PROVE  (IF x = {} THEN << >> ELSE <<CHOOSE y \in x : TRUE>>) \in V
    OBVIOUS
  <2>1. CASE x = {}
    BY <2>1
  <2>2. CASE x # {}
    <3>1. (CHOOSE y \in x : TRUE) \in A
      BY <2>2
    <3> QED BY <2>2, <3>1
  <2> QED BY <2>1, <2>2
<1> HIDE DEF B, one
<1>2. ASSUME NEW v \in V, NEW x \in B
      PROVE  v \o one[x] \in V /\ op[<<v, x>>] = v \o one[x]
  <2>1. one[x] \in V
    BY <1>1
  <2>2. v \o one[x] \in V
    BY <2>1
  <2> QED BY <2>2
<1>3. op \in [V \X B -> V]
  BY <1>2
<1>4. << >> \in V
  OBVIOUS
<1> HIDE DEF op
<1>5. ASSUME NEW t \in Seq(B)
      PROVE  \E u : Follows(u, t, << >>, op, V) /\ value[t] = u[Len(t)]
  <2> DEFINE Upto(u) ==
        u = [i \in 0..Len(t) |->
               IF i = 0 THEN << >>
               ELSE u[i - 1] \o (IF t[i] = {} THEN << >> ELSE <<CHOOSE x \in t[i] : TRUE>>)]
  <2>1. PICK w \in [0..Len(t) -> V] : Folds(w, t, << >>, op)
    BY <1>3, <1>4, FoldExists
  <2>2. \A i \in 1..Len(t) : i - 1 \in 0..Len(t) /\ t[i] \in B
    OBVIOUS
  <2>3. ASSUME NEW i \in 0..Len(t)
        PROVE  w[i] = IF i = 0 THEN << >>
                      ELSE w[i - 1] \o (IF t[i] = {} THEN << >>
                                        ELSE <<CHOOSE x \in t[i] : TRUE>>)
    <3>1. w[i] = IF i = 0 THEN << >> ELSE op[<<w[i - 1], t[i]>>]
      BY <2>1 DEF Folds
    <3>2. ASSUME i # 0 PROVE op[<<w[i - 1], t[i]>>] = w[i - 1] \o one[t[i]] /\ t[i] \in B
      <4>1. i \in 1..Len(t)
        BY <3>2
      <4>2. w[i - 1] \in V /\ t[i] \in B
        BY <2>2, <4>1
      <4> QED BY <1>2, <4>2
    <3> QED BY <1>1, <3>1, <3>2
  <2>4. Upto(w)
    BY <2>3
  <2> DEFINE u == CHOOSE u : Upto(u)
  <2>5. Upto(u)
    BY <2>4
  <2>6. Present(t) = u[Len(t)]
    BY DEF Present
  <2> HIDE DEF u
  <2>7. \A i \in 0..Len(t) : u[i] = IF i = 0 THEN << >>
                                    ELSE u[i - 1] \o (IF t[i] = {} THEN << >>
                                                      ELSE <<CHOOSE x \in t[i] : TRUE>>)
    BY <2>5
  <2>8. Follows(u, t, << >>, op, V)
    <3> SUFFICES ASSUME NEW i \in 0..Len(t)
                 PROVE  IF i = 0 THEN u[i] = << >>
                        ELSE u[i - 1] \in V => u[i] = op[<<u[i - 1], t[i]>>]
      BY DEF Follows
    <3>1. i = 0 \/ i \in 1..Len(t)
      OBVIOUS
    <3>2. ASSUME i # 0, u[i - 1] \in V PROVE u[i] = op[<<u[i - 1], t[i]>>]
      <4>1. t[i] \in B
        BY <2>2, <3>1, <3>2
      <4>2. op[<<u[i - 1], t[i]>>] = u[i - 1] \o one[t[i]]
        BY <1>2, <3>2, <4>1
      <4> QED BY <1>1, <2>7, <3>2, <4>1, <4>2
    <3> QED BY <2>7, <3>2
  <2> QED BY <2>6, <2>8
<1> HIDE DEF value
<1>6. /\ value[<< >>] = << >>
      /\ \A s \in Seq(B) : value[s] \in V
      /\ \A s \in Seq(B), x \in B : value[Append(s, x)] = op[<<value[s], x>>]
  <2> HIDE DEF V
  <2>2. IsFold(value, B, << >>, op, V)
    BY <1>3, <1>4, <1>5 DEF IsFold
  <2> QED BY <2>2, FoldAppend
<1>7. \A s \in Seq(B) : value[s] = Present(s)
  BY DEF value
<1>8. ASSUME NEW s \in Seq(B), NEW x \in B
      PROVE  Present(Append(s, x)) =
               IF x = {} THEN Present(s) ELSE Append(Present(s), CHOOSE y \in x : TRUE)
  <2>1. Append(s, x) \in Seq(B)
    OBVIOUS
  <2>2. value[Append(s, x)] = op[<<value[s], x>>] /\ value[s] \in V
    BY <1>6
  <2>3. Present(Append(s, x)) = Present(s) \o one[x] /\ Present(s) \in V
    BY <1>2, <1>7, <2>1, <2>2
  <2> HIDE DEF V
  <2>4. Present(s) \in Seq(A) /\ one[x] = IF x = {} THEN << >> ELSE <<CHOOSE y \in x : TRUE>>
    BY <1>1, <2>3 DEF V
  <2>5. CASE x = {}
    BY <2>3, <2>4, <2>5
  <2>6. CASE x # {}
    <3>1. (CHOOSE y \in x : TRUE) \in A
      BY <2>6 DEF B
    <3>2. Present(s) \o <<CHOOSE y \in x : TRUE>> = Append(Present(s), CHOOSE y \in x : TRUE)
      BY <2>4, <3>1
    <3> QED BY <2>3, <2>4, <2>6, <3>2
  <2> QED BY <2>5, <2>6
<1>9. << >> \in Seq(B)
  OBVIOUS
<1> QED BY <1>6, <1>7, <1>8, <1>9 DEF B

LEMMA PresentEmpty == Present(<< >>) = << >>
<1>1. \A A : Present(<< >>) = << >>
  BY PresentAppend, Zenon
<1> QED BY <1>1

LEMMA PresentOne ==
  ASSUME NEW A, NEW s \in Seq(SUBSET A), NEW x \in SUBSET A
  PROVE  /\ Present(s) \in Seq(A)
         /\ x = {} => Present(Append(s, x)) = Present(s)
         /\ x # {} => Present(Append(s, x)) = Append(Present(s), CHOOSE y \in x : TRUE)
<1> DEFINE B == SUBSET A
           V == Seq(A)
<1>1. /\ \A t \in Seq(B) : Present(t) \in V
      /\ \A t \in Seq(B), o \in B :
            Present(Append(t, o)) =
              IF o = {} THEN Present(t) ELSE Append(Present(t), CHOOSE y \in o : TRUE)
  BY PresentAppend
<1>2. s \in Seq(B) /\ x \in B
  OBVIOUS
<1> HIDE DEF B, V
<1>3. /\ Present(s) \in V
      /\ Present(Append(s, x)) =
           IF x = {} THEN Present(s) ELSE Append(Present(s), CHOOSE y \in x : TRUE)
  BY <1>1, <1>2, Zenon
<1> QED BY <1>3 DEF V

LEMMA KeysConcat ==
  /\ Keys(<< >>) = {}
  /\ \A s \in Headers, x \in Text \X Text : Keys(Append(s, x)) = Keys(s) \cup {x[1]}
  /\ \A s, t \in Headers : Keys(s \o t) = Keys(s) \cup Keys(t)
<1>1. Keys(<< >>) = {}
  BY DEF Keys
<1>2. ASSUME NEW s \in Headers, NEW t \in Headers
      PROVE  Keys(s \o t) = Keys(s) \cup Keys(t)
  <2>1. /\ Len(s) \in Nat /\ Len(t) \in Nat /\ Len(s \o t) = Len(s) + Len(t)
        /\ \A i \in 1..Len(s) : (s \o t)[i] = s[i]
        /\ \A i \in 1..Len(t) : (s \o t)[Len(s) + i] = t[i]
    BY DEF Headers
  <2>2. ASSUME NEW k \in Keys(s \o t) PROVE k \in Keys(s) \cup Keys(t)
    <3>1. PICK i \in 1..Len(s \o t) : k = (s \o t)[i][1]
      BY DEF Keys
    <3>2. CASE i \in 1..Len(s)
      BY <2>1, <3>1, <3>2 DEF Keys
    <3>3. CASE i \notin 1..Len(s)
      <4>1. i - Len(s) \in 1..Len(t) /\ Len(s) + (i - Len(s)) = i
        BY <2>1, <3>3
      <4>2. (s \o t)[i] = t[i - Len(s)]
        BY <2>1, <4>1
      <4> QED BY <3>1, <4>1, <4>2 DEF Keys
    <3> QED BY <3>2, <3>3
  <2>3. ASSUME NEW k \in Keys(s) PROVE k \in Keys(s \o t)
    <3>1. PICK i \in 1..Len(s) : k = s[i][1]
      BY DEF Keys
    <3>2. i \in 1..Len(s \o t) /\ (s \o t)[i] = s[i]
      BY <2>1
    <3> QED BY <3>1, <3>2 DEF Keys
  <2>4. ASSUME NEW k \in Keys(t) PROVE k \in Keys(s \o t)
    <3>1. PICK i \in 1..Len(t) : k = t[i][1]
      BY DEF Keys
    <3>2. Len(s) + i \in 1..Len(s \o t) /\ (s \o t)[Len(s) + i] = t[i]
      BY <2>1
    <3> QED BY <3>1, <3>2 DEF Keys
  <2> QED BY <2>2, <2>3, <2>4
<1>3. ASSUME NEW s \in Headers, NEW x \in Text \X Text
      PROVE  Keys(Append(s, x)) = Keys(s) \cup {x[1]}
  <2>1. Append(s, x) = s \o <<x>> /\ <<x>> \in Headers
    BY DEF Headers
  <2>2. Keys(<<x>>) = {x[1]}
    BY DEF Keys
  <2> QED BY <1>2, <2>1, <2>2
<1> QED BY <1>1, <1>2, <1>3

\* Find takes the first header of the key.
LEMMA FindFirst ==
  ASSUME NEW s \in Headers, NEW key, NEW i \in 1..Len(s),
         s[i][1] = key, \A j \in 1..Len(s) : s[j][1] = key => i <= j
  PROVE  Find(s, key) = {s[i][2]}
<1> DEFINE at == {j \in 1..Len(s) : s[j][1] = key}
<1>1. {j \in at : \A k \in at : j <= k} = {i}
  <2>1. i \in at /\ \A j \in at : i <= j
    OBVIOUS
  <2>2. \A j \in at : j \in Int
    OBVIOUS
  <2> HIDE DEF at
  <2> QED BY <2>1, <2>2
<1>2. Find(s, key) = {s[j][2] : j \in {j \in at : \A k \in at : j <= k}}
  BY DEF Find
<1> HIDE DEF at
<1> QED BY <1>1, <1>2

LEMMA FirstExists ==
  ASSUME NEW s \in Headers, NEW key \in Keys(s)
  PROVE  \E i \in 1..Len(s) :
            s[i][1] = key /\ \A j \in 1..Len(s) : s[j][1] = key => i <= j
<1> DEFINE at == {j \in 1..Len(s) : s[j][1] = key}
<1>1. at # {}
  BY DEF Keys
<1>2. at \in SUBSET Nat
  BY DEF Headers
<1>3. PICK i \in at : \A j \in at : i <= j
  <2> HIDE DEF at
  <2> QED BY <1>1, <1>2, LeastNat
<1> QED BY <1>3

LEMMA FindNone ==
  ASSUME NEW s \in Headers, NEW key, key \notin Keys(s)
  PROVE  Find(s, key) = {}
<1>1. \A j \in 1..Len(s) : s[j][1] # key
  BY DEF Keys
<1> QED BY <1>1 DEF Find

\* What Find returns: at most one value, some header's.
LEMMA FindType ==
  ASSUME NEW s \in Headers, NEW key
  PROVE  /\ Find(s, key) \in SUBSET Text
         /\ AtMostOne(Find(s, key))
         /\ Find(s, key) = {} <=> key \notin Keys(s)
         /\ \A v \in Find(s, key) : \E i \in 1..Len(s) : s[i] = <<key, v>>
<1>0. \A i \in 1..Len(s) : s[i] \in Text \X Text
  BY DEF Headers
<1>1. CASE key \in Keys(s)
  <2>1. PICK i \in 1..Len(s) :
            s[i][1] = key /\ \A j \in 1..Len(s) : s[j][1] = key => i <= j
    BY <1>1, FirstExists
  <2>2. Find(s, key) = {s[i][2]}
    BY <2>1, FindFirst
  <2>3. s[i] = <<key, s[i][2]>> /\ s[i][2] \in Text
    BY <1>0, <2>1
  <2> QED BY <1>1, <2>2, <2>3 DEF AtMostOne
<1>2. CASE key \notin Keys(s)
  BY <1>2, FindNone DEF AtMostOne
<1> QED BY <1>1, <1>2

LEMMA FindConcat ==
  ASSUME NEW s \in Headers, NEW t \in Headers, NEW key
  PROVE  Find(s \o t, key) = IF key \in Keys(s) THEN Find(s, key) ELSE Find(t, key)
<1>1. /\ Len(s) \in Nat /\ Len(t) \in Nat /\ Len(s \o t) = Len(s) + Len(t)
      /\ \A i \in 1..Len(s) : (s \o t)[i] = s[i]
      /\ \A i \in 1..Len(t) : (s \o t)[Len(s) + i] = t[i]
      /\ s \o t \in Headers
  BY DEF Headers
<1>2. CASE key \in Keys(s)
  <2>1. PICK i \in 1..Len(s) :
            s[i][1] = key /\ \A j \in 1..Len(s) : s[j][1] = key => i <= j
    BY <1>2, FirstExists
  <2>2. Find(s, key) = {s[i][2]}
    BY <2>1, FindFirst
  <2>3. i \in 1..Len(s \o t) /\ (s \o t)[i] = s[i]
    BY <1>1
  <2>4. \A j \in 1..Len(s \o t) : (s \o t)[j][1] = key => i <= j
    <3> SUFFICES ASSUME NEW j \in 1..Len(s \o t), (s \o t)[j][1] = key, j < i
                 PROVE  FALSE
      BY <1>1
    <3>1. j \in 1..Len(s) /\ (s \o t)[j] = s[j]
      BY <1>1
    <3> QED BY <2>1, <3>1
  <2>5. Find(s \o t, key) = {(s \o t)[i][2]}
    BY <1>1, <2>1, <2>3, <2>4, FindFirst
  <2> QED BY <1>2, <2>2, <2>3, <2>5
<1>3. CASE key \notin Keys(s) /\ key \in Keys(t)
  <2>1. PICK i \in 1..Len(t) :
            t[i][1] = key /\ \A j \in 1..Len(t) : t[j][1] = key => i <= j
    BY <1>3, FirstExists
  <2>2. Find(t, key) = {t[i][2]}
    BY <2>1, FindFirst
  <2>3. Len(s) + i \in 1..Len(s \o t) /\ (s \o t)[Len(s) + i] = t[i]
    BY <1>1
  <2>4. \A j \in 1..Len(s \o t) : (s \o t)[j][1] = key => Len(s) + i <= j
    <3> SUFFICES ASSUME NEW j \in 1..Len(s \o t), (s \o t)[j][1] = key
                 PROVE  Len(s) + i <= j
      OBVIOUS
    <3>1. j \notin 1..Len(s)
      BY <1>1, <1>3 DEF Keys
    <3>2. j - Len(s) \in 1..Len(t) /\ Len(s) + (j - Len(s)) = j
      BY <1>1, <3>1
    <3>3. t[j - Len(s)][1] = key
      BY <1>1, <3>2
    <3>4. i <= j - Len(s)
      BY <2>1, <3>2, <3>3
    <3> QED BY <1>1, <3>4
  <2>5. Find(s \o t, key) = {(s \o t)[Len(s) + i][2]}
    <3> DEFINE st == s \o t
               n  == Len(s) + i
    <3>1. /\ st \in Headers /\ n \in 1..Len(st) /\ st[n][1] = key
          /\ \A j \in 1..Len(st) : st[j][1] = key => n <= j
      BY <1>1, <2>1, <2>3, <2>4
    <3> HIDE DEF st, n
    <3>2. Find(st, key) = {st[n][2]}
      BY <3>1, FindFirst
    <3> QED BY <3>2 DEF st, n
  <2> QED BY <1>3, <2>2, <2>3, <2>5
<1>4. CASE key \notin Keys(s) /\ key \notin Keys(t)
  <2>1. key \notin Keys(s \o t)
    BY <1>4, KeysConcat
  <2> QED BY <1>1, <1>4, <2>1, FindNone
<1> QED BY <1>2, <1>3, <1>4

LEMMA FindAppend ==
  ASSUME NEW s \in Headers, NEW x \in Text \X Text, NEW key
  PROVE  Find(Append(s, x), key) =
            IF key \in Keys(s) THEN Find(s, key)
            ELSE IF x[1] = key THEN {x[2]} ELSE {}
<1>1. Append(s, x) = s \o <<x>> /\ <<x>> \in Headers /\ Len(<<x>>) = 1 /\ <<x>>[1] = x
  BY DEF Headers
<1>2. Keys(<<x>>) = {x[1]}
  BY DEF Keys
<1>3. x[1] = key => Find(<<x>>, key) = {x[2]}
  <2>1. 1 \in 1..Len(<<x>>) /\ \A j \in 1..Len(<<x>>) : 1 <= j
    BY <1>1
  <2> QED BY <1>1, <2>1, FindFirst
<1>4. x[1] # key => Find(<<x>>, key) = {}
  BY <1>1, <1>2, FindNone
<1>5. Find(s \o <<x>>, key) = IF key \in Keys(s) THEN Find(s, key) ELSE Find(<<x>>, key)
  BY <1>1, FindConcat
<1> QED BY <1>1, <1>3, <1>4, <1>5

\* Induction over lists of headers.
LEMMA HeadersUpward ==
  ASSUME NEW S, << >> \in S,
         \A s \in Headers, x \in Text \X Text : s \in S => Append(s, x) \in S
  PROVE  \A s \in Headers : s \in S
<1> DEFINE A == Text \X Text
<1>1. Headers = Seq(A) /\ \A s \in Seq(A), x \in A : s \in S => Append(s, x) \in S
  BY DEF Headers
<1> HIDE DEF A
<1> QED BY <1>1, SequencesUpward

LEMMA HeadersAppend ==
  /\ << >> \in Headers
  /\ \A s \in Headers, x \in Text \X Text : Append(s, x) \in Headers
  /\ \A s, t \in Headers : s \o t \in Headers
BY DEF Headers

\* What is left has the other keys, and its values are found as before.
LEMMA WithoutKeeps ==
  ASSUME NEW K, NEW s \in Headers
  PROVE  /\ Keys(Without(s, K)) = Keys(s) \ K
         /\ \A key : key \notin K => Find(Without(s, K), key) = Find(s, key)
<1> DEFINE Good(h) == /\ Without(h, K) \in Headers
                      /\ Keys(Without(h, K)) = Keys(h) \ K
                      /\ \A key : key \notin K => Find(Without(h, K), key) = Find(h, key)
           S == {h \in Headers : Good(h)}
<1>1. << >> \in S
  BY WithoutAppend, KeysConcat, HeadersAppend
<1>2. ASSUME NEW h \in Headers, NEW x \in Text \X Text, h \in S
      PROVE  Append(h, x) \in S
  <2>1. Append(h, x) \in Headers
    BY HeadersAppend
  <2>2. Keys(Append(h, x)) = Keys(h) \cup {x[1]}
    BY KeysConcat
  <2>3. CASE x[1] \in K
    <3>1. Without(Append(h, x), K) = Without(h, K)
      BY <2>3, WithoutAppend
    <3>2. ASSUME NEW key, key \notin K PROVE Find(Append(h, x), key) = Find(h, key)
      <4>1. key # x[1]
        BY <2>3, <3>2
      <4>2. key \notin Keys(h) => Find(h, key) = {}
        BY FindNone
      <4> QED BY <4>1, <4>2, FindAppend
    <3> QED BY <1>2, <2>1, <2>2, <2>3, <3>1, <3>2
  <2>4. CASE x[1] \notin K
    <3>1. Without(Append(h, x), K) = Append(Without(h, K), x) /\ Without(h, K) \in Headers
      BY <2>4, WithoutAppend
    <3>2. Keys(Append(Without(h, K), x)) = Keys(Without(h, K)) \cup {x[1]}
      BY <3>1, KeysConcat
    <3>3. ASSUME NEW key, key \notin K
          PROVE  Find(Append(Without(h, K), x), key) = Find(Append(h, x), key)
      <4>1. key \in Keys(Without(h, K)) <=> key \in Keys(h)
        BY <1>2, <3>3
      <4>2. Find(Without(h, K), key) = Find(h, key)
        BY <1>2, <3>3
      <4>3. /\ Find(Append(h, x), key) =
                  IF key \in Keys(h) THEN Find(h, key)
                  ELSE IF x[1] = key THEN {x[2]} ELSE {}
            /\ Find(Append(Without(h, K), x), key) =
                  IF key \in Keys(Without(h, K)) THEN Find(Without(h, K), key)
                  ELSE IF x[1] = key THEN {x[2]} ELSE {}
        BY <3>1, FindAppend
      <4> QED BY <4>1, <4>2, <4>3
    <3>4. Append(Without(h, K), x) \in Headers
      BY <3>1, HeadersAppend
    <3> QED BY <1>2, <2>1, <2>2, <2>4, <3>1, <3>2, <3>3, <3>4
  <2> QED BY <2>3, <2>4
<1>3. \A h \in Headers : h \in S
  <2> HIDE DEF S
  <2> QED BY <1>1, <1>2, HeadersUpward
<1> QED BY <1>3

LEMMA WithoutConcat ==
  ASSUME NEW K, NEW s \in Headers, NEW t \in Headers
  PROVE  Without(s \o t, K) = Without(s, K) \o Without(t, K)
<1> DEFINE S == {h \in Headers : Without(s \o h, K) = Without(s, K) \o Without(h, K)}
<1>0. Without(s, K) \in Headers
  BY WithoutAppend
<1>1. << >> \in S
  <2>1. s \o << >> = s /\ Without(s, K) \o << >> = Without(s, K)
    BY <1>0 DEF Headers
  <2> QED BY <2>1, WithoutAppend, HeadersAppend
<1>2. ASSUME NEW h \in Headers, NEW x \in Text \X Text, h \in S
      PROVE  Append(h, x) \in S
  <2>1. s \o Append(h, x) = Append(s \o h, x)
    BY DEF Headers
  <2>2. Append(h, x) \in Headers /\ s \o h \in Headers /\ Without(h, K) \in Headers
    BY HeadersAppend, WithoutAppend
  <2>3. Without(s, K) \o Append(Without(h, K), x) = Append(Without(s, K) \o Without(h, K), x)
    BY <1>0, <2>2 DEF Headers
  <2>4. /\ Without(Append(h, x), K) =
             IF x[1] \in K THEN Without(h, K) ELSE Append(Without(h, K), x)
        /\ Without(Append(s \o h, x), K) =
             IF x[1] \in K THEN Without(s \o h, K) ELSE Append(Without(s \o h, K), x)
    BY <2>2, WithoutOne
  <2> QED BY <1>2, <2>1, <2>2, <2>3, <2>4
<1>3. \A h \in Headers : h \in S
  <2> HIDE DEF S
  <2> QED BY <1>1, <1>2, HeadersUpward
<1> QED BY <1>3

LEMMA WithoutTwice ==
  ASSUME NEW K, NEW L, NEW s \in Headers
  PROVE  /\ Keys(s) \cap K = {} => Without(s, K) = s
         /\ Keys(s) \subseteq K => Without(s, K) = << >>
         /\ K \subseteq L => Without(Without(s, K), L) = Without(s, L)
<1> DEFINE Good(h) ==
             /\ Keys(h) \cap K = {} => Without(h, K) = h
             /\ Keys(h) \subseteq K => Without(h, K) = << >>
             /\ K \subseteq L => Without(Without(h, K), L) = Without(h, L)
           S == {h \in Headers : Good(h)}
<1>1. << >> \in S
  BY WithoutAppend, HeadersAppend
<1>2. ASSUME NEW h \in Headers, NEW x \in Text \X Text, h \in S
      PROVE  Append(h, x) \in S
  <2>1. Keys(Append(h, x)) = Keys(h) \cup {x[1]}
    BY KeysConcat
  <2>2. Append(h, x) \in Headers /\ Without(h, K) \in Headers
    BY HeadersAppend, WithoutAppend
  <2>3. Without(Append(h, x), K) =
          IF x[1] \in K THEN Without(h, K) ELSE Append(Without(h, K), x)
    BY WithoutOne
  <2>4. K \subseteq L => Without(Without(Append(h, x), K), L) = Without(Append(h, x), L)
    <3>1. /\ Without(Append(h, x), L) =
               IF x[1] \in L THEN Without(h, L) ELSE Append(Without(h, L), x)
          /\ Without(Append(Without(h, K), x), L) =
               IF x[1] \in L THEN Without(Without(h, K), L)
               ELSE Append(Without(Without(h, K), L), x)
      BY <2>2, WithoutOne
    <3> QED BY <1>2, <2>3, <3>1
  <2> QED BY <1>2, <2>1, <2>2, <2>3, <2>4
<1>3. \A h \in Headers : h \in S
  <2> HIDE DEF S
  <2> QED BY <1>1, <1>2, HeadersUpward
<1> QED BY <1>3

\* Every option that is there is present, and nothing else.
LEMMA PresentOf ==
  ASSUME NEW A, NEW s \in Seq(SUBSET A), \A i \in 1..Len(s) : AtMostOne(s[i])
  PROVE  /\ \A i \in 1..Len(Present(s)) : \E k \in 1..Len(s) : Present(s)[i] \in s[k]
         /\ \A k \in 1..Len(s) : \A x \in s[k] : \E i \in 1..Len(Present(s)) : Present(s)[i] = x
         /\ (\A k \in 1..Len(s) : s[k] # {}) => Len(Present(s)) = Len(s)
<1> DEFINE B == SUBSET A
           Good(t) ==
             /\ \A i \in 1..Len(Present(t)) : \E k \in 1..Len(t) : Present(t)[i] \in t[k]
             /\ \A k \in 1..Len(t) : \A x \in t[k] :
                    \E i \in 1..Len(Present(t)) : Present(t)[i] = x
             /\ (\A k \in 1..Len(t) : t[k] # {}) => Len(Present(t)) = Len(t)
           Single(t) == \A i \in 1..Len(t) : AtMostOne(t[i])
           S == {t \in Seq(B) : Single(t) => Good(t)}
<1>1. << >> \in S
  <2>1. Present(<< >>) = << >> /\ << >> \in Seq(B) /\ Len(<< >>) = 0
    BY PresentEmpty
  <2> QED BY <2>1
<1>2. ASSUME NEW t \in Seq(B), NEW o \in B, t \in S
      PROVE  Append(t, o) \in S
  <2> DEFINE a == Append(t, o)
             P == Present(t)
             Q == Present(a)
             y == CHOOSE y \in o : TRUE
  <2>1. /\ a \in Seq(B) /\ Len(t) \in Nat /\ Len(a) = Len(t) + 1 /\ a[Len(t) + 1] = o
        /\ \A k \in 1..Len(t) : k \in 1..Len(a) /\ a[k] = t[k]
        /\ Len(t) + 1 \in 1..Len(a)
    OBVIOUS
  <2>2. \A k \in 1..Len(a) : k \in 1..Len(t) \/ k = Len(t) + 1
    BY <2>1
  <2>3. P \in Seq(A) /\ Len(P) \in Nat
    <3>1. P \in Seq(A)
      BY PresentOne
    <3> HIDE DEF P
    <3> QED BY <3>1
  <2>4. /\ o = {} => Q = P
        /\ o # {} => Q = Append(P, y)
    BY PresentOne
  <2> SUFFICES ASSUME Single(a) PROVE Good(a)
    BY <2>1
  <2>5. Single(t) /\ AtMostOne(o)
    BY <2>1
  <2>6. /\ \A i \in 1..Len(P) : \E k \in 1..Len(t) : P[i] \in t[k]
        /\ \A k \in 1..Len(t) : \A x \in t[k] : \E i \in 1..Len(P) : P[i] = x
        /\ (\A k \in 1..Len(t) : t[k] # {}) => Len(P) = Len(t)
    BY <1>2, <2>5
  <2> HIDE DEF a, P, Q
  <2>7. CASE o = {}
    <3>1. \A i \in 1..Len(Q) : \E k \in 1..Len(a) : Q[i] \in a[k]
      BY <2>1, <2>4, <2>6, <2>7
    <3>2. \A k \in 1..Len(a) : \A x \in a[k] : \E i \in 1..Len(Q) : Q[i] = x
      BY <2>1, <2>2, <2>4, <2>6, <2>7
    <3>3. a[Len(t) + 1] = {} /\ Len(t) + 1 \in 1..Len(a)
      BY <2>1, <2>7
    <3> QED BY <3>1, <3>2, <3>3 DEF Q
  <2>8. CASE o # {}
    <3>1. y \in o /\ y \in A /\ \A x \in o : x = y
      BY <2>5, <2>8 DEF AtMostOne
    <3> HIDE DEF y
    <3>2. /\ Len(Q) = Len(P) + 1 /\ Q[Len(P) + 1] = y
          /\ \A i \in 1..Len(P) : i \in 1..Len(Q) /\ Q[i] = P[i]
          /\ Len(P) + 1 \in 1..Len(Q)
          /\ \A i \in 1..Len(Q) : i \in 1..Len(P) \/ i = Len(P) + 1
      BY <2>3, <2>4, <2>8, <3>1
    <3>3. ASSUME NEW i \in 1..Len(Q) PROVE \E k \in 1..Len(a) : Q[i] \in a[k]
      <4>1. CASE i \in 1..Len(P)
        BY <2>1, <2>6, <3>2, <4>1
      <4>2. CASE i = Len(P) + 1
        BY <2>1, <3>1, <3>2, <4>2
      <4> QED BY <3>2, <4>1, <4>2
    <3>4. ASSUME NEW k \in 1..Len(a), NEW x \in a[k]
          PROVE  \E i \in 1..Len(Q) : Q[i] = x
      <4>1. CASE k \in 1..Len(t)
        <5>1. PICK i \in 1..Len(P) : P[i] = x
          BY <2>1, <2>6, <4>1
        <5> QED BY <3>2, <5>1
      <4>2. CASE k = Len(t) + 1
        BY <2>1, <3>1, <3>2, <4>2
      <4> QED BY <2>2, <4>1, <4>2
    <3>5. (\A k \in 1..Len(a) : a[k] # {}) => Len(Q) = Len(a)
      BY <2>1, <2>6, <3>2
    <3> QED BY <3>3, <3>4, <3>5 DEF Q
  <2> QED BY <2>7, <2>8
<1>3. \A t \in Seq(B) : t \in S
  <2> HIDE DEF S, B
  <2> QED BY <1>1, <1>2, SequencesUpward
<1>4. s \in S
  BY <1>3
<1> QED BY <1>4

-----------------------------------------------------------------------------

\* The headers with their keys and their values replaced.
Mapped(s, ks, vs) == [i \in 1..Len(s) |-> <<ks[s[i][1]], vs[s[i][2]]>>]

LEMMA MappedDef ==
  ASSUME NEW s \in Headers, NEW ks \in [Text -> Text], NEW vs \in [Text -> Text]
  PROVE  /\ Mapped(s, ks, vs) \in Headers
         /\ Len(Mapped(s, ks, vs)) = Len(s)
         /\ \A i \in 1..Len(s) : Mapped(s, ks, vs)[i] = <<ks[s[i][1]], vs[s[i][2]]>>
         /\ Keys(Mapped(s, ks, vs)) = {ks[k] : k \in Keys(s)}
<1> DEFINE m == Mapped(s, ks, vs)
<1>1. \A i \in 1..Len(s) : s[i][1] \in Text /\ s[i][2] \in Text
  BY DEF Headers
<1>2. \A i \in 1..Len(s) : <<ks[s[i][1]], vs[s[i][2]]>> \in Text \X Text
  BY <1>1
<1>3. Len(s) \in Nat
  BY DEF Headers
<1>4. m \in [1..Len(s) -> Text \X Text]
  BY <1>2 DEF Mapped
<1>5. m \in Headers /\ Len(m) = Len(s)
  BY <1>3, <1>4 DEF Headers
<1>6. \A i \in 1..Len(s) : m[i] = <<ks[s[i][1]], vs[s[i][2]]>>
  BY DEF Mapped
<1>7. \A i \in 1..Len(s) : m[i][1] = ks[s[i][1]]
  BY <1>6
<1> HIDE DEF m
<1>8. Keys(m) = {ks[k] : k \in Keys(s)}
  BY <1>5, <1>7 DEF Keys
<1> QED BY <1>5, <1>6, <1>8 DEF m

LEMMA MappedAppend ==
  ASSUME NEW s \in Headers, NEW ks \in [Text -> Text], NEW vs \in [Text -> Text],
         NEW x \in Text \X Text
  PROVE  /\ Mapped(<< >>, ks, vs) = << >>
         /\ Mapped(Append(s, x), ks, vs) = Append(Mapped(s, ks, vs), <<ks[x[1]], vs[x[2]]>>)
<1> DEFINE a == Append(s, x)
           y == <<ks[x[1]], vs[x[2]]>>
           m == Mapped(s, ks, vs)
           b == Append(m, y)
<1>1. /\ a \in Headers /\ Len(s) \in Nat /\ Len(a) = Len(s) + 1 /\ a[Len(s) + 1] = x
      /\ \A i \in 1..Len(s) : a[i] = s[i]
  BY DEF Headers
<1>2. y \in Text \X Text
  OBVIOUS
<1>3. m \in Headers /\ Len(m) = Len(s) /\ \A i \in 1..Len(s) : m[i] = <<ks[s[i][1]], vs[s[i][2]]>>
  BY MappedDef
<1> HIDE DEF m
<1>4. /\ b \in Headers /\ Len(b) = Len(s) + 1 /\ b[Len(s) + 1] = y
      /\ \A i \in 1..Len(s) : b[i] = m[i]
  <2> HIDE DEF y
  <2> QED BY <1>1, <1>2, <1>3 DEF Headers
<1>5. /\ Mapped(a, ks, vs) \in Headers
      /\ Len(Mapped(a, ks, vs)) = Len(a)
      /\ \A i \in 1..Len(a) : Mapped(a, ks, vs)[i] = <<ks[a[i][1]], vs[a[i][2]]>>
  BY <1>1, MappedDef
<1> HIDE DEF a, b
<1>6. ASSUME NEW i \in 1..Len(a) PROVE Mapped(a, ks, vs)[i] = b[i]
  <2>1. CASE i = Len(s) + 1
    BY <1>1, <1>4, <1>5, <2>1
  <2>2. CASE i # Len(s) + 1
    <3>1. i \in 1..Len(s)
      BY <1>1, <2>2
    <3>2. a[i] = s[i] /\ b[i] = <<ks[s[i][1]], vs[s[i][2]]>>
      BY <1>1, <1>3, <1>4, <3>1
    <3> QED BY <1>5, <3>2
  <2> QED BY <2>1, <2>2
<1>7. Mapped(a, ks, vs) = b
  BY <1>1, <1>4, <1>5, <1>6 DEF Headers
<1>8. Mapped(<< >>, ks, vs) = << >>
  BY DEF Mapped
<1> QED BY <1>7, <1>8 DEF a, b, m

LEMMA MappedConcat ==
  ASSUME NEW s \in Headers, NEW t \in Headers, NEW ks \in [Text -> Text], NEW vs \in [Text -> Text]
  PROVE  Mapped(s \o t, ks, vs) = Mapped(s, ks, vs) \o Mapped(t, ks, vs)
<1> DEFINE m == Mapped(s, ks, vs)
           n == Mapped(t, ks, vs)
           c == s \o t
           d == m \o n
<1>1. /\ c \in Headers /\ Len(s) \in Nat /\ Len(t) \in Nat /\ Len(c) = Len(s) + Len(t)
      /\ \A i \in 1..Len(s) : c[i] = s[i]
      /\ \A i \in 1..Len(t) : c[Len(s) + i] = t[i]
  BY DEF Headers
<1>2. /\ m \in Headers /\ Len(m) = Len(s)
      /\ n \in Headers /\ Len(n) = Len(t)
      /\ \A i \in 1..Len(s) : m[i] = <<ks[s[i][1]], vs[s[i][2]]>>
      /\ \A i \in 1..Len(t) : n[i] = <<ks[t[i][1]], vs[t[i][2]]>>
  BY MappedDef
<1> HIDE DEF m, n
<1>3. /\ d \in Headers /\ Len(d) = Len(s) + Len(t)
      /\ \A i \in 1..Len(s) : d[i] = m[i]
      /\ \A i \in 1..Len(t) : d[Len(s) + i] = n[i]
  <2> DEFINE A == Text \X Text
  <2>1. m \in Seq(A) /\ n \in Seq(A) /\ Headers = Seq(A)
    BY <1>2 DEF Headers
  <2> HIDE DEF A
  <2>2. d \in Seq(A) /\ Len(d) = Len(m) + Len(n)
    BY <2>1
  <2>3. \A i \in 1..Len(m) : d[i] = m[i]
    BY <2>1
  <2>4. \A i \in 1..Len(n) : d[Len(m) + i] = n[i]
    BY <2>1
  <2> QED BY <1>2, <2>1, <2>2, <2>3, <2>4
<1>4. /\ Mapped(c, ks, vs) \in Headers
      /\ Len(Mapped(c, ks, vs)) = Len(c)
      /\ \A i \in 1..Len(c) : Mapped(c, ks, vs)[i] = <<ks[c[i][1]], vs[c[i][2]]>>
  BY <1>1, MappedDef
<1> HIDE DEF c, d
<1>5. ASSUME NEW i \in 1..Len(c) PROVE Mapped(c, ks, vs)[i] = d[i]
  <2>1. CASE i \in 1..Len(s)
    <3>1. c[i] = s[i] /\ d[i] = <<ks[s[i][1]], vs[s[i][2]]>>
      BY <1>1, <1>2, <1>3, <2>1
    <3> QED BY <1>4, <3>1
  <2>2. CASE i \notin 1..Len(s)
    <3>1. i - Len(s) \in 1..Len(t) /\ Len(s) + (i - Len(s)) = i
      BY <1>1, <2>2
    <3>2. c[i] = t[i - Len(s)] /\ d[i] = n[i - Len(s)]
      BY <1>1, <1>3, <3>1
    <3> QED BY <1>2, <1>4, <3>1, <3>2
  <2> QED BY <2>1, <2>2
<1>6. Mapped(c, ks, vs) = d
  BY <1>1, <1>3, <1>4, <1>5 DEF Headers
<1> QED BY <1>6 DEF c, d, m, n

\* A value is found under the new key if no other key has become it.
LEMMA MappedFind ==
  ASSUME NEW s \in Headers, NEW ks \in [Text -> Text], NEW vs \in [Text -> Text],
         NEW old, NEW new, \A k \in Keys(s) : ks[k] = new <=> k = old
  PROVE  Find(Mapped(s, ks, vs), new) = {vs[v] : v \in Find(s, old)}
<1> DEFINE m == Mapped(s, ks, vs)
<1>1. /\ m \in Headers /\ Len(m) = Len(s)
      /\ \A i \in 1..Len(s) : m[i] = <<ks[s[i][1]], vs[s[i][2]]>>
      /\ Keys(m) = {ks[k] : k \in Keys(s)}
  BY MappedDef
<1> HIDE DEF m
<1>2. \A i \in 1..Len(s) : m[i][1] = new <=> s[i][1] = old
  BY <1>1 DEF Keys
<1>3. CASE old \in Keys(s)
  <2>1. PICK i \in 1..Len(s) : s[i][1] = old /\ \A j \in 1..Len(s) : s[j][1] = old => i <= j
    BY <1>3, FirstExists
  <2>2. Find(s, old) = {s[i][2]}
    BY <2>1, FindFirst
  <2>3. i \in 1..Len(m) /\ m[i][1] = new /\ \A j \in 1..Len(m) : m[j][1] = new => i <= j
    BY <1>1, <1>2, <2>1
  <2>4. Find(m, new) = {m[i][2]}
    BY <1>1, <2>3, FindFirst
  <2> QED BY <1>1, <2>2, <2>4 DEF m
<1>4. CASE old \notin Keys(s)
  <2>1. new \notin Keys(m)
    BY <1>1, <1>4
  <2>2. Find(m, new) = {} /\ Find(s, old) = {}
    BY <1>1, <1>4, <2>1, FindNone
  <2> QED BY <2>2 DEF m
<1> QED BY <1>3, <1>4

LEMMA MappedWithout ==
  ASSUME NEW K, NEW s \in Headers, NEW ks \in [Text -> Text], NEW vs \in [Text -> Text],
         \A k \in Text : ks[k] \in K <=> k \in K
  PROVE  Without(Mapped(s, ks, vs), K) = Mapped(Without(s, K), ks, vs)
<1> DEFINE S == {h \in Headers : Without(Mapped(h, ks, vs), K) = Mapped(Without(h, K), ks, vs)}
<1>1. << >> \in S
  <2>1. Mapped(<< >>, ks, vs) = << >>
    BY DEF Mapped
  <2>2. Without(<< >>, K) = << >>
    BY WithoutAppend
  <2> QED BY <2>1, <2>2, HeadersAppend
<1>2. ASSUME NEW h \in Headers, NEW x \in Text \X Text, h \in S
      PROVE  Append(h, x) \in S
  <2> DEFINE y == <<ks[x[1]], vs[x[2]]>>
  <2>1. y \in Text \X Text /\ y[1] = ks[x[1]] /\ x[1] \in Text
    OBVIOUS
  <2> HIDE DEF y
  <2>2. Append(h, x) \in Headers /\ Without(h, K) \in Headers /\ Mapped(h, ks, vs) \in Headers
    BY HeadersAppend, WithoutAppend, MappedDef
  <2>3. Mapped(Append(h, x), ks, vs) = Append(Mapped(h, ks, vs), y)
    BY MappedAppend DEF y
  <2>4. Without(Append(Mapped(h, ks, vs), y), K) =
          IF y[1] \in K THEN Without(Mapped(h, ks, vs), K)
          ELSE Append(Without(Mapped(h, ks, vs), K), y)
    BY <2>1, <2>2, WithoutOne
  <2>5. Without(Append(h, x), K) =
          IF x[1] \in K THEN Without(h, K) ELSE Append(Without(h, K), x)
    BY WithoutOne
  <2>6. Mapped(Append(Without(h, K), x), ks, vs) = Append(Mapped(Without(h, K), ks, vs), y)
    BY <2>2, MappedAppend DEF y
  <2> QED BY <1>2, <2>1, <2>2, <2>3, <2>4, <2>5, <2>6
<1>3. \A h \in Headers : h \in S
  <2> HIDE DEF S
  <2> QED BY <1>1, <1>2, HeadersUpward
<1> QED BY <1>3

-----------------------------------------------------------------------------
(***************************************************************************)
(* The variants.                                                           *)
(***************************************************************************)

LEMMA KindsDef ==
  /\ DOMAIN ToServer = {"CONNECT", "DISCONNECT", "SEND", "SUBSCRIBE", "UNSUBSCRIBE", "ACK", "NACK", "BEGIN", "COMMIT", "ABORT"}
  /\ DOMAIN FromServer = {"CONNECTED", "MESSAGE", "RECEIPT", "ERROR"}
  /\ DOMAIN Variants = DOMAIN ToServer \cup DOMAIN FromServer
  /\ \A k \in DOMAIN ToServer : Variants[k] = ToServer[k]
  /\ \A k \in DOMAIN FromServer : Variants[k] = FromServer[k]
BY DEF ToServer, FromServer, Variants

LEMMA FieldsDef ==
  /\ Fields("CONNECT") = {"accept-version", "host", "login", "passcode", "heart-beat"}
  /\ Fields("DISCONNECT") = {"receipt"}
  /\ Fields("SEND") = {"destination", "transaction"}
  /\ Fields("SUBSCRIBE") = {"destination", "id", "ack"}
  /\ Fields("UNSUBSCRIBE") = {"id"}
  /\ Fields("ACK") = {"id", "transaction"}
  /\ Fields("NACK") = {"id", "transaction"}
  /\ Fields("BEGIN") = {"transaction"}
  /\ Fields("COMMIT") = {"transaction"}
  /\ Fields("ABORT") = {"transaction"}
  /\ Fields("CONNECTED") = {"version", "session", "server", "heart-beat"}
  /\ Fields("MESSAGE") = {"destination", "message-id", "subscription"}
  /\ Fields("RECEIPT") = {"receipt-id"}
  /\ Fields("ERROR") = {"message"}
<1>1. Fields("CONNECT") = {"accept-version", "host", "login", "passcode", "heart-beat"}
  <2>1. /\ ToServer["CONNECT"].required = {"accept-version", "host"}
        /\ ToServer["CONNECT"].optional = {"login", "passcode", "heart-beat"}
    BY DEF ToServer, Variant
  <2> QED BY <2>1, KindsDef DEF Fields
<1>2. Fields("DISCONNECT") = {"receipt"}
  <2>1. /\ ToServer["DISCONNECT"].required = {}
        /\ ToServer["DISCONNECT"].optional = {"receipt"}
    BY DEF ToServer, Variant
  <2> QED BY <2>1, KindsDef DEF Fields
<1>3. Fields("SEND") = {"destination", "transaction"}
  <2>1. /\ ToServer["SEND"].required = {"destination"}
        /\ ToServer["SEND"].optional = {"transaction"}
    BY DEF ToServer, Variant
  <2> QED BY <2>1, KindsDef DEF Fields
<1>4. Fields("SUBSCRIBE") = {"destination", "id", "ack"}
  <2>1. /\ ToServer["SUBSCRIBE"].required = {"destination", "id"}
        /\ ToServer["SUBSCRIBE"].optional = {"ack"}
    BY DEF ToServer, Variant
  <2> QED BY <2>1, KindsDef DEF Fields
<1>5. Fields("UNSUBSCRIBE") = {"id"}
  <2>1. /\ ToServer["UNSUBSCRIBE"].required = {"id"}
        /\ ToServer["UNSUBSCRIBE"].optional = {}
    BY DEF ToServer, Variant
  <2> QED BY <2>1, KindsDef DEF Fields
<1>6. Fields("ACK") = {"id", "transaction"}
  <2>1. /\ ToServer["ACK"].required = {"id"}
        /\ ToServer["ACK"].optional = {"transaction"}
    BY DEF ToServer, Variant
  <2> QED BY <2>1, KindsDef DEF Fields
<1>7. Fields("NACK") = {"id", "transaction"}
  <2>1. /\ ToServer["NACK"].required = {"id"}
        /\ ToServer["NACK"].optional = {"transaction"}
    BY DEF ToServer, Variant
  <2> QED BY <2>1, KindsDef DEF Fields
<1>8. Fields("BEGIN") = {"transaction"}
  <2>1. /\ ToServer["BEGIN"].required = {"transaction"}
        /\ ToServer["BEGIN"].optional = {}
    BY DEF ToServer, Variant
  <2> QED BY <2>1, KindsDef DEF Fields
<1>9. Fields("COMMIT") = {"transaction"}
  <2>1. /\ ToServer["COMMIT"].required = {"transaction"}
        /\ ToServer["COMMIT"].optional = {}
    BY DEF ToServer, Variant
  <2> QED BY <2>1, KindsDef DEF Fields
<1>10. Fields("ABORT") = {"transaction"}
  <2>1. /\ ToServer["ABORT"].required = {"transaction"}
        /\ ToServer["ABORT"].optional = {}
    BY DEF ToServer, Variant
  <2> QED BY <2>1, KindsDef DEF Fields
<1>11. Fields("CONNECTED") = {"version", "session", "server", "heart-beat"}
  <2>1. /\ FromServer["CONNECTED"].required = {"version"}
        /\ FromServer["CONNECTED"].optional = {"session", "server", "heart-beat"}
    BY DEF FromServer, Variant
  <2> QED BY <2>1, KindsDef DEF Fields
<1>12. Fields("MESSAGE") = {"destination", "message-id", "subscription"}
  <2>1. /\ FromServer["MESSAGE"].required = {"destination", "message-id", "subscription"}
        /\ FromServer["MESSAGE"].optional = {}
    BY DEF FromServer, Variant
  <2> QED BY <2>1, KindsDef DEF Fields
<1>13. Fields("RECEIPT") = {"receipt-id"}
  <2>1. /\ FromServer["RECEIPT"].required = {"receipt-id"}
        /\ FromServer["RECEIPT"].optional = {}
    BY DEF FromServer, Variant
  <2> QED BY <2>1, KindsDef DEF Fields
<1>14. Fields("ERROR") = {"message"}
  <2>1. /\ FromServer["ERROR"].required = {}
        /\ FromServer["ERROR"].optional = {"message"}
    BY DEF FromServer, Variant
  <2> QED BY <2>1, KindsDef DEF Fields
<1> QED BY <1>1, <1>2, <1>3, <1>4, <1>5, <1>6, <1>7, <1>8, <1>9, <1>10, <1>11, <1>12, <1>13, <1>14

LEMMA WrittenDef ==
  /\ Written["CONNECT"] = <<"accept-version", "host", "login", "heart-beat", "passcode">>
  /\ Written["DISCONNECT"] = <<"receipt">>
  /\ Written["SEND"] = <<"destination", "transaction">>
  /\ Written["SUBSCRIBE"] = <<"destination", "id", "ack">>
  /\ Written["UNSUBSCRIBE"] = <<"id">>
  /\ Written["ACK"] = <<"id", "transaction">>
  /\ Written["NACK"] = <<"id", "transaction">>
  /\ Written["BEGIN"] = <<"transaction">>
  /\ Written["COMMIT"] = <<"transaction">>
  /\ Written["ABORT"] = <<"transaction">>
  /\ Written["CONNECTED"] = <<"version", "session", "server", "heart-beat">>
  /\ Written["MESSAGE"] = <<"subscription", "message-id", "destination">>
  /\ Written["RECEIPT"] = <<"receipt-id">>
  /\ Written["ERROR"] = <<"message">>
<1>1. Written["CONNECT"] = <<"accept-version", "host", "login", "heart-beat", "passcode">>
  BY KindsDef DEF Written, WrittenToServer
<1>2. Written["DISCONNECT"] = <<"receipt">>
  BY KindsDef DEF Written, WrittenToServer
<1>3. Written["SEND"] = <<"destination", "transaction">>
  BY KindsDef DEF Written, WrittenToServer
<1>4. Written["SUBSCRIBE"] = <<"destination", "id", "ack">>
  BY KindsDef DEF Written, WrittenToServer
<1>5. Written["UNSUBSCRIBE"] = <<"id">>
  BY KindsDef DEF Written, WrittenToServer
<1>6. Written["ACK"] = <<"id", "transaction">>
  BY KindsDef DEF Written, WrittenToServer
<1>7. Written["NACK"] = <<"id", "transaction">>
  BY KindsDef DEF Written, WrittenToServer
<1>8. Written["BEGIN"] = <<"transaction">>
  BY KindsDef DEF Written, WrittenToServer
<1>9. Written["COMMIT"] = <<"transaction">>
  BY KindsDef DEF Written, WrittenToServer
<1>10. Written["ABORT"] = <<"transaction">>
  BY KindsDef DEF Written, WrittenToServer
<1>11. Written["CONNECTED"] = <<"version", "session", "server", "heart-beat">>
  BY KindsDef DEF Written, WrittenToServer, WrittenFromServer
<1>12. Written["MESSAGE"] = <<"subscription", "message-id", "destination">>
  BY KindsDef DEF Written, WrittenToServer, WrittenFromServer
<1>13. Written["RECEIPT"] = <<"receipt-id">>
  BY KindsDef DEF Written, WrittenToServer, WrittenFromServer
<1>14. Written["ERROR"] = <<"message">>
  BY KindsDef DEF Written, WrittenToServer, WrittenFromServer
<1> QED BY <1>1, <1>2, <1>3, <1>4, <1>5, <1>6, <1>7, <1>8, <1>9, <1>10, <1>11, <1>12, <1>13, <1>14

LEMMA SpellingsDef ==
  /\ ToServer["CONNECT"].spellings = {"STOMP", "CONNECT", "stomp", "connect"}
  /\ ToServer["DISCONNECT"].spellings = {"DISCONNECT", "disconnect"}
  /\ ToServer["SEND"].spellings = {"SEND", "send"}
  /\ ToServer["SUBSCRIBE"].spellings = {"SUBSCRIBE", "subscribe"}
  /\ ToServer["UNSUBSCRIBE"].spellings = {"UNSUBSCRIBE", "unsubscribe"}
  /\ ToServer["ACK"].spellings = {"ACK", "ack"}
  /\ ToServer["NACK"].spellings = {"NACK", "nack"}
  /\ ToServer["BEGIN"].spellings = {"BEGIN", "begin"}
  /\ ToServer["COMMIT"].spellings = {"COMMIT", "commit"}
  /\ ToServer["ABORT"].spellings = {"ABORT", "abort"}
  /\ FromServer["CONNECTED"].spellings = {"CONNECTED", "connected"}
  /\ FromServer["MESSAGE"].spellings = {"MESSAGE", "message"}
  /\ FromServer["RECEIPT"].spellings = {"RECEIPT", "receipt"}
  /\ FromServer["ERROR"].spellings = {"ERROR", "error"}
BY DEF ToServer, FromServer, Variant

\* A command that to_frame writes is understood as that of its own variant.
LEMMA CommandsUnderstood ==
  ASSUME NEW kind \in DOMAIN Variants
  PROVE  /\ kind \in DOMAIN ToServer =>
               {k \in DOMAIN ToServer : kind \in ToServer[k].spellings} = {kind}
         /\ kind \in DOMAIN FromServer =>
               /\ {k \in DOMAIN ToServer : kind \in ToServer[k].spellings} = {}
               /\ {k \in DOMAIN FromServer : kind \in FromServer[k].spellings} = {kind}
<1>1. ASSUME NEW k \in DOMAIN ToServer, NEW l \in DOMAIN ToServer
      PROVE  k \in ToServer[l].spellings <=> k = l
  BY KindsDef, SpellingsDef
<1>2. ASSUME NEW k \in DOMAIN FromServer, NEW l \in DOMAIN FromServer
      PROVE  k \in FromServer[l].spellings <=> k = l
  BY KindsDef, SpellingsDef
<1>3. ASSUME NEW k \in DOMAIN FromServer, NEW l \in DOMAIN ToServer
      PROVE  k \notin ToServer[l].spellings
  BY KindsDef, SpellingsDef
<1> QED BY <1>1, <1>2, <1>3

LEMMA MessageRequires == Variants["MESSAGE"].required = {"destination", "message-id", "subscription"}
<1>1. FromServer["MESSAGE"].required = {"destination", "message-id", "subscription"}
  BY DEF FromServer, Variant
<1> QED BY <1>1, KindsDef

LEMMA SendRequires == Variants["SEND"].required = {"destination"}
<1>1. ToServer["SEND"].required = {"destination"}
  BY DEF ToServer, Variant
<1> QED BY <1>1, KindsDef

FieldNames ==
    {"accept-version", "host", "login", "passcode", "heart-beat", "receipt",
     "destination", "transaction", "id", "ack", "version", "session", "server",
     "message-id", "subscription", "receipt-id", "message"}

\* What to_frame writes are the fields of the variant, and none is written as
\* another.
LEMMA WrittenFields ==
  ASSUME NEW kind \in DOMAIN Variants
  PROVE  /\ Fields(kind) \subseteq FieldNames
         /\ Written[kind] \in Seq(Fields(kind))
         /\ \A f \in Fields(kind) : \E i \in 1..Len(Written[kind]) : Written[kind][i] = f
         /\ \A f, g \in Fields(kind) :
               WrittenAs(kind, f) = f /\ WrittenAs(kind, g) = f => g = f
         /\ \A f \in Fields(kind) : WrittenAs(kind, f) \in FieldNames
         /\ kind # "SEND" => \A f \in Fields(kind) : WrittenAs(kind, f) = f
<1>1. CASE kind = "CONNECT"
  BY <1>1, FieldsDef, WrittenDef DEF FieldNames, WrittenAs
<1>2. CASE kind = "DISCONNECT"
  BY <1>2, FieldsDef, WrittenDef DEF FieldNames, WrittenAs
<1>3. CASE kind = "SEND"
  BY <1>3, FieldsDef, WrittenDef DEF FieldNames, WrittenAs
<1>4. CASE kind = "SUBSCRIBE"
  BY <1>4, FieldsDef, WrittenDef DEF FieldNames, WrittenAs
<1>5. CASE kind = "UNSUBSCRIBE"
  BY <1>5, FieldsDef, WrittenDef DEF FieldNames, WrittenAs
<1>6. CASE kind = "ACK"
  BY <1>6, FieldsDef, WrittenDef DEF FieldNames, WrittenAs
<1>7. CASE kind = "NACK"
  BY <1>7, FieldsDef, WrittenDef DEF FieldNames, WrittenAs
<1>8. CASE kind = "BEGIN"
  BY <1>8, FieldsDef, WrittenDef DEF FieldNames, WrittenAs
<1>9. CASE kind = "COMMIT"
  BY <1>9, FieldsDef, WrittenDef DEF FieldNames, WrittenAs
<1>10. CASE kind = "ABORT"
  BY <1>10, FieldsDef, WrittenDef DEF FieldNames, WrittenAs
<1>11. CASE kind = "CONNECTED"
  BY <1>11, FieldsDef, WrittenDef DEF FieldNames, WrittenAs
<1>12. CASE kind = "MESSAGE"
  BY <1>12, FieldsDef, WrittenDef DEF FieldNames, WrittenAs
<1>13. CASE kind = "RECEIPT"
  BY <1>13, FieldsDef, WrittenDef DEF FieldNames, WrittenAs
<1>14. CASE kind = "ERROR"
  BY <1>14, FieldsDef, WrittenDef DEF FieldNames, WrittenAs
<1> QED BY KindsDef, <1>1, <1>2, <1>3, <1>4, <1>5, <1>6, <1>7, <1>8, <1>9, <1>10, <1>11, <1>12, <1>13, <1>14

LEMMA NamesInSymbols ==
  /\ FieldNames \cup {"content-length", "id"} \subseteq Symbols
  /\ \A f \in FieldNames \cup {"content-length"} : f \notin {"\\", ":", "LF", "CR", "0xFF"}
  /\ "content-length" \notin FieldNames
<1>1. \A f \in FieldNames : \E k \in DOMAIN Variants : f \in Fields(k)
  BY KindsDef, FieldsDef DEF FieldNames
<1>2. FieldNames \subseteq Symbols
  BY <1>1, NamesAssumption
<1>3. \A f \in FieldNames \cup {"content-length"} : f \notin {"\\", ":", "LF", "CR", "0xFF"}
  BY DEF FieldNames
<1>4. "content-length" \notin FieldNames
  BY DEF FieldNames
<1> QED BY <1>2, <1>3, <1>4, NamesAssumption

-----------------------------------------------------------------------------
(***************************************************************************)
(* Texts, escaped.                                                         *)
(***************************************************************************)

LEMMA EscapeInjective ==
  ASSUME NEW t \in Text, NEW u \in Text, Escape(t) = Escape(u)
  PROVE  t = u
<1>1. Unescape(Escape(t)) = t /\ Unescape(Escape(u)) = u
  BY UnescapeEscape
<1> QED BY <1>1

\* A symbol that is not special is its own escape, and that of no other text.
LEMMA EscapeName ==
  ASSUME NEW s \in Symbols, s \notin {"\\", ":", "LF", "CR"}
  PROVE  /\ <<s>> \in Text
         /\ Escape(<<s>>) = <<s>>
         /\ \A t \in Text : Escape(t) = <<s>> <=> t = <<s>>
<1>1. << >> \in Text /\ <<s>> \in Text /\ Append(<< >>, s) = <<s>>
  BY DEF Text
<1>2. Escape(Append(<< >>, s)) = Escape(<< >>) \o EscapeSymbol(s)
  BY <1>1, EscapeAppend
<1>3. Escape(<< >>) = << >> /\ EscapeSymbol(s) = <<s>>
  BY EscapeAppend, EscapeSymbolDef
<1>4. Escape(<<s>>) = <<s>>
  BY <1>1, <1>2, <1>3 DEF Text
<1>5. \A t \in Text : Escape(t) = <<s>> => t = <<s>>
  BY <1>1, <1>4, EscapeInjective
<1> QED BY <1>1, <1>4, <1>5

LEMMA EscapeEmpty ==
  /\ << >> \in Text
  /\ \A t \in Text : Escape(t) = << >> <=> t = << >>
<1>1. << >> \in Text /\ Escape(<< >>) = << >>
  BY EscapeAppend DEF Text
<1>2. \A t \in Text : Escape(t) = << >> => t = << >>
  BY <1>1, EscapeInjective
<1> QED BY <1>1, <1>2

LEMMA Utf8Concat ==
  ASSUME NEW t \in Text, NEW u \in Text
  PROVE  IsUtf8(t \o u) <=> IsUtf8(t) /\ IsUtf8(u)
<1>1. /\ Len(t) \in Nat /\ Len(u) \in Nat /\ Len(t \o u) = Len(t) + Len(u)
      /\ \A i \in 1..Len(t) : (t \o u)[i] = t[i]
      /\ \A i \in 1..Len(u) : (t \o u)[Len(t) + i] = u[i]
  BY DEF Text
<1>2. ASSUME IsUtf8(t \o u) PROVE IsUtf8(t)
  <2>1. \A i \in 1..Len(t) : i \in 1..Len(t \o u)
    BY <1>1
  <2> QED BY <1>1, <1>2, <2>1 DEF IsUtf8
<1>3. ASSUME IsUtf8(t \o u) PROVE IsUtf8(u)
  <2>1. \A i \in 1..Len(u) : Len(t) + i \in 1..Len(t \o u)
    BY <1>1
  <2>2. \A i \in 1..Len(t \o u) : (t \o u)[i] # NonUtf8
    BY <1>3 DEF IsUtf8
  <2> QED BY <1>1, <2>1, <2>2 DEF IsUtf8
<1>4. ASSUME IsUtf8(t), IsUtf8(u), NEW i \in 1..Len(t \o u)
      PROVE  (t \o u)[i] # NonUtf8
  <2>1. CASE i \in 1..Len(t)
    BY <1>1, <1>4, <2>1 DEF IsUtf8
  <2>2. CASE i \notin 1..Len(t)
    <3>1. i - Len(t) \in 1..Len(u) /\ Len(t) + (i - Len(t)) = i
      BY <1>1, <2>2
    <3>2. (t \o u)[i] = u[i - Len(t)]
      BY <1>1, <3>1
    <3> QED BY <1>4, <3>1, <3>2 DEF IsUtf8
  <2> QED BY <2>1, <2>2
<1> QED BY <1>2, <1>3, <1>4 DEF IsUtf8

\* Escaping makes no text UTF-8 and none something else.
LEMMA EscapeUtf8 == \A t \in Text : IsUtf8(Escape(t)) <=> IsUtf8(t)
<1> DEFINE S == {t \in Text : IsUtf8(Escape(t)) <=> IsUtf8(t)}
<1>1. << >> \in S
  BY EscapeEmpty
<1>2. ASSUME NEW t \in Text, NEW s \in Symbols, t \in S
      PROVE  Append(t, s) \in S
  <2>1. /\ <<s>> \in Text /\ Append(t, s) = t \o <<s>> /\ Append(t, s) \in Text
        /\ Escape(t) \in Text /\ EscapeSymbol(s) \in Text
        /\ Escape(Append(t, s)) = Escape(t) \o EscapeSymbol(s)
    <3>1. <<s>> \in Text /\ Append(t, s) = t \o <<s>> /\ Append(t, s) \in Text
      BY DEF Text
    <3>2. Escape(t) \in Text /\ Escape(Append(t, s)) = Escape(t) \o EscapeSymbol(s)
      BY EscapeAppend
    <3>3. EscapeSymbol(s) \in Text
      BY EscapeSymbolType
    <3> QED BY <3>1, <3>2, <3>3
  <2>2. IsUtf8(<<s>>) <=> s # NonUtf8
    BY DEF IsUtf8
  <2>3. IsUtf8(EscapeSymbol(s)) <=> s # NonUtf8
    <3>1. \A x, y : IsUtf8(<<x, y>>) <=> x # NonUtf8 /\ y # NonUtf8
      BY DEF IsUtf8
    <3>2. CASE s \notin {"\\", ":", "LF", "CR"}
      BY <2>2, <3>2, EscapeSymbolDef
    <3>3. CASE s = "\\"
      BY <3>1, <3>3, EscapeSymbolDef DEF NonUtf8
    <3>4. CASE s = ":"
      BY <3>1, <3>4, EscapeSymbolDef DEF NonUtf8
    <3>5. CASE s = "LF"
      BY <3>1, <3>5, EscapeSymbolDef DEF NonUtf8
    <3>6. CASE s = "CR"
      BY <3>1, <3>6, EscapeSymbolDef DEF NonUtf8
    <3> QED BY <3>2, <3>3, <3>4, <3>5, <3>6
  <2>4. IsUtf8(Escape(t) \o EscapeSymbol(s)) <=> IsUtf8(Escape(t)) /\ IsUtf8(EscapeSymbol(s))
    BY <2>1, Utf8Concat
  <2>5. IsUtf8(t \o <<s>>) <=> IsUtf8(t) /\ IsUtf8(<<s>>)
    BY <2>1, Utf8Concat
  <2> QED BY <1>2, <2>1, <2>2, <2>3, <2>4, <2>5
<1>3. \A t \in Seq(Symbols), s \in Symbols : t \in S => Append(t, s) \in S
  BY <1>2 DEF Text
<1>4. \A t \in Seq(Symbols) : t \in S
  <2> HIDE DEF S
  <2> QED BY <1>1, <1>3, SequencesUpward
<1> QED BY <1>4 DEF Text

Escaped   == [t \in Text |-> Escape(t)]
Unescaped == [t \in Text |-> Unescape(t)]
Same      == [t \in Text |-> t]

LEMMA TextMaps ==
  /\ Escaped \in [Text -> Text] /\ \A t \in Text : Escaped[t] = Escape(t)
  /\ Unescaped \in [Text -> Text] /\ \A t \in Text : Unescaped[t] = Unescape(t)
  /\ Same \in [Text -> Text] /\ \A t \in Text : Same[t] = t
BY EscapeAppend, UnescapeType DEF Escaped, Unescaped, Same

LEMMA EntryType ==
  ASSUME NEW h \in Headers, NEW i \in 1..Len(h)
  PROVE  h[i] \in Text \X Text /\ h[i][1] \in Text /\ h[i][2] \in Text /\ h[i] = <<h[i][1], h[i][2]>>
BY DEF Headers

LEMMA KeysType ==
  ASSUME NEW h \in Headers
  PROVE  Keys(h) \subseteq Text
BY EntryType DEF Keys

LEMMA SerializeMaps ==
  ASSUME NEW h \in Headers, NEW command, NEW body,
         NEW frame, frame = [command |-> command, headers |-> h, body |-> body]
  PROVE  Serialize(frame) =
            [command |-> command, headers |-> Mapped(h, Escaped, Escaped), body |-> body]
<1>1. \A i \in 1..Len(h) : <<Escape(h[i][1]), Escape(h[i][2])>> = <<Escaped[h[i][1]], Escaped[h[i][2]]>>
  BY EntryType, TextMaps
<1>2. [i \in 1..Len(h) |-> <<Escape(h[i][1]), Escape(h[i][2])>>] = Mapped(h, Escaped, Escaped)
  BY <1>1 DEF Mapped
<1>3. Serialize(frame) = [frame EXCEPT !.headers =
                            [i \in 1..Len(h) |-> <<Escape(h[i][1]), Escape(h[i][2])>>]]
  BY DEF Serialize
<1> QED BY <1>2, <1>3

LEMMA HeadersOfMaps ==
  ASSUME NEW h \in Headers, NEW kind
  PROVE  HeadersOf(kind, h) =
            Mapped(IF kind = "SEND" THEN Without(h, FieldKeys(kind)) ELSE h, Same, Unescaped)
<1> DEFINE taken == IF kind = "SEND" THEN Without(h, FieldKeys(kind)) ELSE h
<1>1. taken \in Headers
  BY WithoutAppend
<1>2. HeadersOf(kind, h) = [i \in 1..Len(taken) |-> <<taken[i][1], Unescape(taken[i][2])>>]
  BY DEF HeadersOf
<1> HIDE DEF taken
<1>3. \A i \in 1..Len(taken) :
        <<taken[i][1], Unescape(taken[i][2])>> = <<Same[taken[i][1]], Unescaped[taken[i][2]]>>
  BY <1>1, EntryType, TextMaps
<1>4. HeadersOf(kind, h) = Mapped(taken, Same, Unescaped)
  BY <1>2, <1>3 DEF Mapped
<1> QED BY <1>4 DEF taken

-----------------------------------------------------------------------------
(***************************************************************************)
(* A message as a frame.                                                   *)
(***************************************************************************)

\* The headers that to_frame makes of the fields.
OwnHeaders(m) ==
    LET written == Written[m.kind]
        header(field) ==
            {<<<<WrittenAs(m.kind, field)>>, val>> : val \in m.fields[field]}
    IN  Present([i \in 1..Len(written) |-> header(written[i])])

FrameHeaders(m) ==
    (OwnHeaders(m) \o m.headers) \o Without(m.extra, Keys(OwnHeaders(m) \o m.headers))

LEMMA ToFrameDef ==
  ASSUME NEW m
  PROVE  ToFrame(m) = [command |-> m.kind, headers |-> FrameHeaders(m), body |-> m.body]
<1>1. ContentHeaders(m) = OwnHeaders(m) \o m.headers
  BY DEF ContentHeaders, OwnHeaders
<1> QED BY <1>1 DEF ToFrame, AddExtraHeaders, FrameHeaders

\* A message, as far as its headers are concerned.
LEMMA OwnHeadersAre ==
  ASSUME NEW m, IsMessage(m)
  PROVE  /\ OwnHeaders(m) \in Headers
         /\ \A i \in 1..Len(OwnHeaders(m)) : \E f \in Fields(m.kind) : \E v \in m.fields[f] :
               OwnHeaders(m)[i] = <<<<WrittenAs(m.kind, f)>>, v>>
         /\ \A f \in Fields(m.kind) : \A v \in m.fields[f] : \E i \in 1..Len(OwnHeaders(m)) :
               OwnHeaders(m)[i] = <<<<WrittenAs(m.kind, f)>>, v>>
         /\ (\A f \in Fields(m.kind) : m.fields[f] # {}) =>
               Len(OwnHeaders(m)) = Len(Written[m.kind])
<1> DEFINE A == Text \X Text
           written == Written[m.kind]
           header(f) == {<<<<WrittenAs(m.kind, f)>>, val>> : val \in m.fields[f]}
           opts == [i \in 1..Len(written) |-> header(written[i])]
           P == Present(opts)
<1>1. /\ m.kind \in DOMAIN Variants
      /\ \A f \in Fields(m.kind) : m.fields[f] \in SUBSET Text /\ AtMostOne(m.fields[f])
  BY DEF IsMessage
<1>2. /\ written \in Seq(Fields(m.kind))
      /\ \A f \in Fields(m.kind) : \E i \in 1..Len(written) : written[i] = f
      /\ \A f \in Fields(m.kind) : WrittenAs(m.kind, f) \in Symbols
  BY <1>1, WrittenFields, NamesInSymbols
<1> HIDE DEF written
<1>3. Len(written) \in Nat /\ \A i \in 1..Len(written) : written[i] \in Fields(m.kind)
  BY <1>2
<1>4. ASSUME NEW f \in Fields(m.kind) PROVE header(f) \in SUBSET A /\ AtMostOne(header(f))
  <2>1. <<WrittenAs(m.kind, f)>> \in Text
    BY <1>2 DEF Text
  <2>2. \A v \in m.fields[f] : v \in Text
    BY <1>1
  <2> QED BY <1>1, <2>1, <2>2 DEF AtMostOne
<1>5. P = OwnHeaders(m)
  BY DEF OwnHeaders, written
<1> HIDE DEF header, A
<1>6. /\ Len(opts) = Len(written)
      /\ \A i \in 1..Len(written) : opts[i] = header(written[i])
      /\ opts \in Seq(SUBSET A)
  <2>1. \A i \in 1..Len(written) : header(written[i]) \in SUBSET A
    BY <1>3, <1>4
  <2>2. opts \in [1..Len(written) -> SUBSET A]
    BY <2>1
  <2> QED BY <1>3, <2>2
<1> HIDE DEF opts
<1>7. \A i \in 1..Len(opts) : AtMostOne(opts[i])
  BY <1>3, <1>4, <1>6
<1>8. /\ P \in Seq(A)
      /\ \A i \in 1..Len(P) : \E k \in 1..Len(opts) : P[i] \in opts[k]
      /\ \A k \in 1..Len(opts) : \A x \in opts[k] : \E i \in 1..Len(P) : P[i] = x
      /\ (\A k \in 1..Len(opts) : opts[k] # {}) => Len(P) = Len(opts)
  <2>1. P \in Seq(A)
    BY <1>6, PresentOne
  <2> QED BY <1>6, <1>7, <2>1, PresentOf
<1> HIDE DEF P
<1>9. \A i \in 1..Len(P) : \E f \in Fields(m.kind) : P[i] \in header(f)
  <2> SUFFICES ASSUME NEW i \in 1..Len(P) PROVE \E f \in Fields(m.kind) : P[i] \in header(f)
    OBVIOUS
  <2>1. PICK k \in 1..Len(opts) : P[i] \in opts[k]
    BY <1>8
  <2>2. k \in 1..Len(written)
    BY <1>6
  <2>3. opts[k] = header(written[k]) /\ written[k] \in Fields(m.kind)
    BY <1>3, <1>6, <2>2
  <2> QED BY <2>1, <2>3
<1>10. \A f \in Fields(m.kind) : \A x \in header(f) : \E i \in 1..Len(P) : P[i] = x
  <2> SUFFICES ASSUME NEW f \in Fields(m.kind), NEW x \in header(f)
               PROVE  \E i \in 1..Len(P) : P[i] = x
    OBVIOUS
  <2>1. PICK k \in 1..Len(written) : written[k] = f
    BY <1>2
  <2>2. k \in 1..Len(opts) /\ x \in opts[k]
    BY <1>6, <2>1
  <2> QED BY <1>8, <2>2
<1>11. \A f \in Fields(m.kind) : \A v \in m.fields[f] : <<<<WrittenAs(m.kind, f)>>, v>> \in header(f)
  BY DEF header
<1>12. \A f \in Fields(m.kind) : \A x \in header(f) :
          \E v \in m.fields[f] : x = <<<<WrittenAs(m.kind, f)>>, v>>
  BY DEF header
<1>13. (\A f \in Fields(m.kind) : m.fields[f] # {}) => Len(P) = Len(written)
  <2>1. ASSUME \A f \in Fields(m.kind) : m.fields[f] # {}
        PROVE  \A k \in 1..Len(opts) : opts[k] # {}
    BY <1>3, <1>6, <1>11, <2>1
  <2> QED BY <1>6, <1>8, <2>1
<1>14. OwnHeaders(m) \in Headers
  BY <1>5, <1>8 DEF A, Headers
<1> QED BY <1>5, <1>9, <1>10, <1>11, <1>12, <1>13, <1>14 DEF written

\* Their keys and values.
LEMMA OwnKeys ==
  ASSUME NEW m, IsMessage(m)
  PROVE  /\ \A key \in Keys(OwnHeaders(m)) :
               \E f \in Fields(m.kind) : key = <<WrittenAs(m.kind, f)>> /\ m.fields[f] # {}
         /\ \A f \in Fields(m.kind) :
               WrittenAs(m.kind, f) = f => Find(OwnHeaders(m), <<f>>) = m.fields[f]
<1> DEFINE P == OwnHeaders(m)
<1>1. /\ P \in Headers
      /\ \A i \in 1..Len(P) : \E f \in Fields(m.kind) : \E v \in m.fields[f] :
               P[i] = <<<<WrittenAs(m.kind, f)>>, v>>
      /\ \A f \in Fields(m.kind) : \A v \in m.fields[f] : \E i \in 1..Len(P) :
               P[i] = <<<<WrittenAs(m.kind, f)>>, v>>
  BY OwnHeadersAre
<1> HIDE DEF P
<1>2. ASSUME NEW key \in Keys(P)
      PROVE  \E f \in Fields(m.kind) : key = <<WrittenAs(m.kind, f)>> /\ m.fields[f] # {}
  <2>1. PICK i \in 1..Len(P) : key = P[i][1]
    BY DEF Keys
  <2>2. PICK f \in Fields(m.kind) : \E v \in m.fields[f] : P[i] = <<<<WrittenAs(m.kind, f)>>, v>>
    BY <1>1
  <2> QED BY <2>1, <2>2
<1>3. ASSUME NEW f \in Fields(m.kind), WrittenAs(m.kind, f) = f
      PROVE  Find(P, <<f>>) = m.fields[f]
  <2>1. m.kind \in DOMAIN Variants /\ AtMostOne(m.fields[f])
    BY DEF IsMessage
  <2>2. \A g \in Fields(m.kind) : WrittenAs(m.kind, g) = f => g = f
    BY <1>3, <2>1, WrittenFields
  <2>3. ASSUME NEW v \in Find(P, <<f>>) PROVE v \in m.fields[f]
    <3>1. PICK i \in 1..Len(P) : P[i] = <<<<f>>, v>>
      BY <1>1, FindType
    <3>2. PICK g \in Fields(m.kind) : \E w \in m.fields[g] : P[i] = <<<<WrittenAs(m.kind, g)>>, w>>
      BY <1>1
    <3>3. WrittenAs(m.kind, g) = f /\ v \in m.fields[g]
      BY <3>1, <3>2
    <3> QED BY <2>2, <3>3
  <2>4. ASSUME NEW v \in m.fields[f] PROVE v \in Find(P, <<f>>)
    <3>1. PICK i \in 1..Len(P) : P[i] = <<<<f>>, v>>
      BY <1>1, <1>3
    <3>2. <<f>> \in Keys(P)
      BY <3>1 DEF Keys
    <3>3. PICK w : w \in Find(P, <<f>>)
      BY <1>1, <3>2, FindType
    <3>4. w = v
      BY <2>1, <2>3, <3>3 DEF AtMostOne
    <3> QED BY <3>3, <3>4
  <2> QED BY <2>3, <2>4
<1> QED BY <1>2, <1>3 DEF P

\* What is written: a key is found among the fields, then among the headers
\* of the message, then among the extra headers.
LEMMA FrameHeadersAre ==
  ASSUME NEW m, IsMessage(m)
  PROVE  /\ FrameHeaders(m) \in Headers
         /\ Keys(FrameHeaders(m)) = Keys(OwnHeaders(m)) \cup Keys(m.headers) \cup Keys(m.extra)
         /\ \A key : Find(FrameHeaders(m), key) =
               IF key \in Keys(OwnHeaders(m)) THEN Find(OwnHeaders(m), key)
               ELSE IF key \in Keys(m.headers) THEN Find(m.headers, key)
               ELSE Find(m.extra, key)
<1> DEFINE P == OwnHeaders(m)
           C == P \o m.headers
           X == Without(m.extra, Keys(C))
<1>1. P \in Headers /\ m.headers \in Headers /\ m.extra \in Headers
  BY OwnHeadersAre DEF IsMessage
<1>2. FrameHeaders(m) = C \o X
  BY DEF FrameHeaders
<1> HIDE DEF P
<1>3. C \in Headers /\ Keys(C) = Keys(P) \cup Keys(m.headers)
  BY <1>1, HeadersAppend, KeysConcat
<1>4. \A key : Find(C, key) = IF key \in Keys(P) THEN Find(P, key) ELSE Find(m.headers, key)
  BY <1>1, FindConcat
<1> HIDE DEF C
<1>5. X \in Headers /\ Keys(X) = Keys(m.extra) \ Keys(C)
  BY <1>1, WithoutAppend, WithoutKeeps
<1>6. \A key : key \notin Keys(C) => Find(X, key) = Find(m.extra, key)
  BY <1>1, WithoutKeeps
<1> HIDE DEF X
<1>7. C \o X \in Headers /\ Keys(C \o X) = Keys(C) \cup Keys(X)
  BY <1>3, <1>5, HeadersAppend, KeysConcat
<1>8. \A key : Find(C \o X, key) = IF key \in Keys(C) THEN Find(C, key) ELSE Find(X, key)
  BY <1>3, <1>5, FindConcat
<1>9. ASSUME NEW key
      PROVE  Find(C \o X, key) = IF key \in Keys(P) THEN Find(P, key)
                                 ELSE IF key \in Keys(m.headers) THEN Find(m.headers, key)
                                 ELSE Find(m.extra, key)
  <2>1. Find(C, key) = IF key \in Keys(P) THEN Find(P, key) ELSE Find(m.headers, key)
    BY <1>4
  <2>2. Find(C \o X, key) = IF key \in Keys(C) THEN Find(C, key) ELSE Find(X, key)
    BY <1>8
  <2>3. key \notin Keys(C) => Find(X, key) = Find(m.extra, key)
    BY <1>6
  <2> QED BY <1>3, <2>1, <2>2, <2>3
<1> QED BY <1>2, <1>3, <1>5, <1>7, <1>9 DEF P

\* The headers of the frame on the wire.
WireHeaders(m) == Mapped(FrameHeaders(m), Escaped, Escaped)

LEMMA WireIs ==
  ASSUME NEW m, IsMessage(m)
  PROVE  /\ Serialize(ToFrame(m)) =
              [command |-> m.kind, headers |-> WireHeaders(m), body |-> m.body]
         /\ WireHeaders(m) \in Headers
         /\ Keys(WireHeaders(m)) = {Escape(k) : k \in Keys(FrameHeaders(m))}
         /\ \A key \in Text : Escape(key) = key =>
               /\ key \in Keys(WireHeaders(m)) <=> key \in Keys(FrameHeaders(m))
               /\ Find(WireHeaders(m), key) = {Escape(v) : v \in Find(FrameHeaders(m), key)}
<1> DEFINE H == FrameHeaders(m)
<1>1. H \in Headers
  BY FrameHeadersAre
<1>2. ToFrame(m) = [command |-> m.kind, headers |-> H, body |-> m.body]
  BY ToFrameDef
<1> HIDE DEF H
<1>3. Serialize(ToFrame(m)) =
        [command |-> m.kind, headers |-> Mapped(H, Escaped, Escaped), body |-> m.body]
  BY <1>1, <1>2, SerializeMaps
<1>4. Mapped(H, Escaped, Escaped) \in Headers
      /\ Keys(Mapped(H, Escaped, Escaped)) = {Escaped[k] : k \in Keys(H)}
  BY <1>1, TextMaps, MappedDef
<1>5. Keys(H) \subseteq Text
  BY <1>1, KeysType
<1>6. {Escaped[k] : k \in Keys(H)} = {Escape(k) : k \in Keys(H)}
  BY <1>5, TextMaps
<1>7. ASSUME NEW key \in Text, Escape(key) = key
      PROVE  /\ key \in {Escape(k) : k \in Keys(H)} <=> key \in Keys(H)
             /\ Find(Mapped(H, Escaped, Escaped), key) = {Escape(v) : v \in Find(H, key)}
  <2>1. \A k \in Keys(H) : Escape(k) = key <=> k = key
    BY <1>5, <1>7, EscapeInjective
  <2>2. \A k \in Keys(H) : Escaped[k] = key <=> k = key
    BY <1>5, <2>1, TextMaps
  <2>3. Find(Mapped(H, Escaped, Escaped), key) = {Escaped[v] : v \in Find(H, key)}
    BY <1>1, <2>2, TextMaps, MappedFind
  <2>4. \A v \in Find(H, key) : v \in Text
    BY <1>1, FindType
  <2>5. {Escaped[v] : v \in Find(H, key)} = {Escape(v) : v \in Find(H, key)}
    BY <2>4, TextMaps
  <2> QED BY <2>1, <2>3, <2>5
<1> QED BY <1>3, <1>4, <1>6, <1>7 DEF H, WireHeaders

-----------------------------------------------------------------------------
(***************************************************************************)
(* A frame as a message.                                                   *)
(***************************************************************************)

\* The content-length is right, or the body needs none.
FramedAs(length, body) ==
    IF length = {} THEN \A i \in 1..Len(Contents(body)) : Contents(body)[i] # NUL
                   ELSE length = {Len(Contents(body))}

\* What parse_frame makes of a frame whose body it takes as body.
ParsedAs(frame, c, h, b, body) ==
    /\ AtMostOne(body)
    /\ Parse(frame).frame = [command |-> c, headers |-> h, body |-> body]
    /\ Parse(frame).outcome # "message"
    /\ << >> \notin Keys(h) /\ FramedAs(ContentLength(h), b) =>
         Parse(frame).outcome = "frame" /\ Contents(body) = Contents(b)

\* It takes some body, and the whole one if the framing is right.
LEMMA ParseDef ==
  ASSUME NEW c, NEW h \in Headers, NEW b \in SUBSET Text, AtMostOne(b),
         NEW frame, frame = [command |-> c, headers |-> h, body |-> b]
  PROVE  \E body \in SUBSET Text : ParsedAs(frame, c, h, b, body)
<1> DEFINE bytes  == Contents(b)
           length == ContentLength(h)
           nuls   == {i \in 1..Len(bytes) : bytes[i] = NUL}
           n      == IF length # {} THEN CHOOSE l \in length : TRUE
                     ELSE IF nuls = {} THEN Len(bytes)
                     ELSE (CHOOSE i \in nuls : \A j \in nuls : i <= j) - 1
           body   == IF n > Len(bytes) THEN b
                     ELSE IF n = 0 /\ length = {} THEN {}
                     ELSE {SubSeq(bytes, 1, n)}
           result == IF << >> \in Keys(h) THEN "parser_error"
                     ELSE IF n = Len(bytes) THEN "frame"
                     ELSE IF n > Len(bytes) THEN "swallowed"
                     ELSE IF bytes[n + 1] = NUL THEN "cut"
                     ELSE "parser_error"
<1>1. frame.headers = h /\ frame.body = b
  OBVIOUS
<1>2. Parse(frame) = [outcome |-> result, frame |-> [frame EXCEPT !.body = body]]
  BY <1>1 DEF Parse
<1>3. bytes \in Text /\ (b = {} => bytes = << >>) /\ (b # {} => b = {bytes})
  <2>1. CASE b = {}
    BY <2>1, EscapeEmpty DEF Contents
  <2>2. CASE b # {}
    BY <2>2 DEF Contents, AtMostOne
  <2> QED BY <2>1, <2>2
<1>4. Len(bytes) \in Nat
  BY <1>3 DEF Text
<1>5. n \in Nat
  <2>1. CASE length # {}
    <3>1. length \subseteq 0..MaxLength /\ MaxLength \in Nat
      <4>1. \A text : Number(text) \subseteq 0..MaxLength
        BY DEF Number
      <4> QED BY <4>1, MaxLengthAssumption DEF ContentLength
    <3>2. n \in length
      BY <2>1
    <3> HIDE DEF length, n
    <3> QED BY <3>1, <3>2
  <2>2. CASE length = {} /\ nuls = {}
    BY <1>4, <2>2
  <2>3. CASE length = {} /\ nuls # {}
    <3> DEFINE i == CHOOSE i \in nuls : \A j \in nuls : i <= j
    <3>1. nuls \in SUBSET Nat /\ nuls \subseteq 1..Len(bytes)
      BY <1>4
    <3>2. n = i - 1
      BY <2>3
    <3> HIDE DEF nuls, n
    <3>3. i \in nuls
      BY <2>3, <3>1, LeastNat
    <3> HIDE DEF i
    <3> QED BY <1>4, <3>1, <3>2, <3>3
  <2> QED BY <2>1, <2>2, <2>3
<1>6. length # {} => n \in length
  OBVIOUS
<1>7. length = {} /\ nuls = {} => n = Len(bytes)
  OBVIOUS
<1> HIDE DEF n, bytes, length
<1>8. body \in SUBSET Text /\ AtMostOne(body)
  <2>1. CASE n > Len(bytes)
    BY <2>1
  <2>2. CASE ~ (n > Len(bytes))
    <3>1. SubSeq(bytes, 1, n) \in Text
      BY <1>3, <1>4, <1>5, <2>2 DEF Text
    <3> QED BY <2>2, <3>1 DEF AtMostOne
  <2> QED BY <2>1, <2>2
<1>9. Parse(frame).frame = [command |-> c, headers |-> h, body |-> body]
  <2> HIDE DEF body, result
  <2> QED BY <1>2
<1>10. ASSUME << >> \notin Keys(h),
              IF length = {} THEN \A i \in 1..Len(bytes) : bytes[i] # NUL
                             ELSE length = {Len(bytes)}
       PROVE  Parse(frame).outcome = "frame" /\ Contents(body) = bytes
  <2>1. n = Len(bytes)
    BY <1>6, <1>7, <1>10
  <2>2. result = "frame"
    BY <1>4, <1>10, <2>1
  <2>3. SubSeq(bytes, 1, n) = bytes
    BY <1>3, <1>4, <2>1 DEF Text
  <2>4. body = IF n = 0 /\ length = {} THEN {} ELSE {bytes}
    <3>1. ~ (n > Len(bytes))
      BY <1>4, <2>1
    <3> QED BY <2>3, <3>1
  <2>5. n = 0 => bytes = << >>
    <3>1. bytes \in Seq(Symbols) /\ (n = 0 => Len(bytes) = 0)
      BY <1>3, <2>1 DEF Text
    <3> QED BY <3>1, EmptySeq
  <2>6. Contents({}) = << >> /\ Contents({bytes}) = bytes
    BY DEF Contents
  <2> HIDE DEF body, result
  <2> QED BY <1>2, <2>2, <2>4, <2>5, <2>6
<1>11. Parse(frame).outcome # "message"
  BY <1>2
<1>12. ParsedAs(frame, c, h, b, body)
  <2> HIDE DEF body
  <2> QED BY <1>8, <1>9, <1>10, <1>11 DEF ParsedAs, FramedAs, bytes, length
<1> QED BY <1>8, <1>12

\* The message that to_client_msg or to_server_msg makes of a frame, and when
\* it does.
MessageOf(kind, headers, body) ==
    [kind    |-> kind,
     fields  |-> [f \in Fields(kind) |-> Held(kind, f, FetchHeader(headers, <<f>>))],
     headers |-> IF kind \in Headered THEN HeadersOf(kind, headers) ELSE << >>,
     body    |-> IF kind \in Bodied THEN body ELSE {},
     extra   |-> Without(headers, FieldKeys(kind))]

Converts(kind, headers) ==
    /\ \A f \in Fields(kind) : FieldOK(kind, f, FetchHeader(headers, <<f>>))
    /\ kind \in Headered => HeadersUtf8(HeadersOf(kind, headers))

Known(variants, command) == {k \in DOMAIN variants : command \in variants[k].spellings}
KindOf(variants, command) == CHOOSE k \in Known(variants, command) : TRUE

LEMMA ToMessageDef ==
  ASSUME NEW c, NEW h, NEW b, NEW frame, frame = [command |-> c, headers |-> h, body |-> b],
         NEW variants
  PROVE  /\ Known(variants, c) # {} /\ Converts(KindOf(variants, c), h) =>
              ToMessage(frame, variants) =
                  [outcome |-> "message", message |-> MessageOf(KindOf(variants, c), h, b)]
         /\ ~ (Known(variants, c) # {} /\ Converts(KindOf(variants, c), h)) =>
              ToMessage(frame, variants).outcome # "message"
         /\ Known(variants, c) = {} => ToMessage(frame, variants).outcome = "conversion_error"
<1> DEFINE kinds == Known(variants, c)
           kind  == KindOf(variants, c)
           fields == [f \in Fields(kind) |-> FetchHeader(h, <<f>>)]
           headers == IF kind \in Headered THEN HeadersOf(kind, h) ELSE << >>
<1>1. frame.command = c /\ frame.headers = h /\ frame.body = b
  OBVIOUS
<1>2. ToMessage(frame, variants) =
        IF kinds = {} \/ \E f \in DOMAIN fields : ~ FieldOK(kind, f, fields[f])
        THEN [outcome |-> "conversion_error"]
        ELSE IF ~ HeadersUtf8(headers) THEN [outcome |-> "panic"]
        ELSE [outcome |-> "message",
              message |->
                [kind    |-> kind,
                 fields  |-> [f \in DOMAIN fields |-> Held(kind, f, fields[f])],
                 headers |-> headers,
                 body    |-> IF kind \in Bodied THEN b ELSE {},
                 extra   |-> Without(h, FieldKeys(kind))]]
  BY <1>1 DEF ToMessage, Known, KindOf
<1>3. [f \in DOMAIN fields |-> Held(kind, f, fields[f])] =
        [f \in Fields(kind) |-> Held(kind, f, FetchHeader(h, <<f>>))]
  OBVIOUS
<1>4. (\E f \in DOMAIN fields : ~ FieldOK(kind, f, fields[f])) <=>
        ~ \A f \in Fields(kind) : FieldOK(kind, f, FetchHeader(h, <<f>>))
  OBVIOUS
<1>5. HeadersUtf8(headers) <=> (kind \in Headered => HeadersUtf8(HeadersOf(kind, h)))
  <2>1. HeadersUtf8(<< >>)
    BY DEF HeadersUtf8
  <2> QED BY <2>1
<1>6. DOMAIN fields = Fields(kind)
  OBVIOUS
<1> HIDE DEF kinds, kind, fields
<1> DEFINE msg == [kind    |-> kind,
                   fields  |-> [f \in DOMAIN fields |-> Held(kind, f, fields[f])],
                   headers |-> headers,
                   body    |-> IF kind \in Bodied THEN b ELSE {},
                   extra   |-> Without(h, FieldKeys(kind))]
<1>7. msg = MessageOf(kind, h, b)
  BY <1>3 DEF MessageOf
<1> HIDE DEF msg, headers
<1>8. ToMessage(frame, variants) =
        IF kinds = {} \/ \E f \in DOMAIN fields : ~ FieldOK(kind, f, fields[f])
        THEN [outcome |-> "conversion_error"]
        ELSE IF ~ HeadersUtf8(headers) THEN [outcome |-> "panic"]
        ELSE [outcome |-> "message", message |-> msg]
  BY <1>2 DEF msg
<1>9. kinds # {} /\ Converts(kind, h) =>
        ToMessage(frame, variants) = [outcome |-> "message", message |-> msg]
  BY <1>4, <1>5, <1>8 DEF Converts
<1>10. ~ (kinds # {} /\ Converts(kind, h)) => ToMessage(frame, variants).outcome # "message"
  BY <1>4, <1>5, <1>8 DEF Converts
<1>11. kinds = {} => ToMessage(frame, variants).outcome = "conversion_error"
  BY <1>8
<1> QED BY <1>7, <1>9, <1>10, <1>11 DEF kinds, kind

\* A message that is read comes from a frame of its variant.
LEMMA ReadIs ==
  ASSUME NEW c, NEW h \in Headers, NEW b \in SUBSET Text, AtMostOne(b),
         NEW frame, frame = [command |-> c, headers |-> h, body |-> b],
         Read(frame).outcome = "message"
  PROVE  \E kind \in DOMAIN Variants : \E body \in SUBSET Text :
            /\ AtMostOne(body)
            /\ c \in Variants[kind].spellings
            /\ Converts(kind, h)
            /\ Read(frame).message = MessageOf(kind, h, body)
<1>1. PICK body \in SUBSET Text : ParsedAs(frame, c, h, b, body)
  BY ParseDef
<1> DEFINE parsed == Parse(frame).frame
           client == ToMessage(parsed, ToServer)
           server == ToMessage(parsed, FromServer)
<1>2. \A variants :
        /\ Known(variants, c) # {} /\ Converts(KindOf(variants, c), h) =>
              ToMessage(parsed, variants) =
                 [outcome |-> "message", message |-> MessageOf(KindOf(variants, c), h, body)]
        /\ ~ (Known(variants, c) # {} /\ Converts(KindOf(variants, c), h)) =>
              ToMessage(parsed, variants).outcome # "message"
  <2> HIDE DEF parsed
  <2>1. parsed = [command |-> c, headers |-> h, body |-> body]
    BY <1>1 DEF parsed, ParsedAs
  <2> QED BY <2>1, ToMessageDef
<1>3. Parse(frame).outcome = "frame" /\
        Read(frame) = IF client.outcome # "conversion_error" THEN client ELSE server
  <2>1. ASSUME Parse(frame).outcome # "frame" PROVE FALSE
    BY <1>1, <2>1 DEF Read, ParsedAs
  <2> QED BY <2>1 DEF Read
<1>4. PICK variants \in {ToServer, FromServer} :
        Read(frame) = ToMessage(parsed, variants)
  BY <1>3
<1> HIDE DEF parsed
<1>5. /\ Known(variants, c) # {} /\ Converts(KindOf(variants, c), h)
      /\ Read(frame).message = MessageOf(KindOf(variants, c), h, body)
  BY <1>2, <1>4
<1>6. KindOf(variants, c) \in Known(variants, c)
  BY <1>5 DEF KindOf
<1>7. KindOf(variants, c) \in DOMAIN Variants /\ c \in Variants[KindOf(variants, c)].spellings
  <2>1. KindOf(variants, c) \in DOMAIN variants /\ c \in variants[KindOf(variants, c)].spellings
    BY <1>6 DEF Known
  <2>2. \A k \in DOMAIN variants : k \in DOMAIN Variants /\ Variants[k] = variants[k]
    BY KindsDef, Zenon
  <2> QED BY <2>1, <2>2
<1> QED BY <1>1, <1>5, <1>7 DEF ParsedAs

LEMMA SpellingsUnique ==
  ASSUME NEW k \in DOMAIN Variants, NEW l \in DOMAIN Variants
  PROVE  k \in Variants[l].spellings <=> k = l
<1>1. CASE l \in DOMAIN ToServer
  <2>1. Variants[l] = ToServer[l]
    BY <1>1, KindsDef
  <2> QED BY <1>1, <2>1, KindsDef, SpellingsDef
<1>2. CASE l \in DOMAIN FromServer
  <2>1. Variants[l] = FromServer[l]
    BY <1>2, KindsDef
  <2> QED BY <1>2, <2>1, KindsDef, SpellingsDef
<1> QED BY <1>1, <1>2, KindsDef

LEMMA FetchType ==
  ASSUME NEW h \in Headers, NEW key
  PROVE  /\ FetchHeader(h, key) \in SUBSET Text
         /\ AtMostOne(FetchHeader(h, key))
         /\ \A v \in FetchHeader(h, key) : IsUtf8(v)
<1>1. Find(h, key) \in SUBSET Text /\ AtMostOne(Find(h, key))
  BY FindType
<1>2. \A raw \in Find(h, key) : Unescape(raw) \in Text
  BY <1>1, UnescapeType
<1> QED BY <1>1, <1>2 DEF FetchHeader, AtMostOne

LEMMA HeartbeatsDef ==
  /\ DOMAIN Heartbeats = {<<"6,7">>, <<"+06,7">>}
  /\ \A v \in DOMAIN Heartbeats : Heartbeats[v] = <<"6,7">>
  /\ <<"6,7">> \in Text /\ IsUtf8(<<"6,7">>)
<1>1. DOMAIN Heartbeats = {<<"6,7">>, <<"+06,7">>}
      /\ \A v \in DOMAIN Heartbeats : Heartbeats[v] = <<"6,7">>
  BY DEF Heartbeats
<1>2. <<"6,7">> \in Text
  BY <1>1, NamesAssumption
<1>3. IsUtf8(<<"6,7">>)
  <2>1. \A s : IsUtf8(<<s>>) <=> s # NonUtf8
    BY DEF IsUtf8
  <2> QED BY <2>1 DEF NonUtf8
<1> QED BY <1>1, <1>2, <1>3

\* What a field holds is a value of it, and is read as itself again.
LEMMA HeldType ==
  ASSUME NEW kind, NEW f, NEW value \in SUBSET Text, AtMostOne(value),
         \A v \in value : IsUtf8(v), FieldOK(kind, f, value)
  PROVE  LET held == Held(kind, f, value)
         IN  /\ held \in SUBSET Text /\ AtMostOne(held)
             /\ \A v \in held : IsUtf8(v)
             /\ FieldOK(kind, f, held)
             /\ Held(kind, f, held) = held
<1> DEFINE held == Held(kind, f, value)
<1>1. CASE kind = "CONNECT" /\ f = "heart-beat"
  <2>1. held = {Heartbeats[v] : v \in value} /\ value \subseteq DOMAIN Heartbeats
    BY <1>1 DEF Held, FieldOK
  <2>2. held \subseteq {<<"6,7">>} /\ (value # {} => held # {})
    BY <2>1, HeartbeatsDef
  <2>3. Held(kind, f, held) = {Heartbeats[v] : v \in held}
    BY <1>1 DEF Held
  <2> HIDE DEF held
  <2>4. held = {} \/ held = {<<"6,7">>}
    BY <2>2
  <2>5. Held(kind, f, held) = held
    BY <2>3, <2>4, HeartbeatsDef
  <2>6. held \in SUBSET Text /\ AtMostOne(held) /\ \A v \in held : IsUtf8(v)
    BY <2>4, HeartbeatsDef DEF AtMostOne
  <2>7. FieldOK(kind, f, held)
    <3>1. held \subseteq DOMAIN Heartbeats
      BY <2>2, HeartbeatsDef
    <3> QED BY <1>1, <2>2, <3>1 DEF FieldOK
  <2> QED BY <2>5, <2>6, <2>7 DEF held
<1>2. CASE ~ (kind = "CONNECT" /\ f = "heart-beat")
  <2>1. \A v : Held(kind, f, v) = v
    BY <1>2 DEF Held
  <2> QED BY <2>1
<1> QED BY <1>1, <1>2

\* What is read is a message.
LEMMA MessageOfType ==
  ASSUME NEW kind \in DOMAIN Variants, NEW h \in Headers,
         NEW body \in SUBSET Text, AtMostOne(body), Converts(kind, h)
  PROVE  IsMessage(MessageOf(kind, h, body))
<1> DEFINE m == MessageOf(kind, h, body)
           fields == [f \in Fields(kind) |-> Held(kind, f, FetchHeader(h, <<f>>))]
<1>1. /\ m.kind = kind /\ m.fields = fields
      /\ m.headers = IF kind \in Headered THEN HeadersOf(kind, h) ELSE << >>
      /\ m.body = IF kind \in Bodied THEN body ELSE {}
      /\ m.extra = Without(h, FieldKeys(kind))
  BY DEF MessageOf
<1> HIDE DEF m
<1>2. ASSUME NEW f \in Fields(kind)
      PROVE  /\ fields[f] \in SUBSET Text /\ AtMostOne(fields[f])
             /\ \A v \in fields[f] : IsUtf8(v)
             /\ FieldOK(kind, f, fields[f])
             /\ Held(kind, f, fields[f]) = fields[f]
  <2> DEFINE value == FetchHeader(h, <<f>>)
  <2>1. /\ value \in SUBSET Text /\ AtMostOne(value)
        /\ \A v \in value : IsUtf8(v) /\ FieldOK(kind, f, value)
    BY FetchType DEF Converts
  <2>2. FieldOK(kind, f, value)
    BY DEF Converts
  <2>3. fields[f] = Held(kind, f, value)
    OBVIOUS
  <2> HIDE DEF value, fields
  <2> QED BY <2>1, <2>2, <2>3, HeldType
<1>3. fields \in [Fields(kind) -> SUBSET Text]
  BY <1>2
<1>4. HeadersOf(kind, h) \in Headers
  <2>1. (IF kind = "SEND" THEN Without(h, FieldKeys(kind)) ELSE h) \in Headers
    BY WithoutAppend
  <2> QED BY <2>1, HeadersOfMaps, MappedDef, TextMaps
<1>5. Without(h, FieldKeys(kind)) \in Headers /\ << >> \in Headers /\ HeadersUtf8(<< >>)
  <2>1. Without(h, FieldKeys(kind)) \in Headers
    BY WithoutAppend
  <2>2. HeadersUtf8(<< >>)
    BY DEF HeadersUtf8
  <2> QED BY <2>1, <2>2, HeadersAppend
<1>6. m.headers \in Headers /\ HeadersUtf8(m.headers)
  BY <1>1, <1>4, <1>5 DEF Converts
<1>7. m.body \in SUBSET Text /\ AtMostOne(m.body)
  BY <1>1 DEF AtMostOne
<1> HIDE DEF fields
<1> QED BY <1>1, <1>2, <1>3, <1>5, <1>6, <1>7 DEF IsMessage, m

-----------------------------------------------------------------------------
(***************************************************************************)
(* Over one connection.                                                    *)
(***************************************************************************)

\* A field that is not there is not among the headers either.
CleanField(m, f) == m.fields[f] = {} => <<f>> \notin Keys(m.headers) \cup Keys(m.extra)

LEMMA FieldName ==
  ASSUME NEW kind \in DOMAIN Variants, NEW f \in Fields(kind)
  PROVE  <<f>> \in Text /\ Escape(<<f>>) = <<f>>
<1>1. f \in FieldNames
  BY WrittenFields
<1>2. f \in Symbols /\ f \notin {"\\", ":", "LF", "CR"}
  BY <1>1, NamesInSymbols
<1> QED BY <1>2, EscapeName

\* The value of a field that is written as itself is read back.
LEMMA FieldReadBack ==
  ASSUME NEW m, IsMessage(m), NEW f \in Fields(m.kind), WrittenAs(m.kind, f) = f,
         CleanField(m, f)
  PROVE  FetchHeader(WireHeaders(m), <<f>>) = m.fields[f]
<1>1. /\ m.kind \in DOMAIN Variants
      /\ m.fields[f] \in SUBSET Text /\ AtMostOne(m.fields[f])
      /\ \A v \in m.fields[f] : IsUtf8(v)
      /\ m.headers \in Headers /\ m.extra \in Headers
  BY DEF IsMessage
<1>2. <<f>> \in Text /\ Escape(<<f>>) = <<f>>
  BY <1>1, FieldName
<1>3. Find(OwnHeaders(m), <<f>>) = m.fields[f] /\ OwnHeaders(m) \in Headers
  BY OwnKeys, OwnHeadersAre
<1>4. Find(FrameHeaders(m), <<f>>) = m.fields[f]
  <2>1. CASE m.fields[f] # {}
    <3>1. <<f>> \in Keys(OwnHeaders(m))
      BY <1>3, <2>1, FindType
    <3> QED BY <1>3, <3>1, FrameHeadersAre
  <2>2. CASE m.fields[f] = {}
    <3>1. <<f>> \notin Keys(OwnHeaders(m))
      BY <1>3, <2>2, FindType
    <3>2. <<f>> \notin Keys(m.headers) /\ <<f>> \notin Keys(m.extra)
      BY <2>2 DEF CleanField
    <3>3. Find(m.extra, <<f>>) = {}
      BY <1>1, <3>2, FindNone
    <3> QED BY <2>2, <3>1, <3>2, <3>3, FrameHeadersAre
  <2> QED BY <2>1, <2>2
<1>5. Find(WireHeaders(m), <<f>>) = {Escape(v) : v \in m.fields[f]}
  BY <1>2, <1>4, WireIs
<1>6. \A v \in m.fields[f] : Unescape(Escape(v)) = v
  BY <1>1, UnescapeEscape
<1>7. {Unescape(raw) : raw \in Find(WireHeaders(m), <<f>>)} = m.fields[f]
  BY <1>5, <1>6
<1> QED BY <1>1, <1>7 DEF FetchHeader

\* What becomes of a message over one connection, if it is read as one.
LEMMA Forwarded ==
  ASSUME NEW m, IsMessage(m), Read(Serialize(ToFrame(m))).outcome = "message"
  PROVE  \E body \in SUBSET Text :
            /\ AtMostOne(body)
            /\ Converts(m.kind, WireHeaders(m))
            /\ Read(Serialize(ToFrame(m))).message = MessageOf(m.kind, WireHeaders(m), body)
            /\ IsMessage(MessageOf(m.kind, WireHeaders(m), body))
<1> DEFINE frame == Serialize(ToFrame(m))
           W == WireHeaders(m)
<1>1. m.kind \in DOMAIN Variants /\ m.body \in SUBSET Text /\ AtMostOne(m.body)
  BY DEF IsMessage
<1>2. frame = [command |-> m.kind, headers |-> W, body |-> m.body] /\ W \in Headers
  BY WireIs
<1> HIDE DEF frame, W
<1>3. Read(frame).outcome = "message"
  BY DEF frame
<1>4. PICK kind \in DOMAIN Variants, body \in SUBSET Text :
            /\ AtMostOne(body)
            /\ m.kind \in Variants[kind].spellings
            /\ Converts(kind, W)
            /\ Read(frame).message = MessageOf(kind, W, body)
  BY <1>1, <1>2, <1>3, ReadIs
<1>5. kind = m.kind
  BY <1>1, <1>4, SpellingsUnique
<1>6. IsMessage(MessageOf(m.kind, W, body))
  BY <1>1, <1>2, <1>4, <1>5, MessageOfType
<1> QED BY <1>4, <1>5, <1>6 DEF frame, W

\* A message that is read has no header that poses as one of its fields.
LEMMA ReadClean ==
  ASSUME NEW kind \in DOMAIN Variants, NEW h \in Headers, NEW body,
         NEW f \in Fields(kind), Converts(kind, h)
  PROVE  CleanField(MessageOf(kind, h, body), f)
<1> DEFINE m == MessageOf(kind, h, body)
<1>1. /\ m.headers = IF kind \in Headered THEN HeadersOf(kind, h) ELSE << >>
      /\ m.fields[f] = Held(kind, f, FetchHeader(h, <<f>>))
      /\ m.extra = Without(h, FieldKeys(kind))
  BY DEF MessageOf
<1> HIDE DEF m
<1>2. <<f>> \in FieldKeys(kind)
  BY DEF FieldKeys
<1>3. Keys(Without(h, FieldKeys(kind))) = Keys(h) \ FieldKeys(kind) /\ Without(h, FieldKeys(kind)) \in Headers
  BY WithoutKeeps, WithoutAppend
<1>4. <<f>> \notin Keys(m.extra)
  BY <1>1, <1>2, <1>3
<1>5. CASE kind \notin Headered
  <2>1. Keys(<< >>) = {}
    BY KeysConcat
  <2> QED BY <1>1, <1>4, <1>5, <2>1 DEF CleanField, m
<1>6. CASE kind = "SEND"
  <2>1. m.headers = Mapped(Without(h, FieldKeys(kind)), Same, Unescaped)
    BY <1>1, <1>6, HeadersOfMaps DEF Headered
  <2>2. Keys(m.headers) = {Same[k] : k \in Keys(Without(h, FieldKeys(kind)))}
    <3> DEFINE t == Without(h, FieldKeys(kind))
    <3>1. t \in Headers /\ m.headers = Mapped(t, Same, Unescaped)
      BY <1>3, <2>1
    <3> HIDE DEF t
    <3>2. Same \in [Text -> Text] /\ Unescaped \in [Text -> Text]
      BY TextMaps
    <3>3. Keys(Mapped(t, Same, Unescaped)) = {Same[k] : k \in Keys(t)}
      BY <3>1, <3>2, MappedDef
    <3> QED BY <3>1, <3>3 DEF t
  <2>3. \A k \in Keys(Without(h, FieldKeys(kind))) : Same[k] = k
    BY <1>3, KeysType, TextMaps
  <2>4. <<f>> \notin Keys(m.headers)
    BY <1>2, <1>3, <2>2, <2>3
  <2> QED BY <1>4, <2>4 DEF CleanField, m
<1>7. CASE kind = "MESSAGE"
  <2>1. f \in Variants[kind].required
    BY <1>7, FieldsDef, MessageRequires
  <2>2. FetchHeader(h, <<f>>) # {}
    BY <2>1 DEF Converts, FieldOK
  <2>3. m.fields[f] # {}
    BY <1>1, <1>7, <2>2 DEF Held
  <2> QED BY <2>3 DEF CleanField, m
<1> QED BY <1>5, <1>6, <1>7 DEF Headered

-----------------------------------------------------------------------------
(***************************************************************************)
(* The message at hand is a message, of the kind of the origin.            *)
(***************************************************************************)

Inv ==
    /\ hops \in Nat
    /\ outcome = "none" => hops = 0 /\ source = {}
    /\ outcome = "message" =>
        /\ IsMessage(message)
        /\ IsMessage(origin)
        /\ message.kind = origin.kind

\* A step that makes a message the origin.
Fresh ==
    /\ hops' = 0
    /\ origin' = message'
    /\ IsMessage(message')
    /\ source' # {} =>
        \E kind \in DOMAIN Variants : \E h \in Headers : \E body \in SUBSET Text :
            message' = MessageOf(kind, h, body)

\* A step that forwards the message.
Hop ==
    /\ outcome = "message"
    /\ hops' = hops + 1
    /\ UNCHANGED <<origin, source>>
    /\ IsMessage(message')
    /\ Converts(message.kind, WireHeaders(message))
    /\ \E body \in SUBSET Text :
        message' = MessageOf(message.kind, WireHeaders(message), body)

LEMMA NeverNone == \A frame : Read(frame).outcome # "none"
<1> SUFFICES ASSUME NEW frame PROVE Read(frame).outcome # "none"
  OBVIOUS
<1>1. Parse(frame).outcome # "none"
  BY DEF Parse
<1>2. ASSUME NEW f, NEW variants PROVE ToMessage(f, variants).outcome # "none"
  BY DEF ToMessage
<1> QED BY <1>1, <1>2 DEF Read

LEMMA Received ==
  ASSUME NEW frame \in Frames, Read(frame).outcome = "message"
  PROVE  /\ IsMessage(Read(frame).message)
         /\ \E kind \in DOMAIN Variants : \E h \in Headers : \E body \in SUBSET Text :
               Read(frame).message = MessageOf(kind, h, body)
<1> DEFINE c == frame.command
           h == frame.headers
           b == frame.body
<1>1. IsFrame(frame)
  BY FramesAssumption
<1>2. /\ frame = [command |-> c, headers |-> h, body |-> b]
      /\ h \in Headers /\ b \in SUBSET Text /\ AtMostOne(b)
  BY <1>1 DEF IsFrame
<1> HIDE DEF c, h, b
<1>3. PICK kind \in DOMAIN Variants, body \in SUBSET Text :
            /\ AtMostOne(body)
            /\ c \in Variants[kind].spellings
            /\ Converts(kind, h)
            /\ Read(frame).message = MessageOf(kind, h, body)
  BY <1>2, ReadIs
<1>4. IsMessage(MessageOf(kind, h, body))
  BY <1>2, <1>3, MessageOfType
<1> QED BY <1>2, <1>3, <1>4

LEMMA StepCases ==
  ASSUME Inv, [Next]_vars, outcome' = "message"
  PROVE  UNCHANGED vars \/ Fresh \/ Hop
<1>1. CASE Build
  <2>1. IsMessage(message') /\ origin' = message' /\ hops' = 0 /\ source' = {}
    BY <1>1, MessagesAssumption DEF Build, Inv
  <2> QED BY <2>1 DEF Fresh
<1>2. CASE Receive
  <2>1. PICK frame \in Frames :
          /\ Read(frame).outcome = "message"
          /\ message' = Read(frame).message
          /\ origin' = message'
          /\ hops' = 0
    BY <1>2 DEF Receive, Inv
  <2> QED BY <2>1, Received DEF Fresh
<1>3. CASE Forward
  <2>1. /\ outcome = "message" /\ hops' = hops + 1
        /\ UNCHANGED <<origin, source>>
        /\ Read(Serialize(ToFrame(message))).outcome = "message"
        /\ message' = Read(Serialize(ToFrame(message))).message
    BY <1>3 DEF Forward
  <2>2. IsMessage(message)
    BY <2>1 DEF Inv
  <2>3. PICK body \in SUBSET Text :
            /\ Converts(message.kind, WireHeaders(message))
            /\ message' = MessageOf(message.kind, WireHeaders(message), body)
            /\ IsMessage(message')
    BY <2>1, <2>2, Forwarded
  <2> QED BY <2>1, <2>3 DEF Hop
<1> QED BY <1>1, <1>2, <1>3 DEF Next

LEMMA InitInv == Init => Inv
BY DEF Init, Inv

LEMMA MessageOfKind ==
  ASSUME NEW kind, NEW h, NEW body
  PROVE  MessageOf(kind, h, body).kind = kind
BY DEF MessageOf

LEMMA NextInv == Inv /\ [Next]_vars => Inv'
<1> SUFFICES ASSUME Inv, [Next]_vars PROVE Inv'
  OBVIOUS
<1>1. hops' \in Nat
  BY DEF Inv, Next, Build, Receive, Forward, vars
<1>2. outcome' = "none" => hops' = 0 /\ source' = {}
  <2>1. CASE Build
    BY <2>1 DEF Build
  <2>2. CASE Receive
    BY <2>2, NeverNone DEF Receive
  <2>3. CASE Forward
    BY <2>3, NeverNone DEF Forward
  <2>4. CASE UNCHANGED vars
    BY <2>4 DEF vars, Inv
  <2> QED BY <2>1, <2>2, <2>3, <2>4 DEF Next
<1>3. ASSUME outcome' = "message"
      PROVE  IsMessage(message') /\ IsMessage(origin') /\ message'.kind = origin'.kind
  <2>1. CASE UNCHANGED vars
    BY <1>3, <2>1 DEF vars, Inv
  <2>2. CASE Fresh
    BY <2>2 DEF Fresh
  <2>3. CASE Hop
    BY <2>3, MessageOfKind DEF Hop, Inv
  <2> QED BY <1>3, <2>1, <2>2, <2>3, StepCases
<1> QED BY <1>1, <1>2, <1>3 DEF Inv

\* Whatever is read, built or forwarded is a message, of the kind of its
\* origin.
THEOREM AlwaysAMessage == Spec => []Inv
<1>1. Init => Inv
  BY InitInv
<1> QED BY <1>1, NextInv, PTL DEF Spec

-----------------------------------------------------------------------------
(***************************************************************************)
(* Fields.                                                                 *)
(***************************************************************************)

FieldsInv ==
    outcome = "message" =>
        /\ Clean => \A f \in Fields(origin.kind) : CleanField(message, f)
        /\ FieldsSurvive

LEMMA FieldsStep == Inv /\ FieldsInv /\ [Next]_vars => FieldsInv'
<1> SUFFICES ASSUME Inv, FieldsInv, [Next]_vars, outcome' = "message"
             PROVE  /\ Clean' => \A f \in Fields(origin'.kind) : CleanField(message', f)
                    /\ FieldsSurvive'
  BY DEF FieldsInv
<1>1. CASE UNCHANGED vars
  BY <1>1 DEF FieldsInv, FieldsSurvive, Clean, vars
<1>2. CASE Fresh
  <2>1. DOMAIN message'.fields = Fields(message'.kind) /\ origin' = message'
    BY <1>2 DEF Fresh, IsMessage
  <2> QED BY <2>1 DEF FieldsSurvive, Clean, CleanField
<1>3. CASE Hop
  <2>1. PICK body \in SUBSET Text : message' = MessageOf(message.kind, WireHeaders(message), body)
    BY <1>3 DEF Hop
  <2>2. /\ outcome = "message" /\ origin' = origin /\ message.kind = origin.kind
        /\ IsMessage(message) /\ DOMAIN origin.fields = Fields(origin.kind)
        /\ message.kind \in DOMAIN Variants
        /\ Converts(message.kind, WireHeaders(message))
    BY <1>3 DEF Hop, Inv, IsMessage
  <2>3. \A f \in Fields(origin'.kind) : CleanField(message', f)
    BY <2>1, <2>2, WireIs, ReadClean
  <2>4. ASSUME Clean', NEW f \in Fields(origin.kind), WrittenAs(origin.kind, f) = f
        PROVE  message'.fields[f] = origin.fields[f]
    <3>1. Clean
      BY <2>2, <2>4 DEF Clean
    <3>2. CleanField(message, f) /\ message.fields[f] = origin.fields[f]
      BY <2>2, <2>4, <3>1 DEF FieldsInv, FieldsSurvive
    <3>3. FetchHeader(WireHeaders(message), <<f>>) = message.fields[f]
      BY <2>2, <2>4, <3>2, FieldReadBack
    <3>4. message'.fields[f] = Held(message.kind, f, message.fields[f])
      BY <2>1, <2>2, <3>3 DEF MessageOf
    <3>5. Held(message.kind, f, message.fields[f]) = message.fields[f]
      BY <2>2 DEF IsMessage
    <3> QED BY <3>2, <3>4, <3>5
  <2> QED BY <2>2, <2>3, <2>4 DEF FieldsSurvive
<1> QED BY <1>1, <1>2, <1>3, StepCases

\* However often a message is forwarded, each of its fields that is written
\* under its own name is what it was.
THEOREM FieldsAlwaysSurvive == Spec => []FieldsSurvive
<1>1. Init => FieldsInv
  BY DEF Init, FieldsInv
<1>2. FieldsInv => FieldsSurvive
  BY DEF FieldsInv, FieldsSurvive
<1> QED BY <1>1, <1>2, AlwaysAMessage, FieldsStep, PTL DEF Spec

-----------------------------------------------------------------------------
(***************************************************************************)
(* Headers of a message.                                                   *)
(***************************************************************************)

\* The headers of a MESSAGE that is read are all those of the frame.
LEMMA AllHeadersCollected ==
  ASSUME NEW h \in Headers, NEW body, NEW m, m = MessageOf("MESSAGE", h, body)
  PROVE  /\ Len(m.headers) = Len(h)
         /\ Keys(m.extra) \subseteq Keys(m.headers)
<1>1. m.headers = HeadersOf("MESSAGE", h) /\ m.extra = Without(h, FieldKeys("MESSAGE"))
  BY DEF MessageOf, Headered
<1>2. HeadersOf("MESSAGE", h) = Mapped(h, Same, Unescaped)
  BY HeadersOfMaps
<1>3. Same \in [Text -> Text] /\ Unescaped \in [Text -> Text]
  BY TextMaps
<1>4. Len(Mapped(h, Same, Unescaped)) = Len(h)
      /\ Keys(Mapped(h, Same, Unescaped)) = {Same[k] : k \in Keys(h)}
  BY <1>3, MappedDef
<1>5. {Same[k] : k \in Keys(h)} = Keys(h)
  BY KeysType, TextMaps
<1>6. Keys(Without(h, FieldKeys("MESSAGE"))) \subseteq Keys(h)
  BY WithoutKeeps
<1> QED BY <1>1, <1>2, <1>4, <1>5, <1>6

\* Three headers are added to those that it has.
LEMMA ThreeAdded ==
  ASSUME NEW m, IsMessage(m), m.kind = "MESSAGE", Keys(m.extra) \subseteq Keys(m.headers)
  PROVE  Len(WireHeaders(m)) = Len(m.headers) + 3
<1> DEFINE P == OwnHeaders(m)
           C == P \o m.headers
           X == Without(m.extra, Keys(C))
<1>1. /\ P \in Headers /\ m.headers \in Headers /\ m.extra \in Headers
      /\ m.kind \in DOMAIN Variants
  BY OwnHeadersAre DEF IsMessage
<1>2. Len(P) = 3
  <2>1. ASSUME NEW f \in Fields(m.kind) PROVE m.fields[f] # {}
    <3>1. f \in Variants["MESSAGE"].required
      BY FieldsDef, MessageRequires
    <3> QED BY <3>1 DEF IsMessage, FieldOK
  <2>2. Len(P) = Len(Written["MESSAGE"])
    BY <2>1, OwnHeadersAre
  <2> QED BY <2>2, WrittenDef
<1> HIDE DEF P
<1>3. Keys(m.extra) \subseteq Keys(C) /\ C \in Headers
  BY <1>1, KeysConcat, HeadersAppend
<1>4. X = << >>
  BY <1>1, <1>3, WithoutTwice
<1>5. FrameHeaders(m) = C \o X
  BY DEF FrameHeaders, P
<1>6. Len(C) = Len(P) + Len(m.headers) /\ Len(C \o << >>) = Len(C)
  <2>1. Len(C) = Len(P) + Len(m.headers)
    BY <1>1 DEF Headers
  <2> HIDE DEF C
  <2>2. Len(C \o << >>) = Len(C)
    BY <1>3 DEF Headers
  <2> QED BY <2>1, <2>2
<1>7. Len(FrameHeaders(m)) = Len(m.headers) + 3
  <2>1. Len(m.headers) \in Nat
    BY <1>1 DEF Headers
  <2> HIDE DEF C, X
  <2> QED BY <1>2, <1>4, <1>5, <1>6, <2>1
<1>8. Len(WireHeaders(m)) = Len(FrameHeaders(m))
  <2>1. Escaped \in [Text -> Text] /\ FrameHeaders(m) \in Headers
    BY TextMaps, FrameHeadersAre
  <2> QED BY <2>1, MappedDef DEF WireHeaders
<1> QED BY <1>7, <1>8

GrowthInv ==
    outcome = "message" /\ origin.kind = "MESSAGE" /\ source # {} =>
        /\ Keys(message.extra) \subseteq Keys(message.headers)
        /\ MessagesGrow

LEMMA GrowthStep == Inv /\ GrowthInv /\ [Next]_vars => GrowthInv'
<1> SUFFICES ASSUME Inv, GrowthInv, [Next]_vars,
                    outcome' = "message", origin'.kind = "MESSAGE", source' # {}
             PROVE  Keys(message'.extra) \subseteq Keys(message'.headers) /\ MessagesGrow'
  BY DEF GrowthInv
<1>1. CASE UNCHANGED vars
  BY <1>1 DEF GrowthInv, MessagesGrow, vars
<1>2. CASE Fresh
  <2>1. /\ hops' = 0 /\ origin' = message' /\ message'.kind = "MESSAGE"
        /\ message'.headers \in Headers
    BY <1>2 DEF Fresh, IsMessage
  <2>2. PICK kind \in DOMAIN Variants, h \in Headers, body \in SUBSET Text :
            message' = MessageOf(kind, h, body)
    BY <1>2 DEF Fresh
  <2>3. kind = "MESSAGE"
    BY <2>1, <2>2, MessageOfKind
  <2>4. Keys(message'.extra) \subseteq Keys(message'.headers)
    BY <2>2, <2>3, AllHeadersCollected
  <2>5. Len(message'.headers) = Len(origin'.headers) + 3 * hops'
    BY <2>1 DEF Headers
  <2> QED BY <2>4, <2>5 DEF MessagesGrow
<1>3. CASE Hop
  <2>1. PICK body \in SUBSET Text : message' = MessageOf(message.kind, WireHeaders(message), body)
    BY <1>3 DEF Hop
  <2>2. /\ outcome = "message" /\ origin' = origin /\ source' = source /\ hops' = hops + 1
        /\ IsMessage(message) /\ IsMessage(origin) /\ hops \in Nat /\ message.kind = "MESSAGE"
    BY <1>3 DEF Hop, Inv
  <2>3. /\ Keys(message.extra) \subseteq Keys(message.headers)
        /\ Len(message.headers) = Len(origin.headers) + 3 * hops
    BY <2>2 DEF GrowthInv, MessagesGrow
  <2>4. WireHeaders(message) \in Headers /\ Len(WireHeaders(message)) = Len(message.headers) + 3
    BY <2>2, <2>3, WireIs, ThreeAdded
  <2>5. Len(message'.headers) = Len(message.headers) + 3
        /\ Keys(message'.extra) \subseteq Keys(message'.headers)
    BY <2>1, <2>2, <2>4, AllHeadersCollected
  <2>6. Len(origin.headers) \in Nat
    BY <2>2 DEF IsMessage, Headers
  <2>7. Len(message'.headers) = Len(origin'.headers) + 3 * hops'
    <3>1. 3 * (hops + 1) = 3 * hops + 3 /\ 3 * hops \in Nat
      BY <2>2
    <3>2. Len(message'.headers) = Len(origin.headers) + (3 * hops + 3)
      BY <2>3, <2>5, <2>6, <3>1
    <3> QED BY <2>2, <3>1, <3>2
  <2> QED BY <2>5, <2>7 DEF MessagesGrow
<1> QED BY <1>1, <1>2, <1>3, StepCases

\* A MESSAGE that was read and is forwarded n times has 3 n headers more.
THEOREM MessagesAlwaysGrow == Spec => []MessagesGrow
<1>1. Init => GrowthInv
  BY DEF Init, GrowthInv
<1>2. GrowthInv => MessagesGrow
  BY DEF GrowthInv, MessagesGrow
<1> QED BY <1>1, <1>2, AlwaysAMessage, GrowthStep, PTL DEF Spec

\* A header whose key is no field's, and needs no escaping, is read back with
\* the value it was written with.
LEMMA HeaderReadBack ==
  ASSUME NEW m, IsMessage(m), NEW key \in Text, Escape(key) = key, key \notin FieldKeys(m.kind)
  PROVE  Find(HeadersOf(m.kind, WireHeaders(m)), key) = Find(FrameHeaders(m), key)
<1> DEFINE W == WireHeaders(m)
           H == FrameHeaders(m)
           K == FieldKeys(m.kind)
           taken == IF m.kind = "SEND" THEN Without(W, K) ELSE W
<1>1. W \in Headers /\ H \in Headers /\ Find(W, key) = {Escape(v) : v \in Find(H, key)}
  BY WireIs, FrameHeadersAre
<1> HIDE DEF W, H
<1>2. HeadersOf(m.kind, W) = Mapped(taken, Same, Unescaped)
  BY <1>1, HeadersOfMaps
<1> HIDE DEF K
<1>3. taken \in Headers /\ Find(taken, key) = Find(W, key)
  <2>1. Without(W, K) \in Headers
    BY <1>1, WithoutAppend
  <2>2. Find(Without(W, K), key) = Find(W, key)
    BY <1>1, WithoutKeeps DEF K
  <2> QED BY <1>1, <2>1, <2>2
<1> HIDE DEF taken
<1>4. Find(Mapped(taken, Same, Unescaped), key) = {Unescaped[v] : v \in Find(taken, key)}
  <2>1. Same \in [Text -> Text] /\ Unescaped \in [Text -> Text]
    BY TextMaps
  <2>2. \A k \in Keys(taken) : Same[k] = key <=> k = key
    BY <1>3, KeysType, TextMaps
  <2> QED BY <1>3, <2>1, <2>2, MappedFind
<1>5. \A v \in Find(H, key) : Escape(v) \in Text /\ Unescape(Escape(v)) = v
  BY <1>1, FindType, EscapeAppend, UnescapeEscape
<1>6. {Unescaped[v] : v \in Find(W, key)} = Find(H, key)
  <2>1. \A v \in Find(H, key) : Unescaped[Escape(v)] = v
    BY <1>5, TextMaps
  <2> QED BY <1>1, <2>1
<1> QED BY <1>2, <1>3, <1>4, <1>6 DEF W, H

\* A custom header whose key is no field's keeps its values over one
\* connection.
LEMMA CustomHeaderKept ==
  ASSUME NEW m, IsMessage(m), m.kind \in Headered,
         NEW key \in Keys(m.headers), ~ Special(key),
         \A f \in Fields(m.kind) : key \notin {<<f>>, <<WrittenAs(m.kind, f)>>},
         NEW body
  PROVE  Find(MessageOf(m.kind, WireHeaders(m), body).headers, key) = Find(m.headers, key)
<1>1. m.headers \in Headers
  BY DEF IsMessage
<1>2. key \in Text /\ Escape(key) = key
  BY <1>1, KeysType DEF Special
<1>3. key \notin Keys(OwnHeaders(m)) /\ key \notin FieldKeys(m.kind)
  BY OwnKeys DEF FieldKeys
<1>4. Find(FrameHeaders(m), key) = Find(m.headers, key)
  BY <1>3, FrameHeadersAre
<1>5. Find(HeadersOf(m.kind, WireHeaders(m)), key) = Find(FrameHeaders(m), key)
  BY <1>2, <1>3, HeaderReadBack
<1>6. MessageOf(m.kind, WireHeaders(m), body).headers = HeadersOf(m.kind, WireHeaders(m))
  BY DEF MessageOf
<1> QED BY <1>4, <1>5, <1>6

CustomInv ==
    outcome = "message" /\ origin.kind \in Headered =>
        \A key \in Keys(origin.headers) :
            \/ Special(key)
            \/ \E f \in Fields(origin.kind) : key \in {<<f>>, <<WrittenAs(origin.kind, f)>>}
            \/ Find(message.headers, key) = Find(origin.headers, key)

LEMMA CustomStep == Inv /\ CustomInv /\ [Next]_vars => CustomInv'
<1> SUFFICES ASSUME Inv, CustomInv, [Next]_vars,
                    outcome' = "message", origin'.kind \in Headered,
                    NEW key \in Keys(origin'.headers), ~ Special(key),
                    \A f \in Fields(origin'.kind) : key \notin {<<f>>, <<WrittenAs(origin'.kind, f)>>}
             PROVE  Find(message'.headers, key) = Find(origin'.headers, key)
  BY DEF CustomInv
<1>1. CASE UNCHANGED vars
  BY <1>1 DEF CustomInv, vars
<1>2. CASE Fresh
  BY <1>2 DEF Fresh
<1>3. CASE Hop
  <2>1. PICK body \in SUBSET Text : message' = MessageOf(message.kind, WireHeaders(message), body)
    BY <1>3 DEF Hop
  <2>2. /\ outcome = "message" /\ origin' = origin /\ message.kind = origin.kind
        /\ IsMessage(message) /\ message.headers \in Headers /\ origin.headers \in Headers
    BY <1>3 DEF Hop, Inv, IsMessage
  <2>3. Find(message.headers, key) = Find(origin.headers, key)
    BY <2>2 DEF CustomInv
  <2>4. key \in Keys(message.headers)
    BY <2>2, <2>3, FindType
  <2>5. Find(message'.headers, key) = Find(message.headers, key)
    BY <2>1, <2>2, <2>4, CustomHeaderKept
  <2> QED BY <2>2, <2>3, <2>5
<1> QED BY <1>1, <1>2, <1>3, StepCases

\* However often a SEND or a MESSAGE is forwarded, its custom headers keep
\* their values, if their keys need no escaping.
THEOREM CustomHeadersAlwaysSurvive == Spec => []CustomHeadersSurvive
<1>1. Init => CustomInv
  BY DEF Init, CustomInv
<1>2. Inv /\ CustomInv => CustomHeadersSurvive
  <2> SUFFICES ASSUME Inv, CustomInv, outcome = "message", origin.kind \in Headered
               PROVE  \A key \in Keys(origin.headers) :
                        \/ Special(key)
                        \/ \E f \in DOMAIN origin.fields : key \in {<<f>>, <<WrittenAs(origin.kind, f)>>}
                        \/ Find(message.headers, key) = Find(origin.headers, key)
    BY DEF CustomHeadersSurvive
  <2>1. DOMAIN origin.fields = Fields(origin.kind)
    BY DEF Inv, IsMessage
  <2> QED BY <2>1 DEF CustomInv
<1> QED BY <1>1, <1>2, AlwaysAMessage, CustomStep, PTL DEF Spec

-----------------------------------------------------------------------------
(***************************************************************************)
(* Extra headers.                                                          *)
(***************************************************************************)

LEMMA HeadersEqual ==
  ASSUME NEW a \in Headers, NEW b \in Headers, Len(a) = Len(b),
         \A i \in 1..Len(a) : a[i] = b[i]
  PROVE  a = b
BY DEF Headers

\* Escaping n times, one time after the other.
Times(times, text, n) ==
    times = [i \in 0..n |-> IF i = 0 THEN text ELSE Escape(times[i - 1])]

LEMMA TimesExist ==
  ASSUME NEW text \in Text, NEW n \in Nat
  PROVE  \E times \in [0..n -> Text] :
            Times(times, text, n) /\ EscapeTimes(text, n) = times[n]
<1> DEFINE step == [p \in Text \X (1..n) |-> Escape(p[1])]
<1>1. \A v \in Text : \A i \in 1..n : step[<<v, i>>] = Escape(v) /\ Escape(v) \in Text
  BY EscapeAppend
<1>2. step \in [Text \X (1..n) -> Text]
  BY EscapeAppend
<1> HIDE DEF step
<1>3. PICK w \in [0..n -> Text] : Steps(w, text, n, step)
  BY <1>2, UpwardRecursion
<1>4. ASSUME NEW i \in 0..n
      PROVE  w[i] = IF i = 0 THEN text ELSE Escape(w[i - 1])
  <2>1. w[i] = IF i = 0 THEN text ELSE step[<<w[i - 1], i>>]
    BY <1>3 DEF Steps
  <2>2. i # 0 => i \in 1..n /\ w[i - 1] \in Text
    BY <1>3
  <2> QED BY <1>1, <2>1, <2>2
<1>5. Times(w, text, n)
  BY <1>4 DEF Times
<1> DEFINE u == CHOOSE times : Times(times, text, n)
<1>6. Times(u, text, n)
  BY <1>5
<1>7. EscapeTimes(text, n) = u[n]
  BY DEF EscapeTimes, Times
<1> HIDE DEF u
<1>8. \A i \in 0..n : u[i] = IF i = 0 THEN text ELSE Escape(u[i - 1])
  BY <1>6 DEF Times
<1> DEFINE S == {i \in Nat : i <= n => u[i] \in Text}
<1>9. 0 \in S
  BY <1>8
<1>10. ASSUME NEW i \in Nat, i \in S, i + 1 <= n PROVE u[i + 1] \in Text
  <2>1. i + 1 \in 0..n /\ i + 1 # 0 /\ i + 1 - 1 = i /\ u[i] \in Text
    BY <1>10
  <2>2. u[i + 1] = Escape(u[i])
    BY <1>8, <2>1
  <2> QED BY <2>1, <2>2, EscapeAppend
<1>11. \A i \in Nat : i \in S => i + 1 \in S
  BY <1>10
<1>12. \A i \in Nat : i \in S
  <2> HIDE DEF S
  <2> QED BY <1>9, <1>11, Upward
<1>13. \A i \in 0..n : u[i] \in Text
  BY <1>12
<1>14. u \in [0..n -> Text]
  <2>1. u = [i \in 0..n |-> IF i = 0 THEN text ELSE Escape(u[i - 1])]
    BY <1>6 DEF Times
  <2>2. \A i \in 0..n : (IF i = 0 THEN text ELSE Escape(u[i - 1])) \in Text
    BY <1>8, <1>13
  <2> DEFINE e(i) == IF i = 0 THEN text ELSE Escape(u[i - 1])
  <2>3. [i \in 0..n |-> e(i)] \in [0..n -> Text]
    BY <2>2
  <2> QED BY <2>1, <2>3
<1> QED BY <1>6, <1>7, <1>14

LEMMA TimesStep ==
  ASSUME NEW text \in Text, NEW n \in Nat
  PROVE  /\ EscapeTimes(text, 0) = text
         /\ EscapeTimes(text, n) \in Text
         /\ EscapeTimes(text, n + 1) = Escape(EscapeTimes(text, n))
<1>1. PICK u \in [0..n -> Text] : Times(u, text, n) /\ EscapeTimes(text, n) = u[n]
  BY TimesExist
<1>2. PICK w \in [0..(n + 1) -> Text] :
        Times(w, text, n + 1) /\ EscapeTimes(text, n + 1) = w[n + 1]
  <2> DEFINE k == n + 1
  <2>1. k \in Nat
    OBVIOUS
  <2> HIDE DEF k
  <2>2. \E w \in [0..k -> Text] : Times(w, text, k) /\ EscapeTimes(text, k) = w[k]
    BY <2>1, TimesExist
  <2> QED BY <2>2 DEF k
<1>3. PICK z \in [0..0 -> Text] : Times(z, text, 0) /\ EscapeTimes(text, 0) = z[0]
  BY TimesExist
<1>4. EscapeTimes(text, 0) = text
  BY <1>3 DEF Times
<1> DEFINE S == {i \in Nat : i <= n => w[i] = u[i]}
<1>5. \A i \in 0..n : u[i] = IF i = 0 THEN text ELSE Escape(u[i - 1])
  BY <1>1 DEF Times
<1>6. \A i \in 0..(n + 1) : w[i] = IF i = 0 THEN text ELSE Escape(w[i - 1])
  BY <1>2 DEF Times
<1>7. 0 \in S
  BY <1>5, <1>6
<1>8. ASSUME NEW i \in Nat, i \in S, i + 1 <= n PROVE w[i + 1] = u[i + 1]
  <2>1. i + 1 \in 0..n /\ i + 1 \in 0..(n + 1) /\ i + 1 # 0 /\ i + 1 - 1 = i /\ w[i] = u[i]
    BY <1>8
  <2> QED BY <1>5, <1>6, <2>1
<1>9. \A i \in Nat : i \in S => i + 1 \in S
  BY <1>8
<1>10. \A i \in Nat : i \in S
  <2> HIDE DEF S
  <2> QED BY <1>7, <1>9, Upward
<1>11. w[n] = u[n]
  BY <1>10
<1>12. w[n + 1] = Escape(w[n])
  <2>1. n + 1 \in 0..(n + 1) /\ n + 1 # 0 /\ n + 1 - 1 = n
    OBVIOUS
  <2> QED BY <1>6, <2>1
<1> QED BY <1>1, <1>2, <1>4, <1>11, <1>12

EscapedTimes(n) == [t \in Text |-> EscapeTimes(t, n)]

LEMMA EscapedTimesDef ==
  ASSUME NEW n \in Nat
  PROVE  /\ EscapedTimes(n) \in [Text -> Text]
         /\ \A t \in Text : EscapedTimes(n)[t] = EscapeTimes(t, n)
         /\ \A t \in Text : EscapedTimes(0)[t] = t
         /\ \A t \in Text : EscapedTimes(n + 1)[t] = Escape(EscapedTimes(n)[t])
BY TimesStep DEF EscapedTimes

\* The key of a field is that of no escaped text but itself.
LEMMA FieldKeysFixed ==
  ASSUME NEW kind \in DOMAIN Variants
  PROVE  /\ \A k \in Text : Escape(k) \in FieldKeys(kind) <=> k \in FieldKeys(kind)
         /\ \A n \in Nat : \A k \in Text : EscapeTimes(k, n) \in FieldKeys(kind) <=> k \in FieldKeys(kind)
<1>1. ASSUME NEW k \in Text PROVE Escape(k) \in FieldKeys(kind) <=> k \in FieldKeys(kind)
  <2>1. ASSUME NEW f \in Fields(kind) PROVE Escape(k) = <<f>> <=> k = <<f>>
    <3>1. f \in FieldNames
      BY WrittenFields
    <3>2. f \in Symbols /\ f \notin {"\\", ":", "LF", "CR"}
      BY <3>1, NamesInSymbols
    <3> QED BY <3>2, EscapeName
  <2> QED BY <2>1 DEF FieldKeys
<1> DEFINE S == {i \in Nat : \A k \in Text : EscapeTimes(k, i) \in FieldKeys(kind) <=> k \in FieldKeys(kind)}
<1>2. 0 \in S
  BY TimesStep
<1>3. ASSUME NEW i \in Nat, i \in S, NEW k \in Text
      PROVE  EscapeTimes(k, i + 1) \in FieldKeys(kind) <=> k \in FieldKeys(kind)
  <2>1. EscapeTimes(k, i) \in Text /\ EscapeTimes(k, i + 1) = Escape(EscapeTimes(k, i))
    BY TimesStep
  <2>2. EscapeTimes(k, i) \in FieldKeys(kind) <=> k \in FieldKeys(kind)
    BY <1>3
  <2> QED BY <1>1, <2>1, <2>2
<1>4. \A i \in Nat : i \in S => i + 1 \in S
  BY <1>3
<1>5. \A i \in Nat : i \in S
  <2> HIDE DEF S
  <2> QED BY <1>2, <1>4, Upward
<1> QED BY <1>1, <1>5

\* What becomes of the extra headers over one connection.
LEMMA ExtraForwarded ==
  ASSUME NEW m, IsMessage(m), m.kind \notin Headered
  PROVE  Without(WireHeaders(m), FieldKeys(m.kind)) =
            Mapped(Without(m.extra, FieldKeys(m.kind)), Escaped, Escaped)
<1> DEFINE P == OwnHeaders(m)
           F == FieldKeys(m.kind)
           X == Without(m.extra, Keys(P))
<1>1. P \in Headers /\ m.headers = << >> /\ m.extra \in Headers /\ m.kind \in DOMAIN Variants
  BY OwnHeadersAre DEF IsMessage
<1>2. P \o m.headers = P
  <2> HIDE DEF P
  <2> QED BY <1>1 DEF Headers
<1>3. FrameHeaders(m) = P \o X
  BY <1>2 DEF FrameHeaders
<1>4. Keys(P) \subseteq F
  <2>1. m.kind # "SEND"
    BY DEF Headered
  <2>2. \A f \in Fields(m.kind) : WrittenAs(m.kind, f) = f
    BY <1>1, <2>1, WrittenFields
  <2> QED BY <2>2, OwnKeys DEF FieldKeys
<1>5. \A k \in Text : Escaped[k] \in F <=> k \in F
  BY <1>1, FieldKeysFixed, TextMaps
<1> HIDE DEF P, F
<1>6. X \in Headers
  BY <1>1, WithoutAppend
<1>7. Without(X, F) = Without(m.extra, F)
  BY <1>1, <1>4, WithoutTwice
<1>8. Without(P, F) = << >>
  BY <1>1, <1>4, WithoutTwice
<1> HIDE DEF X
<1>9. Escaped \in [Text -> Text]
  BY TextMaps
<1>10. Mapped(P \o X, Escaped, Escaped) = Mapped(P, Escaped, Escaped) \o Mapped(X, Escaped, Escaped)
  BY <1>1, <1>6, <1>9, MappedConcat
<1>11. Mapped(P, Escaped, Escaped) \in Headers /\ Mapped(X, Escaped, Escaped) \in Headers
  BY <1>1, <1>6, <1>9, MappedDef
<1>12. Without(Mapped(P, Escaped, Escaped), F) = Mapped(<< >>, Escaped, Escaped)
  BY <1>1, <1>5, <1>8, <1>9, MappedWithout
<1>13. Without(Mapped(X, Escaped, Escaped), F) = Mapped(Without(m.extra, F), Escaped, Escaped)
  BY <1>5, <1>6, <1>7, <1>9, MappedWithout
<1>14. Mapped(<< >>, Escaped, Escaped) = << >>
  BY DEF Mapped
<1>15. Mapped(Without(m.extra, F), Escaped, Escaped) \in Headers
  <2>1. Without(m.extra, F) \in Headers
    BY <1>1, WithoutAppend
  <2> QED BY <1>9, <2>1, MappedDef
<1>16. << >> \o Mapped(Without(m.extra, F), Escaped, Escaped) = Mapped(Without(m.extra, F), Escaped, Escaped)
  BY <1>15 DEF Headers
<1>17. Without(Mapped(P \o X, Escaped, Escaped), F) =
         Without(Mapped(P, Escaped, Escaped), F) \o Without(Mapped(X, Escaped, Escaped), F)
  BY <1>10, <1>11, WithoutConcat
<1> QED BY <1>3, <1>12, <1>13, <1>14, <1>16, <1>17 DEF WireHeaders, F

\* The headers of the origin that are sent.
Sent == IF hops = 0 THEN origin.extra ELSE Without(origin.extra, FieldKeys(origin.kind))

ExtraInv ==
    outcome = "message" /\ origin.kind \notin Headered =>
        message.extra = Mapped(Sent, EscapedTimes(hops), EscapedTimes(hops))

LEMMA ExtraStep == Inv /\ ExtraInv /\ [Next]_vars => ExtraInv'
<1> SUFFICES ASSUME Inv, ExtraInv, [Next]_vars, outcome' = "message", origin'.kind \notin Headered
             PROVE  message'.extra = Mapped(Sent', EscapedTimes(hops'), EscapedTimes(hops'))
  BY DEF ExtraInv
<1>1. CASE UNCHANGED vars
  BY <1>1 DEF ExtraInv, Sent, vars
<1>2. CASE Fresh
  <2>1. hops' = 0 /\ origin' = message' /\ message'.extra \in Headers /\ Sent' = message'.extra
    BY <1>2 DEF Fresh, IsMessage, Sent
  <2>2. ASSUME NEW h \in Headers PROVE Mapped(h, EscapedTimes(0), EscapedTimes(0)) = h
    <3>1. EscapedTimes(0) \in [Text -> Text] /\ \A t \in Text : EscapedTimes(0)[t] = t
      BY EscapedTimesDef
    <3> DEFINE m == Mapped(h, EscapedTimes(0), EscapedTimes(0))
    <3>2. /\ m \in Headers /\ Len(m) = Len(h)
          /\ \A i \in 1..Len(h) : m[i] = <<EscapedTimes(0)[h[i][1]], EscapedTimes(0)[h[i][2]]>>
      BY <3>1, MappedDef
    <3> HIDE DEF m
    <3>3. \A i \in 1..Len(h) : m[i] = h[i]
      BY <3>1, <3>2, EntryType
    <3>4. m = h
      BY <3>2, <3>3 DEF Headers
    <3> QED BY <3>4 DEF m
  <2> QED BY <2>1, <2>2
<1>3. CASE Hop
  <2>1. PICK body \in SUBSET Text : message' = MessageOf(message.kind, WireHeaders(message), body)
    BY <1>3 DEF Hop
  <2>2. /\ outcome = "message" /\ origin' = origin /\ message.kind = origin.kind
        /\ IsMessage(message) /\ origin.extra \in Headers /\ message.kind \in DOMAIN Variants
        /\ hops \in Nat /\ hops' = hops + 1
    BY <1>3 DEF Hop, Inv, IsMessage
  <2> DEFINE F  == FieldKeys(origin.kind)
             E  == EscapedTimes(hops)
             E1 == EscapedTimes(hops + 1)
             X  == Without(origin.extra, F)
  <2>3. message'.extra = Without(WireHeaders(message), F)
    BY <2>1, <2>2 DEF MessageOf
  <2>4. Without(WireHeaders(message), F) = Mapped(Without(message.extra, F), Escaped, Escaped)
    BY <2>2, ExtraForwarded
  <2>5. message.extra = Mapped(Sent, E, E)
    BY <2>2 DEF ExtraInv
  <2>6. E \in [Text -> Text] /\ \A t \in Text : E[t] = EscapeTimes(t, hops)
    BY <2>2, EscapedTimesDef
  <2>7. E1 \in [Text -> Text] /\ \A t \in Text : E1[t] = Escape(E[t])
    <3> DEFINE n == hops + 1
    <3>1. n \in Nat
      BY <2>2
    <3> HIDE DEF n
    <3>2. EscapedTimes(n) \in [Text -> Text]
      BY <3>1, EscapedTimesDef
    <3>3. \A t \in Text : EscapedTimes(hops + 1)[t] = Escape(EscapedTimes(hops)[t])
      BY <2>2, EscapedTimesDef
    <3> QED BY <3>2, <3>3 DEF n
  <2>8. \A k \in Text : E[k] \in F <=> k \in F
    BY <2>2, <2>6, FieldKeysFixed
  <2> HIDE DEF F, E, E1
  <2>9. X \in Headers
    BY <2>2, WithoutAppend
  <2>10. Sent \in Headers /\ Without(Sent, F) = X
    <3>1. CASE hops = 0
      BY <2>2, <3>1 DEF Sent
    <3>2. CASE hops # 0
      <4>1. Sent = X
        BY <3>2 DEF Sent, F
      <4>2. Without(X, F) = X
        BY <2>2, WithoutTwice
      <4> QED BY <2>9, <4>1, <4>2
    <3> QED BY <3>1, <3>2
  <2>11. Without(Mapped(Sent, E, E), F) = Mapped(X, E, E)
    BY <2>6, <2>8, <2>10, MappedWithout
  <2>12. Sent' = X
    BY <2>2 DEF Sent, F
  <2> HIDE DEF X
  <2>13. Mapped(Mapped(X, E, E), Escaped, Escaped) = Mapped(X, E1, E1)
    <3> DEFINE m == Mapped(X, E, E)
               a == Mapped(m, Escaped, Escaped)
               b == Mapped(X, E1, E1)
    <3>1. /\ m \in Headers /\ Len(m) = Len(X)
          /\ \A i \in 1..Len(X) : m[i] = <<E[X[i][1]], E[X[i][2]]>>
      BY <2>6, <2>9, MappedDef
    <3>2. Escaped \in [Text -> Text] /\ \A t \in Text : Escaped[t] = Escape(t)
      BY TextMaps
    <3> HIDE DEF m
    <3>3. /\ a \in Headers /\ Len(a) = Len(m)
          /\ \A i \in 1..Len(m) : a[i] = <<Escaped[m[i][1]], Escaped[m[i][2]]>>
      BY <3>1, <3>2, MappedDef
    <3>4. /\ b \in Headers /\ Len(b) = Len(X)
          /\ \A i \in 1..Len(X) : b[i] = <<E1[X[i][1]], E1[X[i][2]]>>
      BY <2>7, <2>9, MappedDef
    <3> HIDE DEF a, b
    <3>5. ASSUME NEW i \in 1..Len(X) PROVE a[i] = b[i]
      <4>1. X[i][1] \in Text /\ X[i][2] \in Text
        BY <2>9, EntryType
      <4>2. E[X[i][1]] \in Text /\ E[X[i][2]] \in Text
        BY <2>6, <4>1
      <4>3. m[i][1] = E[X[i][1]] /\ m[i][2] = E[X[i][2]]
        BY <3>1
      <4>4. a[i] = <<Escape(E[X[i][1]]), Escape(E[X[i][2]])>>
        BY <3>1, <3>2, <3>3, <4>2, <4>3
      <4> QED BY <2>7, <3>4, <4>1, <4>4
    <3>6. a = b
      <4>1. Len(a) = Len(b) /\ Len(a) = Len(X)
        BY <3>1, <3>3, <3>4
      <4>2. \A i \in 1..Len(a) : a[i] = b[i]
        BY <3>5, <4>1
      <4> QED BY <3>3, <3>4, <4>1, <4>2, HeadersEqual
    <3> QED BY <3>6 DEF a, b, m
  <2> QED BY <2>2, <2>3, <2>4, <2>5, <2>11, <2>12, <2>13 DEF E1
<1> QED BY <1>1, <1>2, <1>3, StepCases

\* However often a message is forwarded, its extra headers are those of the
\* origin, escaped once on each hop.
THEOREM ExtraHeadersAlwaysEscaped == Spec => []ExtraHeadersEscaped
<1>1. Init => ExtraInv
  BY DEF Init, ExtraInv
<1>2. Inv /\ ExtraInv => ExtraHeadersEscaped
  <2> SUFFICES ASSUME Inv, ExtraInv, outcome = "message", origin.kind \notin Headered
               PROVE  LET sent == IF hops = 0 THEN origin.extra
                                  ELSE Without(origin.extra, {<<f>> : f \in DOMAIN origin.fields})
                      IN  message.extra = [i \in 1..Len(sent) |->
                                             <<EscapeTimes(sent[i][1], hops),
                                               EscapeTimes(sent[i][2], hops)>>]
    BY DEF ExtraHeadersEscaped
  <2>1. DOMAIN origin.fields = Fields(origin.kind)
    BY DEF Inv, IsMessage
  <2>2. Sent = IF hops = 0 THEN origin.extra
               ELSE Without(origin.extra, {<<f>> : f \in DOMAIN origin.fields})
    BY <2>1 DEF Sent, FieldKeys
  <2>3. Sent \in Headers
    <3>1. origin.extra \in Headers
      BY DEF Inv, IsMessage
    <3> QED BY <3>1, WithoutAppend DEF Sent
  <2>4. hops \in Nat
    BY DEF Inv
  <2>5. \A i \in 1..Len(Sent) :
          <<EscapedTimes(hops)[Sent[i][1]], EscapedTimes(hops)[Sent[i][2]]>> =
          <<EscapeTimes(Sent[i][1], hops), EscapeTimes(Sent[i][2], hops)>>
    BY <2>3, <2>4, EntryType, EscapedTimesDef
  <2>6. message.extra = [i \in 1..Len(Sent) |-> <<EscapeTimes(Sent[i][1], hops),
                                                  EscapeTimes(Sent[i][2], hops)>>]
    BY <2>5 DEF ExtraInv, Mapped
  <2> HIDE DEF Sent
  <2> QED BY <2>2, <2>6
<1> QED BY <1>1, <1>2, AlwaysAMessage, ExtraStep, PTL DEF Spec

-----------------------------------------------------------------------------
(***************************************************************************)
(* Texts that are UTF-8.                                                   *)
(***************************************************************************)

LEMMA Utf8Concatenated ==
  ASSUME NEW s \in Headers, NEW t \in Headers, HeadersUtf8(s), HeadersUtf8(t)
  PROVE  HeadersUtf8(s \o t)
<1>1. /\ Len(s) \in Nat /\ Len(t) \in Nat /\ Len(s \o t) = Len(s) + Len(t)
      /\ \A i \in 1..Len(s) : (s \o t)[i] = s[i]
      /\ \A i \in 1..Len(t) : (s \o t)[Len(s) + i] = t[i]
  BY DEF Headers
<1>2. ASSUME NEW i \in 1..Len(s \o t)
      PROVE  IsUtf8((s \o t)[i][1]) /\ IsUtf8((s \o t)[i][2])
  <2>1. CASE i \in 1..Len(s)
    BY <1>1, <2>1 DEF HeadersUtf8
  <2>2. CASE i \notin 1..Len(s)
    <3>1. i - Len(s) \in 1..Len(t) /\ Len(s) + (i - Len(s)) = i
      BY <1>1, <2>2
    <3>2. (s \o t)[i] = t[i - Len(s)]
      BY <1>1, <3>1
    <3> QED BY <3>1, <3>2 DEF HeadersUtf8
  <2> QED BY <2>1, <2>2
<1> QED BY <1>2 DEF HeadersUtf8

LEMMA Utf8Without ==
  ASSUME NEW s \in Headers, NEW K, HeadersUtf8(s)
  PROVE  HeadersUtf8(Without(s, K))
<1> DEFINE Good(h) == HeadersUtf8(h) => HeadersUtf8(Without(h, K))
           S == {h \in Headers : Good(h)}
<1>1. << >> \in S
  <2>1. Without(<< >>, K) = << >>
    BY WithoutAppend
  <2> QED BY <2>1, HeadersAppend
<1>2. ASSUME NEW h \in Headers, NEW x \in Text \X Text, h \in S
      PROVE  Append(h, x) \in S
  <2>1. /\ Append(h, x) = h \o <<x>> /\ <<x>> \in Headers /\ Append(h, x) \in Headers
        /\ Len(h) \in Nat /\ Len(Append(h, x)) = Len(h) + 1
        /\ Append(h, x)[Len(h) + 1] = x
        /\ \A i \in 1..Len(h) : Append(h, x)[i] = h[i]
    BY DEF Headers
  <2>2. ASSUME HeadersUtf8(Append(h, x))
        PROVE  HeadersUtf8(h) /\ IsUtf8(x[1]) /\ IsUtf8(x[2])
    <3>1. \A i \in 1..Len(h) : i \in 1..Len(Append(h, x))
      BY <2>1
    <3>2. Len(h) + 1 \in 1..Len(Append(h, x))
      BY <2>1
    <3>3. HeadersUtf8(h)
      BY <2>1, <2>2, <3>1 DEF HeadersUtf8
    <3>4. IsUtf8(x[1]) /\ IsUtf8(x[2])
      BY <2>1, <2>2, <3>2 DEF HeadersUtf8
    <3> QED BY <3>3, <3>4
  <2>3. ASSUME HeadersUtf8(Append(h, x)) PROVE HeadersUtf8(Without(Append(h, x), K))
    <3>1. HeadersUtf8(Without(h, K)) /\ Without(h, K) \in Headers
      <4>1. Without(h, K) \in Headers
        BY WithoutAppend
      <4> QED BY <1>2, <2>2, <2>3, <4>1
    <3>2. HeadersUtf8(<<x>>)
      <4>1. \A i \in 1..Len(<<x>>) : <<x>>[i] = x
        OBVIOUS
      <4> QED BY <2>2, <2>3, <4>1 DEF HeadersUtf8
    <3>3. Append(Without(h, K), x) = Without(h, K) \o <<x>>
      BY <3>1 DEF Headers
    <3>4. HeadersUtf8(Append(Without(h, K), x))
      BY <2>1, <3>1, <3>2, <3>3, Utf8Concatenated
    <3>5. Without(Append(h, x), K) =
            IF x[1] \in K THEN Without(h, K) ELSE Append(Without(h, K), x)
      BY WithoutOne
    <3> QED BY <3>1, <3>4, <3>5
  <2> QED BY <2>1, <2>3
<1>3. \A h \in Headers : h \in S
  <2> HIDE DEF S
  <2> QED BY <1>1, <1>2, HeadersUpward
<1>4. s \in S
  BY <1>3
<1> QED BY <1>4

LEMMA Utf8Escaped ==
  ASSUME NEW s \in Headers, HeadersUtf8(s)
  PROVE  /\ HeadersUtf8(Mapped(s, Escaped, Escaped))
         /\ HeadersUtf8(Mapped(Mapped(s, Escaped, Escaped), Same, Unescaped))
<1> DEFINE m == Mapped(s, Escaped, Escaped)
           n == Mapped(m, Same, Unescaped)
<1>1. /\ Escaped \in [Text -> Text] /\ \A t \in Text : Escaped[t] = Escape(t)
      /\ Same \in [Text -> Text] /\ \A t \in Text : Same[t] = t
      /\ Unescaped \in [Text -> Text] /\ \A t \in Text : Unescaped[t] = Unescape(t)
  BY TextMaps
<1>2. /\ m \in Headers /\ Len(m) = Len(s)
      /\ \A i \in 1..Len(s) : m[i] = <<Escaped[s[i][1]], Escaped[s[i][2]]>>
  BY <1>1, MappedDef
<1> HIDE DEF m
<1>3. /\ Len(n) = Len(m)
      /\ \A i \in 1..Len(m) : n[i] = <<Same[m[i][1]], Unescaped[m[i][2]]>>
  BY <1>1, <1>2, MappedDef
<1> HIDE DEF n
<1>4. ASSUME NEW i \in 1..Len(s)
      PROVE  /\ IsUtf8(m[i][1]) /\ IsUtf8(m[i][2])
             /\ IsUtf8(n[i][1]) /\ IsUtf8(n[i][2])
  <2> DEFINE k == s[i][1]
             v == s[i][2]
  <2>1. k \in Text /\ v \in Text /\ IsUtf8(k) /\ IsUtf8(v)
    BY EntryType DEF HeadersUtf8
  <2> HIDE DEF k, v
  <2>2. /\ Escape(k) \in Text /\ IsUtf8(Escape(k))
        /\ Escape(v) \in Text /\ IsUtf8(Escape(v)) /\ Unescape(Escape(v)) = v
    BY <2>1, EscapeAppend, EscapeUtf8, UnescapeEscape
  <2>3. m[i] = <<Escape(k), Escape(v)>>
    BY <1>1, <1>2, <2>1 DEF k, v
  <2>4. m[i][1] = Escape(k) /\ m[i][2] = Escape(v)
    BY <2>3
  <2>5. n[i] = <<Same[m[i][1]], Unescaped[m[i][2]]>>
    BY <1>2, <1>3
  <2>6. n[i] = <<Escape(k), v>>
    BY <1>1, <2>2, <2>4, <2>5
  <2> QED BY <2>1, <2>2, <2>4, <2>6
<1>5. HeadersUtf8(m)
  BY <1>2, <1>4 DEF HeadersUtf8
<1>6. HeadersUtf8(n)
  BY <1>2, <1>3, <1>4 DEF HeadersUtf8
<1> QED BY <1>5, <1>6 DEF m, n

LEMMA Utf8Frame ==
  ASSUME NEW m, IsMessage(m), HeadersUtf8(m.extra)
  PROVE  HeadersUtf8(FrameHeaders(m))
<1> DEFINE P == OwnHeaders(m)
           X == Without(m.extra, Keys(P \o m.headers))
<1>1. /\ P \in Headers /\ m.headers \in Headers /\ m.extra \in Headers
      /\ m.kind \in DOMAIN Variants /\ HeadersUtf8(m.headers)
  BY OwnHeadersAre DEF IsMessage
<1>2. HeadersUtf8(P)
  <2>1. ASSUME NEW i \in 1..Len(P) PROVE IsUtf8(P[i][1]) /\ IsUtf8(P[i][2])
    <3>1. PICK f \in Fields(m.kind) : \E v \in m.fields[f] : P[i] = <<<<WrittenAs(m.kind, f)>>, v>>
      BY OwnHeadersAre
    <3>2. WrittenAs(m.kind, f) # "0xFF"
      BY <1>1, WrittenFields, NamesInSymbols
    <3>3. IsUtf8(<<WrittenAs(m.kind, f)>>)
      <4>1. \A s : IsUtf8(<<s>>) <=> s # NonUtf8
        BY DEF IsUtf8
      <4> QED BY <3>2, <4>1 DEF NonUtf8
    <3>4. PICK v \in m.fields[f] : P[i] = <<<<WrittenAs(m.kind, f)>>, v>>
      BY <3>1
    <3>5. IsUtf8(v)
      BY DEF IsMessage
    <3> QED BY <3>3, <3>4, <3>5
  <2> QED BY <2>1 DEF HeadersUtf8
<1> HIDE DEF P
<1>3. P \o m.headers \in Headers /\ HeadersUtf8(P \o m.headers)
  BY <1>1, <1>2, Utf8Concatenated, HeadersAppend
<1>4. X \in Headers
  BY <1>1, WithoutAppend
<1>5. HeadersUtf8(X)
  BY <1>1, Utf8Without
<1> HIDE DEF X
<1>6. HeadersUtf8((P \o m.headers) \o X)
  BY <1>3, <1>4, <1>5, Utf8Concatenated
<1> QED BY <1>6 DEF FrameHeaders, P, X

LEMMA Utf8Wire ==
  ASSUME NEW m, IsMessage(m), HeadersUtf8(m.extra)
  PROVE  /\ HeadersUtf8(WireHeaders(m))
         /\ HeadersUtf8(HeadersOf(m.kind, WireHeaders(m)))
         /\ HeadersUtf8(Without(WireHeaders(m), FieldKeys(m.kind)))
<1> DEFINE H == FrameHeaders(m)
           F == FieldKeys(m.kind)
           X == Without(H, F)
<1>1. H \in Headers /\ HeadersUtf8(H) /\ m.kind \in DOMAIN Variants
  BY FrameHeadersAre, Utf8Frame DEF IsMessage
<1>2. WireHeaders(m) = Mapped(H, Escaped, Escaped) /\ WireHeaders(m) \in Headers
  BY WireIs DEF WireHeaders
<1>3. \A k \in Text : Escaped[k] \in F <=> k \in F
  BY <1>1, FieldKeysFixed, TextMaps
<1> HIDE DEF H, F
<1>4. Escaped \in [Text -> Text]
  BY TextMaps
<1>5. Without(Mapped(H, Escaped, Escaped), F) = Mapped(X, Escaped, Escaped)
  BY <1>1, <1>3, <1>4, MappedWithout
<1>6. X \in Headers
  BY <1>1, WithoutAppend
<1>7. HeadersUtf8(X)
  BY <1>1, Utf8Without
<1> HIDE DEF X
<1>8. /\ HeadersUtf8(Mapped(H, Escaped, Escaped))
      /\ HeadersUtf8(Mapped(Mapped(H, Escaped, Escaped), Same, Unescaped))
      /\ HeadersUtf8(Mapped(X, Escaped, Escaped))
      /\ HeadersUtf8(Mapped(Mapped(X, Escaped, Escaped), Same, Unescaped))
  BY <1>1, <1>6, <1>7, Utf8Escaped
<1>9. HeadersUtf8(HeadersOf(m.kind, WireHeaders(m)))
  <2>1. HeadersOf(m.kind, WireHeaders(m)) =
          Mapped(IF m.kind = "SEND" THEN Without(WireHeaders(m), F) ELSE WireHeaders(m),
                 Same, Unescaped)
    BY <1>2, HeadersOfMaps DEF F
  <2>2. CASE m.kind = "SEND"
    BY <1>2, <1>5, <1>8, <2>1, <2>2
  <2>3. CASE m.kind # "SEND"
    BY <1>2, <1>8, <2>1, <2>3
  <2> QED BY <2>2, <2>3
<1> QED BY <1>2, <1>5, <1>8, <1>9 DEF F

-----------------------------------------------------------------------------
(***************************************************************************)
(* A message is read back.                                                 *)
(***************************************************************************)

\* What the frame of m says of the length of its body.
Length(m) == ContentLength(FrameHeaders(m))

\* Nothing stands in the way of reading m back.
Readable(m) ==
    /\ \A f \in Fields(m.kind) : CleanField(m, f)
    /\ FramedAs(Length(m), m.body)
    /\ HeadersUtf8(m.extra)
    /\ << >> \notin Keys(m.headers) \cup Keys(m.extra)

LengthKey == <<"content-length">>

LEMMA LengthKeyFixed ==
  /\ LengthKey \in Text /\ Escape(LengthKey) = LengthKey
  /\ \A kind \in DOMAIN Variants : \A f \in Fields(kind) :
        LengthKey # <<f>> /\ LengthKey # <<WrittenAs(kind, f)>>
<1>1. "content-length" \in Symbols /\ "content-length" \notin {"\\", ":", "LF", "CR"}
  BY NamesInSymbols
<1>2. ASSUME NEW kind \in DOMAIN Variants, NEW f \in Fields(kind)
      PROVE  "content-length" # f /\ "content-length" # WrittenAs(kind, f)
  BY WrittenFields, NamesInSymbols
<1> QED BY <1>1, <1>2, EscapeName DEF LengthKey

\* A text is its own escape, or its escape has a backslash and it has a
\* special symbol.
LEMMA EscapePlain ==
  ASSUME NEW t \in Text
  PROVE  \/ Escape(t) = t
         \/ /\ \E i \in 1..Len(t) : t[i] \in {"\\", ":", "LF", "CR"}
            /\ \E i \in 1..Len(Escape(t)) : Escape(t)[i] = "\\"
<1> DEFINE Specials == {"\\", ":", "LF", "CR"}
           Has(u, X) == \E i \in 1..Len(u) : u[i] \in X
           S == {u \in Text : Escape(u) = u \/ (Has(u, Specials) /\ Has(Escape(u), {"\\"}))}
<1>1. << >> \in S
  BY EscapeEmpty
<1>2. ASSUME NEW u \in Text, NEW x \in Text, NEW X, Has(u, X) \/ Has(x, X) PROVE Has(u \o x, X)
  <2>1. /\ Len(u) \in Nat /\ Len(x) \in Nat /\ Len(u \o x) = Len(u) + Len(x)
        /\ \A i \in 1..Len(u) : (u \o x)[i] = u[i]
        /\ \A i \in 1..Len(x) : (u \o x)[Len(u) + i] = x[i]
    BY DEF Text
  <2>2. CASE Has(u, X)
    <3>1. PICK i \in 1..Len(u) : u[i] \in X
      BY <2>2
    <3>2. i \in 1..Len(u \o x) /\ (u \o x)[i] \in X
      BY <2>1, <3>1
    <3> QED BY <3>2
  <2>3. CASE Has(x, X)
    <3>1. PICK i \in 1..Len(x) : x[i] \in X
      BY <2>3
    <3>2. Len(u) + i \in 1..Len(u \o x) /\ (u \o x)[Len(u) + i] \in X
      BY <2>1, <3>1
    <3> QED BY <3>2
  <2> QED BY <1>2, <2>2, <2>3
<1>3. ASSUME NEW u \in Text, NEW s \in Symbols, u \in S PROVE Append(u, s) \in S
  <2>1. <<s>> \in Text /\ Append(u, s) = u \o <<s>> /\ Append(u, s) \in Text
    BY DEF Text
  <2>2. Escape(u) \in Text /\ Escape(Append(u, s)) = Escape(u) \o EscapeSymbol(s)
    BY EscapeAppend
  <2>3. EscapeSymbol(s) \in Text
    BY EscapeSymbolType
  <2>4. s \notin Specials => EscapeSymbol(s) = <<s>>
    BY EscapeSymbolDef
  <2>5. s \in Specials => Has(<<s>>, Specials) /\ Has(EscapeSymbol(s), {"\\"})
    <3> SUFFICES ASSUME s \in Specials PROVE Has(<<s>>, Specials) /\ Has(EscapeSymbol(s), {"\\"})
      OBVIOUS
    <3>1. Len(<<s>>) = 1 /\ <<s>>[1] = s /\ 1 \in 1..1
      OBVIOUS
    <3>2. \E y : EscapeSymbol(s) = <<"\\", y>>
      BY EscapeSymbolDef
    <3>3. \A y : Len(<<"\\", y>>) = 2 /\ <<"\\", y>>[1] = "\\" /\ 1 \in 1..2
      OBVIOUS
    <3>4. Has(<<s>>, Specials)
      BY <3>1
    <3>5. Has(EscapeSymbol(s), {"\\"})
      BY <3>2, <3>3
    <3> QED BY <3>4, <3>5
  <2>6. CASE Escape(u) = u /\ s \notin Specials
    BY <2>1, <2>2, <2>4, <2>6
  <2>7. CASE s \in Specials
    <3>1. Has(u \o <<s>>, Specials) /\ Has(Escape(u) \o EscapeSymbol(s), {"\\"})
      BY <1>2, <2>1, <2>2, <2>3, <2>5, <2>7
    <3> QED BY <2>1, <2>2, <3>1
  <2>8. CASE Has(u, Specials) /\ Has(Escape(u), {"\\"})
    <3>1. Has(u \o <<s>>, Specials) /\ Has(Escape(u) \o EscapeSymbol(s), {"\\"})
      BY <1>2, <2>1, <2>2, <2>3, <2>8
    <3> QED BY <2>1, <2>2, <3>1
  <2> HIDE DEF Specials, Has
  <2> QED BY <1>3, <2>6, <2>7, <2>8
<1>4. \A u \in Seq(Symbols), s \in Symbols : u \in S => Append(u, s) \in S
  BY <1>3 DEF Text
<1>5. t \in Seq(Symbols)
  BY DEF Text
<1>6. t \in S
  <2> HIDE DEF S
  <2> QED BY <1>1, <1>4, <1>5, SequencesUpward
<1> QED BY <1>6

\* A number has no special symbol.
LEMMA NumberSymbols ==
  ASSUME NEW t \in Text, NEW i \in 1..Len(t), t[i] \in {"\\", ":", "LF", "CR"}
  PROVE  Number(t) = {}
<1> DEFINE first == IF t # << >> /\ t[1] = Plus THEN 2 ELSE 1
<1>1. DOMAIN Digit = {Numerals[n] : n \in 1..10}
  BY DEF Digit
<1>2. \A n \in 1..10 : Numerals[n] \in {"0", "1", "2", "3", "4", "5", "6", "7", "8", "9"}
  BY DEF Numerals
<1>3. t[i] \notin DOMAIN Digit /\ t[i] # Plus
  BY <1>1, <1>2 DEF Plus
<1>4. i \in first..Len(t)
  <2>1. i = 1 => t[1] # Plus
    BY <1>3
  <2>2. Len(t) \in Nat
    BY DEF Text
  <2> QED BY <2>1, <2>2
<1> HIDE DEF first
<1>5. \E n \in first..Len(t) : t[n] \notin DOMAIN Digit
  BY <1>3, <1>4
<1> QED BY <1>5 DEF Number, first

\* A number is the same number when it is escaped, and nothing becomes one.
LEMMA NumberEscaped == ASSUME NEW v \in Text PROVE Number(Escape(v)) = Number(v)
<1>1. CASE Escape(v) = v
  BY <1>1
<1>2. CASE Escape(v) # v
  <2>1. /\ \E i \in 1..Len(v) : v[i] \in {"\\", ":", "LF", "CR"}
        /\ \E i \in 1..Len(Escape(v)) : Escape(v)[i] = "\\"
    BY <1>2, EscapePlain
  <2>2. Escape(v) \in Text
    BY EscapeAppend
  <2>3. Number(v) = {}
    BY <2>1, NumberSymbols
  <2>4. Number(Escape(v)) = {}
    BY <2>1, <2>2, NumberSymbols
  <2> QED BY <2>3, <2>4
<1> QED BY <1>1, <1>2

\* A length is the same number when it is escaped.
LEMMA LengthEscaped ==
  ASSUME NEW h, NEW g \in Headers, Find(h, LengthKey) = {Escape(v) : v \in Find(g, LengthKey)}
  PROVE  ContentLength(h) = ContentLength(g)
<1>1. \A v \in Find(g, LengthKey) : Number(Escape(v)) = Number(v)
  BY FindType, NumberEscaped
<1>2. {Number(v) : v \in Find(h, LengthKey)} = {Number(v) : v \in Find(g, LengthKey)}
  BY <1>1
<1> QED BY <1>2 DEF ContentLength, LengthKey

LEMMA LengthSame ==
  ASSUME NEW h, NEW g, Find(h, LengthKey) = Find(g, LengthKey)
  PROVE  ContentLength(h) = ContentLength(g)
BY DEF ContentLength, LengthKey

\* The length is found among the headers of the message, then among the extra
\* ones.
LEMMA LengthFound ==
  ASSUME NEW m, IsMessage(m)
  PROVE  Find(FrameHeaders(m), LengthKey) =
            IF LengthKey \in Keys(m.headers) THEN Find(m.headers, LengthKey)
            ELSE Find(m.extra, LengthKey)
<1>1. m.kind \in DOMAIN Variants
  BY DEF IsMessage
<1>2. LengthKey \notin Keys(OwnHeaders(m))
  BY <1>1, LengthKeyFixed, OwnKeys
<1> QED BY <1>2, FrameHeadersAre

\* It is the same for the message that is read back.
LEMMA LengthKept ==
  ASSUME NEW m, IsMessage(m), NEW body,
         IsMessage(MessageOf(m.kind, WireHeaders(m), body))
  PROVE  Length(MessageOf(m.kind, WireHeaders(m), body)) = Length(m)
<1> DEFINE W == WireHeaders(m)
           H == FrameHeaders(m)
           n == MessageOf(m.kind, W, body)
           F == FieldKeys(m.kind)
<1>1. /\ n.headers = IF m.kind \in Headered THEN HeadersOf(m.kind, W) ELSE << >>
      /\ n.extra = Without(W, F)
  BY DEF MessageOf
<1>2. H \in Headers /\ W \in Headers /\ m.kind \in DOMAIN Variants
  BY FrameHeadersAre, WireIs DEF IsMessage
<1>3. Find(W, LengthKey) = {Escape(v) : v \in Find(H, LengthKey)}
  BY LengthKeyFixed, WireIs
<1>4. LengthKey \notin F
  BY <1>2, LengthKeyFixed DEF FieldKeys
<1>5. Find(HeadersOf(m.kind, W), LengthKey) = Find(H, LengthKey)
  BY <1>4, LengthKeyFixed, HeaderReadBack
<1>6. IsMessage(n) /\ n.headers \in Headers
  BY DEF IsMessage
<1> HIDE DEF W, H, n, F
<1>7. Find(n.extra, LengthKey) = Find(W, LengthKey)
  BY <1>1, <1>2, <1>4, WithoutKeeps
<1>8. Find(FrameHeaders(n), LengthKey) =
        IF LengthKey \in Keys(n.headers) THEN Find(n.headers, LengthKey)
        ELSE Find(n.extra, LengthKey)
  BY <1>6, LengthFound
<1>9. CASE m.kind \in Headered /\ LengthKey \in Keys(n.headers)
  <2>1. Find(FrameHeaders(n), LengthKey) = Find(H, LengthKey)
    BY <1>1, <1>5, <1>8, <1>9
  <2>2. ContentLength(FrameHeaders(n)) = ContentLength(H)
    BY <2>1, LengthSame
  <2> QED BY <2>2 DEF Length, H, n, W
<1>10. CASE ~ (m.kind \in Headered /\ LengthKey \in Keys(n.headers))
  <2>1. LengthKey \notin Keys(n.headers)
    BY <1>1, <1>10, KeysConcat
  <2>2. Find(FrameHeaders(n), LengthKey) = {Escape(v) : v \in Find(H, LengthKey)}
    BY <1>3, <1>7, <1>8, <2>1
  <2>3. ContentLength(FrameHeaders(n)) = ContentLength(H)
    BY <1>2, <2>2, LengthEscaped
  <2> QED BY <2>3 DEF Length, H, n, W
<1> QED BY <1>9, <1>10

\* Every header on the wire has a key.
LEMMA NoEmptyKey ==
  ASSUME NEW m, IsMessage(m), Readable(m)
  PROVE  << >> \notin Keys(WireHeaders(m))
<1>1. << >> \notin Keys(OwnHeaders(m))
  BY OwnKeys
<1>2. << >> \notin Keys(FrameHeaders(m))
  BY <1>1, FrameHeadersAre DEF Readable
<1>3. Escape(<< >>) = << >> /\ << >> \in Text
  BY EscapeEmpty
<1> QED BY <1>2, <1>3, WireIs

\* parse_frame and the conversion take what serialize wrote.
LEMMA ReadBack ==
  ASSUME NEW m, IsMessage(m), Readable(m)
  PROVE  /\ Read(Serialize(ToFrame(m))).outcome = "message"
         /\ \E body \in SUBSET Text :
               /\ AtMostOne(body)
               /\ Contents(body) = Contents(m.body)
               /\ Converts(m.kind, WireHeaders(m))
               /\ Read(Serialize(ToFrame(m))).message = MessageOf(m.kind, WireHeaders(m), body)
<1> DEFINE frame == Serialize(ToFrame(m))
           W == WireHeaders(m)
           H == FrameHeaders(m)
           c == m.kind
           b == m.body
<1>1. c \in DOMAIN Variants /\ b \in SUBSET Text /\ AtMostOne(b) /\ m.headers \in Headers /\ m.extra \in Headers
  BY DEF IsMessage
<1>2. frame = [command |-> c, headers |-> W, body |-> b] /\ W \in Headers /\ H \in Headers
  BY WireIs, FrameHeadersAre
<1>3. << >> \notin Keys(W)
  BY NoEmptyKey
<1>4. FramedAs(ContentLength(W), b)
  <2>1. Find(W, LengthKey) = {Escape(v) : v \in Find(H, LengthKey)}
    BY LengthKeyFixed, WireIs
  <2>2. ContentLength(W) = ContentLength(H)
    BY <1>2, <2>1, LengthEscaped
  <2> QED BY <2>2 DEF Readable, Length
<1>5. Converts(c, W)
  <2>1. ASSUME NEW f \in Fields(c) PROVE FieldOK(c, f, FetchHeader(W, <<f>>))
    <3>1. CASE WrittenAs(c, f) = f
      <4>1. FetchHeader(W, <<f>>) = m.fields[f]
        BY <3>1, FieldReadBack DEF Readable
      <4> QED BY <4>1 DEF IsMessage
    <3>2. CASE WrittenAs(c, f) # f
      <4>1. c = "SEND" /\ f = "transaction"
        BY <3>2 DEF WrittenAs
      <4> QED BY <4>1, SendRequires DEF FieldOK
    <3> QED BY <3>1, <3>2
  <2>2. HeadersUtf8(HeadersOf(c, W))
    BY Utf8Wire DEF Readable
  <2> QED BY <2>1, <2>2 DEF Converts
<1> HIDE DEF frame, W, H, c, b
<1>6. PICK body \in SUBSET Text : ParsedAs(frame, c, W, b, body)
  BY <1>1, <1>2, ParseDef
<1>7. /\ AtMostOne(body)
       /\ Parse(frame).frame = [command |-> c, headers |-> W, body |-> body]
       /\ Parse(frame).outcome = "frame"
       /\ Contents(body) = Contents(b)
  BY <1>3, <1>4, <1>6 DEF ParsedAs
<1> DEFINE parsed == Parse(frame).frame
           client == ToMessage(parsed, ToServer)
           server == ToMessage(parsed, FromServer)
           result == [outcome |-> "message", message |-> MessageOf(c, W, body)]
<1>8. parsed = [command |-> c, headers |-> W, body |-> body]
  BY <1>7
<1>9. Read(frame) = IF client.outcome # "conversion_error" THEN client ELSE server
  BY <1>7 DEF Read
<1> HIDE DEF parsed
<1>10. ASSUME NEW variants, Known(variants, c) = {c}
      PROVE  ToMessage(parsed, variants) = result
  <2>1. KindOf(variants, c) = c
    BY <1>10 DEF KindOf
  <2> QED BY <1>5, <1>8, <1>10, <2>1, ToMessageDef
<1>11. Known(ToServer, c) = {} => client.outcome = "conversion_error"
  BY <1>8, ToMessageDef
<1>12. Read(frame) = result
  <2>1. CASE c \in DOMAIN ToServer
    <3>1. Known(ToServer, c) = {c}
      BY <1>1, <2>1, CommandsUnderstood DEF Known
    <3>2. client = result
      BY <1>10, <3>1
    <3> QED BY <1>9, <3>2
  <2>2. CASE c \in DOMAIN FromServer
    <3>1. Known(ToServer, c) = {} /\ Known(FromServer, c) = {c}
      BY <1>1, <2>2, CommandsUnderstood DEF Known
    <3>2. server = result
      BY <1>10, <3>1
    <3> QED BY <1>9, <1>11, <3>1, <3>2
  <2> QED BY <1>1, <2>1, <2>2, KindsDef
<1> QED BY <1>5, <1>7, <1>12 DEF frame, W, c, b

-----------------------------------------------------------------------------
\* The headers that a variant takes from those on the wire have their keys.
LEMMA HeadersOfKeys ==
  ASSUME NEW h \in Headers, NEW kind
  PROVE  Keys(HeadersOf(kind, h)) \subseteq Keys(h)
<1> DEFINE taken == IF kind = "SEND" THEN Without(h, FieldKeys(kind)) ELSE h
<1>1. taken \in Headers /\ Keys(taken) \subseteq Keys(h)
  BY WithoutAppend, WithoutKeeps
<1>2. HeadersOf(kind, h) = Mapped(taken, Same, Unescaped)
  BY HeadersOfMaps
<1> HIDE DEF taken
<1>3. Same \in [Text -> Text] /\ Unescaped \in [Text -> Text]
  BY TextMaps
<1>4. Keys(Mapped(taken, Same, Unescaped)) = {Same[k] : k \in Keys(taken)}
  BY <1>1, <1>3, MappedDef
<1>5. \A k \in Keys(taken) : Same[k] = k
  BY <1>1, KeysType, TextMaps
<1> QED BY <1>1, <1>2, <1>4, <1>5

\* What was read of a readable message is readable.
LEMMA ReadableAgain ==
  ASSUME NEW m, IsMessage(m), Readable(m), Converts(m.kind, WireHeaders(m)),
         NEW body \in SUBSET Text, AtMostOne(body), Contents(body) = Contents(m.body)
  PROVE  LET n == MessageOf(m.kind, WireHeaders(m), body)
         IN  IsMessage(n) /\ n.kind = m.kind /\ Contents(n.body) = Contents(m.body) /\ Readable(n)
<1> DEFINE W == WireHeaders(m)
           n == MessageOf(m.kind, W, body)
<1>1. /\ n.kind = m.kind
      /\ n.headers = IF m.kind \in Headered THEN HeadersOf(m.kind, W) ELSE << >>
      /\ n.body = IF m.kind \in Bodied THEN body ELSE {}
      /\ n.extra = Without(W, FieldKeys(m.kind))
  BY DEF MessageOf
<1>2. m.kind \in DOMAIN Variants /\ W \in Headers
  BY WireIs DEF IsMessage
<1>3. IsMessage(n)
  BY <1>2, MessageOfType
<1>4. Contents(n.body) = Contents(m.body)
  BY <1>1 DEF IsMessage
<1>5. \A f \in Fields(n.kind) : CleanField(n, f)
  BY <1>1, <1>2, ReadClean
<1>6. FramedAs(Length(n), n.body)
  <2>1. Length(n) = Length(m)
    BY <1>3, LengthKept
  <2> HIDE DEF n
  <2> QED BY <1>4, <2>1 DEF Readable, FramedAs
<1>7. HeadersUtf8(n.extra)
  BY <1>1, Utf8Wire DEF Readable
<1>8. << >> \notin Keys(n.headers) \cup Keys(n.extra)
  <2>1. << >> \notin Keys(W)
    BY NoEmptyKey
  <2>2. Keys(n.extra) \subseteq Keys(W)
    BY <1>1, <1>2, WithoutKeeps
  <2>3. Keys(n.headers) \subseteq Keys(W)
    <3>1. CASE m.kind \in Headered
      BY <1>1, <1>2, <3>1, HeadersOfKeys
    <3>2. CASE m.kind \notin Headered
      BY <1>1, <3>2, KeysConcat
    <3> QED BY <3>1, <3>2
  <2> QED BY <2>1, <2>2, <2>3
<1> HIDE DEF n
<1>9. Readable(n)
  BY <1>5, <1>6, <1>7, <1>8 DEF Readable
<1> QED BY <1>1, <1>3, <1>4, <1>9 DEF n, W

\* The origin is a message that can be read back.
Sound ==
    /\ origin # NoMessage
    /\ Clean
    /\ Framed
    /\ HeadersUtf8(origin.extra)
    /\ << >> \notin Keys(origin.headers) \cup Keys(origin.extra)

ReadBackInv ==
    /\ outcome = "none" => message = NoMessage
    /\ outcome # "none" /\ Sound =>
        /\ outcome = "message"
        /\ Readable(message)
        /\ message.kind = origin.kind
        /\ Contents(message.body) = Contents(origin.body)

LEMMA FramedIs ==
  ASSUME NEW m
  PROVE  LET length == ContentLength(ToFrame(m).headers)
             bytes  == Contents(m.body)
         IN  (IF length = {} THEN \A i \in 1..Len(bytes) : bytes[i] # NUL
                             ELSE length = {Len(bytes)})
             <=> FramedAs(Length(m), m.body)
<1>1. ToFrame(m).headers = FrameHeaders(m)
  BY ToFrameDef
<1> QED BY <1>1 DEF FramedAs, Length

\* A fresh message is readable if it is sound.
LEMMA FreshReadable ==
  ASSUME Fresh, Sound'
  PROVE  /\ Readable(message')
         /\ message'.kind = origin'.kind
         /\ Contents(message'.body) = Contents(origin'.body)
<1>1. origin' = message' /\ IsMessage(message')
  BY DEF Fresh
<1>2. DOMAIN message'.fields = Fields(message'.kind)
  BY <1>1 DEF IsMessage
<1>3. \A f \in Fields(message'.kind) : CleanField(message', f)
  BY <1>1, <1>2 DEF Sound, Clean, CleanField
<1>4. FramedAs(Length(message'), message'.body)
  BY <1>1, FramedIs DEF Sound, Framed
<1>5. HeadersUtf8(message'.extra) /\ << >> \notin Keys(message'.headers) \cup Keys(message'.extra)
  BY <1>1 DEF Sound
<1> QED BY <1>1, <1>3, <1>4, <1>5 DEF Readable

LEMMA ReadBackStep == Inv /\ ReadBackInv /\ [Next]_vars => ReadBackInv'
<1> SUFFICES ASSUME Inv, ReadBackInv, [Next]_vars PROVE ReadBackInv'
  OBVIOUS
<1>1. CASE UNCHANGED vars
  BY <1>1 DEF vars, ReadBackInv, Sound, Clean, Framed
<1>2. CASE Build
  <2>1. outcome' = "message"
    BY <1>2 DEF Build
  <2>2. Fresh
    BY <1>2, MessagesAssumption DEF Build, Inv, Fresh
  <2> QED BY <2>1, <2>2, FreshReadable DEF ReadBackInv
<1>3. CASE Receive
  <2>1. PICK frame \in Frames :
          /\ outcome' = Read(frame).outcome
          /\ message' = IF Read(frame).outcome = "message" THEN Read(frame).message ELSE message
          /\ origin' = message'
          /\ outcome = "none"
          /\ hops' = hops
    BY <1>3 DEF Receive
  <2>2. outcome' # "none"
    BY <2>1, NeverNone
  <2>3. CASE outcome' = "message"
    <3>1. Fresh
      BY <2>1, <2>3, Received DEF Fresh, Inv
    <3> QED BY <2>2, <2>3, <3>1, FreshReadable DEF ReadBackInv
  <2>4. CASE outcome' # "message"
    <3>1. origin' = NoMessage
      BY <2>1, <2>4 DEF ReadBackInv
    <3>2. NoMessage' = NoMessage
      BY DEF NoMessage
    <3>3. ~ Sound'
      BY <3>1, <3>2 DEF Sound
    <3> QED BY <2>2, <3>3 DEF ReadBackInv
  <2> QED BY <2>3, <2>4
<1>4. CASE Forward
  <2> DEFINE W == WireHeaders(message)
             read == Read(Serialize(ToFrame(message)))
  <2>1. /\ outcome = "message" /\ origin' = origin /\ outcome' = read.outcome
        /\ message' = IF read.outcome = "message" THEN read.message ELSE message
        /\ IsMessage(message)
    BY <1>4 DEF Forward, Inv
  <2>2. outcome' # "none"
    BY <2>1, NeverNone
  <2>3. ASSUME Sound' 
        PROVE  /\ outcome' = "message"
               /\ Readable(message')
               /\ message'.kind = origin'.kind
               /\ Contents(message'.body) = Contents(origin'.body)
    <3>1. Sound
      BY <2>1, <2>3 DEF Sound, Clean, Framed, NoMessage
    <3>2. /\ Readable(message) /\ message.kind = origin.kind
          /\ Contents(message.body) = Contents(origin.body)
      BY <2>1, <3>1 DEF ReadBackInv
    <3>3. read.outcome = "message"
      BY <2>1, <3>2, ReadBack
    <3>4. PICK body \in SUBSET Text :
            /\ AtMostOne(body)
            /\ Contents(body) = Contents(message.body)
            /\ Converts(message.kind, W)
            /\ read.message = MessageOf(message.kind, W, body)
      BY <2>1, <3>2, ReadBack
    <3> DEFINE n == MessageOf(message.kind, W, body)
    <3>5. n.kind = message.kind /\ Contents(n.body) = Contents(message.body) /\ Readable(n)
      BY <2>1, <3>2, <3>4, ReadableAgain
    <3>6. message' = n
      BY <2>1, <3>3, <3>4
    <3> HIDE DEF n
    <3> QED BY <2>1, <3>2, <3>3, <3>5, <3>6
  <2> QED BY <2>2, <2>3 DEF ReadBackInv
<1> QED BY <1>1, <1>2, <1>3, <1>4 DEF Next

\* A message that is framed right, whose absent fields no header stands in
\* for, whose extra headers are UTF-8 and whose headers all have keys is read
\* back as a message, of its kind and with its body, on every hop.
THEOREM SoundAlwaysReadBack == Spec => []ForwardReadsBack
<1>1. Init => ReadBackInv
  BY DEF Init, ReadBackInv
<1>2. ReadBackInv => ForwardReadsBack
  BY DEF ReadBackInv, ForwardReadsBack, Sound
<1> QED BY <1>1, <1>2, AlwaysAMessage, ReadBackStep, PTL DEF Spec

=============================================================================
