----------------------------- MODULE Induction -----------------------------
(***************************************************************************)
(* Induction over the natural numbers, and the functions that are defined  *)
(* by recursion over an interval of them, as facts about sets: a property  *)
(* is given as the set of the numbers that have it, and the step of a      *)
(* recursion as a function.                                                *)
(***************************************************************************)
EXTENDS Integers, Sequences, WellFoundedInduction, TLAPS

\* A set of natural numbers that is not empty has a least element.
LEMMA LeastNat ==
  ASSUME NEW S \in SUBSET Nat, S # {}
  PROVE  \E n \in S : \A m \in S : n <= m
<1>1. PICK R : IsWellFoundedOn(R, Nat) /\ \A x, y \in Nat : <<x, y>> \in R <=> x < y
  <2>1. \A x, y \in Nat : <<x, y>> \in OpToRel(<, Nat) <=> x < y
    BY DEF OpToRel
  <2> QED BY <2>1, NatLessThanWellFounded
<1>2. S \subseteq Nat
  OBVIOUS
<1>3. PICK n \in S : \A m \in S : ~ (<<m, n>> \in R)
  <2>1. IsWellFoundedOn(R, Nat)
    BY <1>1
  <2> QED BY <1>2, <2>1, WFMin, Zenon
<1>4. \A m \in S : ~ (m < n)
  BY <1>1, <1>2, <1>3, Zenon
<1>5. \A m \in S : n <= m
  BY <1>2, <1>4
<1> QED BY <1>5

\* Induction: the numbers of a set that has 0, and with a number the next.
LEMMA Upward ==
  ASSUME NEW S, 0 \in S, \A n \in Nat : n \in S => n + 1 \in S
  PROVE  \A n \in Nat : n \in S
<1> SUFFICES ASSUME NEW k \in Nat, k \notin S PROVE FALSE
  OBVIOUS
<1> DEFINE T == Nat \ S
<1>1. PICK n \in T : \A m \in T : n <= m
  BY LeastNat
<1>2. n # 0 /\ n - 1 \in Nat
  BY <1>1
<1>3. n - 1 \in S
  BY <1>1, <1>2
<1>4. n - 1 + 1 \in S
  BY <1>2, <1>3
<1> QED BY <1>1, <1>2, <1>4

\* Induction from the upper end of an interval downward, with what is above a
\* number at hand.
LEMMA Downward ==
  ASSUME NEW lo \in Int, NEW hi \in Int, NEW S,
         \A q \in lo..hi : (\A r \in (q + 1)..hi : r \in S) => q \in S
  PROVE  \A q \in lo..hi : q \in S
<1> SUFFICES ASSUME NEW k \in lo..hi, k \notin S PROVE FALSE
  OBVIOUS
<1> DEFINE T == {d \in Nat : hi - d \in lo..hi /\ hi - d \notin S}
<1>1. hi - k \in T
  <2>1. hi - k \in Nat /\ hi - (hi - k) = k
    OBVIOUS
  <2> QED BY <2>1
<1>2. PICK d \in T : \A e \in T : d <= e
  BY <1>1, LeastNat
<1>3. ASSUME NEW r \in (hi - d + 1)..hi PROVE r \in S
  <2>1. hi - r \in Nat /\ hi - r < d /\ hi - (hi - r) = r
    BY <1>2
  <2>2. hi - r \notin T
    BY <1>2, <2>1
  <2> QED BY <1>2, <2>1, <2>2
<1> QED BY <1>2, <1>3

-----------------------------------------------------------------------------

\* f is defined from each number to the next.
Steps(f, base, n, step) ==
    f = [i \in 0..n |-> IF i = 0 THEN base ELSE step[<<f[i - 1], i>>]]

\* There is such a function, and its values are where the steps lead.
LEMMA UpwardRecursion ==
  ASSUME NEW V, NEW base \in V, NEW n \in Nat, NEW step \in [V \X (1..n) -> V]
  PROVE  \E f \in [0..n -> V] : Steps(f, base, n, step)
<1> SUFFICES \E f \in [0..n -> V] :
               f = [i \in 0..n |-> IF i = 0 THEN base ELSE step[<<f[i - 1], i>>]]
  BY DEF Steps
<1> DEFINE Defines(f, m) ==
        /\ f \in [0..m -> V]
        /\ f[0] = base
        /\ \A i \in 1..m : f[i] = step[<<f[i - 1], i>>]
<1> DEFINE S == {m \in Nat : m <= n => \E f : Defines(f, m)}
<1>1. 0 \in S
  <2>1. Defines([i \in 0..0 |-> base], 0)
    OBVIOUS
  <2> QED BY <2>1
<1>2. ASSUME NEW m \in Nat, m \in S, m + 1 <= n PROVE \E f : Defines(f, m + 1)
  <2>1. PICK f : Defines(f, m)
    BY <1>2
  <2> DEFINE g == [i \in 0..(m + 1) |-> IF i = m + 1 THEN step[<<f[m], m + 1>>] ELSE f[i]]
  <2>2. f[m] \in V /\ m + 1 \in 1..n
    BY <1>2, <2>1
  <2>3. step[<<f[m], m + 1>>] \in V
    BY <2>2
  <2>4. g \in [0..(m + 1) -> V]
    BY <2>1, <2>3
  <2>5. g[0] = base
    BY <2>1
  <2>6. ASSUME NEW i \in 1..(m + 1) PROVE g[i] = step[<<g[i - 1], i>>]
    <3>1. CASE i = m + 1
      <4>1. g[i - 1] = f[m] /\ g[i] = step[<<f[m], m + 1>>]
        BY <3>1
      <4> QED BY <3>1, <4>1
    <3>2. CASE i # m + 1
      <4>1. i \in 1..m /\ i - 1 \in 0..m
        BY <3>2
      <4>2. g[i - 1] = f[i - 1] /\ g[i] = f[i]
        BY <4>1
      <4> QED BY <2>1, <4>1, <4>2
    <3> QED BY <3>1, <3>2
  <2>7. Defines(g, m + 1)
    <3> HIDE DEF g
    <3> QED BY <2>4, <2>5, <2>6
  <2> QED BY <2>7
<1>3. \A m \in Nat : m \in S => m + 1 \in S
  <2> HIDE DEF Defines
  <2> QED BY <1>2
<1>4. n \in S
  <2> HIDE DEF S
  <2> QED BY <1>1, <1>3, Upward
<1>5. PICK f : Defines(f, n)
  BY <1>4
<1>6. f = [i \in 0..n |-> IF i = 0 THEN base ELSE step[<<f[i - 1], i>>]]
  <2>1. \A i \in 0..n : f[i] = IF i = 0 THEN base ELSE step[<<f[i - 1], i>>]
    BY <1>5
  <2> QED BY <1>5, <2>1
<1> QED BY <1>5, <1>6

\* The value of f is given at some numbers, and at the others it is made of
\* the value at another number.
Descends(f, lo, hi, known, value, next, op) ==
    f = [q \in lo..hi |-> IF q \in known THEN value[q] ELSE op[<<q, f[next[q]]>>]]

\* There is such a function, if the other number is always further up.
LEMMA DownwardRecursion ==
  ASSUME NEW lo \in Int, NEW hi \in Int, NEW V, NEW known, NEW value, NEW next,
         NEW op \in [(lo..hi) \X V -> V],
         \A q \in lo..hi : IF q \in known THEN value[q] \in V ELSE next[q] \in (q + 1)..hi
  PROVE  \E f \in [lo..hi -> V] : Descends(f, lo, hi, known, value, next, op)
<1> DEFINE Defines(f, from) ==
        /\ f \in [from..hi -> V]
        /\ f = [q \in from..hi |-> IF q \in known THEN value[q] ELSE op[<<q, f[next[q]]>>]]
<1> DEFINE S == {d \in Nat : lo <= hi + 1 - d => \E f : Defines(f, hi + 1 - d)}
<1>1. 0 \in S
  <2> DEFINE none == [q \in (hi + 1)..hi |-> 0]
  <2>1. none \in [(hi + 1)..hi -> V]
    OBVIOUS
  <2>2. Defines(none, hi + 1)
    BY <2>1
  <2> QED BY <2>2
<1>2. ASSUME NEW d \in Nat, d \in S, lo <= hi - d
      PROVE  \E f : Defines(f, hi - d)
  <2>1. PICK f : Defines(f, hi + 1 - d)
    BY <1>2
  <2> DEFINE p == hi - d
             first == IF p \in known THEN value[p] ELSE op[<<p, f[next[p]]>>]
             g == [q \in p..hi |-> IF q = p THEN first ELSE f[q]]
  <2>2. p \in lo..hi /\ p \in Int
    BY <1>2
  <2>3. first \in V
    <3>1. CASE p \in known
      BY <2>2, <3>1
    <3>2. CASE p \notin known
      <4>1. next[p] \in (hi + 1 - d)..hi
        BY <2>2, <3>2
      <4>2. f[next[p]] \in V
        BY <2>1, <4>1
      <4> QED BY <2>2, <3>2, <4>2
    <3> QED BY <3>1, <3>2
  <2>4. g \in [p..hi -> V]
    <3> SUFFICES ASSUME NEW q \in p..hi PROVE g[q] \in V
      OBVIOUS
    <3>1. q # p => q \in (hi + 1 - d)..hi
      BY <2>2
    <3> HIDE DEF first
    <3> QED BY <2>1, <2>3, <3>1
  <2>5. ASSUME NEW q \in p..hi
        PROVE  g[q] = IF q \in known THEN value[q] ELSE op[<<q, g[next[q]]>>]
    <3>1. q \notin known => /\ next[q] \in (q + 1)..hi
                            /\ g[next[q]] = f[next[q]]
      <4>1. q \in lo..hi
        BY <2>2
      <4> SUFFICES ASSUME q \notin known
                   PROVE  next[q] \in (q + 1)..hi /\ g[next[q]] = f[next[q]]
        OBVIOUS
      <4>2. next[q] \in (q + 1)..hi
        BY <4>1
      <4>3. next[q] \in p..hi /\ next[q] # p
        BY <2>2, <4>2
      <4> HIDE DEF first, p
      <4> QED BY <4>2, <4>3
    <3>2. CASE q = p
      <4>1. g[q] = first
        BY <3>2
      <4> QED BY <3>1, <3>2, <4>1
    <3>3. CASE q # p
      <4>1. q \in (hi + 1 - d)..hi
        BY <3>3
      <4>2. f[q] = IF q \in known THEN value[q] ELSE op[<<q, f[next[q]]>>]
        BY <2>1, <4>1
      <4>3. g[q] = f[q]
        BY <3>3
      <4> HIDE DEF g
      <4> QED BY <3>1, <4>2, <4>3
    <3> QED BY <3>2, <3>3
  <2>6. Defines(g, p)
    <3> HIDE DEF g, p
    <3> QED BY <2>4, <2>5
  <2> QED BY <2>6
<1>3. \A d \in Nat : d \in S => d + 1 \in S
  <2>1. \A d \in Nat : hi + 1 - (d + 1) = hi - d
    OBVIOUS
  <2> HIDE DEF Defines
  <2> QED BY <1>2, <2>1
<1>4. \A d \in Nat : d \in S
  <2> HIDE DEF S
  <2> QED BY <1>1, <1>3, Upward
<1>5. CASE lo <= hi + 1
  <2>1. hi + 1 - lo \in Nat /\ hi + 1 - (hi + 1 - lo) = lo
    BY <1>5
  <2>2. hi + 1 - lo \in S /\ lo <= hi + 1 - (hi + 1 - lo)
    <3> HIDE DEF S
    <3> QED BY <1>4, <2>1
  <2>3. \E f : Defines(f, hi + 1 - (hi + 1 - lo))
    <3> HIDE DEF Defines
    <3> QED BY <2>2
  <2>4. PICK f : Defines(f, lo)
    BY <2>1, <2>3
  <2> QED BY <2>4 DEF Descends
<1>6. CASE ~ (lo <= hi + 1)
  <2> DEFINE none == [q \in lo..hi |-> 0]
  <2>1. lo..hi = {}
    BY <1>6
  <2>2. none \in [lo..hi -> V]
    BY <2>1
  <2>3. Descends(none, lo, hi, known, value, next, op)
    BY <2>1 DEF Descends
  <2> QED BY <2>2, <2>3
<1> QED BY <1>5, <1>6

\* The value of f is given at some numbers, and at the others it is that of
\* another number.
Jumps(f, lo, hi, known, value, next) ==
    f = [q \in lo..hi |-> IF q \in known THEN value[q] ELSE f[next[q]]]

LEMMA JumpRecursion ==
  ASSUME NEW lo \in Int, NEW hi \in Int, NEW known, NEW value, NEW next,
         \A q \in lo..hi : q \notin known => next[q] \in (q + 1)..hi
  PROVE  \E f : Jumps(f, lo, hi, known, value, next)
<1> DEFINE V  == {value[q] : q \in known}
           op == [p \in (lo..hi) \X V |-> p[2]]
<1>1. op \in [(lo..hi) \X V -> V]
  OBVIOUS
<1>2. \A q \in lo..hi : IF q \in known THEN value[q] \in V ELSE next[q] \in (q + 1)..hi
  OBVIOUS
<1>3. \A q \in lo..hi, v \in V : op[<<q, v>>] = v
  OBVIOUS
<1> HIDE DEF V, op
<1>4. PICK f \in [lo..hi -> V] : Descends(f, lo, hi, known, value, next, op)
  BY <1>1, <1>2, DownwardRecursion
<1>5. ASSUME NEW q \in lo..hi
      PROVE  f[q] = IF q \in known THEN value[q] ELSE f[next[q]]
  <2>1. f[q] = IF q \in known THEN value[q] ELSE op[<<q, f[next[q]]>>]
    BY <1>4 DEF Descends
  <2>2. q \notin known => f[next[q]] \in V
    <3>1. \A r \in (q + 1)..hi : r \in lo..hi
      OBVIOUS
    <3> QED BY <1>2, <3>1
  <2> QED BY <1>3, <2>1, <2>2
<1>6. f = [q \in lo..hi |-> IF q \in known THEN value[q] ELSE f[next[q]]]
  BY <1>5
<1> QED BY <1>6 DEF Jumps

-----------------------------------------------------------------------------

\* Induction over finite sequences, from the empty one and by Append.
LEMMA SequencesUpward ==
  ASSUME NEW A, NEW S, << >> \in S,
         \A s \in Seq(A), x \in A : s \in S => Append(s, x) \in S
  PROVE  \A s \in Seq(A) : s \in S
<1> DEFINE T == {n \in Nat : \A s \in Seq(A) : Len(s) = n => s \in S}
<1>1. 0 \in T
  OBVIOUS
<1>2. ASSUME NEW n \in Nat, n \in T, NEW s \in Seq(A), Len(s) = n + 1
      PROVE  s \in S
  <2> DEFINE front == SubSeq(s, 1, n)
  <2>1. front \in Seq(A) /\ Len(front) = n /\ s[n + 1] \in A
    BY <1>2
  <2>2. s = Append(front, s[n + 1])
    <3>1. \A i \in 1..n : front[i] = s[i]
      BY <1>2
    <3>2. Append(front, s[n + 1]) \in Seq(A) /\ Len(Append(front, s[n + 1])) = n + 1
      BY <2>1
    <3>3. \A i \in 1..(n + 1) : Append(front, s[n + 1])[i] = s[i]
      <4> HIDE DEF front
      <4> QED BY <2>1, <3>1
    <3> HIDE DEF front
    <3> QED BY <1>2, <3>2, <3>3
  <2>3. front \in S
    BY <1>2, <2>1
  <2> HIDE DEF front
  <2>4. Append(front, s[n + 1]) \in S
    BY <2>1, <2>3
  <2> QED BY <2>2, <2>4
<1>3. \A n \in Nat : n \in T => n + 1 \in T
  BY <1>2
<1>4. \A n \in Nat : n \in T
  <2> HIDE DEF T
  <2> QED BY <1>1, <1>3, Upward
<1> QED BY <1>4

\* u[i] is what a recursion over the first i elements of s yields.
Folds(u, s, base, op) ==
    u = [i \in 0..Len(s) |-> IF i = 0 THEN base ELSE op[<<u[i - 1], s[i]>>]]

LEMMA FoldExists ==
  ASSUME NEW V, NEW A, NEW base \in V, NEW op \in [V \X A -> V], NEW s \in Seq(A)
  PROVE  \E u \in [0..Len(s) -> V] : Folds(u, s, base, op)
<1> DEFINE step == [p \in V \X (1..Len(s)) |-> op[<<p[1], s[p[2]]>>]]
<1>1. Len(s) \in Nat /\ \A i \in 1..Len(s) : s[i] \in A
  OBVIOUS
<1>2. step \in [V \X (1..Len(s)) -> V]
  BY <1>1
<1>3. PICK u \in [0..Len(s) -> V] : Steps(u, base, Len(s), step)
  <2> HIDE DEF step
  <2> QED BY <1>1, <1>2, UpwardRecursion
<1>4. ASSUME NEW i \in 1..Len(s)
      PROVE  step[<<u[i - 1], i>>] = op[<<u[i - 1], s[i]>>]
  <2>1. <<u[i - 1], i>> \in V \X (1..Len(s))
    <3>1. i - 1 \in 0..Len(s)
      BY <1>1
    <3> QED BY <3>1
  <2> QED BY <2>1
<1>5. u = [i \in 0..Len(s) |-> IF i = 0 THEN base ELSE op[<<u[i - 1], s[i]>>]]
  <2> HIDE DEF step
  <2> QED BY <1>1, <1>3, <1>4 DEF Steps
<1> QED BY <1>5 DEF Folds

\* The same, of a recursion of which nothing is known outside of V.
Follows(u, s, base, op, V) ==
    \A i \in 0..Len(s) :
        IF i = 0 THEN u[i] = base ELSE u[i - 1] \in V => u[i] = op[<<u[i - 1], s[i]>>]

\* value[s] is the result of such a recursion.
IsFold(value, A, base, op, V) ==
    /\ base \in V
    /\ op \in [V \X A -> V]
    /\ \A s \in Seq(A) : \E u : Follows(u, s, base, op, V) /\ value[s] = u[Len(s)]

\* What one more element makes of the result.
LEMMA FoldAppend ==
  ASSUME NEW V, NEW A, NEW base, NEW op, NEW value, IsFold(value, A, base, op, V)
  PROVE  /\ value[<< >>] = base
         /\ \A s \in Seq(A) : value[s] \in V
         /\ \A s \in Seq(A), x \in A : value[Append(s, x)] = op[<<value[s], x>>]
<1>0. base \in V /\ op \in [V \X A -> V]
  BY DEF IsFold
<1>1. ASSUME NEW s \in Seq(A), NEW u, Follows(u, s, base, op, V)
      PROVE  \A i \in 0..Len(s) : u[i] \in V
  <2> DEFINE T == {i \in Nat : i <= Len(s) => u[i] \in V}
  <2>1. 0 \in T
    <3>1. 0 \in 0..Len(s)
      OBVIOUS
    <3> QED BY <1>0, <1>1, <3>1 DEF Follows
  <2>2. ASSUME NEW i \in Nat, i \in T, i + 1 <= Len(s) PROVE u[i + 1] \in V
    <3>1. i + 1 \in 0..Len(s) /\ i + 1 # 0 /\ i + 1 - 1 = i /\ u[i] \in V
          /\ s[i + 1] \in A
      BY <2>2
    <3>2. u[i + 1] = op[<<u[i], s[i + 1]>>]
      BY <1>1, <3>1 DEF Follows
    <3> QED BY <1>0, <3>1, <3>2
  <2>3. \A i \in Nat : i \in T => i + 1 \in T
    BY <2>2
  <2>4. \A i \in Nat : i \in T
    <3> HIDE DEF T
    <3> QED BY <2>1, <2>3, Upward
  <2> QED BY <2>4
<1>2. ASSUME NEW s \in Seq(A), NEW u, Follows(u, s, base, op, V)
      PROVE  \A i \in 1..Len(s) : u[i] = op[<<u[i - 1], s[i]>>]
  <2> SUFFICES ASSUME NEW i \in 1..Len(s) PROVE u[i] = op[<<u[i - 1], s[i]>>]
    OBVIOUS
  <2>1. i \in 0..Len(s) /\ i - 1 \in 0..Len(s) /\ i # 0
    OBVIOUS
  <2> QED BY <1>1, <1>2, <2>1 DEF Follows
<1>3. ASSUME NEW s \in Seq(A), NEW x \in A,
             NEW u, Follows(u, s, base, op, V),
             NEW w, Follows(w, Append(s, x), base, op, V)
      PROVE  \A i \in 0..Len(s) : w[i] = u[i]
  <2> DEFINE T == {i \in Nat : i <= Len(s) => w[i] = u[i]}
  <2>1. 0 \in T
    <3>1. 0 \in 0..Len(s) /\ 0 \in 0..Len(Append(s, x))
      OBVIOUS
    <3> QED BY <1>3, <3>1 DEF Follows
  <2>2. ASSUME NEW i \in Nat, i \in T, i + 1 <= Len(s) PROVE w[i + 1] = u[i + 1]
    <3>1. /\ i + 1 \in 1..Len(s) /\ i + 1 - 1 = i /\ w[i] = u[i]
          /\ i + 1 \in 1..Len(Append(s, x)) /\ Append(s, x)[i + 1] = s[i + 1]
          /\ Append(s, x) \in Seq(A)
      BY <2>2
    <3>2. u[i + 1] = op[<<u[i], s[i + 1]>>]
      BY <1>2, <1>3, <3>1
    <3>3. w[i + 1] = op[<<w[i], s[i + 1]>>]
      <4>1. \A j \in 1..Len(Append(s, x)) : w[j] = op[<<w[j - 1], Append(s, x)[j]>>]
        BY <1>2, <1>3, <3>1, Zenon
      <4> QED BY <3>1, <4>1
    <3> QED BY <3>1, <3>2, <3>3
  <2>3. \A i \in Nat : i \in T => i + 1 \in T
    BY <2>2
  <2>4. \A i \in Nat : i \in T
    <3> HIDE DEF T
    <3> QED BY <2>1, <2>3, Upward
  <2> QED BY <2>4
<1>4. value[<< >>] = base
  <2>1. << >> \in Seq(A) /\ Len(<< >>) = 0
    OBVIOUS
  <2>2. PICK u : Follows(u, << >>, base, op, V) /\ value[<< >>] = u[0]
    BY <2>1 DEF IsFold
  <2>3. 0 \in 0..Len(<< >>)
    BY <2>1
  <2> QED BY <2>2, <2>3 DEF Follows
<1>5. ASSUME NEW s \in Seq(A), NEW x \in A
      PROVE  value[Append(s, x)] = op[<<value[s], x>>]
  <2>1. Append(s, x) \in Seq(A) /\ Len(Append(s, x)) = Len(s) + 1
        /\ Append(s, x)[Len(s) + 1] = x /\ Len(s) \in Nat
    OBVIOUS
  <2>2. PICK u : Follows(u, s, base, op, V) /\ value[s] = u[Len(s)]
    BY DEF IsFold
  <2>3. PICK w : /\ Follows(w, Append(s, x), base, op, V)
                 /\ value[Append(s, x)] = w[Len(s) + 1]
    BY <2>1 DEF IsFold
  <2>4. w[Len(s) + 1] = op[<<w[Len(s)], x>>]
    <3>1. \A j \in 1..Len(Append(s, x)) : w[j] = op[<<w[j - 1], Append(s, x)[j]>>]
      BY <1>2, <2>1, <2>3, Zenon
    <3>2. Len(s) + 1 \in 1..Len(Append(s, x)) /\ Len(s) + 1 - 1 = Len(s)
      BY <2>1
    <3> QED BY <2>1, <3>1, <3>2
  <2>5. w[Len(s)] = u[Len(s)]
    BY <1>3, <2>1, <2>2, <2>3
  <2> QED BY <2>2, <2>3, <2>4, <2>5
<1>6. ASSUME NEW s \in Seq(A) PROVE value[s] \in V
  <2>1. PICK u : Follows(u, s, base, op, V) /\ value[s] = u[Len(s)]
    BY DEF IsFold
  <2> QED BY <1>1, <2>1
<1> QED BY <1>4, <1>5, <1>6

=============================================================================
