--------------------------- MODULE SunSpecProofs ---------------------------
(***************************************************************************)
(* Proofs about the SunSpec server and client, for every set of schemas,   *)
(* every configuration and every sequence of Status and Update messages.   *)
(***************************************************************************)
EXTENDS SunSpecClient, SequenceTheorems, WellFoundedInduction, TLAPS

-----------------------------------------------------------------------------
(* Induction and recursion over an interval.                               *)

\* A set of natural numbers that is not empty has a least member.
LEMMA LeastMember ==
    ASSUME NEW T, T \subseteq Nat, T # {}
    PROVE  \E x \in T : \A y \in T : x <= y
<1>1. IsWellFoundedOn(OpToRel(<, Nat), Nat)
  BY NatLessThanWellFounded
<1>2. PICK x \in T : \A y \in T : <<y, x>> \notin OpToRel(<, Nat)
  BY <1>1, WFMin
<1>3. ASSUME NEW y \in T
      PROVE  x <= y
  <2>1. <<y, x>> \notin {p \in Nat \X Nat : p[1] < p[2]}
    BY <1>2 DEF OpToRel
  <2> QED
    BY <2>1
<1> QED
  BY <1>3

\* A set that contains 0 and, up to n, the successor of each of its members.
LEMMA UpTo ==
    ASSUME NEW S, NEW n \in Nat, 0 \in S, \A i \in 1..n : i - 1 \in S => i \in S
    PROVE  \A i \in 0..n : i \in S
<1>1. SUFFICES ASSUME NEW T, T = {i \in 0..n : i \notin S}, T # {}
               PROVE  FALSE
  OBVIOUS
<1>2. PICK x \in T : \A y \in T : x <= y
  <2>1. T \subseteq Nat /\ T # {}
    BY <1>1
  <2> HIDE <1>1
  <2> QED
    BY <2>1, LeastMember
<1>3. x # 0 /\ x - 1 \in 0..n /\ x \in 1..n
  BY <1>1, <1>2
<1>4. x - 1 \notin T
  <2> SUFFICES ASSUME x - 1 \in T
               PROVE  FALSE
    OBVIOUS
  <2>1. x <= x - 1 /\ x \in Int
    BY <1>2, <1>3
  <2> QED
    BY <2>1
<1>5. x - 1 \in S /\ x \notin S
  BY <1>1, <1>2, <1>3, <1>4
<1> QED
  BY <1>3, <1>5

\* What a loop that begins with b has after i turns.
Loop(g, n, b, step) ==
    /\ DOMAIN g = 0..n
    /\ g[0] = b
    /\ \A i \in 1..n : g[i] = step[<<i, g[i - 1]>>]

\* A loop over a sequence comes to its end.
LEMMA LoopEnds ==
    ASSUME NEW n \in Nat, NEW S, NEW b \in S, NEW step \in [(1..n) \X S -> S]
    PROVE  \E g \in [0..n -> S] : Loop(g, n, b, step)
<1> DEFINE T == {m \in 0..n : \E g \in [0..m -> S] : Loop(g, m, b, step)}
<1>1. 0 \in T
  <2> DEFINE g == [i \in 0..0 |-> b]
  <2>1. g \in [0..0 -> S] /\ Loop(g, 0, b, step)
    BY DEF Loop
  <2> QED
    BY <2>1
<1>2. ASSUME NEW m \in 1..n, m - 1 \in T
      PROVE  m \in T
  <2>1. PICK g \in [0..(m - 1) -> S] : Loop(g, m - 1, b, step)
    BY <1>2
  <2> DEFINE e == step[<<m, g[m - 1]>>]
             h == [i \in 0..m |-> IF i = m THEN e ELSE g[i]]
  <2>2. e \in S
    OBVIOUS
  <2>3. h \in [0..m -> S]
    BY <2>2
  <2>4. h[0] = b
    BY <2>1 DEF Loop
  <2>5. ASSUME NEW i \in 1..m
        PROVE  h[i] = step[<<i, h[i - 1]>>]
    <3>1. CASE i = m
      <4>1. h[i] = e /\ h[i - 1] = g[m - 1]
        BY <3>1
      <4> QED
        BY <3>1, <4>1
    <3>2. CASE i # m
      <4>1. i \in 1..(m - 1) /\ h[i] = g[i] /\ h[i - 1] = g[i - 1]
        BY <3>2
      <4> QED
        BY <2>1, <4>1 DEF Loop
    <3> QED
      BY <3>1, <3>2
  <2> HIDE DEF h
  <2>6. Loop(h, m, b, step)
    BY <2>3, <2>4, <2>5 DEF Loop
  <2> QED
    BY <2>3, <2>6
<1> HIDE DEF T
<1>3. n \in T
  BY <1>1, <1>2, UpTo
<1> QED
  BY <1>3 DEF T

\* What holds of what the loop begins with, and is kept by every turn, holds of what it computes.
LEMMA LoopKeeps ==
    ASSUME NEW n \in Nat, NEW S, NEW f, f[0] \in S,
           \A i \in 1..n : f[i - 1] \in S => f[i] \in S
    PROVE  \A i \in 0..n : f[i] \in S
<1> DEFINE T == {i \in 0..n : f[i] \in S}
<1>1. 0 \in T
  OBVIOUS
<1>2. ASSUME NEW i \in 1..n, i - 1 \in T
      PROVE  i \in T
  BY <1>2
<1> HIDE DEF T
<1>3. \A i \in 0..n : i \in T
  BY <1>1, <1>2, UpTo
<1> QED
  BY <1>3 DEF T

-----------------------------------------------------------------------------
(* Powers.                                                                 *)

\* Powers of a positive number.
LEMMA PowerIs ==
    ASSUME NEW x \in Nat \ {0}, NEW n \in Nat
    PROVE  \E g \in [0..n -> Nat \ {0}] :
              /\ g[0] = 1 /\ \A i \in 1..n : g[i] = x * g[i - 1]
              /\ Power(x, n) = g[n]
<1> DEFINE S == Nat \ {0}
           step == [y \in (1..n) \X S |-> x * y[2]]
           Is(f) == f = [i \in 0..n |-> IF i = 0 THEN 1 ELSE x * f[i - 1]]
           power == CHOOSE f : Is(f)
<1>1. step \in [(1..n) \X S -> S]
  OBVIOUS
<1>2. 1 \in S
  OBVIOUS
<1>3. \A i \in 1..n : \A y \in S : step[<<i, y>>] = x * y /\ x * y \in S
  OBVIOUS
<1> HIDE DEF step, S
<1>4. PICK g \in [0..n -> S] : Loop(g, n, 1, step)
  BY <1>1, <1>2, LoopEnds
<1>5. Is(g)
  <2>1. ASSUME NEW i \in 0..n
        PROVE  g[i] = IF i = 0 THEN 1 ELSE x * g[i - 1]
    <3>1. CASE i = 0
      BY <1>4, <3>1 DEF Loop
    <3>2. CASE i # 0
      <4>1. i \in 1..n /\ i - 1 \in 0..n
        BY <3>2
      <4>2. g[i - 1] \in S
        BY <4>1
      <4> QED
        BY <1>3, <1>4, <3>2, <4>1, <4>2 DEF Loop
    <3> QED
      BY <3>1, <3>2
  <2> QED
    BY <2>1
<1>6. Is(power)
  <2> HIDE DEF Is
  <2> QED
    BY <1>5
<1>7. Power(x, n) = power[n]
  BY DEF Power
<1> HIDE DEF power
<1>8. power = [i \in 0..n |-> power[i]] /\ power[0] = 1 /\ \A i \in 1..n : power[i] = x * power[i - 1]
  BY <1>6
<1>9. power \in [0..n -> S]
  <2>1. \A i \in 1..n : power[i - 1] \in S => power[i] \in S
    BY <1>3, <1>8
  <2>2. \A i \in 0..n : power[i] \in S
    BY <1>2, <1>8, <2>1, LoopKeeps
  <2> QED
    BY <1>8, <2>2
<1> QED
  BY <1>7, <1>8, <1>9 DEF S

\* Powers of ten are positive, and 1 for an exponent that is not.
LEMMA PowType == \A n \in Int : Pow(n) \in Nat \ {0} /\ (n <= 0 => Pow(n) = 1)
<1> TAKE n \in Int
<1>1. CASE n > 0
  <2>1. n \in Nat /\ Pow(n) = Power(10, n)
    BY <1>1 DEF Pow, Base
  <2>2. PICK g \in [0..n -> Nat \ {0}] : Power(10, n) = g[n]
    <3>1. 10 \in Nat \ {0}
      OBVIOUS
    <3> QED
      BY <2>1, <3>1, PowerIs, Zenon
  <2> QED
    BY <1>1, <2>1, <2>2
<1>2. CASE ~(n > 0)
  <2>1. Pow(n) = Power(10, 0)
    BY <1>2 DEF Pow, Base
  <2>2. PICK g \in [0..0 -> Nat \ {0}] : g[0] = 1 /\ Power(10, 0) = g[0]
    <3>1. 10 \in Nat \ {0} /\ 0 \in Nat
      OBVIOUS
    <3> QED
      BY <3>1, PowerIs, Zenon
  <2> QED
    BY <2>1, <2>2
<1> QED
  BY <1>1, <1>2

\* The constants, for arithmetic.
LEMMA ModulusType == Modulus \in Nat \ {0} /\ Unit \in Nat \ {0} /\ Modulus % 2 = 0
  BY SchemaAssumption

\* Weights of the words of a register.
LEMMA Weights ==
    /\ Power(Modulus, 0) = 1
    /\ Power(Modulus, 1) = Modulus
    /\ Power(Modulus, 2) = Modulus * Modulus
    /\ Power(Modulus, 3) = Modulus * Modulus * Modulus
    /\ Power(Modulus, 4) = Modulus * Modulus * Modulus * Modulus
<1> DEFINE M == Modulus
<1>1. M \in Nat \ {0}
  BY ModulusType
<1> HIDE DEF M
<1>2. ASSUME NEW n \in 0..4
      PROVE  /\ n = 0 => Power(M, n) = 1
             /\ n = 1 => Power(M, n) = M
             /\ n = 2 => Power(M, n) = M * M
             /\ n = 3 => Power(M, n) = M * M * M
             /\ n = 4 => Power(M, n) = M * M * M * M
  <2>1. PICK g \in [0..n -> Nat \ {0}] :
            /\ g[0] = 1 /\ \A i \in 1..n : g[i] = M * g[i - 1]
            /\ Power(M, n) = g[n]
    <3>1. n \in Nat
      OBVIOUS
    <3> QED
      BY <1>1, <3>1, PowerIs, Zenon
  <2>2. n >= 1 => g[1] = M
    <3>1. n >= 1 => g[1] = M * g[0]
      BY <2>1
    <3> QED
      BY <1>1, <2>1, <3>1
  <2>3. n >= 2 => g[2] = M * M
    BY <2>1, <2>2
  <2>4. n >= 3 => g[3] = M * (M * M)
    BY <2>1, <2>3
  <2>5. n >= 4 => g[4] = M * (M * (M * M))
    BY <2>1, <2>4
  <2>6. M * (M * M) = M * M * M /\ M * (M * (M * M)) = M * M * M * M
    BY <1>1
  <2> QED
    BY <2>1, <2>2, <2>3, <2>4, <2>5, <2>6
<1> QED
  BY <1>2 DEF M

-----------------------------------------------------------------------------
(* Words.                                                                  *)

\* Division with remainder.
LEMMA DivMod ==
    ASSUME NEW m \in Int, NEW d \in Nat \ {0}
    PROVE  /\ m = (m \div d) * d + (m % d)
           /\ m % d \in 0..(d - 1)
           /\ m \div d \in Int
  OBVIOUS

\* Quotient and remainder are unique.
LEMMA DivUnique ==
    ASSUME NEW q \in Int, NEW d \in Nat \ {0}, NEW r \in 0..(d - 1)
    PROVE  (q * d + r) \div d = q /\ (q * d + r) % d = r
  OBVIOUS

\* One more word.
LEMMA Split ==
    ASSUME NEW n \in Int, NEW V \in Nat \ {0}, NEW M \in Nat \ {0}
    PROVE  n % (V * M) = ((n \div V) % M) * V + (n % V)
<1>1. PICK q \in Int, r \in 0..(V - 1) : q = n \div V /\ r = n % V /\ n = q * V + r
  BY DivMod
<1>2. PICK p \in Int, w \in 0..(M - 1) : w = q % M /\ q = p * M + w
  BY DivMod
<1>3. n = p * (V * M) + (w * V + r)
  <2>1. (p * M + w) * V = p * (V * M) + w * V
    BY <1>2
  <2>2. p * (V * M) \in Int /\ w * V \in Int
    BY <1>2
  <2>3. q * V = p * (V * M) + w * V
    BY <1>2, <2>1, Zenon
  <2> QED
    BY <1>1, <2>2, <2>3
<1>4. w * V + r \in 0..(V * M - 1)
  <2>1. w * V >= 0
    BY <1>2
  <2>2. w * V <= (M - 1) * V
    BY <1>2
  <2>3. (M - 1) * V = V * M - V
    OBVIOUS
  <2>4. w * V \in Int /\ V * M \in Int
    BY <1>2
  <2> QED
    BY <1>1, <2>1, <2>2, <2>3, <2>4
<1>5. V * M \in Nat \ {0}
  OBVIOUS
<1>6. n % (V * M) = w * V + r
  BY <1>3, <1>4, <1>5, DivUnique
<1> QED
  BY <1>1, <1>2, <1>6

Word == 0..(Modulus - 1)

\* Number of words of a register.
LEMMA CountType ==
    \A dt : Supported(dt) => /\ Count(dt) \in Nat \ {0}
                             /\ dt \notin Text => Count(dt) \in {1, 2, 4}
  BY DEF Supported, Count, Single, Double, Text

\* Words of a number are words.
LEMMA WordsType ==
    ASSUME NEW n \in Int, NEW c \in Nat
    PROVE  Words(n, c) \in [1..c -> Word]
<1> SUFFICES ASSUME NEW i \in 1..c
             PROVE  (n \div Power(Modulus, c - i)) % Modulus \in Word
  BY DEF Words
<1>1. Modulus \in Nat \ {0} /\ c - i \in Nat
  BY ModulusType
<1>2. PICK g \in [0..(c - i) -> Nat \ {0}] : Power(Modulus, c - i) = g[c - i]
  BY <1>1, PowerIs, Zenon
<1>3. Power(Modulus, c - i) \in Nat \ {0}
  BY <1>1, <1>2
<1>4. n \div Power(Modulus, c - i) \in Int
  BY <1>3, DivMod
<1> QED
  BY <1>1, <1>4, DivMod DEF Word

\* The integer a register of one, two or four words holds, without its sign.
Joined(c, ws) ==
    CASE c = 1 -> ws[1]
      [] c = 2 -> ws[1] * Modulus + ws[2]
      [] c = 4 -> ((ws[1] * Modulus + ws[2]) * Modulus + ws[3]) * Modulus + ws[4]

\* The words of a number are joined again.
LEMMA JoinedWords ==
    ASSUME NEW n \in Int, NEW c \in {1, 2, 4}
    PROVE  Joined(c, Words(n, c)) = n % Power(Modulus, c)
<1> DEFINE M == Modulus
           w(k) == (n \div Power(Modulus, k)) % Modulus
<1>1. M \in Nat \ {0}
  BY ModulusType
<1>2. M * M \in Nat \ {0} /\ M * M * M \in Nat \ {0}
  BY <1>1
<1>3. w(0) = n % M
  BY <1>1, Weights
<1>4. n % (M * M) = w(1) * M + (n % M)
  <2>1. w(1) = (n \div M) % M
    BY Weights, Zenon
  <2> HIDE DEF w, M
  <2> QED
    BY <1>1, <2>1, Split, Zenon
<1>5. n % (M * M * M) = w(2) * (M * M) + (n % (M * M))
  <2>1. w(2) = (n \div (M * M)) % M
    BY Weights, Zenon
  <2> HIDE DEF w, M
  <2> QED
    BY <1>1, <1>2, <2>1, Split, Zenon
<1>6. n % (M * M * M * M) = w(3) * (M * M * M) + (n % (M * M * M))
  <2>1. w(3) = (n \div (M * M * M)) % M
    BY Weights, Zenon
  <2> HIDE DEF w, M
  <2> QED
    BY <1>1, <1>2, <2>1, Split, Zenon
<1>7. \A k \in 0..3 : w(k) \in Int
  <2> TAKE k \in 0..3
  <2>1. Words(n, 4) \in [1..4 -> Word]
    BY WordsType
  <2>2. Words(n, 4)[4 - k] \in Word
    BY <2>1
  <2>3. Words(n, 4)[4 - k] = w(k)
    BY DEF Words
  <2> QED
    BY <1>1, <2>2, <2>3 DEF Word
<1>8. CASE c = 1
  <2>1. Words(n, 1)[1] = w(0)
    BY DEF Words
  <2> HIDE DEF w
  <2> QED
    BY <1>3, <1>8, <2>1, Weights DEF Joined
<1>9. CASE c = 2
  <2>1. Words(n, 2)[1] = w(1) /\ Words(n, 2)[2] = w(0)
    BY DEF Words
  <2>2. w(1) * M + w(0) = n % (M * M)
    <3> HIDE DEF w, M
    <3> QED
      BY <1>3, <1>4, Zenon
  <2> HIDE DEF w
  <2> QED
    BY <1>9, <2>1, <2>2, Weights DEF Joined
<1>10. CASE c = 4
  <2>1. /\ Words(n, 4)[1] = w(3) /\ Words(n, 4)[2] = w(2)
        /\ Words(n, 4)[3] = w(1) /\ Words(n, 4)[4] = w(0)
    BY DEF Words
  <2> HIDE DEF w, M
  <2>2. ASSUME NEW a \in Int, NEW b \in Int, NEW d \in Int, NEW e \in Int
        PROVE  ((a * M + b) * M + d) * M + e = a * (M * M * M) + (b * (M * M) + (d * M + e))
    BY <1>1
  <2>3. /\ w(0) \in Int /\ w(1) \in Int /\ w(2) \in Int /\ w(3) \in Int
    BY <1>7
  <2>4. ((w(3) * M + w(2)) * M + w(1)) * M + w(0)
           = w(3) * (M * M * M) + (w(2) * (M * M) + (w(1) * M + w(0)))
    BY <2>2, <2>3
  <2>5. ((w(3) * M + w(2)) * M + w(1)) * M + w(0) = n % (M * M * M * M)
    BY <1>3, <1>4, <1>5, <1>6, <2>4, Zenon
  <2> QED
    BY <1>10, <2>1, <2>5, Weights DEF Joined, M
<1> QED
  BY <1>8, <1>9, <1>10

\* The number comes back from its words.
LEMMA IntegerOfWords ==
    ASSUME NEW r, Supported(r.dt), r.dt \notin Text, NEW n \in Int, Fits(r.dt, n)
    PROVE  Integer(r, Words(n, Count(r.dt))) = n
<1> DEFINE c == Count(r.dt)
           V == Power(Modulus, c)
           j == Joined(c, Words(n, c))
<1>1. c \in {1, 2, 4}
  BY CountType
<1>2. V \in Nat \ {0} /\ V % 2 = 0
  <2>1. PICK h \in Nat : Modulus = 2 * h
    BY ModulusType
  <2>2. \E k \in Nat \ {0} : V = Modulus * k
    <3>1. Modulus \in Nat \ {0}
      BY ModulusType
    <3>2. Modulus * Modulus \in Nat \ {0} /\ Modulus * Modulus * Modulus \in Nat \ {0}
      BY <3>1
    <3>3. Modulus * Modulus * Modulus * Modulus = Modulus * (Modulus * Modulus * Modulus)
      BY <3>1
    <3> QED
      BY <1>1, <3>1, <3>2, <3>3, Weights
  <2>3. PICK k \in Nat \ {0} : V = Modulus * k
    BY <2>2
  <2>4. V = 2 * (h * k) /\ h * k \in Nat /\ h # 0
    BY <2>1, <2>3, ModulusType
  <2>5. h * k # 0
    BY <2>1, <2>4
  <2> QED
    BY <2>4, <2>5
<1>3. j = n % V
  BY <1>1, JoinedWords
<1>4. Integer(r, Words(n, c)) = IF Signed(r.dt) /\ j >= V \div 2 THEN j - V ELSE j
  BY <1>1 DEF Integer, Joined
<1>5. IF Signed(r.dt) THEN -V <= 2 * n /\ 2 * n < V ELSE 0 <= n /\ n < V
  BY DEF Fits
<1> HIDE DEF V, j, c
<1>6. 0 <= n => n < V /\ n % V = n
  BY <1>2, <1>5
<1>7. n < 0 => n % V = n + V /\ Signed(r.dt)
  BY <1>2, <1>5
<1> QED
  BY <1>2, <1>3, <1>4, <1>5, <1>6, <1>7 DEF c

\* What cutting off towards zero leaves.
LEMMA TruncIs ==
    ASSUME NEW n \in Int, NEW d \in Nat \ {0}
    PROVE  /\ Trunc(n, d) \in Int
           /\ n >= 0 => Trunc(n, d) >= 0 /\ Trunc(n, d) * d <= n /\ n < Trunc(n, d) * d + d
           /\ n < 0 => Trunc(n, d) <= 0 /\ n <= Trunc(n, d) * d /\ Trunc(n, d) * d - d < n
<1>1. CASE n >= 0
  <2> DEFINE q == n \div d
  <2>1. n = q * d + (n % d) /\ n % d \in 0..(d - 1) /\ q \in Int
    BY DivMod
  <2>2. Trunc(n, d) = q
    BY <1>1 DEF Trunc
  <2> HIDE DEF q
  <2>3. q >= 0
    <3> SUFFICES ASSUME q <= -1
                 PROVE  FALSE
      BY <2>1
    <3>1. q * d <= -d
      BY <2>1
    <3> QED
      BY <1>1, <2>1, <3>1
  <2>4. q * d \in Int
    BY <2>1
  <2> QED
    BY <1>1, <2>1, <2>2, <2>3, <2>4
<1>2. CASE n < 0
  <2> DEFINE q == (-n) \div d
  <2>1. -n = q * d + ((-n) % d) /\ (-n) % d \in 0..(d - 1) /\ q \in Int
    <3>1. -n \in Int
      OBVIOUS
    <3> QED
      BY <3>1, DivMod
  <2>2. Trunc(n, d) = -q
    BY <1>2 DEF Trunc
  <2> HIDE DEF q
  <2>3. q >= 0
    <3> SUFFICES ASSUME q <= -1
                 PROVE  FALSE
      BY <2>1
    <3>1. q * d <= -d
      BY <2>1
    <3> QED
      BY <1>2, <2>1, <3>1
  <2>4. q * d \in Int /\ (-q) * d = -(q * d)
    BY <2>1
  <2> QED
    BY <1>2, <2>1, <2>2, <2>3, <2>4
<1> QED
  BY <1>1, <1>2

\* The scale factor that is used.
Scale(r, f) == IF Scaled(r.dt) THEN Scaling(r, f) ELSE 0

\* A number that is sent is near the value, on the side of zero.
Near(x, v, s) ==
    /\ Abs(x * Pow(s) - v * Pow(-s)) <= Unit * Pow(s) - (IF s = 0 THEN 1 ELSE 0)
    /\ Abs(x * Pow(s)) <= Abs(v * Pow(-s))

\* What is sent for a value is near it.
LEMMA RawIs ==
    ASSUME NEW r, r.scaling \in Int, NEW v \in Int, NEW f \in Int
    PROVE  \A n \in Raw(r, v, f) : n \in Int /\ Near(n * Unit, v, Scale(r, f))
<1> DEFINE s == Scale(r, f)
           P == Pow(s)
           Q == Pow(-s)
           U == Unit
           D == U * P
           V == v * Q
           x == Trunc(V, D)
           z == IF x > 0 THEN x - 1 ELSE IF x < 0 THEN x + 1 ELSE x
<1>1. s \in Int
  BY DEF Scale, Scaling
<1>2. P \in Nat \ {0} /\ Q \in Nat \ {0} /\ U \in Nat \ {0}
  <2> HIDE DEF s
  <2>1. -s \in Int
    BY <1>1
  <2> QED
    BY <1>1, <2>1, PowType, ModulusType
<1>3. Raw(r, v, f) = IF s # 0 /\ x * U * P = V THEN {x, z} ELSE {x}
  BY DEF Raw, Scale
<1> HIDE DEF s, P, Q, U
<1>4. D \in Nat \ {0} /\ V \in Int
  BY <1>2
<1> HIDE DEF D, V
<1>5. /\ x \in Int
      /\ V >= 0 => x >= 0 /\ x * D <= V /\ V < x * D + D
      /\ V < 0 => x <= 0 /\ V <= x * D /\ x * D - D < V
  BY <1>4, TruncIs
<1> HIDE DEF x
<1>6. x * D \in Int /\ (x - 1) * D = x * D - D /\ (x + 1) * D = x * D + D
  BY <1>4, <1>5
<1>7. SUFFICES ASSUME NEW n \in Int, n = x \/ (s # 0 /\ x * D = V /\ n = z)
               PROVE  /\ Abs(n * D - V) <= D - (IF s = 0 THEN 1 ELSE 0)
                      /\ Abs(n * D) <= Abs(V)
  <2>1. \A n \in Int : n * U * P = n * D
    BY <1>2 DEF D
  <2> SUFFICES ASSUME NEW n \in Raw(r, v, f)
               PROVE  n \in Int /\ Near(n * Unit, v, Scale(r, f))
    OBVIOUS
  <2>2. n \in Int
    BY <1>3, <1>5
  <2>3. n = x \/ (s # 0 /\ x * D = V /\ n = z)
    BY <1>3, <1>5, <2>1
  <2>4. /\ Abs(n * D - V) <= D - (IF s = 0 THEN 1 ELSE 0)
        /\ Abs(n * D) <= Abs(V)
    BY <1>7, <2>2, <2>3
  <2>5. n * U * P = n * D
    BY <2>1, <2>2
  <2>6. /\ Abs(n * U * P - V) <= D - (IF s = 0 THEN 1 ELSE 0)
        /\ Abs(n * U * P) <= Abs(V)
    BY <2>4, <2>5, Zenon
  <2> QED
    BY <2>2, <2>6 DEF Near, D, V, s, P, Q, U
<1>8. n * D \in Int
  BY <1>4
<1>9. CASE n = x
  BY <1>4, <1>5, <1>6, <1>9 DEF Abs
<1>10. CASE s # 0 /\ x * D = V /\ n = z
  <2>1. x # 0 => Abs(V) >= D
    BY <1>4, <1>5, <1>6, <1>10 DEF Abs
  <2> QED
    BY <1>4, <1>5, <1>6, <1>10, <2>1 DEF Abs
<1> QED
  BY <1>7, <1>9, <1>10

\* There is always something to send.
LEMMA RawOne == \A r, v, f : Raw(r, v, f) # {}
  BY DEF Raw

\* Bytes gives as many words as the type of the register has.
LEMMA BytesType ==
    ASSUME NEW r, Supported(r.dt), r.scaling \in Int, NEW v \in Int, NEW f \in Int
    PROVE  \A ws \in Bytes(r, v, f) : ws \in [1..Count(r.dt) -> Word]
<1>1. Count(r.dt) \in Nat
  BY CountType
<1>2. CASE r.dt \in Text
  <2>1. 0 \in Word
    BY ModulusType DEF Word
  <2> QED
    BY <1>2, <2>1 DEF Bytes
<1>3. CASE r.dt \notin Text
  <2> SUFFICES ASSUME NEW n \in Raw(r, v, f)
               PROVE  Words(n, Count(r.dt)) \in [1..Count(r.dt) -> Word]
    BY <1>3 DEF Bytes
  <2>1. n \in Int
    BY RawIs
  <2> QED
    BY <1>1, <2>1, WordsType
<1> QED
  BY <1>2, <1>3

\* Words of a register make an integer.
LEMMA IntegerType ==
    ASSUME NEW r, Supported(r.dt), r.dt \notin Text, NEW ws \in [1..Count(r.dt) -> Word]
    PROVE  Integer(r, ws) \in Int
<1> DEFINE c == Count(r.dt)
           j == Joined(c, ws)
           M == Modulus
<1>1. c \in {1, 2, 4} /\ c \in Nat
  BY CountType
<1>2. M \in Nat \ {0}
  BY ModulusType
<1>3. PICK g \in [0..c -> Nat \ {0}] : Power(M, c) = g[c]
  <2> HIDE DEF c
  <2> QED
    BY <1>1, <1>2, PowerIs, Zenon
<1>4. Power(M, c) \in Int
  BY <1>1, <1>3
<1>5. Integer(r, ws) = IF Signed(r.dt) /\ j >= Power(M, c) \div 2 THEN j - Power(M, c) ELSE j
  BY <1>1 DEF Integer, Joined
<1>6. \A i \in 1..c : ws[i] \in Int
  BY <1>1, ModulusType DEF Word
<1>7. j \in Int
  <2> HIDE DEF c, M
  <2>1. c = 1 => j = ws[1]
    BY DEF Joined
  <2>2. c = 2 => j = ws[1] * M + ws[2]
    BY DEF Joined, M
  <2>3. c = 4 => j = ((ws[1] * M + ws[2]) * M + ws[3]) * M + ws[4]
    BY DEF Joined, M
  <2> HIDE DEF j
  <2>4. \A x, y \in Int : x * M + y \in Int
    BY <1>2
  <2>5. CASE c = 1
    BY <1>6, <2>1, <2>5
  <2>6. CASE c = 2
    <3>1. ws[1] \in Int /\ ws[2] \in Int
      BY <1>6, <2>6
    <3> QED
      BY <2>2, <2>4, <2>6, <3>1, Zenon
  <2>7. CASE c = 4
    <3>1. ws[1] \in Int /\ ws[2] \in Int /\ ws[3] \in Int /\ ws[4] \in Int
      BY <1>6, <2>7
    <3>2. ws[1] * M + ws[2] \in Int
      BY <2>4, <3>1, Zenon
    <3>3. (ws[1] * M + ws[2]) * M + ws[3] \in Int
      BY <2>4, <3>1, <3>2, Zenon
    <3>4. ((ws[1] * M + ws[2]) * M + ws[3]) * M + ws[4] \in Int
      BY <2>4, <3>1, <3>3, Zenon
    <3> QED
      BY <2>3, <2>7, <3>4, Zenon
  <2> QED
    BY <1>1, <2>5, <2>6, <2>7
<1> HIDE DEF j, c, M
<1> QED
  BY <1>4, <1>5, <1>7

\* The value of a register is a number.
LEMMA ValueType ==
    ASSUME NEW r, Supported(r.dt), r.dt \notin Text, r.scaling \in Int,
           NEW ws \in [1..Count(r.dt) -> Word], NEW f \in Int
    PROVE  ValueOf(r, ws, f) \in Int
<1> DEFINE n == Integer(r, ws)
           s == Scale(r, f)
<1>1. n \in Int
  BY IntegerType
<1>2. s \in Int
  BY DEF Scale, Scaling
<1>3. ValueOf(r, ws, f) = (n * Unit * Pow(s)) \div Pow(-s)
  BY DEF ValueOf, Scale
<1> HIDE DEF n, s
<1>4. Pow(s) \in Int /\ Pow(-s) \in Nat \ {0} /\ Unit \in Int
  <2>1. -s \in Int
    BY <1>2
  <2> QED
    BY <1>2, <2>1, PowType, ModulusType
<1>5. n * Unit * Pow(s) \in Int
  BY <1>1, <1>4
<1> QED
  BY <1>3, <1>4, <1>5, DivMod

\* A register without scale factor.
LEMMA ValueUnscaled ==
    ASSUME NEW r, Supported(r.dt), r.dt \notin Text, r.scaling = 0,
           NEW ws \in [1..Count(r.dt) -> Word]
    PROVE  ValueOf(r, ws, 0) = Integer(r, ws) * Unit
<1> DEFINE n == Integer(r, ws)
<1>1. n \in Int
  BY IntegerType
<1>2. Pow(0) = 1 /\ Pow(-0) = 1
  BY PowType
<1>3. ValueOf(r, ws, 0) = (n * Unit * Pow(0)) \div Pow(-0)
  BY DEF ValueOf, Scaling
<1> HIDE DEF n
<1> QED
  BY <1>1, <1>2, <1>3, ModulusType DEF n

\* Only the type of a register matters to Integer.
LEMMA IntegerSame ==
    ASSUME NEW q, NEW r, q.dt = r.dt, NEW ws
    PROVE  Integer(q, ws) = Integer(r, ws)
  BY DEF Integer

\* What a client makes of the words of a register shows the value they were made from.
LEMMA ReadBack ==
    ASSUME NEW q, NEW r, q.dt = r.dt, q.scaling = 0, r.scaling \in Int,
           Supported(r.dt), r.dt \notin Text, NEW v \in Int, NEW f \in Int,
           \A n \in Raw(r, v, f) : Fits(r.dt, n), NEW ws \in Bytes(r, v, f)
    PROVE  Near(ValueOf(q, ws, 0), v, Scale(r, f))
<1>1. PICK n \in Raw(r, v, f) : ws = Words(n, Count(r.dt))
  BY DEF Bytes
<1>2. n \in Int /\ Near(n * Unit, v, Scale(r, f))
  BY RawIs
<1>3. Integer(r, ws) = n
  BY <1>1, <1>2, IntegerOfWords
<1>4. ws \in [1..Count(r.dt) -> Word]
  BY BytesType
<1>5. ValueOf(q, ws, 0) = Integer(q, ws) * Unit
  BY <1>4, ValueUnscaled
<1>6. Integer(q, ws) = n
  BY <1>3, IntegerSame
<1> QED
  BY <1>2, <1>5, <1>6

\* A whole number comes back as it was put into a register without scale factor.
LEMMA WholeBack ==
    ASSUME NEW r, Supported(r.dt), r.dt \notin Text, r.scaling = 0, NEW n \in Int, Fits(r.dt, n),
           NEW ws \in Bytes(r, n * Unit, 0)
    PROVE  Integer(r, ws) = n /\ ws = Words(n, Count(r.dt))
<1>1. PICK m \in Raw(r, n * Unit, 0) : ws = Words(m, Count(r.dt))
  BY DEF Bytes
<1>2. n * Unit \in Int
  BY ModulusType
<1>3. Raw(r, n * Unit, 0) = {Trunc(n * Unit * Pow(-0), Unit * Pow(0))}
  BY DEF Raw, Scaling
<1>4. Pow(0) = 1 /\ Pow(-0) = 1
  BY PowType
<1>5. m = Trunc(n * Unit, Unit)
  <2> DEFINE U == Unit
  <2>1. U \in Int
    BY ModulusType
  <2> HIDE DEF U
  <2>2. n * U * 1 = n * U /\ U * 1 = U
    BY <2>1
  <2> QED
    BY <1>1, <1>3, <1>4, <2>2 DEF U
<1>6. m = n
  <2> DEFINE U == Unit
             x == Trunc(n * U, U)
  <2>1. U \in Nat \ {0}
    BY ModulusType
  <2>2. /\ x \in Int
        /\ n * U >= 0 => x >= 0 /\ x * U <= n * U /\ n * U < x * U + U
        /\ n * U < 0 => x <= 0 /\ n * U <= x * U /\ x * U - U < n * U
    BY <1>2, <2>1, TruncIs
  <2>3. m = x
    BY <1>5
  <2> HIDE DEF U, x
  <2>4. n * U - x * U < U /\ x * U - n * U < U
    BY <2>1, <2>2
  <2>5. n * U - x * U = (n - x) * U
    BY <2>1, <2>2
  <2>6. (n - x) * U < U /\ -U < (n - x) * U
    BY <2>1, <2>2, <2>4, <2>5
  <2>7. ASSUME NEW k \in Int, k * U < U, -U < k * U
        PROVE  k = 0
    <3>1. k >= 1 => k * U >= U
      BY <2>1
    <3>2. k <= -1 => k * U <= -U
      BY <2>1
    <3> QED
      BY <2>1, <2>7, <3>1, <3>2
  <2>8. n - x = 0
    BY <2>2, <2>6, <2>7
  <2> QED
    BY <2>2, <2>3, <2>8
<1> QED
  BY <1>1, <1>6, IntegerOfWords

-----------------------------------------------------------------------------
(* Schemas.                                                                *)

Point == [name: STRING, dt: STRING, size: Nat \ {0}, rw: BOOLEAN, sf: STRING, num: Int]

\* Points of a schema are points.
LEMMA PointType ==
    ASSUME NEW id \in DOMAIN Schema
    PROVE  /\ Len(Schema[id]) \in Nat /\ Len(Schema[id]) >= 2
           /\ \A i \in 1..Len(Schema[id]) : Schema[id][i] \in Point
<1>1. Schema[id] \in Seq(Point) /\ Len(Schema[id]) >= 2
  BY SchemaAssumption DEF Point
<1> QED
  BY <1>1, ElementOfSeq, LenProperties

\* Points have the size of their type and no two the same name.
LEMMA PointFacts ==
    ASSUME NEW id \in DOMAIN Schema, NEW i \in 1..Len(Schema[id])
    PROVE  /\ Supported(Schema[id][i].dt) => Schema[id][i].size = Count(Schema[id][i].dt)
           /\ Schema[id][i].name # "" /\ Schema[id][i].sf \notin {"ID", "L"}
           /\ \A j \in 1..(i - 1) : Schema[id][j].name # Schema[id][i].name
  BY SchemaAssumption

\* A model begins with ID and L.
LEMMA HeaderFacts ==
    ASSUME NEW id \in DOMAIN Schema
    PROVE  /\ id \in 0..(EndMark - 1)
           /\ Schema[id][1].name = "ID" /\ Schema[id][2].name = "L"
           /\ \A i \in 1..2 : /\ Schema[id][i].dt = "uint16"
                              /\ Schema[id][i].size = 1 /\ Schema[id][i].sf = ""
           /\ ModelLength(id) < Modulus
  BY SchemaAssumption

\* A sequence without its first two members.
LEMMA FromThird ==
    ASSUME NEW S, NEW q \in Seq(S), Len(q) >= 2
    PROVE  /\ Len(SubSeq(q, 3, Len(q))) = Len(q) - 2
           /\ Len(SubSeq(q, 3, Len(q))) \in Nat
           /\ DOMAIN SubSeq(q, 3, Len(q)) = 1..Len(SubSeq(q, 3, Len(q)))
           /\ \A k \in 1..Len(SubSeq(q, 3, Len(q))) : SubSeq(q, 3, Len(q))[k] = q[k + 2]
<1> DEFINE n == Len(q)
           t == SubSeq(q, 3, n)
<1>1. n \in Nat /\ n >= 2 /\ 3 \in Int /\ n \in Int
  OBVIOUS
<1>2. \A i \in 3..n : q[i] \in S
  BY ElementOfSeq
<1> HIDE DEF n
<1>3. /\ t \in Seq(S)
      /\ Len(t) = IF 3 <= n THEN n - 3 + 1 ELSE 0
      /\ \A i \in 1..(n - 3 + 1) : t[i] = q[3 + i - 1]
  BY <1>1, <1>2, SubSeqProperties
<1> HIDE DEF t
<1>4. Len(t) = n - 2 /\ Len(t) \in Nat
  BY <1>1, <1>3
<1>5. DOMAIN t = 1..Len(t)
  BY <1>3
<1>6. \A k \in 1..Len(t) : t[k] = q[k + 2]
  <2> TAKE k \in 1..Len(t)
  <2>1. k \in 1..(n - 3 + 1) /\ 3 + k - 1 = k + 2
    BY <1>1, <1>4
  <2> QED
    BY <1>3, <2>1
<1> QED
  BY <1>4, <1>5, <1>6 DEF t, n

\* Points leaves out ID and L.
LEMMA PointsIs ==
    ASSUME NEW id \in DOMAIN Schema
    PROVE  /\ Len(Points(id)) = Len(Schema[id]) - 2
           /\ Len(Points(id)) \in Nat
           /\ DOMAIN Points(id) = 1..Len(Points(id))
           /\ \A k \in 1..Len(Points(id)) : Points(id)[k] = Schema[id][k + 2]
<1>1. Schema[id] \in Seq(Point) /\ Len(Schema[id]) >= 2
  BY SchemaAssumption DEF Point
<1> QED
  BY <1>1, FromThird DEF Points

\* Offset adds up the sizes of the points before.
LEMMA OffsetIs ==
    ASSUME NEW id \in DOMAIN Schema
    PROVE  /\ Offset(id, 1) = 0
           /\ \A k \in 1..(Len(Points(id)) + 1) : Offset(id, k) \in Nat
           /\ \A k \in 1..Len(Points(id)) : Offset(id, k + 1) = Offset(id, k) + Points(id)[k].size
           /\ ModelLength(id) = Offset(id, Len(Points(id)) + 1)
           /\ ModelLength(id) \in Nat
<1> DEFINE n == Len(Points(id))
           size(i) == Points(id)[i].size
           step == [y \in (1..n) \X Nat |-> y[2] + size(y[1])]
           Is(f) == f = [i \in 0..n |-> IF i = 0 THEN 0 ELSE f[i - 1] + Points(id)[i].size]
           words == CHOOSE f : Is(f)
<1>1. n \in Nat
  BY PointsIs
<1>2. \A i \in 1..n : size(i) \in Nat
  <2> TAKE i \in 1..n
  <2>1. Points(id)[i] = Schema[id][i + 2] /\ i + 2 \in 1..Len(Schema[id])
    BY PointsIs, PointType
  <2>2. Schema[id][i + 2] \in Point
    BY <2>1, PointType
  <2> QED
    BY <2>1, <2>2 DEF Point
<1>3. \A k : Offset(id, k) = words[k - 1]
  BY DEF Offset
<1> HIDE DEF n, size
<1>4. step \in [(1..n) \X Nat -> Nat]
  BY <1>2
<1>5. \A i \in 1..n : \A y \in Nat : step[<<i, y>>] = y + size(i) /\ y + size(i) \in Nat
  BY <1>2
<1> HIDE DEF step
<1>6. PICK g \in [0..n -> Nat] : Loop(g, n, 0, step)
  BY <1>1, <1>4, LoopEnds
<1>7. Is(g)
  <2>1. ASSUME NEW i \in 0..n
        PROVE  g[i] = IF i = 0 THEN 0 ELSE g[i - 1] + size(i)
    <3>1. CASE i = 0
      BY <1>6, <3>1 DEF Loop
    <3>2. CASE i # 0
      <4>1. i \in 1..n /\ i - 1 \in 0..n
        BY <1>1, <3>2
      <4>2. g[i - 1] \in Nat
        BY <4>1
      <4> QED
        BY <1>5, <1>6, <3>2, <4>1, <4>2 DEF Loop
    <3> QED
      BY <3>1, <3>2
  <2> QED
    BY <2>1 DEF size
<1>8. Is(words)
  <2> HIDE DEF Is
  <2> QED
    BY <1>7
<1> HIDE DEF words
<1>9. words[0] = 0 /\ \A i \in 1..n : words[i] = words[i - 1] + size(i)
  BY <1>1, <1>8 DEF size
<1>10. \A i \in 0..n : words[i] \in Nat
  <2>1. \A i \in 1..n : words[i - 1] \in Nat => words[i] \in Nat
    BY <1>5, <1>9
  <2>2. words[0] \in Nat
    BY <1>9
  <2> QED
    BY <1>1, <2>1, <2>2, LoopKeeps
<1>11. ASSUME NEW k \in 1..n
       PROVE  Offset(id, k + 1) = Offset(id, k) + size(k)
  <2>1. Offset(id, k + 1) = words[k] /\ Offset(id, k) = words[k - 1]
    BY <1>1, <1>3
  <2> QED
    BY <1>9, <2>1
<1>12. ASSUME NEW k \in 1..(n + 1)
       PROVE  Offset(id, k) \in Nat
  <2>1. k - 1 \in 0..n
    BY <1>1
  <2> QED
    BY <1>3, <1>10, <2>1
<1>13. Offset(id, 1) = 0
  BY <1>3, <1>9
<1>14. ModelLength(id) = Offset(id, n + 1)
  BY DEF ModelLength, n
<1> QED
  BY <1>1, <1>11, <1>12, <1>13, <1>14 DEF n, size

\* Words of a model before its j-th point, ID and L included.
Pos(id, j) == IF j <= 2 THEN j - 1 ELSE 2 + Offset(id, j - 2)

\* Pos adds up the sizes of all points before.
LEMMA PosIs ==
    ASSUME NEW id \in DOMAIN Schema
    PROVE  /\ Pos(id, 1) = 0 /\ Pos(id, 2) = 1
           /\ Pos(id, Len(Schema[id]) + 1) = 2 + ModelLength(id)
           /\ \A j \in 1..(Len(Schema[id]) + 1) : Pos(id, j) \in Nat
           /\ \A j \in 1..Len(Schema[id]) : Pos(id, j + 1) = Pos(id, j) + Schema[id][j].size
<1> DEFINE n == Len(Schema[id])
<1>1. n \in Nat /\ n >= 2 /\ Len(Points(id)) = n - 2
  BY PointType, PointsIs
<1>2. Pos(id, 1) = 0 /\ Pos(id, 2) = 1 /\ Pos(id, 3) = 2
  BY OffsetIs DEF Pos
<1>3. Pos(id, n + 1) = 2 + ModelLength(id)
  BY <1>1, OffsetIs DEF Pos
<1>4. ASSUME NEW j \in 1..(n + 1)
      PROVE  Pos(id, j) \in Nat
  BY <1>1, OffsetIs DEF Pos
<1>5. ASSUME NEW j \in 1..n
      PROVE  Pos(id, j + 1) = Pos(id, j) + Schema[id][j].size
  <2>1. CASE j \in 1..2
    <3>1. Schema[id][j].size = 1
      BY <2>1, HeaderFacts
    <3> QED
      BY <1>2, <2>1, <3>1
  <2>2. CASE j >= 3
    <3>1. j - 2 \in 1..Len(Points(id)) /\ j = (j - 2) + 2
      BY <1>1, <2>2
    <3>2. Points(id)[j - 2] = Schema[id][j]
      BY <3>1, PointsIs
    <3>3. Offset(id, (j - 2) + 1) = Offset(id, j - 2) + Points(id)[j - 2].size
      BY <3>1, OffsetIs
    <3>4. Pos(id, j) = 2 + Offset(id, j - 2) /\ Pos(id, j + 1) = 2 + Offset(id, (j - 2) + 1)
      BY <1>1, <2>2 DEF Pos
    <3>5. Offset(id, j - 2) \in Nat /\ Schema[id][j].size \in Nat
      BY <1>1, <3>1, OffsetIs, PointType DEF Point
    <3> DEFINE o == Offset(id, j - 2)
               z == Schema[id][j].size
    <3>6. Pos(id, j) = 2 + o /\ Pos(id, j + 1) = 2 + (o + z) /\ o \in Nat /\ z \in Nat
      BY <3>2, <3>3, <3>4, <3>5
    <3> HIDE DEF o, z
    <3>7. Pos(id, j + 1) = Pos(id, j) + z
      BY <3>6
    <3> QED
      BY <3>7 DEF z
  <2> QED
    BY <1>1, <2>1, <2>2
<1> QED
  BY <1>2, <1>3, <1>4, <1>5

-----------------------------------------------------------------------------
(* Configure: types.                                                       *)

Child == [name: STRING, tag: Tag \cup {"", "number"}, val: Int]
Model == [id: Int, children: Seq(Child)]

\* Models and elements of a configuration.
LEMMA ConfType ==
    ASSUME NEW c \in Configs
    PROVE  /\ Len(c) \in Nat
           /\ \A i \in 1..Len(c) : /\ c[i].id \in Int /\ c[i].children \in Seq(Child)
                                   /\ Len(c[i].children) \in Nat
                                   /\ \A j \in 1..Len(c[i].children) : c[i].children[j] \in Child
<1>1. c \in Seq(Model)
  BY ServerAssumption DEF Model, Child
<1>2. Len(c) \in Nat /\ \A i \in 1..Len(c) : c[i] \in Model
  BY <1>1, ElementOfSeq, LenProperties
<1>3. ASSUME NEW i \in 1..Len(c)
      PROVE  /\ c[i].id \in Int /\ c[i].children \in Seq(Child)
             /\ Len(c[i].children) \in Nat
             /\ \A j \in 1..Len(c[i].children) : c[i].children[j] \in Child
  <2>1. c[i].id \in Int /\ c[i].children \in Seq(Child)
    BY <1>2 DEF Model
  <2> QED
    BY <2>1, ElementOfSeq, LenProperties
<1> QED
  BY <1>2, <1>3

\* Functions on some members of D.
Partial(D, R) == UNION {[X -> R] : X \in SUBSET D}

\* Members of Partial.
LEMMA PartialIs ==
    ASSUME NEW D, NEW R, NEW f
    PROVE  f \in Partial(D, R) <=> /\ f = [x \in DOMAIN f |-> f[x]]
                                   /\ DOMAIN f \subseteq D
                                   /\ \A x \in DOMAIN f : f[x] \in R
<1>1. ASSUME f \in Partial(D, R)
      PROVE  /\ f = [x \in DOMAIN f |-> f[x]]
             /\ DOMAIN f \subseteq D
             /\ \A x \in DOMAIN f : f[x] \in R
  <2>1. PICK X \in SUBSET D : f \in [X -> R]
    BY <1>1 DEF Partial
  <2> QED
    BY <2>1
<1>2. ASSUME f = [x \in DOMAIN f |-> f[x]],
             DOMAIN f \subseteq D,
             \A x \in DOMAIN f : f[x] \in R
      PROVE  f \in Partial(D, R)
  <2>1. f \in [DOMAIN f -> R] /\ DOMAIN f \in SUBSET D
    BY <1>2
  <2> QED
    BY <2>1 DEF Partial
<1> QED
  BY <1>1, <1>2

\* A map stays one with an entry put into it.
LEMMA PutType ==
    ASSUME NEW D, NEW R, NEW f \in Partial(D, R), NEW x \in D, NEW y \in R
    PROVE  Put(f, x, y) \in Partial(D, R)
<1> DEFINE g == Put(f, x, y)
<1>1. DOMAIN f \subseteq D /\ \A z \in DOMAIN f : f[z] \in R
  BY PartialIs
<1>2. g = [z \in DOMAIN g |-> g[z]]
  BY DEF Put
<1>3. DOMAIN g = DOMAIN f \cup {x} /\ \A z \in DOMAIN g : g[z] \in R
  BY <1>1 DEF Put
<1> HIDE DEF g
<1>4. g \in Partial(D, R)
  BY <1>1, <1>2, <1>3, PartialIs
<1> QED
  BY <1>4 DEF g

\* A map stays one with an entry changed.
LEMMA ExceptType ==
    ASSUME NEW D, NEW R, NEW f \in Partial(D, R), NEW x, NEW y, x \in DOMAIN f => y \in R
    PROVE  [f EXCEPT ![x] = y] \in Partial(D, R)
<1> DEFINE g == [f EXCEPT ![x] = y]
<1>1. /\ f = [z \in DOMAIN f |-> f[z]]
      /\ DOMAIN f \subseteq D /\ \A z \in DOMAIN f : f[z] \in R
  BY PartialIs
<1>2. g = [z \in DOMAIN g |-> g[z]]
  BY <1>1
<1>3. DOMAIN g = DOMAIN f /\ \A z \in DOMAIN g : g[z] \in R
  BY <1>1
<1> HIDE DEF g
<1>4. g \in Partial(D, R)
  BY <1>1, <1>2, <1>3, PartialIs
<1> QED
  BY <1>4 DEF g

Label == STRING \cup {"", "uint16", "uint32"}

Register == [dt: Label, model: Int, tag: Tag \cup {""}, scaling: Nat, sf: Label, start: Int]

Keys == SUBSET (Tag \cup {""})
Clean(keys) == "" \notin keys
Worded(c) == c.tag # ""

Device == [addr: Nat, ok: BOOLEAN, model1: BOOLEAN, tags: Keys, made: Partial(Nat, Register),
           registers: Partial(Nat, Nat), points: Partial(STRING, Nat)]

\* Adding a point keeps the types.
LEMMA AddPointType ==
    ASSUME NEW st \in Device, NEW id \in DOMAIN Schema, NEW p \in Point
    PROVE  AddPoint(st, id, p) \in Device
<1> DEFINE r == [dt |-> p.dt, model |-> id, tag |-> "",
                 scaling |-> IF p.sf = "number" THEN Abs(p.num) ELSE 0,
                 sf |-> IF p.sf = "number" THEN "" ELSE p.sf,
                 start |-> Unit * (CASE p.name = "ID" -> id
                                     [] p.name = "L" -> ModelLength(id)
                                     [] OTHER -> 0)]
<1>1. CASE ~st.ok \/ ~Supported(p.dt)
  <2>1. AddPoint(st, id, p) = [st EXCEPT !.ok = FALSE]
    BY <1>1 DEF AddPoint
  <2> QED
    BY <2>1 DEF Device
<1>2. CASE st.ok /\ Supported(p.dt)
  <2>1. id \in Int /\ ModelLength(id) \in Int /\ Unit \in Int
    <3>1. id \in 0..(EndMark - 1) /\ EndMark \in Int
      <4>1. id \in 0..(EndMark - 1)
        BY HeaderFacts, Zenon
      <4> QED
        BY <4>1, ModulusType DEF EndMark
    <3>2. ModelLength(id) \in Nat
      BY OffsetIs
    <3> QED
      BY <3>1, <3>2, ModulusType
  <2>2. r \in Register
    <3>1. r.start \in Int
      BY <2>1
    <3>2. r.scaling \in Nat
      BY DEF Abs, Point
    <3>3. r.dt \in Label /\ r.model \in Int
      BY <2>1 DEF Point, Label
    <3>4. r.sf \in Label
      <4>1. "" \in Label /\ p.sf \in Label
        BY DEF Point, Label
      <4>2. r.sf = "" \/ r.sf = p.sf
        OBVIOUS
      <4> HIDE DEF r
      <4> QED
        BY <4>1, <4>2, Zenon
    <3> QED
      BY <3>1, <3>2, <3>3, <3>4 DEF Register
  <2>3. AddPoint(st, id, p)
           = [st EXCEPT !.made = Put(@, st.addr, r), !.registers = Put(@, st.addr, st.addr),
                        !.points = Put(@, p.name, st.addr), !.addr = @ + p.size]
    BY <1>2 DEF AddPoint
  <2> HIDE DEF r
  <2>4. /\ Put(st.made, st.addr, r) \in Partial(Nat, Register)
        /\ Put(st.registers, st.addr, st.addr) \in Partial(Nat, Nat)
        /\ Put(st.points, p.name, st.addr) \in Partial(STRING, Nat)
    BY <2>2, PutType DEF Device, Point
  <2>5. st.addr + p.size \in Nat
    BY DEF Device, Point
  <2> QED
    BY <2>3, <2>4, <2>5 DEF Device
<1> QED
  BY <1>1, <1>2

\* Adding an element keeps the types.
LEMMA AddChildType ==
    ASSUME NEW st \in Device, NEW c \in Child
    PROVE  AddChild(st, c) \in Device
<1>1. CASE ~st.ok \/ c.name \notin DOMAIN st.points
  <2>1. AddChild(st, c) = [st EXCEPT !.ok = FALSE]
    BY <1>1 DEF AddChild
  <2> QED
    BY <2>1 DEF Device
<1>2. CASE st.ok /\ c.name \in DOMAIN st.points
  <2> DEFINE h == st.points[c.name]
             r == st.made[h]
             y == IF r.dt \in Text THEN r
                  ELSE IF c.tag = "number" THEN [r EXCEPT !.start = c.val]
                  ELSE [r EXCEPT !.tag = c.tag]
             z == IF r.dt \in Text \/ c.tag = "number" THEN st.tags ELSE st.tags \cup {c.tag}
  <2>1. AddChild(st, c) = [st EXCEPT !.made[h] = y, !.tags = z, !.registers = Put(@, st.addr, h)]
    BY <1>2 DEF AddChild, Device
  <2>5. z \in Keys
    BY DEF Device, Child, Keys
  <2>2. h \in Nat
    BY <1>2, PartialIs DEF Device
  <2>3. h \in DOMAIN st.made => y \in Register
    <3>1. h \in DOMAIN st.made => r \in Register
      BY PartialIs DEF Device
    <3> HIDE DEF r
    <3> QED
      BY <3>1 DEF Register, Child
  <2> HIDE DEF h, y, z
  <2>4. /\ [st.made EXCEPT ![h] = y] \in Partial(Nat, Register)
        /\ Put(st.registers, st.addr, h) \in Partial(Nat, Nat)
    BY <2>2, <2>3, PutType, ExceptType DEF Device
  <2> QED
    BY <2>1, <2>4, <2>5 DEF Device
<1> QED
  BY <1>1, <1>2

\* The loops of Configure: what they have after i turns.
LEMMA AddPointsIs ==
    ASSUME NEW st \in Device, NEW id \in DOMAIN Schema
    PROVE  \E g \in [0..Len(Schema[id]) -> Device] :
              /\ g[0] = st /\ \A i \in 1..Len(Schema[id]) : g[i] = AddPoint(g[i - 1], id, Schema[id][i])
              /\ AddPoints(st, id) = g[Len(Schema[id])]
<1> DEFINE n == Len(Schema[id])
           step == [y \in (1..n) \X Device |-> AddPoint(y[2], id, Schema[id][y[1]])]
           Is(f) == f = [i \in 0..n |-> IF i = 0 THEN st ELSE AddPoint(f[i - 1], id, Schema[id][i])]
           after == CHOOSE f : Is(f)
<1>1. n \in Nat /\ st \in Device
  BY PointType
<1>2. \A i \in 1..n : \A y \in Device : AddPoint(y, id, Schema[id][i]) \in Device
  BY PointType, AddPointType
<1>3. AddPoints(st, id) = after[n]
  BY DEF AddPoints
<1> HIDE DEF n
<1>4. step \in [(1..n) \X Device -> Device]
  BY <1>2
<1>5. \A i \in 1..n : \A y \in Device : step[<<i, y>>] = AddPoint(y, id, Schema[id][i])
  OBVIOUS
<1> HIDE DEF step
<1>6. PICK g \in [0..n -> Device] : Loop(g, n, st, step)
  BY <1>1, <1>4, LoopEnds
<1>7. Is(g)
  <2>1. ASSUME NEW i \in 0..n
        PROVE  g[i] = IF i = 0 THEN st ELSE AddPoint(g[i - 1], id, Schema[id][i])
    <3>1. CASE i = 0
      BY <1>6, <3>1 DEF Loop
    <3>2. CASE i # 0
      <4>1. i \in 1..n /\ i - 1 \in 0..n
        BY <1>1, <3>2
      <4>2. g[i - 1] \in Device
        BY <4>1
      <4>3. g[i] = step[<<i, g[i - 1]>>]
        BY <1>6, <4>1 DEF Loop
      <4> QED
        BY <1>5, <3>2, <4>1, <4>2, <4>3
    <3> QED
      BY <3>1, <3>2
  <2> QED
    BY <2>1
<1>8. Is(after)
  <2> HIDE DEF Is
  <2> QED
    BY <1>7
<1> HIDE DEF after
<1>9. /\ after = [i \in 0..n |-> after[i]] /\ after[0] = st
      /\ \A i \in 1..n : after[i] = AddPoint(after[i - 1], id, Schema[id][i])
  <2>1. after = [i \in 0..n |-> after[i]] /\ after[0] = st
    BY <1>1, <1>8
  <2>2. ASSUME NEW i \in 1..n
        PROVE  after[i] = AddPoint(after[i - 1], id, Schema[id][i])
    <3>1. i \in 0..n /\ i # 0
      BY <1>1
    <3> QED
      BY <1>8, <3>1
  <2> QED
    BY <2>1, <2>2
<1>10. after \in [0..n -> Device]
  <2>1. \A i \in 1..n : after[i - 1] \in Device => after[i] \in Device
    BY <1>2, <1>9
  <2>2. after[0] \in Device
    BY <1>1, <1>9
  <2>3. \A i \in 0..n : after[i] \in Device
    BY <1>1, <2>1, <2>2, LoopKeeps
  <2> QED
    BY <1>9, <2>3
<1> QED
  BY <1>3, <1>9, <1>10 DEF n

\* The loop over the elements of a model.
LEMMA AddChildrenIs ==
    ASSUME NEW st \in Device, NEW children \in Seq(Child)
    PROVE  \E g \in [0..Len(children) -> Device] :
              /\ g[0] = st /\ \A i \in 1..Len(children) : g[i] = AddChild(g[i - 1], children[i])
              /\ AddChildren(st, children) = g[Len(children)]
<1> DEFINE n == Len(children)
           step == [y \in (1..n) \X Device |-> AddChild(y[2], children[y[1]])]
           Is(f) == f = [i \in 0..n |-> IF i = 0 THEN st ELSE AddChild(f[i - 1], children[i])]
           after == CHOOSE f : Is(f)
<1>1. n \in Nat /\ st \in Device
  OBVIOUS
<1>2. \A i \in 1..n : \A y \in Device : AddChild(y, children[i]) \in Device
  BY AddChildType, ElementOfSeq
<1>3. AddChildren(st, children) = after[n]
  BY DEF AddChildren
<1> HIDE DEF n
<1>4. step \in [(1..n) \X Device -> Device]
  BY <1>2
<1>5. \A i \in 1..n : \A y \in Device : step[<<i, y>>] = AddChild(y, children[i])
  OBVIOUS
<1> HIDE DEF step
<1>6. PICK g \in [0..n -> Device] : Loop(g, n, st, step)
  BY <1>1, <1>4, LoopEnds
<1>7. Is(g)
  <2>1. ASSUME NEW i \in 0..n
        PROVE  g[i] = IF i = 0 THEN st ELSE AddChild(g[i - 1], children[i])
    <3>1. CASE i = 0
      BY <1>6, <3>1 DEF Loop
    <3>2. CASE i # 0
      <4>1. i \in 1..n /\ i - 1 \in 0..n
        BY <1>1, <3>2
      <4>2. g[i - 1] \in Device
        BY <4>1
      <4>3. g[i] = step[<<i, g[i - 1]>>]
        BY <1>6, <4>1 DEF Loop
      <4> QED
        BY <1>5, <3>2, <4>1, <4>2, <4>3
    <3> QED
      BY <3>1, <3>2
  <2> QED
    BY <2>1
<1>8. Is(after)
  <2> HIDE DEF Is
  <2> QED
    BY <1>7
<1> HIDE DEF after
<1>9. /\ after = [i \in 0..n |-> after[i]] /\ after[0] = st
      /\ \A i \in 1..n : after[i] = AddChild(after[i - 1], children[i])
  <2>1. after = [i \in 0..n |-> after[i]] /\ after[0] = st
    BY <1>1, <1>8
  <2>2. ASSUME NEW i \in 1..n
        PROVE  after[i] = AddChild(after[i - 1], children[i])
    <3>1. i \in 0..n /\ i # 0
      BY <1>1
    <3> QED
      BY <1>8, <3>1
  <2> QED
    BY <2>1, <2>2
<1>10. after \in [0..n -> Device]
  <2>1. \A i \in 1..n : after[i - 1] \in Device => after[i] \in Device
    BY <1>2, <1>9
  <2>2. after[0] \in Device
    BY <1>1, <1>9
  <2>3. \A i \in 0..n : after[i] \in Device
    BY <1>1, <2>1, <2>2, LoopKeeps
  <2> QED
    BY <1>9, <2>3
<1> QED
  BY <1>3, <1>9, <1>10 DEF n

\* Adding a model keeps the types.
LEMMA AddModelType ==
    ASSUME NEW st \in Device, NEW m \in Model
    PROVE  AddModel(st, m) \in Device
<1>1. CASE m.id \notin DOMAIN Schema
  <2>1. AddModel(st, m) = [st EXCEPT !.ok = FALSE]
    BY <1>1 DEF AddModel
  <2> QED
    BY <2>1 DEF Device
<1>2. CASE m.id \in DOMAIN Schema
  <2> DEFINE p == AddPoints(st, m.id)
             q == AddChildren(p, m.children)
  <2>1. p \in Device
    <3>1. PICK g \in [0..Len(Schema[m.id]) -> Device] : p = g[Len(Schema[m.id])]
      BY <1>2, AddPointsIs
    <3> QED
      BY <1>2, <3>1, PointType
  <2>2. q \in Device
    <3>1. m.children \in Seq(Child)
      BY DEF Model
    <3> HIDE DEF p
    <3>2. PICK g \in [0..Len(m.children) -> Device] : q = g[Len(m.children)]
      BY <2>1, <3>1, AddChildrenIs
    <3> QED
      BY <3>1, <3>2
  <2>3. AddModel(st, m) = [q EXCEPT !.model1 = @ \/ m.id = 1]
    BY <1>2 DEF AddModel
  <2> HIDE DEF q
  <2> QED
    BY <2>2, <2>3 DEF Device
<1> QED
  BY <1>1, <1>2

\* The registers that belong to no model.
LEMMA StaticType ==
    /\ Static("uint32", SunS) \in Register
    /\ Static("uint16", EndMark) \in Register
    /\ Static("uint16", 0) \in Register
<1>1. SunS \in Int /\ Unit \in Int /\ EndMark \in Int
  <2>1. SunS \in 0..(Modulus * Modulus - 1)
    BY SchemaAssumption
  <2>2. Modulus * Modulus \in Int
    BY ModulusType
  <2> QED
    BY <2>1, <2>2, ModulusType DEF EndMark
<1>2. SunS * Unit \in Int /\ EndMark * Unit \in Int /\ 0 * Unit \in Int
  BY <1>1
<1> QED
  BY <1>2 DEF Static, Register, Label

\* The map Configure begins with.
LEMMA BlankType == Blank \in Device
<1>1. Identifier \in Nat /\ First \in Nat
  BY DEF Identifier, First
<1>2. Blank.made \in Partial(Nat, Register)
  <2> DEFINE f == [a \in {Identifier} |-> Static("uint32", SunS)]
  <2>1. f = [x \in DOMAIN f |-> f[x]] /\ DOMAIN f \subseteq Nat /\ \A x \in DOMAIN f : f[x] \in Register
    BY <1>1, StaticType
  <2>2. Blank.made = f
    BY DEF Blank
  <2> HIDE DEF f
  <2> QED
    BY <2>1, <2>2, PartialIs
<1>3. Blank.registers \in Partial(Nat, Nat)
  <2> DEFINE f == [a \in {Identifier} |-> a]
  <2>1. f = [x \in DOMAIN f |-> f[x]] /\ DOMAIN f \subseteq Nat /\ \A x \in DOMAIN f : f[x] \in Nat
    BY <1>1
  <2>2. Blank.registers = f
    BY DEF Blank
  <2> HIDE DEF f
  <2> QED
    BY <2>1, <2>2, PartialIs
<1>4. Blank.points \in Partial(STRING, Nat)
  <2> DEFINE f == [n \in {} |-> 0]
  <2>1. f = [x \in DOMAIN f |-> f[x]] /\ DOMAIN f \subseteq STRING /\ \A x \in DOMAIN f : f[x] \in Nat
    OBVIOUS
  <2>2. Blank.points = f
    BY DEF Blank
  <2> HIDE DEF f
  <2> QED
    BY <2>1, <2>2, PartialIs
<1>5. Blank.tags \in Keys
  BY DEF Blank, Keys
<1> QED
  BY <1>1, <1>2, <1>3, <1>4, <1>5 DEF Blank, Device

\* The loop over the models.
LEMMA AddModelsIs ==
    ASSUME NEW c \in Configs
    PROVE  \E g \in [0..Len(c) -> Device] :
              /\ g[0] = Blank /\ \A i \in 1..Len(c) : g[i] = AddModel(g[i - 1], c[i])
              /\ AddModels(c) = g[Len(c)]
<1> DEFINE n == Len(c)
           step == [y \in (1..n) \X Device |-> AddModel(y[2], c[y[1]])]
           Is(f) == f = [i \in 0..n |-> IF i = 0 THEN Blank ELSE AddModel(f[i - 1], c[i])]
           after == CHOOSE f : Is(f)
<1>1. n \in Nat /\ Blank \in Device
  BY ConfType, BlankType
<1>2. \A i \in 1..n : \A y \in Device : AddModel(y, c[i]) \in Device
  <2>1. c \in Seq(Model)
    BY ServerAssumption DEF Model, Child
  <2> QED
    BY <2>1, AddModelType, ElementOfSeq
<1>3. AddModels(c) = after[n]
  BY DEF AddModels
<1> HIDE DEF n
<1>4. step \in [(1..n) \X Device -> Device]
  BY <1>2
<1>5. \A i \in 1..n : \A y \in Device : step[<<i, y>>] = AddModel(y, c[i])
  OBVIOUS
<1> HIDE DEF step
<1>6. PICK g \in [0..n -> Device] : Loop(g, n, Blank, step)
  BY <1>1, <1>4, LoopEnds
<1>7. Is(g)
  <2>1. ASSUME NEW i \in 0..n
        PROVE  g[i] = IF i = 0 THEN Blank ELSE AddModel(g[i - 1], c[i])
    <3>1. CASE i = 0
      BY <1>6, <3>1 DEF Loop
    <3>2. CASE i # 0
      <4>1. i \in 1..n /\ i - 1 \in 0..n
        BY <1>1, <3>2
      <4>2. g[i - 1] \in Device
        BY <4>1
      <4>3. g[i] = step[<<i, g[i - 1]>>]
        BY <1>6, <4>1 DEF Loop
      <4> QED
        BY <1>5, <3>2, <4>1, <4>2, <4>3
    <3> QED
      BY <3>1, <3>2
  <2> QED
    BY <2>1
<1>8. Is(after)
  <2> HIDE DEF Is
  <2> QED
    BY <1>7
<1> HIDE DEF after
<1>9. /\ after = [i \in 0..n |-> after[i]] /\ after[0] = Blank
      /\ \A i \in 1..n : after[i] = AddModel(after[i - 1], c[i])
  <2>1. after = [i \in 0..n |-> after[i]] /\ after[0] = Blank
    BY <1>1, <1>8
  <2>2. ASSUME NEW i \in 1..n
        PROVE  after[i] = AddModel(after[i - 1], c[i])
    <3>1. i \in 0..n /\ i # 0
      BY <1>1
    <3> QED
      BY <1>8, <3>1
  <2> QED
    BY <2>1, <2>2
<1>10. after \in [0..n -> Device]
  <2>1. \A i \in 1..n : after[i - 1] \in Device => after[i] \in Device
    BY <1>2, <1>9
  <2>2. after[0] \in Device
    BY <1>1, <1>9
  <2>3. \A i \in 0..n : after[i] \in Device
    BY <1>1, <2>1, <2>2, LoopKeeps
  <2> QED
    BY <1>9, <2>3
<1> QED
  BY <1>3, <1>9, <1>10 DEF n

-----------------------------------------------------------------------------
(* Configure: the layout.                                                  *)

\* Registers lie one behind the other, the last one before top.
Row(made, top) ==
    /\ \A a \in DOMAIN made :
          /\ a \in Nat /\ Supported(made[a].dt)
          /\ a + Count(made[a].dt) <= top
          /\ a + Count(made[a].dt) \in DOMAIN made \cup {top}
    /\ \A a, b \in DOMAIN made : a < b => a + Count(made[a].dt) <= b

\* A register is put behind the last one.
LEMMA RowPut ==
    ASSUME NEW made, NEW top \in Nat, Row(made, top), NEW r, Supported(r.dt)
    PROVE  /\ \A a \in DOMAIN made : a < top
           /\ Row(Put(made, top, r), top + Count(r.dt))
<1> DEFINE new == Put(made, top, r)
           count(a) == Count(made[a].dt)
           n == Count(r.dt)
<1>1. n \in Nat \ {0}
  BY CountType
<1>2. \A a \in DOMAIN made : /\ a \in Nat /\ Supported(made[a].dt) /\ count(a) \in Nat \ {0}
                             /\ a + count(a) <= top
                             /\ a + count(a) \in DOMAIN made \cup {top}
  BY CountType DEF Row
<1>3. \A a, b \in DOMAIN made : a < b => a + count(a) <= b
  BY DEF Row
<1>4. \A a \in DOMAIN made : a < top
  <2> HIDE DEF count
  <2> QED
    BY <1>2
<1>5. /\ DOMAIN new = DOMAIN made \cup {top}
      /\ new[top] = r
      /\ \A a \in DOMAIN made : new[a] = made[a]
  <2>1. \A a \in DOMAIN made : a # top
    BY <1>2, <1>4
  <2> QED
    BY <2>1 DEF Put
<1> HIDE DEF new, n
<1>6. ASSUME NEW a \in DOMAIN new
      PROVE  /\ a \in Nat /\ Supported(new[a].dt)
             /\ a + Count(new[a].dt) <= top + n
             /\ a + Count(new[a].dt) \in DOMAIN new \cup {top + n}
  <2>1. CASE a = top
    BY <1>1, <1>5, <2>1 DEF n
  <2>2. CASE a \in DOMAIN made
    <3>1. new[a] = made[a]
      BY <1>5, <2>2
    <3>2. Count(new[a].dt) = count(a)
      BY <3>1
    <3> HIDE DEF count
    <3> QED
      BY <1>1, <1>2, <1>5, <2>2, <3>1, <3>2
  <2> QED
    BY <1>5, <2>1, <2>2
<1>7. ASSUME NEW a \in DOMAIN new, NEW b \in DOMAIN new, a < b
      PROVE  a + Count(new[a].dt) <= b
  <2>1. a \in DOMAIN made
    BY <1>2, <1>4, <1>5, <1>7
  <2>2. Count(new[a].dt) = count(a)
    BY <1>5, <2>1
  <2> HIDE DEF count
  <2> QED
    BY <1>2, <1>3, <1>5, <1>7, <2>1, <2>2
<1> QED
  BY <1>4, <1>6, <1>7 DEF Row, new, n

\* The data of a register does not move it.
LEMMA RowSame ==
    ASSUME NEW made, NEW top, Row(made, top), NEW new, DOMAIN new = DOMAIN made,
           \A a \in DOMAIN made : new[a].dt = made[a].dt
    PROVE  Row(new, top)
  BY DEF Row

\* The register of point p of model id, as far as elements leave it alone.
Matches(r, id, p) ==
    /\ r.dt = p.dt
    /\ r.sf = IF p.sf = "number" THEN "" ELSE p.sf
    /\ p.sf # "number" => r.scaling = 0
    /\ p.name = "ID" => r.tag = "" /\ r.start = Unit * id
    /\ p.name = "L" => r.tag = "" /\ r.start = Unit * ModelLength(id)

PointOf(i, j) == Schema[Ids[i]][j]
PointAt(i, j) == ModelAt(i) + Pos(Ids[i], j)

\* What has been laid out when the points Q of the models have been added.
Laid(st, Q) ==
    /\ Row(st.made, st.addr)
    /\ Identifier \in DOMAIN st.made
    /\ st.made[Identifier] = Static("uint32", SunS)
    /\ \A a \in DOMAIN st.made : a = Identifier \/ \E q \in Q : a = PointAt(q[1], q[2])
    /\ \A q \in Q : /\ PointAt(q[1], q[2]) \in DOMAIN st.made \ {Identifier}
                    /\ Matches(st.made[PointAt(q[1], q[2])], Ids[q[1]], PointOf(q[1], q[2]))
                    /\ PointOf(q[1], q[2]).name \in DOMAIN st.points
    /\ \A q, p \in Q : PointAt(q[1], q[2]) = PointAt(p[1], p[2])
                          => PointOf(q[1], q[2]).name = PointOf(p[1], p[2]).name
    /\ \A n \in DOMAIN st.points :
          \E q \in Q : PointAt(q[1], q[2]) = st.points[n] /\ PointOf(q[1], q[2]).name = n
    /\ DOMAIN st.made \subseteq DOMAIN st.registers
    /\ DOMAIN st.registers \subseteq DOMAIN st.made \cup {st.addr}
    /\ \A a \in DOMAIN st.made : st.registers[a] = a
    /\ Clean(st.tags)

\* A point of a model.
LEMMA LaidPoint ==
    ASSUME NEW st \in Device, NEW Q, NEW i, NEW j, Ids[i] \in DOMAIN Schema,
           j \in 1..Len(Schema[Ids[i]]), st.ok => Laid(st, Q) /\ st.addr = PointAt(i, j),
           NEW new, new = AddPoint(st, Ids[i], PointOf(i, j)), new.ok,
           NEW R, R = Q \cup {<<i, j>>}
    PROVE  Laid(new, R) /\ new.addr = st.addr + PointOf(i, j).size
<1> DEFINE id == Ids[i]
           p == PointOf(i, j)
           top == st.addr
           r == [dt |-> p.dt, model |-> id, tag |-> "",
                 scaling |-> IF p.sf = "number" THEN Abs(p.num) ELSE 0,
                 sf |-> IF p.sf = "number" THEN "" ELSE p.sf,
                 start |-> Unit * (CASE p.name = "ID" -> id
                                     [] p.name = "L" -> ModelLength(id)
                                     [] OTHER -> 0)]
<1>1. st.ok /\ Supported(p.dt)
  <2> SUFFICES ASSUME ~st.ok \/ ~Supported(p.dt)
               PROVE  FALSE
    OBVIOUS
  <2>1. new = [st EXCEPT !.ok = FALSE]
    BY DEF AddPoint
  <2> QED
    BY <2>1 DEF Device
<1>2. new = [st EXCEPT !.made = Put(@, top, r), !.registers = Put(@, top, top),
                       !.points = Put(@, p.name, top), !.addr = @ + p.size]
  BY <1>1 DEF AddPoint
<1>3. /\ new.made = Put(st.made, top, r)
      /\ new.registers = Put(st.registers, top, top)
      /\ new.points = Put(st.points, p.name, top)
      /\ new.addr = top + p.size /\ new.tags = st.tags
  <2> HIDE DEF r, p
  <2> QED
    BY <1>2 DEF Device
<1>4. Laid(st, Q)
  BY <1>1
<1>5. p.size = Count(p.dt) /\ top \in Nat /\ r.dt = p.dt
  BY <1>1, PointFacts DEF PointOf, Device
<1>6. /\ \A a \in DOMAIN st.made : a < top
      /\ Row(new.made, new.addr)
  <2>1. Row(st.made, top) /\ Supported(r.dt)
    BY <1>1, <1>4 DEF Laid
  <2>2. /\ \A a \in DOMAIN st.made : a < top
        /\ Row(Put(st.made, top, r), top + Count(r.dt))
    <3> HIDE DEF r, top
    <3> QED
      BY <1>5, <2>1, RowPut
  <2> QED
    BY <1>3, <1>5, <2>2
<1>7. Matches(r, id, p)
  BY DEF Matches
<1>8. /\ DOMAIN new.made = DOMAIN st.made \cup {top} /\ new.made[top] = r
      /\ \A a \in DOMAIN st.made : new.made[a] = st.made[a]
  <2> HIDE DEF r
  <2>1. \A a \in DOMAIN st.made : a \in Nat
    BY <1>4 DEF Laid, Row
  <2> HIDE DEF top
  <2>2. \A a \in DOMAIN st.made : a # top
    BY <1>5, <1>6, <2>1
  <2>3. /\ DOMAIN Put(st.made, top, r) = DOMAIN st.made \cup {top}
        /\ Put(st.made, top, r)[top] = r
        /\ \A a \in DOMAIN st.made : a # top => Put(st.made, top, r)[a] = st.made[a]
    BY DEF Put
  <2> QED
    BY <1>3, <2>2, <2>3, Zenon
<1>9. /\ DOMAIN new.registers = DOMAIN st.registers \cup {top} /\ new.registers[top] = top
      /\ \A a \in DOMAIN st.registers : a # top => new.registers[a] = st.registers[a]
  <2> HIDE DEF top, r, p
  <2> QED
    BY <1>3 DEF Put
<1>10. /\ DOMAIN new.points = DOMAIN st.points \cup {p.name} /\ new.points[p.name] = top
       /\ \A n \in DOMAIN st.points : n # p.name => new.points[n] = st.points[n]
  <2> HIDE DEF top, r, p
  <2> QED
    BY <1>3 DEF Put
<1>11. top \notin DOMAIN st.made /\ Identifier \in DOMAIN st.made /\ top # Identifier
  <2>1. Identifier \in DOMAIN st.made
    BY <1>4 DEF Laid
  <2>2. top \notin DOMAIN st.made
    <3> HIDE DEF top
    <3> QED
      BY <1>5, <1>6
  <2> QED
    BY <2>1, <2>2
<1>12. PointAt(i, j) = top
  BY <1>1
<1> HIDE DEF r, top, p
<1>13. new.made[Identifier] = Static("uint32", SunS)
  BY <1>4, <1>8, <1>11 DEF Laid
<1>14. \A a \in DOMAIN new.made : a = Identifier \/ \E q \in R : a = PointAt(q[1], q[2])
  <2>1. \E q \in R : top = PointAt(q[1], q[2])
    <3> DEFINE q == <<i, j>>
    <3>1. q \in R /\ q[1] = i /\ q[2] = j
      OBVIOUS
    <3> HIDE DEF q
    <3> QED
      BY <1>12, <3>1
  <2> QED
    BY <1>4, <1>8, <2>1 DEF Laid
<1>15. ASSUME NEW q \in R
       PROVE  /\ PointAt(q[1], q[2]) \in DOMAIN new.made \ {Identifier}
              /\ Matches(new.made[PointAt(q[1], q[2])], Ids[q[1]], PointOf(q[1], q[2]))
              /\ PointOf(q[1], q[2]).name \in DOMAIN new.points
  <2>1. CASE q \in Q
    BY <1>4, <1>8, <1>10, <2>1 DEF Laid
  <2>2. CASE q = <<i, j>>
    <3>1. q[1] = i /\ q[2] = j
      BY <2>2
    <3> QED
      BY <1>7, <1>8, <1>10, <1>11, <1>12, <3>1 DEF p
  <2> QED
    BY <2>1, <2>2
<1>16. ASSUME NEW q \in R, NEW s \in R, PointAt(q[1], q[2]) = PointAt(s[1], s[2])
       PROVE  PointOf(q[1], q[2]).name = PointOf(s[1], s[2]).name
  <2>1. ASSUME NEW x \in R, PointAt(x[1], x[2]) = top
        PROVE  x[1] = i /\ x[2] = j
    <3>1. x \notin Q
      BY <1>4, <1>11, <2>1 DEF Laid
    <3> QED
      BY <3>1
  <2>2. CASE q \in Q /\ s \in Q
    BY <1>4, <1>16, <2>2 DEF Laid
  <2>3. CASE q = <<i, j>> \/ s = <<i, j>>
    <3>1. PointAt(q[1], q[2]) = top
      BY <1>12, <1>16, <2>3
    <3>2. q[1] = i /\ q[2] = j /\ s[1] = i /\ s[2] = j
      BY <1>16, <2>1, <3>1
    <3> QED
      BY <3>2
  <2> QED
    BY <2>2, <2>3
<1>17. ASSUME NEW n \in DOMAIN new.points
       PROVE  \E q \in R : PointAt(q[1], q[2]) = new.points[n] /\ PointOf(q[1], q[2]).name = n
  <2>1. CASE n = p.name
    <3> DEFINE q == <<i, j>>
    <3>1. q \in R /\ q[1] = i /\ q[2] = j
      OBVIOUS
    <3> HIDE DEF q
    <3> QED
      BY <1>10, <1>12, <2>1, <3>1 DEF p
  <2>2. CASE n # p.name
    BY <1>4, <1>10, <2>2 DEF Laid
  <2> QED
    BY <2>1, <2>2
<1>18. /\ DOMAIN new.made \subseteq DOMAIN new.registers
       /\ DOMAIN new.registers \subseteq DOMAIN new.made \cup {new.addr}
       /\ \A a \in DOMAIN new.made : new.registers[a] = a
  BY <1>4, <1>8, <1>9, <1>11 DEF Laid, top
<1>20. Clean(new.tags)
  BY <1>3, <1>4 DEF Laid
<1>19. Laid(new, R)
  BY <1>20, <1>6, <1>8, <1>11, <1>13, <1>14, <1>15, <1>16, <1>17, <1>18 DEF Laid
<1> QED
  BY <1>3, <1>19 DEF top, p

\* The next address is free.
LEMMA LaidBelow ==
    ASSUME NEW st \in Device, NEW Q, Laid(st, Q)
    PROVE  st.addr \notin DOMAIN st.made
<1>1. st.addr \in Nat
  BY DEF Device
<1>2. ASSUME st.addr \in DOMAIN st.made
      PROVE  FALSE
  <2> DEFINE n == Count(st.made[st.addr].dt)
  <2>1. n \in Nat \ {0} /\ st.addr + n <= st.addr
    BY <1>2, CountType DEF Laid, Row
  <2> HIDE DEF n
  <2> QED
    BY <1>1, <2>1
<1> QED
  BY <1>2

\* An element of a model.
LEMMA LaidChild ==
    ASSUME NEW st \in Device, NEW Q, st.ok => Laid(st, Q), NEW c \in Child,
           c.name \notin {"ID", "L"}, Worded(c), NEW new, new = AddChild(st, c), new.ok
    PROVE  Laid(new, Q) /\ new.addr = st.addr
<1>1. st.ok /\ c.name \in DOMAIN st.points
  <2> SUFFICES ASSUME ~st.ok \/ c.name \notin DOMAIN st.points
               PROVE  FALSE
    OBVIOUS
  <2>1. new = [st EXCEPT !.ok = FALSE]
    BY DEF AddChild
  <2> QED
    BY <2>1 DEF Device
<1> DEFINE h == st.points[c.name]
           r == st.made[h]
           y == IF r.dt \in Text THEN r
                ELSE IF c.tag = "number" THEN [r EXCEPT !.start = c.val]
                ELSE [r EXCEPT !.tag = c.tag]
           z == IF r.dt \in Text \/ c.tag = "number" THEN st.tags ELSE st.tags \cup {c.tag}
<1>2. new = [st EXCEPT !.made[h] = y, !.tags = z, !.registers = Put(@, st.addr, h)]
  BY <1>1 DEF AddChild, Device
<1> HIDE DEF z
<1>3. Laid(st, Q)
  BY <1>1
<1>4. PICK x \in Q : PointAt(x[1], x[2]) = h /\ PointOf(x[1], x[2]).name = c.name
  BY <1>1, <1>3 DEF Laid
<1>5. h \in DOMAIN st.made \ {Identifier}
  <2> HIDE DEF h
  <2> QED
    BY <1>3, <1>4 DEF Laid
<1>6. r \in Register
  BY <1>5, PartialIs DEF Device
<1> HIDE DEF h
<1>7. y.dt = r.dt /\ y.sf = r.sf /\ y.scaling = r.scaling
  <2> HIDE DEF r
  <2> QED
    BY <1>6 DEF Register
<1>17. Clean(z)
  <2>1. Clean(st.tags)
    BY <1>3 DEF Laid
  <2> QED
    BY <2>1 DEF Clean, Worded, z
<1> HIDE DEF y
<1>8. /\ new.made = [st.made EXCEPT ![h] = y] /\ new.tags = z
      /\ new.registers = Put(st.registers, st.addr, h)
      /\ new.points = st.points /\ new.addr = st.addr
  BY <1>2 DEF Device
<1>9. /\ DOMAIN new.made = DOMAIN st.made /\ new.made[h] = y
      /\ \A a \in DOMAIN st.made : a # h => new.made[a] = st.made[a]
  BY <1>5, <1>8
<1>10. /\ DOMAIN new.registers = DOMAIN st.registers \cup {st.addr}
       /\ \A a \in DOMAIN st.registers : a # st.addr => new.registers[a] = st.registers[a]
  BY <1>8 DEF Put
<1>11. st.addr \notin DOMAIN st.made
  BY <1>3, LaidBelow
<1>12. Row(new.made, new.addr)
  <2>1. Row(st.made, st.addr)
    BY <1>3 DEF Laid
  <2>2. \A a \in DOMAIN st.made : new.made[a].dt = st.made[a].dt
    BY <1>7, <1>9
  <2> QED
    BY <1>8, <1>9, <2>1, <2>2, RowSame
<1>13. ASSUME NEW q \in Q
       PROVE  Matches(new.made[PointAt(q[1], q[2])], Ids[q[1]], PointOf(q[1], q[2]))
  <2>1. /\ PointAt(q[1], q[2]) \in DOMAIN st.made
        /\ Matches(st.made[PointAt(q[1], q[2])], Ids[q[1]], PointOf(q[1], q[2]))
    BY <1>3 DEF Laid
  <2>2. CASE PointAt(q[1], q[2]) # h
    BY <1>9, <2>1, <2>2
  <2>3. CASE PointAt(q[1], q[2]) = h
    <3>1. PointOf(q[1], q[2]).name = c.name
      BY <1>3, <1>4, <2>3 DEF Laid
    <3>2. Matches(r, Ids[q[1]], PointOf(q[1], q[2]))
      BY <2>1, <2>3
    <3>3. Matches(y, Ids[q[1]], PointOf(q[1], q[2]))
      <4> HIDE DEF r
      <4> QED
        BY <1>7, <3>1, <3>2 DEF Matches
    <3> QED
      BY <1>9, <2>3, <3>3
  <2> QED
    BY <2>2, <2>3
<1>14. new.made[Identifier] = Static("uint32", SunS)
  BY <1>3, <1>5, <1>9 DEF Laid
<1>15. /\ DOMAIN new.made \subseteq DOMAIN new.registers
       /\ DOMAIN new.registers \subseteq DOMAIN new.made \cup {new.addr}
       /\ \A a \in DOMAIN new.made : new.registers[a] = a
  BY <1>3, <1>8, <1>9, <1>10, <1>11 DEF Laid
<1>16. Laid(new, Q)
  <2>1. /\ Identifier \in DOMAIN new.made
        /\ \A a \in DOMAIN new.made : a = Identifier \/ \E q \in Q : a = PointAt(q[1], q[2])
        /\ \A q, p \in Q : PointAt(q[1], q[2]) = PointAt(p[1], p[2])
                              => PointOf(q[1], q[2]).name = PointOf(p[1], p[2]).name
        /\ \A n \in DOMAIN new.points :
              \E q \in Q : PointAt(q[1], q[2]) = new.points[n] /\ PointOf(q[1], q[2]).name = n
    BY <1>3, <1>8, <1>9 DEF Laid
  <2>2. \A q \in Q : /\ PointAt(q[1], q[2]) \in DOMAIN new.made \ {Identifier}
                     /\ PointOf(q[1], q[2]).name \in DOMAIN new.points
    BY <1>3, <1>8, <1>9 DEF Laid
  <2> QED
    BY <1>8, <1>12, <1>13, <1>14, <1>15, <1>17, <2>1, <2>2 DEF Laid
<1> QED
  BY <1>8, <1>16

\* Every model of the configuration has a schema.
Named == \A i \in 1..Len(conf) : Ids[i] \in DOMAIN Schema

\* The models of the list follow each other.
LEMMA ModelAtIs ==
    ASSUME conf \in Configs, Named
    PROVE  /\ ModelAt(1) = First
           /\ \A i \in 1..(Len(conf) + 1) : ModelAt(i) \in Nat
           /\ \A i \in 1..Len(conf) : ModelAt(i + 1) = ModelAt(i) + 2 + ModelLength(Ids[i])
<1> DEFINE n == Len(conf)
           size(i) == 2 + ModelLength(Ids[i])
           step == [y \in (1..n) \X Nat |-> y[2] + 2 + ModelLength(Ids[y[1]])]
           Is(f) == f = [i \in 0..n |-> IF i = 0 THEN First ELSE f[i - 1] + 2 + ModelLength(Ids[i])]
           base == CHOOSE f : Is(f)
<1>1. n \in Nat /\ First \in Nat
  BY ConfType DEF First
<1>2. \A i \in 1..n : ModelLength(Ids[i]) \in Nat
  BY OffsetIs DEF Named
<1>3. \A k : ModelAt(k) = base[k - 1]
  BY DEF ModelAt
<1> HIDE DEF n
<1>4. step \in [(1..n) \X Nat -> Nat]
  BY <1>2
<1>5. \A i \in 1..n : \A y \in Nat : /\ step[<<i, y>>] = y + 2 + ModelLength(Ids[i])
                                     /\ y + 2 + ModelLength(Ids[i]) \in Nat
  BY <1>2
<1> HIDE DEF step
<1>6. PICK g \in [0..n -> Nat] : Loop(g, n, First, step)
  BY <1>1, <1>4, LoopEnds
<1>7. Is(g)
  <2>1. ASSUME NEW i \in 0..n
        PROVE  g[i] = IF i = 0 THEN First ELSE g[i - 1] + 2 + ModelLength(Ids[i])
    <3>1. CASE i = 0
      BY <1>6, <3>1 DEF Loop
    <3>2. CASE i # 0
      <4>1. i \in 1..n /\ i - 1 \in 0..n
        BY <1>1, <3>2
      <4>2. g[i - 1] \in Nat
        BY <4>1
      <4>3. g[i] = step[<<i, g[i - 1]>>]
        BY <1>6, <4>1 DEF Loop
      <4> QED
        BY <1>5, <3>2, <4>1, <4>2, <4>3
    <3> QED
      BY <3>1, <3>2
  <2> QED
    BY <2>1
<1>8. Is(base)
  <2> HIDE DEF Is
  <2> QED
    BY <1>7
<1> HIDE DEF base
<1>9. base[0] = First /\ \A i \in 1..n : base[i] = base[i - 1] + 2 + ModelLength(Ids[i])
  BY <1>1, <1>8
<1>10. \A i \in 0..n : base[i] \in Nat
  <2>1. \A i \in 1..n : base[i - 1] \in Nat => base[i] \in Nat
    BY <1>5, <1>9
  <2>2. base[0] \in Nat
    BY <1>1, <1>9
  <2> QED
    BY <1>1, <2>1, <2>2, LoopKeeps
<1>11. ASSUME NEW k \in 1..n
       PROVE  ModelAt(k + 1) = ModelAt(k) + 2 + ModelLength(Ids[k])
  <2>1. ModelAt(k + 1) = base[k] /\ ModelAt(k) = base[k - 1]
    BY <1>1, <1>3
  <2> QED
    BY <1>9, <2>1
<1>12. ASSUME NEW k \in 1..(n + 1)
       PROVE  ModelAt(k) \in Nat
  <2>1. k - 1 \in 0..n
    BY <1>1
  <2> QED
    BY <1>3, <1>10, <2>1
<1>13. ModelAt(1) = First
  BY <1>3, <1>9
<1> QED
  BY <1>11, <1>12, <1>13 DEF n

\* Points of the models before m and the first k points of model m.
Before(m, k) == {q \in (1..Len(conf)) \X Nat : /\ q[2] \in 1..Len(Schema[Ids[q[1]]])
                                               /\ q[1] < m \/ (q[1] = m /\ q[2] <= k)}

\* The next point.
LEMMA PointAtNext ==
    ASSUME conf \in Configs, Named, NEW i \in 1..Len(conf)
    PROVE  /\ PointAt(i, 1) = ModelAt(i) /\ PointAt(i, 2) = ModelAt(i) + 1
           /\ PointAt(i, Len(Schema[Ids[i]]) + 1) = ModelAt(i + 1)
           /\ \A j \in 1..(Len(Schema[Ids[i]]) + 1) : PointAt(i, j) \in Nat
           /\ \A j \in 1..Len(Schema[Ids[i]]) : PointAt(i, j + 1) = PointAt(i, j) + PointOf(i, j).size
<1>1. Ids[i] \in DOMAIN Schema /\ ModelAt(i) \in Nat /\ ModelAt(i + 1) = ModelAt(i) + 2 + ModelLength(Ids[i])
  <2>1. i \in 1..(Len(conf) + 1)
    BY ConfType
  <2> QED
    BY <2>1, ModelAtIs DEF Named
<1> DEFINE id == Ids[i]
           n == Len(Schema[id])
<1>2. /\ n \in Nat /\ n >= 2 /\ ModelLength(id) \in Nat
      /\ \A j \in 1..n : Schema[id][j].size \in Nat
  BY <1>1, PointType, OffsetIs DEF Point
<1>3. /\ Pos(id, 1) = 0 /\ Pos(id, 2) = 1
      /\ Pos(id, n + 1) = 2 + ModelLength(id)
      /\ \A j \in 1..(n + 1) : Pos(id, j) \in Nat
      /\ \A j \in 1..n : Pos(id, j + 1) = Pos(id, j) + Schema[id][j].size
  BY <1>1, PosIs
<1>4. \A j : PointAt(i, j) = ModelAt(i) + Pos(id, j) /\ PointOf(i, j) = Schema[id][j]
  BY DEF PointAt, PointOf
<1> HIDE DEF id
<1>5. \A j \in 1..n : j \in 1..(n + 1)
  BY <1>2
<1>6. ASSUME NEW j \in 1..n
      PROVE  PointAt(i, j + 1) = PointAt(i, j) + PointOf(i, j).size
  <2>1. PointAt(i, j + 1) = ModelAt(i) + Pos(id, j + 1) /\ PointAt(i, j) = ModelAt(i) + Pos(id, j)
    BY <1>4
  <2>2. Pos(id, j + 1) = Pos(id, j) + Schema[id][j].size /\ Pos(id, j) \in Nat /\ Schema[id][j].size \in Nat
    BY <1>2, <1>3, <1>5
  <2>3. PointOf(i, j) = Schema[id][j]
    BY <1>4
  <2> QED
    BY <1>1, <2>1, <2>2, <2>3
<1> QED
  BY <1>1, <1>2, <1>3, <1>4, <1>6 DEF id

\* A step of Configure that goes well continues one that went well.
LEMMA AddOk ==
    ASSUME NEW st \in Device
    PROVE  /\ \A id, p : AddPoint(st, id, p).ok => st.ok
           /\ \A c : AddChild(st, c).ok => st.ok
<1>1. [st EXCEPT !.ok = FALSE].ok = FALSE
  BY DEF Device
<1>2. \A id, p : ~st.ok => AddPoint(st, id, p) = [st EXCEPT !.ok = FALSE]
  BY DEF AddPoint
<1>3. \A c : ~st.ok => AddChild(st, c) = [st EXCEPT !.ok = FALSE]
  BY DEF AddChild
<1> QED
  BY <1>1, <1>2, <1>3

\* A model that is accepted has a schema.
LEMMA AddModelOk ==
    ASSUME NEW st \in Device, NEW m \in Model, AddModel(st, m).ok
    PROVE  /\ m.id \in DOMAIN Schema /\ st.ok
           /\ AddModel(st, m) = [AddChildren(AddPoints(st, m.id), m.children) EXCEPT !.model1 = @ \/ m.id = 1]
<1>1. m.id \in DOMAIN Schema
  <2> SUFFICES ASSUME m.id \notin DOMAIN Schema
               PROVE  FALSE
    OBVIOUS
  <2>1. AddModel(st, m) = [st EXCEPT !.ok = FALSE]
    BY DEF AddModel
  <2> QED
    BY <2>1 DEF Device
<1> DEFINE id == m.id
           n == Len(Schema[id])
           l == Len(m.children)
           p == AddPoints(st, id)
           q == AddChildren(p, m.children)
<1>2. AddModel(st, m) = [q EXCEPT !.model1 = @ \/ m.id = 1]
  BY <1>1 DEF AddModel
<1>3. n \in Nat
  BY <1>1, PointType
<1>4. PICK g \in [0..n -> Device] :
          /\ g[0] = st /\ \A i \in 1..n : g[i] = AddPoint(g[i - 1], id, Schema[id][i])
          /\ p = g[n]
  BY <1>1, AddPointsIs
<1>5. p \in Device /\ (p.ok => st.ok)
  <2> DEFINE T == {i \in 0..n : g[i].ok => st.ok}
  <2>1. 0 \in T
    BY <1>3, <1>4
  <2>2. ASSUME NEW i \in 1..n, i - 1 \in T
        PROVE  i \in T
    <3>1. i - 1 \in 0..n /\ i \in 0..n
      BY <1>3
    <3>2. g[i].ok => g[i - 1].ok
      BY <1>4, <3>1, AddOk
    <3> QED
      BY <2>2, <3>1, <3>2
  <2> HIDE DEF T
  <2>3. \A i \in 0..n : i \in T
    BY <1>3, <2>1, <2>2, UpTo
  <2>4. n \in 0..n
    BY <1>3
  <2> QED
    BY <1>4, <2>3, <2>4 DEF T
<1>6. m.children \in Seq(Child) /\ l \in Nat
  BY LenProperties DEF Model
<1> HIDE DEF p
<1>7. PICK g2 \in [0..l -> Device] :
          /\ g2[0] = p /\ \A i \in 1..l : g2[i] = AddChild(g2[i - 1], m.children[i])
          /\ q = g2[l]
  BY <1>5, <1>6, AddChildrenIs
<1>8. q \in Device /\ (q.ok => p.ok)
  <2> DEFINE T == {i \in 0..l : g2[i].ok => p.ok}
  <2>1. 0 \in T
    BY <1>6, <1>7
  <2>2. ASSUME NEW i \in 1..l, i - 1 \in T
        PROVE  i \in T
    <3>1. i - 1 \in 0..l /\ i \in 0..l
      BY <1>6
    <3>2. g2[i].ok => g2[i - 1].ok
      BY <1>7, <3>1, AddOk
    <3> QED
      BY <2>2, <3>1, <3>2
  <2> HIDE DEF T
  <2>3. \A i \in 0..l : i \in T
    BY <1>6, <2>1, <2>2, UpTo
  <2>4. l \in 0..l
    BY <1>6
  <2> QED
    BY <1>7, <2>3, <2>4 DEF T
<1>9. AddModel(st, m).ok = q.ok
  <2> HIDE DEF q
  <2> QED
    BY <1>2, <1>8 DEF Device
<1> QED
  BY <1>1, <1>2, <1>5, <1>8, <1>9 DEF p

\* The points before one, then before the next, then before the next model.
LEMMA BeforeNext ==
    ASSUME conf \in Configs, Named, NEW m \in 1..Len(conf)
    PROVE  /\ \A k \in 1..Len(Schema[Ids[m]]) : Before(m, k) = Before(m, k - 1) \cup {<<m, k>>}
           /\ Before(m, Len(Schema[Ids[m]])) = Before(m + 1, 0)
<1> DEFINE n == Len(Schema[Ids[m]])
<1>1. n \in Nat /\ Len(conf) \in Nat
  BY ConfType, PointType DEF Named
<1>2. ASSUME NEW k \in 1..n
      PROVE  Before(m, k) = Before(m, k - 1) \cup {<<m, k>>}
  <2>1. ASSUME NEW q \in Before(m, k)
        PROVE  q \in Before(m, k - 1) \cup {<<m, k>>}
    <3>1. CASE q[1] = m /\ q[2] = k
      BY <3>1 DEF Before
    <3>2. CASE ~(q[1] = m /\ q[2] = k)
      <4>1. q[1] < m \/ (q[1] = m /\ q[2] <= k - 1)
        BY <1>1, <3>2 DEF Before
      <4> QED
        BY <4>1 DEF Before
    <3> QED
      BY <3>1, <3>2
  <2>2. ASSUME NEW q \in Before(m, k - 1)
        PROVE  q \in Before(m, k)
    <3>1. q[1] < m \/ (q[1] = m /\ q[2] <= k)
      BY <1>1 DEF Before
    <3> QED
      BY <3>1 DEF Before
  <2>3. <<m, k>> \in Before(m, k)
    BY <1>1 DEF Before
  <2> QED
    BY <2>1, <2>2, <2>3
<1>3. Before(m, n) = Before(m + 1, 0)
  <2>1. ASSUME NEW q \in Before(m, n)
        PROVE  q \in Before(m + 1, 0)
    <3>1. q \in (1..Len(conf)) \X Nat /\ q[2] \in 1..Len(Schema[Ids[q[1]]])
      BY DEF Before
    <3>2. q[1] < m + 1
      BY <1>1 DEF Before
    <3> HIDE DEF n
    <3> QED
      BY <3>1, <3>2 DEF Before
  <2>2. ASSUME NEW q \in Before(m + 1, 0)
        PROVE  q \in Before(m, n)
    <3>1. /\ q \in (1..Len(conf)) \X Nat /\ q[2] \in 1..Len(Schema[Ids[q[1]]])
          /\ q[1] < m + 1 \/ (q[1] = m + 1 /\ q[2] <= 0)
      BY DEF Before
    <3>2. q[1] < m \/ (q[1] = m /\ q[2] <= n)
      BY <1>1, <3>1
    <3> HIDE DEF n
    <3> QED
      BY <3>1, <3>2 DEF Before
  <2> QED
    BY <2>1, <2>2
<1> QED
  BY <1>2, <1>3

\* Laid looks at five fields.
LEMMA LaidSame ==
    ASSUME NEW st, NEW Q, Laid(st, Q), NEW new, new.made = st.made, new.addr = st.addr,
           new.points = st.points, new.registers = st.registers, new.tags = st.tags
    PROVE  Laid(new, Q)
  BY DEF Laid

\* A whole model.
LEMMA LaidModel ==
    ASSUME Plain, conf \in Configs, Named, NEW m \in 1..Len(conf), NEW st \in Device,
           st.ok => Laid(st, Before(m, 0)) /\ st.addr = ModelAt(m),
           NEW new, new = AddModel(st, conf[m]), new.ok
    PROVE  Laid(new, Before(m + 1, 0)) /\ new.addr = ModelAt(m + 1)
<1> DEFINE id == Ids[m]
           n == Len(Schema[id])
           children == conf[m].children
           l == Len(children)
           p == AddPoints(st, id)
           q == AddChildren(p, children)
<1>1. conf[m] \in Model /\ id = conf[m].id /\ id \in DOMAIN Schema
  <2>1. conf \in Seq(Model)
    BY ServerAssumption DEF Model, Child
  <2>2. conf[m] \in Model
    BY <2>1, ElementOfSeq
  <2> QED
    BY <2>2 DEF Named, Ids
<1>2. st.ok /\ new = [q EXCEPT !.model1 = @ \/ conf[m].id = 1]
  BY <1>1, AddModelOk
<1>3. n \in Nat /\ Laid(st, Before(m, 0)) /\ st.addr = ModelAt(m)
  BY <1>1, <1>2, PointType
<1>4. PICK g \in [0..n -> Device] :
          /\ g[0] = st /\ \A i \in 1..n : g[i] = AddPoint(g[i - 1], id, Schema[id][i])
          /\ p = g[n]
  BY <1>1, AddPointsIs
<1>5. p \in Device /\ (p.ok => Laid(p, Before(m + 1, 0)) /\ p.addr = ModelAt(m + 1))
  <2> DEFINE T == {k \in 0..n : g[k].ok => Laid(g[k], Before(m, k)) /\ g[k].addr = PointAt(m, k + 1)}
  <2>1. 0 \in T
    <3>1. PointAt(m, 0 + 1) = ModelAt(m)
      BY PointAtNext
    <3> QED
      BY <1>3, <1>4, <3>1
  <2>2. ASSUME NEW k \in 1..n, k - 1 \in T
        PROVE  k \in T
    <3>1. k - 1 \in 0..n /\ k \in 0..n /\ (k - 1) + 1 = k
      BY <1>3
    <3>2. SUFFICES ASSUME g[k].ok
                   PROVE  Laid(g[k], Before(m, k)) /\ g[k].addr = PointAt(m, k + 1)
      BY <3>1
    <3>3. g[k] = AddPoint(g[k - 1], id, PointOf(m, k)) /\ g[k - 1] \in Device
      BY <1>4, <3>1 DEF PointOf
    <3>4. g[k - 1].ok
      BY <3>2, <3>3, AddOk
    <3>5. Laid(g[k - 1], Before(m, k - 1)) /\ g[k - 1].addr = PointAt(m, k)
      BY <2>2, <3>1, <3>4
    <3>6. /\ Laid(g[k], Before(m, k - 1) \cup {<<m, k>>})
          /\ g[k].addr = g[k - 1].addr + PointOf(m, k).size
      <4> DEFINE s == g[k - 1]
                 t == g[k]
                 B == Before(m, k - 1)
                 C == B \cup {<<m, k>>}
      <4>1. /\ s \in Device /\ t = AddPoint(s, Ids[m], PointOf(m, k)) /\ t.ok
            /\ s.ok => Laid(s, B) /\ s.addr = PointAt(m, k)
            /\ Ids[m] \in DOMAIN Schema /\ k \in 1..Len(Schema[Ids[m]])
        BY <1>1, <3>2, <3>3, <3>5
      <4> HIDE DEF T, s, t, B
      <4>2. C = B \cup {<<m, k>>}
        OBVIOUS
      <4> HIDE DEF C
      <4>3. Laid(t, C) /\ t.addr = s.addr + PointOf(m, k).size
        BY <4>1, <4>2, LaidPoint
      <4> QED
        BY <4>3 DEF s, t, B, C
    <3>7. Before(m, k) = Before(m, k - 1) \cup {<<m, k>>}
      BY BeforeNext
    <3>8. PointAt(m, k + 1) = PointAt(m, k) + PointOf(m, k).size
      BY PointAtNext
    <3> QED
      BY <3>5, <3>6, <3>7, <3>8
  <2> HIDE DEF T
  <2>3. \A k \in 0..n : k \in T
    BY <1>3, <2>1, <2>2, UpTo
  <2>4. n \in T /\ g[n] \in Device
    BY <1>3, <2>3
  <2>5. Before(m, n) = Before(m + 1, 0) /\ PointAt(m, n + 1) = ModelAt(m + 1)
    BY BeforeNext, PointAtNext
  <2> QED
    BY <1>4, <2>4, <2>5 DEF T
<1>6. children \in Seq(Child) /\ l \in Nat
  BY ConfType
<1> HIDE DEF p
<1>7. PICK g2 \in [0..l -> Device] :
          /\ g2[0] = p /\ \A i \in 1..l : g2[i] = AddChild(g2[i - 1], children[i])
          /\ q = g2[l]
  BY <1>5, <1>6, AddChildrenIs
<1> DEFINE Q == Before(m + 1, 0)
<1> HIDE DEF Q
<1>8. q \in Device /\ (q.ok => Laid(q, Q) /\ q.addr = ModelAt(m + 1))
  <2> DEFINE T == {k \in 0..l : g2[k].ok => Laid(g2[k], Q) /\ g2[k].addr = ModelAt(m + 1)}
  <2>1. 0 \in T
    BY <1>5, <1>6, <1>7 DEF Q
  <2>2. ASSUME NEW k \in 1..l, k - 1 \in T
        PROVE  k \in T
    <3>1. k - 1 \in 0..l /\ k \in 0..l
      BY <1>6
    <3>2. SUFFICES ASSUME g2[k].ok
                   PROVE  Laid(g2[k], Q) /\ g2[k].addr = ModelAt(m + 1)
      BY <3>1
    <3>3. g2[k] = AddChild(g2[k - 1], children[k]) /\ g2[k - 1] \in Device
      BY <1>7, <3>1
    <3>4. g2[k - 1].ok
      BY <3>2, <3>3, AddOk
    <3>5. Laid(g2[k - 1], Q) /\ g2[k - 1].addr = ModelAt(m + 1)
      BY <2>2, <3>1, <3>4
    <3>6. children[k] \in Child /\ children[k].name \notin {"ID", "L"} /\ Worded(children[k])
      BY ConfType DEF Plain, PlainConfig, Worded
    <3>7. Laid(g2[k], Q) /\ g2[k].addr = g2[k - 1].addr
      <4> HIDE DEF T, children
      <4> QED
        BY <3>2, <3>3, <3>5, <3>6, LaidChild
    <3> QED
      BY <3>5, <3>7
  <2> HIDE DEF T
  <2>3. \A k \in 0..l : k \in T
    BY <1>6, <2>1, <2>2, UpTo
  <2>4. l \in T /\ g2[l] \in Device
    BY <1>6, <2>3
  <2> QED
    BY <1>7, <2>4 DEF T
<1>9. /\ new.ok = q.ok /\ new.made = q.made /\ new.addr = q.addr
      /\ new.points = q.points /\ new.registers = q.registers /\ new.tags = q.tags
  <2> HIDE DEF q
  <2> QED
    BY <1>2, <1>8 DEF Device
<1> HIDE DEF q
<1>10. Laid(new, Q)
  BY <1>8, <1>9, LaidSame
<1> QED
  BY <1>8, <1>9, <1>10 DEF Q

\* What the end of the list adds.
LEMMA PutEndIs ==
    ASSUME NEW st \in Device, NEW new, new = PutEnd(st, st.addr)
    PROVE  /\ new \in Device
           /\ new.ok = (st.ok /\ st.model1) /\ new.points = st.points /\ new.tags = st.tags
           /\ new.made = Put(Put(st.made, st.addr, Static("uint16", EndMark)), st.addr + 1, Static("uint16", 0))
           /\ new.registers = Put(Put(st.registers, st.addr, st.addr), st.addr + 1, st.addr + 1)
<1> DEFINE e == st.addr
           f == Put(st.made, e, Static("uint16", EndMark))
           made == Put(f, e + 1, Static("uint16", 0))
           h == Put(st.registers, e, e)
           registers == Put(h, e + 1, e + 1)
<1>1. new = [st EXCEPT !.made = made, !.registers = registers, !.ok = @ /\ st.model1]
  BY DEF PutEnd
<1>2. e \in Nat /\ e + 1 \in Nat
  BY DEF Device
<1>3. f \in Partial(Nat, Register) /\ h \in Partial(Nat, Nat)
  BY <1>2, PutType, StaticType DEF Device
<1> HIDE DEF f, h
<1>4. made \in Partial(Nat, Register) /\ registers \in Partial(Nat, Nat)
  BY <1>2, <1>3, PutType, StaticType
<1> HIDE DEF made, registers
<1>5. /\ new \in Device /\ new.ok = (st.ok /\ st.model1) /\ new.points = st.points /\ new.tags = st.tags
      /\ new.made = made /\ new.registers = registers
  BY <1>1, <1>4 DEF Device
<1> QED
  BY <1>5 DEF made, registers, f, h

\* The type of what Configure makes.
LEMMA ConfigureType ==
    ASSUME NEW c \in Configs
    PROVE  Configure(c) \in Device /\ AddModels(c) \in Device
<1> DEFINE st == AddModels(c)
<1>1. PICK g \in [0..Len(c) -> Device] : st = g[Len(c)]
  BY AddModelsIs
<1>2. st \in Device
  BY <1>1, ConfType
<1>3. Configure(c) = PutEnd(st, st.addr)
  BY DEF Configure
<1> HIDE DEF st
<1> QED
  BY <1>2, <1>3, PutEndIs DEF st

\* The identifier.
LEMMA LaidBlank ==
    ASSUME conf \in Configs, Named
    PROVE  Laid(Blank, Before(1, 0)) /\ Blank.addr = ModelAt(1)
<1>1. /\ DOMAIN Blank.made = {Identifier} /\ Blank.made[Identifier] = Static("uint32", SunS)
      /\ DOMAIN Blank.registers = {Identifier} /\ Blank.registers[Identifier] = Identifier
      /\ DOMAIN Blank.points = {} /\ Blank.addr = First /\ Blank.tags = {}
  BY DEF Blank
<1>2. Before(1, 0) = {}
  <2> SUFFICES ASSUME NEW q \in Before(1, 0)
               PROVE  FALSE
    OBVIOUS
  <2>1. q[1] \in 1..Len(conf) /\ q[2] \in 1..Len(Schema[Ids[q[1]]])
    BY DEF Before
  <2>2. q[1] < 1 \/ q[2] <= 0
    BY DEF Before
  <2>3. Len(conf) \in Int /\ Len(Schema[Ids[q[1]]]) \in Int
    BY <2>1, ConfType, PointType DEF Named
  <2> QED
    BY <2>1, <2>2, <2>3
<1>3. Row(Blank.made, Blank.addr)
  <2>1. Supported("uint32") /\ Count("uint32") = 2
    BY DEF Supported, Count, Single, Double, Text
  <2>2. Static("uint32", SunS).dt = "uint32"
    BY DEF Static
  <2>3. \A a \in DOMAIN Blank.made : a = Identifier /\ Blank.made[a].dt = "uint32"
    BY <1>1, <2>2
  <2>4. Identifier \in Nat /\ Identifier + 2 = First /\ Blank.addr = First
    BY <1>1 DEF Identifier, First
  <2> QED
    BY <1>1, <2>1, <2>3, <2>4 DEF Row
<1>4. Laid(Blank, {})
  <2>1. Clean(Blank.tags)
    BY <1>1 DEF Clean
  <2> QED
    BY <1>1, <1>3, <2>1 DEF Laid
<1> QED
  BY <1>1, <1>2, <1>4, ModelAtIs

\* Address of the end of the list.
End == ModelAt(Len(conf) + 1)

\* The map of registers of a configuration that is accepted: it covers the addresses from the
\* identifier to the end of the list without a gap, and every point has the address the
\* standard gives it.
Layout ==
    /\ Len(conf) >= 1 /\ Named
    /\ Row(dev.made, End + 2)
    /\ dev.registers = [a \in DOMAIN dev.made |-> a]
    /\ \A a \in DOMAIN dev.made :
          /\ dev.made[a] \in Register
          /\ \/ dev.made[a].sf = ""
             \/ \E i \in 1..Len(conf) : \E j \in 1..Len(Schema[Ids[i]]) : PointOf(i, j).sf = dev.made[a].sf
    /\ \A i \in 1..Len(conf) : \A j \in 1..Len(Schema[Ids[i]]) :
          /\ PointAt(i, j) \in DOMAIN dev.made
          /\ Matches(dev.made[PointAt(i, j)], Ids[i], PointOf(i, j))
          /\ PointOf(i, j).name \in DOMAIN dev.points
    /\ \A n \in DOMAIN dev.points :
          /\ dev.points[n] \in DOMAIN dev.made
          /\ \E i \in 1..Len(conf) : \E j \in 1..Len(Schema[Ids[i]]) : PointOf(i, j).name = n
    /\ Identifier \in DOMAIN dev.made /\ dev.made[Identifier] = Static("uint32", SunS)
    /\ End \in DOMAIN dev.made /\ dev.made[End] = Static("uint16", EndMark)
    /\ End + 1 \in DOMAIN dev.made /\ dev.made[End + 1] = Static("uint16", 0)
    /\ Clean(dev.tags)

\* The models of a configuration that is accepted.
LEMMA AllLaid ==
    ASSUME Plain, conf \in Configs, NEW st, st = AddModels(conf), st.ok, st.model1
    PROVE  /\ Named /\ Len(conf) >= 1
           /\ Laid(st, Before(Len(conf) + 1, 0)) /\ st.addr = End
<1> DEFINE n == Len(conf)
<1>1. n \in Nat
  BY ConfType
<1>2. PICK g \in [0..n -> Device] :
          /\ g[0] = Blank /\ \A i \in 1..n : g[i] = AddModel(g[i - 1], conf[i])
          /\ st = g[n]
  BY AddModelsIs
<1>3. \A i \in 1..n : conf[i] \in Model /\ conf[i].id = Ids[i]
  <2>1. conf \in Seq(Model)
    BY ServerAssumption DEF Model, Child
  <2> QED
    BY <2>1, ElementOfSeq DEF Ids
<1>4. Named
  <2> DEFINE T == {k \in 0..n : g[k].ok => \A i \in 1..k : Ids[i] \in DOMAIN Schema}
  <2>1. 0 \in T
    BY <1>1
  <2>2. ASSUME NEW k \in 1..n, k - 1 \in T
        PROVE  k \in T
    <3>1. k - 1 \in 0..n /\ k \in 0..n
      BY <1>1
    <3>2. SUFFICES ASSUME g[k].ok
                   PROVE  \A i \in 1..k : Ids[i] \in DOMAIN Schema
      BY <3>1
    <3>3. g[k] = AddModel(g[k - 1], conf[k]) /\ g[k - 1] \in Device /\ conf[k] \in Model
      BY <1>2, <1>3, <3>1
    <3>4. conf[k].id \in DOMAIN Schema /\ g[k - 1].ok
      BY <3>2, <3>3, AddModelOk
    <3>5. \A i \in 1..(k - 1) : Ids[i] \in DOMAIN Schema
      BY <2>2, <3>4
    <3>6. Ids[k] \in DOMAIN Schema
      BY <1>3, <3>4
    <3>7. \A i \in 1..k : i = k \/ i \in 1..(k - 1)
      BY <1>1
    <3> QED
      BY <3>5, <3>6, <3>7
  <2> HIDE DEF T
  <2>3. n \in T
    <3>1. \A i \in 0..n : i \in T
      BY <1>1, <2>1, <2>2, UpTo
    <3> QED
      BY <1>1, <3>1
  <2> QED
    BY <1>2, <2>3 DEF T, Named
<1>5. n >= 1
  <2> SUFFICES ASSUME n = 0
               PROVE  FALSE
    BY <1>1
  <2>1. st = Blank
    BY <1>2
  <2> QED
    BY <2>1 DEF Blank
<1>6. Laid(st, Before(n + 1, 0)) /\ st.addr = ModelAt(n + 1)
  <2> DEFINE T == {k \in 0..n : g[k].ok => Laid(g[k], Before(k + 1, 0)) /\ g[k].addr = ModelAt(k + 1)}
  <2>1. 0 \in T
    BY <1>1, <1>2, <1>4, LaidBlank
  <2>2. ASSUME NEW k \in 1..n, k - 1 \in T
        PROVE  k \in T
    <3>1. k - 1 \in 0..n /\ k \in 0..n /\ (k - 1) + 1 = k
      BY <1>1
    <3>2. SUFFICES ASSUME g[k].ok
                   PROVE  Laid(g[k], Before(k + 1, 0)) /\ g[k].addr = ModelAt(k + 1)
      BY <3>1
    <3>3. g[k] = AddModel(g[k - 1], conf[k]) /\ g[k - 1] \in Device
      BY <1>2, <3>1
    <3>4. g[k - 1].ok => Laid(g[k - 1], Before(k, 0)) /\ g[k - 1].addr = ModelAt(k)
      BY <2>2, <3>1
    <3> HIDE DEF T
    <3> QED
      BY <1>4, <3>2, <3>3, <3>4, LaidModel, Zenon
  <2> HIDE DEF T
  <2>3. n \in T
    <3>1. \A i \in 0..n : i \in T
      BY <1>1, <2>1, <2>2, UpTo
    <3> QED
      BY <1>1, <3>1
  <2> QED
    BY <1>2, <2>3 DEF T
<1> QED
  BY <1>4, <1>5, <1>6 DEF End

\* Configure lays out what the standard says.
LEMMA LayoutHolds ==
    ASSUME Plain, conf \in Configs, dev = Configure(conf), dev.ok
    PROVE  Layout
<1> DEFINE st == AddModels(conf)
           e == st.addr
           Q == Before(Len(conf) + 1, 0)
           mark == Static("uint16", EndMark)
           zero == Static("uint16", 0)
           f == Put(st.made, e, mark)
<1>1. st \in Device /\ dev \in Device /\ dev = PutEnd(st, e) /\ e \in Nat
  <2>1. st \in Device /\ dev \in Device
    BY ConfigureType
  <2> QED
    BY <2>1 DEF Configure, Device
<1>2. /\ st.ok /\ st.model1 /\ dev.points = st.points /\ dev.tags = st.tags
      /\ dev.made = Put(f, e + 1, zero)
      /\ dev.registers = Put(Put(st.registers, e, e), e + 1, e + 1)
  <2> HIDE DEF st
  <2> QED
    BY <1>1, PutEndIs
<1>3. Named /\ Len(conf) >= 1 /\ Laid(st, Q) /\ e = End
  <2>1. st = AddModels(conf)
    OBVIOUS
  <2> HIDE DEF st
  <2> QED
    BY <1>2, <2>1, AllLaid
<1> HIDE DEF st
<1>4. /\ mark.dt = "uint16" /\ zero.dt = "uint16" /\ mark.sf = "" /\ zero.sf = ""
      /\ Supported("uint16") /\ Count("uint16") = 1
  BY DEF Static, Supported, Count, Single, Double, Text
<1> HIDE DEF mark, zero, e
<1>5. /\ \A a \in DOMAIN st.made : a < e
      /\ Row(f, e + 1)
  <2>1. Row(st.made, e)
    BY <1>3 DEF Laid, e
  <2>2. Row(f, e + Count(mark.dt)) /\ \A a \in DOMAIN st.made : a < e
    BY <1>1, <1>4, <2>1, RowPut
  <2> QED
    BY <1>4, <2>2
<1>6. Row(dev.made, e + 2)
  <2> HIDE DEF f
  <2>1. e + 1 \in Nat
    BY <1>1
  <2>2. Row(Put(f, e + 1, zero), e + 1 + Count(zero.dt))
    BY <1>4, <1>5, <2>1, RowPut
  <2>3. e + 1 + Count(zero.dt) = e + 2
    <3>1. Count(zero.dt) = 1
      BY <1>4
    <3>2. e \in Nat
      BY <1>1
    <3> QED
      BY <3>1, <3>2
  <2> QED
    BY <1>2, <2>2, <2>3
<1>7. \A a \in DOMAIN st.made : a \in Nat /\ a # e /\ a # e + 1
  <2>1. \A a \in DOMAIN st.made : a \in Nat
    BY <1>3 DEF Laid, Row
  <2> QED
    BY <1>1, <1>5, <2>1
<1>8. /\ DOMAIN dev.made = DOMAIN st.made \cup {e, e + 1}
      /\ dev.made[e] = mark /\ dev.made[e + 1] = zero
      /\ \A a \in DOMAIN st.made : dev.made[a] = st.made[a]
  BY <1>1, <1>2, <1>7 DEF Put
<1>9. dev.registers = [a \in DOMAIN dev.made |-> a]
  <2> DEFINE r == dev.registers
             s == st.registers
  <2>1. /\ DOMAIN st.made \subseteq DOMAIN s /\ DOMAIN s \subseteq DOMAIN st.made \cup {e}
        /\ \A a \in DOMAIN st.made : s[a] = a
    BY <1>3 DEF Laid, e
  <2>2. r = Put(Put(s, e, e), e + 1, e + 1)
    BY <1>2
  <2> HIDE DEF r, s
  <2>3. r = [z \in DOMAIN s \cup {e, e + 1} |-> IF z = e + 1 THEN e + 1 ELSE IF z = e THEN e ELSE s[z]]
    BY <2>2 DEF Put
  <2>4. DOMAIN s \cup {e, e + 1} = DOMAIN dev.made
    BY <1>8, <2>1
  <2>5. \A z \in DOMAIN dev.made : (IF z = e + 1 THEN e + 1 ELSE IF z = e THEN e ELSE s[z]) = z
    BY <1>8, <2>1
  <2>6. r = [a \in DOMAIN dev.made |-> a]
    BY <2>3, <2>4, <2>5
  <2> QED
    BY <2>6 DEF r
<1>10. ASSUME NEW a \in DOMAIN dev.made
       PROVE  dev.made[a] \in Register
  BY <1>1, PartialIs DEF Device
<1>11. ASSUME NEW i \in 1..Len(conf), NEW j \in 1..Len(Schema[Ids[i]])
       PROVE  <<i, j>> \in Q
  <2>1. i < Len(conf) + 1 /\ j \in Nat
    BY <1>3, ConfType, PointType DEF Named
  <2>2. <<i, j>> \in (1..Len(conf)) \X Nat /\ <<i, j>>[1] = i /\ <<i, j>>[2] = j
    BY <2>1
  <2> QED
    BY <2>1, <2>2 DEF Before
<1>12. ASSUME NEW q \in Q
       PROVE  q[1] \in 1..Len(conf) /\ q[2] \in 1..Len(Schema[Ids[q[1]]])
  BY DEF Before
<1> HIDE DEF Q
<1>13. ASSUME NEW i \in 1..Len(conf), NEW j \in 1..Len(Schema[Ids[i]])
       PROVE  /\ PointAt(i, j) \in DOMAIN dev.made
              /\ Matches(dev.made[PointAt(i, j)], Ids[i], PointOf(i, j))
              /\ PointOf(i, j).name \in DOMAIN dev.points
  <2> DEFINE q == <<i, j>>
  <2>1. q \in Q /\ q[1] = i /\ q[2] = j
    BY <1>11
  <2> HIDE DEF q
  <2>2. /\ PointAt(i, j) \in DOMAIN st.made
        /\ Matches(st.made[PointAt(i, j)], Ids[i], PointOf(i, j))
        /\ PointOf(i, j).name \in DOMAIN st.points
    BY <1>3, <2>1 DEF Laid
  <2> QED
    BY <1>2, <1>8, <2>2
<1>14. ASSUME NEW n \in DOMAIN dev.points
       PROVE  /\ dev.points[n] \in DOMAIN dev.made
              /\ \E i \in 1..Len(conf) : \E j \in 1..Len(Schema[Ids[i]]) : PointOf(i, j).name = n
  <2>1. PICK q \in Q : PointAt(q[1], q[2]) = st.points[n] /\ PointOf(q[1], q[2]).name = n
    BY <1>2, <1>3 DEF Laid
  <2>2. PointAt(q[1], q[2]) \in DOMAIN st.made
    BY <1>3 DEF Laid
  <2>3. q[1] \in 1..Len(conf) /\ q[2] \in 1..Len(Schema[Ids[q[1]]])
    BY <1>12
  <2> QED
    BY <1>2, <1>8, <2>1, <2>2, <2>3
<1>15. ASSUME NEW a \in DOMAIN dev.made
       PROVE  \/ dev.made[a].sf = ""
              \/ \E i \in 1..Len(conf) : \E j \in 1..Len(Schema[Ids[i]]) : PointOf(i, j).sf = dev.made[a].sf
  <2>1. CASE a \in {e, e + 1}
    BY <1>4, <1>8, <2>1
  <2>2. CASE a = Identifier
    <3>1. dev.made[a] = Static("uint32", SunS)
      BY <1>3, <1>8, <2>2 DEF Laid
    <3>2. Static("uint32", SunS).sf = ""
      BY DEF Static
    <3> QED
      BY <3>1, <3>2
  <2>3. CASE a \in DOMAIN st.made \ {Identifier}
    <3>1. PICK q \in Q : a = PointAt(q[1], q[2])
      BY <1>3, <2>3 DEF Laid
    <3>2. q[1] \in 1..Len(conf) /\ q[2] \in 1..Len(Schema[Ids[q[1]]])
      BY <1>12
    <3>3. Matches(dev.made[a], Ids[q[1]], PointOf(q[1], q[2]))
      BY <1>13, <3>1, <3>2
    <3>4. dev.made[a].sf = "" \/ dev.made[a].sf = PointOf(q[1], q[2]).sf
      BY <3>3 DEF Matches
    <3> QED
      BY <3>2, <3>4
  <2> QED
    BY <1>8, <2>1, <2>2, <2>3
<1>16. Identifier \in DOMAIN dev.made /\ dev.made[Identifier] = Static("uint32", SunS)
  BY <1>3, <1>8 DEF Laid
<1>17. /\ End \in DOMAIN dev.made /\ dev.made[End] = Static("uint16", EndMark)
       /\ End + 1 \in DOMAIN dev.made /\ dev.made[End + 1] = Static("uint16", 0)
  BY <1>3, <1>8 DEF mark, zero
<1>18. Clean(dev.tags)
  BY <1>2, <1>3 DEF Laid
<1> QED
  BY <1>18, <1>3, <1>6, <1>9, <1>10, <1>13, <1>14, <1>15, <1>16, <1>17 DEF Layout

-----------------------------------------------------------------------------
(* What the layout says of each model.                                     *)

\* A point ends within its model.
LEMMA OffsetWithin ==
    ASSUME NEW id \in DOMAIN Schema, NEW k \in 1..Len(Points(id))
    PROVE  Offset(id, k) + Points(id)[k].size <= ModelLength(id)
<1> DEFINE n == Len(Points(id))
<1>1. n \in Nat
  BY PointsIs
<1>2. /\ \A i \in 1..(n + 1) : Offset(id, i) \in Nat
      /\ ModelLength(id) = Offset(id, n + 1)
  BY OffsetIs
<1>3. \A i \in 1..n : Offset(id, i + 1) >= Offset(id, i)
  <2> TAKE i \in 1..n
  <2>1. Offset(id, i + 1) = Offset(id, i) + Points(id)[i].size
    BY OffsetIs
  <2>2. i + 2 \in 1..Len(Schema[id]) /\ Points(id)[i] = Schema[id][i + 2]
    BY <1>1, PointsIs, PointType
  <2>3. Points(id)[i].size \in Nat
    BY <2>2, PointType DEF Point
  <2>4. Offset(id, i) \in Nat
    BY <1>1, <1>2
  <2> QED
    BY <2>1, <2>3, <2>4
<1> DEFINE T == {d \in 0..n : Offset(id, n + 1 - d) <= ModelLength(id)}
<1>4. 0 \in T
  BY <1>1, <1>2
<1>5. ASSUME NEW d \in 1..n, d - 1 \in T
      PROVE  d \in T
  <2>1. n + 1 - d \in 1..n /\ n + 1 - (d - 1) = (n + 1 - d) + 1 /\ n + 1 - (d - 1) \in 1..(n + 1)
    BY <1>1
  <2>2. Offset(id, n + 1 - (d - 1)) >= Offset(id, n + 1 - d)
    BY <1>3, <2>1
  <2>3. Offset(id, n + 1 - d) \in Nat /\ Offset(id, n + 1 - (d - 1)) \in Nat /\ ModelLength(id) \in Nat
    BY <1>1, <1>2, <2>1
  <2>4. Offset(id, n + 1 - d) <= ModelLength(id)
    BY <1>5, <2>2, <2>3
  <2> QED
    BY <2>4
<1> HIDE DEF T, n
<1>6. \A d \in 0..n : d \in T
  BY <1>1, <1>4, <1>5, UpTo
<1>7. n - k \in 0..n /\ n + 1 - (n - k) = k + 1
  BY <1>1 DEF n
<1>8. Offset(id, k + 1) <= ModelLength(id)
  BY <1>6, <1>7 DEF T
<1> QED
  BY <1>8, OffsetIs

\* Addresses of the models and of the end of the list.
Bases == [i \in 1..(Len(conf) + 1) |-> ModelAt(i)]

\* Where the models and the end of the list begin.
LEMMA BasesIs ==
    ASSUME conf \in Configs, Layout
    PROVE  /\ Len(conf) \in Nat /\ Bases[1] = First /\ Bases[Len(conf) + 1] = End /\ End \in Nat
           /\ \A i \in 1..(Len(conf) + 1) : Bases[i] \in Nat /\ Bases[i] \in DOMAIN dev.made
           /\ \A i \in 1..Len(conf) : /\ Ids[i] \in DOMAIN Schema /\ ModelLength(Ids[i]) \in Nat
                                      /\ Bases[i + 1] = Bases[i] + 2 + ModelLength(Ids[i])
                                      /\ Bases[i] + 2 \in DOMAIN dev.made
<1> DEFINE n == Len(conf)
<1>1. n \in Nat /\ n >= 1 /\ Named
  BY ConfType DEF Layout
<1>2. \A i \in 1..(n + 1) : Bases[i] = ModelAt(i) /\ ModelAt(i) \in Nat
  BY <1>1, ModelAtIs DEF Bases
<1>3. Bases[1] = First /\ Bases[n + 1] = End /\ End \in Nat
  <2>1. 1 \in 1..(n + 1) /\ n + 1 \in 1..(n + 1)
    BY <1>1
  <2> QED
    BY <1>1, <1>2, <2>1, ModelAtIs DEF End
<1>4. ASSUME NEW i \in 1..n
      PROVE  /\ Ids[i] \in DOMAIN Schema /\ ModelLength(Ids[i]) \in Nat
             /\ Bases[i + 1] = Bases[i] + 2 + ModelLength(Ids[i])
             /\ Bases[i] \in DOMAIN dev.made
  <2>1. i \in 1..(n + 1) /\ i + 1 \in 1..(n + 1)
    BY <1>1
  <2>2. Ids[i] \in DOMAIN Schema
    BY <1>1 DEF Named
  <2>3. ModelLength(Ids[i]) \in Nat
    BY <2>2, OffsetIs
  <2>4. ModelAt(i + 1) = ModelAt(i) + 2 + ModelLength(Ids[i])
    BY <1>1, ModelAtIs
  <2>5. PointAt(i, 1) \in DOMAIN dev.made
    <3>1. 1 \in 1..Len(Schema[Ids[i]])
      BY <2>2, PointType
    <3> QED
      BY <3>1 DEF Layout
  <2>6. PointAt(i, 1) = ModelAt(i)
    BY <1>1, PointAtNext
  <2> QED
    BY <1>2, <2>1, <2>2, <2>3, <2>4, <2>5, <2>6
<1>5. \A i \in 1..(n + 1) : Bases[i] \in DOMAIN dev.made
  <2> TAKE i \in 1..(n + 1)
  <2>1. CASE i = n + 1
    BY <1>3, <2>1 DEF Layout
  <2>2. CASE i # n + 1
    <3>1. i \in 1..n
      BY <1>1, <2>2
    <3> QED
      BY <1>4, <3>1
  <2> QED
    BY <2>1, <2>2
<1>6. ASSUME NEW i \in 1..n
      PROVE  Bases[i] + 2 \in DOMAIN dev.made
  <2> DEFINE l == Len(Schema[Ids[i]])
  <2>1. Ids[i] \in DOMAIN Schema /\ i \in 1..(n + 1) /\ i + 1 \in 1..(n + 1)
    BY <1>1, <1>4
  <2>2. l \in Nat /\ l >= 2
    BY <2>1, PointType
  <2>3. Bases[i] \in Nat /\ Bases[i] = ModelAt(i) /\ Bases[i + 1] = ModelAt(i + 1)
    BY <1>2, <2>1
  <2>4. PointAt(i, 3) = Bases[i] + 2
    <3>1. PointAt(i, 2) = ModelAt(i) + 1
      BY <1>1, PointAtNext
    <3>2. \A j \in 1..l : PointAt(i, j + 1) = PointAt(i, j) + PointOf(i, j).size
      BY <1>1, PointAtNext
    <3>3. PointAt(i, 2 + 1) = PointAt(i, 2) + PointOf(i, 2).size
      <4>1. 2 \in 1..l
        BY <2>2
      <4> QED
        BY <3>2, <4>1
    <3>4. PointOf(i, 2).size = 1
      <4>1. \A j \in 1..2 : Schema[Ids[i]][j].size = 1
        BY <2>1, HeaderFacts
      <4> QED
        BY <4>1 DEF PointOf
    <3>5. 2 + 1 = 3
      OBVIOUS
    <3> QED
      BY <2>3, <3>1, <3>3, <3>4, <3>5
  <2>5. CASE l >= 3
    <3>1. 3 \in 1..l
      BY <2>2, <2>5
    <3>2. PointAt(i, 3) \in DOMAIN dev.made
      BY <3>1 DEF Layout
    <3> QED
      BY <2>4, <3>2
  <2>6. CASE l = 2
    <3>1. PointAt(i, l + 1) = ModelAt(i + 1)
      BY <1>1, PointAtNext
    <3>2. Bases[i + 1] = Bases[i] + 2
      BY <2>3, <2>4, <2>6, <3>1
    <3>3. Bases[i + 1] \in DOMAIN dev.made
      BY <1>5, <2>1
    <3> QED
      BY <3>2, <3>3
  <2> HIDE DEF l
  <2>7. l = 2 \/ l >= 3
    BY <2>2
  <2> QED
    BY <2>5, <2>6, <2>7
<1> QED
  BY <1>1, <1>2, <1>3, <1>4, <1>5, <1>6

\* The header of a model.
Header(r, n) == r.dt = "uint16" /\ r.sf = "" /\ r.scaling = 0 /\ r.tag = "" /\ r.start = Unit * n

\* The registers ID and L of a model hold its id and its length.
LEMMA HeadersAre ==
    ASSUME conf \in Configs, Layout, NEW i \in 1..Len(conf)
    PROVE  /\ Bases[i] + 1 \in DOMAIN dev.made
           /\ Header(dev.made[Bases[i]], Ids[i])
           /\ Header(dev.made[Bases[i] + 1], ModelLength(Ids[i]))
<1>1. Named /\ Ids[i] \in DOMAIN Schema
  BY DEF Layout, Named
<1>2. 1 \in 1..Len(Schema[Ids[i]]) /\ 2 \in 1..Len(Schema[Ids[i]])
  BY <1>1, PointType
<1>3. \A j \in 1..Len(Schema[Ids[i]]) : /\ PointAt(i, j) \in DOMAIN dev.made
                                        /\ Matches(dev.made[PointAt(i, j)], Ids[i], PointOf(i, j))
  BY DEF Layout
<1>4. Bases[i] = ModelAt(i)
  <2>1. i \in 1..(Len(conf) + 1)
    BY ConfType
  <2> QED
    BY <2>1 DEF Bases
<1>5. PointAt(i, 1) = Bases[i] /\ PointAt(i, 2) = Bases[i] + 1
  BY <1>1, <1>4, PointAtNext
<1>6. /\ PointOf(i, 1).name = "ID" /\ PointOf(i, 2).name = "L"
      /\ \A j \in 1..2 : PointOf(i, j).dt = "uint16" /\ PointOf(i, j).sf = ""
  BY <1>1, HeaderFacts DEF PointOf
<1>7. /\ PointOf(i, 1).dt = "uint16" /\ PointOf(i, 1).sf = ""
      /\ PointOf(i, 2).dt = "uint16" /\ PointOf(i, 2).sf = ""
  <2>1. 1 \in 1..2 /\ 2 \in 1..2
    OBVIOUS
  <2> QED
    BY <1>6, <2>1, Zenon
<1>8. Header(dev.made[PointAt(i, 1)], Ids[i])
  <2>1. Matches(dev.made[PointAt(i, 1)], Ids[i], PointOf(i, 1))
    BY <1>2, <1>3
  <2> QED
    BY <1>6, <1>7, <2>1 DEF Matches, Header
<1>9. PointAt(i, 2) \in DOMAIN dev.made /\ Header(dev.made[PointAt(i, 2)], ModelLength(Ids[i]))
  <2>1. PointAt(i, 2) \in DOMAIN dev.made /\ Matches(dev.made[PointAt(i, 2)], Ids[i], PointOf(i, 2))
    BY <1>2, <1>3
  <2> QED
    BY <1>6, <1>7, <2>1 DEF Matches, Header
<1> QED
  BY <1>5, <1>8, <1>9

\* The register of a point of a model.
LEMMA PointIn ==
    ASSUME conf \in Configs, Layout, NEW i \in 1..Len(conf), NEW k \in 1..Len(Points(Ids[i])),
           NEW a, a = Bases[i] + 2 + Offset(Ids[i], k)
    PROVE  /\ a \in DOMAIN dev.made /\ Matches(dev.made[a], Ids[i], Points(Ids[i])[k])
           /\ Points(Ids[i])[k].name \in DOMAIN dev.points
           /\ a + Points(Ids[i])[k].size <= Bases[i + 1]
           /\ Supported(Points(Ids[i])[k].dt) /\ Points(Ids[i])[k].size = Count(Points(Ids[i])[k].dt)
           /\ Offset(Ids[i], k) \in Nat /\ Points(Ids[i])[k] \in Point
           /\ a \in Homes(Points(Ids[i])[k].name)
<1>1. Named /\ Ids[i] \in DOMAIN Schema
  BY DEF Layout, Named
<1>2. /\ Len(Points(Ids[i])) = Len(Schema[Ids[i]]) - 2
      /\ Points(Ids[i])[k] = Schema[Ids[i]][k + 2]
      /\ Len(Schema[Ids[i]]) \in Nat
  BY <1>1, PointsIs, PointType
<1>3. k + 2 \in 1..Len(Schema[Ids[i]])
  BY <1>2
<1>4. PointOf(i, k + 2) = Points(Ids[i])[k]
  BY <1>2 DEF PointOf
<1>5. Len(conf) \in Nat /\ i \in 1..(Len(conf) + 1)
  BY ConfType
<1>6. Bases[i] = ModelAt(i) /\ Bases[i] \in Nat /\ Bases[i + 1] = Bases[i] + 2 + ModelLength(Ids[i])
      /\ ModelLength(Ids[i]) \in Nat
  <2>1. Bases[i] = ModelAt(i)
    BY <1>5 DEF Bases
  <2> QED
    BY <1>5, <2>1, BasesIs
<1>7. Offset(Ids[i], k) \in Nat
  <2>1. k \in 1..(Len(Points(Ids[i])) + 1)
    BY <1>2
  <2> QED
    BY <1>1, <2>1, OffsetIs
<1>8. PointAt(i, k + 2) = a
  <2>1. Pos(Ids[i], k + 2) = 2 + Offset(Ids[i], k)
    <3>1. ~(k + 2 <= 2) /\ (k + 2) - 2 = k
      OBVIOUS
    <3> QED
      BY <3>1 DEF Pos
  <2> QED
    BY <1>6, <1>7, <2>1 DEF PointAt
<1>9. /\ a \in DOMAIN dev.made /\ Matches(dev.made[a], Ids[i], Points(Ids[i])[k])
      /\ Points(Ids[i])[k].name \in DOMAIN dev.points
  <2>1. /\ PointAt(i, k + 2) \in DOMAIN dev.made
        /\ Matches(dev.made[PointAt(i, k + 2)], Ids[i], PointOf(i, k + 2))
        /\ PointOf(i, k + 2).name \in DOMAIN dev.points
    BY <1>3 DEF Layout
  <2> QED
    BY <1>4, <1>8, <2>1
<1>10. Points(Ids[i])[k] \in Point
  BY <1>1, <1>2, <1>3, PointType
<1>11. Supported(dev.made[a].dt)
  BY <1>9 DEF Layout, Row
<1>12. Supported(Points(Ids[i])[k].dt) /\ Points(Ids[i])[k].size = Count(Points(Ids[i])[k].dt)
  <2>1. Supported(Points(Ids[i])[k].dt)
    BY <1>9, <1>11 DEF Matches
  <2> QED
    BY <1>1, <1>2, <1>3, <2>1, PointFacts
<1>13. a + Points(Ids[i])[k].size <= Bases[i + 1]
  <2>1. Offset(Ids[i], k) + Points(Ids[i])[k].size <= ModelLength(Ids[i])
    BY <1>1, OffsetWithin
  <2>2. Points(Ids[i])[k].size \in Nat
    BY <1>10 DEF Point
  <2> QED
    BY <1>6, <1>7, <2>1, <2>2
<1>14. a \in Homes(Points(Ids[i])[k].name)
  <2>1. Len(Ids) = Len(conf)
    BY <1>5 DEF Ids
  <2>2. a = ModelAt(i) + 2 + Offset(Ids[i], k)
    BY <1>6
  <2> QED
    BY <2>1, <2>2 DEF Homes
<1> QED
  BY <1>7, <1>9, <1>10, <1>12, <1>13, <1>14

\* A scale factor that is a point of the device is a point of one of its models, and the other way round.
LEMMA HomesAre ==
    ASSUME conf \in Configs, Layout, NEW n, n \notin {"ID", "L"}
    PROVE  n \in DOMAIN dev.points <=> Homes(n) # {}
<1>1. Named /\ Len(conf) \in Nat /\ Len(Ids) = Len(conf)
  <2>1. Len(conf) \in Nat
    BY ConfType
  <2>2. Len(Ids) = Len(conf)
    BY <2>1 DEF Ids
  <2> QED
    BY <2>1, <2>2 DEF Layout
<1>2. ASSUME n \in DOMAIN dev.points
      PROVE  Homes(n) # {}
  <2>1. PICK i \in 1..Len(conf) : \E j \in 1..Len(Schema[Ids[i]]) : PointOf(i, j).name = n
    BY <1>2 DEF Layout
  <2>2. PICK j \in 1..Len(Schema[Ids[i]]) : PointOf(i, j).name = n
    BY <2>1
  <2>3. Ids[i] \in DOMAIN Schema
    BY <1>1 DEF Named
  <2>4. j # 1 /\ j # 2
    BY <2>2, <2>3, HeaderFacts DEF PointOf
  <2>5. /\ Len(Points(Ids[i])) = Len(Schema[Ids[i]]) - 2 /\ Len(Schema[Ids[i]]) \in Nat
        /\ \A k \in 1..Len(Points(Ids[i])) : Points(Ids[i])[k] = Schema[Ids[i]][k + 2]
    BY <2>3, PointsIs, PointType
  <2>6. j - 2 \in 1..Len(Points(Ids[i])) /\ (j - 2) + 2 = j
    BY <2>4, <2>5
  <2>7. Points(Ids[i])[j - 2].name = n
    BY <2>2, <2>5, <2>6 DEF PointOf
  <2> DEFINE a == Bases[i] + 2 + Offset(Ids[i], j - 2)
  <2> HIDE DEF a
  <2>8. a \in Homes(Points(Ids[i])[j - 2].name)
    BY <2>6, PointIn DEF a
  <2> QED
    BY <2>7, <2>8
<1>3. ASSUME Homes(n) # {}
      PROVE  n \in DOMAIN dev.points
  <2>1. PICK i \in 1..Len(conf) : \E k \in 1..Len(Points(Ids[i])) : Points(Ids[i])[k].name = n
    BY <1>1, <1>3 DEF Homes
  <2>2. PICK k \in 1..Len(Points(Ids[i])) : Points(Ids[i])[k].name = n
    BY <2>1
  <2> DEFINE a == Bases[i] + 2 + Offset(Ids[i], k)
  <2> HIDE DEF a
  <2>3. Points(Ids[i])[k].name \in DOMAIN dev.points
    BY PointIn DEF a
  <2> QED
    BY <2>2, <2>3
<1> QED
  BY <1>2, <1>3

-----------------------------------------------------------------------------
(* The inductive invariant.                                                *)

\* Values of the registers as configured.
Starts == [h \in DOMAIN dev.made |-> dev.made[h].start]

\* The models a client can take: it knows their points, and the scale factors exist.
Sound == {i \in 1..Len(conf) : /\ ~Malformed(Ids[i])
                               /\ \A p \in Range(Schema[Ids[i]]) : p.sf # "" => Homes(p.sf) # {}}

\* The words of the register at a in an answer to a read from start are those of a value
\* that it had in the meantime.
Values(d, hld, a) == IF d.made[a].tag = "" THEN {d.made[a].start} ELSE hld[d.made[a].tag]
Slice(c, off, data) == [i \in 1..c |-> data[off + i]]
Genuine(d, hld, a, start, data) ==
    /\ ~Lacks(d, d.made[a])
    /\ a - start + Count(d.made[a].dt) <= Len(data)
    /\ \E v \in Values(d, hld, a) :
          Slice(Count(d.made[a].dt), a - start, data) \in Bytes(d.made[a], v, Standing(d, d.made[a]))

\* One request at a time.
Turns ==
    /\ waiting \in {{}, {"scan"}, {"write"}}
    /\ alive => dev.ok
    /\ req # None =>
          /\ dev.ok /\ reply = None
          /\ req.data \in Seq(Word)
          /\ req.fn = 3 => req.by = "scan" /\ alive /\ waiting = {"scan"}
          /\ req.fn = 16 => req.by = "write" /\ (alive => Hung \/ waiting = {"write"})
    /\ reply # None => alive /\ waiting = {reply.by}

\* Until a write hangs, registers keep the numbers of the configuration.
Steady == alive /\ ~Hung => internal = Starts

\* A tag has a value of a Status, or none yet.
Levels == \A t \in Tag : tags[t] \in {0} \cup Level[t] /\ held[t] \subseteq {0} \cup Level[t]

\* A read has collected the registers from its start to the address it is at.
Reading ==
    req # None /\ req.fn = 3 =>
        /\ req.start \in DOMAIN dev.made /\ req.start + req.count <= End + 2
        /\ addr \in DOMAIN dev.made \cup {End + 2} /\ req.start <= addr
        /\ Len(buf) = addr - req.start
        /\ \A a \in DOMAIN dev.made : req.start <= a /\ a < addr => Genuine(dev, held, a, req.start, buf)
        /\ \A t \in Tag : tags[t] \in held[t]

\* The scan has something to ask for.
Asking == pc \in {"identify", "next", "model", "scan"}

\* What the scan asks for.
Wanted ==
    CASE pc = "identify" -> [start |-> Identifier, length |-> 2]
      [] pc = "next" -> [start |-> at, length |-> 2]
      [] pc = "model" -> [start |-> at, length |-> settings[order[Len(order)]].length]
      [] pc = "scan" -> settings[order[at]]
      [] OTHER -> [start |-> 0, length |-> 0]

\* The read that is served, and the answer that is there, are those of what is asked for.
Asked ==
    /\ req # None /\ req.fn = 3 /\ pc # "crashed" =>
          Asking /\ Wanted.start = req.start /\ Wanted.length = req.count
    /\ reply # None /\ reply.by = "scan" =>
          /\ reply.ok /\ pc # "crashed" =>
                 /\ Asking /\ Len(reply.data) >= Wanted.length
                 /\ \A a \in DOMAIN dev.made :
                       Wanted.start <= a /\ a < Wanted.start + Wanted.length
                          => Genuine(dev, held, a, Wanted.start, reply.data)
          /\ ~reply.ok => Refused

\* The client has entered the first models of the list, in their order.
Entered ==
    /\ Len(order) <= Len(conf) /\ \A i \in 1..Len(order) : order[i] = Ids[i]
    /\ Len(order) >= 1 => Ids[1] = 1
    /\ \A id \in DOMAIN settings : \E i \in 1..Len(order) :
          /\ order[i] = id /\ \A k \in (i + 1)..Len(order) : order[k] # id
          /\ settings[id] = [start |-> Bases[i] + 2, length |-> ModelLength(id)]

\* Where discovery and the scan are in the list.
Walk ==
    /\ pc \notin {"identify", "failed"} => dev.ok
    /\ pc = "identify" => order = <<>> /\ at = First /\ DOMAIN known = {}
    /\ pc \in {"next", "model", "sleep", "scan"} => Entered
    /\ pc = "next" => at = Bases[Len(order) + 1] /\ 1..Len(order) \subseteq Sound
    /\ pc = "model" => Len(order) >= 1 /\ at = Bases[Len(order)] + 2 /\ 1..(Len(order) - 1) \subseteq Sound
    /\ pc \in {"sleep", "scan"} => Len(order) = Len(conf) /\ 1..Len(order) \subseteq Sound
    /\ pc = "scan" => at \in 1..Len(order)

\* What the client keeps of the points.
KnownOK == \A n \in DOMAIN known : Supported(known[n].dt) /\ known[n].addr \in Nat /\ known[n].scaling = 0

Fixed == dev = Configure(conf)
IInv == TypeOK /\ Fixed /\ Turns /\ Steady /\ Levels /\ Reading /\ Asked /\ Walk /\ KnownOK

\* What depends on the configuration and the map alone.
LEMMA Frame ==
    ASSUME conf' = conf, dev' = dev
    PROVE  /\ Ids' = Ids /\ Bases' = Bases /\ End' = End /\ Starts' = Starts
           /\ Sound' = Sound /\ Refused' = Refused
<1>1. Ids' = Ids /\ Starts' = Starts
  BY DEF Ids, Starts
<1>2. Bases' = Bases /\ End' = End
  BY DEF Bases, End, ModelAt, Ids
<1>3. Sound' = Sound
  BY DEF Sound, Homes, ModelAt, Ids
<1>4. Refused' = Refused
  BY DEF Refused, Homes, ModelAt, Ids
<1> QED
  BY <1>1, <1>2, <1>3, <1>4

\* The map of registers has its type.
LEMMA DevType ==
    ASSUME conf \in Configs, Fixed
    PROVE  /\ \A a \in DOMAIN dev.made : a \in Nat /\ dev.made[a] \in Register
           /\ \A n \in DOMAIN dev.points : n \in STRING
           /\ Starts \in [DOMAIN dev.made -> Int]
           /\ dev.ok \in BOOLEAN
<1>1. dev \in Device
  BY ConfigureType DEF Fixed
<1>2. dev.made \in Partial(Nat, Register) /\ dev.points \in Partial(STRING, Nat) /\ dev.ok \in BOOLEAN
  BY <1>1 DEF Device
<1>3. \A a \in DOMAIN dev.made : a \in Nat /\ dev.made[a] \in Register
  BY <1>2, PartialIs
<1>4. \A n \in DOMAIN dev.points : n \in STRING
  BY <1>2, PartialIs
<1>5. Starts \in [DOMAIN dev.made -> Int]
  BY <1>3 DEF Starts, Register
<1> QED
  BY <1>2, <1>3, <1>4, <1>5

\* A configuration that was accepted has been laid out.
LEMMA LayoutIs ==
    ASSUME Plain, IInv, dev.ok
    PROVE  Layout
  BY LayoutHolds DEF IInv, TypeOK, ServerTypeOK, Fixed

\* The invariant holds at first.
LEMMA InitInv ==
    ASSUME Plain, Init
    PROVE  IInv
<1>1. conf \in Configs /\ Fixed
  BY DEF Init, ServerInit, Fixed
<1>2. internal = Starts /\ Starts \in [DOMAIN dev.made -> Int] /\ dev.ok \in BOOLEAN
  BY <1>1, DevType DEF Init, ServerInit, Starts
<1>3. ServerTypeOK
  <2>1. /\ tags \in [Tag -> Int] /\ addr \in Nat
        /\ held \in [Tag -> SUBSET Int] /\ news \in 0..MaxStatus
    <3>1. MaxStatus \in Nat
      BY ServerAssumption
    <3>2. tags = [t \in Tag |-> 0] /\ held = [t \in Tag |-> {}] /\ news = 0 /\ addr = 0
      BY DEF Init, ServerInit
    <3> QED
      BY <3>1, <3>2
  <2>4. alive \in BOOLEAN
    BY <1>2, Zenon DEF Init, ServerInit
  <2>2. internal \in [DOMAIN dev.made -> Int]
    BY <1>2
  <2>3. buf \in Seq(0..(Modulus - 1)) /\ req = None /\ reply = None
    BY DEF Init, ServerInit
  <2> QED
    BY <1>1, <2>1, <2>2, <2>3, <2>4 DEF ServerTypeOK
<1>4. TypeOK
  <2>1. order = <<>> /\ order \in Seq(DOMAIN Schema) /\ Len(order) = 0
    BY DEF Init
  <2>2. DOMAIN settings = {order[i] : i \in 1..Len(order)}
    BY <2>1 DEF Init
  <2>3. inbox \in Seq(Update)
    BY DEF Init
  <2>4. DOMAIN known \subseteq Names /\ reported \in [Names -> Int \cup {None}]
    BY DEF Init
  <2>5. at \in Nat
    BY DEF Init, First
  <2>6. /\ pc = "identify" /\ waiting = {}
        /\ updates \in 0..MaxUpdates /\ timeouts \in 0..MaxTimeouts /\ unsent \in 0..MaxUnsent
    BY ClientAssumption DEF Init
  <2>7. connected \in BOOLEAN
    BY Zenon DEF Init
  <2> QED
    BY <1>3, <2>1, <2>2, <2>3, <2>4, <2>5, <2>6, <2>7 DEF TypeOK
<1>5. Turns /\ Steady /\ Reading /\ Asked
  BY <1>2 DEF Turns, Steady, Reading, Asked, Init, ServerInit
<1>6. Levels
  BY DEF Levels, Init, ServerInit
<1>7. Walk /\ KnownOK
  BY DEF Walk, KnownOK, Init
<1> QED
  BY <1>1, <1>4, <1>5, <1>6, <1>7 DEF IInv

-----------------------------------------------------------------------------
(* What the invariant says of requests and answers.                        *)

\* The setting of a model the client has entered is that of the last one with its id.
LEMMA SettingIs ==
    ASSUME conf \in Configs, Layout, TypeOK, Entered, NEW i \in 1..Len(order)
    PROVE  \E j \in 1..Len(order) :
              /\ j \in 1..Len(conf) /\ order[j] = order[i] /\ Ids[j] = order[i]
              /\ settings[order[i]] = [start |-> Bases[j] + 2, length |-> ModelLength(Ids[j])]
              /\ i = Len(order) => j = i
<1>1. Len(order) \in Nat /\ Len(conf) \in Nat /\ Len(order) <= Len(conf)
  BY ConfType DEF TypeOK, Entered
<1>2. order[i] \in DOMAIN settings
  BY DEF TypeOK
<1>3. PICK j \in 1..Len(order) :
          /\ order[j] = order[i] /\ \A k \in (j + 1)..Len(order) : order[k] # order[i]
          /\ settings[order[i]] = [start |-> Bases[j] + 2, length |-> ModelLength(order[i])]
  BY <1>2 DEF Entered
<1>4. j \in 1..Len(conf) /\ Ids[j] = order[i]
  BY <1>1, <1>3 DEF Entered
<1>5. i = Len(order) => j = i
  BY <1>1, <1>3
<1> QED
  BY <1>3, <1>4, <1>5

\* What the scan asks for lies within the map.
LEMMA WantedServed ==
    ASSUME Plain, IInv, dev.ok, Asking
    PROVE  /\ Wanted.start \in DOMAIN dev.made /\ Wanted.start \in Nat /\ Wanted.length \in Nat
           /\ Wanted.start + Wanted.length <= End + 2
<1>1. conf \in Configs /\ Fixed /\ TypeOK /\ Walk
  BY DEF IInv, TypeOK, ServerTypeOK
<1>2. Layout /\ Row(dev.made, End + 2)
  BY LayoutIs DEF Layout
<1>3. /\ Len(conf) \in Nat /\ Bases[Len(conf) + 1] = End /\ End \in Nat
      /\ \A i \in 1..(Len(conf) + 1) : Bases[i] \in Nat /\ Bases[i] \in DOMAIN dev.made
      /\ \A i \in 1..Len(conf) : /\ ModelLength(Ids[i]) \in Nat
                                 /\ Bases[i + 1] = Bases[i] + 2 + ModelLength(Ids[i])
                                 /\ Bases[i] + 2 \in DOMAIN dev.made
  BY <1>1, <1>2, BasesIs
<1>4. \A a \in DOMAIN dev.made : a \in Nat /\ a < End + 2
  BY <1>2, <1>3, CountType DEF Row
<1>5. \A i \in 1..(Len(conf) + 1) : Bases[i] <= End
  <2> TAKE i \in 1..(Len(conf) + 1)
  <2>1. CASE i = Len(conf) + 1
    BY <1>3, <2>1
  <2>2. CASE i # Len(conf) + 1
    <3>1. i \in 1..Len(conf) /\ i + 1 \in 1..(Len(conf) + 1)
      BY <1>3, <2>2
    <3>2. Bases[i + 1] < End + 2 /\ Bases[i] \in Nat /\ ModelLength(Ids[i]) \in Nat
          /\ Bases[i + 1] = Bases[i] + 2 + ModelLength(Ids[i])
      BY <1>3, <1>4, <3>1
    <3> QED
      BY <1>3, <3>2
  <2> QED
    BY <2>1, <2>2
<1>6. ASSUME NEW i \in 1..Len(conf)
      PROVE  /\ Bases[i] + 2 \in DOMAIN dev.made /\ Bases[i] + 2 \in Nat /\ ModelLength(Ids[i]) \in Nat
             /\ (Bases[i] + 2) + ModelLength(Ids[i]) <= End + 2
  <2>1. i \in 1..(Len(conf) + 1) /\ i + 1 \in 1..(Len(conf) + 1)
    BY <1>3
  <2>2. Bases[i + 1] < End + 2 /\ Bases[i] \in Nat /\ ModelLength(Ids[i]) \in Nat
        /\ Bases[i + 1] = Bases[i] + 2 + ModelLength(Ids[i])
    BY <1>3, <1>4, <2>1
  <2> QED
    BY <1>3, <2>2
<1>7. Len(order) \in Nat
  BY <1>1 DEF TypeOK
<1>8. CASE pc = "identify"
  <2>1. Wanted = [start |-> Identifier, length |-> 2]
    BY <1>8 DEF Wanted
  <2>2. Identifier \in DOMAIN dev.made /\ dev.made[Identifier].dt = "uint32"
    <3>1. Identifier \in DOMAIN dev.made /\ dev.made[Identifier] = Static("uint32", SunS)
      BY <1>2 DEF Layout
    <3>2. Static("uint32", SunS).dt = "uint32"
      BY DEF Static
    <3> QED
      BY <3>1, <3>2
  <2>3. Identifier + 2 <= End + 2
    <3>1. Identifier + Count(dev.made[Identifier].dt) <= End + 2
      BY <1>2, <2>2 DEF Row
    <3>2. Count("uint32") = 2
      BY DEF Count, Single, Double
    <3> QED
      BY <2>2, <3>1, <3>2
  <2> QED
    BY <2>1, <2>2, <2>3 DEF Identifier
<1>9. CASE pc = "next"
  <2>1. Wanted = [start |-> at, length |-> 2]
    BY <1>9 DEF Wanted
  <2>2. at = Bases[Len(order) + 1] /\ Len(order) <= Len(conf)
    BY <1>1, <1>9 DEF Walk, Entered
  <2>3. Len(order) + 1 \in 1..(Len(conf) + 1)
    BY <1>3, <1>7, <2>2
  <2>4. at \in Nat /\ at \in DOMAIN dev.made /\ at <= End
    BY <1>3, <1>5, <2>2, <2>3
  <2> QED
    BY <1>3, <2>1, <2>4
<1>10. CASE pc = "model"
  <2>1. Wanted = [start |-> at, length |-> settings[order[Len(order)]].length]
    BY <1>10 DEF Wanted
  <2>2. at = Bases[Len(order)] + 2 /\ Len(order) <= Len(conf) /\ Len(order) >= 1 /\ Entered
    BY <1>1, <1>10 DEF Walk, Entered
  <2>3. Len(order) \in 1..Len(order) /\ Len(order) \in 1..Len(conf)
    BY <1>3, <1>7, <2>2
  <2>4. settings[order[Len(order)]] = [start |-> Bases[Len(order)] + 2, length |-> ModelLength(Ids[Len(order)])]
    BY <1>1, <1>2, <2>2, <2>3, SettingIs
  <2> QED
    BY <1>6, <2>1, <2>2, <2>3, <2>4
<1>11. CASE pc = "scan"
  <2>1. Wanted = settings[order[at]]
    BY <1>11 DEF Wanted
  <2>2. at \in 1..Len(order) /\ Entered
    BY <1>1, <1>11 DEF Walk
  <2>3. PICK j \in 1..Len(conf) : settings[order[at]] = [start |-> Bases[j] + 2, length |-> ModelLength(Ids[j])]
    BY <1>1, <1>2, <2>2, SettingIs
  <2> QED
    BY <1>6, <2>1, <2>3
<1> QED
  BY <1>8, <1>9, <1>10, <1>11 DEF Asking

\* Every point has a name.
LEMMA NoName ==
    ASSUME conf \in Configs, Layout
    PROVE  "" \notin DOMAIN dev.points
<1> SUFFICES ASSUME "" \in DOMAIN dev.points
             PROVE  FALSE
  OBVIOUS
<1>1. PICK i \in 1..Len(conf) : \E j \in 1..Len(Schema[Ids[i]]) : PointOf(i, j).name = ""
  BY DEF Layout
<1>2. PICK j \in 1..Len(Schema[Ids[i]]) : PointOf(i, j).name = ""
  BY <1>1
<1>3. Ids[i] \in DOMAIN Schema
  BY DEF Layout, Named
<1>4. PointOf(i, j).name # ""
  BY <1>3, PointFacts DEF PointOf
<1> QED
  BY <1>2, <1>4

\* The word of a header in an answer.
LEMMA HeaderRead ==
    ASSUME conf \in Configs, Layout, NEW a \in DOMAIN dev.made, NEW n \in 0..(Modulus - 1),
           Header(dev.made[a], n), NEW start, NEW data, Genuine(dev, held, a, start, data)
    PROVE  data[a - start + 1] = n
<1> DEFINE r == dev.made[a]
<1>1. r.dt = "uint16" /\ r.sf = "" /\ r.scaling = 0 /\ r.tag = "" /\ r.start = Unit * n
  BY DEF Header
<1>2. Standing(dev, r) = 0
  BY <1>1, NoName DEF Standing
<1>3. Values(dev, held, a) = {n * Unit}
  <2>1. Unit * n = n * Unit
    BY ModulusType
  <2> QED
    BY <1>1, <2>1 DEF Values
<1>4. Slice(Count(r.dt), a - start, data) \in Bytes(r, n * Unit, 0)
  BY <1>2, <1>3 DEF Genuine
<1>5. Supported(r.dt) /\ r.dt \notin Text /\ Count(r.dt) = 1 /\ ~Signed(r.dt)
  BY <1>1 DEF Supported, Text, Count, Single, Double, Signed
<1>6. n \in Int /\ Fits(r.dt, n)
  <2>1. Power(Modulus, Count(r.dt)) = Modulus
    BY <1>5, Weights
  <2>2. 0 <= n /\ n < Modulus
    BY ModulusType
  <2> QED
    BY <1>5, <2>1, <2>2 DEF Fits
<1> HIDE DEF r
<1>7. Integer(r, Slice(Count(r.dt), a - start, data)) = n
  BY <1>1, <1>4, <1>5, <1>6, WholeBack
<1>8. Integer(r, Slice(Count(r.dt), a - start, data)) = Slice(Count(r.dt), a - start, data)[1]
  BY <1>5 DEF Integer
<1>9. Slice(1, a - start, data)[1] = data[a - start + 1]
  BY DEF Slice
<1> QED
  BY <1>5, <1>7, <1>8, <1>9

-----------------------------------------------------------------------------
(* Steps of the server.                                                    *)

\* The scale factor of a register, while the registers keep their numbers.
LEMMA FactorIs ==
    ASSUME conf \in Configs, Fixed, Layout, NEW r
    PROVE  /\ Standing(dev, r) \in Int
           /\ internal = Starts => Factor(r) = Standing(dev, r)
<1>1. CASE r.sf \in DOMAIN dev.points
  <2>1. dev.points[r.sf] \in DOMAIN dev.made
    BY <1>1 DEF Layout
  <2>2. dev.made[dev.points[r.sf]].start \in Int
    BY <2>1, DevType DEF Register
  <2>3. dev.made[dev.points[r.sf]].start \div Unit \in Int
    BY <2>2, ModulusType
  <2>4. Starts[dev.points[r.sf]] = dev.made[dev.points[r.sf]].start
    BY <2>1 DEF Starts
  <2>5. Standing(dev, r) = dev.made[dev.points[r.sf]].start \div Unit
    BY <1>1 DEF Standing
  <2>6. Factor(r) = internal[dev.points[r.sf]] \div Unit
    BY <1>1 DEF Factor
  <2> QED
    BY <2>3, <2>4, <2>5, <2>6
<1>2. CASE r.sf \notin DOMAIN dev.points
  BY <1>2 DEF Standing, Factor
<1> QED
  BY <1>1, <1>2

\* Words stay genuine when a tag has had more values.
LEMMA GenuineMore ==
    ASSUME NEW hld, NEW new, \A t \in Tag : hld[t] \subseteq new[t],
           NEW a, dev.made[a].tag \in Tag \cup {""}, NEW start, NEW data, Genuine(dev, hld, a, start, data)
    PROVE  Genuine(dev, new, a, start, data)
<1>1. Values(dev, hld, a) \subseteq Values(dev, new, a)
  BY DEF Values
<1> QED
  BY <1>1 DEF Genuine

\* Words stay genuine when more follow.
LEMMA GenuineAppend ==
    ASSUME NEW hld, NEW a \in Nat, Supported(dev.made[a].dt), NEW start \in Nat, start <= a,
           NEW data \in Seq(Word), Genuine(dev, hld, a, start, data), NEW ws \in Seq(Word)
    PROVE  Genuine(dev, hld, a, start, data \o ws)
<1> DEFINE c == Count(dev.made[a].dt)
<1>1. c \in Nat
  BY CountType
<1>2. a - start + c <= Len(data) /\ Len(data) \in Nat /\ Len(ws) \in Nat
  BY DEF Genuine
<1>3. Len(data \o ws) = Len(data) + Len(ws)
  OBVIOUS
<1>4. Slice(c, a - start, data \o ws) = Slice(c, a - start, data)
  <2>1. \A i \in 1..c : (data \o ws)[a - start + i] = data[a - start + i]
    <3> TAKE i \in 1..c
    <3>1. a - start + i \in 1..Len(data)
      BY <1>1, <1>2
    <3> QED
      BY <3>1
  <2> QED
    BY <2>1 DEF Slice
<1>5. a - start + c <= Len(data \o ws)
  BY <1>1, <1>2, <1>3
<1> QED
  BY <1>4, <1>5 DEF Genuine

\* The words that were appended last.
LEMMA SliceLast ==
    ASSUME NEW c \in Nat, NEW data \in Seq(Word), NEW ws \in [1..c -> Word]
    PROVE  /\ Slice(c, Len(data), data \o ws) = ws
           /\ data \o ws \in Seq(Word) /\ Len(data \o ws) = Len(data) + c
<1>1. ws \in Seq(Word) /\ Len(ws) = c /\ DOMAIN ws = 1..c
  OBVIOUS
<1>2. data \o ws \in Seq(Word) /\ Len(data \o ws) = Len(data) + c /\ Len(data) \in Nat
  BY <1>1
<1>3. \A i \in 1..c : (data \o ws)[Len(data) + i] = ws[i]
  BY <1>1
<1>4. ws = [i \in 1..c |-> ws[i]]
  OBVIOUS
<1> QED
  BY <1>2, <1>3, <1>4 DEF Slice

\* A step of the server leaves the client alone.
LEMMA ClientSame ==
    ASSUME IInv, UNCHANGED clientVars, conf' = conf, dev' = dev
    PROVE  /\ Walk' /\ KnownOK' /\ Wanted' = Wanted /\ Asking' = Asking
           /\ ServerTypeOK' => TypeOK'
<1>1. Walk'
  BY Frame DEF IInv, Walk, Entered, clientVars
<1>2. KnownOK' /\ Wanted' = Wanted /\ Asking' = Asking
  BY DEF IInv, KnownOK, Wanted, Asking, clientVars
<1>3. ServerTypeOK' => TypeOK'
  BY DEF IInv, TypeOK, clientVars
<1> QED
  BY <1>1, <1>2, <1>3

\* Points of a schema are numbered.
LEMMA SchemaSeq ==
    ASSUME NEW id \in DOMAIN Schema
    PROVE  DOMAIN Schema[id] = 1..Len(Schema[id])
<1>1. Schema[id] \in Seq(Point)
  BY SchemaAssumption DEF Point
<1> QED
  BY <1>1

\* A read is refused for a scale factor that is not a point of the device.
LEMMA RefuseRead ==
    ASSUME Plain, IInv, Refuse, req.fn = 3
    PROVE  Refused
<1>1. /\ conf \in Configs /\ Fixed /\ Layout /\ req # None /\ More /\ Reading
      /\ req.start \in Nat /\ req.count \in Nat /\ addr \in Nat
  <2>1. req # None /\ alive /\ More
    BY DEF Refuse, Serving
  <2>2. dev.ok
    BY <2>1 DEF IInv, Turns
  <2> QED
    BY <2>1, <2>2, LayoutIs DEF IInv, TypeOK, ServerTypeOK
<1>2. addr \in DOMAIN dev.made \cup {End + 2} /\ req.start + req.count <= End + 2
  BY <1>1 DEF Reading
<1>3. addr # End + 2
  <2>1. End \in Nat
    BY <1>1, BasesIs
  <2> QED
    BY <1>1, <1>2, <2>1 DEF More
<1>4. addr \in DOMAIN dev.made
  BY <1>2, <1>3
<1>5. Mapped /\ Home = addr
  BY <1>1, <1>4 DEF Mapped, Home, Layout
<1>6. NoFactor(dev.made[addr])
  BY <1>5 DEF Refuse, Reg
<1>7. PICK i \in 1..Len(conf) : \E j \in 1..Len(Schema[Ids[i]]) : PointOf(i, j).sf = dev.made[addr].sf
  BY <1>1, <1>4, <1>6 DEF NoFactor, Layout
<1>8. PICK j \in 1..Len(Schema[Ids[i]]) : PointOf(i, j).sf = dev.made[addr].sf
  BY <1>7
<1> DEFINE p == PointOf(i, j)
<1>9. Ids[i] \in DOMAIN Schema
  BY <1>1 DEF Layout, Named
<1>10. p \in Range(Schema[Ids[i]]) /\ p.sf \notin {"ID", "L"}
  <2>1. DOMAIN Schema[Ids[i]] = 1..Len(Schema[Ids[i]])
    BY <1>9, SchemaSeq
  <2>2. p \in Range(Schema[Ids[i]])
    BY <2>1 DEF PointOf, Range
  <2>3. p.sf \notin {"ID", "L"}
    BY <1>9, PointFacts DEF PointOf
  <2> QED
    BY <2>2, <2>3
<1>11. p.sf # "" /\ p.sf \notin DOMAIN dev.points
  BY <1>6, <1>8 DEF NoFactor
<1> HIDE DEF p
<1>12. Homes(p.sf) = {}
  BY <1>1, <1>10, <1>11, HomesAre
<1> QED
  BY <1>10, <1>11, <1>12 DEF Refused

\* What a server that runs works with.
LEMMA ServingFacts ==
    ASSUME Plain, IInv, alive
    PROVE  /\ conf \in Configs /\ Fixed /\ Layout /\ dev.ok /\ addr \in Nat
           /\ dev.registers = [a \in DOMAIN dev.made |-> a]
           /\ Mapped <=> addr \in DOMAIN dev.made
           /\ Mapped => Home = addr /\ Reg = dev.made[addr]
           /\ req # None => /\ req.fn \in {3, 16} /\ req.start \in Nat /\ req.count \in Nat
                            /\ reply = None
<1>1. dev.ok /\ (req # None => reply = None)
  BY DEF IInv, Turns
<1>2. conf \in Configs /\ Fixed /\ Layout
  BY <1>1, LayoutIs DEF IInv, TypeOK, ServerTypeOK
<1>3. dev.registers = [a \in DOMAIN dev.made |-> a]
  BY <1>2 DEF Layout
<1>4. (Mapped <=> addr \in DOMAIN dev.made) /\ (Mapped => Home = addr /\ Reg = dev.made[addr])
  BY <1>3 DEF Mapped, Home, Reg
<1>5. addr \in Nat /\ (req # None => req.fn \in {3, 16} /\ req.start \in Nat /\ req.count \in Nat)
  BY DEF IInv, TypeOK, ServerTypeOK
<1> QED
  BY <1>1, <1>2, <1>3, <1>4, <1>5

\* Refuse keeps the invariant: a read of the scan is refused only for want of a scale factor.
LEMMA RefuseInv ==
    ASSUME Plain, IInv, Refuse, UNCHANGED clientVars
    PROVE  IInv'
<1>1. /\ alive /\ req # None /\ More /\ (Mapped => NoFactor(Reg))
      /\ reply' = [by |-> req.by, ok |-> FALSE, data |-> <<>>] /\ req' = None
      /\ UNCHANGED <<conf, dev, tags, internal, alive, addr, buf, held, news>>
  BY DEF Refuse, Serving, Respond
<1>2. waiting' = waiting
  BY DEF clientVars
<1>3. ~Hung
  BY <1>1 DEF Hung
<1>4. req.fn \in {3, 16} /\ (req.fn = 16 => req.by = "write" /\ waiting = {"write"})
      /\ (req.fn = 3 => req.by = "scan" /\ waiting = {"scan"}) /\ dev.ok
  BY <1>1, <1>3 DEF IInv, TypeOK, ServerTypeOK, Turns
<1>5. Walk' /\ KnownOK' /\ (ServerTypeOK' => TypeOK') /\ Refused' = Refused /\ Starts' = Starts
  BY <1>1, ClientSame, Frame
<1>6. ServerTypeOK'
  <2>1. reply'.ok \in BOOLEAN
    BY <1>1, Zenon
  <2>2. reply'.data \in Seq(0..(Modulus - 1))
    BY <1>1
  <2> QED
    BY <1>1, <2>1, <2>2 DEF IInv, TypeOK, ServerTypeOK
<1>7. Turns'
  <2>1. reply'.by = req.by
    BY <1>1
  <2> QED
    BY <1>1, <1>2, <1>4, <2>1 DEF IInv, Turns
<1>8. Steady' /\ Levels' /\ Reading' /\ Fixed'
  BY <1>1, <1>3, <1>5 DEF IInv, Steady, Levels, Reading, Fixed
<1>9. Asked'
  <2>1. reply'.by = req.by /\ reply'.ok = FALSE
    BY <1>1
  <2>2. req.by = "scan" => Refused'
    BY <1>4, <1>5, RefuseRead
  <2> QED
    BY <1>1, <2>1, <2>2 DEF Asked
<1> QED
  BY <1>5, <1>6, <1>7, <1>8, <1>9 DEF IInv

\* ReadNext keeps the invariant: it appends a register and goes to the next one.
LEMMA ReadNextInv ==
    ASSUME Plain, IInv, ReadNext, UNCHANGED clientVars
    PROVE  IInv'
<1>1. /\ alive /\ req # None /\ req.fn = 3 /\ More /\ Mapped /\ ~NoFactor(Reg)
      /\ addr' = addr + Count(Reg.dt)
      /\ UNCHANGED <<conf, dev, tags, internal, alive, req, reply, held, news>>
  BY DEF ReadNext, Serving
<1>2. /\ conf \in Configs /\ Fixed /\ Layout /\ addr \in Nat /\ addr \in DOMAIN dev.made
      /\ Home = addr /\ Reg = dev.made[addr] /\ req.start \in Nat /\ reply = None
  BY <1>1, ServingFacts
<1> DEFINE r == dev.made[addr]
<1>3. r \in Register /\ Supported(r.dt) /\ Row(dev.made, End + 2) /\ r.tag \in Tag \cup {""}
  BY <1>2, DevType DEF Layout, Row, Register
<1>4. /\ req.start <= addr /\ Len(buf) = addr - req.start
      /\ req.start \in DOMAIN dev.made /\ req.start + req.count <= End + 2
      /\ \A a \in DOMAIN dev.made : req.start <= a /\ a < addr => Genuine(dev, held, a, req.start, buf)
      /\ \A t \in Tag : tags[t] \in held[t]
  BY <1>1 DEF IInv, Reading
<1>5. ~Hung /\ internal = Starts
  BY <1>1 DEF IInv, Steady, Hung
<1>6. Factor(r) = Standing(dev, r) /\ Standing(dev, r) \in Int
  BY <1>2, <1>5, FactorIs
<1> DEFINE v == IF r.tag = "" THEN internal[addr] ELSE tags[r.tag]
<1>8. v \in Values(dev, held, addr) /\ v \in Int
  <2>1. internal[addr] = r.start
    BY <1>2, <1>5 DEF Starts
  <2>2. internal[addr] \in Int /\ tags \in [Tag -> Int]
    BY <1>2 DEF IInv, TypeOK, ServerTypeOK
  <2> QED
    BY <1>3, <1>4, <2>1, <2>2 DEF Values
<1> HIDE DEF v
<1>7. PICK ws : ws \in Bytes(r, v, Standing(dev, r)) /\ buf' = buf \o ws
  <2>1. \E ws \in Bytes(Reg, Current, Factor(Reg)) : buf' = buf \o ws
    BY DEF ReadNext
  <2>2. Current = v
    <3>1. "" \notin dev.tags
      BY <1>2 DEF Layout, Clean
    <3> QED
      BY <1>2, <3>1 DEF Current, v
  <2> QED
    BY <1>2, <1>6, <2>1, <2>2
<1>9. r.scaling \in Int /\ buf \in Seq(Word)
  <2>1. r.scaling \in Int
    <3>1. r \in Register
      BY <1>3
    <3>2. \A q \in Register : q.scaling \in Nat
      BY DEF Register
    <3> QED
      BY <3>1, <3>2
  <2>2. buf \in Seq(Word)
    BY DEF IInv, TypeOK, ServerTypeOK, Word
  <2> QED
    BY <2>1, <2>2
<1>10. ws \in Bytes(r, v, Standing(dev, r))
  BY <1>7
<1>11. ws \in [1..Count(r.dt) -> Word]
  <2> HIDE DEF r
  <2> QED
    BY <1>3, <1>6, <1>8, <1>9, <1>10, BytesType
<1>12. ~Lacks(dev, r)
  BY <1>1, <1>2 DEF Lacks, NoFactor
<1>13. /\ Genuine(dev, held, addr, req.start, buf \o ws)
       /\ buf \o ws \in Seq(Word) /\ Len(buf \o ws) = Len(buf) + Count(r.dt)
  <2>1. Count(r.dt) \in Nat
    BY <1>3, CountType
  <2>2. /\ Slice(Count(r.dt), addr - req.start, buf \o ws) = ws
        /\ buf \o ws \in Seq(Word) /\ Len(buf \o ws) = Len(buf) + Count(r.dt)
    <3> DEFINE c == Count(r.dt)
    <3>1. c \in Nat /\ ws \in [1..c -> Word] /\ buf \in Seq(Word) /\ addr - req.start = Len(buf)
      BY <1>4, <1>9, <1>11, <2>1
    <3> HIDE DEF c
    <3>2. /\ Slice(c, Len(buf), buf \o ws) = ws
          /\ buf \o ws \in Seq(Word) /\ Len(buf \o ws) = Len(buf) + c
      BY <3>1, SliceLast, Zenon
    <3> QED
      BY <3>1, <3>2 DEF c
  <2>3. addr - req.start + Count(r.dt) <= Len(buf \o ws)
    BY <1>2, <1>4, <2>1, <2>2
  <2> QED
    BY <1>8, <1>10, <1>12, <2>2, <2>3 DEF Genuine
<1> DEFINE n == Count(r.dt)
<1>14. n \in Nat \ {0} /\ Len(buf \o ws) = Len(buf) + n /\ addr' = addr + n /\ ws \in [1..n -> Word]
  BY <1>1, <1>2, <1>3, <1>11, <1>13, CountType
<1> HIDE DEF n
<1>15. addr' = addr + n /\ addr' \in Nat /\ buf' = buf \o ws
  BY <1>2, <1>7, <1>14
<1>16. Walk' /\ KnownOK' /\ (ServerTypeOK' => TypeOK') /\ Wanted' = Wanted /\ Asking' = Asking
       /\ Refused' = Refused /\ Starts' = Starts /\ End' = End /\ UNCHANGED clientVars
  BY <1>1, ClientSame, Frame
<1>17. ServerTypeOK'
  BY <1>1, <1>13, <1>15 DEF IInv, TypeOK, ServerTypeOK, Word
<1>18. Turns' /\ Levels' /\ Fixed'
  <2>1. req'.fn = 3
    BY <1>1
  <2> QED
    BY <1>1, <1>16, <2>1 DEF IInv, Turns, Levels, Fixed, clientVars
<1>19. Steady'
  BY <1>1, <1>5, <1>16 DEF Steady
<1>20. Reading'
  <2>1. addr' \in DOMAIN dev.made \cup {End + 2}
    BY <1>2, <1>3, <1>15 DEF Row, n
  <2>2. ASSUME NEW a \in DOMAIN dev.made, req.start <= a, a < addr'
        PROVE  Genuine(dev, held, a, req.start, buf')
    <3>1. a \in Nat /\ Supported(dev.made[a].dt)
      BY <1>3 DEF Row
    <3>2. CASE a = addr
      BY <1>13, <1>15, <3>2
    <3>3. CASE a < addr
      <4>1. ws \in Seq(Word)
        BY <1>11, <1>14
      <4>2. Genuine(dev, held, a, req.start, buf)
        BY <1>4, <2>2, <3>3
      <4> QED
        BY <1>2, <1>9, <1>15, <2>2, <3>1, <4>1, <4>2, GenuineAppend
    <3>4. CASE addr < a
      <4>1. addr + n <= a
        BY <1>2, <1>3, <3>4 DEF Row, n
      <4> QED
        BY <1>2, <1>14, <1>15, <2>2, <3>1, <4>1
    <3> QED
      BY <1>2, <3>1, <3>2, <3>3, <3>4
  <2>3. Len(buf') = addr' - req.start /\ req.start <= addr'
    <3>1. Len(buf') = Len(buf) + n /\ addr' = addr + n /\ n \in Nat
      BY <1>14, <1>15
    <3>2. req.start \in Nat /\ addr \in Nat /\ req.start <= addr /\ Len(buf) = addr - req.start
      BY <1>2, <1>4
    <3> QED
      BY <3>1, <3>2
  <2> QED
    BY <1>1, <1>4, <1>16, <2>1, <2>2, <2>3 DEF Reading
<1>21. Asked'
  BY <1>1, <1>2, <1>16 DEF IInv, Asked, clientVars
<1> QED
  BY <1>16, <1>17, <1>18, <1>19, <1>20, <1>21 DEF IInv

\* ReadDone keeps the invariant: the answer has every register of the request.
LEMMA ReadDoneInv ==
    ASSUME Plain, IInv, ReadDone, UNCHANGED clientVars
    PROVE  IInv'
<1>1. /\ alive /\ req # None /\ req.fn = 3 /\ ~More
      /\ reply' = [by |-> req.by, ok |-> TRUE, data |-> buf] /\ req' = None
      /\ UNCHANGED <<conf, dev, tags, internal, alive, addr, buf, held, news>>
  BY DEF ReadDone, Serving, Respond
<1>2. /\ conf \in Configs /\ Fixed /\ Layout /\ addr \in Nat
      /\ req.start \in Nat /\ req.count \in Nat
  BY <1>1, ServingFacts
<1>3. ~Hung /\ internal = Starts
  BY <1>1 DEF IInv, Steady, Hung
<1>4. /\ req.start <= addr /\ Len(buf) = addr - req.start
      /\ \A a \in DOMAIN dev.made : req.start <= a /\ a < addr => Genuine(dev, held, a, req.start, buf)
  BY <1>1 DEF IInv, Reading
<1>5. Walk' /\ KnownOK' /\ (ServerTypeOK' => TypeOK') /\ Wanted' = Wanted /\ Asking' = Asking
      /\ Refused' = Refused /\ Starts' = Starts /\ waiting' = waiting /\ pc' = pc
  BY <1>1, ClientSame, Frame DEF clientVars
<1>6. req.by = "scan" /\ waiting = {"scan"}
  BY <1>1 DEF IInv, Turns
<1>7. ServerTypeOK'
  <2>1. reply'.ok \in BOOLEAN
    BY <1>1, Zenon
  <2>2. reply'.data \in Seq(0..(Modulus - 1))
    BY <1>1 DEF IInv, TypeOK, ServerTypeOK
  <2> QED
    BY <1>1, <2>1, <2>2 DEF IInv, TypeOK, ServerTypeOK
<1>8. Turns'
  <2>1. reply'.by = req.by
    BY <1>1
  <2> QED
    BY <1>1, <1>5, <1>6, <2>1 DEF IInv, Turns
<1>9. Steady' /\ Levels' /\ Reading' /\ Fixed'
  BY <1>1, <1>3, <1>5 DEF IInv, Steady, Levels, Reading, Fixed
<1>10. Asked'
  <2>1. reply'.ok = TRUE /\ reply'.data = buf /\ reply'.by = "scan"
    BY <1>1, <1>6
  <2>2. addr >= req.start + req.count
    BY <1>1, <1>2 DEF More
  <2>3. pc # "crashed" => Asking /\ Wanted.start = req.start /\ Wanted.length = req.count
    BY <1>1 DEF IInv, Asked
  <2>4. ASSUME pc # "crashed"
        PROVE  /\ Asking /\ Len(buf) >= Wanted.length
               /\ \A a \in DOMAIN dev.made :
                     Wanted.start <= a /\ a < Wanted.start + Wanted.length
                        => Genuine(dev, held, a, Wanted.start, buf)
    <3>1. Len(buf) >= req.count
      BY <1>2, <1>4, <2>2
    <3>2. ASSUME NEW a \in DOMAIN dev.made, req.start <= a, a < req.start + req.count
          PROVE  Genuine(dev, held, a, req.start, buf)
      <4>1. a \in Nat
        BY <1>2, DevType
      <4> QED
        BY <1>2, <1>4, <2>2, <3>2, <4>1
    <3> QED
      BY <2>3, <2>4, <3>1, <3>2
  <2> QED
    BY <1>1, <1>5, <2>1, <2>4 DEF Asked
<1> QED
  BY <1>5, <1>7, <1>8, <1>9, <1>10 DEF IInv

\* Write keeps the invariant: if it changes a register, it hangs.
LEMMA WriteInv ==
    ASSUME Plain, IInv, Write, UNCHANGED clientVars
    PROVE  IInv'
<1>1. /\ alive /\ req # None /\ req.fn = 16 /\ Mapped /\ ~NoFactor(Reg)
      /\ UNCHANGED <<conf, dev, tags, addr, buf, held, news>>
  BY DEF Write, Serving
<1>2. /\ conf \in Configs /\ Fixed /\ Layout /\ addr \in DOMAIN dev.made /\ dev.ok
      /\ Home = addr /\ Reg = dev.made[addr] /\ reply = None
  BY <1>1, ServingFacts
<1>3. Walk' /\ KnownOK' /\ (ServerTypeOK' => TypeOK') /\ Refused' = Refused /\ Starts' = Starts
      /\ waiting' = waiting /\ pc' = pc
  BY <1>1, ClientSame, Frame DEF clientVars
<1>4. req.by = "write" /\ (Hung \/ waiting = {"write"}) /\ req.data \in Seq(Word)
      /\ waiting \in {{}, {"scan"}, {"write"}}
  BY <1>1 DEF IInv, Turns
<1>5. Levels' /\ Fixed'
  BY <1>1 DEF IInv, Levels, Fixed
<1>6. CASE alive' = FALSE /\ UNCHANGED <<internal, reply, req>>
  <2>1. ServerTypeOK'
    <3>1. alive' \in BOOLEAN
      BY <1>6, Zenon
    <3> QED
      BY <1>1, <1>6, <3>1 DEF IInv, TypeOK, ServerTypeOK
  <2>2. Turns' /\ Steady' /\ Reading' /\ Asked'
    BY <1>1, <1>2, <1>3, <1>4, <1>6 DEF Turns, Steady, Reading, Asked
  <2> QED
    BY <1>3, <1>5, <2>1, <2>2 DEF IInv
<1>7. CASE Reg.dt \in Text /\ Respond(FALSE, <<>>) /\ UNCHANGED <<internal, alive>>
  <2>1. reply' = [by |-> req.by, ok |-> FALSE, data |-> <<>>] /\ req' = None /\ alive' = alive /\ internal' = internal
    BY <1>7 DEF Respond
  <2>2. reply'.ok = FALSE /\ reply'.by = "write" /\ reply'.data = <<>>
    BY <1>4, <2>1
  <2>3. ServerTypeOK'
    <3>1. reply'.ok \in BOOLEAN
      BY <2>2, Zenon
    <3>2. reply'.data \in Seq(0..(Modulus - 1))
      BY <2>2
    <3> QED
      BY <1>1, <2>1, <3>1, <3>2 DEF IInv, TypeOK, ServerTypeOK
  <2>4. ~Hung
    BY <1>7 DEF Hung
  <2>5. Turns'
    BY <1>1, <1>2, <1>3, <1>4, <2>1, <2>2, <2>4 DEF Turns
  <2>6. Steady' /\ Reading' /\ Asked'
    BY <1>1, <1>3, <2>1, <2>2, <2>4 DEF IInv, Steady, Reading, Asked
  <2> QED
    BY <1>3, <1>5, <2>3, <2>5, <2>6 DEF IInv
<1>8. CASE /\ Reg.dt \notin Text
           /\ internal' = IF Reg.tag # "" \/ Count(Reg.dt) > Len(req.data) THEN internal
                         ELSE [internal EXCEPT ![Home] =
                                  ValueOf(Reg, SubSeq(req.data, 1, Count(Reg.dt)), Factor(Reg))]
           /\ UNCHANGED <<alive, reply, req>>
  <2>1. Hung
    BY <1>1, <1>8 DEF Hung, Serving
  <2>2. Hung'
    BY <1>1, <1>8, <2>1 DEF Hung, Serving, Mapped, NoFactor, Reg, Home
  <2>3. internal \in [DOMAIN dev.made -> Int]
    BY DEF IInv, TypeOK, ServerTypeOK
  <2>4. internal' \in [DOMAIN dev.made -> Int]
    <3> DEFINE r == dev.made[addr]
               c == Count(r.dt)
               d == req.data
    <3>1. CASE Reg.tag # "" \/ Count(Reg.dt) > Len(req.data)
      BY <1>8, <2>3, <3>1
    <3>2. CASE ~(Reg.tag # "" \/ Count(Reg.dt) > Len(req.data))
      <4>1. r \in Register /\ Supported(r.dt) /\ r.dt \notin Text
        BY <1>2, <1>8, DevType DEF Layout, Row
      <4>2. \A q \in Register : q.scaling \in Nat
        BY DEF Register
      <4>3. c \in Nat /\ c <= Len(d) /\ Len(d) \in Nat /\ d \in Seq(Word)
        <5>1. c \in Nat
          BY <4>1, CountType
        <5>2. ~(c > Len(d)) /\ d \in Seq(Word)
          BY <1>2, <1>4, <3>2
        <5> HIDE DEF c, d
        <5>3. Len(d) \in Nat
          BY <5>2
        <5> QED
          BY <5>1, <5>2, <5>3
      <4> HIDE DEF c, d
      <4>4. SubSeq(d, 1, c) \in [1..c -> Word]
        <5>1. Len(SubSeq(d, 1, c)) = c /\ \A i \in 1..c : SubSeq(d, 1, c)[i] = d[i]
          BY <4>3, SubSeqProperties
        <5>2. SubSeq(d, 1, c) \in Seq(Word)
          BY <4>3, SubSeqProperties
        <5> DEFINE s == SubSeq(d, 1, c)
        <5> HIDE DEF s
        <5>3. s \in Seq(Word) /\ Len(s) = c
          BY <5>1, <5>2 DEF s
        <5>4. s \in [1..Len(s) -> Word]
          BY <5>3
        <5> QED
          BY <5>3, <5>4 DEF s
      <4>5. Factor(r) \in Int
        <5>1. CASE r.sf \in DOMAIN dev.points
          <6>1. dev.points[r.sf] \in DOMAIN dev.made
            BY <1>2, <5>1 DEF Layout
          <6>2. internal[dev.points[r.sf]] \in Int
            BY <2>3, <6>1
          <6> QED
            BY <5>1, <6>2, ModulusType DEF Factor
        <5>2. CASE r.sf \notin DOMAIN dev.points
          BY <5>2 DEF Factor
        <5> QED
          BY <5>1, <5>2
      <4>6. r.scaling \in Int
        BY <4>1, <4>2
      <4> HIDE DEF r
      <4>7. ValueOf(r, SubSeq(d, 1, c), Factor(r)) \in Int
        BY <4>1, <4>4, <4>5, <4>6, ValueType DEF c
      <4>8. internal' = [internal EXCEPT ![addr] = ValueOf(r, SubSeq(d, 1, c), Factor(r))]
        BY <1>2, <1>8, <3>2 DEF r, c, d
      <4> QED
        BY <1>2, <2>3, <4>7, <4>8
    <3> QED
      BY <3>1, <3>2
  <2>5. ServerTypeOK'
    BY <1>1, <1>8, <2>4 DEF IInv, TypeOK, ServerTypeOK
  <2>6. alive' = alive /\ reply' = reply /\ req' = req /\ dev' = dev /\ held' = held
    BY <1>1, <1>8
  <2>7. Turns' /\ Steady' /\ Reading' /\ Asked'
    <3>1. Turns'
      BY <1>1, <1>2, <1>3, <1>4, <2>2, <2>6 DEF Turns
    <3>2. Steady' /\ Reading' /\ Asked'
      BY <1>1, <1>2, <2>2, <2>6 DEF Steady, Reading, Asked
    <3> QED
      BY <3>1, <3>2
  <2> QED
    BY <1>3, <1>5, <2>5, <2>7 DEF IInv
<1> QED
  BY <1>6, <1>7, <1>8 DEF Write

\* Status keeps the invariant: the new value is among those the tag has had.
LEMMA StatusInv ==
    ASSUME Plain, IInv, NEW t \in Tag, NEW v \in Level[t], Status(t, v), UNCHANGED clientVars
    PROVE  IInv'
<1>1. /\ alive /\ news < MaxStatus /\ news' = news + 1 /\ tags' = [tags EXCEPT ![t] = v]
      /\ held' = IF req # None \/ reply # None THEN [held EXCEPT ![t] = @ \cup {v}] ELSE held
      /\ UNCHANGED <<conf, dev, internal, alive, req, addr, buf, reply>>
  BY DEF Status
<1>2. conf \in Configs /\ Fixed /\ Layout
  BY <1>1, ServingFacts
<1>3. Walk' /\ KnownOK' /\ (ServerTypeOK' => TypeOK') /\ Refused' = Refused /\ Starts' = Starts
      /\ waiting' = waiting /\ pc' = pc /\ End' = End /\ Wanted' = Wanted /\ Asking' = Asking
  BY <1>1, ClientSame, Frame DEF clientVars
<1>4. v \in Int /\ tags \in [Tag -> Int] /\ held \in [Tag -> SUBSET Int]
  BY ServerAssumption DEF IInv, TypeOK, ServerTypeOK
<1>5. /\ held' \in [Tag -> SUBSET Int] /\ tags' \in [Tag -> Int]
      /\ \A u \in Tag : held[u] \subseteq held'[u] /\ held'[u] \subseteq held[u] \cup {v}
      /\ \A u \in Tag : u # t => tags'[u] = tags[u] /\ held'[u] = held[u]
      /\ tags'[t] = v
      /\ req # None \/ reply # None => v \in held'[t]
  BY <1>1, <1>4
<1>6. ServerTypeOK'
  <2>1. news' \in 0..MaxStatus
    <3>1. news \in 0..MaxStatus /\ MaxStatus \in Nat
      BY ServerAssumption DEF IInv, TypeOK, ServerTypeOK
    <3> QED
      BY <1>1, <3>1
  <2> QED
    BY <1>1, <1>5, <2>1 DEF IInv, TypeOK, ServerTypeOK
<1>7. Hung' = Hung
  BY <1>1 DEF Hung, Serving, Mapped, NoFactor, Reg, Home
<1>8. Turns' /\ Steady' /\ Fixed'
  BY <1>1, <1>3, <1>7 DEF IInv, Turns, Steady, Fixed
<1>9. Levels'
  <2>1. \A u \in Tag : tags[u] \in {0} \cup Level[u] /\ held[u] \subseteq {0} \cup Level[u]
    BY DEF IInv, Levels
  <2>2. ASSUME NEW u \in Tag
        PROVE  tags'[u] \in {0} \cup Level[u] /\ held'[u] \subseteq {0} \cup Level[u]
    <3>1. CASE u = t
      BY <1>5, <2>1, <3>1
    <3>2. CASE u # t
      BY <1>5, <2>1, <3>2
    <3> QED
      BY <3>1, <3>2
  <2> QED
    BY <2>2 DEF Levels
<1>10. \A a \in DOMAIN dev.made : dev.made[a].tag \in Tag \cup {""}
  <2>1. \A q \in Register : q.tag \in Tag \cup {""}
    BY DEF Register
  <2> QED
    BY <1>2, <2>1, DevType
<1>11. \A start, data : \A a \in DOMAIN dev.made :
          Genuine(dev, held, a, start, data) => Genuine(dev, held', a, start, data)
  BY <1>5, <1>10, GenuineMore
<1>12. Reading'
  <2>1. ASSUME req # None, req.fn = 3, NEW u \in Tag
        PROVE  tags'[u] \in held'[u]
    <3>1. tags[u] \in held[u]
      BY <2>1 DEF IInv, Reading
    <3> QED
      BY <1>5, <2>1, <3>1
  <2> QED
    BY <1>1, <1>3, <1>11, <2>1 DEF IInv, Reading
<1>13. Asked'
  BY <1>1, <1>3, <1>11 DEF IInv, Asked
<1> QED
  BY <1>3, <1>6, <1>8, <1>9, <1>12, <1>13 DEF IInv

-----------------------------------------------------------------------------
(* Requests and answers.                                                   *)

ClientTypeOK ==
    /\ pc \in {"identify", "next", "model", "sleep", "scan", "failed", "crashed"}
    /\ at \in Nat
    /\ order \in Seq(DOMAIN Schema)
    /\ DOMAIN settings = {order[i] : i \in 1..Len(order)}
    /\ DOMAIN known \subseteq Names
    /\ reported \in [Names -> Int \cup {None}]
    /\ connected \in BOOLEAN
    /\ inbox \in Seq(Update)
    /\ waiting \subseteq {"scan", "write"}
    /\ updates \in 0..MaxUpdates /\ timeouts \in 0..MaxTimeouts /\ unsent \in 0..MaxUnsent

\* The parts of the invariant about the server and its requests.
Exchange == ServerTypeOK /\ Fixed /\ Turns /\ Steady /\ Levels /\ Reading /\ Asked

\* The invariant in four parts.
LEMMA Parts == (Exchange' /\ ClientTypeOK' /\ Walk' /\ KnownOK') => IInv'
  BY DEF IInv, Exchange, TypeOK, ClientTypeOK

\* An answer that is used up is gone.
LEMMA TookKeeps ==
    ASSUME IInv, NEW by, NEW ok, Answer(by, ok), Took
    PROVE  Exchange' /\ conf' = conf /\ dev' = dev /\ waiting' = {}
<1>1. reply # None /\ waiting' = {} /\ reply' = None /\ held' = [t \in Tag |-> {}]
      /\ UNCHANGED <<conf, dev, tags, internal, alive, req, addr, buf, news>>
  BY DEF Answer, Took
<1>2. req = None /\ alive
  BY <1>1 DEF IInv, Turns
<1>3. Starts' = Starts
  BY <1>1, Frame
<1>4. ServerTypeOK'
  <2>1. held' \in [Tag -> SUBSET Int]
    BY <1>1
  <2> QED
    BY <1>1, <2>1 DEF IInv, TypeOK, ServerTypeOK
<1>5. ~Hung
  BY <1>2 DEF Hung, Serving
<1>6. Turns' /\ Steady' /\ Reading' /\ Asked' /\ Fixed'
  <2>1. Turns'
    BY <1>1, <1>2 DEF IInv, Turns
  <2>2. Steady'
    BY <1>1, <1>3, <1>5 DEF IInv, Steady
  <2>3. Reading' /\ Asked' /\ Fixed'
    BY <1>1, <1>2 DEF IInv, Reading, Asked, Fixed
  <2> QED
    BY <2>1, <2>2, <2>3
<1>7. Levels'
  BY <1>1 DEF IInv, Levels
<1> QED
  BY <1>1, <1>4, <1>6, <1>7 DEF Exchange

\* An error leaves nothing behind, and has a cause.
LEMMA ErrorKeeps ==
    ASSUME IInv, NEW by, Error(by)
    PROVE  /\ Exchange' /\ conf' = conf /\ dev' = dev /\ waiting' = {}
           /\ timeouts' \in 0..MaxTimeouts
           /\ by = "scan" => Refused' \/ ~alive' \/ Hung' \/ timeouts' > 0
<1>1. by \in waiting /\ waiting' = {}
  BY DEF Error
<1>2. timeouts \in 0..MaxTimeouts /\ MaxTimeouts \in Nat
  BY ClientAssumption DEF IInv, TypeOK
<1>3. CASE Answer(by, FALSE) /\ Took /\ UNCHANGED timeouts
  <2>1. Exchange' /\ conf' = conf /\ dev' = dev
    BY <1>3, TookKeeps
  <2>2. by = "scan" => Refused
    BY <1>3 DEF Answer, IInv, Asked
  <2>3. Refused' = Refused
    BY <2>1, Frame
  <2> QED
    BY <1>1, <1>2, <1>3, <2>1, <2>2, <2>3
<1>4. CASE (~alive \/ Hung) /\ UNCHANGED <<serverVars, timeouts>>
  <2>1. UNCHANGED serverVars /\ timeouts' = timeouts /\ conf' = conf /\ dev' = dev
    BY <1>4 DEF serverVars
  <2>2. Hung' = Hung /\ alive' = alive
    BY <2>1 DEF serverVars, Hung, Serving, Mapped, NoFactor, Reg, Home
  <2>3. /\ req # None => req.fn = 16
        /\ reply = None
    <3>1. ASSUME req # None
          PROVE  req.fn = 16
      <4>1. req.fn \in {3, 16} /\ (req.fn = 3 => alive)
        BY <3>1 DEF IInv, TypeOK, ServerTypeOK, Turns
      <4>2. Hung => req.fn = 16
        BY DEF Hung
      <4> QED
        BY <1>4, <4>1, <4>2
    <3>2. reply = None
      <4>1. Hung => req # None
        BY DEF Hung, Serving
      <4> QED
        BY <1>4, <4>1 DEF IInv, Turns
    <3> QED
      BY <3>1, <3>2
  <2>4. /\ req' = req /\ reply' = None /\ tags' = tags /\ held' = held /\ internal' = internal /\ addr' = addr
        /\ Starts' = Starts
    BY <2>1, <2>3, Frame DEF serverVars
  <2>5. ServerTypeOK' /\ Fixed' /\ Levels'
    BY <2>1 DEF IInv, TypeOK, ServerTypeOK, Fixed, Levels, serverVars
  <2>6. Turns'
    BY <1>1, <1>4, <2>1, <2>2, <2>3, <2>4 DEF IInv, Turns
  <2>7. Steady'
    BY <2>2, <2>4 DEF IInv, Steady
  <2>8. Reading' /\ Asked'
    BY <2>3, <2>4 DEF Reading, Asked
  <2> QED
    BY <1>1, <1>2, <1>4, <2>1, <2>2, <2>5, <2>6, <2>7, <2>8 DEF Exchange
<1>5. CASE /\ req # None /\ req.fn = 3
           /\ timeouts < MaxTimeouts
           /\ timeouts' = timeouts + 1
           /\ req' = None
           /\ UNCHANGED <<conf, dev, tags, internal, alive, addr, buf, reply, held, news>>
  <2>1. reply = None /\ ~Hung /\ Starts' = Starts
    BY <1>5, Frame DEF IInv, Turns, Hung
  <2>2. ServerTypeOK' /\ Fixed' /\ Levels'
    BY <1>5 DEF IInv, TypeOK, ServerTypeOK, Fixed, Levels
  <2>3. Turns' /\ Steady' /\ Reading' /\ Asked'
    BY <1>1, <1>5, <2>1 DEF IInv, Turns, Steady, Reading, Asked
  <2>4. timeouts' \in 0..MaxTimeouts /\ timeouts' > 0
    BY <1>2, <1>5
  <2> QED
    BY <1>1, <1>5, <2>2, <2>3, <2>4 DEF Exchange
<1> QED
  BY <1>3, <1>4, <1>5 DEF Error

\* Ask keeps the invariant: the request lies within the map.
LEMMA AskInv ==
    ASSUME Plain, IInv, Ask
    PROVE  IInv'
<1>1. UNCHANGED <<pc, at, order, settings, known, reported, connected, inbox, updates, timeouts, unsent>>
  BY DEF Ask
<1>2. Asking /\ Send(3, Wanted.start, Wanted.length, <<>>, "scan")
  <2>1. CASE pc = "identify"
    <3>1. Send(3, Identifier, Count("uint32"), <<>>, "scan")
      BY <2>1 DEF Ask
    <3>2. Count("uint32") = 2
      BY DEF Count, Single, Double
    <3>3. Wanted = [start |-> Identifier, length |-> 2]
      BY <2>1 DEF Wanted
    <3> QED
      BY <2>1, <3>1, <3>2, <3>3 DEF Asking
  <2>2. CASE pc = "next"
    <3>1. Send(3, at, 2, <<>>, "scan")
      BY <2>2 DEF Ask
    <3>2. Wanted = [start |-> at, length |-> 2]
      BY <2>2 DEF Wanted
    <3> QED
      BY <2>2, <3>1, <3>2 DEF Asking
  <2>3. CASE pc = "model"
    <3>1. Send(3, at, settings[order[Len(order)]].length, <<>>, "scan")
      BY <2>3 DEF Ask
    <3>2. Wanted = [start |-> at, length |-> settings[order[Len(order)]].length]
      BY <2>3 DEF Wanted
    <3> QED
      BY <2>3, <3>1, <3>2 DEF Asking
  <2>4. CASE pc = "scan"
    <3>1. Send(3, settings[order[at]].start, settings[order[at]].length, <<>>, "scan")
      BY <2>4 DEF Ask
    <3>2. Wanted = settings[order[at]]
      BY <2>4 DEF Wanted
    <3> QED
      BY <2>4, <3>1, <3>2 DEF Asking
  <2>5. pc \in {"identify", "next", "model", "scan"}
    BY DEF Ask
  <2> QED
    BY <2>1, <2>2, <2>3, <2>4, <2>5
<1>3. waiting = {} /\ waiting' = {"scan"}
  BY <1>2 DEF Send
<1>4. reply = None /\ (req # None => req.fn = 16)
  BY <1>3 DEF IInv, Turns, TypeOK, ServerTypeOK
<1>5. conf' = conf /\ dev' = dev
  BY <1>2 DEF Send, serverVars
<1>6. Walk' /\ KnownOK' /\ ClientTypeOK'
  <2>1. Walk'
    BY <1>1, <1>5, Frame DEF IInv, Walk, Entered
  <2>2. KnownOK'
    BY <1>1 DEF IInv, KnownOK
  <2>3. ClientTypeOK'
    BY <1>1, <1>3 DEF IInv, TypeOK, ClientTypeOK
  <2> QED
    BY <2>1, <2>2, <2>3
<1>7. Wanted' = Wanted /\ Asking' = Asking /\ Starts' = Starts /\ End' = End
  BY <1>1, <1>5, Frame DEF Wanted, Asking
<1>8. CASE alive /\ req = None
  <2>1. /\ req' = [fn |-> 3, start |-> Wanted.start, count |-> Wanted.length, data |-> <<>>, by |-> "scan"]
        /\ addr' = Wanted.start /\ buf' = <<>> /\ reply' = None /\ held' = [t \in Tag |-> {tags[t]}]
        /\ UNCHANGED <<conf, dev, tags, internal, alive, news>>
    BY <1>2, <1>8 DEF Send, Accept
  <2>2. dev.ok /\ ~Hung
    BY <1>8 DEF IInv, Turns, Hung, Serving
  <2>3. /\ Wanted.start \in DOMAIN dev.made /\ Wanted.start \in Nat /\ Wanted.length \in Nat
        /\ Wanted.start + Wanted.length <= End + 2
    BY <1>2, <2>2, WantedServed
  <2>4. /\ req'.fn = 3 /\ req'.start = Wanted.start /\ req'.count = Wanted.length
        /\ req'.data = <<>> /\ req'.by = "scan"
    BY <2>1
  <2>5. tags \in [Tag -> Int]
    BY DEF IInv, TypeOK, ServerTypeOK
  <2>6. ServerTypeOK'
    <3>1. held' \in [Tag -> SUBSET Int] /\ buf' \in Seq(0..(Modulus - 1)) /\ addr' \in Nat
      BY <2>1, <2>3, <2>5
    <3>2. req'.fn \in {3, 16} /\ req'.start \in Nat /\ req'.count \in Nat
      BY <2>3, <2>4
    <3> QED
      BY <2>1, <3>1, <3>2 DEF IInv, TypeOK, ServerTypeOK
  <2>7. Turns'
    <3>1. req'.data \in Seq(Word)
      BY <2>4
    <3> QED
      BY <1>3, <1>8, <2>1, <2>2, <2>4, <3>1 DEF Turns
  <2>8. Steady' /\ Fixed'
    BY <1>7, <1>8, <2>1, <2>2 DEF IInv, Steady, Fixed
  <2>9. Levels'
    BY <2>1 DEF IInv, Levels
  <2>10. Reading'
    <3>1. \A a \in DOMAIN dev.made : ~(req'.start <= a /\ a < addr')
      <4>1. \A a \in DOMAIN dev.made : a \in Nat
        BY DevType DEF IInv, TypeOK, ServerTypeOK
      <4> QED
        BY <2>1, <2>3, <2>4, <4>1
    <3>2. Len(buf') = addr' - req'.start /\ req'.start <= addr'
      BY <2>1, <2>3, <2>4
    <3>3. \A t \in Tag : tags'[t] \in held'[t]
      BY <2>1
    <3> QED
      BY <1>7, <2>1, <2>3, <2>4, <3>1, <3>2, <3>3 DEF Reading
  <2>11. Asked'
    BY <1>2, <1>7, <2>1, <2>4 DEF Asked
  <2> QED
    BY <1>6, <2>6, <2>7, <2>8, <2>9, <2>10, <2>11, Parts DEF Exchange
<1>9. CASE ~(alive /\ req = None)
  <2>1. UNCHANGED serverVars
    BY <1>2, <1>9 DEF Send
  <2>2. Hung' = Hung
    BY <2>1 DEF serverVars, Hung, Serving, Mapped, NoFactor, Reg, Home
  <2>3. ServerTypeOK' /\ Fixed' /\ Levels'
    BY <2>1 DEF IInv, TypeOK, ServerTypeOK, Fixed, Levels, serverVars
  <2>4. req' = req /\ reply' = None /\ alive' = alive /\ dev' = dev /\ internal' = internal
    BY <1>4, <2>1 DEF serverVars
  <2>5. Turns'
    BY <1>3, <1>4, <2>2, <2>4 DEF IInv, Turns
  <2>6. Steady' /\ Reading' /\ Asked'
    BY <1>4, <1>7, <2>2, <2>4 DEF IInv, Steady, Reading, Asked
  <2> QED
    BY <1>6, <2>3, <2>5, <2>6, Parts DEF Exchange
<1> QED
  BY <1>8, <1>9

\* An answer holds the registers that were asked for.
LEMMA AnswerFacts ==
    ASSUME Plain, IInv, Answer("scan", TRUE), pc # "crashed"
    PROVE  /\ conf \in Configs /\ Fixed /\ Layout /\ dev.ok /\ alive /\ req = None /\ internal = Starts
           /\ Asking /\ reply.data \in Seq(Word) /\ Len(reply.data) >= Wanted.length
           /\ Wanted.length \in Nat /\ Wanted.start \in Nat
           /\ \A a \in DOMAIN dev.made :
                 Wanted.start <= a /\ a < Wanted.start + Wanted.length
                    => Genuine(dev, held, a, Wanted.start, reply.data)
<1>1. reply # None /\ reply.by = "scan" /\ reply.ok = TRUE
  BY DEF Answer
<1>2. alive /\ req = None /\ dev.ok
  BY <1>1 DEF IInv, Turns
<1>3. conf \in Configs /\ Fixed /\ Layout
  BY <1>2, ServingFacts
<1>4. internal = Starts
  <2>1. ~Hung
    BY <1>2 DEF Hung, Serving
  <2> QED
    BY <1>2, <2>1 DEF IInv, Steady
<1>5. reply.data \in Seq(Word)
  BY <1>1 DEF IInv, TypeOK, ServerTypeOK, Word
<1>6. /\ Asking /\ Len(reply.data) >= Wanted.length
      /\ \A a \in DOMAIN dev.made :
            Wanted.start <= a /\ a < Wanted.start + Wanted.length
               => Genuine(dev, held, a, Wanted.start, reply.data)
  BY <1>1 DEF IInv, Asked
<1>7. Wanted.length \in Nat /\ Wanted.start \in Nat
  BY <1>2, <1>6, WantedServed
<1> QED
  BY <1>2, <1>3, <1>4, <1>5, <1>6, <1>7

\* The identifier is read back.
LEMMA IdentifierRead ==
    ASSUME conf \in Configs, Layout, NEW data, Genuine(dev, held, Identifier, Identifier, data)
    PROVE  Integer([dt |-> "uint32"], data) = SunS
<1> DEFINE r == dev.made[Identifier]
<1>1. r = Static("uint32", SunS)
  BY DEF Layout
<1>2. r.dt = "uint32" /\ r.sf = "" /\ r.scaling = 0 /\ r.tag = "" /\ r.start = SunS * Unit
  <2> DEFINE q == Static("uint32", SunS)
  <2>1. q.dt = "uint32" /\ q.sf = "" /\ q.scaling = 0 /\ q.tag = "" /\ q.start = SunS * Unit
    BY DEF Static
  <2>2. r = q
    BY <1>1
  <2> HIDE DEF q, r
  <2> QED
    BY <2>1, <2>2
<1>3. Standing(dev, r) = 0
  BY <1>2, NoName DEF Standing
<1>4. Values(dev, held, Identifier) = {SunS * Unit}
  BY <1>2 DEF Values
<1>5. Slice(Count(r.dt), Identifier - Identifier, data) \in Bytes(r, SunS * Unit, 0)
  BY <1>3, <1>4 DEF Genuine
<1>6. Supported(r.dt) /\ r.dt \notin Text /\ Count(r.dt) = 2 /\ ~Signed(r.dt)
  BY <1>2 DEF Supported, Text, Count, Single, Double, Signed
<1>7. SunS \in Int /\ Fits(r.dt, SunS)
  <2>1. Power(Modulus, Count(r.dt)) = Modulus * Modulus
    BY <1>6, Weights
  <2>2. SunS \in 0..(Modulus * Modulus - 1)
    BY SchemaAssumption
  <2>3. Modulus * Modulus \in Nat
    BY ModulusType
  <2>4. SunS \in Int /\ 0 <= SunS /\ SunS < Modulus * Modulus
    BY <2>2, <2>3
  <2> QED
    BY <1>6, <2>1, <2>4 DEF Fits
<1> DEFINE ws == Slice(2, Identifier - Identifier, data)
<1> HIDE DEF r, ws
<1>8. ws \in Bytes(r, SunS * Unit, 0)
  BY <1>5, <1>6 DEF ws
<1>9. Integer(r, ws) = SunS
  BY <1>2, <1>6, <1>7, <1>8, WholeBack
<1>10. ws[1] = data[1] /\ ws[2] = data[2]
  BY DEF ws, Slice, Identifier
<1>11. Count("uint32") = 2 /\ ~Signed("uint32")
  BY <1>2, <1>6
<1>12. Integer(r, ws) = ws[1] * Modulus + ws[2]
  BY <1>6 DEF Integer
<1>13. Integer([dt |-> "uint32"], data) = data[1] * Modulus + data[2]
  BY <1>11 DEF Integer
<1> QED
  BY <1>9, <1>10, <1>12, <1>13

\* Identified keeps the invariant: the identifier is never a wrong one.
LEMMA IdentifiedInv ==
    ASSUME Plain, IInv, Identified
    PROVE  IInv' /\ pc' # "failed"
<1>1. pc = "identify" /\ Answer("scan", TRUE) /\ Took
      /\ UNCHANGED <<at, order, settings, known, reported, connected, inbox, updates, timeouts, unsent>>
  BY DEF Identified
<1>2. /\ conf \in Configs /\ Layout /\ dev.ok /\ Fixed
      /\ \A a \in DOMAIN dev.made :
            Wanted.start <= a /\ a < Wanted.start + Wanted.length
               => Genuine(dev, held, a, Wanted.start, reply.data)
  BY <1>1, AnswerFacts
<1>3. Genuine(dev, held, Identifier, Identifier, reply.data)
  <2>1. Wanted.start = Identifier /\ Wanted.length = 2
    BY <1>1 DEF Wanted
  <2>2. Identifier \in DOMAIN dev.made
    BY <1>2 DEF Layout
  <2> QED
    BY <1>2, <2>1, <2>2 DEF Identifier
<1>4. pc' = "next"
  <2>1. Integer([dt |-> "uint32"], reply.data) = SunS
    BY <1>2, <1>3, IdentifierRead
  <2> QED
    BY <2>1 DEF Identified
<1>5. Exchange' /\ conf' = conf /\ dev' = dev /\ waiting' = {}
  BY <1>1, TookKeeps
<1>6. order = <<>> /\ at = First /\ DOMAIN settings = {}
  <2>1. order = <<>> /\ at = First
    BY <1>1 DEF IInv, Walk
  <2>2. DOMAIN settings = {order[i] : i \in 1..Len(order)} /\ Len(order) = 0
    BY <2>1 DEF IInv, TypeOK
  <2> QED
    BY <2>1, <2>2
<1>7. Walk'
  <2>1. Len(conf) \in Nat /\ Bases[1] = First /\ Bases' = Bases /\ Sound' = Sound /\ Ids' = Ids
    BY <1>2, <1>5, BasesIs, Frame
  <2>2. order' = <<>> /\ at' = First /\ DOMAIN settings' = {} /\ conf' = conf /\ dev' = dev
    BY <1>1, <1>5, <1>6
  <2>3. Len(order') = 0 /\ 1..Len(order') = {}
    BY <2>2
  <2>4. Entered'
    BY <2>1, <2>2, <2>3 DEF Entered
  <2>5. at' = Bases'[Len(order') + 1]
    BY <2>1, <2>2, <2>3
  <2> QED
    BY <1>2, <1>4, <2>2, <2>3, <2>4, <2>5 DEF Walk
<1>8. KnownOK' /\ ClientTypeOK'
  BY <1>1, <1>4, <1>5 DEF IInv, KnownOK, ClientTypeOK, TypeOK
<1> QED
  BY <1>4, <1>5, <1>7, <1>8, Parts

Excused == Refused \/ ~alive \/ Hung \/ timeouts > 0 \/ unsent > 0

\* GotModel keeps the invariant: the header that was read is that of the next model.
LEMMA GotModelInv ==
    ASSUME Plain, IInv, GotModel
    PROVE  IInv' /\ (pc' = "failed" => Refused')
<1>1. pc = "next" /\ Answer("scan", TRUE) /\ Took
      /\ UNCHANGED <<known, reported, connected, inbox, updates, timeouts, unsent>>
  BY DEF GotModel
<1>2. /\ conf \in Configs /\ Layout /\ dev.ok /\ Fixed
      /\ \A a \in DOMAIN dev.made :
            Wanted.start <= a /\ a < Wanted.start + Wanted.length
               => Genuine(dev, held, a, Wanted.start, reply.data)
  BY <1>1, AnswerFacts
<1>3. Exchange' /\ conf' = conf /\ dev' = dev /\ waiting' = {}
  BY <1>1, TookKeeps
<1>4. Ids' = Ids /\ Bases' = Bases /\ Sound' = Sound /\ Refused' = Refused
  BY <1>3, Frame
<1> DEFINE n == Len(order)
<1>5. n \in Nat /\ Len(conf) \in Nat /\ n <= Len(conf) /\ Entered /\ at = Bases[n + 1] /\ at \in Nat
      /\ 1..n \subseteq Sound /\ order \in Seq(DOMAIN Schema) /\ DOMAIN settings = {order[i] : i \in 1..Len(order)}
  <2>1. at \in Nat /\ order \in Seq(DOMAIN Schema) /\ DOMAIN settings = {order[i] : i \in 1..Len(order)}
    BY DEF IInv, TypeOK
  <2>2. Entered /\ at = Bases[n + 1] /\ 1..n \subseteq Sound
    BY <1>1 DEF IInv, Walk
  <2>3. n \in Nat /\ Len(conf) \in Nat
    BY <1>2, <2>1, ConfType
  <2> QED
    BY <2>1, <2>2, <2>3 DEF Entered
<1>6. Wanted.start = at /\ Wanted.length = 2
  BY <1>1 DEF Wanted
<1>7. ASSUME NEW m \in 0..(Modulus - 1), NEW a \in {at, at + 1}, a \in DOMAIN dev.made, Header(dev.made[a], m)
      PROVE  reply.data[a - at + 1] = m
  <2>1. Genuine(dev, held, a, at, reply.data)
    BY <1>2, <1>5, <1>6, <1>7
  <2> QED
    BY <1>2, <1>7, <2>1, HeaderRead
<1>8. KnownOK'
  BY <1>1 DEF IInv, KnownOK
<1>9. ASSUME n = Len(conf)
      PROVE  reply.data[1] = EndMark
  <2>1. at = End /\ End \in DOMAIN dev.made /\ dev.made[End] = Static("uint16", EndMark)
    BY <1>2, <1>5, <1>9, BasesIs DEF Layout
  <2>2. EndMark \in 0..(Modulus - 1)
    BY ModulusType DEF EndMark
  <2>3. Header(Static("uint16", EndMark), EndMark)
    <3>1. EndMark * Unit = Unit * EndMark
      BY ModulusType DEF EndMark
    <3> QED
      BY <3>1 DEF Header, Static
  <2>4. Header(dev.made[at], EndMark)
    BY <2>1, <2>3
  <2>5. reply.data[at - at + 1] = EndMark
    BY <1>7, <2>1, <2>2, <2>4
  <2>6. at - at + 1 = 1
    BY <1>5
  <2> QED
    BY <2>5, <2>6
<1>10. ASSUME n # Len(conf)
       PROVE  /\ n + 1 \in 1..Len(conf) /\ Ids[n + 1] \in DOMAIN Schema
              /\ reply.data[1] = Ids[n + 1] /\ reply.data[2] = ModelLength(Ids[n + 1])
              /\ Ids[n + 1] # EndMark
  <2>1. n + 1 \in 1..Len(conf)
    BY <1>5, <1>10
  <2>2. Ids[n + 1] \in DOMAIN Schema /\ Bases[n + 1] \in DOMAIN dev.made /\ ModelLength(Ids[n + 1]) \in Nat
    <3>1. n + 1 \in 1..(Len(conf) + 1)
      BY <1>5
    <3> QED
      BY <1>2, <2>1, <3>1, BasesIs
  <2>3. Ids[n + 1] \in 0..(EndMark - 1) /\ ModelLength(Ids[n + 1]) < Modulus
    BY <2>2, HeaderFacts
  <2>4. Ids[n + 1] \in 0..(Modulus - 1) /\ Ids[n + 1] # EndMark /\ ModelLength(Ids[n + 1]) \in 0..(Modulus - 1)
    BY <2>2, <2>3, ModulusType DEF EndMark
  <2>5. at + 1 \in DOMAIN dev.made /\ Header(dev.made[at], Ids[n + 1])
        /\ Header(dev.made[at + 1], ModelLength(Ids[n + 1])) /\ at \in DOMAIN dev.made
    BY <1>2, <1>5, <2>1, <2>2, HeadersAre
  <2>6. reply.data[at - at + 1] = Ids[n + 1]
    BY <1>7, <2>4, <2>5
  <2>7. reply.data[(at + 1) - at + 1] = ModelLength(Ids[n + 1])
    BY <1>7, <2>4, <2>5
  <2>8. at - at + 1 = 1 /\ (at + 1) - at + 1 = 2
    BY <1>5
  <2> QED
    BY <2>1, <2>2, <2>4, <2>6, <2>7, <2>8
<1>11. CASE order = <<>> /\ reply.data[1] # 1
  <2>1. pc' = "failed" /\ UNCHANGED <<at, order, settings>>
    BY <1>11 DEF GotModel
  <2>2. n = 0 /\ n # Len(conf)
    <3>1. Len(conf) >= 1
      BY <1>2 DEF Layout
    <3>2. n = 0
      BY <1>11
    <3> QED
      BY <1>5, <3>1, <3>2
  <2>3. Ids[1] # 1
    BY <1>10, <1>11, <2>2
  <2>4. Refused
    BY <2>3 DEF Refused
  <2>5. Walk' /\ ClientTypeOK'
    BY <1>1, <1>3, <2>1 DEF IInv, Walk, ClientTypeOK, TypeOK
  <2> QED
    BY <1>3, <1>4, <1>8, <2>4, <2>5, Parts
<1>12. CASE ~(order = <<>> /\ reply.data[1] # 1) /\ reply.data[1] = EndMark
  <2>1. pc' = "sleep" /\ at' = 1 /\ UNCHANGED <<order, settings>>
    BY <1>12 DEF GotModel
  <2>2. n = Len(conf)
    BY <1>10, <1>12
  <2>3. Entered'
    BY <1>3, <1>4, <1>5, <2>1 DEF Entered
  <2>4. Walk'
    BY <1>2, <1>3, <1>4, <1>5, <2>1, <2>2, <2>3 DEF Walk
  <2>5. ClientTypeOK'
    BY <1>1, <1>3, <2>1 DEF IInv, ClientTypeOK, TypeOK
  <2> QED
    BY <1>3, <1>8, <2>1, <2>4, <2>5, Parts
<1>13. CASE ~(order = <<>> /\ reply.data[1] # 1) /\ reply.data[1] # EndMark
  <2> DEFINE id == reply.data[1]
  <2>1. /\ pc' = "model" /\ at' = at + 2 /\ order' = Append(order, id)
        /\ settings' = Put(settings, id, [start |-> at + 2, length |-> reply.data[2]])
    BY <1>13 DEF GotModel
  <2>2. /\ n + 1 \in 1..Len(conf) /\ id \in DOMAIN Schema /\ id = Ids[n + 1] /\ reply.data[2] = ModelLength(id)
    BY <1>9, <1>10, <1>13
  <2>3. n = 0 => Ids[1] = 1
    <3>1. n = 0 => order = <<>>
      BY <1>5
    <3> QED
      BY <1>13, <2>2, <3>1
  <2> HIDE DEF id
  <2>4. /\ order' \in Seq(DOMAIN Schema) /\ Len(order') = n + 1 /\ order'[n + 1] = id
        /\ \A i \in 1..n : order'[i] = order[i]
    BY <1>5, <2>1, <2>2
  <2>5. /\ DOMAIN settings' = DOMAIN settings \cup {id}
        /\ settings'[id] = [start |-> at + 2, length |-> reply.data[2]]
        /\ \A x \in DOMAIN settings \ {id} : settings'[x] = settings[x]
    BY <2>1 DEF Put
  <2>6. DOMAIN settings' = {order'[i] : i \in 1..Len(order')}
    <3>1. 1..(n + 1) = 1..n \cup {n + 1}
      BY <1>5
    <3>2. {order'[i] : i \in 1..(n + 1)} = {order'[i] : i \in 1..n} \cup {order'[n + 1]}
      BY <3>1
    <3>3. {order'[i] : i \in 1..n} = {order[i] : i \in 1..n}
      BY <2>4
    <3> QED
      BY <1>5, <2>4, <2>5, <3>2, <3>3
  <2>7. Entered'
    <3>1. Len(order') <= Len(conf') /\ \A i \in 1..Len(order') : order'[i] = Ids'[i]
      <4>1. ASSUME NEW i \in 1..(n + 1)
            PROVE  order'[i] = Ids[i]
        <5>1. CASE i = n + 1
          BY <2>2, <2>4, <5>1
        <5>2. CASE i # n + 1
          <6>1. i \in 1..n
            BY <1>5, <5>2
          <6> QED
            BY <1>5, <2>4, <6>1 DEF Entered
        <5> QED
          BY <5>1, <5>2
      <4> QED
        BY <1>3, <1>4, <1>5, <2>2, <2>4, <4>1
    <3>2. Ids'[1] = 1
      <4>1. CASE n = 0
        BY <1>4, <2>3, <4>1
      <4>2. CASE n # 0
        BY <1>4, <1>5, <4>2 DEF Entered
      <4> QED
        BY <4>1, <4>2
    <3>3. ASSUME NEW x \in DOMAIN settings'
          PROVE  \E i \in 1..Len(order') :
                    /\ order'[i] = x /\ \A k \in (i + 1)..Len(order') : order'[k] # x
                    /\ settings'[x] = [start |-> Bases'[i] + 2, length |-> ModelLength(x)]
      <4>1. CASE x = id
        <5>1. n + 1 \in 1..Len(order') /\ (n + 1) + 1 > Len(order')
          BY <1>5, <2>4
        <5>2. settings'[x] = [start |-> Bases'[n + 1] + 2, length |-> ModelLength(x)]
          BY <1>4, <1>5, <2>2, <2>5, <4>1
        <5>3. \A k \in ((n + 1) + 1)..Len(order') : order'[k] # x
          BY <1>5, <2>4
        <5> QED
          BY <2>4, <4>1, <5>1, <5>2, <5>3
      <4>2. CASE x # id
        <5>1. x \in DOMAIN settings /\ settings'[x] = settings[x]
          BY <2>5, <4>2
        <5>2. PICK i \in 1..n :
                 /\ order[i] = x /\ \A k \in (i + 1)..n : order[k] # x
                 /\ settings[x] = [start |-> Bases[i] + 2, length |-> ModelLength(x)]
          BY <1>5, <5>1 DEF Entered
        <5>3. i \in 1..Len(order') /\ order'[i] = x
          BY <1>5, <2>4, <5>2
        <5>4. ASSUME NEW k \in (i + 1)..Len(order')
              PROVE  order'[k] # x
          <6>1. CASE k = n + 1
            BY <2>4, <4>2, <6>1
          <6>2. CASE k # n + 1
            <7>1. k \in (i + 1)..n /\ k \in 1..n
              BY <1>5, <2>4, <6>2
            <7> QED
              BY <2>4, <5>2, <7>1
          <6> QED
            BY <6>1, <6>2
        <5> QED
          BY <1>4, <5>1, <5>2, <5>3, <5>4
      <4> QED
        BY <4>1, <4>2
    <3> QED
      BY <3>1, <3>2, <3>3 DEF Entered
  <2>8. Walk'
    <3>1. Len(order') >= 1 /\ at' = Bases'[Len(order')] + 2
      BY <1>4, <1>5, <2>1, <2>4
    <3>2. 1..(Len(order') - 1) \subseteq Sound'
      <4>1. Len(order') - 1 = n
        BY <1>5, <2>4
      <4> QED
        BY <1>4, <1>5, <4>1
    <3> QED
      BY <1>2, <1>3, <2>1, <2>7, <3>1, <3>2 DEF Walk
  <2>9. ClientTypeOK'
    <3>1. at' \in Nat
      BY <1>5, <2>1
    <3> QED
      BY <1>1, <1>3, <2>1, <2>4, <2>6, <3>1 DEF IInv, ClientTypeOK, TypeOK
  <2> QED
    BY <1>3, <1>8, <2>1, <2>8, <2>9, Parts
<1> QED
  BY <1>11, <1>12, <1>13

-----------------------------------------------------------------------------
(* modelData and process.                                                  *)

\* Points of a model have different names.
LEMMA IndexIs ==
    ASSUME NEW id \in DOMAIN Schema, NEW k \in 1..Len(Points(id))
    PROVE  Index(id, Points(id)[k].name) = k
<1> DEFINE n == Points(id)[k].name
           j == Index(id, n)
<1>1. j \in 1..Len(Points(id)) /\ Points(id)[j].name = n
  BY DEF Index
<1>2. /\ Len(Points(id)) = Len(Schema[id]) - 2 /\ Len(Schema[id]) \in Nat
      /\ \A i \in 1..Len(Points(id)) : Points(id)[i] = Schema[id][i + 2]
  BY PointsIs, PointType
<1> HIDE DEF j
<1>3. j + 2 \in 1..Len(Schema[id]) /\ k + 2 \in 1..Len(Schema[id])
  BY <1>1, <1>2
<1>4. Schema[id][j + 2].name = Schema[id][k + 2].name
  BY <1>1, <1>2
<1>5. ~(j + 2 \in 1..((k + 2) - 1)) /\ ~(k + 2 \in 1..((j + 2) - 1))
  BY <1>3, <1>4, PointFacts
<1>6. j = k
  BY <1>1, <1>2, <1>3, <1>5
<1> QED
  BY <1>6 DEF j

\* What process puts into the maps and publishes.
LEMMA ProcessIs ==
    ASSUME NEW id \in DOMAIN Schema, ~Malformed(id), NEW start \in Nat, NEW data \in Seq(Word),
           Len(data) >= ModelLength(id), ClientTypeOK, KnownOK,
           NEW sent \in BOOLEAN, Process(id, start, data, sent)
    PROVE  /\ reported' \in [Names -> Int \cup {None}] /\ DOMAIN known' \subseteq Names
           /\ KnownOK' /\ connected' \in BOOLEAN
           /\ \A n \in Names : reported'[n] # reported[n] =>
                 \E k \in 1..Len(Points(id)) :
                    /\ Points(id)[k].name = n /\ Points(id)[k].dt \notin Text
                    /\ reported'[n] = ValueOf(PointReg(id, start, k), Part(id, k, data), 0)
<1> DEFINE P == Points(id)
           names == {p.name : p \in Range(P)}
           shown == {p \in Range(P) : p.dt \notin Text \cup {"pad", "sunssf"}}
           sure == {p.name : p \in {q \in shown : q.sf \in {""} \cup DOMAIN known}}
           maybe == {p.name : p \in {q \in shown : q.sf \in names \ DOMAIN known}}
           Val(k) == ValueOf(PointReg(id, start, k), Part(id, k, data), 0)
<1>2. /\ Len(P) \in Nat /\ DOMAIN P = 1..Len(P) /\ Len(P) = Len(Schema[id]) - 2 /\ Len(Schema[id]) \in Nat
      /\ \A k \in 1..Len(P) : P[k] = Schema[id][k + 2] /\ k + 2 \in 3..Len(Schema[id]) /\ k + 2 \in 1..Len(Schema[id])
  BY PointsIs, PointType
<1>3. Range(P) = {P[k] : k \in 1..Len(P)}
  BY <1>2 DEF Range
<1>4. \A k \in 1..Len(P) : P[k].name \in Names
  <2> TAKE k \in 1..Len(P)
  <2>1. P[k] = Schema[id][k + 2] /\ k + 2 \in 3..Len(Schema[id])
    BY <1>2
  <2>2. \A j \in 3..Len(Schema[id]) : Schema[id][j].name \in Names
    BY DEF Names
  <2> QED
    BY <2>1, <2>2
<1>5. ASSUME NEW k \in 1..Len(P)
      PROVE  /\ Supported(P[k].dt) /\ P[k].size = Count(P[k].dt) /\ Offset(id, k) \in Nat
             /\ Offset(id, k) + P[k].size <= Len(data) /\ P[k] \in Point
  <2>1. Supported(P[k].dt)
    BY DEF Malformed
  <2>2. P[k].size = Count(P[k].dt) /\ P[k] \in Point
    BY <1>2, <2>1, PointFacts, PointType
  <2>3. Offset(id, k) \in Nat /\ ModelLength(id) \in Nat
    <3>1. k \in 1..(Len(P) + 1)
      BY <1>2
    <3> QED
      BY <3>1, OffsetIs
  <2>4. Offset(id, k) + P[k].size <= ModelLength(id)
    BY OffsetWithin
  <2>5. P[k].size \in Nat
    BY <2>2 DEF Point
  <2>6. Len(data) \in Nat
    OBVIOUS
  <2> HIDE DEF P
  <2> QED
    BY <2>1, <2>2, <2>3, <2>4, <2>5, <2>6
<1>6. ASSUME NEW k \in 1..Len(P), P[k].dt \notin Text
      PROVE  Val(k) \in Int
  <2> DEFINE q == PointReg(id, start, k)
             ws == Part(id, k, data)
             c == Count(P[k].dt)
  <2>1. q.dt = P[k].dt /\ q.scaling = 0
    BY DEF PointReg
  <2>2. c \in Nat /\ P[k].size = c
    BY <1>5, CountType
  <2>3. ws = [i \in 1..c |-> data[Offset(id, k) + i]]
    BY <2>2 DEF Part
  <2>4. \A i \in 1..c : data[Offset(id, k) + i] \in Word
    <3> HIDE DEF c
    <3> TAKE i \in 1..c
    <3>1. Offset(id, k) \in Nat /\ Offset(id, k) + c <= Len(data) /\ Len(data) \in Nat
      BY <1>5, <2>2
    <3>2. Offset(id, k) + i \in 1..Len(data)
      BY <2>2, <3>1
    <3> QED
      BY <3>2
  <2>5. ws \in [1..c -> Word]
    <3> HIDE DEF c
    <3> QED
      BY <2>3, <2>4
  <2>6. Supported(q.dt) /\ q.dt \notin Text /\ q.scaling \in Int /\ ws \in [1..Count(q.dt) -> Word]
    BY <1>5, <1>6, <2>1, <2>5
  <2> HIDE DEF q, ws
  <2>7. ValueOf(q, ws, 0) \in Int
    BY <2>6, ValueType
  <2> QED
    BY <2>7 DEF q, ws
<1>1. PICK rep : /\ rep \subseteq {p.name : p \in shown}
                 /\ known' = [n \in names \cup DOMAIN known |->
                                 IF n \in names THEN PointReg(id, start, Index(id, n)) ELSE known[n]]
                 /\ reported' = [n \in Names |-> IF n \in rep THEN Val(Index(id, n)) ELSE reported[n]]
                 /\ connected' \in BOOLEAN
  <2>1. PICK rep \in {sure \cup S : S \in SUBSET maybe} :
           /\ known' = [n \in names \cup DOMAIN known |->
                           IF n \in names THEN PointReg(id, start, Index(id, n)) ELSE known[n]]
           /\ reported' = [n \in Names |-> IF sent /\ n \in rep THEN Val(Index(id, n)) ELSE reported[n]]
           /\ connected' = IF sent THEN rep # {} ELSE connected
    BY DEF Process
  <2>2. sure \subseteq {p.name : p \in shown} /\ maybe \subseteq {p.name : p \in shown}
    OBVIOUS
  <2> HIDE DEF sure, maybe, names, shown, Val
  <2>3. rep \subseteq {p.name : p \in shown}
    BY <2>2
  <2>4. CASE sent
    <3>1. reported' = [n \in Names |-> IF n \in rep THEN Val(Index(id, n)) ELSE reported[n]]
      BY <2>1, <2>4
    <3>2. connected' = (rep # {})
      BY <2>1, <2>4
    <3>3. connected' \in BOOLEAN
      BY <3>2, Zenon
    <3> QED
      BY <2>1, <2>3, <3>1, <3>3, Zenon
  <2>5. CASE ~sent
    <3> DEFINE none == {}
    <3>1. none \subseteq {p.name : p \in shown} /\ \A n : n \notin none
      OBVIOUS
    <3> HIDE DEF none
    <3>2. reported' = [n \in Names |-> IF n \in none THEN Val(Index(id, n)) ELSE reported[n]]
      BY <2>1, <2>5, <3>1
    <3>3. connected' \in BOOLEAN
      BY <2>1, <2>5 DEF ClientTypeOK
    <3> QED
      BY <2>1, <3>1, <3>2, <3>3, Zenon
  <2> QED
    BY <2>4, <2>5
<1>7. ASSUME NEW n \in rep
      PROVE  /\ Index(id, n) \in 1..Len(P) /\ P[Index(id, n)].name = n
             /\ P[Index(id, n)].dt \notin Text /\ n \in Names
  <2>1. PICK p \in shown : p.name = n
    BY <1>1
  <2>2. PICK k \in 1..Len(P) : P[k] = p
    BY <1>3, <2>1
  <2>3. Index(id, n) = k
    BY <2>1, <2>2, IndexIs
  <2> QED
    BY <1>4, <2>1, <2>2, <2>3
<1>8. ASSUME NEW n \in names
      PROVE  Index(id, n) \in 1..Len(P) /\ n \in Names
  <2>1. PICK k \in 1..Len(P) : P[k].name = n
    BY <1>3
  <2>2. Index(id, n) = k
    BY <2>1, IndexIs
  <2> QED
    BY <1>4, <2>1, <2>2
<1> HIDE DEF names, shown, sure, maybe, P
<1>9. DOMAIN known' \subseteq Names /\ KnownOK'
  <2> DEFINE R(n) == PointReg(id, start, Index(id, n))
  <2>1. ASSUME NEW n \in names
        PROVE  Supported(R(n).dt) /\ R(n).addr \in Nat /\ R(n).scaling = 0
    <3> DEFINE k == Index(id, n)
    <3>1. k \in 1..Len(P)
      BY <1>8
    <3> HIDE DEF k
    <3>2. Supported(P[k].dt) /\ Offset(id, k) \in Nat
      BY <1>5, <3>1
    <3>3. 2 * Offset(id, k) + start \in Nat /\ start + 2 * Offset(id, k) = 2 * Offset(id, k) + start
      BY <3>2
    <3>4. /\ PointReg(id, start, k).dt = P[k].dt /\ PointReg(id, start, k).scaling = 0
          /\ PointReg(id, start, k).addr = IF P[k].rw THEN start + 2 * Offset(id, k) ELSE 0
      BY DEF PointReg, P
    <3> QED
      BY <3>2, <3>3, <3>4 DEF k
  <2>3. known' = [n \in names \cup DOMAIN known |-> IF n \in names THEN R(n) ELSE known[n]]
    BY <1>1
  <2> HIDE DEF R
  <2>4. /\ DOMAIN known' = names \cup DOMAIN known
        /\ \A n \in names : known'[n] = R(n)
        /\ \A n \in DOMAIN known \ names : known'[n] = known[n]
    BY <2>3
  <2>5. DOMAIN known' \subseteq Names
    BY <1>8, <2>4 DEF ClientTypeOK
  <2>6. KnownOK'
    BY <2>1, <2>4 DEF KnownOK
  <2> QED
    BY <2>5, <2>6
<1>10. /\ reported' \in [Names -> Int \cup {None}]
       /\ \A n \in Names : reported'[n] # reported[n] => n \in rep /\ reported'[n] = Val(Index(id, n))
  <2> DEFINE W(n) == Val(Index(id, n))
  <2>1. \A n \in rep : W(n) \in Int /\ n \in Names
    BY <1>6, <1>7
  <2>4. reported \in [Names -> Int \cup {None}]
    BY DEF ClientTypeOK
  <2>5. reported' = [n \in Names |-> IF n \in rep THEN W(n) ELSE reported[n]]
    BY <1>1
  <2> HIDE DEF W
  <2>6. reported' \in [Names -> Int \cup {None}]
    BY <2>1, <2>4, <2>5
  <2>7. \A n \in Names : reported'[n] # reported[n] => n \in rep /\ reported'[n] = W(n)
    BY <2>5
  <2> QED
    BY <2>6, <2>7 DEF W
<1>11. connected' \in BOOLEAN
  BY <1>1
<1>12. ASSUME NEW n \in Names, reported'[n] # reported[n]
       PROVE  \E k \in 1..Len(Points(id)) :
                 /\ Points(id)[k].name = n /\ Points(id)[k].dt \notin Text
                 /\ reported'[n] = Val(k)
  <2>1. n \in rep /\ reported'[n] = Val(Index(id, n))
    BY <1>10, <1>12
  <2>2. /\ Index(id, n) \in 1..Len(P) /\ P[Index(id, n)].name = n
        /\ P[Index(id, n)].dt \notin Text
    BY <1>7, <2>1
  <2> QED
    BY <2>1, <2>2 DEF P
<1> QED
  BY <1>9, <1>10, <1>11, <1>12

\* An answer with the data of a model.
LEMMA Answered ==
    ASSUME Plain, IInv, Answer("scan", TRUE), pc \in {"model", "scan"}, NEW id, NEW start,
           pc = "model" => id = order[Len(order)] /\ start = at,
           pc = "scan" => id = order[at] /\ start = settings[order[at]].start
    PROVE  \E i \in 1..Len(conf) :
              /\ Ids[i] = id /\ id \in DOMAIN Schema /\ start = Bases[i] + 2 /\ start \in Nat
              /\ pc = "model" => i = Len(order) /\ settings[id].length = ModelLength(id)
              /\ pc = "scan" => i \in Sound
              /\ reply.data \in Seq(Word) /\ Len(reply.data) >= ModelLength(id)
              /\ \A k \in 1..Len(Points(id)) : Genuine(dev, held, start + Offset(id, k), start, reply.data)
<1>1. /\ conf \in Configs /\ Layout /\ dev.ok /\ Fixed
      /\ reply.data \in Seq(Word) /\ Len(reply.data) >= Wanted.length
      /\ \A a \in DOMAIN dev.made :
            Wanted.start <= a /\ a < Wanted.start + Wanted.length
               => Genuine(dev, held, a, Wanted.start, reply.data)
  BY AnswerFacts
<1>2. TypeOK /\ Entered /\ order \in Seq(DOMAIN Schema) /\ Len(order) \in Nat
  BY DEF IInv, Walk, TypeOK
<1>3. /\ Len(conf) \in Nat
      /\ \A i \in 1..(Len(conf) + 1) : Bases[i] \in Nat
      /\ \A i \in 1..Len(conf) : /\ Ids[i] \in DOMAIN Schema /\ ModelLength(Ids[i]) \in Nat
                                 /\ Bases[i + 1] = Bases[i] + 2 + ModelLength(Ids[i])
  BY <1>1, BasesIs
<1>4. \E i \in 1..Len(conf) :
         /\ Ids[i] = id /\ start = Bases[i] + 2
         /\ Wanted.start = Bases[i] + 2 /\ Wanted.length = ModelLength(Ids[i])
         /\ pc = "model" => i = Len(order) /\ settings[id].length = ModelLength(id)
         /\ pc = "scan" => i \in Sound
  <2>1. CASE pc = "model"
    <3> DEFINE n == Len(order)
    <3>1. n \in 1..n /\ at = Bases[n] + 2
      BY <1>2, <2>1 DEF IInv, Walk
    <3>2. Wanted.start = at /\ Wanted.length = settings[order[n]].length
      BY <2>1 DEF Wanted
    <3>3. /\ n \in 1..Len(conf) /\ Ids[n] = order[n]
          /\ settings[order[n]] = [start |-> Bases[n] + 2, length |-> ModelLength(Ids[n])]
      BY <1>1, <1>2, <3>1, SettingIs
    <3> QED
      BY <2>1, <3>1, <3>2, <3>3
  <2>2. CASE pc = "scan"
    <3>1. at \in 1..Len(order) /\ 1..Len(order) \subseteq Sound
      BY <2>2 DEF IInv, Walk
    <3>2. Wanted = settings[order[at]]
      BY <2>2 DEF Wanted
    <3>3. PICK j \in 1..Len(order) : /\ j \in 1..Len(conf) /\ Ids[j] = order[at]
                                     /\ settings[order[at]] = [start |-> Bases[j] + 2, length |-> ModelLength(Ids[j])]
      BY <1>1, <1>2, <3>1, SettingIs
    <3> QED
      BY <2>2, <3>1, <3>2, <3>3
  <2> QED
    BY <2>1, <2>2
<1>5. PICK i \in 1..Len(conf) :
         /\ Ids[i] = id /\ start = Bases[i] + 2
         /\ Wanted.start = Bases[i] + 2 /\ Wanted.length = ModelLength(Ids[i])
         /\ pc = "model" => i = Len(order) /\ settings[id].length = ModelLength(id)
         /\ pc = "scan" => i \in Sound
  BY <1>4
<1>6. /\ i \in 1..(Len(conf) + 1) /\ id \in DOMAIN Schema /\ start \in Nat /\ ModelLength(id) \in Nat
      /\ Bases[i] \in Nat /\ Bases[i + 1] = Bases[i] + 2 + ModelLength(Ids[i])
  BY <1>3, <1>5
<1>7. ASSUME NEW k \in 1..Len(Points(id))
      PROVE  Genuine(dev, held, start + Offset(id, k), start, reply.data)
  <2> DEFINE a == Bases[i] + 2 + Offset(Ids[i], k)
  <2> HIDE DEF a
  <2>1. /\ a \in DOMAIN dev.made /\ a + Points(Ids[i])[k].size <= Bases[i + 1]
        /\ Offset(Ids[i], k) \in Nat /\ Points(Ids[i])[k] \in Point
    <3>1. k \in 1..Len(Points(Ids[i]))
      BY <1>5
    <3> QED
      BY <1>1, <3>1, PointIn DEF a
  <2>2. Points(Ids[i])[k].size \in Nat \ {0}
    BY <2>1 DEF Point
  <2>3. Wanted.start <= a /\ a < Wanted.start + Wanted.length
    <3> DEFINE b == Bases[i]
               o == Offset(Ids[i], k)
               l == ModelLength(Ids[i])
               z == Points(Ids[i])[k].size
    <3>1. b \in Nat /\ o \in Nat /\ l \in Nat /\ z \in Nat \ {0} /\ a = b + 2 + o /\ a + z <= b + 2 + l
      BY <1>5, <1>6, <2>1, <2>2 DEF a
    <3>2. Wanted.start = b + 2 /\ Wanted.length = l
      BY <1>5
    <3> HIDE DEF b, o, l, z
    <3> QED
      BY <3>1, <3>2
  <2>4. Genuine(dev, held, a, Wanted.start, reply.data)
    BY <1>1, <2>1, <2>3
  <2> QED
    BY <1>5, <2>4 DEF a
<1>8. Len(reply.data) >= ModelLength(id)
  BY <1>1, <1>5
<1> QED
  BY <1>1, <1>5, <1>6, <1>7, <1>8

\* A model that has been read has its scale factors.
LEMMA SoundNow ==
    ASSUME conf \in Configs, Layout, NEW i \in 1..Len(conf), ~Malformed(Ids[i]), NEW start, start = Bases[i] + 2,
           NEW data, \A k \in 1..Len(Points(Ids[i])) : Genuine(dev, held, start + Offset(Ids[i], k), start, data)
    PROVE  i \in Sound
<1>1. Ids[i] \in DOMAIN Schema
  BY DEF Layout, Named
<1>2. /\ DOMAIN Schema[Ids[i]] = 1..Len(Schema[Ids[i]]) /\ Len(Schema[Ids[i]]) \in Nat
      /\ Len(Points(Ids[i])) = Len(Schema[Ids[i]]) - 2
      /\ \A k \in 1..Len(Points(Ids[i])) : Points(Ids[i])[k] = Schema[Ids[i]][k + 2]
  BY <1>1, SchemaSeq, PointsIs, PointType
<1>3. ASSUME NEW p \in Range(Schema[Ids[i]]), p.sf # ""
      PROVE  Homes(p.sf) # {}
  <2>1. PICK j \in 1..Len(Schema[Ids[i]]) : p = Schema[Ids[i]][j]
    BY <1>2 DEF Range
  <2>2. j \notin 1..2
    BY <1>1, <1>3, <2>1, HeaderFacts
  <2>3. j - 2 \in 1..Len(Points(Ids[i])) /\ (j - 2) + 2 = j
    BY <1>2, <2>2
  <2> DEFINE k == j - 2
             a == Bases[i] + 2 + Offset(Ids[i], k)
  <2>4. k \in 1..Len(Points(Ids[i])) /\ p = Points(Ids[i])[k]
    BY <1>2, <2>1, <2>3
  <2> HIDE DEF k, a
  <2>5. Matches(dev.made[a], Ids[i], Points(Ids[i])[k])
    BY <2>4, PointIn DEF a
  <2>6. p.sf # "number"
    BY <2>4 DEF Malformed
  <2>7. dev.made[a].sf = p.sf
    BY <2>4, <2>5, <2>6 DEF Matches
  <2>8. ~Lacks(dev, dev.made[a])
    BY <2>4 DEF Genuine, a
  <2>9. p.sf \in DOMAIN dev.points
    BY <1>3, <2>7, <2>8 DEF Lacks
  <2>10. p.sf \notin {"ID", "L"}
    BY <1>1, <2>1, PointFacts
  <2> QED
    BY <2>9, <2>10, HomesAre
<1> QED
  BY <1>3 DEF Sound

\* A push counts if it fails.
LEMMA PushIs ==
    ASSUME NEW sent \in BOOLEAN, unsent \in 0..MaxUnsent, Push(sent)
    PROVE  unsent' \in 0..MaxUnsent /\ (~sent => unsent' > 0)
  BY ClientAssumption DEF Push

\* GotData keeps the invariant: the next model begins where this one ends.
LEMMA GotDataInv ==
    ASSUME Plain, IInv, GotData
    PROVE  IInv' /\ (pc' = "failed" => Refused' \/ unsent' > 0)
<1> DEFINE id == order[Len(order)]
<1>1. pc = "model" /\ Answer("scan", TRUE) /\ Took /\ UNCHANGED <<order, settings, inbox, updates, timeouts>>
  BY DEF GotData
<1>2. conf \in Configs /\ Layout /\ dev.ok
  BY <1>1, AnswerFacts
<1>3. Exchange' /\ conf' = conf /\ dev' = dev /\ waiting' = {}
  BY <1>1, TookKeeps
<1>4. Ids' = Ids /\ Bases' = Bases /\ Sound' = Sound /\ Refused' = Refused
  BY <1>3, Frame
<1>5. PICK i \in 1..Len(conf) :
              /\ Ids[i] = id /\ id \in DOMAIN Schema /\ at = Bases[i] + 2
              /\ i = Len(order) /\ settings[id].length = ModelLength(id)
              /\ reply.data \in Seq(Word) /\ Len(reply.data) >= ModelLength(id)
              /\ \A k \in 1..Len(Points(id)) : Genuine(dev, held, at + Offset(id, k), at, reply.data)
  BY <1>1, Answered
<1>6. at \in Nat /\ ClientTypeOK /\ KnownOK
  BY DEF IInv, TypeOK, ClientTypeOK
<1>7. Entered /\ Entered'
  <2>1. Entered
    BY <1>1 DEF IInv, Walk
  <2> QED
    BY <1>1, <1>3, <1>4, <2>1 DEF Entered
<1>8. CASE Malformed(id)
  <2>1. pc' = "failed" /\ UNCHANGED <<at, known, reported, connected, unsent>>
    BY <1>8 DEF GotData
  <2>2. Refused
    BY <1>5, <1>8 DEF Refused
  <2>3. Walk'
    BY <1>1, <1>2, <1>3, <2>1 DEF Walk
  <2>4. ClientTypeOK' /\ KnownOK'
    BY <1>1, <1>3, <1>6, <2>1 DEF ClientTypeOK, KnownOK
  <2> QED
    BY <1>3, <1>4, <2>2, <2>3, <2>4, Parts
<1>9. CASE ~Malformed(id)
  <2>1. PICK sent \in BOOLEAN :
              /\ Process(id, at, reply.data, sent) /\ Push(sent)
              /\ pc' = IF sent THEN "next" ELSE "failed"
              /\ at' = IF sent THEN at + settings[id].length ELSE at
    BY <1>9 DEF GotData
  <2> HIDE DEF id
  <2>9. unsent' \in 0..MaxUnsent /\ (~sent => unsent' > 0)
    BY <1>6, <2>1, PushIs DEF ClientTypeOK
  <2>2. /\ reported' \in [Names -> Int \cup {None}] /\ DOMAIN known' \subseteq Names
        /\ KnownOK' /\ connected' \in BOOLEAN
    BY <1>5, <1>6, <1>9, <2>1, ProcessIs
  <2>3. i \in Sound
    BY <1>2, <1>5, <1>9, SoundNow
  <2>4. i + 1 \in 1..(Len(conf) + 1) /\ Bases[i + 1] = Bases[i] + 2 + ModelLength(id) /\ ModelLength(id) \in Nat
        /\ Len(conf) \in Nat
    BY <1>2, <1>5, BasesIs
  <2>5. (sent => at' = Bases'[Len(order') + 1]) /\ at' \in Nat
    BY <1>1, <1>4, <1>5, <1>6, <2>1, <2>4
  <2>6. 1..Len(order') \subseteq Sound'
    <3>1. 1..(i - 1) \subseteq Sound
      BY <1>1, <1>5 DEF IInv, Walk
    <3>2. 1..i = 1..(i - 1) \cup {i}
      BY <2>4
    <3> QED
      BY <1>1, <1>4, <1>5, <2>3, <3>1, <3>2
  <2>7. Walk'
    BY <1>2, <1>3, <1>7, <2>1, <2>5, <2>6 DEF Walk
  <2>8. ClientTypeOK'
    BY <1>1, <1>3, <1>6, <2>1, <2>2, <2>5, <2>9 DEF ClientTypeOK
  <2> QED
    BY <1>3, <2>1, <2>2, <2>7, <2>8, <2>9, Parts
<1> QED
  BY <1>8, <1>9

\* DiscoveryFails keeps the invariant, and has an excuse.
LEMMA DiscoveryFailsInv ==
    ASSUME Plain, IInv, DiscoveryFails
    PROVE  IInv' /\ Excused'
<1>1. Discovering /\ Error("scan") /\ pc' = "failed"
      /\ UNCHANGED <<at, order, settings, known, reported, connected, inbox, updates, unsent>>
  BY DEF DiscoveryFails
<1>2. /\ Exchange' /\ conf' = conf /\ dev' = dev /\ waiting' = {} /\ timeouts' \in 0..MaxTimeouts
      /\ Refused' \/ ~alive' \/ Hung' \/ timeouts' > 0
  BY <1>1, ErrorKeeps
<1>3. Walk'
  BY <1>1 DEF Walk
<1>4. ClientTypeOK' /\ KnownOK'
  BY <1>1, <1>2 DEF IInv, TypeOK, ClientTypeOK, KnownOK
<1> QED
  BY <1>2, <1>3, <1>4, Parts DEF Excused

\* While the scan sleeps nobody waits for it.
LEMMA SleepIdle ==
    ASSUME IInv, pc = "sleep"
    PROVE  ~(req # None /\ req.fn = 3) /\ ~(reply # None /\ reply.by = "scan" /\ reply.ok)
  BY DEF IInv, Asked, Asking

\* The server is not touched, and the scan asks for the same or begins.
LEMMA ServerSame ==
    ASSUME IInv, UNCHANGED serverVars, waiting' = waiting,
           \/ pc' = pc /\ at' = at /\ order' = order /\ settings' = settings
           \/ pc' = "crashed"
           \/ pc = "sleep"
    PROVE  Exchange' /\ conf' = conf /\ dev' = dev
<1>1. /\ conf' = conf /\ dev' = dev /\ tags' = tags /\ internal' = internal /\ alive' = alive
      /\ req' = req /\ addr' = addr /\ buf' = buf /\ reply' = reply /\ held' = held /\ news' = news
  BY DEF serverVars
<1>2. Hung' = Hung
  BY <1>1 DEF Hung, Serving, Mapped, NoFactor, Reg, Home
<1>3. Starts' = Starts /\ End' = End /\ Refused' = Refused
  BY <1>1, Frame
<1>4. ServerTypeOK' /\ Fixed' /\ Levels'
  BY <1>1 DEF IInv, TypeOK, ServerTypeOK, Fixed, Levels
<1>5. Turns'
  BY <1>1, <1>2 DEF IInv, Turns
<1>6. Steady'
  BY <1>1, <1>2, <1>3 DEF IInv, Steady
<1>7. Reading'
  BY <1>1, <1>3 DEF IInv, Reading
<1>8. Asked'
  <2>1. CASE pc' = pc /\ at' = at /\ order' = order /\ settings' = settings
    <3>1. Wanted' = Wanted /\ Asking' = Asking
      BY <2>1 DEF Wanted, Asking
    <3> QED
      BY <1>1, <1>3, <2>1, <3>1 DEF IInv, Asked
  <2>2. CASE pc' = "crashed"
    BY <1>1, <1>3, <2>2 DEF IInv, Asked
  <2>3. CASE pc = "sleep"
    <3>1. ~(req # None /\ req.fn = 3) /\ ~(reply # None /\ reply.by = "scan" /\ reply.ok)
      BY <2>3, SleepIdle
    <3> QED
      BY <1>1, <1>3, <3>1 DEF IInv, Asked
  <2> QED
    BY <2>1, <2>2, <2>3
<1> QED
  BY <1>1, <1>4, <1>5, <1>6, <1>7, <1>8 DEF Exchange

\* A step that leaves the maps of the client alone.
LEMMA WalkSame ==
    ASSUME IInv, conf' = conf, dev' = dev, pc' = pc, at' = at, order' = order, settings' = settings, known' = known
    PROVE  Walk' /\ KnownOK'
<1>1. Walk'
  BY Frame DEF IInv, Walk, Entered
<1> QED
  BY <1>1 DEF IInv, KnownOK

\* Wake keeps the invariant.
LEMMA WakeInv ==
    ASSUME Plain, IInv, Wake
    PROVE  IInv'
<1>1. pc = "sleep" /\ pc' = "scan" /\ at' = 1 /\ UNCHANGED serverVars
      /\ UNCHANGED <<order, settings, known, reported, connected, inbox, waiting, updates, timeouts, unsent>>
  BY DEF Wake
<1>2. Exchange' /\ conf' = conf /\ dev' = dev
  BY <1>1, ServerSame
<1>3. dev.ok /\ Entered /\ Len(order) = Len(conf) /\ 1..Len(order) \subseteq Sound
  BY <1>1 DEF IInv, Walk
<1>4. Len(conf) >= 1 /\ conf \in Configs /\ Len(conf) \in Nat
  BY <1>3, LayoutIs, ConfType DEF Layout, IInv, TypeOK, ServerTypeOK
<1>5. Ids' = Ids /\ Bases' = Bases /\ Sound' = Sound
  BY <1>2, Frame
<1>6. Entered'
  BY <1>1, <1>2, <1>3, <1>5 DEF Entered
<1>7. Walk'
  <2>1. at' \in 1..Len(order')
    BY <1>1, <1>3, <1>4
  <2> QED
    BY <1>1, <1>2, <1>3, <1>5, <1>6, <2>1 DEF Walk
<1>8. ClientTypeOK' /\ KnownOK'
  BY <1>1 DEF IInv, TypeOK, ClientTypeOK, KnownOK
<1> QED
  BY <1>2, <1>7, <1>8, Parts

\* Scanned keeps the invariant.
LEMMA ScannedInv ==
    ASSUME Plain, IInv, Scanned
    PROVE  IInv' /\ pc' \in {"scan", "sleep"}
<1>1. pc = "scan" /\ UNCHANGED <<order, settings, inbox, updates>> /\ NextInOrder
  BY DEF Scanned
<1>2. at \in Nat /\ ClientTypeOK /\ KnownOK /\ timeouts \in 0..MaxTimeouts
  BY DEF IInv, TypeOK, ClientTypeOK
<1>0. PICK sent \in BOOLEAN :
              /\ \/ /\ Answer("scan", TRUE)
                    /\ Process(order[at], settings[order[at]].start, reply.data, sent)
                    /\ Took
                    /\ UNCHANGED timeouts
                 \/ Error("scan") /\ ProcessNothing(sent)
              /\ Push(sent)
  BY DEF Scanned
<1>11. unsent' \in 0..MaxUnsent
  BY <1>0, <1>2, PushIs DEF ClientTypeOK
<1>3. /\ Exchange' /\ conf' = conf /\ dev' = dev /\ waiting' = {} /\ timeouts' \in 0..MaxTimeouts
      /\ reported' \in [Names -> Int \cup {None}] /\ DOMAIN known' \subseteq Names
      /\ KnownOK' /\ connected' \in BOOLEAN
  <2>1. CASE /\ Answer("scan", TRUE)
             /\ Process(order[at], settings[order[at]].start, reply.data, sent)
             /\ Took
             /\ UNCHANGED timeouts
    <3> DEFINE id == order[at]
               start == settings[order[at]].start
    <3>1. Exchange' /\ conf' = conf /\ dev' = dev /\ waiting' = {}
      BY <2>1, TookKeeps
    <3>2. PICK i \in 1..Len(conf) :
              /\ Ids[i] = id /\ id \in DOMAIN Schema /\ start \in Nat /\ i \in Sound
              /\ reply.data \in Seq(Word) /\ Len(reply.data) >= ModelLength(id)
      BY <1>1, <2>1, Answered
    <3>3. Process(id, start, reply.data, sent) /\ ~Malformed(id)
      BY <2>1, <3>2 DEF Sound
    <3> HIDE DEF id, start
    <3>4. /\ reported' \in [Names -> Int \cup {None}] /\ DOMAIN known' \subseteq Names
          /\ KnownOK' /\ connected' \in BOOLEAN
      BY <1>2, <3>2, <3>3, ProcessIs
    <3> QED
      BY <1>2, <2>1, <3>1, <3>4
  <2>2. CASE Error("scan") /\ ProcessNothing(sent)
    <3>1. Exchange' /\ conf' = conf /\ dev' = dev /\ waiting' = {} /\ timeouts' \in 0..MaxTimeouts
      BY <2>2, ErrorKeeps
    <3>2. known' = known /\ reported' = reported /\ connected' = (connected /\ ~sent)
      BY <2>2 DEF ProcessNothing
    <3>3. connected' \in BOOLEAN
      BY <3>2, Zenon
    <3> QED
      BY <1>2, <3>1, <3>2, <3>3 DEF ClientTypeOK, KnownOK
  <2> QED
    BY <1>0, <2>1, <2>2
<1>4. dev.ok /\ Entered /\ Len(order) = Len(conf) /\ 1..Len(order) \subseteq Sound /\ at \in 1..Len(order)
  BY <1>1 DEF IInv, Walk
<1>5. Ids' = Ids /\ Bases' = Bases /\ Sound' = Sound
  BY <1>3, Frame
<1>6. Entered'
  BY <1>1, <1>3, <1>4, <1>5 DEF Entered
<1>7. Len(order) \in Nat
  BY <1>2 DEF ClientTypeOK
<1>8. pc' \in {"scan", "sleep"} /\ at' \in 1..Len(order) /\ at' \in Nat
  BY <1>1, <1>4, <1>7 DEF NextInOrder
<1>9. Walk'
  BY <1>1, <1>3, <1>4, <1>5, <1>6, <1>8 DEF Walk
<1>10. ClientTypeOK'
  BY <1>1, <1>2, <1>3, <1>8, <1>11 DEF ClientTypeOK
<1> QED
  BY <1>3, <1>8, <1>9, <1>10, Parts

\* Command keeps the invariant.
LEMMA CommandInv ==
    ASSUME Plain, IInv, Command
    PROVE  IInv'
<1>1. /\ updates < MaxUpdates /\ updates' = updates + 1 /\ UNCHANGED serverVars
      /\ UNCHANGED <<pc, at, order, settings, known, reported, connected, waiting, timeouts, unsent>>
  BY DEF Command
<1>2. PICK u \in Update : inbox' = Append(inbox, u)
  BY DEF Command
<1>3. Exchange' /\ conf' = conf /\ dev' = dev
  BY <1>1, ServerSame
<1>4. Walk' /\ KnownOK'
  BY <1>1, <1>3, WalkSame
<1>5. inbox' \in Seq(Update) /\ updates' \in 0..MaxUpdates
  <2>1. inbox \in Seq(Update) /\ updates \in 0..MaxUpdates /\ MaxUpdates \in Nat
    BY ClientAssumption DEF IInv, TypeOK
  <2> QED
    BY <1>1, <1>2, <2>1
<1>6. ClientTypeOK'
  BY <1>1, <1>5 DEF IInv, TypeOK, ClientTypeOK
<1> QED
  BY <1>3, <1>4, <1>6, Parts

\* An Update is taken from the inbox.
LEMMA NextUpdateType ==
    ASSUME IInv, NextUpdate
    PROVE  inbox' \in Seq(Update) /\ Head(inbox) \in Update /\ Head(inbox)[2] \in Int
<1>1. inbox \in Seq(Update) /\ inbox # <<>> /\ inbox' = Tail(inbox)
  BY DEF IInv, TypeOK, NextUpdate
<1>2. Head(inbox) \in Update /\ inbox' \in Seq(Update)
  BY <1>1
<1>3. Head(inbox) \in STRING \X Int
  BY <1>2, ClientAssumption
<1> QED
  BY <1>2, <1>3

\* Skip keeps the invariant.
LEMMA SkipInv ==
    ASSUME Plain, IInv, Skip
    PROVE  IInv'
<1>1. NextUpdate /\ UNCHANGED serverVars
      /\ UNCHANGED <<pc, at, order, settings, known, reported, connected, waiting, updates, timeouts, unsent>>
  BY DEF Skip
<1>2. Exchange' /\ conf' = conf /\ dev' = dev
  BY <1>1, ServerSame
<1>3. Walk' /\ KnownOK'
  BY <1>1, <1>2, WalkSame
<1>4. inbox' \in Seq(Update)
  BY <1>1, NextUpdateType
<1>5. ClientTypeOK'
  BY <1>1, <1>4 DEF IInv, TypeOK, ClientTypeOK
<1> QED
  BY <1>2, <1>3, <1>5, Parts

\* WritePoint keeps the invariant: a write waits for its turn.
LEMMA WritePointInv ==
    ASSUME Plain, IInv, WritePoint
    PROVE  IInv' /\ pc' # "failed"
<1> DEFINE r == Written(Head(inbox))
           u == Head(inbox)
<1>1. /\ pc \notin {"failed", "crashed"} /\ NextUpdate /\ Writable(u)
      /\ UNCHANGED <<at, order, settings, known, reported, connected, updates, timeouts, unsent>>
  BY DEF WritePoint
<1>2. inbox' \in Seq(Update) /\ u[2] \in Int
  BY <1>1, NextUpdateType
<1>3. u[1] \in DOMAIN known /\ r = known[u[1]]
  BY <1>1 DEF Writable, Written
<1>4. Supported(r.dt) /\ r.addr \in Nat /\ r.scaling = 0
  BY <1>3 DEF IInv, KnownOK
<1>5. pc # "identify" /\ dev.ok
  BY <1>1, <1>3 DEF IInv, Walk
<1>6. CASE /\ r.dt \in Text
           /\ pc' = "crashed"
           /\ UNCHANGED <<serverVars, waiting>>
  <2>1. Exchange' /\ conf' = conf /\ dev' = dev
    BY <1>6, ServerSame
  <2>2. Walk'
    BY <1>5, <1>6, <2>1 DEF Walk
  <2>3. KnownOK' /\ ClientTypeOK'
    BY <1>1, <1>2, <1>6 DEF IInv, TypeOK, ClientTypeOK, KnownOK
  <2> QED
    BY <1>6, <2>1, <2>2, <2>3, Parts
<1>7. CASE /\ r.dt \notin Text
           /\ \E ws \in Bytes(r, u[2], 0) : Send(16, r.addr, Count(r.dt), ws, "write")
           /\ UNCHANGED pc
  <2> DEFINE c == Count(r.dt)
             a == r.addr
             v == u[2]
  <2>1. c \in Nat /\ a \in Nat /\ v \in Int /\ r.scaling \in Int
    BY <1>2, <1>4, CountType
  <2>2. \A ws \in Bytes(r, v, 0) : ws \in [1..c -> Word]
    <3> HIDE DEF r, v
    <3> QED
      BY <1>4, <2>1, BytesType
  <2>3. PICK ws : ws \in [1..c -> Word] /\ Send(16, a, c, ws, "write")
    BY <1>7, <2>2
  <2> HIDE DEF c, a, v, r, u
  <2>4. ws \in Seq(Word)
    BY <2>1, <2>3
  <2>5. waiting = {} /\ waiting' = {"write"}
    BY <2>3 DEF Send
  <2>6. conf' = conf /\ dev' = dev
    BY <2>3 DEF Send, serverVars
  <2>7. reply = None /\ (req # None => req.fn = 16)
    BY <2>5 DEF IInv, Turns, TypeOK, ServerTypeOK
  <2>8. Walk' /\ KnownOK'
    BY <1>1, <1>7, <2>6, WalkSame
  <2>9. ClientTypeOK'
    BY <1>1, <1>2, <1>7, <2>5 DEF IInv, TypeOK, ClientTypeOK
  <2>10. Starts' = Starts
    BY <2>6, Frame
  <2>11. CASE alive /\ req = None
    <3>1. /\ req' = [fn |-> 16, start |-> a, count |-> c, data |-> ws, by |-> "write"]
          /\ addr' = a /\ buf' = <<>> /\ reply' = None /\ held' = [t \in Tag |-> {tags[t]}]
          /\ UNCHANGED <<conf, dev, tags, internal, alive, news>>
      BY <2>3, <2>11 DEF Send, Accept
    <3>2. ~Hung
      BY <2>11 DEF Hung, Serving
    <3>3. /\ req'.fn = 16 /\ req'.start = a /\ req'.count = c
          /\ req'.data = ws /\ req'.by = "write"
      BY <3>1
    <3>4. ServerTypeOK'
      <4>1. tags \in [Tag -> Int]
        BY DEF IInv, TypeOK, ServerTypeOK
      <4>2. held' \in [Tag -> SUBSET Int] /\ buf' \in Seq(0..(Modulus - 1)) /\ addr' \in Nat
        BY <2>1, <3>1, <4>1
      <4>3. req'.fn \in {3, 16} /\ req'.start \in Nat /\ req'.count \in Nat
        BY <2>1, <3>3
      <4> QED
        BY <3>1, <4>2, <4>3 DEF IInv, TypeOK, ServerTypeOK
    <3>5. Turns'
      BY <1>5, <2>4, <2>5, <3>1, <3>3 DEF Turns
    <3>6. Steady' /\ Fixed'
      BY <2>10, <2>11, <3>1, <3>2 DEF IInv, Steady, Fixed
    <3>7. Levels'
      BY <3>1 DEF IInv, Levels
    <3>8. Reading' /\ Asked'
      BY <3>1, <3>3 DEF Reading, Asked
    <3> QED
      BY <1>1, <1>7, <2>8, <2>9, <3>4, <3>5, <3>6, <3>7, <3>8, Parts DEF Exchange
  <2>12. CASE ~(alive /\ req = None)
    <3>1. UNCHANGED serverVars
      BY <2>3, <2>12 DEF Send
    <3>2. Hung' = Hung
      BY <3>1 DEF serverVars, Hung, Serving, Mapped, NoFactor, Reg, Home
    <3>3. ServerTypeOK' /\ Fixed' /\ Levels'
      BY <3>1 DEF IInv, TypeOK, ServerTypeOK, Fixed, Levels, serverVars
    <3>4. req' = req /\ reply' = None /\ alive' = alive /\ internal' = internal
      BY <2>7, <3>1 DEF serverVars
    <3>5. Turns'
      BY <2>5, <2>6, <2>7, <3>2, <3>4 DEF IInv, Turns
    <3>6. Steady' /\ Reading' /\ Asked'
      BY <2>7, <2>10, <3>2, <3>4 DEF IInv, Steady, Reading, Asked
    <3> QED
      BY <1>1, <1>7, <2>8, <2>9, <3>3, <3>5, <3>6, Parts DEF Exchange
  <2> QED
    BY <2>11, <2>12
<1> QED
  BY <1>6, <1>7 DEF WritePoint

\* WriteEnds keeps the invariant.
LEMMA WriteEndsInv ==
    ASSUME Plain, IInv, WriteEnds
    PROVE  IInv'
<1>1. Error("write") /\ UNCHANGED <<pc, at, order, settings, known, reported, connected, inbox, updates, unsent>>
  BY DEF WriteEnds
<1>2. Exchange' /\ conf' = conf /\ dev' = dev /\ waiting' = {} /\ timeouts' \in 0..MaxTimeouts
  BY <1>1, ErrorKeeps
<1>3. Walk' /\ KnownOK'
  BY <1>1, <1>2, WalkSame
<1>4. ClientTypeOK'
  BY <1>1, <1>2 DEF IInv, TypeOK, ClientTypeOK
<1> QED
  BY <1>2, <1>3, <1>4, Parts

\* MapRace keeps the invariant: the module is gone, the server is not.
LEMMA MapRaceInv ==
    ASSUME Plain, IInv, MapRace
    PROVE  IInv' /\ pc' # "failed"
<1>1. pc \in {"model", "scan"} /\ pc' = "crashed" /\ UNCHANGED serverVars
      /\ UNCHANGED <<at, order, settings, known, reported, connected, inbox, waiting, updates, timeouts, unsent>>
  BY DEF MapRace
<1>2. Exchange' /\ conf' = conf /\ dev' = dev
  BY <1>1, ServerSame
<1>3. Walk'
  BY <1>1, <1>2 DEF IInv, Walk
<1>4. ClientTypeOK' /\ KnownOK'
  BY <1>1 DEF IInv, TypeOK, ClientTypeOK, KnownOK
<1> QED
  BY <1>1, <1>2, <1>3, <1>4, Parts

-----------------------------------------------------------------------------
(* The theorems.                                                           *)

\* Every step keeps the invariant.
LEMMA NextInv ==
    ASSUME Plain, IInv, [Next]_vars
    PROVE  IInv'
<1>1. CASE Server
  BY <1>1, RefuseInv, ReadNextInv, ReadDoneInv, WriteInv DEF Server, Serve
<1>2. CASE Bus
  BY <1>2, StatusInv DEF Bus
<1>3. CASE Reader
  BY <1>3, AskInv, IdentifiedInv, GotModelInv, GotDataInv, DiscoveryFailsInv, WakeInv, ScannedInv DEF Reader
<1>4. CASE Writer
  BY <1>4, SkipInv, WritePointInv, WriteEndsInv DEF Writer
<1>5. CASE Command \/ MapRace
  BY <1>5, CommandInv, MapRaceInv
<1>6. CASE UNCHANGED vars
  <2>1. UNCHANGED serverVars /\ UNCHANGED clientVars
    BY <1>6 DEF vars
  <2>2. /\ pc' = pc /\ at' = at /\ order' = order /\ settings' = settings /\ known' = known
        /\ waiting' = waiting
    BY <2>1 DEF clientVars
  <2>3. Exchange' /\ conf' = conf /\ dev' = dev
    BY <2>1, <2>2, ServerSame
  <2>4. Walk' /\ KnownOK'
    BY <2>2, <2>3, WalkSame
  <2>5. ClientTypeOK'
    BY <2>1 DEF IInv, TypeOK, ClientTypeOK, clientVars
  <2> QED
    BY <2>3, <2>4, <2>5, Parts
<1> QED
  BY <1>1, <1>2, <1>3, <1>4, <1>5, <1>6 DEF Next

\* The inductive invariant.  One request is served at a time, the words collected so far
\* are those of values their registers had meanwhile (server.go:231), the answer that is there
\* is one to what the client asks for now, and discovery has entered the models from the first
\* one on, each where Configure put it (server.go:99, client.go:110).
THEOREM SunSpecInv == Plain => (Spec => []IInv)
<1> SUFFICES ASSUME Plain
             PROVE  Spec => []IInv
  OBVIOUS
<1>1. Init => IInv
  BY InitInv
<1>2. IInv /\ [Next]_vars => IInv'
  BY NextInv
<1> QED
  BY <1>1, <1>2, PTL DEF Spec

\* The map of an accepted configuration, as long as the server lives: every address from the
\* identifier to the end of the list belongs to exactly one register, and every point is where
\* the standard has it (server.go:99).
THEOREM SunSpecLayout == Plain => (Spec => [](dev.ok => Layout))
<1> SUFFICES ASSUME Plain
             PROVE  Spec => [](dev.ok => Layout)
  OBVIOUS
<1>1. IInv => (dev.ok => Layout)
  BY LayoutIs
<1> QED
  BY <1>1, SunSpecInv, PTL

\* Every variable of server and client keeps its type: words stay below 2^16, the
\* client's list of models only has ids of schemas, its points only names of schemas
\* (client.go:110, client.go:227).
THEOREM SunSpecTypes == Plain => (Spec => []TypeOK)
<1> SUFFICES ASSUME Plain
             PROVE  Spec => []TypeOK
  OBVIOUS
<1>1. IInv => TypeOK
  BY DEF IInv
<1> QED
  BY <1>1, SunSpecInv, PTL

\* What a client that scans knows.
Known ==
    Scanning => /\ order = Ids
                /\ ~Refused
                /\ \A id \in DOMAIN settings :
                     LET i == CHOOSE j \in 1..Len(Ids) : Ids[j] = id /\ \A k \in (j + 1)..Len(Ids) : Ids[k] # id
                     IN settings[id] = [start |-> ModelAt(i) + 2, length |-> ModelLength(id)]

\* A client that scans knows the list.
LEMMA KnownIs ==
    ASSUME Plain, IInv, Scanning
    PROVE  Known
<1>1. dev.ok /\ Entered /\ Len(order) = Len(conf) /\ 1..Len(order) \subseteq Sound /\ TypeOK
  BY DEF IInv, Walk, Scanning
<1>2. Layout /\ conf \in Configs /\ Len(conf) \in Nat /\ Len(conf) >= 1
  BY <1>1, LayoutIs, ConfType DEF Layout, IInv, TypeOK, ServerTypeOK
<1>3. Ids = [i \in 1..Len(conf) |-> conf[i].id] /\ Len(Ids) = Len(conf) /\ DOMAIN Ids = 1..Len(conf)
  BY <1>2 DEF Ids
<1>4. order = Ids
  <2>1. order \in Seq(DOMAIN Schema)
    BY <1>1 DEF TypeOK
  <2>2. order = [i \in 1..Len(order) |-> order[i]]
    BY <2>1
  <2>3. \A i \in 1..Len(order) : order[i] = Ids[i]
    BY <1>1 DEF Entered
  <2>4. Ids = [i \in 1..Len(conf) |-> Ids[i]]
    BY <1>3
  <2> QED
    BY <1>1, <2>2, <2>3, <2>4
<1>5. ~Refused
  <2>1. Ids[1] = 1
    BY <1>1, <1>2 DEF Entered
  <2>2. \A i \in 1..Len(conf) : ~Malformed(Ids[i]) /\ \A p \in Range(Schema[Ids[i]]) : p.sf # "" => Homes(p.sf) # {}
    BY <1>1 DEF Sound
  <2>3. "" \notin dev.tags
    BY <1>2 DEF Layout, Clean
  <2> QED
    BY <1>1, <2>1, <2>2, <2>3 DEF Refused
<1>6. ASSUME NEW id \in DOMAIN settings
      PROVE  LET i == CHOOSE j \in 1..Len(Ids) : Ids[j] = id /\ \A k \in (j + 1)..Len(Ids) : Ids[k] # id
             IN settings[id] = [start |-> ModelAt(i) + 2, length |-> ModelLength(id)]
  <2> DEFINE Last(j) == Ids[j] = id /\ \A k \in (j + 1)..Len(Ids) : Ids[k] # id
             i == CHOOSE j \in 1..Len(Ids) : Last(j)
  <2>1. PICK m \in 1..Len(order) :
           /\ order[m] = id /\ \A k \in (m + 1)..Len(order) : order[k] # id
           /\ settings[id] = [start |-> Bases[m] + 2, length |-> ModelLength(id)]
    BY <1>1 DEF Entered
  <2>2. m \in 1..Len(Ids) /\ Last(m)
    BY <1>1, <1>3, <1>4, <2>1
  <2>3. i \in 1..Len(Ids) /\ Last(i)
    BY <2>2
  <2>4. ASSUME NEW j \in 1..Len(Ids), Last(j)
        PROVE  j = m
    <3>1. Len(Ids) \in Nat
      BY <1>2, <1>3
    <3>2. j < m => m \in (j + 1)..Len(Ids)
      BY <2>2, <3>1
    <3>3. m < j => j \in (m + 1)..Len(Ids)
      BY <2>2, <3>1
    <3>4. ~(j < m) /\ ~(m < j)
      BY <2>2, <2>4, <3>2, <3>3
    <3> QED
      BY <2>2, <3>1, <3>4
  <2> HIDE DEF i, Last
  <2>5. i = m
    BY <2>3, <2>4
  <2>6. Bases[m] = ModelAt(m)
    BY <1>2, <1>3, <2>2 DEF Bases
  <2>7. settings[id] = [start |-> ModelAt(i) + 2, length |-> ModelLength(id)]
    BY <2>1, <2>5, <2>6
  <2> QED
    BY <2>7 DEF i, Last
<1> QED
  BY <1>4, <1>5, <1>6 DEF Known

\* Run fails only for a reason.
LEMMA FailsExcused ==
    ASSUME Plain, IInv, [Next]_vars, Discovering, pc' = "failed"
    PROVE  Excused'
<1>1. pc # "failed" /\ pc \notin {"sleep", "scan", "crashed"}
  BY DEF Discovering
<1>2. ~Server /\ ~Bus /\ ~Command /\ ~(UNCHANGED vars)
  BY <1>1 DEF Server, Bus, Command, clientVars, vars
<1>3. ~Ask /\ ~Wake /\ ~Scanned /\ ~Identified
  BY <1>1, IdentifiedInv DEF Ask, Wake, Scanned
<1>4. ~Skip /\ ~WritePoint /\ ~WriteEnds /\ ~MapRace
  BY <1>1, WritePointInv DEF Skip, WriteEnds, MapRace
<1>5. CASE GotModel \/ GotData
  BY <1>5, GotModelInv, GotDataInv DEF Excused
<1>6. CASE DiscoveryFails
  BY <1>6, DiscoveryFailsInv
<1> QED
  BY <1>2, <1>3, <1>4, <1>5, <1>6 DEF Next, Reader, Writer

\* Discovery (client.go:110, util.go:30) ends with the models in their order, each at its
\* position and with its length, or with an error that has a cause: a configuration that must
\* be refused, a server that is gone or hangs, a lost answer, or a Status that could not be
\* pushed.
THEOREM SunSpecDiscovery == Plain => (Spec => Discovered)
<1> SUFFICES ASSUME Plain
             PROVE  Spec => Discovered
  OBVIOUS
<1>1. IInv => Known
  BY KnownIs DEF Known
<1>2. IInv /\ Known' /\ [Next]_vars => [Discovering /\ ~Discovering' => Discovery']_vars
  <2> SUFFICES ASSUME IInv, Known', [Next]_vars, Discovering
               PROVE  Discovery'
    OBVIOUS
  <2>1. pc' = "failed" => Excused'
    BY FailsExcused
  <2> QED
    BY <2>1 DEF Discovery, Known, Excused
<1> QED
  BY <1>1, <1>2, SunSpecInv, PTL DEF Spec, Discovered

\* The words of a point, once read, show a value the point had.
LEMMA Told ==
    ASSUME Plain, Fitting, IInv, Answer("scan", TRUE), pc \in {"model", "scan"}, NEW id, NEW start,
           pc = "model" => id = order[Len(order)] /\ start = at,
           pc = "scan" => id = order[at] /\ start = settings[order[at]].start,
           ~Malformed(id), NEW sent \in BOOLEAN, Process(id, start, reply.data, sent), NEW n \in Names, reported'[n] # reported[n]
    PROVE  \E h \in Homes(n) :
              \E v \in IF dev.made[h].tag = "" THEN {internal[h]} ELSE held[dev.made[h].tag] :
                  Shows(reported'[n], h, v)
<1>1. conf \in Configs /\ Fixed /\ Layout /\ dev.ok /\ internal = Starts
  BY AnswerFacts
<1>2. PICK i \in 1..Len(conf) :
              /\ Ids[i] = id /\ id \in DOMAIN Schema /\ start = Bases[i] + 2 /\ start \in Nat
              /\ reply.data \in Seq(Word) /\ Len(reply.data) >= ModelLength(id)
              /\ \A k \in 1..Len(Points(id)) : Genuine(dev, held, start + Offset(id, k), start, reply.data)
  BY Answered
<1>3. ClientTypeOK /\ KnownOK
  BY DEF IInv, TypeOK, ClientTypeOK
<1>4. PICK k \in 1..Len(Points(id)) :
           /\ Points(id)[k].name = n /\ Points(id)[k].dt \notin Text
           /\ reported'[n] = ValueOf(PointReg(id, start, k), Part(id, k, reply.data), 0)
  <2> DEFINE d == reply.data
  <2>1. /\ id \in DOMAIN Schema /\ ~Malformed(id) /\ start \in Nat /\ d \in Seq(Word)
        /\ Len(d) >= ModelLength(id) /\ Process(id, start, d, sent)
    BY <1>2
  <2> HIDE DEF d
  <2>2. \A m \in Names : reported'[m] # reported[m] =>
           \E k \in 1..Len(Points(id)) :
              /\ Points(id)[k].name = m /\ Points(id)[k].dt \notin Text
              /\ reported'[m] = ValueOf(PointReg(id, start, k), Part(id, k, d), 0)
    BY <1>3, <2>1, ProcessIs
  <2> QED
    BY <2>2 DEF d
<1> DEFINE p == Points(id)[k]
           h == Bases[i] + 2 + Offset(Ids[i], k)
           r == dev.made[h]
           q == PointReg(id, start, k)
           ws == Part(id, k, reply.data)
           c == Count(r.dt)
           f == Standing(dev, r)
<1>5. /\ h \in DOMAIN dev.made /\ Matches(r, id, p) /\ h \in Homes(n)
      /\ Supported(p.dt) /\ p.size = Count(p.dt) /\ Offset(id, k) \in Nat
  <2>1. k \in 1..Len(Points(Ids[i]))
    BY <1>2
  <2> HIDE DEF h
  <2>2. /\ h \in DOMAIN dev.made /\ Matches(dev.made[h], Ids[i], Points(Ids[i])[k])
        /\ Supported(Points(Ids[i])[k].dt) /\ Points(Ids[i])[k].size = Count(Points(Ids[i])[k].dt)
        /\ Offset(Ids[i], k) \in Nat
        /\ h \in Homes(Points(Ids[i])[k].name)
    BY <1>1, <2>1, PointIn DEF h
  <2> QED
    BY <1>2, <1>4, <2>2
<1>6. h = start + Offset(id, k) /\ h - start = Offset(id, k) /\ h \in Nat
  BY <1>2, <1>5
<1>7. Genuine(dev, held, h, start, reply.data)
  BY <1>2, <1>6
<1> HIDE DEF h
<1>8. r.dt = p.dt /\ c = p.size /\ Supported(r.dt) /\ r.dt \notin Text
  BY <1>4, <1>5 DEF Matches
<1>9. r.scaling \in Nat /\ r.tag \in Tag \cup {""} /\ r.start \in Int
  <2>1. r \in Register
    BY <1>1, <1>5, DevType
  <2>2. \A x \in Register : x.scaling \in Nat /\ x.tag \in Tag \cup {""} /\ x.start \in Int
    BY DEF Register
  <2> QED
    BY <2>1, <2>2
<1>10. f \in Int /\ Factor(r) = f
  BY <1>1, FactorIs
<1>11. ws = Slice(c, h - start, reply.data)
  <2>1. ws = [j \in 1..p.size |-> reply.data[Offset(id, k) + j]]
    BY DEF Part
  <2>2. Slice(p.size, Offset(id, k), reply.data) = [j \in 1..p.size |-> reply.data[Offset(id, k) + j]]
    BY DEF Slice
  <2>3. c = p.size /\ h - start = Offset(id, k)
    BY <1>6, <1>8
  <2> HIDE DEF ws, c, p
  <2> QED
    BY <2>1, <2>2, <2>3
<1>12. PICK v : v \in Values(dev, held, h) /\ ws \in Bytes(r, v, f)
  BY <1>7, <1>11 DEF Genuine
<1>13. ~Lacks(dev, r)
  BY <1>7 DEF Genuine
<1>14. v \in (IF r.tag = "" THEN {r.start} ELSE {0} \cup Level[r.tag]) /\ v \in Int
  <2>1. CASE r.tag = ""
    BY <1>9, <1>12, <2>1 DEF Values
  <2>2. CASE r.tag # ""
    <3>1. r.tag \in Tag
      BY <1>9, <2>2
    <3>2. held[r.tag] \subseteq {0} \cup Level[r.tag] /\ held[r.tag] \subseteq Int
      BY <3>1 DEF IInv, Levels, TypeOK, ServerTypeOK
    <3> QED
      BY <1>12, <2>2, <3>2 DEF Values
  <2> QED
    BY <2>1, <2>2
<1>15. \A x \in Raw(r, v, f) : Fits(r.dt, x)
  <2>1. \A a \in DOMAIN dev.made :
           dev.made[a].dt \notin Text /\ ~Lacks(dev, dev.made[a]) =>
              \A y \in IF dev.made[a].tag = "" THEN {dev.made[a].start} ELSE {0} \cup Level[dev.made[a].tag] :
                  \A x \in Raw(dev.made[a], y, Standing(dev, dev.made[a])) : Fits(dev.made[a].dt, x)
    BY <1>1 DEF Fitting, Fixed
  <2> QED
    BY <1>5, <1>8, <1>13, <1>14, <2>1
<1>16. q.dt = r.dt /\ q.scaling = 0
  <2>1. q.dt = p.dt /\ q.scaling = 0
    BY DEF PointReg
  <2> QED
    BY <1>8, <2>1
<1>17. reported'[n] = ValueOf(q, ws, 0)
  BY <1>4
<1>18. r.scaling \in Int
  <2> HIDE DEF r
  <2>1. \A z \in Nat : z \in Int
    OBVIOUS
  <2> QED
    BY <1>9, <2>1
<1> HIDE DEF q, ws, f, r, p, c
<1>19. Near(ValueOf(q, ws, 0), v, Scale(r, f))
  BY <1>8, <1>10, <1>12, <1>14, <1>15, <1>16, <1>18, ReadBack
<1>20. Shows(ValueOf(q, ws, 0), h, v)
  BY <1>10, <1>19 DEF Shows, Near, Scale, r
<1>21. v \in IF dev.made[h].tag = "" THEN {internal[h]} ELSE held[dev.made[h].tag]
  <2>1. internal[h] = dev.made[h].start
    BY <1>1, <1>5 DEF Starts
  <2> QED
    BY <1>12, <2>1 DEF Values
<1> QED
  BY <1>5, <1>17, <1>20, <1>21


\* What a step that publishes a value may say.
True(n) ==
    \E h \in Homes(n) :
        \E v \in IF dev.made[h].tag = "" THEN {internal[h]} ELSE held[dev.made[h].tag] : Shows(reported'[n], h, v)

\* What is published during discovery is true.
LEMMA GotDataTold ==
    ASSUME Plain, Fitting, IInv, GotData, NEW n \in Names, reported'[n] # reported[n]
    PROVE  True(n)
<1> DEFINE id == order[Len(order)]
           start == at
<1>1. pc = "model" /\ Answer("scan", TRUE)
  BY DEF GotData
<1>2. PICK sent \in BOOLEAN : ~Malformed(id) /\ Process(id, start, reply.data, sent)
  BY DEF GotData
<1>3. pc \in {"model", "scan"} /\ pc # "scan"
  BY <1>1
<1> HIDE DEF id, start
<1>4. pc = "model" => id = order[Len(order)] /\ start = at
  BY DEF id, start
<1> QED
  BY <1>1, <1>2, <1>3, <1>4, Told DEF True

\* What is published by the scan is true.
LEMMA ScannedTold ==
    ASSUME Plain, Fitting, IInv, Scanned, NEW n \in Names, reported'[n] # reported[n]
    PROVE  True(n)
<1> DEFINE id == order[at]
           start == settings[order[at]].start
<1>1. PICK sent \in BOOLEAN : pc = "scan" /\ Answer("scan", TRUE) /\ Process(id, start, reply.data, sent)
  BY DEF Scanned, ProcessNothing
<1>2. pc \in {"model", "scan"} /\ pc # "model"
  BY <1>1
<1> HIDE DEF id, start
<1>3. pc = "scan" => id = order[at] /\ start = settings[order[at]].start
  BY DEF id, start
<1>4. PICK i \in 1..Len(conf) : Ids[i] = id /\ i \in Sound
  BY <1>1, <1>2, <1>3, Answered
<1>5. ~Malformed(id)
  BY <1>4 DEF Sound
<1> QED
  BY <1>1, <1>2, <1>3, <1>5, Told DEF True

\* No other step publishes a value.
LEMMA OthersSilent ==
    ASSUME [Next]_vars, ~GotData, ~Scanned
    PROVE  reported' = reported
<1>1. CASE Server \/ Bus \/ Command \/ MapRace \/ UNCHANGED vars
  BY <1>1 DEF Server, Bus, Command, MapRace, vars, clientVars
<1>2. CASE Reader
  BY <1>2 DEF Reader, Ask, Identified, GotModel, DiscoveryFails, Wake
<1>3. CASE Writer
  BY <1>3 DEF Writer, Skip, WritePoint, WriteEnds
<1> QED
  BY <1>1, <1>2, <1>3 DEF Next

\* A number that is published for a point (client.go:252) shows a value that this point had
\* while the request was served, in discovery and in every scan, whatever Status came between
\* two registers of the answer (server.go:231).  A number that its register cannot hold would
\* come back as another one, hence Fitting.
THEOREM SunSpecReports == Plain /\ Fitting => (Spec => ReportsTrue)
<1> SUFFICES ASSUME Plain, Fitting
             PROVE  Spec => ReportsTrue
  OBVIOUS
<1>1. ASSUME IInv, [Next]_vars, NEW n \in Names, reported'[n] # reported[n]
      PROVE  True(n)
  BY <1>1, GotDataTold, ScannedTold, OthersSilent
<1>2. IInv /\ [Next]_vars =>
         [\A n \in Names : reported'[n] # reported[n] =>
             \E h \in Homes(n) : LET t == dev.made[h].tag
                                 IN \E v \in IF t = "" THEN {internal[h]} ELSE held[t] : Shows(reported'[n], h, v)]_vars
  BY <1>1 DEF True
<1> QED
  BY <1>2, SunSpecInv, PTL DEF Spec, ReportsTrue
=============================================================================
