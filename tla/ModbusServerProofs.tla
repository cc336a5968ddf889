------------------------- MODULE ModbusServerProofs -------------------------
(***************************************************************************)
(* Proofs about ModbusServer for every map of registers, every word size   *)
(* and every sequence of requests and Status messages.                     *)
(***************************************************************************)
EXTENDS ModbusServer, SequenceTheorems, WellFoundedInduction, TLAPS

-----------------------------------------------------------------------------
(* Induction and recursion over an interval.                               *)

\* A set of natural numbers that is not empty has a least member.
LEMMA LeastMember ==
    ASSUME NEW T, T \subseteq Nat, T # {}
    PROVE  \E x \in T : \A y \in T : x <= y
<1>1. IsWellFoundedOn(OpToRel(<, Nat), Nat)
  BY NatLessThanWellFounded
<1>2. PICK x \in T : \A y \in T : <<y, x>> \notin OpToRel(<, Nat)
  BY <1>1, WFMin
<1>3. ASSUME NEW y \in T
      PROVE  x <= y
  <2>1. <<y, x>> \notin {p \in Nat \X Nat : p[1] < p[2]}
    BY <1>2 DEF OpToRel
  <2> QED
    BY <2>1
<1> QED
  BY <1>3

\* A set that contains 0 and, up to n, the successor of each of its members.
LEMMA UpTo ==
    ASSUME NEW S, NEW n \in Nat, 0 \in S, \A i \in 1..n : i - 1 \in S => i \in S
    PROVE  \A i \in 0..n : i \in S
<1>1. SUFFICES ASSUME NEW T, T = {i \in 0..n : i \notin S}, T # {}
               PROVE  FALSE
  OBVIOUS
<1>2. PICK x \in T : \A y \in T : x <= y
  <2>1. T \subseteq Nat /\ T # {}
    BY <1>1
  <2> HIDE <1>1
  <2> QED
    BY <2>1, LeastMember
<1>3. x # 0 /\ x - 1 \in 0..n /\ x \in 1..n
  BY <1>1, <1>2
<1>4. x - 1 \notin T
  <2> SUFFICES ASSUME x - 1 \in T
               PROVE  FALSE
    OBVIOUS
  <2>1. x <= x - 1 /\ x \in Int
    BY <1>2, <1>3
  <2> QED
    BY <2>1
<1>5. x - 1 \in S /\ x \notin S
  BY <1>1, <1>2, <1>3, <1>4
<1> QED
  BY <1>3, <1>5

\* What a loop that begins with b has after i turns.
Loop(g, n, b, step) ==
    /\ DOMAIN g = 0..n
    /\ g[0] = b
    /\ \A i \in 1..n : g[i] = step[<<i, g[i - 1]>>]

\* A loop over a sequence comes to its end.
LEMMA LoopEnds ==
    ASSUME NEW n \in Nat, NEW S, NEW b \in S, NEW step \in [(1..n) \X S -> S]
    PROVE  \E g \in [0..n -> S] : Loop(g, n, b, step)
<1> DEFINE T == {m \in 0..n : \E g \in [0..m -> S] : Loop(g, m, b, step)}
<1>1. 0 \in T
  <2> DEFINE g == [i \in 0..0 |-> b]
  <2>1. g \in [0..0 -> S] /\ Loop(g, 0, b, step)
    BY DEF Loop
  <2> QED
    BY <2>1
<1>2. ASSUME NEW m \in 1..n, m - 1 \in T
      PROVE  m \in T
  <2>1. PICK g \in [0..(m - 1) -> S] : Loop(g, m - 1, b, step)
    BY <1>2
  <2> DEFINE e == step[<<m, g[m - 1]>>]
             h == [i \in 0..m |-> IF i = m THEN e ELSE g[i]]
  <2>2. e \in S
    OBVIOUS
  <2>3. h \in [0..m -> S]
    BY <2>2
  <2>4. h[0] = b
    BY <2>1 DEF Loop
  <2>5. ASSUME NEW i \in 1..m
        PROVE  h[i] = step[<<i, h[i - 1]>>]
    <3>1. CASE i = m
      <4>1. h[i] = e /\ h[i - 1] = g[m - 1]
        BY <3>1
      <4> QED
        BY <3>1, <4>1
    <3>2. CASE i # m
      <4>1. i \in 1..(m - 1) /\ h[i] = g[i] /\ h[i - 1] = g[i - 1]
        BY <3>2
      <4> QED
        BY <2>1, <4>1 DEF Loop
    <3> QED
      BY <3>1, <3>2
  <2> HIDE DEF h
  <2>6. Loop(h, m, b, step)
    BY <2>3, <2>4, <2>5 DEF Loop
  <2> QED
    BY <2>3, <2>6
<1> HIDE DEF T
<1>3. n \in T
  BY <1>1, <1>2, UpTo
<1> QED
  BY <1>3 DEF T

\* What holds of what the loop begins with, and is kept by every turn, holds of what it computes.
LEMMA LoopKeeps ==
    ASSUME NEW n \in Nat, NEW S, NEW f, f[0] \in S,
           \A i \in 1..n : f[i - 1] \in S => f[i] \in S
    PROVE  \A i \in 0..n : f[i] \in S
<1> DEFINE T == {i \in 0..n : f[i] \in S}
<1>1. 0 \in T
  OBVIOUS
<1>2. ASSUME NEW i \in 1..n, i - 1 \in T
      PROVE  i \in T
  BY <1>2
<1> HIDE DEF T
<1>3. \A i \in 0..n : i \in T
  BY <1>1, <1>2, UpTo
<1> QED
  BY <1>3 DEF T

-----------------------------------------------------------------------------
(* Division.                                                               *)

LEMMA DivMod ==
    ASSUME NEW m \in Int, NEW d \in Nat \ {0}
    PROVE  /\ m = (m \div d) * d + (m % d)
           /\ m % d \in 0..(d - 1)
           /\ m \div d \in Int
  OBVIOUS

LEMMA DivUnique ==
    ASSUME NEW q \in Int, NEW d \in Nat \ {0}, NEW r \in 0..(d - 1)
    PROVE  (q * d + r) \div d = q /\ (q * d + r) % d = r
  OBVIOUS

\* The quotient of a number below x * d is below x.
LEMMA DivBound ==
    ASSUME NEW m \in Nat, NEW d \in Nat \ {0}, NEW x \in Nat, m < x * d
    PROVE  m \div d \in 0..(x - 1)
<1> DEFINE q == m \div d
<1>1. q \in Int /\ m % d \in 0..(d - 1) /\ m = q * d + (m % d)
  BY DivMod
<1> HIDE DEF q
<1>2. q >= 0
  <2> SUFFICES ASSUME q <= -1
               PROVE  FALSE
    BY <1>1
  <2>1. q * d <= -d
    BY <1>1
  <2> QED
    BY <1>1, <2>1
<1>3. q < x
  <2> SUFFICES ASSUME x <= q
               PROVE  FALSE
    BY <1>1
  <2>1. x * d <= q * d
    BY <1>1
  <2> QED
    BY <1>1, <2>1
<1> QED
  BY <1>1, <1>2, <1>3 DEF q

\* Dividing twice.
LEMMA DivDiv ==
    ASSUME NEW m \in Nat, NEW x \in Nat \ {0}, NEW y \in Nat \ {0}
    PROVE  m \div (x * y) = (m \div x) \div y
<1>1. PICK q \in Int, r \in 0..(x - 1) : q = m \div x /\ m = q * x + r
  BY DivMod
<1>2. PICK p \in Int, s \in 0..(y - 1) : p = q \div y /\ q = p * y + s
  BY DivMod
<1>3. m = p * (x * y) + (s * x + r)
  <2>1. (p * y + s) * x = p * (x * y) + s * x
    BY <1>2
  <2>2. p * (x * y) \in Int /\ s * x \in Int
    BY <1>2
  <2>3. q * x = p * (x * y) + s * x
    BY <1>2, <2>1, Zenon
  <2> QED
    BY <1>1, <2>2, <2>3
<1>4. s * x + r \in 0..(x * y - 1)
  <2>1. s * x >= 0
    BY <1>2
  <2>2. s * x <= (y - 1) * x
    BY <1>2
  <2>3. (y - 1) * x = x * y - x
    OBVIOUS
  <2>4. s * x \in Int /\ x * y \in Int
    BY <1>2
  <2> QED
    BY <1>1, <2>1, <2>2, <2>3, <2>4
<1>5. x * y \in Nat \ {0}
  OBVIOUS
<1>6. m \div (x * y) = p
  BY <1>3, <1>4, <1>5, DivUnique
<1> QED
  BY <1>1, <1>2, <1>6

-----------------------------------------------------------------------------
(* Registers.                                                              *)

\* A register has one, two or four words.
LEMMA CountType == \A dt : Count(dt) \in {1, 2, 4}
  BY DEF Count

\* The weights of the words of a register.
LEMMA WeightType ==
    /\ Weight(0) = 1 /\ Weight(1) = Radix
    /\ Weight(0) \in Nat \ {0} /\ Weight(1) \in Nat \ {0} /\ Weight(2) \in Nat \ {0}
    /\ Weight(3) \in Nat \ {0} /\ Weight(4) \in Nat \ {0}
<1>1. Radix \in Nat \ {0}
  BY RegisterAssumption
<1>2. \A a, b \in Nat \ {0} : a * b \in Nat \ {0}
  OBVIOUS
<1>3. Radix * Radix \in Nat \ {0}
  BY <1>1, <1>2
<1>4. Radix * Radix * Radix \in Nat \ {0}
  BY <1>1, <1>2, <1>3
<1>5. Radix * Radix * Radix * Radix \in Nat \ {0}
  BY <1>1, <1>2, <1>4
<1> QED
  BY <1>1, <1>3, <1>4, <1>5 DEF Weight

\* A span is even, as Radix is.
LEMMA SpanType ==
    ASSUME NEW dt
    PROVE  Span(dt) \in Nat \ {0} /\ 2 * (Span(dt) \div 2) = Span(dt)
<1>1. Radix \in Nat \ {0} /\ Radix = 2 * (Radix \div 2) /\ Radix \div 2 \in Int
  BY RegisterAssumption
<1>2. ASSUME NEW x \in Nat
      PROVE  2 * ((Radix * x) \div 2) = Radix * x
  <2>1. Radix * x = ((Radix \div 2) * x) * 2 + 0
    BY <1>1
  <2>2. (Radix \div 2) * x \in Int
    BY <1>1
  <2>3. (Radix * x) \div 2 = (Radix \div 2) * x
    BY <2>1, <2>2, DivUnique
  <2> QED
    BY <2>1, <2>2, <2>3
<1>3. Weight(1) = Radix * 1
  BY <1>1, WeightType
<1>4. Weight(2) = Radix * Radix
  BY DEF Weight
<1>5. Weight(4) = Radix * (Radix * Radix * Radix) /\ Radix * Radix * Radix \in Nat
  <2>1. Weight(4) = Radix * Radix * Radix * Radix
    BY DEF Weight
  <2>2. Weight(3) = Radix * Radix * Radix
    BY DEF Weight
  <2> QED
    BY <1>1, <2>1, <2>2, WeightType
<1>6. \A k \in {1, 2, 4} : Weight(k) \in Nat \ {0} /\ 2 * (Weight(k) \div 2) = Weight(k)
  <2>1. 2 * (Weight(1) \div 2) = Weight(1)
    BY <1>2, <1>3
  <2>2. 2 * (Weight(2) \div 2) = Weight(2)
    BY <1>1, <1>2, <1>4
  <2>3. 2 * (Weight(4) \div 2) = Weight(4)
    BY <1>2, <1>5
  <2> QED
    BY <2>1, <2>2, <2>3, WeightType
<1> QED
  BY <1>6, CountType DEF Span

\* The data of a register are words.
LEMMA BytesType ==
    ASSUME NEW reg, NEW v
    PROVE  Bytes(reg, v) \subseteq [1..Count(reg.dt) -> Word]
<1>1. ASSUME NEW dt, NEW n \in Int
      PROVE  Words(dt, n) \in [1..Count(dt) -> Word]
  <2>1. n % Span(dt) \in Int
    BY CountType, WeightType DEF Span
  <2>2. \A i \in 1..Count(dt) : Weight(Count(dt) - i) \in Nat \ {0}
    BY CountType, WeightType
  <2>3. \A i \in 1..Count(dt) : (n % Span(dt)) \div Weight(Count(dt) - i) \in Int
    BY <2>1, <2>2
  <2>4. \A i \in 1..Count(dt) : ((n % Span(dt)) \div Weight(Count(dt) - i)) % Radix \in 0..(Radix - 1)
    BY <2>3, RegisterAssumption
  <2> QED
    BY <2>4 DEF Words, Word
<1>2. ASSUME NEW n \in Raw(reg, v)
      PROVE  (IF n \in Lowest(reg.dt)..Highest(reg.dt) THEN {Words(reg.dt, n)}
              ELSE [1..Count(reg.dt) -> Word]) \subseteq [1..Count(reg.dt) -> Word]
  <2>1. CASE n \in Lowest(reg.dt)..Highest(reg.dt)
    <3>1. n \in Int
      BY <2>1
    <3> QED
      BY <1>1, <2>1, <3>1
  <2> QED
    BY <2>1
<1> QED
  BY <1>2 DEF Bytes

\* The words of a register form a number below its span.
LEMMA UnsignedType ==
    ASSUME NEW dt, NEW ws \in [1..Count(dt) -> Word]
    PROVE  Unsigned(dt, ws) \in 0..(Span(dt) - 1)
<1> DEFINE R == Radix
<1>1. R \in Nat \ {0}
  BY RegisterAssumption
<1>2. \A i \in 1..Count(dt) : ws[i] \in 0..(R - 1)
  BY DEF Word
<1>3. ASSUME NEW x \in 0..(R - 1), NEW w \in Nat \ {0}, NEW y \in 0..(w - 1)
      PROVE  x * w + y \in 0..(R * w - 1)
  <2>1. x * w >= 0 /\ x * w <= (R - 1) * w
    BY <1>1
  <2>2. (R - 1) * w = R * w - w /\ x * w \in Int /\ R * w \in Int
    BY <1>1
  <2> QED
    BY <2>1, <2>2
<1> HIDE DEF R
<1>4. CASE Count(dt) = 1
  BY <1>1, <1>2, <1>4, WeightType DEF Unsigned, Span, R
<1>5. CASE Count(dt) = 2
  <2>1. ws[1] \in 0..(R - 1) /\ ws[2] \in 0..(R - 1)
    BY <1>2, <1>5
  <2>2. ws[1] * R + ws[2] \in 0..(R * R - 1)
    BY <1>1, <1>3, <2>1
  <2>3. Unsigned(dt, ws) = ws[1] * R + ws[2] /\ Span(dt) = R * R
    BY <1>5 DEF Unsigned, Span, Weight, R
  <2> QED
    BY <2>2, <2>3
<1>6. CASE Count(dt) = 4
  <2>1. ws[1] \in 0..(R - 1) /\ ws[2] \in 0..(R - 1) /\ ws[3] \in 0..(R - 1) /\ ws[4] \in 0..(R - 1)
    BY <1>2, <1>6
  <2>2. ws[3] * R + ws[4] \in 0..(R * R - 1)
    BY <1>1, <1>3, <2>1
  <2>3. R * R \in Nat \ {0} /\ R * R * R \in Nat \ {0}
    BY WeightType DEF Weight, R
  <2>4. ws[2] * (R * R) + (ws[3] * R + ws[4]) \in 0..(R * (R * R) - 1)
    BY <1>3, <2>1, <2>2, <2>3
  <2>5. R * (R * R) = R * R * R
    BY <1>1
  <2>6. ws[1] * (R * R * R) + (ws[2] * (R * R) + (ws[3] * R + ws[4])) \in 0..(R * (R * R * R) - 1)
    BY <1>3, <2>1, <2>3, <2>4, <2>5
  <2>7. R * (R * R * R) = R * R * R * R
    BY <1>1
  <2>8. Unsigned(dt, ws) = ws[1] * (R * R * R) + ws[2] * (R * R) + ws[3] * R + ws[4]
    BY <1>6 DEF Unsigned, Weight, R
  <2>9. Span(dt) = R * R * R * R
    BY <1>6 DEF Span, Weight, R
  <2>10. /\ ws[1] * (R * R * R) \in Int /\ ws[2] * (R * R) \in Int /\ ws[3] * R \in Int
         /\ ws[4] \in Int
    BY <1>1, <2>1, <2>3
  <2>11. Unsigned(dt, ws) = ws[1] * (R * R * R) + (ws[2] * (R * R) + (ws[3] * R + ws[4]))
    BY <2>8, <2>10
  <2> QED
    BY <2>6, <2>7, <2>9, <2>11
<1> QED
  BY <1>4, <1>5, <1>6, CountType

\* Any words are an integer of the register's type.
LEMMA IntegerType ==
    ASSUME NEW dt, NEW ws \in [1..Count(dt) -> Word]
    PROVE  Integer(dt, ws) \in Lowest(dt)..Highest(dt) /\ Integer(dt, ws) \in Int
  BY SpanType, UnsignedType DEF Integer, Lowest, Highest

\* The words of an integer form it again.
LEMMA UnsignedWords ==
    ASSUME NEW dt, NEW n \in Int
    PROVE  Unsigned(dt, Words(dt, n)) = n % Span(dt)
<1> DEFINE R == Radix
           ws == Words(dt, n)
<1>1. R \in Nat \ {0} /\ R * R \in Nat \ {0} /\ R * R * R \in Nat \ {0} /\ R * R * R * R \in Nat \ {0}
  BY RegisterAssumption, WeightType DEF Weight
<1>2. PICK m : m = n % Span(dt)
  OBVIOUS
<1>3. m \in 0..(Span(dt) - 1)
  BY <1>2, SpanType, DivMod
<1>4. \A i \in 1..Count(dt) : ws[i] = (m \div Weight(Count(dt) - i)) % R
  BY <1>2 DEF Words
<1>5. m \in Nat /\ m \div 1 = m
  BY <1>3, SpanType
<1> HIDE DEF R, ws
<1>6. CASE Count(dt) = 1
  <2>1. ws[1] = (m \div 1) % R /\ Span(dt) = R
    BY <1>4, <1>6, WeightType DEF Span, R
  <2>2. m = 0 * R + m
    BY <1>1, <1>5
  <2>3. m % R = m
    BY <1>1, <1>3, <2>1, <2>2, DivUnique
  <2> QED
    BY <1>2, <1>5, <1>6, <2>1, <2>3 DEF Unsigned, ws
<1>7. CASE Count(dt) = 2
  <2>1. /\ ws[1] = (m \div R) % R /\ ws[2] = (m \div 1) % R /\ Span(dt) = R * R
        /\ Unsigned(dt, ws) = ws[1] * R + ws[2]
    BY <1>4, <1>7 DEF Unsigned, Span, Weight, R
  <2>2. m \div R \in 0..(R - 1)
    <3>1. R * R \in Int /\ m < R * R
      BY <1>1, <1>3, <2>1
    <3> QED
      BY <1>1, <1>5, <3>1, DivBound
  <2>3. (m \div R) % R = m \div R
    <3>1. m \div R = 0 * R + (m \div R)
      BY <1>1, <2>2
    <3> QED
      BY <1>1, <2>2, <3>1, DivUnique
  <2>4. m = (m \div R) * R + (m % R)
    BY <1>1, <1>5, DivMod
  <2> QED
    BY <1>2, <1>5, <2>1, <2>3, <2>4 DEF ws
<1>8. CASE Count(dt) = 4
  <2>1. /\ ws[1] = (m \div (R * R * R)) % R /\ ws[2] = (m \div (R * R)) % R
        /\ ws[3] = (m \div R) % R /\ ws[4] = (m \div 1) % R
        /\ Span(dt) = R * R * R * R
        /\ Unsigned(dt, ws) = ws[1] * (R * R * R) + ws[2] * (R * R) + ws[3] * R + ws[4]
    BY <1>4, <1>8 DEF Unsigned, Span, Weight, R
  <2>2. PICK a : a = m \div R
    OBVIOUS
  <2>3. PICK b : b = a \div R
    OBVIOUS
  <2>4. PICK c : c = b \div R
    OBVIOUS
  <2>5. a \in 0..(R * R * R - 1)
    <3>1. m < (R * R * R) * R /\ R * R * R \in Nat
      BY <1>1, <1>3, <2>1
    <3> QED
      BY <1>1, <1>5, <2>2, <3>1, DivBound
  <2>6. b \in 0..(R * R - 1)
    BY <1>1, <2>3, <2>5, DivBound
  <2>7. c \in 0..(R - 1)
    BY <1>1, <2>4, <2>6, DivBound
  <2>8. m \div (R * R) = b
    BY <1>1, <1>5, <2>2, <2>3, DivDiv
  <2>9. m \div (R * R * R) = c
    <3>1. m \div ((R * R) * R) = (m \div (R * R)) \div R
      BY <1>1, <1>5, DivDiv
    <3> QED
      BY <2>4, <2>8, <3>1
  <2>10. c % R = c
    <3>1. c = 0 * R + c
      BY <1>1, <2>7
    <3> QED
      BY <1>1, <2>7, <3>1, DivUnique
  <2>11. b = c * R + (b % R) /\ b % R \in Int
    BY <1>1, <2>4, <2>6, DivMod
  <2>12. a = b * R + (a % R) /\ a % R \in Int
    BY <1>1, <2>3, <2>5, DivMod
  <2>13. m = a * R + (m % R) /\ m % R \in Int
    BY <1>1, <1>5, <2>2, DivMod
  <2>14. Unsigned(dt, ws) = c * (R * R * R) + (b % R) * (R * R) + (a % R) * R + (m % R)
    BY <1>5, <2>1, <2>2, <2>8, <2>9, <2>10
  <2>15. ASSUME NEW x \in Int, NEW y \in Int, NEW z \in Int
         PROVE  ((c * R + x) * R + y) * R + z = c * (R * R * R) + x * (R * R) + y * R + z
    BY <1>1, <2>7
  <2>16. m = c * (R * R * R) + (b % R) * (R * R) + (a % R) * R + (m % R)
    BY <2>11, <2>12, <2>13, <2>15
  <2> QED
    BY <1>2, <2>14, <2>16 DEF ws
<1> QED
  BY <1>6, <1>7, <1>8, CountType

LEMMA IntegerWords ==
    ASSUME NEW dt, NEW n \in Lowest(dt)..Highest(dt)
    PROVE  Integer(dt, Words(dt, n)) = n
<1> DEFINE S == Span(dt)
           u == Unsigned(dt, Words(dt, n))
<1>1. S \in Nat \ {0} /\ 2 * (S \div 2) = S /\ S \div 2 \in Int
  BY SpanType
<1>2. n \in Int /\ u = n % S
  BY UnsignedWords
<1> HIDE DEF S, u
<1>3. CASE n >= 0
  <2>1. n \in 0..(S - 1)
    BY <1>1, <1>2, <1>3 DEF Lowest, Highest, S
  <2>2. n % S = n
    <3>1. n = 0 * S + n
      BY <1>1, <1>2
    <3> QED
      BY <1>1, <2>1, <3>1, DivUnique
  <2> QED
    BY <1>1, <1>2, <2>2 DEF Integer, Lowest, Highest, S, u
<1>4. CASE n < 0
  <2>1. Signed(dt) /\ n >= -(S \div 2)
    BY <1>2, <1>4 DEF Lowest, S
  <2>2. n = (-1) * S + (n + S) /\ n + S \in 0..(S - 1)
    BY <1>1, <1>2, <1>4, <2>1
  <2>3. n % S = n + S
    BY <1>1, <2>2, DivUnique
  <2>4. u = n + S /\ u > Highest(dt)
    BY <1>1, <1>2, <2>1, <2>3 DEF Highest, S
  <2>5. Integer(dt, Words(dt, n)) = u - S
    BY <2>1, <2>4 DEF Integer, S, u
  <2> QED
    BY <1>1, <1>2, <2>4, <2>5
<1> QED
  BY <1>2, <1>3, <1>4

LEMMA RoundedType ==
    ASSUME NEW x \in Int, NEW factor
    PROVE  /\ Rounded(x, factor) \subseteq Int
           /\ \A y \in Rounded(x, factor) :
                 \E e \in {-1, 0, 1} : y = x + e /\ (factor = 1 \/ x = 0 => e = 0)
<1>1. ASSUME NEW y \in Rounded(x, factor)
      PROVE  \E e \in {-1, 0, 1} : y = x + e /\ (factor = 1 \/ x = 0 => e = 0)
  <2>1. CASE factor = 1 \/ x = 0
    BY <2>1 DEF Rounded
  <2>2. CASE ~(factor = 1 \/ x = 0)
    BY <2>2 DEF Rounded
  <2> QED
    BY <2>1, <2>2
<1> QED
  BY <1>1

LEMMA ValueType ==
    ASSUME NEW reg, reg.factor \in Nat \ {0}, NEW ws \in [1..Count(reg.dt) -> Word]
    PROVE  Value(reg, ws) \subseteq Int
<1>1. Integer(reg.dt, ws) * Unit \in Int
  BY IntegerType, RegisterAssumption
<1>2. (Integer(reg.dt, ws) * Unit) \div reg.factor \in Int
  BY <1>1
<1> QED
  BY <1>2, RoundedType DEF Value

\* Trunc drops a fraction, towards zero.
LEMMA TruncType ==
    ASSUME NEW v \in Int, NEW k \in Nat \ {0}, NEW x, x = Trunc(v, k)
    PROVE  /\ x \in Int /\ x * k \in Int
           /\ v >= 0 => x >= 0 /\ x * k <= v /\ v < x * k + k
           /\ v <= 0 => x <= 0 /\ v <= x * k /\ x * k - k < v
<1>1. ASSUME NEW u \in Nat
      PROVE  /\ u \div k \in Nat /\ (u \div k) * k \in Int
             /\ (u \div k) * k <= u /\ u < (u \div k) * k + k
  <2>1. /\ u = (u \div k) * k + (u % k) /\ u % k \in 0..(k - 1) /\ u \div k \in Int
        /\ (u \div k) * k \in Int
    <3>1. u = (u \div k) * k + (u % k) /\ u % k \in 0..(k - 1) /\ u \div k \in Int
      <4>1. u \in Int
        OBVIOUS
      <4> QED
        BY <4>1, DivMod, Zenon
    <3>2. \A a \in Int : a * k \in Int
      OBVIOUS
    <3> QED
      BY <3>1, <3>2
  <2>2. u < (u + 1) * k /\ (u + 1) \in Nat
    OBVIOUS
  <2>3. u \div k \in 0..((u + 1) - 1)
    BY <2>2, DivBound
  <2> QED
    BY <2>1, <2>3
<1>2. CASE v >= 0
  <2>1. v \in Nat /\ x = v \div k
    BY <1>2 DEF Trunc
  <2>2. x \in Nat /\ x * k \in Int /\ x * k <= v /\ v < x * k + k
    BY <1>1, <2>1
  <2>3. v = 0 => x = 0
    <3>1. x > 0 => x * k >= k
      BY <2>2
    <3> QED
      BY <2>2, <3>1
  <2> QED
    BY <1>2, <2>2, <2>3
<1>3. CASE v < 0
  <2>1. -v \in Nat /\ x = -((-v) \div k)
    BY <1>3 DEF Trunc
  <2>2. PICK y : y = (-v) \div k
    OBVIOUS
  <2>3. y \in Nat /\ y * k \in Int /\ y * k <= -v /\ -v < y * k + k
    BY <1>1, <2>1, <2>2
  <2>4. x = -y /\ (-y) * k = -(y * k)
    BY <2>1, <2>2, <2>3
  <2>5. x * k = -(y * k)
    BY <2>4, Zenon
  <2> QED
    BY <1>3, <2>3, <2>4, <2>5
<1> QED
  BY <1>2, <1>3

\* A common positive factor does not matter to an order.
LEMMA Cancel ==
    ASSUME NEW a \in Int, NEW b \in Int, NEW k \in Nat \ {0}
    PROVE  (a * k < b * k => a < b) /\ (a * k <= b * k => a <= b)
<1>1. a >= b => a * k >= b * k
  OBVIOUS
<1>2. a > b => a * k > b * k
  OBVIOUS
<1>3. a * k \in Int /\ b * k \in Int
  OBVIOUS
<1> QED
  BY <1>1, <1>2, <1>3

\* A number less than one step away from a multiple is truncated to it, or to the next one
\* towards zero.
LEMMA TruncNear ==
    ASSUME NEW n \in Int, NEW k \in Nat \ {0}, NEW e \in Int, -k < e, e < k,
           NEW x, x = Trunc(n * k + e, k)
    PROVE  x = n \/ x = IF n > 0 THEN n - 1 ELSE IF n < 0 THEN n + 1 ELSE n
<1>1. PICK p \in Int : p = n * k + e
  OBVIOUS
<1>2. /\ x \in Int /\ x * k \in Int
      /\ p >= 0 => x >= 0 /\ x * k <= p /\ p < x * k + k
      /\ p <= 0 => x <= 0 /\ p <= x * k /\ x * k - k < p
  <2>1. x = Trunc(p, k)
    BY <1>1, Zenon
  <2> QED
    BY <2>1, TruncType
<1>3. /\ (n + 1) * k = n * k + k /\ (n - 1) * k = n * k - k
      /\ (x + 1) * k = x * k + k /\ (x - 1) * k = x * k - k /\ n * k \in Int
  BY <1>2
<1>4. CASE n > 0
  <2>1. (n - 1) * k >= 0
    BY <1>4
  <2>2. x * k < (n + 1) * k /\ (n - 1) * k < (x + 1) * k
    BY <1>1, <1>2, <1>3, <2>1
  <2>3. x < n + 1 /\ n - 1 < x + 1
    BY <1>2, <2>2, Cancel
  <2> QED
    BY <1>2, <1>4, <2>3
<1>5. CASE n < 0
  <2>1. (n + 1) * k <= 0
    BY <1>5
  <2>2. (n - 1) * k < x * k /\ (x - 1) * k < (n + 1) * k
    BY <1>1, <1>2, <1>3, <2>1
  <2>3. n - 1 < x /\ x - 1 < n + 1
    BY <1>2, <2>2, Cancel
  <2> QED
    BY <1>2, <1>5, <2>3
<1>6. CASE n = 0
  <2>1. n * k = 0 /\ p = e
    BY <1>1, <1>6
  <2>2. 0 * k = 0 /\ 1 * k = k /\ (-1) * k = -k
    OBVIOUS
  <2>3. x * k < 1 * k /\ (-1) * k < x * k
    BY <1>2, <2>1, <2>2
  <2>4. x < 1 /\ -1 < x
    BY <1>2, <2>3, Cancel
  <2> QED
    BY <1>2, <1>6, <2>4
<1> QED
  BY <1>4, <1>5, <1>6

\* What a register stands for, before it is rounded: its integer in steps.
LEMMA ValueSteps ==
    ASSUME NEW f \in Nat \ {0}, NEW k \in Int, Unit = k * f, NEW n \in Int
    PROVE  (n * Unit) \div f = n * k
<1>1. n * (k * f) = (n * k) * f
  OBVIOUS
<1>2. n * k \in Int /\ (n * k) * f \in Int
  OBVIOUS
<1>3. n * Unit = (n * k) * f
  BY <1>1, Zenon
<1>4. n * Unit = (n * k) * f + 0
  BY <1>2, <1>3
<1> QED
  BY <1>2, <1>4, DivUnique

\* The values that words may stand for are converted to their integer again, or, if it was
\* scaled, to the next one towards zero.
LEMMA RawOfValue ==
    ASSUME NEW reg, reg.factor \in Nat \ {0}, Unit % reg.factor = 0,
           reg.factor # 1 => Unit >= 2 * reg.factor,
           NEW ws \in [1..Count(reg.dt) -> Word], NEW n, n = Integer(reg.dt, ws),
           NEW v \in Value(reg, ws)
    PROVE  Raw(reg, v) \subseteq
              {n} \cup IF reg.factor = 1 THEN {}
                       ELSE {IF n > 0 THEN n - 1 ELSE IF n < 0 THEN n + 1 ELSE n}
<1>1. PICK f \in Nat \ {0} : f = reg.factor
  OBVIOUS
<1>2. n \in Int /\ Unit \in Nat \ {0} /\ Unit % f = 0 /\ (f # 1 => Unit >= 2 * f)
  BY <1>1, IntegerType, RegisterAssumption
<1>3. PICK k \in Int : Unit = k * f
  <2>1. Unit \in Int /\ Unit = (Unit \div f) * f + (Unit % f) /\ Unit \div f \in Int
    BY <1>2, DivMod
  <2>2. PICK q \in Int : q = Unit \div f
    BY <2>1
  <2>3. Unit = q * f + 0 /\ q * f \in Int
    BY <1>2, <2>1, <2>2
  <2>4. Unit = q * f
    BY <2>3
  <2> QED
    BY <2>4
<1>4. PICK e \in {-1, 0, 1} : v = n * k + e /\ (f = 1 => e = 0)
  <2>0. (n * Unit) \div f = n * k
    BY <1>2, <1>3, ValueSteps, Zenon
  <2>1. (n * Unit) \div f = n * k /\ n * k \in Int
    BY <1>2, <2>0
  <2>2. v \in Rounded(n * k, f)
    BY <1>1, <2>1 DEF Value
  <2> QED
    BY <2>1, <2>2, RoundedType
<1>5. v * f = n * Unit + e * f
  <2>1. (n * k + e) * f = n * (k * f) + e * f
    BY <1>2
  <2>2. (n * k + e) * f = n * Unit + e * f
    BY <1>3, <2>1, Zenon
  <2> QED
    BY <1>4, <2>2, Zenon
<1>6. ASSUME NEW m \in Raw(reg, v)
      PROVE  m = n \/ (f # 1 /\ m = IF n > 0 THEN n - 1 ELSE IF n < 0 THEN n + 1 ELSE n)
  <2>1. v * f \in Int /\ n * Unit \in Int /\ e * f \in Int
    BY <1>2, <1>4
  <2>2. PICK p \in Rounded(v * f, f) : m = Trunc(p, Unit)
    BY <1>1 DEF Raw
  <2>3. PICK d \in {-1, 0, 1} : p = v * f + d /\ (f = 1 => d = 0)
    BY <2>1, <2>2, RoundedType
  <2>4. PICK r \in Int : r = e * f + d
    BY <2>1, <2>3
  <2>5. p = n * Unit + r
    BY <1>5, <2>1, <2>3, <2>4
  <2>6. f = 1 => r = 0
    BY <1>4, <2>3, <2>4
  <2>7. -Unit < r /\ r < Unit
    <3>1. CASE f = 1
      BY <1>2, <2>6, <3>1
    <3>2. CASE f # 1
      <4>1. e * f \in {-f, 0, f}
        BY <1>4
      <4> QED
        BY <1>2, <2>3, <2>4, <3>2, <4>1
    <3> QED
      BY <3>1, <3>2
  <2>8. m = n \/ m = IF n > 0 THEN n - 1 ELSE IF n < 0 THEN n + 1 ELSE n
    BY <1>2, <2>2, <2>5, <2>7, TruncNear
  <2>9. f = 1 => m = n
    <3> SUFFICES ASSUME f = 1
                 PROVE  m = n
      OBVIOUS
    <3>1. p = n * Unit
      BY <2>1, <2>5, <2>6
    <3>2. /\ m \in Int /\ m * Unit \in Int
          /\ p >= 0 => m * Unit <= p /\ p < m * Unit + Unit
          /\ p <= 0 => p <= m * Unit /\ m * Unit - Unit < p
      BY <1>2, <2>1, <2>2, <3>1, TruncType
    <3>3. /\ (m + 1) * Unit = m * Unit + Unit /\ (m - 1) * Unit = m * Unit - Unit
      BY <1>2, <3>2
    <3>4. CASE p >= 0
      <4>1. m * Unit <= n * Unit /\ n * Unit < (m + 1) * Unit
        BY <3>1, <3>2, <3>3, <3>4
      <4>2. m <= n /\ n < m + 1
        <5>1. m + 1 \in Int
          BY <3>2
        <5> QED
          BY <1>2, <3>2, <4>1, <5>1, Cancel, Zenon
      <4> QED
        BY <1>2, <3>2, <4>2
    <3>5. CASE p <= 0
      <4>1. n * Unit <= m * Unit /\ (m - 1) * Unit < n * Unit
        BY <3>1, <3>2, <3>3, <3>5
      <4>2. n <= m /\ m - 1 < n
        BY <1>2, <3>2, <4>1, Cancel
      <4> QED
        BY <1>2, <3>2, <4>2
    <3> QED
      BY <2>1, <3>1, <3>4, <3>5
  <2> QED
    BY <2>8, <2>9
<1> QED
  BY <1>1, <1>6

\* register.go:73-205, for words of every size: a register of one or two words that is read
\* and written back through the float of its tag comes back unchanged without a scaling,
\* and with one it is at most one step closer to zero.
THEOREM WordsComeBack ==
    ASSUME NEW reg, Exact(reg.dt), reg.factor \in Nat \ {0}, Unit % reg.factor = 0,
           reg.factor # 1 => Unit >= 2 * reg.factor,
           NEW ws \in [1..Count(reg.dt) -> Word],
           NEW v \in Value(reg, ws), NEW back \in Bytes(reg, v)
    PROVE  LET n == Integer(reg.dt, ws)
               got == Integer(reg.dt, back)
           IN IF reg.factor = 1 THEN got = n
              ELSE got - n \in {0, IF n > 0 THEN -1 ELSE IF n < 0 THEN 1 ELSE 0}
<1> DEFINE dt == reg.dt
           n == Integer(dt, ws)
           toZero == IF n > 0 THEN n - 1 ELSE IF n < 0 THEN n + 1 ELSE n
<1>1. n \in Lowest(dt)..Highest(dt) /\ n \in Int
  BY IntegerType
<1>2. 0 \in Lowest(dt)..Highest(dt) /\ Lowest(dt) \in Int /\ Highest(dt) \in Int
  BY SpanType DEF Lowest, Highest
<1>3. toZero \in Lowest(dt)..Highest(dt) /\ toZero \in Int
  BY <1>1, <1>2
<1>4. PICK m \in Raw(reg, v) :
         back \in IF m \in Lowest(dt)..Highest(dt) THEN {Words(dt, m)} ELSE [1..Count(dt) -> Word]
  BY DEF Bytes
<1>5. m = n \/ (reg.factor # 1 /\ m = toZero)
  BY <1>4, RawOfValue
<1>6. m \in Lowest(dt)..Highest(dt)
  BY <1>1, <1>3, <1>5
<1>7. Integer(dt, back) = m
  BY <1>4, <1>6, IntegerWords
<1> HIDE DEF n
<1>8. IF reg.factor = 1 THEN m = n
      ELSE m - n \in {0, IF n > 0 THEN -1 ELSE IF n < 0 THEN 1 ELSE 0}
  BY <1>1, <1>5
<1> QED
  BY <1>7, <1>8 DEF n

\* What a positive value loses on its way through a register, before it is rounded again:
\* p is its product with the factor, M the integer in steps.
LEMMA Loss ==
    ASSUME NEW v \in Nat \ {0}, NEW f \in Nat \ {0}, NEW step \in Nat \ {0},
           NEW off, off = IF f = 1 THEN 0 ELSE 1,
           NEW p \in Int, v * f - off <= p, p <= v * f + off,
           NEW m \in Int, m * (step * f) <= p, p < m * (step * f) + step * f, m >= 0
    PROVE  m * step \in 0..v /\ v - m * step < step + off
<1>1. PICK M \in Nat : M = m * step
  OBVIOUS
<1>2. m * (step * f) = M * f /\ M * f + step * f = (M + step) * f
  <2>1. m * (step * f) = (m * step) * f
    OBVIOUS
  <2>2. m * (step * f) = M * f
    BY <1>1, <2>1, Zenon
  <2>3. M * f + step * f = (M + step) * f
    OBVIOUS
  <2> QED
    BY <2>2, <2>3
<1>3. v * f \in Int /\ M * f \in Int /\ (M + step) * f \in Int /\ (v + 1) * f = v * f + f
  OBVIOUS
<1>4. M * f <= p /\ p < (M + step) * f
  BY <1>2
<1>5. CASE f = 1
  BY <1>1, <1>4, <1>5
<1>6. CASE f # 1
  <2>1. off = 1 /\ f >= 2
    BY <1>6
  <2>2. M * f < (v + 1) * f
    BY <1>3, <1>4, <2>1
  <2>3. M < v + 1
    BY <2>2, Cancel
  <2>4. v * f <= (M + step) * f
    BY <1>3, <1>4, <2>1
  <2>5. v <= M + step
    BY <2>4, Cancel
  <2> QED
    BY <1>1, <2>1, <2>3, <2>5
<1> QED
  BY <1>5, <1>6

\* register.go:73-205, for words of every size: a value that a register of one or two
\* words can hold, sent through it, comes out less than one step away, towards zero.  With
\* a scaling it may lose a whole step, and the rounding of the products may carry it beyond
\* itself by one unit, but never by a step nor across zero.  A step is what a one in the
\* register stands for.
THEOREM ValueTransported ==
    ASSUME NEW reg, Exact(reg.dt), reg.factor \in Nat \ {0},
           NEW step \in Nat \ {0}, Unit = step * reg.factor,
           reg.factor # 1 => step >= 2,
           NEW v \in Int, Raw(reg, v) \subseteq Lowest(reg.dt)..Highest(reg.dt),
           NEW ws \in Bytes(reg, v), NEW w \in Value(reg, ws)
    PROVE  LET off == IF reg.factor = 1 THEN 0 ELSE 1
           IN /\ v >= 0 => w \in 0..(v + off) /\ v - w < step + 2 * off
              /\ v <= 0 => w \in (v - off)..0 /\ w - v < step + 2 * off
<1>1. PICK f \in Nat \ {0} : f = reg.factor
  OBVIOUS
<1>2. PICK off \in {0, 1} : off = IF f = 1 THEN 0 ELSE 1
  OBVIOUS
<1>3. PICK m \in Raw(reg, v) :
         ws \in IF m \in Lowest(reg.dt)..Highest(reg.dt) THEN {Words(reg.dt, m)}
                ELSE [1..Count(reg.dt) -> Word]
  BY DEF Bytes
<1>4. m \in Lowest(reg.dt)..Highest(reg.dt) /\ m \in Int
  BY <1>3
<1>5. Integer(reg.dt, ws) = m
  BY <1>3, <1>4, IntegerWords
<1>6. PICK M \in Int : M = m * step
  BY <1>4
<1>7. PICK e \in {-1, 0, 1} : w = M + e /\ (f = 1 \/ M = 0 => e = 0)
  <2>1. Unit = step * f
    BY <1>1
  <2>2. (m * Unit) \div f = m * step
    BY <1>4, <2>1, ValueSteps
  <2>3. w \in Rounded(M, f)
    BY <1>1, <1>5, <1>6, <2>2 DEF Value
  <2> QED
    BY <2>3, RoundedType
<1>8. PICK p : p \in Rounded(v * f, f) /\ m = Trunc(p, Unit)
  BY <1>1, <1>3 DEF Raw
<1>9. PICK d \in {-1, 0, 1} : p = v * f + d /\ (f = 1 \/ v * f = 0 => d = 0)
  <2>1. v * f \in Int
    OBVIOUS
  <2> QED
    BY <1>8, <2>1, RoundedType
<1>10. p \in Int /\ v * f \in Int /\ Unit \in Nat \ {0}
  BY <1>9, RegisterAssumption
<1>11. /\ m * Unit \in Int
       /\ p >= 0 => m >= 0 /\ m * Unit <= p /\ p < m * Unit + Unit
       /\ p <= 0 => m <= 0 /\ p <= m * Unit /\ m * Unit - Unit < p
  BY <1>8, <1>10, TruncType
<1>12. M # 0 /\ f # 1 => M >= 2 \/ M <= -2
  <2>1. m >= 1 /\ step >= 2 => m * step >= 2
    BY <1>4
  <2>2. m <= -1 /\ step >= 2 => m * step <= -2
    BY <1>4
  <2>3. m = 0 => m * step = 0
    OBVIOUS
  <2> QED
    BY <1>1, <1>4, <1>6, <2>1, <2>2, <2>3
<1>13. -off <= d /\ d <= off /\ -off <= e /\ e <= off
  BY <1>2, <1>7, <1>9
<1>14. Unit = step * f
  BY <1>1
<1>15. CASE v > 0
  <2>1. v * f >= 1
    BY <1>15
  <2>2. p >= 0 /\ v * f - off <= p /\ p <= v * f + off
    BY <1>9, <1>10, <1>13, <2>1
  <2>3. m * (step * f) <= p /\ p < m * (step * f) + step * f /\ m >= 0
    BY <1>11, <1>14, <2>2
  <2>4. m * step \in 0..v /\ v - m * step < step + off
    <3>1. v \in Nat \ {0}
      BY <1>15
    <3> QED
      BY <1>2, <1>4, <1>10, <2>2, <2>3, <3>1, Loss, Zenon
  <2>5. w \in 0..(v + off) /\ v - w < step + 2 * off
    BY <1>2, <1>6, <1>7, <1>12, <1>13, <2>4
  <2> QED
    BY <1>1, <1>2, <1>15, <2>5
<1>16. CASE v < 0
  <2>1. PICK u \in Nat \ {0} : u = -v
    BY <1>16
  <2>2. PICK q \in Int : q = -p
    BY <1>10
  <2>3. PICK l \in Int : l = -m
    BY <1>4
  <2>4. u * f = -(v * f) /\ u * f >= 1
    <3>1. (-v) * f = -(v * f)
      OBVIOUS
    <3> QED
      BY <2>1, <3>1
  <2>5. l * Unit = -(m * Unit) /\ l * step = -(m * step)
    <3>1. (-m) * Unit = -(m * Unit) /\ (-m) * step = -(m * step)
      BY <1>4, <1>10
    <3> QED
      BY <2>3, <3>1
  <2>6. p <= 0 /\ u * f - off <= q /\ q <= u * f + off
    BY <1>9, <1>10, <1>13, <2>2, <2>4
  <2>7. l * Unit <= q /\ q < l * Unit + Unit /\ l >= 0
    BY <1>4, <1>10, <1>11, <2>2, <2>3, <2>5, <2>6
  <2>8. l * (step * f) <= q /\ q < l * (step * f) + step * f
    BY <1>14, <2>7
  <2>9. l * step \in 0..u /\ u - l * step < step + off
    BY <1>2, <2>6, <2>7, <2>8, Loss
  <2>10. w \in (v - off)..0 /\ w - v < step + 2 * off
    BY <1>2, <1>6, <1>7, <1>12, <1>13, <2>1, <2>5, <2>9
  <2> QED
    BY <1>1, <1>2, <1>16, <2>10
<1>17. CASE v = 0
  <2>1. v * f = 0 /\ p = 0
    BY <1>9, <1>10, <1>17
  <2>2. m = 0
    BY <1>4, <1>11, <2>1
  <2>3. M = 0 /\ w = 0
    BY <1>6, <1>7, <2>2
  <2> QED
    BY <1>1, <1>2, <1>17, <2>3
<1> QED
  BY <1>15, <1>16, <1>17

-----------------------------------------------------------------------------
(* Bits.                                                                   *)

\* The bytes of bits by and by, from the last bit of each.
LEMMA ByteIs ==
    ASSUME NEW bits, \A n \in Nat \ {0} : BitAt(bits, n) \in {0, 1}, NEW i \in Nat \ {0}
    PROVE  \E g \in [0..ByteBits -> Nat] :
              /\ \A k \in 1..ByteBits : g[k] = 2 * g[k - 1] + BitAt(bits, i * ByteBits - k + 1)
              /\ Byte(bits, i) = g[ByteBits]
<1> DEFINE n == ByteBits
           bit(k) == BitAt(bits, i * ByteBits - k + 1)
           step == [y \in (1..n) \X Nat |-> 2 * y[2] + bit(y[1])]
           Is(f) == f = [k \in 0..n |-> IF k = 0 THEN 0 ELSE 2 * f[k - 1] + bit(k)]
           last == CHOOSE f : Is(f)
<1>1. n \in Nat
  BY RegisterAssumption
<1>2. \A k \in 1..n : bit(k) \in Nat
  <2> TAKE k \in 1..n
  <2>1. i * n \in Nat /\ n <= i * n
    BY <1>1
  <2>2. i * ByteBits - k + 1 \in Nat \ {0}
    BY <1>1, <2>1
  <2> QED
    BY <2>2
<1>3. Byte(bits, i) = last[n]
  BY DEF Byte
<1> HIDE DEF n, bit
<1>4. step \in [(1..n) \X Nat -> Nat]
  BY <1>2
<1>5. \A k \in 1..n : \A y \in Nat : step[<<k, y>>] = 2 * y + bit(k) /\ 2 * y + bit(k) \in Nat
  BY <1>2
<1> HIDE DEF step
<1>6. PICK g \in [0..n -> Nat] : Loop(g, n, 0, step)
  BY <1>1, <1>4, LoopEnds
<1>7. Is(g)
  <2>1. ASSUME NEW k \in 0..n
        PROVE  g[k] = IF k = 0 THEN 0 ELSE 2 * g[k - 1] + bit(k)
    <3>1. CASE k = 0
      BY <1>6, <3>1 DEF Loop
    <3>2. CASE k # 0
      <4>1. k \in 1..n /\ k - 1 \in 0..n
        BY <1>1, <3>2
      <4>2. g[k - 1] \in Nat
        BY <4>1
      <4> QED
        BY <1>5, <1>6, <3>2, <4>1, <4>2 DEF Loop
    <3> QED
      BY <3>1, <3>2
  <2> QED
    BY <2>1
<1>8. Is(last)
  <2> HIDE DEF Is
  <2> QED
    BY <1>7
<1> HIDE DEF last
<1>9. last = [k \in 0..n |-> last[k]] /\ last[0] = 0 /\ \A k \in 1..n : last[k] = 2 * last[k - 1] + bit(k)
  <2>1. last = [k \in 0..n |-> IF k = 0 THEN 0 ELSE 2 * last[k - 1] + bit(k)]
    BY <1>8
  <2>2. 0 \in 0..n /\ \A k \in 1..n : k \in 0..n /\ k # 0
    BY <1>1
  <2>3. last[0] = 0
    BY <2>1, <2>2
  <2>4. \A k \in 1..n : last[k] = 2 * last[k - 1] + bit(k)
    BY <2>1, <2>2
  <2>5. last = [k \in 0..n |-> last[k]]
    BY <2>1
  <2> QED
    BY <2>3, <2>4, <2>5
<1>10. last \in [0..n -> Nat]
  <2>1. \A k \in 1..n : last[k - 1] \in Nat => last[k] \in Nat
    BY <1>5, <1>9
  <2>2. last[0] \in Nat
    BY <1>9
  <2>3. \A k \in 0..n : last[k] \in Nat
    BY <1>1, <2>1, <2>2, LoopKeeps
  <2> QED
    BY <1>9, <2>3
<1> QED
  BY <1>3, <1>9, <1>10 DEF n, bit

\* Shift halves j times.
LEMMA ShiftIs ==
    ASSUME NEW j \in Nat, NEW h \in [0..j -> Nat], \A k \in 1..j : h[k] = h[k - 1] \div 2
    PROVE  Shift(h[0], j) = h[j]
<1> DEFINE Is(f) == f = [k \in 0..j |-> IF k = 0 THEN h[0] ELSE f[k - 1] \div 2]
           shifted == CHOOSE f : Is(f)
<1>1. Shift(h[0], j) = shifted[j]
  BY DEF Shift
<1>2. Is(h)
  <2>1. \A k \in 0..j : h[k] = IF k = 0 THEN h[0] ELSE h[k - 1] \div 2
    OBVIOUS
  <2> QED
    BY <2>1
<1>3. Is(shifted)
  <2> HIDE DEF Is
  <2> QED
    BY <1>2
<1> HIDE DEF shifted
<1>4. shifted[0] = h[0] /\ \A k \in 1..j : shifted[k] = shifted[k - 1] \div 2
  BY <1>3
<1> DEFINE T == {k \in 0..j : shifted[k] = h[k]}
<1>5. 0 \in T
  BY <1>4
<1>6. \A k \in 1..j : k - 1 \in T => k \in T
  BY <1>4
<1> HIDE DEF T
<1>7. j \in T
  <2>1. \A k \in 0..j : k \in T
    BY <1>5, <1>6, UpTo
  <2> QED
    BY <2>1
<1> QED
  BY <1>1, <1>7 DEF T

\* The bit at position o of a byte.
LEMMA BitOfByte ==
    ASSUME NEW bits, \A n \in Nat \ {0} : BitAt(bits, n) \in {0, 1}, NEW i \in Nat \ {0}, NEW o \in 0..(ByteBits - 1)
    PROVE  Shift(Byte(bits, i), o) % 2 = BitAt(bits, (i - 1) * ByteBits + o + 1)
<1> DEFINE n == ByteBits
<1>1. n \in Nat \ {0} /\ o \in Nat
  BY RegisterAssumption
<1>2. PICK g \in [0..n -> Nat] :
              /\ \A k \in 1..n : g[k] = 2 * g[k - 1] + BitAt(bits, i * n - k + 1)
              /\ Byte(bits, i) = g[n]
  BY ByteIs
<1> HIDE DEF n
<1>3. i * n \in Nat /\ n <= i * n /\ (i - 1) * n + o + 1 = i * n - (n - o) + 1
  BY <1>1
<1>4. \A k \in 1..n : /\ g[k] \div 2 = g[k - 1]
                      /\ g[k] % 2 = BitAt(bits, i * n - k + 1)
  <2> TAKE k \in 1..n
  <2>1. i * n - k + 1 \in Nat \ {0}
    BY <1>1, <1>3
  <2> DEFINE b == BitAt(bits, i * n - k + 1)
             y == g[k - 1]
  <2>2. b \in {0, 1}
    BY <2>1
  <2>3. y \in Nat /\ g[k] = 2 * y + b
    BY <1>1, <1>2
  <2> HIDE DEF b, y
  <2>4. (2 * y + b) \div 2 = y /\ (2 * y + b) % 2 = b
    BY <2>2, <2>3
  <2> QED
    BY <2>3, <2>4 DEF b, y
<1> DEFINE h == [k \in 0..o |-> g[n - k]]
<1>5. h \in [0..o -> Nat] /\ h[0] = g[n] /\ h[o] = g[n - o]
  <2>1. \A k \in 0..o : n - k \in 0..n
    BY <1>1 DEF n
  <2> QED
    BY <1>1, <2>1
<1>6. \A k \in 1..o : h[k] = h[k - 1] \div 2
  <2> TAKE k \in 1..o
  <2>1. n - k + 1 \in 1..n /\ (n - k + 1) - 1 = n - k /\ n - (k - 1) = n - k + 1
    BY <1>1 DEF n
  <2>2. h[k] = g[n - k] /\ h[k - 1] = g[n - k + 1]
    BY <1>1, <2>1
  <2>3. g[n - k + 1] \div 2 = g[n - k]
    BY <1>4, <2>1
  <2> QED
    BY <2>2, <2>3
<1> HIDE DEF h
<1>7. Shift(g[n], o) = g[n - o]
  <2>1. Shift(h[0], o) = h[o]
    BY <1>1, <1>5, <1>6, ShiftIs
  <2> QED
    BY <1>5, <2>1
<1>8. n - o \in 1..n
  BY <1>1 DEF n
<1>9. g[n - o] % 2 = BitAt(bits, i * n - (n - o) + 1)
  BY <1>4, <1>8
<1> QED
  BY <1>2, <1>3, <1>7, <1>9 DEF n

\* bytes.go:7-55, for bytes of every size and any number of coils: packing coils into bytes
\* and unpacking them gives the coils back, followed by fewer zeros than a byte has bits.
THEOREM BitsComeBack ==
    ASSUME NEW bits \in Seq({0, 1})
    PROVE  LET back == BytesToBits(BitsToBytes(bits))
           IN /\ Len(back) - Len(bits) \in 0..(ByteBits - 1)
              /\ \A n \in 1..Len(back) : back[n] = IF n <= Len(bits) THEN bits[n] ELSE 0
<1> DEFINE B == ByteBits
           l == Len(bits)
           size == (l + B - 1) \div B
           data == BitsToBytes(bits)
           back == BytesToBits(data)
<1>1. B \in Nat \ {0} /\ l \in Nat
  BY RegisterAssumption
<1>2. data = [i \in 1..size |-> Byte(bits, i)]
  BY DEF BitsToBytes
<1>3. \A n \in Nat \ {0} : BitAt(bits, n) \in {0, 1}
  BY DEF BitAt
<1>4. back = [n \in 1..(Len(data) * B) |-> Shift(data[(n - 1) \div B + 1], (n - 1) % B) % 2]
  BY DEF BytesToBits
<1> HIDE DEF B, l, data, back
<1>5. size \in Nat /\ l <= size * B /\ size * B - l \in 0..(B - 1) /\ size * B \in Nat
  <2> DEFINE m == l + B - 1
  <2>0. m \in Int /\ size = m \div B
    BY <1>1
  <2> HIDE DEF m, size
  <2>5. m = (m \div B) * B + (m % B) /\ m % B \in 0..(B - 1) /\ m \div B \in Int
    BY <1>1, <2>0, DivMod
  <2>1. PICK q \in Int, r \in 0..(B - 1) : q = size /\ l + B - 1 = q * B + r
    BY <2>0, <2>5 DEF m
  <2>2. q >= 0
    <3> SUFFICES ASSUME q <= -1
                 PROVE  FALSE
      BY <2>1
    <3>1. q * B <= -B
      BY <1>1
    <3> QED
      BY <1>1, <2>1, <3>1
  <2>3. q * B \in Int
    BY <1>1
  <2>4. q * B - l \in 0..(B - 1) /\ q * B \in Nat
    BY <1>1, <2>1, <2>3
  <2> QED
    BY <1>1, <2>1, <2>2, <2>4
<1> HIDE DEF size
<1>6. Len(data) = size /\ Len(back) = size * B
  <2>1. Len(data) = size
    BY <1>2, <1>5
  <2> QED
    BY <1>4, <1>5, <2>1
<1>7. ASSUME NEW n \in 1..(size * B)
      PROVE  back[n] = BitAt(bits, n)
  <2>1. PICK i \in Int, o \in 0..(B - 1) : i = (n - 1) \div B /\ o = (n - 1) % B /\ n - 1 = i * B + o
    <3>1. n - 1 \in Int
      OBVIOUS
    <3> QED
      BY <1>1, <3>1, DivMod
  <2>2. i \in 0..(size - 1)
    <3>1. n - 1 \in Nat /\ n - 1 < size * B
      BY <1>5
    <3> QED
      BY <1>1, <1>5, <2>1, <3>1, DivBound
  <2>3. back[n] = Shift(data[i + 1], o) % 2
    BY <1>4, <1>6, <2>1
  <2>4. i + 1 \in 1..size /\ i + 1 \in Nat \ {0} /\ (i + 1) - 1 = i
    BY <1>5, <2>2
  <2>5. data[i + 1] = Byte(bits, i + 1)
    BY <1>2, <2>4
  <2>6. Shift(Byte(bits, i + 1), o) % 2 = BitAt(bits, ((i + 1) - 1) * B + o + 1)
    BY <1>3, <2>4, BitOfByte DEF B
  <2>7. i * B + o + 1 = n
    <3>1. i * B \in Int
      BY <1>1
    <3> QED
      BY <1>1, <2>1, <3>1
  <2> QED
    BY <2>3, <2>4, <2>5, <2>6, <2>7
<1> QED
  BY <1>5, <1>6, <1>7 DEF BitAt, B, l, back, data

-----------------------------------------------------------------------------
(* Requests.                                                               *)

\* The data of a reply that belong to the register at address a.
Slice(r, a, data) == SubSeq(data, a - r.addr + 1, a - r.addr + Count(RegsOf(r)[a].dt))

\* No register begins inside another one.
Disjoint ==
    \A type \in Type : \A a, b \in DOMAIN Registers[type] :
        a < b => a + Count(Registers[type][a].dt) <= b

LEMMA ServedType ==
    ASSUME NEW r \in Requests, NEW a \in DOMAIN RegsOf(r)
    PROVE  /\ TypeOf(r.fn) \in Type /\ a \in Nat
           /\ RegsOf(r)[a].tag \in Tag
           /\ RegsOf(r)[a].factor \in Nat \ {0} /\ Unit % RegsOf(r)[a].factor = 0
           /\ RegsOf(r)[a].factor # 1 => Unit >= 2 * RegsOf(r)[a].factor
           /\ Exact(RegsOf(r)[a].dt)
           /\ Count(RegsOf(r)[a].dt) \in {1, 2, 4}
           /\ TypeOf(r.fn) \in {"coil", "discrete"} =>
                 Count(RegsOf(r)[a].dt) = 1 /\ ~Signed(RegsOf(r)[a].dt)
<1>1. TypeOf(r.fn) \in Type
  BY RequestsAssumption DEF TypeOf, Type
<1> QED
  BY <1>1, CountType, RegistersAssumption DEF RegsOf

\* Of a register within the request, Part has all the words; those of a coil are bits.
LEMMA PartType ==
    ASSUME NEW r \in Requests, Writes(r.fn), NEW a \in Begins(r),
           r.fn = 6 => Count(RegsOf(r)[a].dt) = 1
    PROVE  LET n == Count(RegsOf(r)[a].dt) IN
           /\ Part(r, a, n) \in [1..n -> Word]
           /\ TypeOf(r.fn) \in {"coil", "discrete"} => Part(r, a, n)[1] \in {0, 1}
<1> DEFINE n == Count(RegsOf(r)[a].dt)
           k == a - r.addr
<1>1. n \in {1, 2, 4} /\ a \in Nat
  BY ServedType DEF Begins
<1>2. r.addr \in Nat /\ r.count \in Nat /\ r.data \in Seq(Word) /\ Len(r.data) = r.count
  BY RequestsAssumption
<1>3. k \in Nat /\ k + n <= r.count
  BY <1>1, <1>2, RequestsAssumption DEF Begins
<1> HIDE DEF n, k
<1>4. Part(r, a, n) = SubSeq(r.data, k + 1, k + n)
  BY DEF Part, k
<1>5. SubSeq(r.data, k + 1, k + n) = [i \in 1..n |-> r.data[k + i]]
  BY <1>1, <1>2, <1>3
<1>6. \A i \in 1..n : k + i \in 1..Len(r.data)
  BY <1>1, <1>2, <1>3
<1>7. \A i \in 1..n : r.data[k + i] \in Word
  BY <1>2, <1>6, ElementOfSeq
<1>8. ASSUME TypeOf(r.fn) \in {"coil", "discrete"}
      PROVE  Part(r, a, n)[1] \in {0, 1}
  <2>1. r.fn \in {5, 15}
    BY <1>8 DEF Writes, TypeOf
  <2>2. r.data \in Seq({0, 1})
    BY <2>1, RequestsAssumption
  <2>3. 1 \in 1..n
    BY <1>1
  <2>4. r.data[k + 1] \in {0, 1}
    BY <1>6, <2>2, <2>3, ElementOfSeq
  <2> QED
    BY <1>4, <1>5, <2>3, <2>4
<1> QED
  BY <1>4, <1>5, <1>7, <1>8 DEF n

LEMMA ExpectedType ==
    ASSUME NEW r \in Requests, Writes(r.fn), NEW a \in Begins(r),
           r.fn = 6 => Count(RegsOf(r)[a].dt) = 1
    PROVE  Expected(r, a) \subseteq Tag \X Int
<1> DEFINE reg == RegsOf(r)[a]
           ws == Part(r, a, Count(reg.dt))
<1>1. a \in DOMAIN RegsOf(r)
  BY DEF Begins
<1>2. reg.tag \in Tag /\ reg.factor \in Nat \ {0} /\ 1 \in 1..Count(reg.dt)
  BY <1>1, ServedType
<1>3. ws \in [1..Count(reg.dt) -> Word]
  BY PartType
<1>4. Value(reg, ws) \subseteq Int
  BY <1>2, <1>3, ValueType
<1>5. Expected(r, a) = {reg.tag} \X ValueOf(TypeOf(r.fn), reg, ws)
  BY DEF Expected
<1> HIDE DEF reg, ws
<1>6. ws[1] \in Int
  BY <1>2, <1>3, RegisterAssumption DEF Word
<1>7. ws[1] * Unit \in Int
  BY <1>6, RegisterAssumption
<1>8. ValueOf(TypeOf(r.fn), reg, ws) \subseteq Int
  BY <1>4, <1>7 DEF ValueOf
<1> QED
  BY <1>2, <1>5, <1>8

\* What a read appends for a register fills its addresses.
LEMMA DataType ==
    ASSUME NEW r \in Requests, NEW a \in DOMAIN RegsOf(r), NEW v,
           NEW ws \in DataOf(TypeOf(r.fn), RegsOf(r)[a], v)
    PROVE  ws \in Seq(Word) /\ Len(ws) = Count(RegsOf(r)[a].dt)
<1> DEFINE n == Count(RegsOf(r)[a].dt)
<1>1. n \in {1, 2, 4} /\ (TypeOf(r.fn) \in {"coil", "discrete"} => n = 1)
  BY ServedType
<1>2. CASE TypeOf(r.fn) \in {"coil", "discrete"}
  <2>1. 0 \in Word /\ 1 \in Word
    BY RegisterAssumption DEF Word
  <2>2. ws = <<0>> \/ ws = <<1>>
    BY <1>2 DEF DataOf
  <2>3. <<0>> \in Seq(Word) /\ <<1>> \in Seq(Word) /\ Len(<<0>>) = 1 /\ Len(<<1>>) = 1
    BY <2>1
  <2>4. n = 1
    BY <1>1, <1>2
  <2> QED
    BY <2>2, <2>3, <2>4
<1>3. CASE TypeOf(r.fn) \notin {"coil", "discrete"}
  <2>1. ws \in [1..n -> Word]
    BY <1>3, BytesType DEF DataOf
  <2> QED
    BY <1>1, <2>1
<1> QED
  BY <1>2, <1>3

-----------------------------------------------------------------------------
(* The inductive invariant.                                                *)

\* Registers the request is through with.
Past == {a \in Begins(req) : a < addr}

Progress == req # None => reply = None /\ addr >= req.addr

\* A write has collected exactly what its registers were given, without a gap.
Collected ==
    req # None /\ Writes(req.fn) =>
        /\ \A i \in 1..Len(points) : \E a \in Past : points[i] \in Expected(req, a)
        /\ \A a \in Past : \E i \in 1..Len(points) : points[i] \in Expected(req, a)
        /\ \A x \in req.addr..(addr - 1) :
              \E a \in Past : x \in a..(a + Count(RegsOf(req)[a].dt) - 1)
        /\ req.fn = 6 => \A a \in Past : Count(RegsOf(req)[a].dt) = 1

\* A tag that no Status has set since has the value its last register was given.
Held ==
    req # None /\ Writes(req.fn) =>
        \A t \in Touched \cap unsaid :
            \E a \in Past : /\ <<t, tags[t]>> \in Expected(req, a)
                            /\ \A b \in Past : RegsOf(req)[b].tag = t => b <= a

\* Every tag has a value it has been seen to have.
Seen == req # None => \A t \in Tag : tags[t] \in seen[t]

\* The data of a register encode one value its tag has had, and, if the tag is as a
\* master wrote it, the present one.
Genuine(r, a, data) ==
    LET reg == RegsOf(r)[a] IN
    /\ \E v \in seen[reg.tag] : Slice(r, a, data) \in DataOf(TypeOf(r.fn), reg, v)
    /\ written[reg.tag] # None => Slice(r, a, data) \in DataOf(TypeOf(r.fn), reg, tags[reg.tag])

Reading ==
    req # None /\ ~Writes(req.fn) =>
        /\ Len(buf) = addr - req.addr
        /\ \A a \in Past : a + Count(RegsOf(req)[a].dt) <= addr /\ Genuine(req, a, buf)

Replied ==
    Accepted /\ ~Writes(reply.req.fn) =>
        \A a \in Begins(reply.req) : Genuine(reply.req, a, reply.data)

\* What is known of the last write to a tag.
Remembered ==
    \A t \in Tag : written[t] # None =>
        LET w == written[t]
            reg == Registers[w.type][w.addr]
        IN /\ w.type \in Type /\ w.addr \in DOMAIN Registers[w.type] /\ reg.tag = t
           /\ w.data \in [1..Count(reg.dt) -> Word]
           /\ w.type \in {"coil", "discrete"} => w.data[1] \in {0, 1}
           /\ tags[t] \in ValueOf(w.type, reg, w.data)

WriteInv == Progress /\ Collected /\ AckedIsPushed
ReadInv == Progress /\ Seen /\ Reading /\ Replied
BackInv == Held /\ Remembered

-----------------------------------------------------------------------------
(* Types and progress.                                                     *)

\* The register the loop stands at belongs to the request.
LEMMA Here ==
    ASSUME TypeOK, Progress, More, Mapped
    PROVE  /\ req \in Requests /\ addr \in Begins(req) /\ Reg = RegsOf(req)[addr]
           /\ addr \in DOMAIN RegsOf(req) /\ Reg.tag \in Tag /\ Count(Reg.dt) \in {1, 2, 4}
           /\ addr' = addr + Count(Reg.dt) => addr' \in Nat /\ addr' > addr
<1>1. req \in Requests /\ addr \in Begins(req) /\ Reg = RegsOf(req)[addr]
  BY DEF TypeOK, Progress, More, Mapped, Regs, Reg, Begins, Last
<1>2. addr \in DOMAIN RegsOf(req)
  BY <1>1 DEF Begins
<1>3. Reg.tag \in Tag /\ Count(Reg.dt) \in {1, 2, 4}
  BY <1>1, <1>2, ServedType
<1> QED
  BY <1>1, <1>2, <1>3 DEF TypeOK

\* A step of a write gives the tag of its register one of the values expected of it.
LEMMA WriteNextIs ==
    ASSUME WriteNext, Reg = RegsOf(req)[addr]
    PROVE  \E v : /\ <<Reg.tag, v>> \in Expected(req, addr)
                  /\ tags' = [tags EXCEPT ![Reg.tag] = v]
                  /\ points' = Append(points, <<Reg.tag, v>>)
                  /\ seen' = [seen EXCEPT ![Reg.tag] = @ \cup {v}]
<1>1. PICK v : /\ v \in ValueOf(TypeOf(req.fn), Reg, Part(req, addr, Count(Reg.dt)))
               /\ tags' = [tags EXCEPT ![Reg.tag] = v]
               /\ points' = Append(points, <<Reg.tag, v>>)
               /\ seen' = [seen EXCEPT ![Reg.tag] = @ \cup {v}]
  BY DEF WriteNext
<1>2. <<Reg.tag, v>> \in Expected(req, addr)
  BY <1>1 DEF Expected
<1> QED
  BY <1>1, <1>2

LEMMA TypeInit == Init => TypeOK /\ Progress
<1> SUFFICES ASSUME Init
             PROVE  TypeOK /\ Progress
  OBVIOUS
<1>1. tags \in [Tag -> Int] /\ seen \in [Tag -> SUBSET Int] /\ DOMAIN written = Tag
  BY DEF Init
<1>2. points \in Seq(Tag \X Int) /\ pushed \in Seq(Tag \X Int) /\ buf \in Seq(Word)
  BY DEF Init
<1> QED
  BY <1>1, <1>2 DEF Init, TypeOK, Progress

LEMMA TypeStep == TypeOK /\ Progress /\ [Next]_vars => TypeOK' /\ Progress'
<1> SUFFICES ASSUME TypeOK, Progress, [Next]_vars
             PROVE  TypeOK' /\ Progress'
  OBVIOUS
<1> USE DEF TypeOK
<1>1. CASE Receive
  <2>1. req' \in Requests /\ addr' = req'.addr /\ addr' \in Nat
    BY <1>1, RequestsAssumption DEF Receive
  <2>2. points' \in Seq(Tag \X Int) /\ pushed' \in Seq(Tag \X Int) /\ buf' \in Seq(Word)
    BY <1>1 DEF Receive
  <2>3. seen' \in [Tag -> SUBSET Int]
    BY <1>1 DEF Receive
  <2> QED
    BY <1>1, <2>1, <2>2, <2>3 DEF Receive, Progress
<1>2. CASE NoRegister
  <2>1. reply'.req = req /\ reply'.code = "IllegalDataAddress" /\ reply'.data = <<>> /\ req' = None
    BY <1>2 DEF NoRegister, Respond
  <2> QED
    BY <1>2, <2>1 DEF NoRegister, More, history, Progress
<1>3. CASE TooShort
  <2>1. reply'.req = req /\ reply'.code = "IllegalDataValue" /\ reply'.data = <<>> /\ req' = None
    BY <1>3 DEF TooShort, Respond
  <2> QED
    BY <1>3, <2>1 DEF TooShort, More, history, Progress
<1>4. CASE WriteNext
  <2>1. /\ req \in Requests /\ addr \in Begins(req) /\ Reg = RegsOf(req)[addr]
        /\ Reg.tag \in Tag /\ addr' \in Nat /\ addr' > addr
    BY <1>4, Here DEF WriteNext
  <2>2. Expected(req, addr) \subseteq Tag \X Int
    BY <1>4, <2>1, ExpectedType DEF WriteNext
  <2>3. PICK v : /\ <<Reg.tag, v>> \in Expected(req, addr)
                 /\ tags' = [tags EXCEPT ![Reg.tag] = v]
                 /\ points' = Append(points, <<Reg.tag, v>>)
                 /\ seen' = [seen EXCEPT ![Reg.tag] = @ \cup {v}]
    BY <1>4, <2>1, WriteNextIs DEF WriteNext
  <2>4. <<Reg.tag, v>> \in Tag \X Int /\ v \in Int
    BY <2>2, <2>3
  <2>5. /\ tags' = [tags EXCEPT ![Reg.tag] = v] /\ points' = Append(points, <<Reg.tag, v>>)
        /\ seen' = [seen EXCEPT ![Reg.tag] = @ \cup {v}]
    BY <2>3
  <2>6. tags' \in [Tag -> Int] /\ points' \in Seq(Tag \X Int) /\ seen' \in [Tag -> SUBSET Int]
    BY <2>4, <2>5
  <2>7. unsaid' \subseteq Tag /\ DOMAIN written' = Tag
    BY <1>4, <2>1 DEF WriteNext
  <2>8. req.addr \in Nat
    BY <2>1, RequestsAssumption
  <2> QED
    BY <1>4, <2>1, <2>6, <2>7, <2>8 DEF WriteNext, Progress
<1>5. CASE WriteDone
  <2>1. /\ reply'.req = req /\ reply'.code \in {"Success", "SlaveDeviceFailure"}
        /\ reply'.data = <<>> /\ req' = None
    BY <1>5 DEF WriteDone, Respond
  <2>2. unsaid' \subseteq Tag /\ DOMAIN written' = Tag /\ pushed' \in Seq(Tag \X Int)
    BY <1>5 DEF WriteDone
  <2> QED
    BY <1>5, <2>1, <2>2 DEF WriteDone, Progress
<1>6. CASE ReadNext
  <2>1. /\ req \in Requests /\ addr \in Begins(req) /\ Reg = RegsOf(req)[addr]
        /\ addr \in DOMAIN RegsOf(req) /\ addr' \in Nat /\ addr' > addr
    BY <1>6, Here DEF ReadNext
  <2>2. PICK ws \in DataOf(TypeOf(req.fn), Reg, tags[Reg.tag]) : buf' = buf \o ws
    BY <1>6 DEF ReadNext
  <2>3. ws \in Seq(Word)
    BY <2>1, <2>2, DataType
  <2>4. buf' \in Seq(Word)
    BY <2>2, <2>3
  <2>5. req.addr \in Nat
    BY <2>1, RequestsAssumption
  <2> QED
    BY <1>6, <2>1, <2>4, <2>5 DEF ReadNext, history, Progress
<1>7. CASE ReadDone
  <2>1. reply'.req = req /\ reply'.code = "Success" /\ reply'.data = buf /\ req' = None
    BY <1>7 DEF ReadDone, Respond
  <2> QED
    BY <1>7, <2>1 DEF ReadDone, history, Progress
<1>8. CASE Status
  <2>1. PICK S \in (SUBSET Tag) \ {{}} : \E m \in [S -> Levels] :
           /\ tags' = [t \in Tag |-> IF t \in S THEN m[t] ELSE tags[t]]
           /\ seen' = [t \in Tag |-> IF t \in S /\ req # None THEN seen[t] \cup {m[t]} ELSE seen[t]]
           /\ unsaid' = unsaid \ S
           /\ written' = [t \in Tag |-> IF t \in S THEN None ELSE written[t]]
    BY <1>8 DEF Status
  <2>2. PICK m \in [S -> Levels] :
           /\ tags' = [t \in Tag |-> IF t \in S THEN m[t] ELSE tags[t]]
           /\ seen' = [t \in Tag |-> IF t \in S /\ req # None THEN seen[t] \cup {m[t]} ELSE seen[t]]
    BY <2>1
  <2>3. \A t \in S : m[t] \in Int
    BY <2>2, LevelsAssumption
  <2>4. tags' \in [Tag -> Int] /\ seen' \in [Tag -> SUBSET Int]
    BY <2>2, <2>3
  <2>5. UNCHANGED <<req, addr, points, buf, reply, pushed>>
    BY <1>8 DEF Status
  <2> QED
    BY <2>1, <2>4, <2>5 DEF Progress
<1>9. CASE UNCHANGED vars
  BY <1>9 DEF vars, history, Progress
<1> QED
  BY <1>1, <1>2, <1>3, <1>4, <1>5, <1>6, <1>7, <1>8, <1>9 DEF Next, Serve

-----------------------------------------------------------------------------
(* Writes.                                                                 *)

\* Where registers do not overlap, a step of the loop puts exactly one behind it.
LEMMA PastNext ==
    ASSUME Disjoint, NEW r \in Requests, NEW a \in Begins(r)
    PROVE  {b \in Begins(r) : b < a + Count(RegsOf(r)[a].dt)} = {b \in Begins(r) : b < a} \cup {a}
<1>1. \A b \in Begins(r) : b \in DOMAIN RegsOf(r) /\ b \in Nat
  BY ServedType DEF Begins
<1>2. a \in Nat /\ Count(RegsOf(r)[a].dt) \in {1, 2, 4} /\ TypeOf(r.fn) \in Type
  BY <1>1, ServedType
<1>3. \A b \in Begins(r) : a < b => a + Count(RegsOf(r)[a].dt) <= b
  BY <1>1, <1>2 DEF Disjoint, RegsOf
<1>4. PICK n \in Nat : n = Count(RegsOf(r)[a].dt) /\ n > 0
  BY <1>2
<1>5. \A b \in Begins(r) : b < a + n <=> b < a \/ b = a
  BY <1>1, <1>2, <1>3, <1>4
<1>6. {b \in Begins(r) : b < a + n} = {b \in Begins(r) : b < a} \cup {a}
  BY <1>5
<1> QED
  BY <1>4, <1>6

\* An element more at the end of a sequence.
LEMMA AppendIs ==
    ASSUME NEW S, NEW s \in Seq(S), NEW e, NEW t, t = Append(s, e)
    PROVE  /\ Len(s) \in Nat /\ Len(t) = Len(s) + 1 /\ t[Len(s) + 1] = e
           /\ \A i \in 1..Len(s) : t[i] = s[i]
  OBVIOUS

LEMMA WriteInit == Init => Collected /\ AckedIsPushed
  BY DEF Init, Collected, AckedIsPushed, Accepted

LEMMA WriteStep ==
    ASSUME Disjoint, TypeOK, WriteInv, [Next]_vars
    PROVE  Collected' /\ AckedIsPushed'
<1>0. Progress /\ Collected /\ AckedIsPushed
  BY DEF WriteInv
<1>1. CASE Receive
  <2>1. req' \in Requests /\ addr' = req'.addr /\ points' = <<>> /\ reply' = None
    BY <1>1 DEF Receive
  <2>2. addr' \in Nat /\ Past' = {}
    BY <2>1, RequestsAssumption DEF Past, Begins
  <2>3. Collected'
    BY <2>1, <2>2 DEF Collected
  <2>4. AckedIsPushed'
    BY <2>1 DEF AckedIsPushed, Accepted
  <2> QED
    BY <2>3, <2>4
<1>2. CASE NoRegister \/ TooShort
  <2>1. req' = None /\ reply'.code # "Success"
    BY <1>2 DEF NoRegister, TooShort, Respond
  <2> QED
    BY <2>1 DEF Collected, AckedIsPushed, Accepted
<1>3. CASE WriteNext
  <2>1. /\ req # None /\ Writes(req.fn) /\ UNCHANGED <<req, reply, pushed>>
        /\ addr' = addr + Count(RegsOf(req)[addr].dt)
        /\ req.fn = 6 => Count(RegsOf(req)[addr].dt) = 1
        /\ req \in Requests /\ addr \in Begins(req) /\ addr \in Nat
    <3>1. req \in Requests /\ addr \in Begins(req) /\ Reg = RegsOf(req)[addr] /\ addr \in Nat
      BY <1>0, <1>3, Here DEF WriteNext, TypeOK
    <3> QED
      BY <1>3, <3>1 DEF WriteNext, More
  <2>2. Past' = Past \cup {addr}
    BY <2>1, PastNext DEF Past
  <2>3. PICK e : e \in Expected(req, addr) /\ points' = Append(points, e)
    BY <1>0, <1>3, Here, WriteNextIs DEF WriteNext
  <2>4. /\ Len(points) \in Nat /\ Len(points') = Len(points) + 1 /\ points'[Len(points) + 1] = e
        /\ \A i \in 1..Len(points) : points'[i] = points[i]
    BY <2>3, AppendIs DEF TypeOK
  <2>5. /\ \A i \in 1..Len(points') : \E a \in Past' : points'[i] \in Expected(req, a)
        /\ \A a \in Past' : \E i \in 1..Len(points') : points'[i] \in Expected(req, a)
    <3>1. /\ \A i \in 1..Len(points) : \E a \in Past : points[i] \in Expected(req, a)
          /\ \A a \in Past : \E i \in 1..Len(points) : points[i] \in Expected(req, a)
      BY <1>0, <2>1 DEF Collected
    <3>2. ASSUME NEW i \in 1..Len(points')
          PROVE  \E a \in Past' : points'[i] \in Expected(req, a)
      <4>1. CASE i = Len(points) + 1
        BY <2>2, <2>3, <2>4, <4>1
      <4>2. CASE i # Len(points) + 1
        <5>1. i \in 1..Len(points)
          BY <2>4, <4>2
        <5> QED
          BY <2>2, <2>4, <3>1, <5>1
      <4> QED
        BY <4>1, <4>2
    <3>3. ASSUME NEW a \in Past'
          PROVE  \E i \in 1..Len(points') : points'[i] \in Expected(req, a)
      <4>1. CASE a = addr
        <5>1. Len(points) + 1 \in 1..Len(points')
          BY <2>4
        <5> QED
          BY <2>3, <2>4, <4>1, <5>1
      <4>2. CASE a \in Past
        <5>1. PICK i \in 1..Len(points) : points[i] \in Expected(req, a)
          BY <3>1, <4>2
        <5>2. i \in 1..Len(points') /\ points'[i] = points[i]
          BY <2>4, <5>1
        <5> QED
          BY <5>1, <5>2
      <4> QED
        BY <2>2, <4>1, <4>2
    <3> QED
      BY <3>2, <3>3
  <2>6. ASSUME NEW x \in req.addr..(addr' - 1)
        PROVE  \E a \in Past' : x \in a..(a + Count(RegsOf(req)[a].dt) - 1)
    <3>1. req.addr \in Nat /\ Count(RegsOf(req)[addr].dt) \in {1, 2, 4}
      BY <2>1, CountType, RequestsAssumption
    <3>2. CASE x < addr
      <4>1. x \in req.addr..(addr - 1)
        BY <2>1, <3>1, <3>2
      <4> QED
        BY <1>0, <2>1, <2>2, <4>1 DEF Collected
    <3>3. CASE x >= addr
      <4>1. x \in addr..(addr + Count(RegsOf(req)[addr].dt) - 1)
        BY <2>1, <3>1, <3>3
      <4> QED
        BY <2>2, <4>1
    <3> QED
      BY <2>1, <3>1, <3>2, <3>3
  <2>7. req.fn = 6 => \A a \in Past' : Count(RegsOf(req)[a].dt) = 1
    BY <1>0, <2>1, <2>2 DEF Collected
  <2>8. Collected'
    BY <2>1, <2>5, <2>6, <2>7 DEF Collected
  <2>9. AckedIsPushed'
    BY <1>0, <2>1 DEF AckedIsPushed, Accepted
  <2> QED
    BY <2>8, <2>9
<1>4. CASE WriteDone
  <2>1. /\ req # None /\ req \in Requests /\ Writes(req.fn) /\ addr >= req.addr + req.count
        /\ req' = None /\ reply'.req = req /\ addr \in Nat
    BY <1>4 DEF WriteDone, Respond, Last, TypeOK
  <2>2. Collected'
    BY <2>1 DEF Collected
  <2>3. CASE reply'.code # "Success"
    BY <2>2, <2>3 DEF AckedIsPushed, Accepted
  <2>4. CASE reply'.code = "Success"
    <3>1. pushed' = points
      BY <1>4, <2>4 DEF WriteDone, Respond
    <3>2. req.addr \in Nat /\ req.count \in Nat
      BY <2>1, RequestsAssumption
    <3>3. \A a \in Begins(req) : a \in Nat
      BY <2>1, ServedType DEF Begins
    <3>4. Past = Begins(req)
      BY <2>1, <3>2, <3>3 DEF Past, Begins
    <3>5. /\ \A i \in 1..Len(pushed') : \E a \in Begins(req) : pushed'[i] \in Expected(req, a)
          /\ \A a \in Begins(req) : \E i \in 1..Len(pushed') : pushed'[i] \in Expected(req, a)
      BY <1>0, <2>1, <3>1, <3>4 DEF Collected
    <3>6. \A x \in req.addr..(req.addr + req.count - 1) :
             \E a \in Begins(req) : x \in a..(a + Count(RegsOf(req)[a].dt) - 1)
      BY <1>0, <2>1, <3>2, <3>4 DEF Collected
    <3>7. AckedIsPushed'
      BY <2>1, <3>5, <3>6 DEF AckedIsPushed
    <3> QED
      BY <2>2, <3>7
  <2> QED
    BY <2>3, <2>4
<1>5. CASE ReadNext
  BY <1>0, <1>5 DEF ReadNext, Collected, AckedIsPushed, Accepted
<1>6. CASE ReadDone
  <2>1. req' = None /\ reply'.req = req /\ ~Writes(req.fn)
    BY <1>6 DEF ReadDone, Respond
  <2> QED
    BY <2>1 DEF Collected, AckedIsPushed
<1>7. CASE UNCHANGED <<req, addr, points, reply, pushed>>
  BY <1>0, <1>7 DEF Collected, AckedIsPushed, Accepted, Past
<1> QED
  BY <1>1, <1>2, <1>3, <1>4, <1>5, <1>6, <1>7 DEF Next, Serve, Status, vars

\* Whatever requests and Status messages come, where registers do not overlap an
\* acknowledged write has been pushed in full, and the registers it wrote cover it
\* (holding.go:91-150, coil.go:91-142).
THEOREM AckedCorrect == Disjoint => (Spec => []AckedIsPushed)
<1> SUFFICES ASSUME Disjoint
             PROVE  Spec => []AckedIsPushed
  OBVIOUS
<1>1. Init => TypeOK /\ WriteInv
  BY TypeInit, WriteInit DEF WriteInv
<1>2. (TypeOK /\ WriteInv) /\ [Next]_vars => (TypeOK /\ WriteInv)'
  BY TypeStep, WriteStep DEF WriteInv
<1>3. WriteInv => AckedIsPushed
  BY DEF WriteInv
<1> QED
  BY <1>1, <1>2, <1>3, PTL DEF Spec

-----------------------------------------------------------------------------
(* Reads.                                                                  *)

\* Data appended to a reply leave the registers before them alone.
LEMMA SliceOld ==
    ASSUME NEW r \in Requests, NEW a \in Begins(r), NEW data \in Seq(Word), NEW ws \in Seq(Word),
           a + Count(RegsOf(r)[a].dt) <= r.addr + Len(data)
    PROVE  Slice(r, a, data \o ws) = Slice(r, a, data)
<1> DEFINE k == a - r.addr
           n == Count(RegsOf(r)[a].dt)
<1>1. k \in Nat /\ n \in {1, 2, 4} /\ k + n <= Len(data) /\ Len(data) \in Nat
  BY ServedType, RequestsAssumption DEF Begins
<1> HIDE DEF k, n
<1>2. SubSeq(data \o ws, k + 1, k + n) = SubSeq(data, k + 1, k + n)
  BY <1>1
<1> QED
  BY <1>2 DEF Slice, k, n

LEMMA SliceNew ==
    ASSUME NEW r \in Requests, NEW a \in Begins(r), NEW data \in Seq(Word), NEW ws \in Seq(Word),
           Len(data) = a - r.addr, Len(ws) = Count(RegsOf(r)[a].dt)
    PROVE  Slice(r, a, data \o ws) = ws
<1> DEFINE k == a - r.addr
           n == Count(RegsOf(r)[a].dt)
<1>1. k \in Nat /\ n \in {1, 2, 4} /\ k = Len(data) /\ n = Len(ws)
  BY ServedType, RequestsAssumption DEF Begins
<1> HIDE DEF k, n
<1>2. SubSeq(data \o ws, k + 1, k + n) = ws
  <2>1. SubSeq(data \o ws, k + 1, k + n) = [i \in 1..n |-> (data \o ws)[k + i]]
    <3>1. data \o ws \in Seq(Word) /\ Len(data \o ws) = k + n
      BY <1>1
    <3>2. ASSUME NEW s \in Seq(Word), Len(s) = k + n
          PROVE  SubSeq(s, k + 1, k + n) = [i \in 1..n |-> s[k + i]]
      <4>1. k + n <= Len(s)
        BY <1>1, <3>2
      <4> QED
        BY <1>1, <4>1
    <3> QED
      BY <3>1, <3>2
  <2>2. \A i \in 1..n : (data \o ws)[k + i] = ws[i]
    BY <1>1
  <2>3. ws = [i \in 1..n |-> ws[i]]
    BY <1>1
  <2> QED
    BY <2>1, <2>2, <2>3
<1> QED
  BY <1>2 DEF Slice, k, n

\* Data stay genuine as long as values seen are kept and a tag that changes is no longer
\* as a master wrote it.
LEMMA GenuineKept ==
    ASSUME NEW r \in Requests, NEW a \in Begins(r), NEW data, Genuine(r, a, data),
           \A t \in Tag : /\ seen[t] \subseteq seen'[t]
                          /\ written'[t] # None => written[t] # None /\ tags'[t] = tags[t]
    PROVE  Genuine(r, a, data)'
<1>1. RegsOf(r)[a].tag \in Tag
  BY ServedType DEF Begins
<1> QED
  BY <1>1 DEF Genuine

LEMMA ReadInit == Init => Seen /\ Reading /\ Replied
  BY DEF Init, Seen, Reading, Replied, Accepted

LEMMA ReadStep ==
    ASSUME Disjoint, TypeOK, ReadInv, [Next]_vars
    PROVE  Seen' /\ Reading' /\ Replied'
<1>0. Progress /\ Seen /\ Reading /\ Replied
  BY DEF ReadInv
<1>1. CASE Receive
  <2>1. /\ req' \in Requests /\ addr' = req'.addr /\ buf' = <<>> /\ reply' = None
        /\ tags' = tags /\ seen' = [t \in Tag |-> {tags[t]}]
    BY <1>1 DEF Receive
  <2>2. addr' \in Nat /\ Past' = {}
    <3>1. addr' \in Nat /\ \A a \in Begins(req') : a \in Nat /\ a >= addr'
      BY <2>1, ServedType, RequestsAssumption DEF Begins
    <3> QED
      BY <3>1 DEF Past
  <2>3. (Len(buf) = addr - req.addr)'
    BY <2>1, <2>2
  <2>4. Reading'
    BY <2>2, <2>3 DEF Reading
  <2> QED
    BY <2>1, <2>4 DEF Seen, Replied, Accepted
<1>2. CASE NoRegister \/ TooShort
  <2>1. req' = None /\ reply'.code # "Success"
    BY <1>2 DEF NoRegister, TooShort, Respond
  <2> QED
    BY <2>1 DEF Seen, Reading, Replied, Accepted
<1>3. CASE WriteNext
  <2>1. req # None /\ Writes(req.fn) /\ req' = req /\ reply' = reply /\ reply = None
    BY <1>0, <1>3 DEF WriteNext, More, Progress
  <2>2. Seen'
    BY <1>0, <1>3, <2>1 DEF WriteNext, Seen, TypeOK
  <2> QED
    BY <2>1, <2>2 DEF Reading, Replied, Accepted
<1>4. CASE WriteDone
  <2>1. req' = None /\ reply'.req = req /\ Writes(req.fn)
    BY <1>4 DEF WriteDone, Respond
  <2> QED
    BY <2>1 DEF Seen, Reading, Replied
<1>5. CASE ReadNext
  <2>1. /\ req # None /\ ~Writes(req.fn) /\ reply = None
        /\ UNCHANGED <<tags, req, reply, seen, written>>
        /\ addr' = addr + Count(RegsOf(req)[addr].dt)
        /\ req \in Requests /\ addr \in Begins(req) /\ addr \in Nat
        /\ addr \in DOMAIN RegsOf(req) /\ RegsOf(req)[addr].tag \in Tag
    <3>1. /\ req \in Requests /\ addr \in Begins(req) /\ Reg = RegsOf(req)[addr] /\ addr \in Nat
          /\ addr \in DOMAIN RegsOf(req) /\ Reg.tag \in Tag
      BY <1>0, <1>5, Here DEF ReadNext, TypeOK
    <3> QED
      BY <1>0, <1>5, <3>1 DEF ReadNext, More, Progress, history
  <2>2. PICK r : r = req
    OBVIOUS
  <2>3. PICK k : k = addr
    OBVIOUS
  <2>4. PICK old : old = buf
    OBVIOUS
  <2>5. PICK n : n = Count(RegsOf(r)[k].dt)
    OBVIOUS
  <2>6. PICK v : v = tags[RegsOf(r)[k].tag]
    OBVIOUS
  <2>7. PICK ws \in DataOf(TypeOf(r.fn), RegsOf(r)[k], v) : buf' = old \o ws
    <3>1. Reg = RegsOf(r)[k]
      BY <1>0, <1>5, <2>2, <2>3, Here DEF ReadNext
    <3> QED
      BY <1>5, <2>2, <2>4, <2>6, <3>1 DEF ReadNext
  <2>8. /\ r \in Requests /\ k \in Begins(r) /\ k \in DOMAIN RegsOf(r) /\ k \in Nat /\ r.addr \in Nat
        /\ old \in Seq(Word) /\ Len(old) \in Nat /\ Len(old) = k - r.addr /\ n \in {1, 2, 4}
        /\ addr' = k + n
    BY <1>0, <2>1, <2>2, <2>3, <2>4, <2>5, CountType, RequestsAssumption DEF Reading, TypeOK
  <2>9. ws \in Seq(Word) /\ Len(ws) = n
    BY <2>5, <2>7, <2>8, DataType
  <2>10. PICK new : new = old \o ws
    OBVIOUS
  <2>11. Len(new) = (k + n) - r.addr
    BY <2>8, <2>9, <2>10
  <2>12. Past' = Past \cup {k}
    BY <2>1, <2>2, <2>3, PastNext DEF Past
  <2>13. Genuine(r, k, new)
    <3>1. Slice(r, k, new) = ws
      BY <2>5, <2>8, <2>9, <2>10, SliceNew
    <3>2. v \in seen[RegsOf(r)[k].tag]
      BY <1>0, <2>1, <2>2, <2>3, <2>6 DEF Seen
    <3> QED
      BY <2>6, <2>7, <3>1, <3>2 DEF Genuine
  <2>14. ASSUME NEW a \in Past
         PROVE  a + Count(RegsOf(r)[a].dt) <= k + n /\ Genuine(r, a, new)
    <3>1. a \in Begins(r) /\ a + Count(RegsOf(r)[a].dt) <= k /\ Genuine(r, a, old)
      BY <1>0, <2>1, <2>2, <2>3, <2>4 DEF Reading, Past
    <3>2. a \in Nat /\ Count(RegsOf(r)[a].dt) \in {1, 2, 4}
      BY <2>8, <3>1, ServedType DEF Begins
    <3>3. Slice(r, a, new) = Slice(r, a, old)
      BY <2>8, <2>9, <2>10, <3>1, <3>2, SliceOld
    <3> QED
      BY <2>8, <3>1, <3>2, <3>3 DEF Genuine
  <2>15. ASSUME NEW a \in Past'
         PROVE  a + Count(RegsOf(r)[a].dt) <= addr' /\ Genuine(r, a, new)'
    <3>1. a + Count(RegsOf(r)[a].dt) <= k + n /\ Genuine(r, a, new)
      BY <2>5, <2>8, <2>12, <2>13, <2>14
    <3> QED
      BY <2>1, <2>8, <3>1 DEF Genuine
  <2>16. Reading'
    BY <2>1, <2>2, <2>7, <2>8, <2>10, <2>11, <2>15 DEF Reading
  <2> QED
    BY <1>0, <2>1, <2>16 DEF Seen, Replied, Accepted
<1>6. CASE ReadDone
  <2>1. /\ req # None /\ ~Writes(req.fn) /\ req \in Requests /\ addr >= req.addr + req.count
        /\ addr \in Nat /\ req' = None /\ reply'.req = req /\ reply'.data = buf
        /\ UNCHANGED <<tags, seen, written>>
    BY <1>6 DEF ReadDone, Respond, Last, TypeOK, history
  <2>2. req.addr \in Nat /\ req.count \in Nat /\ \A a \in Begins(req) : a \in Nat
    BY <2>1, ServedType, RequestsAssumption DEF Begins
  <2>3. Past = Begins(req)
    BY <2>1, <2>2 DEF Past, Begins
  <2>4. \A a \in Begins(req) : Genuine(req, a, buf)
    BY <1>0, <2>1, <2>3 DEF Reading
  <2>5. Replied'
    BY <2>1, <2>4 DEF Replied, Genuine
  <2> QED
    BY <2>1, <2>5 DEF Seen, Reading
<1>7. CASE Status
  <2>1. PICK S \in (SUBSET Tag) \ {{}} : \E m \in [S -> Levels] :
           /\ tags' = [t \in Tag |-> IF t \in S THEN m[t] ELSE tags[t]]
           /\ written' = [t \in Tag |-> IF t \in S THEN None ELSE written[t]]
           /\ seen' = [t \in Tag |-> IF t \in S /\ req # None THEN seen[t] \cup {m[t]} ELSE seen[t]]
    BY <1>7 DEF Status
  <2>2. UNCHANGED <<req, addr, buf, reply>>
    BY <1>7 DEF Status
  <2>3. \A t \in Tag : /\ seen[t] \subseteq seen'[t]
                       /\ written'[t] # None => written[t] # None /\ tags'[t] = tags[t]
    BY <2>1
  <2>4. Seen'
    BY <1>0, <2>1, <2>2 DEF Seen
  <2>5. Reading'
    <3>1. PICK r : r = req
      OBVIOUS
    <3>2. PICK data : data = buf
      OBVIOUS
    <3>3. SUFFICES ASSUME r # None, ~Writes(r.fn), NEW a \in Past
                   PROVE  Genuine(r, a, data)'
      BY <1>0, <2>2, <3>1, <3>2 DEF Reading, Past
    <3>4. r \in Requests /\ a \in Begins(r) /\ Genuine(r, a, data)
      BY <1>0, <3>1, <3>2, <3>3 DEF Reading, Past, TypeOK
    <3> QED
      BY <2>3, <3>4, GenuineKept
  <2>6. Replied'
    <3>1. PICK p : p = reply
      OBVIOUS
    <3>2. SUFFICES ASSUME p # None, p.code = "Success", ~Writes(p.req.fn), NEW a \in Begins(p.req)
                   PROVE  Genuine(p.req, a, p.data)'
      BY <2>2, <3>1 DEF Replied, Accepted
    <3>3. p.req \in Requests /\ Genuine(p.req, a, p.data)
      BY <1>0, <3>1, <3>2 DEF Replied, Accepted, TypeOK
    <3> QED
      BY <2>3, <3>3, GenuineKept
  <2> QED
    BY <2>4, <2>5, <2>6
<1>8. CASE UNCHANGED vars
  BY <1>0, <1>8 DEF vars, history, Seen, Reading, Past, Replied, Accepted, Genuine
<1> QED
  BY <1>1, <1>2, <1>3, <1>4, <1>5, <1>6, <1>7, <1>8 DEF Next, Serve

LEMMA ReadInvariant == Disjoint => (Spec => [](TypeOK /\ ReadInv))
<1> SUFFICES ASSUME Disjoint
             PROVE  Spec => [](TypeOK /\ ReadInv)
  OBVIOUS
<1>1. Init => TypeOK /\ ReadInv
  BY TypeInit, ReadInit DEF ReadInv
<1>2. (TypeOK /\ ReadInv) /\ [Next]_vars => (TypeOK /\ ReadInv)'
  BY TypeStep, ReadStep DEF ReadInv
<1> QED
  BY <1>1, <1>2, PTL DEF Spec

\* The variables keep their types and, where registers do not overlap, each register of a
\* read reply encodes one value its tag had while the request was served, however many
\* Status messages came in between (holding.go:11-46, coil.go:13-47).
THEOREM ServerCorrect == Disjoint => (Spec => []ServerInv)
<1> SUFFICES ASSUME Disjoint
             PROVE  Spec => []ServerInv
  OBVIOUS
<1>1. TypeOK /\ ReadInv => ServerInv
  BY DEF ReadInv, Replied, Genuine, Slice, ServerInv, ReadNotTorn
<1> QED
  BY <1>1, ReadInvariant, PTL

-----------------------------------------------------------------------------
(* A master reads what it wrote.                                           *)

LEMMA BackInit == Init => BackInv
<1> SUFFICES ASSUME Init
             PROVE  BackInv
  OBVIOUS
<1>1. \A t \in Tag : written[t] = None
  BY DEF Init
<1> QED
  BY <1>1 DEF Init, BackInv, Held, Remembered

\* The address LastWrite chooses is the last one of the tag.
LEMMA LastWriteIs ==
    ASSUME NEW t, req \in Requests, NEW a \in Begins(req), RegsOf(req)[a].tag = t,
           \A b \in Begins(req) : RegsOf(req)[b].tag = t => b <= a
    PROVE  LastWrite(t) = [type |-> TypeOf(req.fn), addr |-> a,
                           data |-> Part(req, a, Count(RegsOf(req)[a].dt))]
<1> DEFINE as == {x \in DOMAIN Regs \cap (req.addr..(Last - 1)) : Regs[x].tag = t}
           c == CHOOSE x \in as : \A y \in as : y <= x
<1>1. req.addr \in Nat /\ req.count \in Nat /\ \A b \in DOMAIN RegsOf(req) : b \in Nat
  BY ServedType, RequestsAssumption
<1>2. \A b : b \in as <=> b \in Begins(req) /\ RegsOf(req)[b].tag = t
  BY <1>1 DEF Begins, Regs, Last
<1>3. a \in as /\ \A y \in as : y <= a /\ y \in Nat
  BY <1>1, <1>2 DEF Begins
<1> HIDE DEF as
<1>4. c \in as /\ \A y \in as : y <= c
  BY <1>3
<1>5. c = a
  <2>1. c \in Nat /\ a \in Nat /\ c <= a /\ a <= c
    BY <1>3, <1>4
  <2> HIDE DEF c
  <2> QED
    BY <2>1
<1>6. LastWrite(t) = [type |-> TypeOf(req.fn), addr |-> c,
                      data |-> Part(req, c, Count(Regs[c].dt))]
  BY DEF LastWrite, as
<1> QED
  BY <1>5, <1>6 DEF Regs

LEMMA BackStep ==
    ASSUME Disjoint, TypeOK, WriteInv, BackInv, [Next]_vars
    PROVE  BackInv'
<1>0. Progress /\ Collected /\ Held /\ Remembered
  BY DEF WriteInv, BackInv
<1>1. CASE Receive
  <2>1. Touched' = {}
    BY <1>1 DEF Receive, Touched
  <2>2. Held'
    BY <2>1 DEF Held
  <2>3. UNCHANGED <<tags, written>>
    BY <1>1 DEF Receive
  <2> QED
    BY <1>0, <2>2, <2>3 DEF BackInv, Remembered
<1>2. CASE NoRegister \/ TooShort \/ ReadDone
  <2>1. req' = None /\ UNCHANGED <<tags, written>>
    BY <1>2 DEF NoRegister, TooShort, ReadDone, Respond, history
  <2> QED
    BY <1>0, <2>1 DEF BackInv, Held, Remembered
<1>3. CASE WriteNext
  <2>1. /\ req # None /\ Writes(req.fn) /\ req' = req
        /\ req \in Requests /\ addr \in Begins(req) /\ addr \in Nat
        /\ addr' = addr + Count(RegsOf(req)[addr].dt)
        /\ Reg = RegsOf(req)[addr] /\ Reg.tag \in Tag
    <3>1. /\ req \in Requests /\ addr \in Begins(req) /\ Reg = RegsOf(req)[addr] /\ addr \in Nat
          /\ Reg.tag \in Tag
      BY <1>0, <1>3, Here DEF WriteNext, TypeOK
    <3> QED
      BY <1>3, <3>1 DEF WriteNext, More
  <2>2. PICK g, v : /\ g = Reg.tag
                    /\ <<g, v>> \in Expected(req, addr)
                    /\ tags' = [tags EXCEPT ![g] = v] /\ points' = Append(points, <<g, v>>)
    BY <1>3, <2>1, WriteNextIs
  <2>3. /\ <<g, v>> \in Expected(req, addr) /\ g \in Tag
        /\ tags' = [tags EXCEPT ![g] = v] /\ points' = Append(points, <<g, v>>)
        /\ unsaid' = unsaid \cup {g} /\ written' = [written EXCEPT ![g] = None]
    BY <1>3, <2>1, <2>2 DEF WriteNext
  <2>4. Past' = Past \cup {addr}
    BY <2>1, PastNext DEF Past
  <2>5. Touched' = Touched \cup {g}
    <3>1. points \in Seq(Tag \X Int) /\ Len(points) \in Nat
      BY DEF TypeOK
    <3>2. /\ Len(points') = Len(points) + 1 /\ points'[Len(points) + 1] = <<g, v>>
          /\ \A i \in 1..Len(points) : points'[i] = points[i]
      BY <2>3, <3>1
    <3> QED
      BY <3>1, <3>2 DEF Touched
  <2>6. ASSUME NEW t \in Touched' \cap unsaid'
        PROVE  \E a \in Past' : /\ <<t, tags'[t]>> \in Expected(req, a)
                                /\ \A b \in Past' : RegsOf(req)[b].tag = t => b <= a
    <3>1. CASE t = g
      <4>1. tags'[g] = v
        BY <2>3 DEF TypeOK
      <4>2. \A b \in Past : b <= addr
        <5>1. \A b \in Begins(req) : b \in Nat
          BY <2>1, ServedType DEF Begins
        <5> QED
          BY <2>1, <5>1 DEF Past
      <4>3. \A b \in Past' : b <= addr
        BY <2>1, <2>4, <4>2
      <4> QED
        BY <2>3, <2>4, <3>1, <4>1, <4>3
    <3>2. CASE t # g
      <4>1. t \in Touched \cap unsaid /\ t \in Tag
        BY <2>3, <2>5, <3>2 DEF TypeOK
      <4>2. PICK a \in Past : /\ <<t, tags[t]>> \in Expected(req, a)
                              /\ \A b \in Past : RegsOf(req)[b].tag = t => b <= a
        BY <1>0, <2>1, <4>1 DEF Held
      <4>3. tags'[t] = tags[t]
        BY <2>3, <3>2, <4>1 DEF TypeOK
      <4>4. \A b \in Past' : RegsOf(req)[b].tag = t => b <= a
        BY <2>1, <2>2, <2>4, <3>2, <4>2
      <4> QED
        BY <2>4, <4>2, <4>3, <4>4
    <3> QED
      BY <3>1, <3>2
  <2>7. Held'
    BY <2>1, <2>6 DEF Held
  <2>8. ASSUME NEW t \in Tag, written'[t] # None
        PROVE  written'[t] = written[t] /\ tags'[t] = tags[t] /\ written[t] # None
    BY <2>3, <2>8 DEF TypeOK
  <2>9. Remembered'
    BY <1>0, <2>8 DEF Remembered
  <2> QED
    BY <2>7, <2>9 DEF BackInv
<1>4. CASE WriteDone
  <2>1. /\ req # None /\ req \in Requests /\ Writes(req.fn) /\ addr >= req.addr + req.count
        /\ addr \in Nat /\ req' = None /\ tags' = tags
    BY <1>4 DEF WriteDone, Respond, Last, TypeOK
  <2>2. Held'
    BY <2>1 DEF Held
  <2>3. /\ req.addr \in Nat /\ req.count \in Nat
        /\ \A a \in Begins(req) : a \in Nat /\ a \in DOMAIN RegsOf(req)
    BY <2>1, ServedType, RequestsAssumption DEF Begins
  <2>4. Past = Begins(req)
    BY <2>1, <2>3 DEF Past, Begins
  <2>5. ASSUME NEW t \in Tag, t \in Touched, t \in unsaid, NEW w, w = LastWrite(t)
        PROVE  LET reg == Registers[w.type][w.addr] IN
               /\ w.type \in Type /\ w.addr \in DOMAIN Registers[w.type] /\ reg.tag = t
               /\ w.data \in [1..Count(reg.dt) -> Word]
               /\ w.type \in {"coil", "discrete"} => w.data[1] \in {0, 1}
               /\ tags[t] \in ValueOf(w.type, reg, w.data)
    <3>1. PICK a \in Begins(req) : /\ <<t, tags[t]>> \in Expected(req, a)
                                   /\ \A b \in Begins(req) : RegsOf(req)[b].tag = t => b <= a
      BY <1>0, <2>1, <2>4, <2>5 DEF Held
    <3>2. PICK reg : reg = RegsOf(req)[a]
      OBVIOUS
    <3>3. PICK ws : ws = Part(req, a, Count(reg.dt))
      OBVIOUS
    <3>4. reg.tag = t /\ tags[t] \in ValueOf(TypeOf(req.fn), reg, ws)
      BY <3>1, <3>2, <3>3 DEF Expected
    <3>5. w = [type |-> TypeOf(req.fn), addr |-> a, data |-> ws]
      BY <2>1, <2>5, <3>1, <3>2, <3>3, <3>4, LastWriteIs
    <3>6. w.type = TypeOf(req.fn) /\ w.addr = a /\ w.data = ws
      BY <3>5
    <3>7. Registers[w.type] = RegsOf(req) /\ Registers[w.type][w.addr] = reg
      BY <3>2, <3>6 DEF RegsOf
    <3>8. req.fn = 6 => Count(reg.dt) = 1
      BY <1>0, <2>1, <2>4, <3>1, <3>2 DEF Collected
    <3>9. /\ ws \in [1..Count(reg.dt) -> Word]
          /\ TypeOf(req.fn) \in {"coil", "discrete"} => ws[1] \in {0, 1}
      BY <2>1, <3>2, <3>3, <3>8, PartType
    <3>10. TypeOf(req.fn) \in Type /\ a \in DOMAIN RegsOf(req)
      BY <2>1, <2>3, <3>1, ServedType
    <3> QED
      BY <3>4, <3>6, <3>7, <3>9, <3>10
  <2>6. ASSUME NEW t \in Tag, written'[t] # written[t]
        PROVE  t \in Touched /\ t \in unsaid /\ written'[t] = LastWrite(t)
    BY <1>4, <2>6 DEF WriteDone
  <2>7. Remembered'
    <3> SUFFICES ASSUME NEW t \in Tag, NEW w, w = written'[t], w # None
                 PROVE  LET reg == Registers[w.type][w.addr] IN
                        /\ w.type \in Type /\ w.addr \in DOMAIN Registers[w.type] /\ reg.tag = t
                        /\ w.data \in [1..Count(reg.dt) -> Word]
                        /\ w.type \in {"coil", "discrete"} => w.data[1] \in {0, 1}
                        /\ tags[t] \in ValueOf(w.type, reg, w.data)
      BY <2>1 DEF Remembered
    <3>1. CASE written'[t] = written[t]
      BY <1>0, <3>1 DEF Remembered
    <3>2. CASE written'[t] # written[t]
      BY <2>5, <2>6, <3>2
    <3> QED
      BY <3>1, <3>2
  <2> QED
    BY <2>2, <2>7 DEF BackInv
<1>5. CASE ReadNext
  <2>1. req' = req /\ ~Writes(req.fn) /\ UNCHANGED <<tags, written>>
    BY <1>5 DEF ReadNext, history
  <2> QED
    BY <1>0, <2>1 DEF BackInv, Held, Remembered
<1>6. CASE Status
  <2>1. PICK S \in (SUBSET Tag) \ {{}} : \E m \in [S -> Levels] :
           /\ tags' = [t \in Tag |-> IF t \in S THEN m[t] ELSE tags[t]]
           /\ unsaid' = unsaid \ S
           /\ written' = [t \in Tag |-> IF t \in S THEN None ELSE written[t]]
    BY <1>6 DEF Status
  <2>2. UNCHANGED <<req, addr, points>>
    BY <1>6 DEF Status
  <2>3. \A t \in Tag : written'[t] # None => written'[t] = written[t] /\ tags'[t] = tags[t]
    BY <2>1
  <2>4. \A t \in Tag : t \in unsaid' => t \in unsaid /\ tags'[t] = tags[t]
    BY <2>1
  <2>5. unsaid' \subseteq Tag /\ Touched' = Touched /\ Past' = Past
    BY <2>1, <2>2 DEF TypeOK, Touched, Past
  <2>6. Held'
    BY <1>0, <2>2, <2>4, <2>5 DEF Held
  <2>7. Remembered'
    BY <1>0, <2>3 DEF Remembered
  <2> QED
    BY <2>6, <2>7 DEF BackInv
<1>7. CASE UNCHANGED vars
  BY <1>0, <1>7 DEF vars, history, BackInv, Held, Touched, Past, Remembered
<1> QED
  BY <1>1, <1>2, <1>3, <1>4, <1>5, <1>6, <1>7 DEF Next, Serve

\* What is read of a register whose tag is as a master wrote it.
LEMMA BackOfState == TypeOK /\ Replied /\ Remembered => ReadBack
<1> SUFFICES ASSUME TypeOK, Replied, Remembered, Accepted, ~Writes(reply.req.fn),
                    NEW a \in Begins(reply.req),
                    NEW r, r = reply.req,
                    NEW reg, reg = RegsOf(r)[a],
                    NEW w, w = written[reg.tag], w # None, w.type = TypeOf(r.fn), w.addr = a,
                    NEW back, back = Slice(r, a, reply.data)
             PROVE  LET n == Integer(reg.dt, w.data)
                        got == Integer(reg.dt, back)
                    IN IF reg.factor = 1 THEN got = n
                       ELSE got - n \in {0, IF n > 0 THEN -1 ELSE IF n < 0 THEN 1 ELSE 0}
  BY DEF ReadBack, Slice
<1>1. r \in Requests /\ a \in DOMAIN RegsOf(r)
  BY DEF TypeOK, Accepted, Begins
<1>2. /\ reg.tag \in Tag /\ Exact(reg.dt) /\ reg.factor \in Nat \ {0} /\ Unit % reg.factor = 0
      /\ reg.factor # 1 => Unit >= 2 * reg.factor
      /\ TypeOf(r.fn) \in {"coil", "discrete"} => Count(reg.dt) = 1 /\ ~Signed(reg.dt)
  BY <1>1, ServedType
<1>3. PICK v : v = tags[reg.tag]
  OBVIOUS
<1>4. back \in DataOf(TypeOf(r.fn), reg, v)
  BY <1>3 DEF Replied, Genuine
<1>5. Registers[w.type][w.addr] = reg
  BY DEF RegsOf
<1>6. /\ w.data \in [1..Count(reg.dt) -> Word]
      /\ TypeOf(r.fn) \in {"coil", "discrete"} => w.data[1] \in {0, 1}
      /\ v \in ValueOf(TypeOf(r.fn), reg, w.data)
  BY <1>2, <1>3, <1>5 DEF Remembered
<1>7. CASE TypeOf(r.fn) \in {"coil", "discrete"}
  <2>1. v = w.data[1] * Unit /\ w.data[1] \in {0, 1} /\ Unit \in Nat \ {0}
    BY <1>6, <1>7, RegisterAssumption DEF ValueOf
  <2>2. back = <<IF v = 0 THEN 0 ELSE 1>>
    BY <1>4, <1>7 DEF DataOf
  <2>3. back[1] = w.data[1]
    BY <2>1, <2>2
  <2>4. Integer(reg.dt, back) = back[1] /\ Integer(reg.dt, w.data) = w.data[1]
    BY <1>2, <1>7 DEF Integer, Unsigned
  <2> QED
    BY <2>1, <2>3, <2>4
<1>8. CASE TypeOf(r.fn) \notin {"coil", "discrete"}
  <2>1. v \in Value(reg, w.data) /\ back \in Bytes(reg, v)
    BY <1>4, <1>6, <1>8 DEF ValueOf, DataOf
  <2> QED
    BY <1>2, <1>6, <2>1, WordsComeBack
<1> QED
  BY <1>7, <1>8

\* For words of every size: a master reads back what it wrote as long as no Status has
\* changed the tag, exactly without a scaling, and at most one step closer to zero with
\* one (register.go:73-205, holding.go:11-150, coil.go:13-142).
THEOREM ReadBackCorrect == Disjoint => (Spec => []ReadBack)
<1> SUFFICES ASSUME Disjoint
             PROVE  Spec => []ReadBack
  OBVIOUS
<1> DEFINE Inv == TypeOK /\ WriteInv /\ ReadInv /\ BackInv
<1>1. Init => Inv
  BY TypeInit, WriteInit, ReadInit, BackInit DEF WriteInv, ReadInv
<1>2. Inv /\ [Next]_vars => Inv'
  BY TypeStep, WriteStep, ReadStep, BackStep DEF WriteInv, ReadInv
<1>3. Inv => ReadBack
  BY BackOfState DEF ReadInv, BackInv
<1> QED
  BY <1>1, <1>2, <1>3, PTL DEF Spec
=============================================================================
