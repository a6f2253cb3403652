---------------------------- MODULE PointersProofs ----------------------------
(***************************************************************************)
(* Proofs about what a program computes, for integers of any widths: the    *)
(* numbers are right and ordered.  Proofs about pointers in memory: for any *)
(* objects and any types that a program converts to, what it holds or      *)
(* stores points at what its type says, and nothing const is written.      *)
(***************************************************************************)
EXTENDS Pointers, NaturalsInduction, WellFoundedInduction, TLAPS

-----------------------------------------------------------------------------
(* Arithmetic. *)

LEMMA Bound ==
  ASSUME NEW i \in Int, NEW c \in Int, NEW s \in Nat \ {0}
  PROVE  /\ i < c => i * s <= c * s - s
         /\ i * s < c * s => i < c
         /\ 0 <= i * s => 0 <= i
<1>1. ASSUME i < c PROVE i * s <= c * s - s
  <2>1. PICK d \in Nat : c = i + 1 + d
    <3>1. c - i - 1 \in Nat /\ c = i + 1 + (c - i - 1)
      BY <1>1
    <3> QED BY <3>1
  <2>2. c * s = i * s + s + d * s /\ d * s >= 0
    BY <2>1
  <2> QED BY <2>2
<1>2. ASSUME i * s < c * s PROVE i < c
  <2>1. CASE c <= i
    <3>1. PICK d \in Nat : i = c + d
      <4>1. i - c \in Nat /\ i = c + (i - c)
        BY <2>1
      <4> QED BY <4>1
    <3>2. i * s = c * s + d * s /\ d * s >= 0
      BY <3>1
    <3> QED BY <1>2, <3>2
  <2> QED BY <2>1
<1>3. ASSUME 0 <= i * s PROVE 0 <= i
  <2>1. CASE i < 0
    <3>1. PICK d \in Nat : i = -1 - d
      <4>1. -1 - i \in Nat /\ i = -1 - (-1 - i)
        BY <2>1
      <4> QED BY <4>1
    <3>2. i * s = -s - d * s /\ d * s >= 0
      BY <3>1
    <3> QED BY <1>3, <3>2
  <2> QED BY <2>1
<1> QED BY <1>1, <1>2, <1>3

\* What is cut to some bits differs by a multiple of their power.
LEMMA Cut ==
  ASSUME NEW n \in Int, NEW m \in Int, m > 0
  PROVE  n % m \in 0..(m - 1) /\ \E k \in Int : n % m = n + k * m
<1>1. n = m * (n \div m) + (n % m) /\ n \div m \in Int /\ n % m \in 0..(m - 1)
  OBVIOUS
<1>2. PICK q \in Int : n = m * q + (n % m)
  BY <1>1
<1>3. n % m = n + (-q) * m
  BY <1>1, <1>2
<1> QED BY <1>1, <1>3

-----------------------------------------------------------------------------
(* Numbers modulo m. *)

Congruent(a, b, m) == \E k \in Int : a = b + k * m

LEMMA CongruentSum ==
  ASSUME NEW m \in Int, NEW a \in Int, NEW b \in Int, NEW c \in Int, NEW d \in Int,
         Congruent(a, b, m), Congruent(c, d, m)
  PROVE  Congruent(a + c, b + d, m) /\ Congruent(a - c, b - d, m)
<1>1. PICK k \in Int : a = b + k * m
  BY DEF Congruent
<1>2. PICK l \in Int : c = d + l * m
  BY DEF Congruent
<1>3. a + c = b + d + (k + l) * m /\ k + l \in Int
  BY <1>1, <1>2
<1>4. a - c = b - d + (k - l) * m /\ k - l \in Int
  BY <1>1, <1>2
<1> QED BY <1>3, <1>4 DEF Congruent

LEMMA CongruentProduct ==
  ASSUME NEW m \in Int, NEW a \in Int, NEW b \in Int, NEW c \in Int, NEW d \in Int,
         Congruent(a, b, m), Congruent(c, d, m)
  PROVE  Congruent(a * c, b * d, m)
<1>1. PICK k \in Int : a = b + k * m
  BY DEF Congruent
<1>2. PICK l \in Int : c = d + l * m
  BY DEF Congruent
<1>3. (b + k * m) * (d + l * m) = b * d + (b * l + k * d + k * l * m) * m
  OBVIOUS
<1>4. b * l + k * d + k * l * m \in Int
  OBVIOUS
<1> QED BY <1>1, <1>2, <1>3, <1>4 DEF Congruent

LEMMA CongruentSame ==
  ASSUME NEW m \in Int, NEW a \in Int
  PROVE  Congruent(a, a, m)
<1>1. a = a + 0 * m
  OBVIOUS
<1> QED BY <1>1 DEF Congruent

LEMMA CongruentSwap ==
  ASSUME NEW m \in Int, NEW a \in Int, NEW b \in Int, Congruent(a, b, m)
  PROVE  Congruent(b, a, m)
<1>1. PICK k \in Int : a = b + k * m
  BY DEF Congruent
<1>2. b = a + (-k) * m /\ -k \in Int
  BY <1>1
<1> QED BY <1>2 DEF Congruent

LEMMA CongruentChain ==
  ASSUME NEW m \in Int, NEW a \in Int, NEW b \in Int, NEW c \in Int,
         Congruent(a, b, m), Congruent(b, c, m)
  PROVE  Congruent(a, c, m)
<1>1. PICK k \in Int : a = b + k * m
  BY DEF Congruent
<1>2. PICK l \in Int : b = c + l * m
  BY DEF Congruent
<1>3. a = c + (k + l) * m /\ k + l \in Int
  BY <1>1, <1>2
<1> QED BY <1>3 DEF Congruent

\* What is congruent modulo a multiple is congruent.
LEMMA CongruentDown ==
  ASSUME NEW m \in Int, NEW q \in Int, NEW a \in Int, NEW b \in Int, Congruent(a, b, q * m)
  PROVE  Congruent(a, b, m)
<1>1. PICK k \in Int : a = b + k * (q * m)
  BY DEF Congruent
<1>2. a = b + (k * q) * m /\ k * q \in Int
  BY <1>1
<1> QED BY <1>2 DEF Congruent

\* Two that are congruent are equal when less than m apart.
LEMMA CongruentClose ==
  ASSUME NEW m \in Int, m > 0, NEW a \in Int, NEW b \in Int, Congruent(a, b, m),
         a - b < m, b - a < m
  PROVE  a = b
<1>1. PICK k \in Int : a = b + k * m
  BY DEF Congruent
<1>2. CASE k >= 1
  <2>1. k * m >= m
    BY <1>2
  <2> QED BY <1>1, <2>1
<1>3. CASE k <= -1
  <2>1. k * m <= -m
    BY <1>3
  <2> QED BY <1>1, <2>1
<1>4. CASE k = 0
  BY <1>1, <1>4
<1> QED BY <1>2, <1>3, <1>4

-----------------------------------------------------------------------------
(* Induction.  The library's theorems with a predicate for a parameter are  *)
(* out of the provers' reach; those about sets are not.                     *)

LEMMA LeastNumber ==
  ASSUME NEW S, S \subseteq Nat, S # {}
  PROVE  \E x \in S : \A y \in S : x <= y
<1>1. PICK x \in S : \A y \in S : ~(<<y, x>> \in OpToRel(<, Nat))
  BY NatLessThanWellFounded, WFMin, Zenon
<1>2. ASSUME NEW y \in S PROVE x <= y
  <2>1. ~(<<y, x>> \in OpToRel(<, Nat))
    BY <1>1
  <2>2. ~(y < x)
    BY <2>1 DEF OpToRel
  <2> QED BY <2>2
<1> QED BY <1>2

LEMMA Induction ==
  ASSUME NEW S, 0 \in S, \A n \in Nat : n \in S => n + 1 \in S
  PROVE  Nat \subseteq S
<1> DEFINE Others == Nat \ S
<1> SUFFICES ASSUME Others # {} PROVE FALSE
  OBVIOUS
<1>1. PICK x \in Others : \A y \in Others : x <= y
  <2>1. Others \subseteq Nat
    OBVIOUS
  <2> HIDE DEF Others
  <2> QED BY <2>1, LeastNumber
<1>2. x - 1 \in Nat /\ x - 1 \notin Others
  BY <1>1
<1> QED BY <1>1, <1>2

-----------------------------------------------------------------------------
(* Powers of two. *)

\* A function that doubles from 1 on, up to m.
Doubles(f, m) == f = [n \in 0..m |-> IF n = 0 THEN 1 ELSE 2 * f[n - 1]]

LEMMA DoublesExist ==
  ASSUME NEW w \in Nat
  PROVE  \E f : Doubles(f, w)
<1> DEFINE S == {m \in Nat : \E f : Doubles(f, m)}
<1>1. 0 \in S
  <2>1. Doubles([n \in 0..0 |-> 1], 0)
    BY DEF Doubles
  <2> QED BY <2>1
<1>2. ASSUME NEW m \in Nat, m \in S PROVE m + 1 \in S
  <2>1. PICK f : Doubles(f, m)
    BY <1>2
  <2> DEFINE g == [n \in 0..(m + 1) |-> IF n <= m THEN f[n] ELSE 2 * f[n - 1]]
  <2>2. ASSUME NEW n \in 0..(m + 1)
        PROVE  g[n] = IF n = 0 THEN 1 ELSE 2 * g[n - 1]
    <3>1. CASE n = 0
      BY <2>1, <3>1 DEF Doubles
    <3>2. CASE n # 0
      <4>1. n - 1 \in 0..m /\ g[n - 1] = f[n - 1]
        BY <3>2
      <4>2. CASE n = m + 1
        BY <3>2, <4>1, <4>2
      <4>3. CASE n # m + 1
        <5>1. n \in 0..m /\ g[n] = f[n]
          BY <4>3
        <5>2. f[n] = 2 * f[n - 1]
          BY <2>1, <3>2, <5>1 DEF Doubles
        <5> QED BY <3>2, <4>1, <5>1, <5>2
      <4> QED BY <4>2, <4>3
    <3> QED BY <3>1, <3>2
  <2>3. Doubles(g, m + 1)
    BY <2>2 DEF Doubles
  <2> QED BY <2>3
<1> HIDE DEF S
<1>3. Nat \subseteq S
  BY <1>1, <1>2, Induction
<1>4. w \in S
  BY <1>3
<1> QED BY <1>4 DEF S

LEMMA Pow2Defined == Pow2 = [n \in 0..Width |-> IF n = 0 THEN 1 ELSE 2 * Pow2[n - 1]]
<1>1. Width \in Nat
  BY OperatorsAssumption
<1>2. \E f : Doubles(f, Width)
  BY <1>1, DoublesExist
<1>3. Pow2 = CHOOSE f : Doubles(f, Width)
  BY DEF Pow2, Doubles
<1>4. Doubles(Pow2, Width)
  BY <1>2, <1>3
<1> QED BY <1>4 DEF Doubles

LEMMA Pow2Steps ==
  /\ Pow2[0] = 1
  /\ \A n \in Nat : n + 1 <= Width => Pow2[n + 1] = 2 * Pow2[n]
<1>1. Width \in Nat
  BY OperatorsAssumption
<1>2. Pow2[0] = 1
  <2>1. 0 \in 0..Width
    BY <1>1
  <2> QED BY <2>1, Pow2Defined
<1>3. ASSUME NEW n \in Nat, n + 1 <= Width PROVE Pow2[n + 1] = 2 * Pow2[n]
  <2>1. n + 1 \in 0..Width /\ n + 1 # 0 /\ (n + 1) - 1 = n
    BY <1>1, <1>3
  <2>2. Pow2[n + 1] = IF n + 1 = 0 THEN 1 ELSE 2 * Pow2[(n + 1) - 1]
    BY <2>1, Pow2Defined
  <2> QED BY <2>1, <2>2
<1> QED BY <1>2, <1>3

LEMMA Pow2Positive == \A n \in 0..Width : Pow2[n] \in Nat \ {0}
<1> DEFINE S == {n \in Nat : n <= Width => Pow2[n] \in Nat \ {0}}
<1>w. Width \in Nat
  BY OperatorsAssumption
<1>1. 0 \in S
  BY Pow2Steps
<1>2. ASSUME NEW n \in Nat, n \in S PROVE n + 1 \in S
  <2> SUFFICES ASSUME n + 1 <= Width PROVE Pow2[n + 1] \in Nat \ {0}
    OBVIOUS
  <2>1. Pow2[n + 1] = 2 * Pow2[n]
    BY Pow2Steps
  <2>2. Pow2[n] \in Nat \ {0}
    BY <1>2, <1>w
  <2> QED BY <2>1, <2>2
<1> HIDE DEF S
<1>3. Nat \subseteq S
  BY <1>1, <1>2, Induction
<1> QED BY <1>3, <1>w DEF S

\* Powers multiply, so that each divides the largest.
LEMMA Pow2Sum ==
  ASSUME NEW k \in Nat
  PROVE  \A n \in Nat : n + k <= Width => Pow2[n + k] = Pow2[n] * Pow2[k]
<1> DEFINE S == {n \in Nat : n + k <= Width => Pow2[n + k] = Pow2[n] * Pow2[k]}
<1>w. Width \in Nat
  BY OperatorsAssumption
<1>1. 0 \in S
  <2> SUFFICES ASSUME k <= Width PROVE Pow2[0 + k] = Pow2[0] * Pow2[k]
    OBVIOUS
  <2>1. Pow2[k] \in Nat /\ Pow2[0] = 1 /\ 0 + k = k
    BY Pow2Positive, Pow2Steps, <1>w
  <2> QED BY <2>1
<1>2. ASSUME NEW n \in Nat, n \in S PROVE n + 1 \in S
  <2> SUFFICES ASSUME (n + 1) + k <= Width PROVE Pow2[(n + 1) + k] = Pow2[n + 1] * Pow2[k]
    OBVIOUS
  <2>1. n + k \in Nat /\ (n + 1) + k = (n + k) + 1 /\ n + k <= Width /\ n + 1 <= Width
    BY <1>w
  <2>2. Pow2[(n + k) + 1] = 2 * Pow2[n + k] /\ Pow2[n + 1] = 2 * Pow2[n]
    BY <2>1, <1>w, Pow2Steps
  <2>3. Pow2[n + k] = Pow2[n] * Pow2[k]
    BY <1>2, <2>1
  <2>4. n \in 0..Width /\ k \in 0..Width
    BY <2>1, <1>w
  <2>5. PICK x \in Nat, y \in Nat : x = Pow2[n] /\ y = Pow2[k]
    BY <2>4, Pow2Positive
  <2> QED BY <2>1, <2>2, <2>3, <2>5
<1> HIDE DEF S
<1>3. Nat \subseteq S
  BY <1>1, <1>2, Induction
<1> QED BY <1>3 DEF S

LEMMA PowersOfTwo ==
  ASSUME NEW n \in 1..Width
  PROVE  /\ Pow2[n - 1] \in Nat \ {0} /\ Pow2[n] = 2 * Pow2[n - 1]
         /\ Pow2[Width - n] \in Nat \ {0} /\ Pow2[Width] = Pow2[Width - n] * Pow2[n]
<1>0. Width \in Nat
  BY OperatorsAssumption
<1>1. Width \in Nat /\ n \in Nat
  BY <1>0
<1>2. /\ n - 1 \in Nat /\ n - 1 \in 0..Width /\ (n - 1) + 1 = n /\ n <= Width
      /\ Width - n \in Nat /\ Width - n \in 0..Width /\ (Width - n) + n = Width /\ Width <= Width
  BY <1>1
<1>3. Pow2[n - 1] \in Nat \ {0} /\ Pow2[Width - n] \in Nat \ {0}
  BY <1>2, Pow2Positive
<1>4. Pow2[n] = 2 * Pow2[n - 1]
  BY <1>2, Pow2Steps
<1>5. Pow2[Width] = Pow2[Width - n] * Pow2[n]
  BY <1>1, <1>2, Pow2Sum
<1> QED BY <1>3, <1>4, <1>5

-----------------------------------------------------------------------------
(* Widths. *)

LEMMA WidthFacts ==
  /\ Width \in Nat \ {0} /\ Width \in 1..Width
  /\ \A type \in DOMAIN Bits : Bits[type] \in 1..Width
  /\ \A n \in 1..Width :
       /\ Pow2[n] \in Nat \ {0} /\ Pow2[n - 1] \in Nat \ {0} /\ Pow2[n] = 2 * Pow2[n - 1]
       /\ Pow2[Width - n] \in Int /\ Pow2[Width] = Pow2[Width - n] * Pow2[n]
<1>0. Width \in Nat \ {0}
  BY OperatorsAssumption
<1>1. Width \in Nat \ {0} /\ Width \in 1..Width
  BY <1>0
<1>2. ASSUME NEW type \in DOMAIN Bits PROVE Bits[type] \in 1..Width
  <2>1. CASE type \in {"int64", "intptr"}
    <3>1. Bits[type] = Width
      BY <2>1, OperatorsAssumption DEF Width
    <3> QED BY <1>1, <3>1
  <2>2. CASE type \notin {"int64", "intptr"}
    <3>1. Bits[type] \in 1..(Width - 1)
      BY <2>2, OperatorsAssumption
    <3> QED BY <1>0, <3>1
  <2> QED BY <2>1, <2>2
<1>3. ASSUME NEW n \in 1..Width
      PROVE  /\ Pow2[n] \in Nat \ {0} /\ Pow2[n - 1] \in Nat \ {0} /\ Pow2[n] = 2 * Pow2[n - 1]
             /\ Pow2[Width - n] \in Int /\ Pow2[Width] = Pow2[Width - n] * Pow2[n]
  <2>1. /\ Pow2[n - 1] \in Nat \ {0} /\ Pow2[n] = 2 * Pow2[n - 1]
        /\ Pow2[Width - n] \in Nat \ {0} /\ Pow2[Width] = Pow2[Width - n] * Pow2[n]
    BY PowersOfTwo
  <2>2. Pow2[n] \in Nat \ {0}
    BY <2>1
  <2> QED BY <2>1, <2>2
<1> QED BY <1>1, <1>2, <1>3

\* The powers of two at widths that are compared.
LEMMA HalfFacts ==
  ASSUME NEW b \in 1..(Width - 1)
  PROVE  Pow2[b] <= Pow2[Width - 1]
<1>1. Width - b \in 1..Width /\ b \in 1..Width /\ Width \in Nat
  BY WidthFacts
<1>2. Pow2[Width - b] = 2 * Pow2[(Width - b) - 1] /\ Pow2[(Width - b) - 1] \in Nat \ {0}
  BY <1>1, WidthFacts
<1>3. Pow2[Width] = Pow2[Width - b] * Pow2[b] /\ Pow2[b] \in Nat \ {0}
  BY <1>1, WidthFacts
<1>4. Pow2[Width] = 2 * Pow2[Width - 1] /\ Pow2[Width - 1] \in Nat \ {0}
  BY WidthFacts
<1>5. PICK x \in Nat \ {0}, y \in Nat \ {0}, z \in Nat \ {0} :
        x = Pow2[(Width - b) - 1] /\ y = Pow2[b] /\ z = Pow2[Width - 1]
  BY <1>2, <1>3, <1>4
<1>6. 2 * z = 2 * x * y
  BY <1>2, <1>3, <1>4, <1>5
<1>7. z = x * y /\ x * y >= y
  BY <1>6
<1> QED BY <1>5, <1>7

LEMMA CutFacts ==
  ASSUME NEW n \in Int, NEW b \in 1..Width
  PROVE  /\ Unsigned(n, b) \in Int /\ Unsigned(n, b) >= 0 /\ Unsigned(n, b) < Pow2[b]
         /\ Congruent(Unsigned(n, b), n, Pow2[b])
         /\ Signed(n, b) \in Int /\ Signed(n, b) >= -Pow2[b - 1] /\ Signed(n, b) < Pow2[b - 1]
         /\ Congruent(Signed(n, b), n, Pow2[b])
<1>1. /\ Pow2[b] \in Nat \ {0} /\ Pow2[b - 1] \in Nat \ {0} /\ Pow2[b] = 2 * Pow2[b - 1]
  BY WidthFacts
<1>2. PICK m \in Nat \ {0}, h \in Nat \ {0} : m = Pow2[b] /\ h = Pow2[b - 1] /\ m = 2 * h
  BY <1>1
<1>3. n % m \in 0..(m - 1) /\ \E k \in Int : n % m = n + k * m
  <2>1. m \in Int /\ m > 0
    OBVIOUS
  <2> QED BY ONLY n \in Int, <2>1, Cut
<1>4. PICK k \in Int : n % m = n + k * m
  BY <1>3
<1>5. Unsigned(n, b) = n % m
  BY <1>2 DEF Unsigned
<1>6. Signed(n, b) = IF n % m >= h THEN (n % m) - m ELSE n % m
  BY <1>2 DEF Signed, Unsigned
<1>7. (n % m) - m = n + (k - 1) * m /\ k - 1 \in Int
  BY <1>4
<1>8. Congruent(n % m, n, m) /\ Congruent((n % m) - m, n, m)
  BY <1>4, <1>7 DEF Congruent
<1>9. Signed(n, b) \in Int /\ Signed(n, b) >= -h /\ Signed(n, b) < h
  BY <1>2, <1>3, <1>6
<1>10. Congruent(Signed(n, b), n, m)
  BY <1>6, <1>8
<1> QED BY <1>2, <1>3, <1>5, <1>8, <1>9, <1>10

LEMMA WrapFacts ==
  ASSUME NEW n \in Int
  PROVE  /\ Wrap(n) \in Int /\ Congruent(Wrap(n), n, Pow2[Width])
         /\ Wrap(n) >= -Pow2[Width - 1] /\ Wrap(n) < Pow2[Width - 1]
         /\ Unsigned(n, Width) \in 0..(Pow2[Width] - 1)
         /\ Congruent(Unsigned(n, Width), n, Pow2[Width])
         /\ Pow2[Width] \in Nat \ {0} /\ Pow2[Width - 1] \in Nat \ {0} /\ Pow2[Width] = 2 * Pow2[Width - 1]
<1>1. /\ Pow2[Width] \in Nat \ {0} /\ Pow2[Width - 1] \in Nat \ {0} /\ Pow2[Width] = 2 * Pow2[Width - 1]
      /\ Width \in 1..Width
  BY WidthFacts
<1>2. /\ Unsigned(n, Width) \in Int /\ Unsigned(n, Width) >= 0 /\ Unsigned(n, Width) < Pow2[Width]
      /\ Congruent(Unsigned(n, Width), n, Pow2[Width])
      /\ Signed(n, Width) \in Int /\ Congruent(Signed(n, Width), n, Pow2[Width])
      /\ Signed(n, Width) >= -Pow2[Width - 1] /\ Signed(n, Width) < Pow2[Width - 1]
  BY <1>1, CutFacts
<1> QED BY <1>1, <1>2 DEF Wrap

LEMMA Wrapped ==
  ASSUME NEW n \in Int
  PROVE  Wrap(n) \in Int /\ \E k \in Int : Wrap(n) = n + k * Pow2[Width]
BY WrapFacts DEF Congruent

\* A number in the range of int64_t is what it is congruent to there.
LEMMA Settled ==
  ASSUME NEW n \in Int, n >= -Pow2[Width - 1], n < Pow2[Width - 1],
         NEW x \in Int, Congruent(x, n, Pow2[Width])
  PROVE  Wrap(x) = n /\ Wrap(n) = n
<1>1. PICK m \in Nat \ {0}, h \in Nat \ {0} :
        m = Pow2[Width] /\ h = Pow2[Width - 1] /\ m = 2 * h
  BY WidthFacts
<1>2. \A y \in Int : Congruent(y, n, m) => Wrap(y) = n
  <2> SUFFICES ASSUME NEW y \in Int, Congruent(y, n, m) PROVE Wrap(y) = n
    OBVIOUS
  <2>1. Wrap(y) \in Int /\ Congruent(Wrap(y), y, m) /\ Wrap(y) >= -h /\ Wrap(y) < h
    BY <1>1, WrapFacts
  <2>2. Congruent(Wrap(y), n, m)
    BY <2>1, CongruentChain
  <2>3. Wrap(y) - n < m /\ n - Wrap(y) < m
    BY <1>1, <2>1
  <2>4. m \in Int /\ m > 0 /\ Wrap(y) \in Int /\ n \in Int
    BY <1>1, <2>1
  <2> QED BY <2>2, <2>3, <2>4, CongruentClose
<1>3. Congruent(n, n, m)
  BY CongruentSame
<1> QED BY <1>1, <1>2, <1>3

LEMMA UnsignedSame ==
  ASSUME NEW a \in Int, NEW b \in Int
  PROVE  Unsigned(a, Width) = Unsigned(b, Width) <=> Congruent(a, b, Pow2[Width])
<1>1. PICK m \in Nat \ {0} : m = Pow2[Width]
  BY WidthFacts
<1>2. PICK x \in 0..(m - 1), y \in 0..(m - 1) :
        x = Unsigned(a, Width) /\ y = Unsigned(b, Width)
  BY <1>1, WrapFacts
<1>3. Congruent(x, a, m) /\ Congruent(y, b, m)
  BY <1>1, <1>2, WrapFacts
<1>4. m \in Int /\ x \in Int /\ y \in Int /\ m > 0
  BY <1>1
<1>5. Congruent(a, x, m) /\ Congruent(b, y, m)
  BY <1>3, <1>4, CongruentSwap
<1>6. ASSUME x = y PROVE Congruent(a, b, m)
  BY <1>3, <1>4, <1>5, <1>6, CongruentChain
<1>7. ASSUME Congruent(a, b, m) PROVE x = y
  <2>1. Congruent(x, b, m)
    BY <1>3, <1>4, <1>7, CongruentChain
  <2>2. Congruent(x, y, m)
    BY <1>4, <1>5, <2>1, CongruentChain
  <2>3. x - y < m /\ y - x < m
    BY <1>1
  <2> QED BY <1>4, <2>2, <2>3, CongruentClose
<1> QED BY <1>1, <1>2, <1>6, <1>7

-----------------------------------------------------------------------------
(* Operands. *)

LEMMA OperandType ==
  ASSUME NEW v \in Operands
  PROVE  /\ v.val \in Int /\ v.ct \in OperandTypes
         /\ v.ct.unsigned \in BOOLEAN /\ v.ct.pointers \in Nat /\ v.ct.size \in Nat
         /\ v.ct.type = "number" => v.ct.pointers = 0 /\ v.ct.unsigned = FALSE
         /\ v.ct.type \in DOMAIN Bits =>
              v.ct.type # "number" /\ v.ct.type # "function pointer"
<1>1. v.val \in Int /\ v.ct \in OperandTypes
  BY DEF Operands
<1>2. /\ v.ct.unsigned \in BOOLEAN /\ v.ct.pointers \in Nat /\ v.ct.size \in Nat
      /\ v.ct.type = "number" => v.ct = Number
  BY <1>1 DEF OperandTypes
<1>3. Number.pointers = 0 /\ Number.unsigned = FALSE
  BY DEF Number, Ctype
<1>4. v.ct.type \in DOMAIN Bits =>
        v.ct.type # "number" /\ v.ct.type # "function pointer"
  BY OperatorsAssumption
<1> QED BY <1>1, <1>2, <1>3, <1>4

\* An integer type of at most Width bits, of Width if it is a wide one.
LEMMA BitsFacts ==
  ASSUME NEW type \in DOMAIN Bits
  PROVE  /\ Bits[type] \in 1..Width
         /\ type \in {"int64", "intptr"} => Bits[type] = Width
         /\ type \notin {"int64", "intptr"} => Bits[type] \in 1..(Width - 1)
         /\ Pow2[Bits[type] - 1] <= Pow2[Width - 1]
<1>1. /\ Bits[type] \in 1..Width
      /\ type \in {"int64", "intptr"} => Bits[type] = Width
      /\ type \notin {"int64", "intptr"} => Bits[type] \in 1..(Width - 1)
  <2>1. type \in {"int64", "intptr"} => Bits[type] = Width
    BY OperatorsAssumption DEF Width
  <2>2. type \notin {"int64", "intptr"} => Bits[type] \in 1..(Width - 1)
    BY OperatorsAssumption
  <2> QED BY <2>1, <2>2, WidthFacts
<1>2. ASSUME Bits[type] \in 1..(Width - 1)
      PROVE  Pow2[Bits[type] - 1] <= Pow2[Width - 1]
  <2>1. Pow2[Bits[type]] <= Pow2[Width - 1]
    BY <1>2, HalfFacts
  <2>2. Pow2[Bits[type]] = 2 * Pow2[Bits[type] - 1] /\ Pow2[Bits[type] - 1] \in Nat \ {0}
    BY <1>1, WidthFacts
  <2>3. Pow2[Width - 1] \in Nat
    BY WidthFacts
  <2> QED BY <2>1, <2>2, <2>3
<1>3. ASSUME Bits[type] = Width PROVE Pow2[Bits[type] - 1] <= Pow2[Width - 1]
  BY <1>3, WidthFacts
<1> QED BY <1>1, <1>2, <1>3

\* check_intptr gives an int64_t, which is the number that is meant modulo 2^64;
\* what is an address or unsigned is not negative.
LEMMA OperandFacts ==
  ASSUME NEW v \in Operands
  PROVE  /\ CheckIntptr(v) \in Int /\ Denoted(v) \in Int
         /\ CheckIntptr(v) >= -Pow2[Width - 1] /\ CheckIntptr(v) < Pow2[Width - 1]
         /\ Congruent(Denoted(v), CheckIntptr(v), Pow2[Width])
         /\ IsAddress(v.ct) \/ (v.ct.unsigned /\ Computable(v)) =>
              Denoted(v) >= 0 /\ Denoted(v) < Pow2[Width]
<1>1. PICK m \in Nat \ {0}, h \in Nat \ {0} :
        m = Pow2[Width] /\ h = Pow2[Width - 1] /\ m = 2 * h
  BY WidthFacts
<1>2. PICK val \in Int : val = v.val
  BY OperandType
<1> DEFINE u == Unsigned(val, Width)
<1>3. /\ Wrap(val) \in Int /\ Wrap(val) >= -h /\ Wrap(val) < h
      /\ u \in Int /\ 0 <= u /\ u < m
      /\ Congruent(u, val, m) /\ Congruent(Wrap(val), val, m)
  BY <1>1, WrapFacts
<1>4. Congruent(u, Wrap(val), m)
  <2>1. Congruent(val, Wrap(val), m)
    BY <1>1, <1>3, CongruentSwap
  <2> QED BY <1>1, <1>3, <2>1, CongruentChain
<1>5. CASE v.ct.pointers > 0 \/ v.ct.type \notin DOMAIN Bits
  <2>1. CheckIntptr(v) = Wrap(val)
    BY <1>2, <1>5 DEF CheckIntptr
  <2>2. Denoted(v) = u \/ Denoted(v) = Wrap(val)
    BY <1>2, <2>1 DEF Denoted
  <2>3. Congruent(Wrap(val), Wrap(val), m)
    BY <1>1, <1>3, CongruentSame
  <2>4. ASSUME IsAddress(v.ct) \/ (v.ct.unsigned /\ Computable(v))
        PROVE  Denoted(v) = u
    <3>1. CASE IsAddress(v.ct)
      BY <1>2, <3>1 DEF Denoted
    <3>2. CASE ~IsAddress(v.ct) /\ v.ct.unsigned /\ Computable(v)
      <4>1. v.ct.type = "number"
        BY <1>5, <3>2 DEF Computable, IsAddress
      <4> QED BY <3>2, <4>1, OperandType
    <3> QED BY <2>4, <3>1, <3>2
  <2> HIDE DEF u
  <2> QED BY <1>1, <1>3, <1>4, <2>1, <2>2, <2>3, <2>4
<1>6. CASE ~(v.ct.pointers > 0) /\ v.ct.type \in DOMAIN Bits
  <2>1. ~IsAddress(v.ct)
    BY <1>6, OperandType DEF IsAddress
  <2>2. PICK b \in 1..Width : b = Bits[v.ct.type]
    BY <1>6, BitsFacts
  <2>3. CASE ~v.ct.unsigned
    <3>1. CheckIntptr(v) = Signed(val, b) /\ Denoted(v) = CheckIntptr(v)
      BY <1>2, <1>6, <2>1, <2>2, <2>3 DEF CheckIntptr, Denoted
    <3>2. /\ Signed(val, b) \in Int /\ Signed(val, b) >= -Pow2[b - 1]
          /\ Signed(val, b) < Pow2[b - 1]
      BY CutFacts
    <3>3. Pow2[b - 1] <= h /\ Pow2[b - 1] \in Int
      BY <1>1, <1>6, <2>2, BitsFacts, WidthFacts
    <3>4. Signed(val, b) >= -h /\ Signed(val, b) < h
      BY <3>2, <3>3
    <3>5. Congruent(Signed(val, b), Signed(val, b), m)
      BY <1>1, <3>2, CongruentSame
    <3> QED BY <1>1, <2>1, <2>3, <3>1, <3>2, <3>4, <3>5
  <2>4. CASE v.ct.unsigned /\ b = Width
    <3>1. CheckIntptr(v) = Wrap(u)
      BY <1>2, <1>6, <2>2, <2>4 DEF CheckIntptr
    <3>2. v.ct.type \in {"int64", "intptr"}
      <4>1. Width \notin 1..(Width - 1)
        BY WidthFacts
      <4> QED BY <1>6, <2>2, <2>4, <4>1, BitsFacts
    <3>3. Denoted(v) = u
      BY <1>2, <2>4, <3>2 DEF Denoted, Wide
    <3> HIDE DEF u
    <3>4. /\ Wrap(u) \in Int /\ Wrap(u) >= -h /\ Wrap(u) < h /\ Congruent(Wrap(u), u, m)
      BY <1>1, <1>3, WrapFacts
    <3>5. Congruent(u, Wrap(u), m)
      BY <1>1, <1>3, <3>4, CongruentSwap
    <3> QED BY <1>1, <1>3, <3>1, <3>3, <3>4, <3>5
  <2>5. CASE v.ct.unsigned /\ b # Width
    <3> DEFINE w == Unsigned(val, b)
    <3>1. CheckIntptr(v) = Wrap(w)
      BY <1>2, <1>6, <2>2, <2>5 DEF CheckIntptr
    <3>2. w \in Int /\ w >= 0 /\ w < Pow2[b]
      BY CutFacts
    <3>3. b \in 1..(Width - 1)
      BY <2>2, <2>5, WidthFacts
    <3>4. Pow2[b] <= h /\ Pow2[b] \in Int
      BY <1>1, <2>2, <3>3, HalfFacts, WidthFacts
    <3> HIDE DEF w
    <3>5. w < h /\ w >= -h
      BY <3>2, <3>4
    <3>6. Congruent(w, w, m)
      BY <1>1, <3>2, CongruentSame
    <3>7. Wrap(w) = w
      BY <1>1, <3>2, <3>5, <3>6, Settled
    <3>8. v.ct.type \notin {"int64", "intptr"} /\ v.ct.type # "number"
      BY <1>6, <2>2, <2>5, BitsFacts, OperandType
    <3>9. Denoted(v) = CheckIntptr(v)
      BY <2>1, <3>8 DEF Denoted, Wide
    <3> QED BY <1>1, <3>1, <3>2, <3>5, <3>6, <3>7, <3>9
  <2> QED BY <2>3, <2>4, <2>5, OperandType
<1> QED BY <1>5, <1>6, OperandType

\* What is read back from a cdata that a number was written in, if it fits.
LEMMA Stored ==
  ASSUME NEW ct \in OperandTypes, ~IsAddress(ct),
         ct.type \in DOMAIN Bits \/ ct.type = "number",
         NEW n \in Int, Fits(ct, n), NEW x \in Int, Congruent(x, n, Pow2[Width])
  PROVE  /\ Value(ct, Wrap(x)) \in Operands
         /\ Congruent(Denoted(Value(ct, Wrap(x))), n, Pow2[Width])
<1>1. PICK m \in Nat \ {0} : m = Pow2[Width]
  BY WidthFacts
<1>2. PICK y \in Int : y = Wrap(x) /\ Congruent(y, n, m)
  <2>1. Wrap(x) \in Int /\ Congruent(Wrap(x), x, m)
    BY <1>1, WrapFacts
  <2> QED BY <1>1, <2>1, CongruentChain
<1> DEFINE v == Value(ct, y)
<1>3. v.ct = ct /\ v.val = y /\ v \in Operands
  BY DEF Value, Operands
<1>4. ~(ct.pointers > 0)
  BY DEF IsAddress
<1>5. CASE Wide(ct)
  <2>1. /\ Unsigned(y, Width) \in Int /\ Congruent(Unsigned(y, Width), y, m)
        /\ Wrap(y) \in Int /\ Congruent(Wrap(y), y, m)
    BY <1>1, WrapFacts
  <2>2. CASE ct.unsigned
    <3>1. Denoted(v) = Unsigned(y, Width)
      BY <1>3, <1>5, <2>2 DEF Denoted
    <3> QED BY <1>1, <1>2, <1>3, <2>1, <3>1, CongruentChain
  <2>3. CASE ~ct.unsigned
    <3>1. Denoted(v) = CheckIntptr(v)
      BY <1>3, <2>3 DEF Denoted
    <3>2. CheckIntptr(v) = Wrap(y)
      <4>1. CASE ct.type \in DOMAIN Bits
        <5>1. ct.type \in {"int64", "intptr"}
          BY <1>5, <4>1, OperatorsAssumption DEF Wide
        <5>2. Bits[ct.type] = Width
          BY <4>1, <5>1, BitsFacts
        <5> QED BY <1>3, <1>4, <2>3, <4>1, <5>2 DEF CheckIntptr, Wrap
      <4>2. CASE ct.type \notin DOMAIN Bits
        BY <1>3, <4>2 DEF CheckIntptr
      <4> QED BY <4>1, <4>2
    <3> QED BY <1>1, <1>2, <1>3, <2>1, <3>1, <3>2, CongruentChain
  <2> QED BY <2>2, <2>3
<1>6. CASE ~Wide(ct)
  <2>1. ct.type \in DOMAIN Bits /\ ct.type \notin {"int64", "intptr", "number"}
    BY <1>6 DEF Wide
  <2>2. PICK b \in 1..(Width - 1) : b = Bits[ct.type]
    BY <2>1, BitsFacts
  <2>3. b \in 1..Width
    BY <2>2, WidthFacts
  <2>4. /\ Pow2[b] \in Nat \ {0} /\ Pow2[b - 1] \in Nat \ {0} /\ Pow2[b] = 2 * Pow2[b - 1]
        /\ Pow2[Width - b] \in Int /\ Pow2[Width] = Pow2[Width - b] * Pow2[b]
    BY <2>3, WidthFacts
  <2>5. PICK p \in Nat \ {0}, h \in Nat \ {0}, q \in Int :
          p = Pow2[b] /\ h = Pow2[b - 1] /\ p = 2 * h /\ m = q * p
    BY <1>1, <2>4
  <2>6. Congruent(y, n, p)
    <3>1. Congruent(y, n, q * p)
      BY <1>2, <2>5
    <3>2. p \in Int
      BY <2>5
    <3> QED BY <3>1, <3>2, CongruentDown
  <2>7. Denoted(v) = CheckIntptr(v)
    BY <1>3, <1>6 DEF Denoted
  <2>8. Congruent(Wrap(n), n, m) /\ Congruent(n, n, m) /\ p \in Int /\ p > 0
    BY <1>1, <2>5, WrapFacts, CongruentSame
  <2>9. CASE ct.unsigned
    <3> DEFINE w == Unsigned(y, b)
    <3>1. CheckIntptr(v) = Wrap(w)
      BY <1>3, <1>4, <2>1, <2>2, <2>9 DEF CheckIntptr
    <3>2. n = Unsigned(n, b)
      BY <1>6, <2>2, <2>9 DEF Fits
    <3>3. n >= 0 /\ n < p
      BY <2>3, <2>5, <3>2, CutFacts
    <3>4. w \in Int /\ w >= 0 /\ w < p /\ Congruent(w, y, p)
      BY <2>3, <2>5, CutFacts
    <3> HIDE DEF w
    <3>5. Congruent(w, n, p)
      BY <2>6, <2>8, <3>4, CongruentChain
    <3>6. w - n < p /\ n - w < p
      BY <2>5, <3>3, <3>4
    <3>7. w = n
      BY <2>8, <3>4, <3>5, <3>6, CongruentClose
    <3> QED BY <1>1, <1>2, <1>3, <2>7, <2>8, <3>1, <3>7
  <2>10. CASE ~ct.unsigned
    <3> DEFINE w == Signed(y, b)
    <3>1. CheckIntptr(v) = w
      BY <1>3, <1>4, <2>1, <2>2, <2>10 DEF CheckIntptr
    <3>2. n = Signed(n, b)
      BY <1>6, <2>2, <2>10 DEF Fits
    <3>3. n >= -h /\ n < h
      BY <2>3, <2>5, <3>2, CutFacts
    <3>4. w \in Int /\ w >= -h /\ w < h /\ Congruent(w, y, p)
      BY <2>3, <2>5, CutFacts
    <3> HIDE DEF w
    <3>5. Congruent(w, n, p)
      BY <2>6, <2>8, <3>4, CongruentChain
    <3>6. w - n < p /\ n - w < p
      BY <2>5, <3>3, <3>4
    <3>7. w = n
      BY <2>8, <3>4, <3>5, <3>6, CongruentClose
    <3> QED BY <1>1, <1>2, <1>3, <2>7, <2>8, <3>1, <3>7
  <2> QED BY <2>9, <2>10
<1> QED BY <1>5, <1>6

\* The type of a result of which Keeps says that the number fits.
LEMMA ResultFits ==
  ASSUME NEW l \in Operands, NEW r \in Operands, NEW n,
         ~IsAddress(l.ct), ~IsAddress(r.ct),
         \/ r.ct.type \in {"int64", "intptr"}
         \/ l.ct.type = "intptr" \/ (l.ct.type = "int64" /\ l.ct.unsigned)
         \/ Fits(l.ct, n) /\ Fits(r.ct, n)
  PROVE  Result(l, r) \in {l.ct, r.ct} /\ Fits(Result(l, r), n)
<1>1. Result(l, r) \in {l.ct, r.ct}
  BY DEF Result
<1>2. ~(l.ct.pointers > 0) /\ ~(r.ct.pointers > 0)
  BY DEF IsAddress
<1>3. ASSUME NEW ct, ~(ct.pointers > 0)
      PROVE  /\ Rank(ct) \in {0, 2, 3, 4}
             /\ Rank(ct) \in {3, 4} => Wide(ct)
             /\ ct.type \in {"int64", "intptr"} => Rank(ct) \in {2, 3, 4}
             /\ ct.type = "intptr" \/ (ct.type = "int64" /\ ct.unsigned) =>
                  Rank(ct) \in {3, 4}
  BY <1>3 DEF Rank, Wide
<1>4. CASE r.ct.type \in {"int64", "intptr"}
  <2>1. Wide(r.ct) /\ Rank(r.ct) \in {2, 3, 4} /\ Rank(l.ct) \in {0, 2, 3, 4}
    BY <1>2, <1>3, <1>4 DEF Wide
  <2>2. Rank(l.ct) > Rank(r.ct) => Wide(l.ct)
    BY <1>2, <1>3, <2>1
  <2> QED BY <1>1, <2>1, <2>2 DEF Result, Fits
<1>5. CASE l.ct.type = "intptr" \/ (l.ct.type = "int64" /\ l.ct.unsigned)
  <2>1. Wide(l.ct) /\ Rank(l.ct) \in {3, 4} /\ Rank(r.ct) \in {0, 2, 3, 4}
    BY <1>2, <1>3, <1>5 DEF Wide
  <2>2. ~(Rank(l.ct) > Rank(r.ct)) => Wide(r.ct)
    BY <1>2, <1>3, <2>1
  <2> QED BY <1>1, <2>1, <2>2 DEF Result, Fits
<1>6. CASE Fits(l.ct, n) /\ Fits(r.ct, n)
  BY <1>1, <1>6
<1> QED BY <1>1, <1>4, <1>5, <1>6

-----------------------------------------------------------------------------
(* Operations. *)

LEMMA QuotientType ==
  ASSUME NEW a \in Int, NEW b \in Int, b # 0
  PROVE  Quotient(a, b) \in Int
<1>1. Abs(a) \in Int /\ Abs(b) \in Int /\ Abs(b) > 0
  BY DEF Abs
<1>2. Abs(a) \div Abs(b) \in Int
  BY <1>1
<1> QED BY <1>2 DEF Quotient

LEMMA PowerFacts ==
  ASSUME NEW a \in Int, NEW b \in Int, Power(a, b).st = "ok"
  PROVE  Power(a, b).value \in Int /\ Power(a, b).value = Exactly("^", a, b)
<1>1. CASE b >= 0
  <2>1. Power(a, b) = Ok(ToThe(a, b))
    BY <1>1 DEF Power, Stopped
  <2>2. Power(a, b).value = ToThe(a, b) /\ ToThe(a, b) = Exactly("^", a, b)
    BY <1>1, <2>1 DEF Ok, Exactly
  <2>3. ToThe(a, b) \in Int
    <3>1. CASE a = 0
      BY <3>1 DEF ToThe
    <3>2. CASE a # 0
      <4>1. b \in Nat
        BY <1>1
      <4>2. a^b \in Int
        BY <3>2, <4>1
      <4> QED BY <3>2, <4>2 DEF ToThe
    <3> QED BY <3>1, <3>2
  <2> QED BY <2>2, <2>3
<1>2. CASE ~(b >= 0)
  <2>1. Power(a, b) = Ok(IF Abs(a) = 1 THEN a^(-b) ELSE 0)
    BY <1>2 DEF Power, Stopped
  <2>2. Power(a, b).value = Exactly("^", a, b)
    BY <1>2, <2>1 DEF Ok, Exactly
  <2>3. -b \in Nat
    BY <1>2
  <2>4. Abs(a) = 1 => a^(-b) \in Int
    <3>1. Abs(a) = 1 => a # 0
      BY DEF Abs
    <3>2. a # 0 => a^(-b) \in Int
      BY <2>3
    <3> QED BY <3>1, <3>2
  <2>5. Power(a, b).value \in Int
    BY <2>1, <2>4 DEF Ok
  <2> QED BY <2>2, <2>5
<1> QED BY <1>1, <1>2

LEMMA Pushed ==
  ASSUME NEW ct, NEW val, PushNumber(val, ct).st = "ok"
  PROVE  ct.type # "number" /\ PushNumber(val, ct).value = Value(ct, Wrap(val))
BY DEF PushNumber, Stopped, Ok

\* A computed number, of one of the types.  Without addresses it is what the
\* operation gives for the two int64_t.
LEMMA ApplyFacts ==
  ASSUME NEW l \in Operands, NEW r \in Operands,
         NEW op \in {"+", "-", "*", "/", "%", "^"}, Apply(op, l, r).st = "ok"
  PROVE  /\ Computable(l) /\ Computable(r)
         /\ \E val \in Int, ct \in {l.ct, r.ct} :
              /\ Apply(op, l, r).value = Value(ct, Wrap(val)) /\ ct.type # "number"
              /\ ~IsAddress(l.ct) /\ ~IsAddress(r.ct) =>
                   /\ ct = Result(l, r)
                   /\ val = Exactly(op, CheckIntptr(l), CheckIntptr(r))
<1> DEFINE a == CheckIntptr(l)
           b == CheckIntptr(r)
           Given(val, ct) ==
             /\ Apply(op, l, r).value = Value(ct, Wrap(val)) /\ ct.type # "number"
             /\ ~IsAddress(l.ct) /\ ~IsAddress(r.ct) =>
                  ct = Result(l, r) /\ val = Exactly(op, a, b)
           Done == \E val \in Int, ct \in {l.ct, r.ct} : Given(val, ct)
<1>1. a \in Int /\ b \in Int
  BY OperandFacts
<1>2. Computable(l) /\ Computable(r)
  BY DEF Apply, Stopped, Error
<1>3. Result(l, r) \in {l.ct, r.ct}
  BY DEF Result
<1>4. Error.st # "ok" /\ Stopped("fault").st # "ok"
  BY DEF Error, Stopped
<1>5. Step(l.ct) \in Int /\ Step(r.ct) \in Int
  <2>1. ASSUME NEW v \in Operands PROVE Step(v.ct) \in Int
    <3>1. PointerSize \in Nat \ {0}
      BY OperatorsAssumption
    <3>2. v.ct.size \in Nat
      BY OperandType
    <3> QED BY <3>1, <3>2 DEF Step
  <2> QED BY <2>1
<1>6. ASSUME NEW val \in Int, NEW ct \in {l.ct, r.ct}, Apply(op, l, r) = PushNumber(val, ct),
             ~IsAddress(l.ct) /\ ~IsAddress(r.ct) =>
               ct = Result(l, r) /\ val = Exactly(op, a, b)
      PROVE  Done
  <2>1. ct.type # "number" /\ PushNumber(val, ct).value = Value(ct, Wrap(val))
    BY <1>6, Pushed
  <2>2. Given(val, ct)
    BY <1>6, <2>1
  <2> QED BY <2>2
<1> SUFFICES Done
  BY <1>2
<1> HIDE DEF Done, Given
<1>7. CASE op = "+"
  <2>1. Apply(op, l, r) = Add(l, r)
    BY <1>2, <1>7 DEF Apply
  <2>2. CASE l.ct.pointers > 0 /\ ~(r.ct.pointers > 0)
    <3>1. Apply(op, l, r) = PushNumber(a + Step(l.ct) * b, l.ct)
      BY <2>1, <2>2 DEF Add
    <3>2. a + Step(l.ct) * b \in Int
      BY <1>1, <1>5
    <3>3. IsAddress(l.ct)
      BY <2>2 DEF IsAddress
    <3> QED BY <1>6, <3>1, <3>2, <3>3
  <2>3. CASE r.ct.pointers > 0 /\ ~(l.ct.pointers > 0)
    <3>1. Apply(op, l, r) = PushNumber(b + Step(r.ct) * a, r.ct)
      BY <2>1, <2>3 DEF Add
    <3>2. b + Step(r.ct) * a \in Int
      BY <1>1, <1>5
    <3>3. IsAddress(r.ct)
      BY <2>3 DEF IsAddress
    <3> QED BY <1>6, <3>1, <3>2, <3>3
  <2>4. CASE ~(l.ct.pointers > 0) /\ ~(r.ct.pointers > 0)
    <3>1. Apply(op, l, r) = PushNumber(a + b, Result(l, r))
      BY <2>1, <2>4 DEF Add
    <3>2. a + b \in Int /\ a + b = Exactly(op, a, b)
      BY <1>1, <1>7 DEF Exactly
    <3> QED BY <1>3, <1>6, <3>1, <3>2
  <2>5. ~(l.ct.pointers > 0 /\ r.ct.pointers > 0)
    BY <1>4, <2>1 DEF Add
  <2> QED BY <1>2, <2>2, <2>3, <2>4, <2>5
<1>8. CASE op = "-"
  <2>1. Apply(op, l, r) = Sub(l, r)
    BY <1>2, <1>8 DEF Apply
  <2>2. ~(r.ct.pointers > 0)
    BY <1>4, <2>1 DEF Sub
  <2>3. CASE l.ct.pointers > 0
    <3>1. Apply(op, l, r) = PushNumber(a - Step(l.ct) * b, l.ct)
      BY <2>1, <2>2, <2>3 DEF Sub
    <3>2. a - Step(l.ct) * b \in Int
      BY <1>1, <1>5
    <3>3. IsAddress(l.ct)
      BY <2>3 DEF IsAddress
    <3> QED BY <1>2, <1>6, <3>1, <3>2, <3>3
  <2>4. CASE ~(l.ct.pointers > 0)
    <3>1. Apply(op, l, r) = PushNumber(a - b, Result(l, r))
      BY <2>1, <2>2, <2>4 DEF Sub
    <3>2. a - b \in Int /\ a - b = Exactly(op, a, b)
      BY <1>1, <1>8 DEF Exactly
    <3> QED BY <1>2, <1>3, <1>6, <3>1, <3>2
  <2> QED BY <2>3, <2>4
<1>9. CASE op \in {"*", "/", "%", "^"}
  <2>1. Apply(op, l, r) = Binop(op, l, r)
    BY <1>2, <1>9 DEF Apply
  <2>2. ~(l.ct.pointers > 0 \/ r.ct.pointers > 0)
    BY <1>4, <2>1 DEF Binop
  <2>3. ~Faults(op, a, b)
    BY <1>4, <2>1, <2>2 DEF Binop
  <2>4. \E val \in Int :
          val = Exactly(op, a, b) /\ Apply(op, l, r) = PushNumber(val, Result(l, r))
    <3>1. CASE op = "*"
      <4>1. Apply(op, l, r) = PushNumber(a * b, Result(l, r))
        BY <2>1, <2>2, <2>3, <3>1 DEF Binop
      <4>2. a * b \in Int /\ a * b = Exactly(op, a, b)
        BY <1>1, <3>1 DEF Exactly
      <4> QED BY <4>1, <4>2
    <3>2. CASE op = "/"
      <4>1. Apply(op, l, r) = PushNumber(Quotient(a, b), Result(l, r))
        BY <2>1, <2>2, <2>3, <3>2 DEF Binop
      <4>2. Quotient(a, b) \in Int
        BY <1>1, <2>3, <3>2, QuotientType DEF Faults
      <4>3. Quotient(a, b) = Exactly(op, a, b)
        BY <3>2 DEF Exactly
      <4> QED BY <4>1, <4>2, <4>3
    <3>3. CASE op = "%"
      <4>1. Apply(op, l, r) = PushNumber(a - b * Quotient(a, b), Result(l, r))
        BY <2>1, <2>2, <2>3, <3>3 DEF Binop
      <4>2. Quotient(a, b) \in Int
        BY <1>1, <2>3, <3>3, QuotientType DEF Faults
      <4>3. a - b * Quotient(a, b) \in Int
        BY <1>1, <4>2
      <4>4. a - b * Quotient(a, b) = Exactly(op, a, b)
        BY <3>3 DEF Exactly
      <4> QED BY <4>1, <4>3, <4>4
    <3>4. CASE op = "^"
      <4>1. Apply(op, l, r) = IF Power(a, b).st = "ok"
                                THEN PushNumber(Power(a, b).value, Result(l, r))
                                ELSE Power(a, b)
        BY <2>1, <2>2, <2>3, <3>4 DEF Binop
      <4>2. Power(a, b).st = "ok"
        BY <4>1
      <4>3. Power(a, b).value \in Int /\ Power(a, b).value = Exactly(op, a, b)
        BY <1>1, <3>4, <4>2, PowerFacts
      <4> QED BY <4>1, <4>2, <4>3
    <3> QED BY <1>9, <3>1, <3>2, <3>3, <3>4
  <2> QED BY <1>3, <1>6, <2>4
<1> QED BY <1>7, <1>8, <1>9

\* An operation on what two numbers are congruent to, or equal.
LEMMA ExactlyFacts ==
  ASSUME NEW op \in {"+", "-", "*", "/", "%", "^"},
         NEW a \in Int, NEW b \in Int, NEW x \in Int, NEW y \in Int,
         Congruent(a, x, Pow2[Width]), Congruent(b, y, Pow2[Width]),
         a >= -Pow2[Width - 1], a < Pow2[Width - 1], b >= -Pow2[Width - 1], b < Pow2[Width - 1],
         op \in {"/", "%", "^"} => InRange(x) /\ InRange(y), Exactly(op, a, b) \in Int
  PROVE  Congruent(Exactly(op, a, b), Exactly(op, x, y), Pow2[Width])
<1>1. PICK m \in Nat \ {0} : m = Pow2[Width]
  BY WidthFacts
<1>2. m \in Int
  BY <1>1
<1>3. CASE op \in {"+", "-", "*"}
  <2>1. Congruent(a + b, x + y, m) /\ Congruent(a - b, x - y, m)
    BY <1>1, <1>2, CongruentSum
  <2>2. Congruent(a * b, x * y, m)
    BY <1>1, <1>2, CongruentProduct
  <2> QED BY <1>1, <1>3, <2>1, <2>2 DEF Exactly
<1>4. CASE op \in {"/", "%", "^"}
  <2>1. Congruent(x, a, m) /\ Congruent(y, b, m)
    BY <1>1, <1>2, CongruentSwap
  <2>2. Wrap(x) = a /\ Wrap(y) = b
    BY <1>1, <2>1, Settled
  <2>3. x = a /\ y = b
    BY <1>4, <2>2 DEF InRange
  <2>4. Congruent(Exactly(op, a, b), Exactly(op, a, b), m)
    BY <1>2, CongruentSame
  <2> QED BY <1>1, <2>3, <2>4
<1> QED BY <1>3, <1>4

LEMMA ApplyTyped ==
  ASSUME NEW l \in Operands, NEW r \in Operands,
         NEW op \in {"+", "-", "*", "/", "%", "^"}, Apply(op, l, r).st = "ok"
  PROVE  Apply(op, l, r).value \in Operands
<1>1. PICK val \in Int, ct \in {l.ct, r.ct} : Apply(op, l, r).value = Value(ct, Wrap(val))
  BY ApplyFacts
<1>2. ct \in OperandTypes
  BY OperandType
<1>3. Wrap(val) \in Int
  BY WrapFacts
<1> QED BY <1>1, <1>2, <1>3 DEF Value, Operands

\* What an operation gives is right when the operation keeps the number.
LEMMA ApplyExact ==
  ASSUME NEW l \in Operands, NEW r \in Operands,
         NEW op \in {"+", "-", "*", "/", "%", "^"}, Apply(op, l, r).st = "ok",
         NEW x \in Int, NEW y \in Int,
         Congruent(Denoted(l), x, Pow2[Width]), Congruent(Denoted(r), y, Pow2[Width]),
         ~IsAddress(l.ct), ~IsAddress(r.ct),
         op \in {"/", "%", "^"} => InRange(x) /\ InRange(y),
         Exactly(op, x, y) \in Int,
         \/ r.ct.type \in {"int64", "intptr"}
         \/ l.ct.type = "intptr" \/ (l.ct.type = "int64" /\ l.ct.unsigned)
         \/ Fits(l.ct, Exactly(op, x, y)) /\ Fits(r.ct, Exactly(op, x, y))
  PROVE  Congruent(Denoted(Apply(op, l, r).value), Exactly(op, x, y), Pow2[Width])
<1>1. Computable(l) /\ Computable(r)
  BY ApplyFacts
<1>2. PICK m \in Nat \ {0} : m = Pow2[Width]
  BY WidthFacts
<1>3. PICK a \in Int, b \in Int :
        /\ a = CheckIntptr(l) /\ a >= -Pow2[Width - 1] /\ a < Pow2[Width - 1]
        /\ b = CheckIntptr(r) /\ b >= -Pow2[Width - 1] /\ b < Pow2[Width - 1]
  BY OperandFacts
<1>4. PICK val \in Int, ct \in {l.ct, r.ct} :
        /\ Apply(op, l, r).value = Value(ct, Wrap(val)) /\ ct.type # "number"
        /\ ct = Result(l, r) /\ val = Exactly(op, a, b)
  BY <1>3, ApplyFacts
<1>5. /\ Denoted(l) \in Int /\ Congruent(Denoted(l), a, m)
      /\ Denoted(r) \in Int /\ Congruent(Denoted(r), b, m)
  BY <1>2, <1>3, OperandFacts
<1>6. Congruent(a, Denoted(l), m) /\ Congruent(b, Denoted(r), m) /\ m \in Int
  BY <1>2, <1>3, <1>5, CongruentSwap
<1>7. Congruent(a, x, m) /\ Congruent(b, y, m)
  BY <1>2, <1>5, <1>6, CongruentChain
<1>8. Congruent(val, Exactly(op, x, y), m)
  BY <1>2, <1>3, <1>4, <1>7, ExactlyFacts
<1>9. Fits(ct, Exactly(op, x, y))
  BY <1>4, ResultFits
<1>10. ~IsAddress(ct) /\ ct.type \in DOMAIN Bits
  BY <1>1, <1>4 DEF IsAddress, Computable
<1>11. ct \in OperandTypes
  BY OperandType
<1> QED BY <1>2, <1>4, <1>8, <1>9, <1>10, <1>11, Stored

LEMMA OwnTypes ==
  /\ Int64 \in OperandTypes /\ ~IsAddress(Int64) /\ Int64.type \in DOMAIN Bits
  /\ \A y : Fits(Int64, y)
  /\ Number \in OperandTypes /\ ~IsAddress(Number) /\ Number.type = "number"
  /\ \A y : Fits(Number, y)
<1>1. /\ Int64.type = "int64" /\ Int64.pointers = 0
      /\ Number.type = "number" /\ Number.pointers = 0
  BY DEF Int64, Number, Ctype
<1>2. {Int64, Number} \subseteq
        [type : TypeNames, unsigned : BOOLEAN, pointers : Nat, size : Nat, null : BOOLEAN]
  <2>1. ASSUME NEW type \in TypeNames, NEW no \in BOOLEAN, NEW zero \in Nat
        PROVE  [type |-> type, unsigned |-> no, pointers |-> zero, size |-> zero, null |-> no] \in
                 [type : TypeNames, unsigned : BOOLEAN, pointers : Nat, size : Nat, null : BOOLEAN]
    OBVIOUS
  <2>2. FALSE \in BOOLEAN
    OBVIOUS
  <2>3. 0 \in Nat
    OBVIOUS
  <2>4. "int64" \in TypeNames /\ "number" \in TypeNames
    BY DEF TypeNames
  <2>5. /\ Int64 = [type |-> "int64", unsigned |-> FALSE, pointers |-> 0, size |-> 0,
                    null |-> FALSE]
        /\ Number = [type |-> "number", unsigned |-> FALSE, pointers |-> 0, size |-> 0,
                     null |-> FALSE]
    BY Zenon DEF Int64, Number, Ctype
  <2>6. /\ Int64 \in [type : TypeNames, unsigned : BOOLEAN, pointers : Nat, size : Nat,
                      null : BOOLEAN]
        /\ Number \in [type : TypeNames, unsigned : BOOLEAN, pointers : Nat, size : Nat,
                       null : BOOLEAN]
    BY <2>1, <2>2, <2>3, <2>4, <2>5, Zenon
  <2> QED BY <2>6
<1>3. Int64 \in OperandTypes /\ Number \in OperandTypes
  BY <1>1, <1>2 DEF OperandTypes
<1>4. Int64.type \in DOMAIN Bits
  BY <1>1, OperatorsAssumption
<1>5. ~IsAddress(Int64) /\ ~IsAddress(Number)
  BY <1>1 DEF IsAddress
<1>6. \A y : Fits(Int64, y) /\ Fits(Number, y)
  BY <1>1 DEF Fits, Wide
<1> QED BY <1>1, <1>3, <1>4, <1>5, <1>6

\* Invariance of what is known of a program.
LEMMA OperatorsInductive == OperatorsInv /\ [Next]_held => OperatorsInv'
<1> DEFINE Held == [value : Operands, exact : Int, kept : BOOLEAN]
           M == Pow2[Width]
           Right(c) == c.kept => Congruent(Denoted(c.value), c.exact, M)
<1> SUFFICES ASSUME OperatorsInv, [Next]_held PROVE OperatorsInv'
  OBVIOUS
<1>1. held \in Seq(Held)
  BY DEF OperatorsInv
<1>2. ASSUME NEW c \in Held
      PROVE  /\ Right(c) <=>
                  (c.kept => Unsigned(Denoted(c.value), Width) = Unsigned(c.exact, Width))
             /\ c.value \in Operands /\ c.exact \in Int /\ c.kept \in BOOLEAN
             /\ Denoted(c.value) \in Int
  <2>1. c.value \in Operands /\ c.exact \in Int /\ c.kept \in BOOLEAN
    OBVIOUS
  <2>2. Denoted(c.value) \in Int
    BY <2>1, OperandFacts
  <2> QED BY <2>1, <2>2, UnsignedSame
<1>3. \A i \in DOMAIN held : held[i] \in Held /\ Right(held[i])
  <2>1. \A i \in DOMAIN held : held[i] \in Held
    <3> HIDE DEF Held
    <3> QED BY <1>1
  <2> HIDE DEF Held, Right
  <2> QED BY <1>2, <2>1 DEF OperatorsInv, Exact
<1>4. ASSUME held' \in Seq(Held), \A i \in DOMAIN held' : Right(held'[i])
      PROVE  OperatorsInv'
  <2>1. \A i \in DOMAIN held' : held'[i] \in Held
    <3> HIDE DEF Held, Right
    <3> QED BY <1>4
  <2>2. \A i \in DOMAIN held' :
          held'[i].kept =>
            Unsigned(Denoted(held'[i].value), Width) = Unsigned(held'[i].exact, Width)
    <3> HIDE DEF Held, Right
    <3> QED BY <1>2, <1>4, <2>1
  <2> QED BY <1>4, <2>2 DEF OperatorsInv, Exact
<1>5. ASSUME NEW c \in Held, Right(c), held' = <<c>> PROVE OperatorsInv'
  <2>1. held' \in Seq(Held)
    BY <1>5
  <2>2. \A i \in DOMAIN held' : held'[i] = c
    BY <1>5
  <2> HIDE DEF Held, Right
  <2> QED BY <1>4, <1>5, <2>1, <2>2
<1>6. ASSUME NEW v \in Literals, Literal(v) PROVE OperatorsInv'
  <2> DEFINE c == Computed(v, Denoted(v), TRUE)
  <2>1. v \in Operands
    BY OperatorsAssumption
  <2>2. Denoted(v) \in Int
    BY <2>1, OperandFacts
  <2>3. c \in Held /\ c.value = v /\ c.exact = Denoted(v)
    BY <2>1, <2>2 DEF Computed
  <2>4. M \in Int
    BY WidthFacts
  <2>5. Right(c)
    BY <2>2, <2>3, <2>4, CongruentSame
  <2>6. held' = Append(held, c)
    BY <1>6 DEF Literal
  <2> HIDE DEF Held, Right, c, M
  <2>7. held' \in Seq(Held)
    BY <1>1, <2>3, <2>6
  <2>8. ASSUME NEW i \in DOMAIN held' PROVE held'[i] = c \/ (i \in DOMAIN held /\ held'[i] = held[i])
    BY <1>1, <2>3, <2>6
  <2> QED BY <1>3, <1>4, <2>5, <2>7, <2>8
<1>7. ASSUME NEW i \in DOMAIN held, NEW j \in DOMAIN held,
             NEW op \in {"+", "-", "*", "/", "%", "^"}, Operate(op, i, j)
      PROVE  OperatorsInv'
  <2> DEFINE l == held[i]
             r == held[j]
             kept == Keeps(op, l, r)
             exact == IF kept THEN Exactly(op, l.exact, r.exact) ELSE 0
             c == Computed(Apply(op, l.value, r.value).value, exact, kept)
  <2>1. /\ Apply(op, l.value, r.value).st = "ok" /\ exact \in -Limit..Limit
        /\ held' = <<c>>
    BY <1>7 DEF Operate
  <2>2. l \in Held /\ r \in Held /\ Right(l) /\ Right(r)
    BY <1>3
  <2>3. l.value \in Operands /\ r.value \in Operands /\ l.exact \in Int /\ r.exact \in Int
    BY <2>2
  <2>4. exact \in Int
    <3>1. Limit \in Nat
      BY OperatorsAssumption
    <3> HIDE DEF exact
    <3> QED BY <2>1, <3>1
  <2>5. Apply(op, l.value, r.value).value \in Operands
    BY <2>1, <2>3, ApplyTyped
  <2>6. kept \in BOOLEAN
    BY DEF Keeps
  <2>7. c \in Held /\ c.kept = kept /\ c.exact = exact
        /\ c.value = Apply(op, l.value, r.value).value
    <3> HIDE DEF kept, exact
    <3> QED BY <2>4, <2>5, <2>6 DEF Computed
  <2>8. Right(c)
    <3> SUFFICES ASSUME kept
                 PROVE  Congruent(Denoted(Apply(op, l.value, r.value).value), exact, M)
      BY <2>7
    <3>1. /\ l.kept /\ r.kept /\ ~IsAddress(l.value.ct) /\ ~IsAddress(r.value.ct)
          /\ op \in {"/", "%", "^"} => InRange(l.exact) /\ InRange(r.exact)
          /\ \/ r.value.ct.type \in {"int64", "intptr"}
             \/ l.value.ct.type = "intptr" \/ (l.value.ct.type = "int64" /\ l.value.ct.unsigned)
             \/ /\ Fits(l.value.ct, Exactly(op, l.exact, r.exact))
                /\ Fits(r.value.ct, Exactly(op, l.exact, r.exact))
      BY DEF Keeps
    <3>2. /\ Congruent(Denoted(l.value), l.exact, Pow2[Width])
          /\ Congruent(Denoted(r.value), r.exact, Pow2[Width])
      BY <2>2, <3>1
    <3>3. exact = Exactly(op, l.exact, r.exact) /\ exact \in Int
      BY <2>4
    <3> HIDE DEF l, r, kept, exact
    <3> QED BY <2>1, <2>3, <3>1, <3>2, <3>3, ApplyExact
  <2> HIDE DEF Held, Right, c
  <2> QED BY <1>5, <2>1, <2>7, <2>8
<1>8. ASSUME NEW i \in DOMAIN held, Negate(i) PROVE OperatorsInv'
  <2> DEFINE v == held[i].value
             x == held[i].exact
             n == -CheckIntptr(v)
             c == Computed(Value(Int64, Wrap(n)), -x, held[i].kept)
  <2>1. Negated(v).st = "ok" /\ held' = <<Computed(Negated(v).value, -x, held[i].kept)>>
    BY <1>8 DEF Negate
  <2>2. Negated(v) = PushNumber(n, Int64)
    BY <2>1 DEF Negated, Error, Stopped
  <2>3. PushNumber(n, Int64).value = Value(Int64, Wrap(n))
    BY <2>1, <2>2, Pushed
  <2>4. held' = <<c>>
    BY <2>1, <2>2, <2>3
  <2>5. held[i] \in Held /\ Right(held[i])
    BY <1>3
  <2>6. v \in Operands /\ x \in Int /\ held[i].kept \in BOOLEAN
    BY <2>5
  <2>7. /\ CheckIntptr(v) \in Int /\ Denoted(v) \in Int
        /\ Congruent(Denoted(v), CheckIntptr(v), M)
    BY <2>6, OperandFacts
  <2>8. M \in Int /\ n \in Int /\ -x \in Int
    BY <2>6, <2>7, WidthFacts
  <2>9. /\ Int64 \in OperandTypes /\ ~IsAddress(Int64) /\ Int64.type \in DOMAIN Bits
        /\ \A y : Fits(Int64, y)
    BY OwnTypes
  <2>10. ASSUME NEW y \in Int, Congruent(n, y, M)
         PROVE  /\ Value(Int64, Wrap(n)) \in Operands
                /\ Congruent(Denoted(Value(Int64, Wrap(n))), y, M)
    <3> HIDE DEF n
    <3> QED BY <2>8, <2>9, <2>10, Stored
  <2>11. c \in Held /\ c.kept = held[i].kept /\ c.exact = -x
         /\ c.value = Value(Int64, Wrap(n))
    <3>1. Congruent(n, n, M)
      BY <2>8, CongruentSame
    <3>2. Value(Int64, Wrap(n)) \in Operands
      BY <2>8, <2>10, <3>1
    <3> HIDE DEF v, n, x
    <3> QED BY <2>6, <2>8, <3>2 DEF Computed
  <2>12. ASSUME held[i].kept PROVE Congruent(n, -x, M)
    <3>1. Congruent(Denoted(v), x, M)
      BY <2>5, <2>12
    <3> HIDE DEF v, x, M
    <3>2. Congruent(CheckIntptr(v), Denoted(v), M)
      BY <2>7, <2>8, CongruentSwap
    <3>3. Congruent(CheckIntptr(v), x, M)
      BY <2>6, <2>7, <2>8, <3>1, <3>2, CongruentChain
    <3>4. Congruent(0, 0, M)
      BY <2>8, CongruentSame
    <3>5. Congruent(0 - CheckIntptr(v), 0 - x, M)
      <4>1. PICK a \in Int, b \in Int, m \in Int : a = CheckIntptr(v) /\ b = x /\ m = M
        BY <2>6, <2>7, <2>8
      <4>2. Congruent(0 - a, 0 - b, m)
        BY <3>3, <3>4, <4>1, CongruentSum
      <4> QED BY <4>1, <4>2
    <3>6. 0 - CheckIntptr(v) = n /\ 0 - x = -x
      BY <2>6, <2>7
    <3> QED BY <3>5, <3>6
  <2>13. Right(c)
    <3> HIDE DEF c, n, v, x, M
    <3> QED BY <2>8, <2>10, <2>11, <2>12
  <2> HIDE DEF Held, Right, c
  <2> QED BY <1>5, <2>4, <2>11, <2>13
<1>9. ASSUME NEW i \in DOMAIN held, ToNumber(i) PROVE OperatorsInv'
  <2> DEFINE v == held[i].value
             x == held[i].exact
             n == CheckIntptr(v)
             c == Computed(Value(Number, n), x, held[i].kept)
  <2>1. held' = <<c>>
    BY <1>9 DEF ToNumber
  <2>2. held[i] \in Held /\ Right(held[i])
    BY <1>3
  <2>3. v \in Operands /\ x \in Int /\ held[i].kept \in BOOLEAN
    BY <2>2
  <2>4. n \in Int /\ Denoted(v) \in Int /\ Congruent(Denoted(v), n, M)
    BY <2>3, OperandFacts
  <2>5. Wrap(n) = n
    <3>1. n >= -Pow2[Width - 1] /\ n < Pow2[Width - 1]
      BY <2>3, OperandFacts
    <3>2. M \in Int
      BY WidthFacts
    <3>3. Congruent(n, n, M)
      BY <2>4, <3>2, CongruentSame
    <3> HIDE DEF n
    <3> QED BY <2>4, <3>1, <3>3, Settled
  <2>6. /\ Number \in OperandTypes /\ ~IsAddress(Number) /\ Number.type = "number"
        /\ \A y : Fits(Number, y)
    BY OwnTypes
  <2>7. M \in Int
    BY WidthFacts
  <2>8. ASSUME NEW y \in Int, Congruent(n, y, M)
        PROVE  /\ Value(Number, Wrap(n)) \in Operands
               /\ Congruent(Denoted(Value(Number, Wrap(n))), y, M)
    <3> HIDE DEF n
    <3> QED BY <2>4, <2>6, <2>8, Stored
  <2>9. c \in Held /\ c.kept = held[i].kept /\ c.exact = x /\ c.value = Value(Number, Wrap(n))
    <3>1. Congruent(n, n, M)
      BY <2>4, <2>7, CongruentSame
    <3>2. Value(Number, n) \in Operands
      BY <2>4, <2>5, <2>8, <3>1
    <3> HIDE DEF v, n, x
    <3> QED BY <2>3, <2>5, <3>2 DEF Computed
  <2>10. ASSUME held[i].kept PROVE Congruent(n, x, M)
    <3>1. Congruent(Denoted(v), x, M)
      BY <2>2, <2>10
    <3> HIDE DEF v, x, M, n
    <3>2. Congruent(n, Denoted(v), M)
      BY <2>4, <2>7, CongruentSwap
    <3> QED BY <2>3, <2>4, <2>7, <3>1, <3>2, CongruentChain
  <2>11. Right(c)
    <3> HIDE DEF c, n, v, x, M
    <3> QED BY <2>3, <2>8, <2>9, <2>10
  <2> HIDE DEF Held, Right, c
  <2> QED BY <1>5, <2>1, <2>9, <2>11
<1>10. CASE UNCHANGED held
  BY <1>10 DEF OperatorsInv, Exact
<1> QED BY <1>6, <1>7, <1>8, <1>9, <1>10 DEF Next

-----------------------------------------------------------------------------
(* Comparison. *)

\* What can be compared one way can the other way, and as the same type.
LEMMA ComparableEither ==
  ASSUME NEW l, NEW r
  PROVE  /\ Comparable(l, r) <=> Comparable(r, l)
         /\ AsUnsigned(l, r) <=> AsUnsigned(r, l)
<1>1. SameType(l, r) <=> SameType(r, l)
  BY DEF SameType
<1>2. {l, r} = {r, l}
  OBVIOUS
<1> QED BY <1>1, <1>2 DEF Comparable, AsUnsigned

\* check_intptr changes no type that comparing looks at but that of a number.
LEMMA CheckedFacts ==
  ASSUME NEW v \in Operands
  PROVE  /\ Checked(v.ct).unsigned = v.ct.unsigned
         /\ Checked(v.ct).pointers = v.ct.pointers /\ v.ct.pointers \in Nat
         /\ Checked(v.ct).type \in {"intptr", "function pointer"} =>
              Checked(v.ct) = v.ct
<1>1. CASE v.ct.type = "number"
  <2>1. Checked(v.ct) = Int64
    BY <1>1 DEF Checked
  <2>2. Int64.unsigned = FALSE /\ Int64.pointers = 0 /\ Int64.type = "int64"
    BY DEF Int64, Ctype
  <2>3. v.ct.unsigned = FALSE /\ v.ct.pointers = 0
    BY <1>1, OperandType
  <2>4. Checked(v.ct).unsigned = v.ct.unsigned
    BY <2>1, <2>2, <2>3, Zenon
  <2>5. Checked(v.ct).pointers = v.ct.pointers /\ v.ct.pointers \in Nat
    BY <2>1, <2>2, <2>3
  <2>6. Checked(v.ct).type \notin {"intptr", "function pointer"}
    BY <2>1, <2>2
  <2> QED BY <2>4, <2>5, <2>6
<1>2. CASE v.ct.type # "number"
  BY <1>2, OperandType DEF Checked
<1> QED BY <1>1, <1>2

\* What is compared as uint64_t is what is meant, if that is no negative number;
\* what is compared as int64_t is, if that is in its range.
LEMMA OperandMeant ==
  ASSUME NEW v \in Operands
  PROVE  /\ Operand(v, TRUE) \in Int /\ Operand(v, FALSE) \in Int
         /\ Denoted(v) >= 0 /\ Denoted(v) < Pow2[Width] => Operand(v, TRUE) = Denoted(v)
         /\ InRange(Denoted(v)) => Operand(v, FALSE) = Denoted(v)
<1>1. PICK m \in Nat \ {0} : m = Pow2[Width]
  BY WidthFacts
<1>2. PICK a \in Int, d \in Int :
        /\ a = CheckIntptr(v) /\ a >= -Pow2[Width - 1] /\ a < Pow2[Width - 1]
        /\ d = Denoted(v) /\ Congruent(d, a, m)
  BY <1>1, OperandFacts
<1>3. PICK u \in Int : u = Unsigned(a, Width) /\ u >= 0 /\ u < m /\ Congruent(u, a, m)
  BY <1>1, WrapFacts
<1>4. Operand(v, TRUE) = u /\ Operand(v, FALSE) = a
  BY <1>2, <1>3 DEF Operand
<1>5. m \in Int /\ m > 0 /\ Congruent(a, d, m)
  BY <1>1, <1>2, CongruentSwap
<1>6. ASSUME d >= 0, d < m PROVE u = d
  <2>1. Congruent(u, d, m)
    BY <1>3, <1>5, CongruentChain
  <2>2. u - d < m /\ d - u < m
    BY <1>3, <1>6
  <2> QED BY <1>5, <2>1, <2>2, CongruentClose
<1>7. ASSUME d = Wrap(d) PROVE a = d
  BY <1>1, <1>2, <1>7, Settled
<1> QED BY <1>1, <1>2, <1>4, <1>6, <1>7 DEF InRange

LEMMA CompareFacts ==
  ASSUME NEW l \in Operands, NEW r \in Operands
  PROVE  /\ Compare(r, l) = Opposite(Compare(l, r))
         /\ /\ Compare(l, r) # "error"
            /\ \/ Natural(l.ct) /\ Natural(r.ct)
               \/ InRange(Denoted(l)) /\ InRange(Denoted(r))
            => Compare(l, r) = (IF Denoted(l) < Denoted(r) THEN "<"
                                ELSE IF Denoted(l) = Denoted(r) THEN "=" ELSE ">")
<1> DEFINE lt == Checked(l.ct)
           rt == Checked(r.ct)
           refused == ~Computable(l) \/ ~Computable(r) \/ ~Comparable(lt, rt)
<1>1. PICK unsigned \in BOOLEAN : unsigned = AsUnsigned(lt, rt)
  BY DEF AsUnsigned
<1>2. PICK x \in Int, y \in Int : x = Operand(l, unsigned) /\ y = Operand(r, unsigned)
  <2>1. unsigned = TRUE \/ unsigned = FALSE
    OBVIOUS
  <2> QED BY <2>1, OperandMeant
<1>3. /\ Compare(l, r) = IF refused THEN "error"
                         ELSE IF x < y THEN "<" ELSE IF x = y THEN "=" ELSE ">"
      /\ Compare(r, l) = IF refused THEN "error"
                         ELSE IF y < x THEN "<" ELSE IF y = x THEN "=" ELSE ">"
  <2>1. (Comparable(rt, lt) <=> Comparable(lt, rt)) /\ AsUnsigned(rt, lt) = unsigned
    BY <1>1, ComparableEither DEF AsUnsigned
  <2>2. Compare(l, r) = IF refused THEN "error"
                        ELSE CASE x < y -> "<" [] x = y -> "=" [] x > y -> ">"
    BY <1>1, <1>2 DEF Compare
  <2>3. Compare(r, l) = IF refused THEN "error"
                        ELSE CASE y < x -> "<" [] y = x -> "=" [] y > x -> ">"
    BY <1>1, <1>2, <2>1 DEF Compare
  <2> HIDE DEF refused
  <2> QED BY <2>2, <2>3
<1>4. Compare(r, l) = Opposite(Compare(l, r))
  <2> HIDE DEF refused
  <2> QED BY <1>3 DEF Opposite
<1>5. ASSUME Compare(l, r) # "error",
             \/ Natural(l.ct) /\ Natural(r.ct)
             \/ InRange(Denoted(l)) /\ InRange(Denoted(r))
      PROVE  x = Denoted(l) /\ y = Denoted(r)
  <2>1. Computable(l) /\ Computable(r) /\ Comparable(lt, rt)
    BY <1>3, <1>5
  <2>2. ASSUME NEW v \in {l, r}
        PROVE  /\ v \in Operands /\ Checked(v.ct).unsigned = v.ct.unsigned
               /\ Checked(v.ct).pointers = v.ct.pointers /\ v.ct.pointers \in Nat
               /\ Checked(v.ct).type \in {"intptr", "function pointer"} => Checked(v.ct) = v.ct
    BY CheckedFacts
  <2>3. ASSUME NEW v \in {l, r}, IsAddress(v.ct) \/ v.ct.unsigned
        PROVE  Denoted(v) >= 0 /\ Denoted(v) < Pow2[Width]
    BY <2>1, <2>3, OperandFacts
  <2>4. CASE unsigned
    <3>1. ASSUME NEW v \in {l, r} PROVE IsAddress(v.ct) \/ v.ct.unsigned
      <4>1. CASE v.ct.pointers > 0 \/ v.ct.unsigned
        BY <4>1 DEF IsAddress
      <4>2. CASE ~(v.ct.pointers > 0) /\ ~v.ct.unsigned
        <5>1. PICK p \in {lt, rt} : p.pointers > 0
          BY <1>1, <2>2, <2>4, <4>2 DEF AsUnsigned
        <5>2. Checked(v.ct) \in {lt, rt} /\ Checked(v.ct).pointers = 0
          <6>1. Checked(v.ct) \in {lt, rt}
            BY Zenon
          <6>2. Checked(v.ct).pointers = v.ct.pointers /\ v.ct.pointers \in Nat
            BY <2>2
          <6> QED BY <4>2, <6>1, <6>2
        <5>3. \/ Checked(v.ct).type = "function pointer"
              \/ Checked(v.ct).type = "intptr" /\ Checked(v.ct).unsigned
          BY <2>1, <5>1, <5>2 DEF Comparable
        <5> QED BY <2>2, <4>2, <5>3 DEF IsAddress
      <4> QED BY <4>1, <4>2
    <3>2. ASSUME NEW v \in {l, r} PROVE Operand(v, TRUE) = Denoted(v)
      BY <2>3, <3>1, OperandMeant
    <3> QED BY <1>2, <2>4, <3>2
  <2>5. CASE ~unsigned
    <3>1. InRange(Denoted(l)) /\ InRange(Denoted(r))
      BY <1>1, <1>5, <2>2, <2>5 DEF AsUnsigned, Natural
    <3>2. Operand(l, FALSE) = Denoted(l) /\ Operand(r, FALSE) = Denoted(r)
      BY <3>1, OperandMeant
    <3> QED BY <1>2, <2>5, <3>2
  <2> QED BY <2>4, <2>5
<1> QED BY <1>3, <1>4, <1>5

LEMMA HeldOrdered == OperatorsInv => Ordered
<1> SUFFICES ASSUME OperatorsInv, NEW i \in DOMAIN held, NEW j \in DOMAIN held
             PROVE  LET l == held[i].value r == held[j].value
                        a == Denoted(l) b == Denoted(r)
                        c == Compare(l, r)
                    IN /\ Compare(r, l) = Opposite(c)
                       /\ /\ c # "error"
                          /\ (Natural(l.ct) /\ Natural(r.ct)) \/ (InRange(a) /\ InRange(b))
                          => c = (IF a < b THEN "<" ELSE IF a = b THEN "=" ELSE ">")
  BY DEF Ordered
<1> DEFINE Held == [value : Operands, exact : Int, kept : BOOLEAN]
<1>1. held \in Seq(Held)
  BY DEF OperatorsInv
<1>2. held[i] \in Held /\ held[j] \in Held
  <2> HIDE DEF Held
  <2> QED BY <1>1
<1>3. held[i].value \in Operands /\ held[j].value \in Operands
  BY <1>2
<1> QED BY <1>3, CompareFacts

-----------------------------------------------------------------------------
(* Objects and places. *)

LEMMA DeclaredFacts ==
  ASSUME NEW ct \in Types \cup Declared
  PROVE  ct \in Ctypes /\ Covariant(ct) /\ Known(ct)
BY PointersAssumption DEF Known, CtypeOK

LEMMA ObjectFacts ==
  ASSUME NEW o \in Objects
  PROVE  /\ o.at \in Nat \ {0} /\ o.count \in Nat \ {0} /\ Stride(o.ct) \in Nat \ {0}
         /\ o.at + o.count * Stride(o.ct) <= Pow2[Width]
         /\ 2 * (o.count * Stride(o.ct)) <= Pow2[Width]
         /\ Pow2[Width] \in Int
         /\ o.ct \in Declared
<1>1. Width \in Nat
  BY OperatorsAssumption
<1>2. Pow2[Width] \in Int
  BY WidthFacts
<1>3. o.ct \in Declared
  BY DEF Declared
<1>4. o.ct.size \in Nat
  BY <1>3, DeclaredFacts DEF Ctypes
<1>5. Stride(o.ct) \in Nat
  BY <1>4, OperatorsAssumption DEF Stride
<1>6. ObjectOK(o)
  BY PointersAssumption
<1> QED BY <1>2, <1>3, <1>5, <1>6 DEF ObjectOK

\* An element is one of an object.
LEMMA ElementFacts ==
  ASSUME NEW e \in Elements
  PROVE  /\ e \in Places /\ e.ct \in Declared /\ e.at \in Nat \ {0}
         /\ \E o \in Objects, i \in Nat :
              /\ i < o.count /\ e = Placed(o.at + i * Stride(o.ct), o.ct)
              /\ e.at = o.at + i * Stride(o.ct) /\ e.ct = o.ct /\ e.at \in Extent(o)
<1>1. PICK o \in Objects : \E i \in 0..(o.count - 1) : e = Placed(o.at + i * Stride(o.ct), o.ct)
  BY DEF Elements
<1>2. PICK i \in 0..(o.count - 1) : e = Placed(o.at + i * Stride(o.ct), o.ct)
  BY <1>1
<1>3. e.at = o.at + i * Stride(o.ct) /\ e.ct = o.ct
  BY <1>2 DEF Placed
<1>4. /\ i \in Nat /\ i < o.count /\ o.count \in Nat /\ o.at \in Nat \ {0}
      /\ Stride(o.ct) \in Nat \ {0} /\ o.ct \in Declared
  BY ObjectFacts
<1>5. i * Stride(o.ct) <= o.count * Stride(o.ct) - Stride(o.ct) /\ i * Stride(o.ct) \in Nat
  BY <1>4, Bound
<1>6. e.at \in Extent(o)
  BY <1>3, <1>4, <1>5 DEF Extent
<1>7. e.at \in Nat \ {0}
  BY <1>3, <1>4, <1>5
<1>8. e \in Places
  BY DEF Places
<1> QED BY <1>2, <1>3, <1>4, <1>6, <1>7, <1>8

LEMMA MakeElement ==
  ASSUME NEW o \in Objects, NEW i \in Nat, i < o.count
  PROVE  Placed(o.at + i * Stride(o.ct), o.ct) \in Elements
<1>1. i \in 0..(o.count - 1)
  BY ObjectFacts
<1> QED BY <1>1 DEF Elements

LEMMA PlaceFacts ==
  ASSUME NEW p \in Places
  PROVE  /\ p.ct \in Declared
         /\ p.at \in Nat
         /\ p \in Elements \/ \E m \in DOMAIN Members : p.ct = Members[m].ct
<1>1. CASE p \in Elements
  BY <1>1, ElementFacts
<1>2. CASE p \in Parts
  <2>1. PICK e \in Elements, m \in DOMAIN Members :
          p = Placed(e.at + Members[m].offset, Members[m].ct)
    BY <1>2 DEF Parts
  <2>2. p.at = e.at + Members[m].offset /\ p.ct = Members[m].ct
    BY <2>1 DEF Placed
  <2>3. Members[m].offset \in Nat
    BY PointersAssumption DEF MemberOK
  <2>4. p.ct \in Declared
    BY <2>2 DEF Declared
  <2>5. e.at \in Nat
    BY ElementFacts
  <2> QED BY <2>2, <2>3, <2>4, <2>5
<1> QED BY <1>1, <1>2 DEF Places

\* An address is in one object.
LEMMA OneObject ==
  ASSUME NEW o \in Objects, NEW x \in Objects, NEW a \in Extent(o), a \in Extent(x)
  PROVE  o = x
<1>1. ObjectOK(o)
  BY PointersAssumption
<1> QED BY <1>1 DEF ObjectOK

\* What is inside of an object, some elements from one, is an element.
LEMMA Moved ==
  ASSUME NEW o \in Objects, NEW i \in Nat, i < o.count, NEW n \in Int,
         Inside(o.at + i * Stride(o.ct), o.at + i * Stride(o.ct) + n * Stride(o.ct))
  PROVE  Placed(o.at + i * Stride(o.ct) + n * Stride(o.ct), o.ct) \in Elements
<1> DEFINE s == Stride(o.ct)
<1>1. /\ o.count \in Nat /\ o.at \in Nat \ {0} /\ s \in Nat \ {0}
  BY ObjectFacts
<1> HIDE DEF s
<1>2. i * s <= o.count * s - s /\ i * s \in Nat
  BY <1>1, Bound
<1>3. o.at + i * s \in Extent(o)
  BY <1>1, <1>2 DEF Extent, s
<1>4. PICK x \in Objects : {o.at + i * s, o.at + i * s + n * s} \subseteq Extent(x)
  BY DEF Inside, Extents, s
<1>5. o.at + i * s + n * s \in Extent(o)
  BY <1>3, <1>4, OneObject
<1>6. i * s + n * s = (i + n) * s
  BY <1>1
<1>7. 0 <= (i + n) * s /\ (i + n) * s < o.count * s
  <2>1. o.at + i * s + n * s \in o.at..(o.at + o.count * s - 1)
    BY <1>5 DEF Extent, s
  <2>2. (i + n) * s \in Int /\ o.count * s \in Int /\ n * s \in Int /\ i * s \in Int
    BY <1>1
  <2> QED BY ONLY <1>1, <1>6, <2>1, <2>2
<1>8. i + n \in Nat /\ i + n < o.count
  BY <1>1, <1>7, Bound
<1>9. o.at + (i + n) * s = o.at + i * s + n * s
  BY <1>1, <1>6
<1> QED BY <1>8, <1>9, MakeElement DEF s

-----------------------------------------------------------------------------
(* ctypes. *)

LEMMA ShiftFacts ==
  ASSUME NEW c \in SUBSET Nat
  PROVE  /\ Shifted(c) \in SUBSET Nat /\ Unshift(c) \in SUBSET Nat
         /\ Unshift(Shifted(c)) = c
         /\ \A b \in Nat : b \in Unshift(c) <=> b + 1 \in c
<1>1. Shifted(c) \in SUBSET Nat /\ Unshift(c) \in SUBSET Nat
  BY DEF Shifted, Unshift
<1>2. \A d \in SUBSET Nat : \A b \in Nat : b \in Unshift(d) <=> b + 1 \in d
  <2> SUFFICES ASSUME NEW d \in SUBSET Nat, NEW b \in Nat PROVE b \in Unshift(d) <=> b + 1 \in d
    OBVIOUS
  <2>1. ASSUME b \in Unshift(d) PROVE b + 1 \in d
    <3>1. PICK x \in d \ {0} : b = x - 1
      BY <2>1 DEF Unshift
    <3>2. x \in Nat /\ x = b + 1
      BY <3>1
    <3> QED BY <3>2
  <2>2. ASSUME b + 1 \in d PROVE b \in Unshift(d)
    <3>1. b + 1 # 0 /\ b = (b + 1) - 1
      OBVIOUS
    <3> QED BY <2>2, <3>1 DEF Unshift
  <2> QED BY <2>1, <2>2
<1>3. \A b \in Nat : b + 1 \in Shifted(c) <=> b \in c
  <2> SUFFICES ASSUME NEW b \in Nat PROVE b + 1 \in Shifted(c) <=> b \in c
    OBVIOUS
  <2>1. ASSUME b + 1 \in Shifted(c) PROVE b \in c
    <3>1. PICK x \in c : b + 1 = x + 1
      BY <2>1 DEF Shifted
    <3>2. x = b
      BY <3>1
    <3> QED BY <3>2
  <2> QED BY <2>1 DEF Shifted
<1>4. Unshift(Shifted(c)) \in SUBSET Nat
  BY <1>1 DEF Unshift
<1> QED BY <1>1, <1>2, <1>3, <1>4

\* What a pointer type and that of what it points at have in common.
LEMMA DerefFacts ==
  ASSUME NEW ct, Known(ct), ct.pointers > 0
  PROVE  /\ Known(Deref(ct)) /\ Deref(ct).type = ct.type
         /\ Deref(ct).pointers = ct.pointers - 1 /\ ct.pointers - 1 \in Nat
         /\ Deref(ct).const = Unshift(ct.const) /\ ct.const \in SUBSET Nat
         /\ Deref(ct).size = ct.size
<1>1. /\ ct \in Ctypes /\ ~ct.null /\ ct.pointers - 1 \in Nat
      /\ \A dt \in Declared : ct.type = dt.type => ct.size = dt.size
  BY DEF Known, Ctypes
<1>2. ct.const \in SUBSET Nat /\ Unshift(ct.const) \in SUBSET Nat
  BY <1>1, ShiftFacts DEF Ctypes
<1>3. /\ Deref(ct) \in Ctypes /\ Deref(ct).type = ct.type /\ Deref(ct).size = ct.size
      /\ Deref(ct).null = ct.null
      /\ Deref(ct).pointers = ct.pointers - 1 /\ Deref(ct).const = Unshift(ct.const)
  BY <1>1, <1>2 DEF Deref, Ctypes
<1>4. Known(Deref(ct))
  BY <1>1, <1>3 DEF Known
<1> QED BY <1>1, <1>2, <1>3, <1>4

LEMMA PointedFacts ==
  ASSUME NEW ct, Known(ct)
  PROVE  /\ Known(Pointed(ct)) /\ Pointed(ct).type = ct.type
         /\ Pointed(ct).pointers = ct.pointers + 1 /\ ct.pointers \in Nat
         /\ Pointed(ct).const = Shifted(ct.const) /\ ct.const \in SUBSET Nat
<1>1. /\ ct \in Ctypes /\ ~ct.null
      /\ \A dt \in Declared : ct.type = dt.type => ct.size = dt.size
  BY DEF Known
<1>2. ct.const \in SUBSET Nat /\ Shifted(ct.const) \in SUBSET Nat
  BY <1>1, ShiftFacts DEF Ctypes
<1>3. /\ Pointed(ct) \in Ctypes /\ Pointed(ct).type = ct.type /\ Pointed(ct).size = ct.size
      /\ Pointed(ct).null = ct.null /\ ct.pointers \in Nat
      /\ Pointed(ct).pointers = ct.pointers + 1 /\ Pointed(ct).const = Shifted(ct.const)
  <2>1. ct.pointers \in Nat /\ ct.pointers + 1 \in Nat
    BY <1>1 DEF Ctypes
  <2>2. PICK n \in Nat, c \in SUBSET Nat : n = ct.pointers + 1 /\ c = Shifted(ct.const)
    BY <1>2, <2>1
  <2>3. Pointed(ct) = [ct EXCEPT !.pointers = n, !.const = c]
    BY <2>2 DEF Pointed
  <2> QED BY <1>1, <2>1, <2>2, <2>3 DEF Ctypes
<1>4. Known(Pointed(ct))
  BY <1>1, <1>3 DEF Known
<1> QED BY <1>1, <1>2, <1>3, <1>4

\* A cdata array, or a pointer where it was an array.
LEMMA ArrayFacts ==
  ASSUME NEW ct, Known(ct), NEW b \in BOOLEAN, NEW dt, dt = [ct EXCEPT !.array = b]
  PROVE  /\ Known(dt) /\ dt.type = ct.type /\ dt.pointers = ct.pointers
         /\ dt.const = ct.const /\ Deref(dt) = Deref(ct)
         /\ (IsVoidPtr(dt) <=> IsVoidPtr(ct)) /\ (Covariant(dt) <=> Covariant(ct))
<1>1. ct \in Ctypes
  BY DEF Known
<1>2. /\ dt \in Ctypes /\ dt.type = ct.type /\ dt.pointers = ct.pointers
      /\ dt.const = ct.const /\ dt.size = ct.size /\ dt.null = ct.null
  BY <1>1 DEF Ctypes
<1>3. Deref(dt) = Deref(ct)
  BY <1>1 DEF Ctypes, Deref
<1> QED BY <1>2, <1>3 DEF Known, IsVoidPtr, Covariant

LEMMA StepFacts ==
  ASSUME NEW ct, Known(ct), ct.pointers > 0, NEW pt \in Declared,
         pt.type = ct.type, pt.pointers = ct.pointers - 1
  PROVE  Stride(pt) = Step(ct)
<1>1. pt.size = ct.size /\ ct.pointers \in Nat
  BY DEF Known, Ctypes
<1> QED BY <1>1 DEF Stride, Step

\* An address for one type is one for the same with more consts.
LEMMA AimedWider ==
  ASSUME NEW ft, Known(ft), NEW tt, Known(tt), tt.type = ft.type, tt.pointers = ft.pointers,
         ft.pointers > 0, ft.const \subseteq tt.const, Covariant(tt) \/ ft.const = tt.const,
         NEW to, Aimed(ft, to)
  PROVE  Aimed(tt, to)
<1>1. CASE to = Null \/ IsVoidPtr(ft)
  BY <1>1 DEF Aimed, IsVoidPtr
<1>2. CASE ~(to = Null \/ IsVoidPtr(ft))
  <2>1. PICK p \in ElementOf(to, Deref(ft)) :
          p.ct.const \subseteq Deref(ft).const /\ (Covariant(ft) \/ p.ct.const = Deref(ft).const)
    BY <1>2 DEF Aimed
  <2>2. p \in ElementOf(to, Deref(tt))
    BY DerefFacts DEF ElementOf
  <2>3. Deref(ft).const \subseteq Deref(tt).const
    <3>1. /\ Deref(ft).const = Unshift(ft.const) /\ ft.const \in SUBSET Nat
          /\ Deref(tt).const = Unshift(tt.const) /\ tt.const \in SUBSET Nat
      BY DerefFacts
    <3>2. Unshift(ft.const) \in SUBSET Nat
      BY <3>1, ShiftFacts
    <3>3. \A b \in Nat : b \in Unshift(ft.const) => b \in Unshift(tt.const)
      BY <3>1, ShiftFacts
    <3> QED BY <3>1, <3>2, <3>3
  <2>4. ft.const = tt.const => Deref(ft).const = Deref(tt).const /\ (Covariant(ft) <=> Covariant(tt))
    BY DerefFacts DEF Covariant
  <2> QED BY <2>1, <2>2, <2>3, <2>4 DEF Aimed
<1> QED BY <1>1, <1>2

-----------------------------------------------------------------------------
(* Values. *)

LEMMA FirstElement ==
  ASSUME NEW o \in Objects
  PROVE  \E p \in Elements : p.at = o.at /\ p.ct = o.ct
<1>1. /\ 0 \in Nat /\ 0 < o.count /\ o.at + 0 * Stride(o.ct) = o.at
  BY ObjectFacts
<1>2. Placed(o.at, o.ct) \in Elements
  BY <1>1, MakeElement
<1> QED BY <1>2 DEF Placed

LEMMA RootsOK == \A v \in Roots : ValueOK(v)
<1> SUFFICES ASSUME NEW o \in Objects,
                    NEW v, v = IF IsStruct(o.ct) /\ o.ct.pointers = 0 THEN Cdata(o.ct, o.at)
                               ELSE Cdata([Pointed(o.ct) EXCEPT !.array = TRUE], o.at)
             PROVE  ValueOK(v)
  BY DEF Roots
<1>1. PICK p \in Elements : p.at = o.at /\ p.ct = o.ct
  BY FirstElement
<1>2. Known(o.ct) /\ o.at \in Nat
  BY ObjectFacts, DeclaredFacts
<1>3. CASE IsStruct(o.ct) /\ o.ct.pointers = 0
  <2>1. v.ct = o.ct /\ v.to = o.at
    BY <1>3 DEF Cdata
  <2>2. p \in ElementOf(v.to, v.ct) /\ p.ct.const \subseteq v.ct.const
    BY <1>1, <2>1 DEF ElementOf
  <2> QED BY <1>2, <1>3, <2>1, <2>2 DEF ValueOK
<1>4. CASE ~(IsStruct(o.ct) /\ o.ct.pointers = 0)
  <2>1. v.ct = [Pointed(o.ct) EXCEPT !.array = TRUE] /\ v.to = o.at
    BY <1>4 DEF Cdata
  <2>2. /\ Known(v.ct) /\ v.ct.type = o.ct.type /\ v.ct.pointers = o.ct.pointers + 1
        /\ v.ct.const = Shifted(o.ct.const) /\ o.ct.pointers \in Nat /\ o.ct.const \in SUBSET Nat
    <3>1. PICK ct : ct = Pointed(o.ct)
      OBVIOUS
    <3>2. /\ Known(ct) /\ ct.type = o.ct.type /\ ct.pointers = o.ct.pointers + 1
          /\ ct.const = Shifted(o.ct.const) /\ o.ct.pointers \in Nat /\ o.ct.const \in SUBSET Nat
      BY <1>2, <3>1, PointedFacts
    <3>3. v.ct = [ct EXCEPT !.array = TRUE]
      BY <2>1, <3>1
    <3>4. /\ Known(v.ct) /\ v.ct.type = ct.type /\ v.ct.pointers = ct.pointers
          /\ v.ct.const = ct.const
      BY <3>2, <3>3, ArrayFacts
    <3> QED BY <3>2, <3>4
  <2>3. v.ct.pointers > 0 /\ v.ct.pointers - 1 = o.ct.pointers
    BY <2>2
  <2>4. /\ Deref(v.ct).type = o.ct.type /\ Deref(v.ct).pointers = o.ct.pointers
        /\ Deref(v.ct).const = o.ct.const
    BY <2>2, <2>3, DerefFacts, ShiftFacts
  <2>5. p \in ElementOf(v.to, Deref(v.ct)) /\ p.ct.const = Deref(v.ct).const
    BY <1>1, <2>1, <2>4 DEF ElementOf
  <2> QED BY <1>2, <2>1, <2>2, <2>3, <2>5 DEF ValueOK, Aimed
<1> QED BY <1>3, <1>4

LEMMA ValuesOK ==
  ASSUME PointersInv, NEW v \in Values
  PROVE  ValueOK(v)
BY RootsOK DEF Values, PointersInv

\* From an element, some elements further inside of its object.
LEMMA ElementMoved ==
  ASSUME NEW p \in Elements, NEW n \in Int, NEW s \in Int, s = Stride(p.ct),
         Inside(p.at, p.at + n * s)
  PROVE  \E q \in Elements : q.at = p.at + n * s /\ q.ct = p.ct
<1>1. PICK o \in Objects, i \in Nat :
         i < o.count /\ p.at = o.at + i * Stride(o.ct) /\ p.ct = o.ct
  BY ElementFacts
<1>2. Placed(o.at + i * Stride(o.ct) + n * Stride(o.ct), o.ct) \in Elements
  BY <1>1, Moved
<1> QED BY <1>1, <1>2 DEF Placed

\* What a pointer is at.
LEMMA Target ==
  ASSUME NEW v, ValueOK(v), v.ct.pointers > 0, ~IsVoidPtr(v.ct), v.to # Null
  PROVE  \E p \in Elements :
           /\ p.at = v.to /\ p.ct.type = v.ct.type /\ p.ct.pointers = v.ct.pointers - 1
           /\ p.ct.const \subseteq Deref(v.ct).const
           /\ Covariant(v.ct) \/ p.ct.const = Deref(v.ct).const
           /\ Stride(p.ct) = Step(v.ct) /\ Step(v.ct) \in Nat \ {0}
<1>1. Known(v.ct)
  BY DEF ValueOK
<1>2. PICK p \in ElementOf(v.to, Deref(v.ct)) :
        /\ p.ct.const \subseteq Deref(v.ct).const
        /\ Covariant(v.ct) \/ p.ct.const = Deref(v.ct).const
  BY DEF ValueOK, Aimed
<1>3. /\ p \in Elements /\ p.at = v.to /\ p.ct.type = v.ct.type
      /\ p.ct.pointers = v.ct.pointers - 1
  BY <1>1, <1>2, DerefFacts DEF ElementOf
<1>4. Stride(p.ct) = Step(v.ct)
  BY <1>1, <1>3, ElementFacts, StepFacts
<1>5. Stride(p.ct) \in Nat \ {0}
  BY <1>3, ElementFacts, ObjectFacts
<1> QED BY <1>2, <1>3, <1>4, <1>5

LEMMA InsideFacts ==
  ASSUME NEW a, NEW b, Inside(a, b)
  PROVE  a \in Nat \ {0} /\ b \in Nat \ {0}
<1>1. PICK o \in Objects : {a, b} \subseteq o.at..(o.at + o.count * Stride(o.ct) - 1)
  BY DEF Inside, Extents, Extent
<1>2. o.at \in Nat \ {0}
  BY ObjectFacts
<1>3. o.count * Stride(o.ct) \in Int
  BY ObjectFacts
<1> QED BY <1>1, <1>2, <1>3

-----------------------------------------------------------------------------
(* lookup_cdata_index *)

\* Place p is what type ct says, with no more consts, and all when ct has none
\* of its own.
Suits(p, ct) ==
  /\ Known(ct) /\ p.ct.type = ct.type /\ p.ct.pointers = ct.pointers
  /\ p.ct.const \subseteq ct.const
  /\ Covariant(ct) \/ p.ct.const = ct.const
  /\ Writable(ct) => p.ct.const = ct.const
  /\ IsRecord(ct) => p \in Elements

\* Less than a step below in const, covariant types have all.
LEMMA CovariantDeref ==
  ASSUME NEW ct, Known(ct), ct.pointers > 0, Covariant(ct)
  PROVE  /\ Covariant(Deref(ct))
         /\ 0 \notin Deref(ct).const => Deref(ct).const = {}
<1>1. ct.const \in SUBSET Nat /\ Deref(ct).const = Unshift(ct.const)
  BY DerefFacts
<1>2. /\ Unshift(ct.const) \in SUBSET Nat
      /\ \A b \in Nat : b \in Unshift(ct.const) <=> b + 1 \in ct.const
  BY <1>1, ShiftFacts
<1>3. ASSUME NEW b \in Unshift(ct.const), NEW d \in Nat, d < b
      PROVE  d \in Unshift(ct.const)
  <2>1. b \in Nat /\ b + 1 \in ct.const /\ b + 1 > 1
    BY <1>2, <1>3
  <2>2. d + 1 \in 1..((b + 1) - 1)
    BY <1>3, <2>1
  <2>3. d + 1 \in ct.const
    BY <2>1, <2>2 DEF Covariant
  <2> QED BY <1>2, <2>3
<1>4. Covariant(Deref(ct))
  <2> SUFFICES ASSUME NEW b \in Unshift(ct.const), b > 1, NEW d \in 1..(b - 1)
               PROVE  d \in Unshift(ct.const)
    BY <1>1 DEF Covariant
  <2>1. b \in Nat /\ d \in Nat /\ d < b
    BY <1>2
  <2> QED BY <1>3, <2>1
<1>5. ASSUME 0 \notin Unshift(ct.const) PROVE Unshift(ct.const) = {}
  <2> SUFFICES ASSUME NEW b \in Unshift(ct.const) PROVE FALSE
    OBVIOUS
  <2>1. b \in Nat /\ b # 0
    BY <1>2, <1>5
  <2>2. 0 \in Nat /\ 0 < b
    BY <2>1
  <2> QED BY <1>3, <1>5, <2>2
<1> QED BY <1>1, <1>4, <1>5

LEMMA Found ==
  ASSUME NEW v, ValueOK(v), NEW key \in Keys, NEW e \in Lookup(v.ct, key),
         NEW at, at = v.to + e.offset, Inside(v.to, at)
  PROVE  \E p \in Places : p.at = at /\ Suits(p, e.ct)
<1>1. v.to # Null /\ v.to \in Nat /\ Known(v.ct)
  BY InsideFacts DEF Null, ValueOK
<1>2. CASE IsIndex(key)
  <2>1. /\ v.ct.pointers > 0 /\ ~IsVoidPtr(v.ct)
        /\ e = [ct |-> Deref(v.ct), offset |-> key.index * Step(v.ct)]
    BY <1>2 DEF Lookup
  <2>2. key \in {At(0), At(1)}
    <3>1. \A m \in DOMAIN Members : m # None
      BY PointersAssumption
    <3> QED BY <1>2, <3>1 DEF Keys, IsIndex, Member
  <2>3. key.index \in Int
    BY <2>2 DEF At
  <2>4. PICK p \in Elements :
           /\ p.at = v.to /\ p.ct.type = v.ct.type /\ p.ct.pointers = v.ct.pointers - 1
           /\ p.ct.const \subseteq Deref(v.ct).const
           /\ Covariant(v.ct) \/ p.ct.const = Deref(v.ct).const
           /\ Stride(p.ct) = Step(v.ct) /\ Step(v.ct) \in Nat \ {0}
    BY <1>1, <2>1, Target
  <2>5. PICK q \in Elements : q.at = at /\ q.ct = p.ct
    BY <2>1, <2>3, <2>4, ElementMoved
  <2>6. /\ Known(e.ct) /\ e.ct.type = v.ct.type /\ e.ct.pointers = v.ct.pointers - 1
        /\ e.ct = Deref(v.ct)
    BY <1>1, <2>1, DerefFacts
  <2>7. Covariant(v.ct) => Covariant(e.ct) /\ (Writable(e.ct) => e.ct.const = {})
    BY <1>1, <2>1, <2>6, CovariantDeref DEF Writable
  <2>8. Suits(q, e.ct)
    BY <2>4, <2>5, <2>6, <2>7 DEF Suits
  <2> QED BY <2>5, <2>8 DEF Places
<1>3. CASE ~IsIndex(key)
  <2>1. PICK m \in DOMAIN Members : key = Member(m)
    BY <1>3 DEF Keys, IsIndex, At
  <2>2. IsStruct(v.ct) /\ v.ct.pointers <= 1 /\ e = Members[m] /\ key.member = m
    BY <1>3, <2>1 DEF Lookup, Member
  <2>3. ~IsVoidPtr(v.ct) /\ v.ct.pointers \in Nat
    BY <1>1, <2>2 DEF IsStruct, IsVoidPtr, Known, Ctypes
  <2>4. PICK p \in Elements : p.at = v.to /\ IsStruct(p.ct) /\ p.ct.pointers = 0
    <3>1. CASE v.ct.pointers > 0
      <4>1. v.ct.pointers - 1 = 0
        BY <2>2, <2>3, <3>1
      <4> QED BY <1>1, <2>2, <2>3, <3>1, <4>1, Target DEF IsStruct
    <3>2. CASE v.ct.pointers = 0
      BY <2>2, <3>2 DEF ValueOK, ElementOf, IsStruct
    <3> QED BY <2>3, <3>1, <3>2
  <2>5. PICK q : q = Placed(p.at + Members[m].offset, Members[m].ct)
    OBVIOUS
  <2>6. q \in Places /\ q.at = at /\ q.ct = e.ct
    BY <2>2, <2>4, <2>5 DEF Places, Parts, Placed
  <2>7. Known(e.ct) /\ Covariant(e.ct) /\ ~IsRecord(e.ct)
    BY <2>2, DeclaredFacts, PointersAssumption DEF Declared, MemberOK
  <2> QED BY <2>6, <2>7 DEF Suits
<1> QED BY <1>2, <1>3

-----------------------------------------------------------------------------
(* The actions. *)

LEMMA CellFacts ==
  ASSUME PointersInv, NEW p \in Places, p.ct.pointers > 0
  PROVE  p.at \in Cells /\ mem[p.at] \in Nat /\ Aimed(p.ct, mem[p.at])
<1>1. p.at \in Cells
  BY DEF Cells
<1> QED BY <1>1 DEF PointersInv, MemoryOK

LEMMA IndexKeeps ==
  ASSUME PointersInv, NEW v \in Values, NEW key \in Keys, Index(v, key)
  PROVE  PointersInv'
<1>1. PICK e \in Lookup(v.ct, key) :
        /\ Inside(v.to, v.to + e.offset)
        /\ e.ct.pointers > 0 \/ IsStruct(e.ct)
        /\ value' = Cdata(e.ct, IF e.ct.pointers > 0 THEN Read(v.to + e.offset)
                                                     ELSE v.to + e.offset)
        /\ UNCHANGED mem
  BY DEF Index
<1>2. PICK at : at = v.to + e.offset
  OBVIOUS
<1>3. PICK p \in Places : p.at = at /\ Suits(p, e.ct)
  BY <1>1, <1>2, ValuesOK, Found
<1>4. Known(e.ct) /\ e.ct.pointers \in Nat
  BY <1>3 DEF Suits, Known, Ctypes
<1>5. CASE e.ct.pointers > 0
  <2>1. at \in Cells /\ mem[at] \in Nat /\ Aimed(p.ct, mem[at])
    BY <1>3, <1>5, CellFacts DEF Suits
  <2>2. value'.ct = e.ct /\ value'.to = mem[at]
    BY <1>1, <1>2, <1>5, <2>1 DEF Cdata, Read
  <2>3. Known(p.ct)
    BY <1>3, PlaceFacts, DeclaredFacts
  <2>4. Aimed(e.ct, mem[at])
    BY <1>3, <1>4, <1>5, <2>1, <2>3, AimedWider DEF Suits
  <2>5. ValueOK(value')
    BY <1>4, <1>5, <2>1, <2>2, <2>4 DEF ValueOK
  <2> QED BY <1>1, <2>5 DEF PointersInv, MemoryOK
<1>6. CASE ~(e.ct.pointers > 0)
  <2>1. IsStruct(e.ct) /\ e.ct.pointers = 0
    BY <1>1, <1>4, <1>6
  <2>2. value'.ct = e.ct /\ value'.to = at
    BY <1>1, <1>2, <1>6 DEF Cdata
  <2>3. p \in ElementOf(at, e.ct) /\ p.ct.const \subseteq e.ct.const
    BY <1>3, <2>1 DEF Suits, IsRecord, ElementOf
  <2>4. at \in Nat
    BY <1>1, <1>2, InsideFacts
  <2>5. ValueOK(value')
    BY <1>4, <1>6, <2>1, <2>2, <2>3, <2>4 DEF ValueOK
  <2> QED BY <1>1, <2>5 DEF PointersInv, MemoryOK
<1> QED BY <1>5, <1>6

\* check_typed_pointer
LEMMA ConvertedAim ==
  ASSUME NEW v, ValueOK(v) \/ v = Nil, NEW tt, Known(tt), Covariant(tt), tt.pointers > 0,
         Converts(v, tt)
  PROVE  Aimed(tt, v.to) /\ v.to \in Nat
<1>1. CASE v = Nil
  BY <1>1 DEF Nil, Cdata, Aimed, Null
<1>2. CASE ValueOK(v)
  <2>1. v.to \in Nat /\ Known(v.ct) /\ ~v.ct.null
    BY <1>2 DEF ValueOK, Known
  <2>2. CASE IsVoidPtr(tt)
    BY <2>1, <2>2 DEF Aimed
  <2>3. CASE /\ SameType(tt, AutoDeref(v.ct, tt))
             /\ tt.pointers = AutoDeref(v.ct, tt).pointers
             /\ AutoDeref(v.ct, tt).const \subseteq tt.const
    <3>1. CASE tt.pointers = 1 /\ v.ct.pointers = 0 /\ IsStruct(v.ct)
      <4>1. AutoDeref(v.ct, tt) = Pointed(v.ct)
        BY <3>1 DEF AutoDeref
      <4>2. tt.type = v.ct.type /\ Shifted(v.ct.const) \subseteq tt.const
        BY <2>1, <2>3, <4>1, PointedFacts DEF SameType
      <4>3. PICK p \in ElementOf(v.to, v.ct) : p.ct.const \subseteq v.ct.const
        BY <1>2, <3>1 DEF ValueOK
      <4>4. Deref(tt).type = v.ct.type /\ Deref(tt).pointers = v.ct.pointers
        BY <3>1, <4>2, DerefFacts
      <4>5. p \in ElementOf(v.to, Deref(tt))
        BY <4>3, <4>4 DEF ElementOf
      <4>6. v.ct.const \subseteq Deref(tt).const
        <5>1. /\ v.ct.const \in SUBSET Nat /\ tt.const \in SUBSET Nat
              /\ Deref(tt).const = Unshift(tt.const)
          BY <2>1, DerefFacts, PointedFacts
        <5>2. \A b \in v.ct.const : b \in Nat /\ b + 1 \in tt.const
          BY <4>2, <5>1 DEF Shifted
        <5> QED BY <5>1, <5>2, ShiftFacts
      <4>7. p.ct.const \subseteq Deref(tt).const
        BY <4>3, <4>6
      <4> QED BY <2>1, <4>5, <4>7 DEF Aimed
    <3>2. CASE ~(tt.pointers = 1 /\ v.ct.pointers = 0 /\ IsStruct(v.ct))
      <4>1. AutoDeref(v.ct, tt) = v.ct
        BY <3>2 DEF AutoDeref
      <4>2. Aimed(v.ct, v.to)
        BY <1>2, <2>3, <4>1 DEF ValueOK
      <4> QED BY <2>1, <2>3, <4>1, <4>2, AimedWider DEF SameType
    <3> QED BY <3>1, <3>2
  <2> QED BY <2>1, <2>2, <2>3 DEF Converts, ConstAllows
<1> QED BY <1>1, <1>2

LEMMA ConvertKeeps ==
  ASSUME PointersInv, NEW v \in Values \cup {Nil}, NEW tt \in Types, Convert(v, tt)
  PROVE  PointersInv'
<1>1. Known(tt) /\ Covariant(tt) /\ tt.pointers > 0
  BY DeclaredFacts, PointersAssumption
<1>2. ValueOK(v) \/ v = Nil
  BY ValuesOK
<1>3. Aimed(tt, v.to) /\ v.to \in Nat
  BY <1>1, <1>2, ConvertedAim DEF Convert
<1>4. value'.ct = tt /\ value'.to = v.to
  BY DEF Convert, Cdata
<1>5. ValueOK(value')
  BY <1>1, <1>3, <1>4 DEF ValueOK
<1> QED BY <1>5 DEF PointersInv, MemoryOK, Convert

LEMMA NewIndexKeeps ==
  ASSUME PointersInv, NEW v \in Values, NEW key \in Keys, NEW w \in Values \cup {Nil},
         NewIndex(v, key, w)
  PROVE  PointersInv'
<1>1. PICK e \in Lookup(v.ct, key) :
        /\ Inside(v.to, v.to + e.offset)
        /\ Writable(e.ct) /\ e.ct.pointers > 0
        /\ Converts(w, e.ct)
        /\ mem' = [mem EXCEPT ![v.to + e.offset] = w.to]
        /\ UNCHANGED value
  BY DEF NewIndex
<1>2. PICK at : at = v.to + e.offset
  OBVIOUS
<1>3. PICK p \in Places : p.at = at /\ Suits(p, e.ct)
  BY <1>1, <1>2, ValuesOK, Found
<1>4. Known(p.ct) /\ Covariant(p.ct) /\ p.ct.pointers > 0
  BY <1>1, <1>3, PlaceFacts, DeclaredFacts DEF Suits
<1>5. p.ct.const = e.ct.const /\ Known(e.ct) /\ Covariant(e.ct)
  BY <1>1, <1>3, <1>4 DEF Suits, Covariant
<1>6. Aimed(e.ct, w.to) /\ w.to \in Nat
  BY <1>1, <1>5, ValuesOK, ConvertedAim
<1>7. Aimed(p.ct, w.to)
  BY <1>1, <1>3, <1>4, <1>5, <1>6, AimedWider DEF Suits
<1>8. mem' \in [Cells -> Nat] /\ at \in Cells
  BY <1>1, <1>2, <1>3, <1>4, <1>6, CellFacts DEF PointersInv, MemoryOK
<1>9. ASSUME NEW q \in Places, q.ct.pointers > 0
      PROVE  Aimed(q.ct, mem'[q.at])
  <2>1. q.at \in Cells /\ Aimed(q.ct, mem[q.at])
    BY <1>9, CellFacts
  <2>2. CASE q.at = at
    <3>1. ~IsRecord(p.ct) /\ ~IsRecord(q.ct)
      BY <1>4, <1>9 DEF IsRecord
    <3>2. q = p
      BY <1>3, <2>2, <3>1, PointersAssumption DEF PlacesOK
    <3> QED BY <1>1, <1>2, <1>7, <1>8, <2>2, <3>2 DEF PointersInv, MemoryOK
  <2>3. CASE q.at # at
    BY <1>1, <1>2, <2>1, <2>3 DEF PointersInv, MemoryOK
  <2> QED BY <2>2, <2>3
<1> QED BY <1>1, <1>8, <1>9 DEF PointersInv, MemoryOK

-----------------------------------------------------------------------------
(* Pointer arithmetic *)

\* cdata_add and cdata_sub of a pointer and 1: its type, and a step to one side,
\* cut to the width of a pointer.
LEMMA Applied ==
  ASSUME NEW v, ValueOK(v), v.ct.pointers > 0, NEW op \in {"+", "-"},
         NEW result, result = Apply(op, Value(v.ct, v.to), Value(Number, 1)),
         result.st = "ok"
  PROVE  /\ result.value.ct = v.ct
         /\ \E n \in {1, -1}, k \in Int :
              /\ Unsigned(result.value.val, Width) = v.to + n * Step(v.ct) + k * Pow2[Width]
              /\ Unsigned(result.value.val, Width) < Pow2[Width]
<1> DEFINE M == Pow2[Width]
           s == Step(v.ct)
           left == CheckIntptr(Value(v.ct, v.to))
           right == CheckIntptr(Value(Number, 1))
<1>1. v.to \in Nat /\ v.ct.size \in Nat /\ s \in Nat
  BY OperatorsAssumption DEF ValueOK, Known, Ctypes, Step
<1>2. M \in Int /\ M > 0
  BY WidthFacts
<1>3. left = Wrap(v.to)
  BY DEF CheckIntptr, Value
<1>4. /\ Number.pointers = 0 /\ Number.type = "number" /\ "number" \notin DOMAIN Bits
  BY OperatorsAssumption DEF Number, Ctype
<1>5. right = Wrap(1)
  BY <1>4 DEF CheckIntptr, Value
<1>6. Computable(Value(v.ct, v.to)) /\ Computable(Value(Number, 1))
  BY <1>4 DEF Computable, Value
<1>7. PICK n \in {1, -1} :
        result = PushNumber(IF n = 1 THEN left + s * right ELSE left - s * right, v.ct)
  <2>1. CASE op = "+"
    <3>1. result = Add(Value(v.ct, v.to), Value(Number, 1))
      BY <1>6, <2>1 DEF Apply
    <3>2. result = PushNumber(left + s * right, v.ct)
      BY <1>4, <3>1 DEF Add, Value
    <3> QED BY <3>2
  <2>2. CASE op = "-"
    <3>1. result = Sub(Value(v.ct, v.to), Value(Number, 1))
      BY <1>6, <2>2 DEF Apply
    <3>2. result = PushNumber(left - s * right, v.ct)
      BY <1>4, <3>1 DEF Sub, Value
    <3> QED BY <3>2
  <2> QED BY <2>1, <2>2
<1>8. PICK sum : sum = IF n = 1 THEN left + s * right ELSE left - s * right
  OBVIOUS
<1>9. result = Ok(Value(v.ct, Wrap(sum)))
  BY <1>7, <1>8 DEF PushNumber, Stopped
<1>10. result.value.ct = v.ct /\ result.value.val = Wrap(sum)
  BY <1>9 DEF Ok, Value
<1> HIDE DEF M, s, left, right
<1>11. PICK i \in Int : left = v.to + i * M
  BY <1>1, <1>3, Wrapped DEF M
<1>12. PICK j \in Int : right = 1 + j * M
  BY <1>5, Wrapped DEF M
<1>13. sum \in Int /\ \E k \in Int : sum = v.to + n * s + k * M
  <2>1. CASE n = 1
    <3>1. s * (1 + j * M) = s + (s * j) * M
      BY <1>1, <1>2
    <3>2. sum = v.to + i * M + s + (s * j) * M
      BY <1>1, <1>2, <1>8, <1>11, <1>12, <2>1, <3>1
    <3>3. i * M + (s * j) * M = (i + s * j) * M /\ i + s * j \in Int
      BY <1>1, <1>2
    <3>4. PICK k \in Int : k = i + s * j
      BY <3>3
    <3>5. sum = v.to + n * s + k * M
      BY <1>1, <1>2, <2>1, <3>2, <3>3, <3>4
    <3> QED BY <1>1, <1>2, <3>5
  <2>2. CASE n = -1
    <3>1. s * (1 + j * M) = s + (s * j) * M
      BY <1>1, <1>2
    <3>2. sum = v.to + i * M - s - (s * j) * M
      BY <1>1, <1>2, <1>8, <1>11, <1>12, <2>2, <3>1
    <3>3. i * M - (s * j) * M = (i - s * j) * M /\ i - s * j \in Int
      BY <1>1, <1>2
    <3>4. PICK k \in Int : k = i - s * j
      BY <3>3
    <3>5. sum = v.to + n * s + k * M
      BY <1>1, <1>2, <2>2, <3>2, <3>3, <3>4
    <3> QED BY <1>1, <1>2, <3>5
  <2> QED BY <2>1, <2>2
<1>14. PICK k \in Int : sum = v.to + n * s + k * M
  BY <1>13
<1>15. PICK x \in Int : x = Wrap(sum) /\ \E l \in Int : x = sum + l * M
  BY <1>13, Wrapped DEF M
<1>16. PICK l \in Int : x = sum + l * M
  BY <1>15
<1>17. x % M \in 0..(M - 1) /\ \E r \in Int : x % M = x + r * M
  BY <1>2, Cut
<1>18. PICK r \in Int : x % M = x + r * M
  BY <1>17
<1>19. x % M = v.to + n * s + (k + l + r) * M /\ k + l + r \in Int
  BY <1>1, <1>2, <1>14, <1>16, <1>18
<1>20. Unsigned(result.value.val, Width) = x % M
  BY <1>10, <1>15 DEF Unsigned, M
<1> QED BY <1>2, <1>10, <1>17, <1>19, <1>20 DEF M, s

LEMMA AdvanceKeeps ==
  ASSUME PointersInv, NEW v \in Values, NEW op \in {"+", "-"}, Advance(v, op, 1)
  PROVE  PointersInv'
<1>1. PICK result : result = Apply(op, Value(v.ct, v.to), Value(Number, 1))
  OBVIOUS
<1>2. PICK to : to = Unsigned(result.value.val, Width)
  OBVIOUS
<1>3. /\ v.ct.pointers > 0 /\ ~IsVoidPtr(v.ct)
      /\ result.st = "ok" /\ Inside(v.to, to)
      /\ value' = Cdata([result.value.ct EXCEPT !.array = FALSE], to)
      /\ UNCHANGED mem
  BY <1>1, <1>2 DEF Advance
<1>4. ValueOK(v) /\ Known(v.ct) /\ v.to # Null /\ v.to \in Nat \ {0} /\ to \in Nat \ {0}
  BY <1>3, ValuesOK, InsideFacts DEF ValueOK, Null
<1>5. PICK p \in Elements :
        /\ p.at = v.to /\ p.ct.type = v.ct.type /\ p.ct.pointers = v.ct.pointers - 1
        /\ p.ct.const \subseteq Deref(v.ct).const
        /\ Covariant(v.ct) \/ p.ct.const = Deref(v.ct).const
        /\ Stride(p.ct) = Step(v.ct) /\ Step(v.ct) \in Nat \ {0}
  BY <1>3, <1>4, Target
<1>6. PICK o \in Objects, i \in Nat :
        i < o.count /\ p.at = o.at + i * Stride(o.ct) /\ p.ct = o.ct /\ p.at \in Extent(o)
  BY ElementFacts
<1> DEFINE M == Pow2[Width]
           s == Step(v.ct)
<1>7. /\ o.at \in Nat \ {0} /\ o.count \in Nat \ {0} /\ s \in Nat \ {0} /\ s = Stride(o.ct)
      /\ o.at + o.count * s <= M /\ 2 * (o.count * s) <= M /\ M \in Int /\ M > 0
      /\ o.count * s \in Nat
  <2>1. s = Stride(o.ct) /\ s \in Nat \ {0}
    BY <1>5, <1>6
  <2>2. /\ o.at \in Nat \ {0} /\ o.count \in Nat \ {0}
        /\ o.at + o.count * s <= M /\ 2 * (o.count * s) <= M /\ M \in Int
    BY <2>1, ObjectFacts
  <2>3. o.count * s \in Nat
    BY <2>1, <2>2
  <2> HIDE DEF M, s
  <2>4. M > 0
    BY <2>2, <2>3
  <2> QED BY <2>1, <2>2, <2>3, <2>4
<1>8. /\ result.value.ct = v.ct
      /\ \E n \in {1, -1}, k \in Int : to = v.to + n * s + k * M /\ to < M
  BY <1>1, <1>2, <1>3, <1>4, <1>7, Applied
<1>9. PICK n \in {1, -1}, k \in Int : to = v.to + n * s + k * M
  BY <1>8
<1> HIDE DEF M, s
<1>10. to \in Extent(o) /\ to <= o.at + o.count * s - 1 /\ to >= o.at
  <2>1. PICK x \in Objects : {v.to, to} \subseteq Extent(x)
    BY <1>3 DEF Inside, Extents
  <2>2. to \in Extent(o)
    BY <1>5, <1>6, <2>1, OneObject
  <2> QED BY <1>4, <1>7, <2>2 DEF Extent
<1>11. v.to >= o.at /\ v.to <= o.at + o.count * s - s
  <2>1. i * s <= o.count * s - s /\ i * s \in Nat
    BY <1>6, <1>7, Bound
  <2> QED BY <1>5, <1>6, <1>7, <2>1
<1>12. k = 0
  <2>1. s <= o.count * s
    <3>1. 0 <= i * s
      BY <1>7
    <3> QED BY <1>7, <1>11
  <2>2. CASE k >= 1
    <3>1. k * M >= M
      BY <1>7, <2>2
    <3>2. n * s >= -s
      BY <1>7
    <3>3. to >= o.at - s + M
      BY <1>4, <1>7, <1>9, <1>11, <3>1, <3>2
    <3> QED BY <1>4, <1>7, <1>10, <2>1, <3>3
  <2>3. CASE k <= -1
    <3>1. k * M <= -M
      BY <1>7, <2>3
    <3>2. n * s <= s
      BY <1>7
    <3>3. to <= o.at + o.count * s - M
      BY <1>4, <1>7, <1>9, <1>11, <3>1, <3>2
    <3> QED BY <1>4, <1>7, <3>3
  <2> QED BY <2>2, <2>3
<1>13. to = v.to + n * s
  BY <1>4, <1>7, <1>9, <1>12
<1>14. PICK q \in Elements : q.at = to /\ q.ct = p.ct
  <2>1. s = Stride(p.ct) /\ s \in Int /\ n \in Int
    BY <1>6, <1>7
  <2>2. to = p.at + n * s
    BY <1>5, <1>13
  <2>3. Inside(p.at, p.at + n * s)
    BY ONLY <1>3, <1>5, <2>2
  <2> QED BY <2>1, <2>2, <2>3, ElementMoved
<1>15. PICK ct : ct = [v.ct EXCEPT !.array = FALSE]
  OBVIOUS
<1>16. value'.ct = ct /\ value'.to = to
  BY <1>3, <1>8, <1>15 DEF Cdata
<1>17. /\ Known(ct) /\ ct.type = v.ct.type /\ ct.pointers = v.ct.pointers
       /\ Deref(ct) = Deref(v.ct) /\ (Covariant(ct) <=> Covariant(v.ct))
  BY <1>4, <1>15, ArrayFacts
<1>18. q \in ElementOf(to, Deref(ct))
  BY <1>3, <1>4, <1>5, <1>14, <1>17, DerefFacts DEF ElementOf
<1>19. Aimed(ct, to)
  BY <1>5, <1>14, <1>17, <1>18 DEF Aimed
<1>20. ValueOK(value')
  BY <1>3, <1>4, <1>16, <1>17, <1>19 DEF ValueOK
<1> QED BY <1>3, <1>20 DEF PointersInv, MemoryOK

-----------------------------------------------------------------------------
(* The theorems. *)

LEMMA ClearedOK ==
  ASSUME value = None, mem = Cleared
  PROVE  PointersInv
BY DEF PointersInv, MemoryOK, Cleared, Cells, Aimed, Null

\* The inductive invariant of what a program computes.
THEOREM OperatorsInvariance == SpecPointers => []OperatorsInv
<1>1. InitPointers => OperatorsInv
  BY DEF InitPointers, Init, OperatorsInv, Exact
<1>2. OperatorsInv /\ [NextProgram]_<<held, mem, value>> => OperatorsInv'
  BY OperatorsInductive DEF NextProgram
<1> QED BY <1>1, <1>2, PTL DEF SpecPointers

\* Arithmetic of cdata gives the number it should modulo 2^64: check_intptr, the
\* choice of the result's type by rank, and what is cut off agree at any widths.
THEOREM ArithmeticExact == SpecPointers => []Exact
<1>1. OperatorsInv => Exact
  BY DEF OperatorsInv
<1> QED BY <1>1, OperatorsInvariance, PTL

\* COMPARE_BINOP orders what it compares, the same from either side.
THEOREM ComparisonOrders == SpecPointers => []Ordered
BY HeldOrdered, OperatorsInvariance, PTL

\* The inductive invariant: a pointer a program has or stores is NULL, or at an
\* element of its type, whose consts it sees.
THEOREM PointersInvariance == SpecPointers => []PointersInv
<1>1. InitPointers => PointersInv
  BY ClearedOK DEF InitPointers
<1>2. ASSUME PointersInv, held = <<>> /\ NextPointers /\ UNCHANGED held
      PROVE  PointersInv'
  BY <1>2, IndexKeeps, NewIndexKeeps, AdvanceKeeps, ConvertKeeps DEF NextPointers
<1>3. ASSUME PointersInv, UNCHANGED <<mem, value>> PROVE PointersInv'
  BY <1>3 DEF PointersInv, MemoryOK
<1>4. PointersInv /\ [NextProgram]_<<held, mem, value>> => PointersInv'
  BY <1>2, <1>3 DEF NextProgram
<1> QED BY <1>1, <1>4, PTL DEF SpecPointers

\* Pointers point at what their types say: lookup_cdata_index, pointer
\* arithmetic, check_typed_pointer and stores keep it, for any memory.
THEOREM PointersAim == SpecPointers => []TypedAccess
<1>1. ASSUME NEW ct, NEW to, Aimed(ct, to) PROVE PointsRight(ct, to)
  BY <1>1 DEF Aimed, PointsRight, ElementOf, PlaceOf, Places
<1>2. PointersInv => TypedAccess
  <2> SUFFICES ASSUME PointersInv PROVE TypedAccess
    OBVIOUS
  <2>1. \A p \in Places : p.ct.pointers > 0 => PointsRight(p.ct, mem[p.at])
    BY <1>1, CellFacts
  <2>2. ASSUME value # None
        PROVE  IF value.ct.pointers > 0 THEN PointsRight(value.ct, value.to)
               ELSE PlaceOf(value.to, value.ct) # {}
    BY <1>1, <2>2 DEF PointersInv, ValueOK, ElementOf, PlaceOf, Places
  <2> QED BY <2>1, <2>2 DEF TypedAccess
<1> QED BY <1>2, PointersInvariance, PTL

\* What cdata_newindex may write was not made const.
THEOREM NoConstWritten == SpecPointers => []ConstKept
<1>1. ASSUME PointersInv, NEW v \in Values, NEW key \in Keys, NEW e \in Lookup(v.ct, key),
             NEW at, at = v.to + e.offset, Inside(v.to, at), Writable(e.ct),
             NEW p \in PlaceOf(at, e.ct)
      PROVE  IsStruct(p.ct) \/ Writable(p.ct)
  <2>1. PICK q \in Places : q.at = at /\ Suits(q, e.ct)
    BY <1>1, ValuesOK, Found
  <2>2. Writable(q.ct) /\ q.ct.type = p.ct.type
    BY <1>1, <2>1 DEF Suits, Writable, PlaceOf
  <2>3. p \in Places /\ p.at = q.at
    BY <2>1 DEF PlaceOf
  <2>4. p = q \/ IsStruct(p.ct) \/ IsStruct(q.ct)
    BY <2>3, PointersAssumption DEF PlacesOK, IsRecord
  <2> QED BY <2>2, <2>4 DEF IsStruct
<1>2. PointersInv => ConstKept
  BY <1>1 DEF ConstKept
<1> QED BY <1>2, PointersInvariance, PTL
=============================================================================
