-------------------------- MODULE ParamCodecProofs --------------------------
(***************************************************************************)
(* What is exact on the way between the endpoints, for all limits of types *)
(* and formats: the true ones, 2^7 to 2^63, 2^53, 2^52, 10^15 and 10^17,   *)
(* as well as the small ones of the run.                                   *)
(***************************************************************************)
EXTENDS ParamCodec, WellFoundedInduction, TLAPS

USE DEF Of, Number, Sent, Got

-----------------------------------------------------------------------------
(* Numbers.                                                                *)

\* One unit is the least of any set of units that has it.
LEMMA LeastIsOne ==
  ASSUME NEW S \in SUBSET (Nat \ {0}), 1 \in S
  PROVE  Least(S) = 1
<1>1. \A w \in S : 1 <= w
  OBVIOUS
<1>2. \A u \in S : (\A w \in S : u <= w) => u = 1
  <2> SUFFICES ASSUME NEW u \in S, \A w \in S : u <= w PROVE u = 1
    OBVIOUS
  <2>1. u <= 1 /\ 1 <= u
    BY <1>1
  <2> QED BY <2>1
<1> QED
  BY <1>1, <1>2 DEF Least

LEMMA NearestOne ==
  ASSUME NEW i \in Int
  PROVE  Nearest(i, 1) = i
<1>1. i \div 1 = i /\ i % 1 = 0
  OBVIOUS
<1> QED
  BY <1>1 DEF Nearest

\* A double holds every integer up to Exact.
LEMMA DoubleExact ==
  ASSUME NEW i \in Int, Abs(i) <= Exact
  PROVE  Double(i) = i
<1> DEFINE S == {u \in Twos : Abs(i) <= u * Exact}
<1>0. Abs(i) \in Nat /\ Exact \in Nat
  BY ParamCodecAssumption DEF Abs
<1>1. S \in SUBSET (Nat \ {0}) /\ 1 \in S
  <2>1. 1 \in Twos /\ Abs(i) <= 1 * Exact
    BY <1>0, ParamCodecAssumption
  <2> QED BY <2>1, ParamCodecAssumption
<1>2. Least(S) = 1
  BY <1>1, LeastIsOne
<1> QED
  BY <1>2, NearestOne DEF Double

\* A text has every integer that is shorter than it.
LEMMA DigitsExact ==
  ASSUME NEW i \in Int, NEW size \in Nat, Abs(i) < size
  PROVE  Digits(i, size) = i
<1> DEFINE S == {u \in Tens : Abs(i) < u * size}
<1>0. Abs(i) \in Nat /\ Exact \in Nat
  BY ParamCodecAssumption DEF Abs
<1>1. S \in SUBSET (Nat \ {0}) /\ 1 \in S
  <2>1. 1 \in Tens /\ Abs(i) < 1 * size
    BY <1>0, ParamCodecAssumption
  <2> QED BY <2>1, ParamCodecAssumption
<1>2. Least(S) = 1
  BY <1>1, LeastIsOne
<1> QED
  BY <1>2, NearestOne DEF Digits

\* Every set of units has a least one.
LEMMA LeastUnit ==
  ASSUME NEW S \in SUBSET (Nat \ {0}), S # {}
  PROVE  Least(S) \in S /\ \A w \in S : Least(S) <= w
<1>1. IsWellFoundedOn(OpToRel(<, Nat), Nat)
  BY NatLessThanWellFounded
<1>2. PICK i \in S : \A j \in S : <<j, i>> \notin OpToRel(<, Nat)
  BY <1>1, WFMin, Zenon
<1>3. \A j \in S : ~(j < i)
  BY <1>2 DEF OpToRel
<1>4. \A j \in S : i <= j
  BY <1>3
<1> QED
  BY <1>2, <1>4 DEF Least

\* A multiple of u is no further from an integer than half of u.
LEMMA NearestNear ==
  ASSUME NEW i \in Int, NEW u \in Nat \ {0}
  PROVE  Nearest(i, u) \in Int /\ 2 * Abs(Nearest(i, u) - i) <= u
<1> DEFINE q == i \div u
           r == i % u
<1>1. q \in Int /\ r \in 0..(u - 1) /\ i = u * q + r
  OBVIOUS
<1>2. u * (q + 1) = u * q + u /\ u * q \in Int
  BY <1>1
<1>3. Nearest(i, u) = IF 2 * r < u \/ (2 * r = u /\ q % 2 = 0) THEN u * q ELSE u * (q + 1)
  BY DEF Nearest
<1>4. CASE 2 * r < u \/ (2 * r = u /\ q % 2 = 0)
  <2>1. Nearest(i, u) - i = -r
    BY <1>1, <1>2, <1>3, <1>4
  <2> QED BY <1>1, <1>2, <1>3, <1>4, <2>1 DEF Abs
<1>5. CASE ~(2 * r < u \/ (2 * r = u /\ q % 2 = 0))
  <2>1. Nearest(i, u) - i = u - r /\ 2 * r >= u
    BY <1>1, <1>2, <1>3, <1>5
  <2> QED BY <1>1, <1>2, <1>3, <1>5, <2>1 DEF Abs
<1> QED
  BY <1>4, <1>5

\* A double is within half a unit of DBL_EPSILON of the integer it stands for.
LEMMA DoubleNear ==
  ASSUME NEW i \in Int, Abs(i) <= 16 * H64
  PROVE  Double(i) \in Int /\ 2 * (Epsilon * Abs(Double(i) - i)) <= Abs(i)
<1> DEFINE S == {u \in Twos : Abs(i) <= u * Exact}
           u == Least(S)
           e == Abs(Double(i) - i)
<1>0. /\ Exact \in Nat /\ Epsilon \in Nat /\ H64 \in Nat /\ 2 * Epsilon <= Exact
      /\ Abs(i) \in Nat /\ Twos \subseteq Nat \ {0}
  BY ParamCodecAssumption DEF Abs
<1>1. S \in SUBSET (Nat \ {0}) /\ S # {}
  <2>1. PICK v \in Twos : 16 * H64 <= v * Exact
    BY SpacingAssumption
  <2>2. v * Exact \in Nat
    BY <1>0
  <2>3. v \in S
    BY <2>1, <2>2, <1>0
  <2> QED BY <2>3, <1>0
<1>2. u \in S /\ \A w \in S : u <= w
  BY <1>1, LeastUnit
<1>3. u \in Nat \ {0} /\ Double(i) = Nearest(i, u)
  BY <1>1, <1>2 DEF Double
<1> HIDE DEF u
<1>4. Double(i) \in Int /\ 2 * e <= u /\ e \in Nat
  <2>1. Nearest(i, u) \in Int /\ 2 * Abs(Nearest(i, u) - i) <= u
    BY <1>3, NearestNear
  <2>2. Double(i) \in Int /\ 2 * e <= u
    BY <1>3, <2>1
  <2> QED BY <2>2 DEF Abs
<1>5. CASE u = 1
  BY <1>4, <1>5, <1>0
<1>6. CASE u # 1
  <2>1. PICK w \in Twos : u = 2 * w
    BY <1>2, <1>6, SpacingAssumption
  <2>2. w \in Nat \ {0} /\ w < u /\ w * Exact \in Nat
    BY <1>0, <2>1
  <2>3. w \notin S
    BY <2>2, <1>2, <1>3
  <2>4. w * Exact < Abs(i)
    BY <2>1, <2>2, <2>3, <1>0
  <2>5. e <= w
    BY <1>4, <2>1, <2>2
  <2>6. e * (2 * Epsilon) <= w * (2 * Epsilon)
    BY <2>5, <2>2, <1>4, <1>0
  <2>7. w * (2 * Epsilon) <= w * Exact
    BY <2>2, <1>0
  <2>8. e * (2 * Epsilon) = 2 * (Epsilon * e)
    BY <1>4, <1>0
  <2>9. e * (2 * Epsilon) \in Nat /\ w * (2 * Epsilon) \in Nat
    BY <1>4, <2>2, <1>0
  <2> QED
    BY <2>4, <2>6, <2>7, <2>8, <2>9, <2>2, <1>0, <1>4
<1> QED
  BY <1>5, <1>6

\* A text of so many digits is within five of the last, next to the first.
LEMMA DigitsNear ==
  ASSUME NEW i \in Int, NEW size \in Nat, Short <= size, Abs(i) <= 16 * H64
  PROVE  Digits(i, size) \in Int /\ size * Abs(Digits(i, size) - i) <= 5 * Abs(i)
<1> DEFINE S == {u \in Tens : Abs(i) < u * size}
           u == Least(S)
           e == Abs(Digits(i, size) - i)
<1>0. Short \in Nat /\ H64 \in Nat /\ Abs(i) \in Nat /\ Tens \subseteq Nat \ {0}
  BY ParamCodecAssumption DEF Abs
<1>1. S \in SUBSET (Nat \ {0}) /\ S # {}
  <2>1. PICK v \in Tens : 16 * H64 < v * Short
    BY SpacingAssumption
  <2>2. v * Short <= v * size /\ v * Short \in Nat /\ v * size \in Nat
    BY <1>0
  <2>3. v \in S
    BY <2>1, <2>2, <1>0
  <2> QED BY <2>3, <1>0
<1>2. u \in S /\ \A w \in S : u <= w
  BY <1>1, LeastUnit
<1>3. u \in Nat \ {0} /\ Digits(i, size) = Nearest(i, u)
  BY <1>1, <1>2 DEF Digits
<1> HIDE DEF u
<1>4. Digits(i, size) \in Int /\ 2 * e <= u /\ e \in Nat
  <2>1. Nearest(i, u) \in Int /\ 2 * Abs(Nearest(i, u) - i) <= u
    BY <1>3, NearestNear
  <2>2. Digits(i, size) \in Int /\ 2 * e <= u
    BY <1>3, <2>1
  <2> QED BY <2>2 DEF Abs
<1>5. CASE u = 1
  BY <1>4, <1>5, <1>0
<1>6. CASE u # 1
  <2>1. PICK w \in Tens : u = 10 * w
    BY <1>2, <1>6, SpacingAssumption
  <2>2. w \in Nat \ {0} /\ w < u /\ w * size \in Nat
    BY <1>0, <2>1
  <2>3. w \notin S
    BY <2>2, <1>2, <1>3
  <2>4. w * size <= Abs(i)
    BY <2>1, <2>2, <2>3, <1>0
  <2>5. e <= 5 * w
    BY <1>4, <2>1, <2>2
  <2>6. size * e <= size * (5 * w)
    BY <2>5, <2>2, <1>4
  <2>7. size * (5 * w) = 5 * (w * size) /\ size * e \in Nat
    BY <2>2, <1>4
  <2> QED
    BY <2>4, <2>6, <2>7, <2>2, <1>0, <1>4
<1> QED
  BY <1>5, <1>6

\* compare_double tells integers apart whose magnitude is below Epsilon - 1.
LEMMA CompareExact ==
  ASSUME NEW a \in Int, NEW d \in Int, Abs(d) < Epsilon - 1, Compare(a, d)
  PROVE  a = d
<1> SUFFICES ASSUME a # d PROVE FALSE
  OBVIOUS
<1>e. Epsilon \in Nat \ {0}
  BY ParamCodecAssumption
<1> DEFINE k == Abs(a - d)
<1>1. k \in Nat /\ k >= 1
  BY DEF Abs
<1>2. Abs(a) <= Abs(d) + k /\ Abs(a) \in Nat /\ Abs(d) \in Nat
  BY DEF Abs
<1>3. k * Epsilon <= Abs(d) + k
  BY <1>1, <1>2, <1>e DEF Compare, Abs
<1>4. (k - 1) * (Epsilon - 1) >= 0
  BY <1>1, <1>e
<1>5. k * Epsilon >= k + Epsilon - 1
  BY <1>4, <1>1, <1>e
<1> QED
  BY <1>3, <1>5, <1>1, <1>2, <1>e

LEMMA ScaleNat ==
  ASSUME NEW E \in Nat, NEW a \in Nat, NEW b \in Nat, a <= b
  PROVE  E * a <= E * b /\ E * a \in Nat /\ E * b \in Nat
OBVIOUS

LEMMA EpsilonIsLarge == Epsilon \in Nat /\ Epsilon >= 8
BY ParamCodecAssumption

\* Deviations of a step after another add up.
LEMMA Triangle ==
  ASSUME NEW a \in Int, NEW b \in Int, NEW c \in Int
  PROVE  /\ Abs(a - c) \in Nat /\ Abs(a - b) \in Nat /\ Abs(b - c) \in Nat
         /\ Abs(a) \in Nat /\ Abs(b) \in Nat /\ Abs(c) \in Nat
         /\ Epsilon * Abs(a - c) <= Epsilon * Abs(a - b) + Epsilon * Abs(b - c)
         /\ Epsilon * Abs(a - b) \in Nat /\ Epsilon * Abs(b - c) \in Nat
         /\ Epsilon * Abs(a - c) \in Nat
         /\ Abs(a) <= Abs(b) + Abs(a - b)
         /\ 8 * Abs(a - b) <= Epsilon * Abs(a - b)
<1> DEFINE x == Abs(a - b)
           y == Abs(b - c)
           z == Abs(a - c)
<1>1. /\ x \in Nat /\ y \in Nat /\ z \in Nat /\ z <= x + y
      /\ Abs(a) \in Nat /\ Abs(b) \in Nat /\ Abs(c) \in Nat /\ Abs(a) <= Abs(b) + x
  BY DEF Abs
<1> HIDE DEF x, y, z
<1>2. Epsilon * z <= Epsilon * (x + y) /\ Epsilon * z \in Nat
  BY <1>1, EpsilonIsLarge, ScaleNat
<1>3. Epsilon * (x + y) = Epsilon * x + Epsilon * y /\ Epsilon * x \in Nat /\ Epsilon * y \in Nat
  BY <1>1, EpsilonIsLarge
<1>4. 8 * x <= Epsilon * x
  BY <1>1, EpsilonIsLarge
<1>5. /\ z \in Nat /\ x \in Nat /\ y \in Nat
      /\ Epsilon * z <= Epsilon * x + Epsilon * y
      /\ Epsilon * x \in Nat /\ Epsilon * y \in Nat /\ Epsilon * z \in Nat
      /\ Abs(a) <= Abs(b) + x /\ 8 * x <= Epsilon * x
  BY <1>1, <1>2, <1>3, <1>4
<1> QED
  BY <1>1, <1>5 DEF x, y, z

\* The integers that the endpoints send.
Range64 == (-2 * H64)..(2 * H64)

LEMMA RangeBound ==
  ASSUME NEW n \in Range64
  PROVE  n \in Int /\ Abs(n) \in Nat /\ Abs(n) <= 2 * H64 /\ H64 \in Nat
BY ParamCodecAssumption DEF Range64, Abs

\* The double of an integer is a neighbour of it.
LEMMA DoubleOf ==
  ASSUME NEW n \in Range64
  PROVE  /\ Double(n) \in Int /\ Abs(Double(n)) <= 4 * H64
         /\ 2 * (Epsilon * Abs(Double(n) - n)) <= Abs(n)
<1>1. n \in Int /\ Abs(n) \in Nat /\ Abs(n) <= 2 * H64 /\ H64 \in Nat
  BY RangeBound
<1>2. Double(n) \in Int /\ 2 * (Epsilon * Abs(Double(n) - n)) <= Abs(n)
  BY <1>1, DoubleNear
<1>3. /\ Abs(Double(n)) <= Abs(n) + Abs(Double(n) - n)
      /\ 8 * Abs(Double(n) - n) <= Epsilon * Abs(Double(n) - n)
      /\ Abs(Double(n) - n) \in Nat /\ Abs(Double(n)) \in Nat
      /\ Epsilon * Abs(Double(n) - n) \in Nat
  BY <1>1, <1>2, Triangle
<1> QED
  BY <1>1, <1>2, <1>3

\* A text of 15 digits or more of such a double, and the double of that.
LEMMA TextOf ==
  ASSUME NEW d \in Int, NEW size \in Nat, Short <= size, Abs(d) <= 4 * H64
  PROVE  /\ Digits(d, size) \in Int /\ Abs(Digits(d, size)) <= 16 * H64
         /\ size * Abs(Digits(d, size) - d) <= 5 * Abs(d)
         /\ Double(Digits(d, size)) \in Int
         /\ 2 * (Epsilon * Abs(Double(Digits(d, size)) - Digits(d, size))) <= Abs(Digits(d, size))
<1> DEFINE t == Digits(d, size)
           e == Abs(t - d)
<1>0. H64 \in Nat /\ 10 <= Short /\ Short \in Nat /\ Abs(d) \in Nat /\ Abs(d) <= 16 * H64
  BY ParamCodecAssumption DEF Abs
<1>1. t \in Int /\ size * e <= 5 * Abs(d)
  BY <1>0, DigitsNear
<1>2. e \in Nat /\ Abs(t) \in Nat /\ Abs(t) <= Abs(d) + e
  BY <1>1 DEF Abs
<1> HIDE DEF e
<1>3. 10 * e <= size * e /\ size * e \in Nat
  BY <1>0, <1>2
<1>4. Abs(t) <= 16 * H64
  BY <1>0, <1>1, <1>2, <1>3
<1>5. Double(t) \in Int /\ 2 * (Epsilon * Abs(Double(t) - t)) <= Abs(t)
  BY <1>1, <1>4, DoubleNear
<1> QED
  BY <1>1, <1>4, <1>5 DEF e

\* What print_number writes, and what comes of it, is close to what it was given.
LEMMA PrintedNear ==
  ASSUME NEW n \in Range64
  PROVE  /\ Printed(Double(n)) \in Int /\ Double(Printed(Double(n))) \in Int
         /\ Epsilon * Abs(Double(Printed(Double(n))) - n) <= 2 * Abs(n)
<1> DEFINE d == Double(n)
           p == Printed(d)
           g == Double(p)
<1>1. n \in Int /\ Abs(n) \in Nat
  BY RangeBound
<1>2. d \in Int /\ Abs(d) <= 4 * H64 /\ 2 * (Epsilon * Abs(d - n)) <= Abs(n)
  BY DoubleOf
<1>3. /\ H64 \in Nat /\ H32 \in Nat /\ Short \in Nat /\ Long \in Nat /\ Abs(d) \in Nat
      /\ Short <= Long /\ 20 * Epsilon <= Long
  BY <1>2, ParamCodecAssumption DEF Abs
<1>4. Epsilon \in Nat /\ Epsilon >= 8
  BY EpsilonIsLarge
<1> HIDE DEF d
<1>5. /\ Abs(d) <= Abs(n) + Abs(d - n) /\ 8 * Abs(d - n) <= Epsilon * Abs(d - n)
      /\ Abs(d - n) \in Nat /\ Epsilon * Abs(d - n) \in Nat
  BY <1>1, <1>2, Triangle
<1>6. CASE Holds("i32", d)
  <2>1. p = d
    BY <1>6 DEF Printed
  <2>2. Abs(d) <= 16 * H64
    BY <1>2, <1>3
  <2>3. g \in Int /\ 2 * (Epsilon * Abs(g - d)) <= Abs(d)
    BY <2>1, <2>2, <1>2, DoubleNear
  <2>4. /\ Epsilon * Abs(g - n) <= Epsilon * Abs(g - d) + Epsilon * Abs(d - n)
        /\ Epsilon * Abs(g - n) \in Nat /\ Epsilon * Abs(g - d) \in Nat
    BY <2>3, <1>1, <1>2, Triangle
  <2>5. Epsilon * Abs(g - n) <= 2 * Abs(n)
    BY <1>1, <1>2, <1>3, <1>5, <2>3, <2>4
  <2> QED
    BY <2>1, <2>3, <2>5, <1>2 DEF d
<1>7. CASE ~Holds("i32", d) /\ Compare(Double(Digits(d, Short)), d)
  <2>1. p = Digits(d, Short)
    BY <1>7 DEF Printed
  <2>2. p \in Int /\ g \in Int
    BY <2>1, <1>2, <1>3, TextOf
  <2>3. Epsilon * Abs(g - d) <= Abs(IF Abs(g) > Abs(d) THEN g ELSE d)
    <3>1. Abs(g - d) * Epsilon <= Abs(IF Abs(g) > Abs(d) THEN g ELSE d)
      BY <2>1, <1>7 DEF Compare
    <3>2. Abs(g - d) \in Nat
      BY <2>2, <1>2 DEF Abs
    <3> HIDE DEF g
    <3> QED BY <3>1, <3>2, <1>4
  <2>4. /\ Epsilon * Abs(g - n) <= Epsilon * Abs(g - d) + Epsilon * Abs(d - n)
        /\ Epsilon * Abs(g - n) \in Nat /\ Epsilon * Abs(g - d) \in Nat
        /\ Abs(g) <= Abs(d) + Abs(g - d) /\ 8 * Abs(g - d) <= Epsilon * Abs(g - d)
        /\ Abs(g - d) \in Nat /\ Abs(g) \in Nat
    BY <2>2, <1>1, <1>2, Triangle
  <2>5. Epsilon * Abs(g - d) <= IF Abs(g) > Abs(d) THEN Abs(g) ELSE Abs(d)
    BY <2>3
  <2>6. Epsilon * Abs(g - n) <= 2 * Abs(n)
    BY <1>1, <1>2, <1>3, <1>5, <2>4, <2>5
  <2> QED
    BY <2>2, <2>6 DEF d
<1>8. CASE ~Holds("i32", d) /\ ~Compare(Double(Digits(d, Short)), d)
  <2>1. p = Digits(d, Long)
    BY <1>8 DEF Printed
  <2>2. /\ p \in Int /\ Long * Abs(p - d) <= 5 * Abs(d)
        /\ g \in Int /\ 2 * (Epsilon * Abs(g - p)) <= Abs(p)
    BY <2>1, <1>2, <1>3, TextOf
  <2>3. /\ Epsilon * Abs(g - n) <= Epsilon * Abs(g - d) + Epsilon * Abs(d - n)
        /\ Epsilon * Abs(g - n) \in Nat /\ Epsilon * Abs(g - d) \in Nat
    BY <2>2, <1>1, <1>2, Triangle
  <2>4. /\ Epsilon * Abs(g - d) <= Epsilon * Abs(g - p) + Epsilon * Abs(p - d)
        /\ Epsilon * Abs(g - p) \in Nat
    BY <2>2, <1>2, Triangle
  <2>5. /\ Abs(p) <= Abs(d) + Abs(p - d) /\ 8 * Abs(p - d) <= Epsilon * Abs(p - d)
        /\ Abs(p - d) \in Nat /\ Abs(p) \in Nat /\ Epsilon * Abs(p - d) \in Nat
    BY <2>2, <1>2, Triangle
  <2>6. 20 * (Epsilon * Abs(p - d)) <= 5 * Abs(d)
    <3> DEFINE e == Abs(p - d)
    <3>1. e \in Nat /\ Long * e <= 5 * Abs(d)
      BY <2>2, <2>5
    <3> HIDE DEF e
    <3>2. (20 * Epsilon) * e <= Long * e
      BY <3>1, <1>3, <1>4
    <3>3. (20 * Epsilon) * e = 20 * (Epsilon * e) /\ Epsilon * e \in Nat /\ Long * e \in Nat
      BY <3>1, <1>3, <1>4
    <3>4. 20 * (Epsilon * e) <= 5 * Abs(d)
      BY <3>1, <3>2, <3>3, <1>3
    <3> QED BY <3>4 DEF e
  <2>7. Epsilon * Abs(g - n) <= 2 * Abs(n)
    BY <1>1, <1>2, <1>3, <1>5, <2>2, <2>3, <2>4, <2>5, <2>6
  <2> QED
    BY <2>2, <2>7 DEF d
<1> QED
  BY <1>6, <1>7, <1>8

\* An integer below Epsilon - 1 survives cJSON.
LEMMA PrintedExact ==
  ASSUME NEW n \in (-2 * H64)..(2 * H64), Abs(n) < Epsilon - 1
  PROVE  Double(Printed(Double(n))) = n
<1>1. Abs(n) \in Nat /\ Abs(n) <= Exact /\ Abs(n) < Long /\ Short \in Nat /\ Long \in Nat
  BY ParamCodecAssumption DEF Abs
<1>2. Double(n) = n
  BY <1>1, DoubleExact
<1>3. CASE Holds("i32", n)
  BY <1>2, <1>3 DEF Printed
<1>4. CASE ~Holds("i32", n) /\ Compare(Double(Digits(n, Short)), n)
  <2>1. Printed(n) = Digits(n, Short)
    BY <1>4 DEF Printed
  <2>2. Double(Digits(n, Short)) \in Int
    <3>1. n \in Range64 /\ Abs(n) <= 4 * H64
      BY <1>2, DoubleOf DEF Range64
    <3> QED BY <3>1, <1>1, RangeBound, TextOf
  <2> QED
    BY <1>2, <1>4, <2>1, <2>2, CompareExact
<1>5. CASE ~Holds("i32", n) /\ ~Compare(Double(Digits(n, Short)), n)
  <2>1. Printed(n) = Digits(n, Long)
    BY <1>5 DEF Printed
  <2>2. Digits(n, Long) = n
    BY <1>1, DigitsExact
  <2> QED
    BY <1>2, <2>1, <2>2
<1> QED
  BY <1>3, <1>4, <1>5

-----------------------------------------------------------------------------
(* Types.                                                                  *)

LEMMA Limits ==
  /\ IntTypes = {"i8", "u8", "i16", "u16", "i32", "u32", "i64", "u64"}
  /\ Limit["i8"] = H8 /\ Limit["u8"] = H8 /\ Limit["i16"] = H16 /\ Limit["u16"] = H16
  /\ Limit["i32"] = H32 /\ Limit["u32"] = H32 /\ Limit["i64"] = H64 /\ Limit["u64"] = H64
BY DEF IntTypes, Limit

LEMMA TestOrder ==
  /\ Tests[1] = "i8" /\ Tests[2] = "u8" /\ Tests[3] = "i16" /\ Tests[4] = "u16"
  /\ Tests[5] = "i32" /\ Tests[6] = "u32" /\ Tests[7] = "i64" /\ Tests[8] = "u64"
  /\ \A t \in IntTypes : \E k \in 1..8 : t = Tests[k]
<1>1. /\ Tests[1] = "i8" /\ Tests[2] = "u8" /\ Tests[3] = "i16" /\ Tests[4] = "u16"
      /\ Tests[5] = "i32" /\ Tests[6] = "u32" /\ Tests[7] = "i64" /\ Tests[8] = "u64"
  BY DEF Tests
<1> QED
  BY <1>1, Limits

\* The limits grow along the tests.
LEMMA LimitsGrow ==
  ASSUME NEW j \in 1..8, NEW k \in 1..8, j <= k
  PROVE  Limit[Tests[j]] <= Limit[Tests[k]]
<1>1. H8 <= H16 /\ H16 <= H32 /\ H32 <= H64 /\ {H8, H16, H32, H64} \subseteq Nat
  BY ParamCodecAssumption
<1> QED
  BY <1>1, Limits, TestOrder

\* encode_param announces the first type, and so the smallest, that holds an integer.
LEMMA FirstTypeFits ==
  ASSUME NEW i \in Int, NEW t \in IntTypes, Holds(t, i)
  PROVE  /\ FirstType(i) \in IntTypes /\ Holds(FirstType(i), i)
         /\ Limit[FirstType(i)] <= Limit[t]
<1> DEFINE First(k) == Holds(Tests[k], i) /\ \A j \in 1..(k - 1) : ~Holds(Tests[j], i)
<1>1. PICK m \in 1..8 : t = Tests[m]
  BY TestOrder
<1>2. \E k \in 1..8 : First(k)
  <2>1. CASE Holds(Tests[1], i)
    BY <2>1
  <2>2. CASE ~Holds(Tests[1], i) /\ Holds(Tests[2], i)
    BY <2>2
  <2>3. CASE (\A j \in 1..2 : ~Holds(Tests[j], i)) /\ Holds(Tests[3], i)
    BY <2>3
  <2>4. CASE (\A j \in 1..3 : ~Holds(Tests[j], i)) /\ Holds(Tests[4], i)
    BY <2>4
  <2>5. CASE (\A j \in 1..4 : ~Holds(Tests[j], i)) /\ Holds(Tests[5], i)
    BY <2>5
  <2>6. CASE (\A j \in 1..5 : ~Holds(Tests[j], i)) /\ Holds(Tests[6], i)
    BY <2>6
  <2>7. CASE (\A j \in 1..6 : ~Holds(Tests[j], i)) /\ Holds(Tests[7], i)
    BY <2>7
  <2>8. CASE (\A j \in 1..7 : ~Holds(Tests[j], i)) /\ Holds(Tests[8], i)
    BY <2>8
  <2> QED
    BY <1>1, <2>1, <2>2, <2>3, <2>4, <2>5, <2>6, <2>7, <2>8
<1>3. PICK k \in 1..8 : First(k) /\ FirstType(i) = Tests[k]
  BY <1>2 DEF FirstType
<1>4. k <= m
  BY <1>1, <1>3
<1>5. Tests[k] \in IntTypes
  BY Limits, TestOrder
<1> QED
  BY <1>1, <1>3, <1>4, <1>5, LimitsGrow

\* The C endpoint announces a type that holds its parameter.
LEMMA CTypeFits ==
  ASSUME NEW p \in CParams, p.kind = "int"
  PROVE  CType(p) \in IntTypes /\ Holds(CType(p), p.n)
<1>1. /\ {H32, H64} \subseteq Nat \ {0} /\ 2 * H32 <= H64
  BY ParamCodecAssumption
<1>2. CASE p.type = "INT"
  <2>1. p.n \in (-H64)..(H64 - 1)
    BY <1>2 DEF CParams
  <2> QED BY <1>1, <1>2, <2>1, Limits DEF CType, Holds, Signed
<1>3. CASE p.type \in {"UINT", "PTR"}
  <2>1. p.n \in 0..(2 * H64 - 1)
    BY <1>3 DEF CParams
  <2> QED BY <1>1, <1>3, <2>1, Limits DEF CType, Holds, Signed
<1> QED
  BY <1>2, <1>3 DEF CParams, Floats

-----------------------------------------------------------------------------
(* The invariant: what is on the wire is the encoding of what was sent, and *)
(* what was got is a reading of what is on the wire.                       *)

Begins == sent = None => wire = None /\ got = None

WireIsEncoding ==
  wire # None =>
    /\ sent.by = "python" => wire.v = sent.v /\ wire.t = PythonType(sent.v)
    /\ sent.by = "c" /\ sent.v.kind = "int" =>
         /\ Sent \in Range64 /\ Holds(wire.t, Sent)
         /\ wire.v = Number(Printed(Double(Sent)))
    /\ sent.by = "c" /\ sent.v.kind # "int" => wire.v.kind # "int"

CReading ==
  /\ sent.by = "python"
  /\ IF wire.t \in CResults THEN \E i \in ToPointer(Double(wire.v.n)) : got.v = Number(i)
                            ELSE got.v = Number(0)

GotIsReading ==
  got # None /\ wire # None => IF got.by = "python" THEN got.v = Decoded ELSE CReading

IInv == TypeOK /\ Begins /\ WireIsEncoding /\ GotIsReading

\* Integers on their way have a nearest double, and it has a text.
LEMMA Spacing ==
  ASSUME NEW i \in Range64
  PROVE  Double(i) \in Int /\ Printed(Double(i)) \in Int /\ Double(Printed(Double(i))) \in Int
BY DoubleOf, PrintedNear

LEMMA HeldInRange ==
  ASSUME NEW t \in IntTypes, NEW i \in Int, Holds(t, i)
  PROVE  i \in Range64
<1>1. {H8, H16, H32, H64} \subseteq Nat /\ H8 <= H64 /\ H16 <= H64 /\ H32 <= H64
  BY ParamCodecAssumption
<1> QED
  BY <1>1, Limits DEF Holds, Range64

\* What C makes of a double is a uintptr_t.
LEMMA PointerType ==
  ASSUME NEW d \in Int
  PROVE  ToPointer(d) \subseteq 0..(2 * H64 - 1)
<1>1. H64 \in Nat \ {0} /\ 2 * H64 \in Nat \ {0}
  BY ParamCodecAssumption
<1>2. d % (2 * H64) \in 0..(2 * H64 - 1)
  BY <1>1
<1>3. Holds("u64", d) => d \in 0..(2 * H64 - 1)
  BY <1>1, Limits DEF Holds, Signed
<1> QED
  BY <1>1, <1>2, <1>3 DEF ToPointer

\* encode_param announces an integer type for integers only, and one that holds them.
LEMMA PythonTypes ==
  ASSUME NEW v \in Value, PythonType(v) # None
  PROVE  /\ PythonType(v) \in IntTypes \cup {"f32", "f64", "bytes"}
         /\ PythonType(v) \in CResults => v.kind = "int"
         /\ v.kind = "int" => /\ PythonType(v) \in IntTypes /\ Holds(PythonType(v), v.n)
                              /\ \A t \in IntTypes : Holds(t, v.n) =>
                                   Limit[PythonType(v)] <= Limit[t]
<1>1. CASE v.kind = "int"
  <2>1. PICK t \in IntTypes : Holds(t, v.n)
    BY <1>1 DEF PythonType
  <2>2. PythonType(v) = FirstType(v.n)
    BY <1>1, <2>1 DEF PythonType
  <2>3. v.n \in Int
    BY DEF Value
  <2> QED BY <1>1, <2>1, <2>2, <2>3, FirstTypeFits
<1>2. CASE v.kind # "int"
  BY <1>2 DEF PythonType, CResults
<1> QED
  BY <1>1, <1>2

\* Of the integers from 0 on, those from 2^16 get a type that rffi_ep_call takes.
LEMMA ResultTypes ==
  ASSUME NEW v \in Value, PythonType(v) # None, v.kind = "int", v.n >= 0
  PROVE  PythonType(v) \in CResults <=> v.n >= 2 * H16
<1> DEFINE t == PythonType(v)
<1>1. /\ {H8, H16, H32, H64} \subseteq Nat \ {0}
      /\ 2 * H8 <= H16 /\ 2 * H16 <= H32 /\ 2 * H32 <= H64 /\ v.n \in Int
  BY ParamCodecAssumption DEF Value
<1>2. t \in IntTypes /\ Holds(t, v.n) /\ \A u \in IntTypes : Holds(u, v.n) => Limit[t] <= Limit[u]
  BY PythonTypes
<1> HIDE DEF t
<1>3. ASSUME v.n < 2 * H16
      PROVE  t \notin CResults
  <2>1. "u16" \in IntTypes /\ Limit["u16"] = H16 /\ Holds("u16", v.n)
    BY <1>1, <1>3, Limits DEF Holds, Signed
  <2>2. Limit[t] <= H16
    BY <1>2, <2>1
  <2> QED
    BY <1>1, <1>2, <2>2, Limits DEF CResults
<1>4. ASSUME v.n >= 2 * H16
      PROVE  t \in CResults
  <2>1. Limit[t] \in Nat
    BY <1>1, <1>2, Limits
  <2>2. v.n < 2 * Limit[t]
    BY <1>1, <1>2, <2>1 DEF Holds
  <2>3. Limit[t] > H16
    BY <1>1, <1>4, <2>1, <2>2
  <2> QED
    BY <1>1, <1>2, <2>3, Limits DEF CResults
<1> QED
  BY <1>1, <1>3, <1>4 DEF t

LEMMA InitIInv == Init => IInv
BY DEF Init, IInv, TypeOK, Maybe, Begins, WireIsEncoding, GotIsReading

LEMMA NextIInv == IInv /\ [Next]_vars => IInv'
<1> SUFFICES ASSUME IInv, [Next]_vars PROVE IInv'
  OBVIOUS
<1> USE DEF Maybe
<1>n. None \notin Message /\ None \notin Encoding /\ None \notin IntTypes \cup {"f32", "f64", "bytes"}
  BY NoneAssumption
<1>s. sent = None => wire = None /\ got = None
  BY DEF IInv, Begins
<1>1. ASSUME NEW v \in PythonValues, PythonSends(v) PROVE IInv'
  <2>1. v \in Value
    <3>1. H64 \in Nat
      BY ParamCodecAssumption
    <3> QED BY <1>1, <3>1 DEF PythonValues, Value, Kinds
  <2>2. sent' = By("python", v) /\ sent' \in Message /\ sent'.by = "python" /\ sent'.v = v
    BY <1>1, <2>1 DEF PythonSends, By, Message
  <2>3. CASE PythonType(v) = None
    BY <1>1, <1>s, <1>n, <2>2, <2>3
       DEF PythonSends, Rejected, By, IInv, TypeOK, Message, Value, Kinds, Refused,
           Begins, WireIsEncoding, GotIsReading
  <2>4. CASE PythonType(v) # None
    <3>1. wire' = [t |-> PythonType(v), v |-> v] /\ got' = got /\ sent = None
      BY <1>1, <2>4 DEF PythonSends, Encoded, Wire
    <3>2. wire' \in Encoding
      BY <2>1, <2>4, <3>1, PythonTypes DEF Encoding
    <3>3. got' = None /\ wire'.v = v /\ wire'.t = PythonType(v)
      BY <3>1, <1>s
    <3> QED
      BY <1>n, <2>2, <3>2, <3>3 DEF IInv, TypeOK, Begins, WireIsEncoding, GotIsReading
  <2> QED BY <2>3, <2>4
<1>2. ASSUME NEW p \in CParams, CSends(p) PROVE IInv'
  <2> DEFINE v == [kind |-> p.kind, n |-> p.n]
  <2>h. {H32, H64} \subseteq Nat \ {0}
    BY ParamCodecAssumption
  <2>1. v \in Value /\ (p.kind = "int" => p.n \in Range64) /\ p.kind \in Kinds
    BY <2>h DEF CParams, Value, Kinds, Floats, Range64
  <2>2. sent' = By("c", v) /\ sent' \in Message /\ sent'.by = "c" /\ sent'.v = v
    BY <1>2, <2>1 DEF CSends, By, Message
  <2>3. sent = None /\ wire = None /\ got = None
    BY <1>2, <1>s DEF CSends
  <2>4. CASE CType(p) = None /\ Rejected
    BY <1>n, <2>h, <2>2, <2>3, <2>4
       DEF Rejected, By, IInv, TypeOK, Message, Value, Kinds, Refused,
           Begins, WireIsEncoding, GotIsReading
  <2>5. CASE p.kind = "int" /\ Encoded(Wire(CType(p), Number(Printed(Double(p.n)))))
    <3>1. /\ wire' = [t |-> CType(p), v |-> [kind |-> "int", n |-> Printed(Double(p.n))]]
          /\ got' = None
      BY <2>3, <2>5 DEF Encoded, Wire
    <3>2. Printed(Double(p.n)) \in Int /\ CType(p) \in IntTypes /\ Holds(CType(p), p.n)
      BY <2>1, <2>5, Spacing, CTypeFits
    <3>3. wire' \in Encoding
      BY <3>1, <3>2 DEF Encoding, Value, Kinds
    <3>4. /\ wire'.v = Number(Printed(Double(sent'.v.n))) /\ Holds(wire'.t, sent'.v.n)
          /\ sent'.v.n \in Range64
      BY <2>1, <2>2, <2>5, <3>1, <3>2
    <3> QED
      BY <1>n, <2>2, <2>5, <3>1, <3>3, <3>4
         DEF IInv, TypeOK, Begins, WireIsEncoding, GotIsReading
  <2>6. ASSUME p.type = "FLOAT", NEW k \in PrintedFloat(p.kind), Encoded(Wire(CType(p), Of(k)))
        PROVE  IInv'
    <3>1. wire' = [t |-> "f64", v |-> [kind |-> k, n |-> 0]] /\ got' = None
      BY <2>3, <2>6 DEF Encoded, Wire, CType
    <3>2. k \in Kinds /\ k # "int" /\ p.kind # "int"
      BY <2>6 DEF PrintedFloat, Kinds, Floats, CParams
    <3>3. wire' \in Encoding
      BY <3>1, <3>2 DEF Encoding, Value
    <3> QED
      BY <1>n, <2>2, <3>1, <3>2, <3>3 DEF IInv, TypeOK, Begins, WireIsEncoding, GotIsReading
  <2> QED
    BY <1>2, <2>4, <2>5, <2>6 DEF CSends
<1>3. ASSUME Arrives PROVE /\ wire \in Encoding /\ sent \in Message /\ wire.v \in Value
                           /\ sent.by \in {"python", "c"} /\ WireIsEncoding'
                           /\ UNCHANGED <<sent, wire>>
  BY <1>3, <1>n DEF Arrives, IInv, TypeOK, Begins, WireIsEncoding, Encoding, Message
<1>4. CASE PythonReads
  <2>1. Arrives /\ got' = [by |-> "python", v |-> Decoded]
    BY <1>4 DEF PythonReads, By
  <2>2. Decoded \in Value
    <3>1. CASE wire.v.kind = "int" /\ sent.by = "c"
      <4>1. sent.v.kind = "int" /\ wire.v = Number(Printed(Double(Sent))) /\ Sent \in Range64
        BY <2>1, <3>1, <1>3 DEF IInv, WireIsEncoding, Arrives
      <4>2. Double(wire.v.n) \in Int
        BY <4>1, Spacing
      <4> QED
        BY <3>1, <4>2 DEF Decoded, Value, Kinds
    <3>2. CASE ~(wire.v.kind = "int" /\ sent.by = "c")
      BY <2>1, <3>2, <1>3 DEF Decoded, Value, Kinds, Refused
    <3> QED BY <3>1, <3>2
  <2>3. Decoded' = Decoded
    BY <2>1, <1>3 DEF Decoded
  <2> QED
    BY <2>1, <2>2, <2>3, <1>3, <1>n
       DEF IInv, TypeOK, Begins, GotIsReading, Message, Arrives
<1>5. CASE CReads
  <2>1. Arrives /\ sent.by = "python"
    BY <1>5 DEF CReads
  <2>2. wire.v = sent.v /\ wire.t = PythonType(sent.v) /\ sent.v \in Value /\ wire.t # None
    BY <2>1, <1>3, <1>n DEF IInv, WireIsEncoding, Arrives, Message, Encoding
  <2>3. PICK i \in 0..(2 * H64 - 1) :
          /\ got' = [by |-> "c", v |-> [kind |-> "int", n |-> i]]
          /\ IF wire.t \in CResults THEN i \in ToPointer(Double(wire.v.n)) ELSE i = 0
    <3>1. CASE wire.t \in CResults
      <4>1. wire.v.kind = "int" /\ wire.t \in IntTypes /\ Holds(wire.t, wire.v.n)
        BY <2>2, <3>1, PythonTypes
      <4>2. Double(wire.v.n) \in Int
        BY <4>1, <1>3, <2>1, HeldInRange, Spacing DEF Value
      <4> QED
        BY <1>5, <3>1, <4>2, PointerType DEF CReads, By, ValueDouble
    <3>2. CASE wire.t \notin CResults
      <4>1. 0 \in 0..(2 * H64 - 1)
        BY ParamCodecAssumption
      <4> QED BY <1>5, <3>2, <4>1 DEF CReads, By
    <3> QED BY <3>1, <3>2
  <2>4. i \in Int /\ got' \in Message
    <3>1. i \in Int
      BY ParamCodecAssumption
    <3> QED BY <2>3, <3>1 DEF Message, Value, Kinds
  <2>5. CReading'
    BY <2>1, <2>3, <1>3 DEF CReading
  <2>6. got'.by = "c" /\ got'.v.n = i
    BY <2>3
  <2> QED
    BY <2>1, <2>3, <2>4, <2>5, <2>6, <1>3, <1>n
       DEF IInv, TypeOK, Begins, GotIsReading, Arrives
<1>6. CASE UNCHANGED vars
  BY <1>6 DEF vars, IInv, TypeOK, Begins, WireIsEncoding, GotIsReading, CReading, Decoded
<1> QED
  BY <1>1, <1>2, <1>4, <1>5, <1>6 DEF Next

LEMMA Invariance == Spec => []IInv
BY InitIInv, NextIInv, PTL DEF Spec

-----------------------------------------------------------------------------
(* The theorems.                                                           *)

\* Everything keeps its type, and what the C endpoint returns is a uintptr_t.
THEOREM TypeCorrect == Spec => []TypeOK
<1>1. IInv => TypeOK
  BY DEF IInv
<1> QED
  BY <1>1, Invariance, PTL

\* Every encoding announces a type that holds the integer, the Python one the
\* smallest such type.
THEOREM Typed == Spec => []WellTyped
<1>1. IInv => WellTyped
  <2> SUFFICES ASSUME IInv, wire # None, sent.v.kind = "int" PROVE WellTyped
    BY DEF WellTyped
  <2>1. sent \in Message /\ wire \in Encoding
    BY DEF IInv, TypeOK, Begins, Maybe
  <2>2. CASE sent.by = "c"
    BY <2>2 DEF IInv, WireIsEncoding, WellTyped
  <2>3. CASE sent.by = "python"
    <3>1. wire.t = PythonType(sent.v) /\ sent.v \in Value /\ wire.t # None
      BY <2>1, <2>3, NoneAssumption DEF IInv, WireIsEncoding, Message, Encoding
    <3> QED
      BY <2>3, <3>1, PythonTypes DEF WellTyped
  <2> QED
    BY <2>1, <2>2, <2>3 DEF Message
<1> QED
  BY <1>1, Invariance, PTL

\* Python endpoints lose nothing that can be encoded.
THEOREM PythonToPython == Spec => []PythonExact
<1>1. IInv => PythonExact
  <2> SUFFICES ASSUME IInv, From("python", "python") PROVE got.v = sent.v
    BY DEF PythonExact
  <2>1. wire.v = sent.v /\ got.v = Decoded /\ sent.by = "python"
    BY DEF IInv, WireIsEncoding, GotIsReading, From
  <2>2. wire.v.kind # "null"
    <3>1. PythonType(sent.v) # None
      BY <2>1, NoneAssumption DEF IInv, TypeOK, Maybe, WireIsEncoding, From, Encoding
    <3> QED BY <2>1, <3>1 DEF PythonType
  <2> QED
    BY <2>1, <2>2 DEF Decoded
<1> QED
  BY <1>1, Invariance, PTL

\* An integer argument of the C endpoint arrives as it was if its magnitude is
\* less than Epsilon - 1, whatever 15 digits make of it.
THEOREM Arguments == Spec => []ArgumentsExact
<1>1. IInv => ArgumentsExact
  <2> SUFFICES ASSUME IInv, From("c", "python"), sent.v.kind = "int", Abs(sent.v.n) < Epsilon - 1
               PROVE  got.v = sent.v
    BY DEF ArgumentsExact
  <2>1. sent \in Message /\ sent.by = "c" /\ got.by = "python" /\ got # None /\ wire # None
    BY DEF IInv, TypeOK, Begins, Maybe, From
  <2>2. sent.v.n \in Range64 /\ wire.v = [kind |-> "int", n |-> Printed(Double(sent.v.n))]
    BY <2>1 DEF IInv, WireIsEncoding
  <2>3. got.v = [kind |-> "int", n |-> Double(wire.v.n)]
    BY <2>1, <2>2 DEF IInv, GotIsReading, Decoded
  <2>4. Double(wire.v.n) = sent.v.n
    BY <2>2, PrintedExact DEF Range64
  <2> QED
    BY <2>1, <2>3, <2>4 DEF Message, Value
<1> QED
  BY <1>1, Invariance, PTL

\* A function that C calls yields the integer it returned, for any integer from 2^16 to
\* 2^53, and 0 for any from 0 up to there, as encode_param announces one of the types i8
\* to u16 for those.
THEOREM Results == Spec => []ResultsExact
<1>1. IInv => ResultsExact
  <2> SUFFICES ASSUME IInv, From("python", "c"), sent.v.kind = "int", sent.v.n \in 0..Exact
               PROVE  got.v.n = IF sent.v.n < 2 * H16 THEN 0 ELSE sent.v.n
    BY DEF ResultsExact
  <2>1. sent \in Message /\ wire \in Encoding /\ sent.by = "python" /\ got.by = "c"
    BY DEF IInv, TypeOK, Begins, Maybe, From
  <2>2. wire.v = sent.v /\ wire.t = PythonType(sent.v) /\ CReading
    BY <2>1 DEF IInv, WireIsEncoding, GotIsReading, From
  <2>a. wire.t \in CResults <=> sent.v.n >= 2 * H16
    <3>1. sent.v \in Value /\ wire.t # None /\ sent.v.n >= 0
      BY <2>1, NoneAssumption, ParamCodecAssumption DEF Message, Encoding
    <3> QED BY <2>2, <3>1, ResultTypes
  <2>b. sent.v.n \in Int /\ H16 \in Int
    BY ParamCodecAssumption
  <2>3. CASE wire.t \in CResults
    <3>1. Double(sent.v.n) = sent.v.n
      <4>1. sent.v.n \in Int /\ Abs(sent.v.n) <= Exact
        BY ParamCodecAssumption DEF Abs
      <4> QED BY <4>1, DoubleExact
    <3>2. Holds("u64", sent.v.n)
      <4>1. PICK t \in IntTypes : Holds(t, sent.v.n)
        BY <2>1, <2>2, NoneAssumption, PythonTypes DEF Message, Encoding
      <4>2. sent.v.n \in Int /\ sent.v.n >= 0
        BY ParamCodecAssumption
      <4>3. {H8, H16, H32, H64} \subseteq Nat /\ H8 <= H64 /\ H16 <= H64 /\ H32 <= H64 /\ 0 < H64
        BY ParamCodecAssumption
      <4>4. Limit[t] \in Nat /\ Limit[t] <= H64
        BY <4>3, Limits
      <4>5. sent.v.n < 2 * Limit[t]
        BY <4>1, <4>2, <4>4 DEF Holds
      <4>6. sent.v.n < 2 * H64
        BY <4>2, <4>3, <4>4, <4>5
      <4> QED BY <4>2, <4>3, <4>6, Limits DEF Holds, Signed
    <3>3. ToPointer(ValueDouble(wire.v.n)) = {sent.v.n}
      BY <2>2, <3>1, <3>2 DEF ToPointer, ValueDouble
    <3>4. PICK i \in ToPointer(ValueDouble(wire.v.n)) : got.v = Number(i)
      BY <2>2, <2>3 DEF CReading, ValueDouble
    <3>5. got.v.n = i
      BY <3>4 DEF Number
    <3> QED
      BY <2>3, <2>a, <2>b, <3>3, <3>4, <3>5
  <2>4. CASE wire.t \notin CResults
    <3>1. got.v.n = 0
      BY <2>2, <2>4 DEF CReading, Number
    <3> QED
      BY <2>4, <2>a, <2>b, <3>1
  <2> QED
    BY <2>3, <2>4
<1> QED
  BY <1>1, Invariance, PTL

\* Beyond those limits, arguments of the C endpoint and results that reach it are off
\* by two units of DBL_EPSILON at most: a text of 15 digits is taken only where
\* compare_double finds no difference, and one of 17 is closer than that.
THEOREM Neighbours == Spec => []NumbersNear
<1>1. IInv => NumbersNear
  <2> SUFFICES ASSUME IInv PROVE NumbersNear
    OBVIOUS
  <2>1. ASSUME From("c", "python"), sent.v.kind = "int"
        PROVE  Abs(got.v.n - sent.v.n) * Epsilon <= 2 * Abs(sent.v.n)
    <3>1. sent \in Message /\ sent.by = "c" /\ got.by = "python" /\ got # None /\ wire # None
      BY <2>1 DEF IInv, TypeOK, Begins, Maybe, From
    <3>2. sent.v.n \in Range64 /\ wire.v = [kind |-> "int", n |-> Printed(Double(sent.v.n))]
      BY <2>1, <3>1 DEF IInv, WireIsEncoding
    <3>3. got.v.n = Double(Printed(Double(sent.v.n)))
      BY <3>1, <3>2 DEF IInv, GotIsReading, Decoded
    <3>4. /\ got.v.n \in Int /\ sent.v.n \in Int
          /\ Epsilon * Abs(got.v.n - sent.v.n) <= 2 * Abs(sent.v.n)
      BY <3>2, <3>3, PrintedNear, RangeBound
    <3> QED
      BY <3>4, EpsilonIsLarge DEF Abs
  <2>2. ASSUME From("python", "c"), sent.v.kind = "int", sent.v.n >= 2 * H16,
               Holds("u64", Double(sent.v.n))
        PROVE  Abs(got.v.n - sent.v.n) * Epsilon <= 2 * Abs(sent.v.n)
    <3>1. sent \in Message /\ wire \in Encoding /\ sent.by = "python" /\ got.by = "c"
      BY <2>2 DEF IInv, TypeOK, Begins, Maybe, From
    <3>2. wire.v = sent.v /\ wire.t = PythonType(sent.v) /\ CReading
      BY <2>2, <3>1 DEF IInv, WireIsEncoding, GotIsReading, From
    <3>3. wire.t \in CResults
      <4>1. sent.v \in Value /\ sent.v.n \in Int /\ wire.t # None
        BY <3>1, NoneAssumption DEF Message, Value, Encoding
      <4>2. sent.v.n >= 0
        BY <2>2, <4>1, ParamCodecAssumption
      <4> QED BY <2>2, <3>2, <4>1, <4>2, ResultTypes
    <3>4. PICK i \in ToPointer(ValueDouble(wire.v.n)) : got.v = Number(i)
      BY <3>2, <3>3 DEF CReading, ValueDouble
    <3>5. got.v.n = Double(sent.v.n)
      BY <2>2, <3>2, <3>4 DEF ToPointer, ValueDouble, Number
    <3>6. sent.v.n \in Range64
      <4>1. sent.v \in Value /\ sent.v.n \in Int /\ wire.t # None
        BY <3>1, NoneAssumption DEF Message, Value, Encoding
      <4>2. wire.t \in IntTypes /\ Holds(wire.t, sent.v.n)
        BY <2>2, <3>2, <4>1, PythonTypes
      <4> QED BY <4>1, <4>2, HeldInRange
    <3>7. /\ got.v.n \in Int /\ sent.v.n \in Int /\ Abs(sent.v.n) \in Nat
          /\ 2 * (Epsilon * Abs(got.v.n - sent.v.n)) <= Abs(sent.v.n)
      BY <3>5, <3>6, DoubleOf, RangeBound
    <3>8. Abs(got.v.n - sent.v.n) \in Nat
      BY <3>7 DEF Abs
    <3>9. /\ Abs(got.v.n - sent.v.n) * Epsilon = Epsilon * Abs(got.v.n - sent.v.n)
          /\ Epsilon * Abs(got.v.n - sent.v.n) \in Nat
      BY <3>8, EpsilonIsLarge
    <3> QED
      BY <3>7, <3>9
  <2> QED
    BY <2>1, <2>2 DEF NumbersNear
<1> QED
  BY <1>1, Invariance, PTL
=============================================================================
