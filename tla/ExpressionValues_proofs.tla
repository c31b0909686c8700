----------------------- MODULE ExpressionValues_proofs -----------------------
(***************************************************************************)
(* Proofs about ExpressionValues, for number formats of every size: the     *)
(* order of values is antisymmetric, agrees with the numbers and with the    *)
(* equality the validation uses, and integers are computed exactly.          *)
(***************************************************************************)
EXTENDS ExpressionValues, WellFoundedInduction, TLAPS

-----------------------------------------------------------------------------
(* A set of naturals has a least element, if it has any.                      *)
LEMMA LeastElement ==
  ASSUME NEW T \in SUBSET Nat, T # {}
  PROVE  \E m \in T : \A n \in T : m <= n
<1> DEFINE R == {ss \in Nat \X Nat : ss[1] < ss[2]}
<1>1. OpToRel(<, Nat) = R
  BY DEF OpToRel
<1>2. IsWellFoundedOn(R, Nat)
  BY <1>1, NatLessThanWellFounded, Zenon
<1>3. PICK m \in T : \A n \in T : ~(<<n, m>> \in R)
  <2> HIDE DEF R
  <2> QED
    BY <1>2, WFMin, Zenon
<1>4. \A n \in T : ~(n < m)
  BY <1>3
<1> QED
  BY <1>4

(* Induction over the naturals, for a property given as a set.                *)
LEMMA SetInduction ==
  ASSUME NEW S \in SUBSET Nat, 0 \in S, \A n \in S : n + 1 \in S
  PROVE  S = Nat
<1> SUFFICES ASSUME Nat \ S # {} PROVE FALSE
  OBVIOUS
<1>1. PICK m \in Nat \ S : \A n \in Nat \ S : m <= n
  BY LeastElement
<1>2. m - 1 \in S
  BY <1>1
<1> QED
  BY <1>1, <1>2

(* The recursive definition of the powers of a number is that of a function.  *)
LEMMA PowersExist ==
  ASSUME NEW b
  PROVE  \E h : h = [n \in Nat |-> IF n = 0 THEN 1 ELSE b * h[n - 1]]
<1> DEFINE Power(n, f) == IF n = 0 THEN 1 ELSE b * f[n - 1]
           Good(f, n) == f = [k \in 0..n |-> f[k]] /\ \A k \in 0..n : f[k] = Power(k, f)
           S == {n \in Nat : \E f : Good(f, n)}
<1>1. 0 \in S
  <2>1. Good([k \in 0..0 |-> 1], 0)
    OBVIOUS
  <2> QED
    BY <2>1
<1>2. ASSUME NEW n \in S PROVE n + 1 \in S
  <2>1. PICK f : Good(f, n)
    OBVIOUS
  <2> DEFINE g == [k \in 0..n + 1 |-> IF k = n + 1 THEN Power(k, f) ELSE f[k]]
  <2>2. n \in Nat /\ g = [k \in 0..n + 1 |-> g[k]]
    OBVIOUS
  <2>3. ASSUME NEW k \in 0..n + 1 PROVE g[k] = Power(k, g)
    <3>1. k = 0 \/ (k - 1 \in 0..n /\ g[k - 1] = f[k - 1])
      BY <2>2
    <3>2. k = n + 1 \/ (k \in 0..n /\ f[k] = Power(k, f))
      <4>1. k = n + 1 \/ k \in 0..n
        BY <2>2
      <4> HIDE DEF Power
      <4> QED
        BY <2>1, <4>1
    <3>3. g[k] = Power(k, f)
      <4> HIDE DEF Power
      <4> QED
        BY <3>2
    <3> HIDE DEF g
    <3> QED
      BY <3>1, <3>3
  <2> HIDE DEF g
  <2>4. Good(g, n + 1)
    BY <2>2, <2>3
  <2> HIDE DEF Good
  <2> QED
    BY <2>2, <2>4
<1>3. S = Nat
  <2> HIDE DEF S
  <2>1. S \in SUBSET Nat
    BY DEF S
  <2> QED
    BY <1>1, <1>2, <2>1, SetInduction
<1>4. PICK F : \A n \in Nat : Good(F[n], n)
  <2>1. \A n \in Nat : \E f : Good(f, n)
    BY <1>3
  <2> DEFINE G == [n \in Nat |-> CHOOSE f : Good(f, n)]
  <2> HIDE DEF Good
  <2>2. \A n \in Nat : Good(G[n], n)
    BY <2>1
  <2> HIDE DEF G
  <2> QED
    BY <2>2
<1>5. \A n, m \in Nat : \A f, g : Good(f, n) /\ Good(g, m) /\ m <= n => f[m] = g[m]
  <2> DEFINE T == {k \in Nat : \A n, m \in Nat : \A f, g :
                     Good(f, n) /\ Good(g, m) /\ k <= n /\ k <= m => f[k] = g[k]}
  <2>1. 0 \in T
    OBVIOUS
  <2>2. ASSUME NEW k \in T PROVE k + 1 \in T
    <3> SUFFICES ASSUME NEW n \in Nat, NEW m \in Nat, NEW f, NEW g, Good(f, n), Good(g, m),
                        k + 1 <= n, k + 1 <= m
                 PROVE  f[k + 1] = g[k + 1]
      OBVIOUS
    <3>1. k \in Nat /\ f[k] = g[k]
      <4> HIDE DEF Good
      <4>1. k \in Nat /\ k <= n /\ k <= m
        OBVIOUS
      <4> QED
        BY <4>1
    <3>2. f[k + 1] = Power(k + 1, f) /\ g[k + 1] = Power(k + 1, g)
      <4>1. k + 1 \in 0..n /\ k + 1 \in 0..m
        BY <3>1
      <4> HIDE DEF Power
      <4> QED
        BY <4>1
    <3> QED
      BY <3>1, <3>2
  <2>3. T = Nat
    <3> HIDE DEF T
    <3>1. T \in SUBSET Nat
      BY DEF T
    <3> QED
      BY <2>1, <2>2, <3>1, SetInduction
  <2> HIDE DEF Good
  <2> QED
    BY <2>3
<1> DEFINE h == [n \in Nat |-> F[n][n]]
<1>6. ASSUME NEW n \in Nat PROVE h[n] = IF n = 0 THEN 1 ELSE b * h[n - 1]
  <2>1. F[n][n] = Power(n, F[n])
    <3>1. n \in 0..n
      OBVIOUS
    <3> HIDE DEF Power
    <3> QED
      BY <1>4, <3>1
  <2>2. CASE n = 0
    BY <2>1, <2>2
  <2>3. CASE n # 0
    <3>1. n - 1 \in Nat /\ n - 1 <= n
      BY <2>3
    <3>2. F[n][n - 1] = F[n - 1][n - 1]
      <4> HIDE DEF Good
      <4> QED
        BY <1>4, <1>5, <3>1
    <3> QED
      BY <2>1, <2>3, <3>1, <3>2
  <2> QED
    BY <2>2, <2>3
<1> HIDE DEF h
<1>7. h = [n \in Nat |-> IF n = 0 THEN 1 ELSE b * h[n - 1]]
  <2>1. h = [n \in Nat |-> h[n]]
    BY DEF h
  <2> QED
    BY <1>6, <2>1
<1> QED
  BY <1>7

(* The powers of two and of ten are what their definitions say.               *)
LEMMA PowersAreDefined ==
  \A n \in Nat : /\ Pow2[n] = IF n = 0 THEN 1 ELSE 2 * Pow2[n - 1]
                 /\ Pow10[n] = IF n = 0 THEN 1 ELSE 10 * Pow10[n - 1]
<1>1. Pow2 = [n \in Nat |-> IF n = 0 THEN 1 ELSE 2 * Pow2[n - 1]]
  BY PowersExist DEF Pow2
<1>2. Pow10 = [n \in Nat |-> IF n = 0 THEN 1 ELSE 10 * Pow10[n - 1]]
  BY PowersExist DEF Pow10
<1> QED
  BY <1>1, <1>2

(* Powers of two are numbers that grow; so are those of ten.                  *)
LEMMA PowersArePositive ==
  \A n \in Nat : Pow2[n] \in Nat \ {0} /\ n < Pow2[n] /\ Pow10[n] \in Nat \ {0}
<1> DEFINE S == {n \in Nat : Pow2[n] \in Nat \ {0} /\ n < Pow2[n] /\ Pow10[n] \in Nat \ {0}}
<1>1. 0 \in S
  BY PowersAreDefined
<1>2. ASSUME NEW n \in S PROVE n + 1 \in S
  <2>1. n + 1 \in Nat /\ n + 1 # 0 /\ n + 1 - 1 = n
    OBVIOUS
  <2>2. Pow2[n + 1] = 2 * Pow2[n] /\ Pow10[n + 1] = 10 * Pow10[n]
    BY <2>1, PowersAreDefined
  <2> QED
    BY <2>1, <2>2
<1>3. S = Nat
  <2> HIDE DEF S
  <2>1. S \in SUBSET Nat
    BY DEF S
  <2> QED
    BY <1>1, <1>2, <2>1, SetInduction
<1> QED
  BY <1>3

(* 2^(m + n) is 2^m * 2^n.                                                    *)
LEMMA PowersMultiply ==
  ASSUME NEW m \in Nat
  PROVE  \A n \in Nat : Pow2[m + n] = Pow2[m] * Pow2[n]
<1> DEFINE S == {n \in Nat : Pow2[m + n] = Pow2[m] * Pow2[n]}
<1>1. 0 \in S
  <2>1. Pow2[0] = 1 /\ m + 0 = m /\ Pow2[m] \in Nat
    BY PowersAreDefined, PowersArePositive
  <2> QED
    BY <2>1
<1>2. ASSUME NEW n \in S PROVE n + 1 \in S
  <2>1. /\ n + 1 \in Nat /\ n + 1 # 0 /\ n + 1 - 1 = n
        /\ m + (n + 1) \in Nat /\ m + (n + 1) # 0 /\ m + (n + 1) - 1 = m + n
    OBVIOUS
  <2>2. Pow2[n + 1] = 2 * Pow2[n] /\ Pow2[m + (n + 1)] = 2 * Pow2[m + n]
    BY <2>1, PowersAreDefined
  <2>3. PICK p \in Nat, q \in Nat : p = Pow2[m] /\ q = Pow2[n]
    BY PowersArePositive
  <2>4. 2 * (p * q) = p * (2 * q)
    OBVIOUS
  <2> QED
    BY <2>1, <2>2, <2>3, <2>4
<1>3. S = Nat
  <2> HIDE DEF S
  <2>1. S \in SUBSET Nat
    BY DEF S
  <2> QED
    BY <1>1, <1>2, <2>1, SetInduction
<1> QED
  BY <1>3

(* So a power divides every higher one.                                       *)
LEMMA PowersDivide ==
  ASSUME NEW m \in Nat, NEW n \in Nat, m <= n
  PROVE  Pow2[n] = Pow2[n - m] * Pow2[m] /\ Pow2[m] <= Pow2[n]
<1>1. PICK k \in Nat : k = n - m /\ n = k + m
  OBVIOUS
<1>2. Pow2[k + m] = Pow2[k] * Pow2[m]
  BY PowersMultiply
<1>3. PICK p \in Nat \ {0}, q \in Nat : p = Pow2[k] /\ q = Pow2[m]
  BY PowersArePositive
<1>4. q <= p * q
  OBVIOUS
<1> QED
  BY <1>1, <1>2, <1>3, <1>4

(* Ticks are a power of two of 1.0.                                           *)
LEMMA OneIsPower ==
  One \in Nat \ {0} /\ \E bits \in Nat : One = Pow2[bits]
<1>1. PICK bits \in 0..One : One = Pow2[bits]
  BY FormatsAssumption
<1>2. bits \in Nat
  BY FormatsAssumption
<1> QED
  BY <1>1, <1>2, PowersArePositive

-----------------------------------------------------------------------------
(* `integer as f64`: there is a spacing, so the nearest double is a number.   *)

(* The integers are an interval around 0 and 1.                               *)
LEMMA IntsAreBounded ==
  /\ Pow2[IntBits - 1] \in Nat \ {0} /\ 0 \in Ints /\ 1 \in Ints
  /\ Ints = -Pow2[IntBits - 1] .. Pow2[IntBits - 1] - 1
<1>1. IntBits - 1 \in Nat /\ Precision \in Nat
  BY FormatsAssumption
<1>2. Pow2[IntBits - 1] \in Nat \ {0} /\ Pow2[Precision] \in Nat \ {0}
  BY <1>1, PowersArePositive
<1>3. Pow2[Precision] < ExponentForm /\ ExponentForm < Pow2[IntBits - 1]
  BY FormatsAssumption
<1>4. PICK p \in Nat \ {0, 1} : p = Pow2[IntBits - 1]
  BY <1>2, <1>3, FormatsAssumption
<1>5. Ints = -p .. p - 1
  BY <1>4 DEF Ints
<1>6. 0 \in -p .. p - 1 /\ 1 \in -p .. p - 1
  OBVIOUS
<1> QED
  BY <1>2, <1>4, <1>5, <1>6 DEF Ints

(* The spacing around n/d is 2^k, the least power that fits.                  *)
IsSpacing(k, n, d) ==
  /\ Spacing(n, d) = Pow2[k]
  /\ Abs(n) < Pow2[Precision + k] * d
  /\ k = 0 \/ ~(Abs(n) < Pow2[Precision + (k - 1)] * d)

(* There is a spacing.                                                        *)
LEMMA SpacingIsLeast ==
  ASSUME NEW n \in Int, NEW d \in Nat \ {0}
  PROVE  \E k \in Nat : IsSpacing(k, n, d)
<1> DEFINE fits(k) == Abs(n) < Pow2[Precision + k] * d
           K == {k \in 0..Abs(n) : fits(k)}
<1>1. PICK a \in Nat : a = Abs(n)
  BY DEF Abs
<1>2. Precision \in Nat
  BY FormatsAssumption
<1>3. a \in K
  <2>1. PICK p \in Nat : p = Pow2[Precision + a] /\ Precision + a < p
    BY <1>2, PowersArePositive
  <2>2. a < p /\ p <= p * d
    BY <1>2, <2>1
  <2> QED
    BY <1>1, <2>1, <2>2
<1>4. PICK k \in K : \A j \in K : k <= j
  <2> HIDE DEF fits
  <2>1. K \in SUBSET Nat
    BY <1>1
  <2> HIDE DEF K
  <2> QED
    BY <1>3, <2>1, LeastElement
<1> DEFINE least(i) == fits(i) /\ (i = 0 \/ ~fits(i - 1))
           s == CHOOSE i \in 0..Abs(n) : least(i)
<1>5. \E i \in 0..Abs(n) : least(i)
  <2>1. k = 0 \/ k - 1 \notin K
    BY <1>1, <1>4
  <2>2. k \in 0..Abs(n) /\ fits(k) /\ (k = 0 \/ k - 1 \in 0..Abs(n))
    BY <1>1
  <2> HIDE DEF fits
  <2> QED
    BY <2>1, <2>2
<1>6. s \in 0..Abs(n) /\ least(s)
  <2> HIDE DEF least
  <2> QED
    BY <1>5
<1>7. Spacing(n, d) = Pow2[s]
  BY DEF Spacing
<1> HIDE DEF s
<1> QED
  BY <1>1, <1>6, <1>7 DEF IsSpacing

(* What is nearest to n/d is a multiple of the spacing, at most half of it    *)
(* away.                                                                      *)
LEMMA NearestIsNear ==
  ASSUME NEW n \in Int, NEW d \in Nat \ {0}
  PROVE  /\ Spacing(n, d) \in Nat \ {0} /\ Nearest(n, d) \in Int
         /\ d = 1 => /\ 2 * (Nearest(n, 1) - n) <= Spacing(n, 1)
                     /\ 2 * (n - Nearest(n, 1)) <= Spacing(n, 1)
         /\ d = 1 /\ n % Spacing(n, 1) = 0 => Nearest(n, 1) = n
<1>1. PICK s \in Nat \ {0} : s = Spacing(n, d)
  <2>1. PICK k \in Nat : Spacing(n, d) = Pow2[k]
    BY SpacingIsLeast DEF IsSpacing
  <2> QED
    BY <2>1, PowersArePositive
<1>2. PICK e \in Nat \ {0} : e = d * s
  OBVIOUS
<1>3. PICK q \in Int, r \in 0..e - 1 : q = n \div e /\ r = n % e /\ n = q * e + r
  BY <1>2
<1>4. PICK h \in Int : h = HalfEven(n, e) /\ h \in {q, q + 1}
                     /\ (2 * r < e => h = q) /\ (2 * r > e => h = q + 1)
  BY <1>3 DEF HalfEven
<1>5. Nearest(n, d) = h * s /\ h * s \in Int
  BY <1>1, <1>2, <1>4 DEF Nearest
<1>6. ASSUME d = 1
      PROVE  /\ 2 * (h * s - n) <= s /\ 2 * (n - h * s) <= s
             /\ n % s = 0 => h * s = n
  <2>1. e = s
    BY <1>2, <1>6
  <2>2. (q + 1) * e = q * e + e
    OBVIOUS
  <2>3. CASE h = q
    BY <1>3, <1>4, <2>1, <2>3
  <2>4. CASE h = q + 1
    BY <1>3, <1>4, <2>1, <2>2, <2>4
  <2> QED
    BY <1>4, <2>3, <2>4
<1> QED
  BY <1>1, <1>5, <1>6

(* In ticks, and with the power of the spacing.                               *)
LEMMA TickIsNear ==
  ASSUME NEW t \in Int
  PROVE  \E k \in Nat, s \in Nat \ {0}, N \in Int :
           /\ IsSpacing(k, t, 1) /\ s = Pow2[k] /\ N = Nearest(t, 1)
           /\ 2 * (N - t) <= s /\ 2 * (t - N) <= s
           /\ t % s = 0 => N = t
<1>1. PICK d \in Nat \ {0} : d = 1
  OBVIOUS
<1>2. PICK k \in Nat : IsSpacing(k, t, 1)
  BY <1>1, SpacingIsLeast
<1>3. PICK s : s = Spacing(t, 1) /\ s = Pow2[k]
  BY <1>2 DEF IsSpacing
<1>4. PICK N : N = Nearest(t, 1)
  OBVIOUS
<1>5. /\ s \in Nat \ {0} /\ N \in Int
      /\ 2 * (N - t) <= s /\ 2 * (t - N) <= s
      /\ t % s = 0 => N = t
  BY <1>1, <1>3, <1>4, NearestIsNear
<1> QED
  BY <1>2, <1>3, <1>4, <1>5

(* The double nearest to an integer is a number of ticks.                     *)
LEMMA AsDoubleIsNumber ==
  ASSUME NEW n \in Int PROVE AsDouble(n) \in Int
<1>1. n * One \in Int
  BY OneIsPower
<1> QED
  BY <1>1, NearestIsNear DEF AsDouble

-----------------------------------------------------------------------------
(* The integers that doubles hold. *)

(* A multiple of 2^j is a double if it is less than 2^j times the precision.  *)
LEMMA EvenIntegersAreDoubles ==
  ASSUME NEW y \in Int, NEW j \in Nat, NEW z \in Int, z = y * Pow2[j], Abs(z) < Pow2[Precision + j]
  PROVE  AsDouble(z) = z * One
<1>1. PICK bits \in Nat : One = Pow2[bits]
  BY OneIsPower
<1>2. PICK t \in Int : t = z * One
  BY OneIsPower
<1>3. PICK k \in Nat : /\ IsSpacing(k, t, 1) /\ Pow2[k] \in Nat \ {0}
                       /\ t % Pow2[k] = 0 => Nearest(t, 1) = t
  BY TickIsNear
<1>4. PICK one \in Nat \ {0} : one = One
  BY OneIsPower
<1>5. PICK fine \in Nat : fine = Pow2[Precision + j] /\ Precision + j \in Nat
  BY FormatsAssumption, PowersArePositive
<1>6. Abs(t) < fine * one /\ Abs(t) \in Nat
  <2>1. Abs(t) = Abs(z) * one
    <3>1. CASE z < 0
      <4>1. z * one < 0 /\ -(z * one) = (-z) * one
        BY <1>4, <3>1
      <4> QED
        BY <1>2, <1>4, <3>1, <4>1 DEF Abs
    <3>2. CASE ~(z < 0)
      <4>1. ~(z * one < 0)
        BY <1>4, <3>2
      <4> QED
        BY <1>2, <1>4, <3>2, <4>1 DEF Abs
    <3> QED
      BY <3>1, <3>2
  <2>2. PICK a \in Nat : a = Abs(z) /\ a < fine
    BY <1>5 DEF Abs
  <2>3. a * one < fine * one
    BY <1>4, <1>5, <2>2
  <2> QED
    BY <2>1, <2>2, <2>3
<1>7. fine * one = Pow2[Precision + j + bits]
  BY <1>1, <1>4, <1>5, PowersMultiply
<1>8. k <= j + bits
  <2> SUFFICES ASSUME k > j + bits PROVE FALSE
    OBVIOUS
  <2>1. /\ k # 0 /\ Precision + j + bits \in Nat /\ Precision + (k - 1) \in Nat
        /\ Precision + j + bits <= Precision + (k - 1)
    BY FormatsAssumption
  <2>2. PICK p \in Nat, q \in Nat : p = Pow2[Precision + j + bits] /\ q = Pow2[Precision + (k - 1)] /\ p <= q
    <3>1. PICK m \in Nat, n \in Nat : m = Precision + j + bits /\ n = Precision + (k - 1) /\ m <= n
      BY <2>1
    <3>2. Pow2[m] \in Nat /\ Pow2[n] \in Nat /\ Pow2[m] <= Pow2[n]
      BY <3>1, PowersArePositive, PowersDivide
    <3> QED
      BY <3>1, <3>2
  <2>3. ~(Abs(t) < q * 1)
    BY <1>3, <2>1, <2>2 DEF IsSpacing
  <2> QED
    BY <1>6, <1>7, <2>2, <2>3
<1>9. PICK q \in Nat, s \in Nat \ {0} : s = Pow2[k] /\ Pow2[j + bits] = q * s
  <2>1. Pow2[j + bits] = Pow2[j + bits - k] * Pow2[k] /\ j + bits - k \in Nat
    BY <1>8, PowersDivide
  <2> QED
    BY <2>1, PowersArePositive
<1>10. t = (y * q) * s
  <2>1. PICK p \in Nat : p = Pow2[j] /\ Pow2[j + bits] = p * one
    BY <1>1, <1>4, PowersMultiply, PowersArePositive
  <2>2. t = (y * p) * one
    BY <1>2, <1>4, <2>1
  <2>3. (y * p) * one = y * (p * one) /\ y * (q * s) = (y * q) * s
    OBVIOUS
  <2> QED
    BY <1>9, <2>1, <2>2, <2>3
<1>11. t % s = 0
  <2>1. PICK w \in Int : w = y * q
    OBVIOUS
  <2> QED
    BY <1>10, <2>1
<1>12. Nearest(t, 1) = t
  BY <1>3, <1>9, <1>11
<1> QED
  BY <1>2, <1>12 DEF AsDouble

(* Integers of the precision are doubles.                                     *)
LEMMA SmallIntegersAreDoubles ==
  ASSUME NEW z \in Int, Abs(z) <= Pow2[Precision]
  PROVE  AsDouble(z) = z * One
<1>1. Precision \in Nat /\ Precision - 1 \in Nat
  BY FormatsAssumption
<1>2. PICK h \in Nat \ {0} : h = Pow2[Precision - 1] /\ Pow2[Precision] = 2 * h
  BY <1>1, PowersAreDefined, PowersArePositive
<1>3. Pow2[0] = 1 /\ Pow2[1] = 2 /\ Precision + 0 = Precision
  BY <1>1, PowersAreDefined
<1>4. Pow2[Precision + 1] = Pow2[Precision] * 2
  <2>1. PICK one \in Nat : one = 1
    OBVIOUS
  <2>2. Pow2[Precision + one] = Pow2[Precision] * Pow2[one]
    BY <1>1, PowersMultiply
  <2> QED
    BY <1>3, <2>1, <2>2
<1>5. CASE Abs(z) < Pow2[Precision]
  <2>1. z = z * Pow2[0] /\ Abs(z) < Pow2[Precision + 0]
    BY <1>3, <1>5
  <2> QED
    BY <2>1, EvenIntegersAreDoubles
<1>6. CASE Abs(z) = Pow2[Precision]
  <2>1. PICK y \in Int : y \in {h, -h} /\ z = y * Pow2[1]
    BY <1>2, <1>3, <1>6 DEF Abs
  <2>2. Abs(z) < Pow2[Precision + 1]
    BY <1>2, <1>4, <1>6
  <2> QED
    BY <2>1, <2>2, EvenIntegersAreDoubles
<1> QED
  BY <1>2, <1>5, <1>6 DEF Abs

(* An integer that is two more is no longer read as one of them.              *)
LEMMA LargeIntegersStayLarge ==
  ASSUME NEW x \in Int, Abs(x) >= Pow2[Precision] + 2
  PROVE  Abs(AsDouble(x)) > Pow2[Precision] * One
<1>1. PICK t \in Int, one \in Nat \ {0} : t = x * One /\ one = One
  BY OneIsPower
<1>2. PICK k \in Nat, s \in Nat \ {0}, N \in Int :
        /\ IsSpacing(k, t, 1) /\ s = Pow2[k] /\ N = Nearest(t, 1)
        /\ 2 * (N - t) <= s /\ 2 * (t - N) <= s
        /\ t % s = 0 => N = t
  BY TickIsNear
<1>3. N = AsDouble(x)
  BY <1>1, <1>2 DEF AsDouble
<1>4. PICK p \in Nat : p = Pow2[Precision] /\ p >= 4 /\ Precision \in Nat
  <2>1. Precision \in Nat /\ 2 \in Nat /\ 2 <= Precision
    BY FormatsAssumption
  <2>2. Pow2[2] = 4
    <3>1. Pow2[0] = 1 /\ Pow2[1] = 2 * Pow2[0] /\ Pow2[2] = 2 * Pow2[1]
      BY PowersAreDefined
    <3> QED
      BY <3>1
  <2>3. Pow2[2] <= Pow2[Precision] /\ Pow2[Precision] \in Nat
    BY <2>1, PowersDivide, PowersArePositive
  <2> QED
    BY <2>1, <2>2, <2>3
<1>5. (x >= p + 2 /\ t >= p * one + 2 * one) \/ (x <= -(p + 2) /\ t <= -(p * one + 2 * one))
  <2>1. CASE x >= p + 2
    <3>1. (x - (p + 2)) * one >= 0 /\ (x - (p + 2)) * one = x * one - (p * one + 2 * one)
      BY <2>1
    <3> QED
      BY <1>1, <2>1, <3>1
  <2>2. CASE x <= -(p + 2)
    <3>1. (-(p + 2) - x) * one >= 0 /\ (-(p + 2) - x) * one = -(p * one + 2 * one) - x * one
      BY <2>2
    <3> QED
      BY <1>1, <2>2, <3>1
  <2> QED
    BY <1>4, <2>1, <2>2 DEF Abs
<1>6. PICK po \in Nat : po = p * one
  OBVIOUS
<1>7. CASE k = 0
  <2>1. s = 1
    BY <1>2, <1>7, PowersAreDefined
  <2>2. N = t
    BY <1>2, <2>1
  <2> QED
    BY <1>1, <1>3, <1>4, <1>5, <1>6, <2>2 DEF Abs
<1>8. CASE k # 0
  <2>1. k - 1 \in Nat /\ Precision + (k - 1) \in Nat
    BY <1>4, <1>8
  <2>2. PICK h \in Nat \ {0} : h = Pow2[k - 1] /\ s = 2 * h /\ Pow2[Precision + (k - 1)] = p * h
    <3>1. PICK j \in Nat : j = k - 1
      BY <2>1
    <3>2. Pow2[j] \in Nat \ {0} /\ Pow2[k] = 2 * Pow2[j]
      BY <1>8, <3>1, PowersAreDefined, PowersArePositive
    <3>3. Pow2[Precision + j] = Pow2[Precision] * Pow2[j]
      BY <1>4, PowersMultiply
    <3> QED
      BY <1>2, <1>4, <3>1, <3>2, <3>3
  <2>3. ~(Abs(t) < p * h)
    BY <1>2, <1>8, <2>2 DEF IsSpacing
  <2>4. N - t <= h /\ t - N <= h
    BY <1>2, <2>2
  <2>5. h <= one \/ h >= 2 * one
    <3>1. PICK bits \in Nat : One = Pow2[bits]
      BY OneIsPower
    <3>2. CASE k - 1 <= bits
      BY <1>1, <2>1, <2>2, <3>1, <3>2, PowersDivide
    <3>3. CASE bits + 1 <= k - 1
      <4>1. Pow2[bits + 1] = 2 * Pow2[bits] /\ bits + 1 \in Nat
        BY PowersAreDefined
      <4>2. Pow2[bits + 1] <= Pow2[k - 1]
        BY <2>1, <3>3, <4>1, PowersDivide
      <4> QED
        BY <1>1, <2>2, <3>1, <4>1, <4>2
    <3> QED
      BY <2>1, <3>2, <3>3
  <2>6. CASE h <= one
    BY <1>1, <1>3, <1>4, <1>5, <1>6, <2>4, <2>6 DEF Abs
  <2>7. CASE h >= 2 * one
    <3>1. p * h - h >= p * one + one
      <4>1. (p - 1) * (h - 2 * one) >= 0
        BY <1>4, <2>7
      <4>2. (p - 1) * (h - 2 * one) = (p * h - h) - (2 * (p * one) - 2 * one)
        OBVIOUS
      <4>3. (p - 3) * one >= 0 /\ (p - 3) * one = p * one - 3 * one
        BY <1>4
      <4> QED
        BY <1>6, <4>1, <4>2, <4>3
    <3>2. PICK ph \in Nat : ph = p * h
      OBVIOUS
    <3> QED
      BY <1>1, <1>3, <1>4, <1>5, <1>6, <2>3, <2>4, <3>1, <3>2 DEF Abs
  <2> QED
    BY <2>5, <2>6, <2>7
<1> QED
  BY <1>7, <1>8

-----------------------------------------------------------------------------
(* The order of values. *)

(* Cmp is antisymmetric and total.                                            *)
LEMMA CmpMirrors ==
  ASSUME NEW a \in Int, NEW b \in Int
  PROVE  /\ Cmp(a, b) = Reverse(Cmp(b, a))
         /\ Cmp(a, b) = "equal" <=> a = b
BY DEF Cmp, Reverse

(* The tolerance is symmetric, and a number is within it of itself.           *)
LEMMA WithinMirrors ==
  ASSUME NEW a \in Int, NEW b \in Int
  PROVE  /\ Within(a, b) <=> Within(b, a)
         /\ Within(a, a)
BY FormatsAssumption DEF Within, Abs

(* Reversing exchanges "less" and "greater" and keeps everything else.        *)
LEMMA Reversed ==
  /\ Reverse("less") = "greater" /\ Reverse("greater") = "less"
  /\ \A o : o \notin {"less", "greater"} => Reverse(o) = o
BY DEF Reverse

(* The alternatives of the comparison, one by one.                            *)
LEMMA Alternatives ==
  ASSUME NEW l, NEW r
  PROVE  /\ l.kind = "null" \/ r.kind = "null" =>
              CompareValues(l, r) =
                Cmp(IF l.kind = "null" THEN 0 ELSE 1, IF r.kind = "null" THEN 0 ELSE 1)
         /\ l.kind = r.kind /\ l.kind \in {"str", "int"} => CompareValues(l, r) = Cmp(l.num, r.num)
         /\ Mixed(l, r) => CompareValues(l, r) = CompareMixed(l, r)
         /\ ~(l.kind = "null" \/ r.kind = "null") /\ ~(l.kind = r.kind /\ l.kind \in {"str", "int"})
              /\ ~Mixed(l, r) =>
              CompareValues(l, r) = CompareAsDoubles(ToDouble(l), ToDouble(r))
<1>1. CASE l.kind = "null" \/ r.kind = "null"
  BY <1>1 DEF CompareValues, Mixed
<1>2. CASE ~(l.kind = "null" \/ r.kind = "null") /\ l.kind = r.kind /\ l.kind \in {"str", "int"}
  BY <1>2 DEF CompareValues, Mixed
<1>3. CASE Mixed(l, r)
  BY <1>3 DEF CompareValues, Mixed
<1>4. CASE ~(l.kind = "null" \/ r.kind = "null") /\ ~(l.kind = r.kind /\ l.kind \in {"str", "int"})
           /\ ~Mixed(l, r)
  BY <1>4 DEF CompareValues
<1> QED
  BY <1>1, <1>2, <1>3, <1>4

(* What ToDouble makes of a value: a double, or an error.                     *)
AsNumber(v) == v = Error \/ (IsValue(v) /\ IsDouble(v))

(* What the order compares as numbers are doubles or errors.                  *)
LEMMA ToDoubleIsNumber ==
  ASSUME NEW v, IsValue(v) PROVE AsNumber(ToDouble(v))
<1>1. CASE v.kind \in {"double", "inf", "nan"}
  BY <1>1 DEF ToDouble, AsNumber, IsDouble
<1>2. CASE v.kind \in {"null", "bool", "int"}
  <2>1. v.num \in Int
    BY DEF IsValue
  <2>2. PICK t \in Int : t = AsDouble(v.num)
    BY <2>1, AsDoubleIsNumber
  <2>3. ToDouble(v) = Double(t)
    BY <1>2, <2>2 DEF ToDouble
  <2>4. IsValue(Double(t)) /\ IsDouble(Double(t))
    BY DEF IsValue, IsDouble, Double
  <2> QED
    BY <2>3, <2>4 DEF AsNumber
<1>3. CASE v.kind = "str"
  <2>1. v.num \in DOMAIN Texts /\ ToDouble(v) = Texts[v.num]
    BY <1>3 DEF IsValue, ToDouble
  <2> QED
    BY <2>1, ValuesAssumption DEF AsNumber
<1>4. CASE v.kind = "raw"
  BY <1>4 DEF ToDouble, AsNumber
<1> QED
  BY <1>1, <1>2, <1>3, <1>4 DEF IsValue

(* The order of doubles is antisymmetric, NaN and infinities included.        *)
LEMMA DoubleOrderMirrors ==
  ASSUME NEW l, NEW r, IsValue(l), IsValue(r)
  PROVE  DoubleOrder(l, r) = Reverse(DoubleOrder(r, l))
<1>1. l.num \in Int /\ r.num \in Int
  BY DEF IsValue
<1>2. CASE l.kind = "nan" \/ r.kind = "nan"
  BY <1>2 DEF DoubleOrder, Cmp, Reverse
<1>3. CASE ~(l.kind = "nan" \/ r.kind = "nan") /\ l.kind = "double" /\ r.kind = "double"
  BY <1>1, <1>3, CmpMirrors DEF DoubleOrder
<1>4. CASE ~(l.kind = "nan" \/ r.kind = "nan") /\ ~(l.kind = "double" /\ r.kind = "double")
  <2>1. PICK a \in Int, b \in Int : /\ a = IF l.kind = "inf" THEN l.num ELSE 0
                                    /\ b = IF r.kind = "inf" THEN r.num ELSE 0
    BY <1>1
  <2>2. DoubleOrder(l, r) = Cmp(a, b) /\ DoubleOrder(r, l) = Cmp(b, a)
    BY <1>4, <2>1 DEF DoubleOrder
  <2> QED
    BY <2>2, CmpMirrors
<1> QED
  BY <1>2, <1>3, <1>4

(* So is the tolerant comparison, errors included.                            *)
LEMMA CompareAsDoublesMirrors ==
  ASSUME NEW l, NEW r, AsNumber(l), AsNumber(r)
  PROVE  CompareAsDoubles(l, r) = Reverse(CompareAsDoubles(r, l))
<1>1. CASE Error \in {l, r}
  <2>1. Error \in {r, l} /\ ~(l.kind = "double" /\ r.kind = "double")
    BY <1>1 DEF Error
  <2>2. CompareAsDoubles(l, r) = "error"
    BY <1>1, <2>1 DEF CompareAsDoubles
  <2>3. CompareAsDoubles(r, l) = "error"
    BY <2>1 DEF CompareAsDoubles
  <2> QED
    BY <2>2, <2>3, Reversed
<1>2. CASE Error \notin {l, r}
  <2>1. /\ IsValue(l) /\ IsValue(r)
        /\ l.num \in Int /\ r.num \in Int
    BY <1>2 DEF AsNumber, IsValue
  <2>2. CASE l.kind = "double" /\ r.kind = "double" /\ Within(l.num, r.num)
    BY <1>2, <2>1, <2>2, WithinMirrors DEF CompareAsDoubles, Reverse
  <2>3. CASE ~(l.kind = "double" /\ r.kind = "double" /\ Within(l.num, r.num))
    <3>1. ~(r.kind = "double" /\ l.kind = "double" /\ Within(r.num, l.num))
      BY <2>1, <2>3, WithinMirrors
    <3>2. CompareAsDoubles(l, r) = DoubleOrder(l, r) /\ CompareAsDoubles(r, l) = DoubleOrder(r, l)
      BY <1>2, <2>3, <3>1 DEF CompareAsDoubles
    <3> QED
      BY <2>1, <3>2, DoubleOrderMirrors
  <2> QED
    BY <2>2, <2>3
<1> QED
  BY <1>1, <1>2

(* The comparison of any two values is antisymmetric.                         *)
LEMMA OrderIsAntisymmetric ==
  ASSUME NEW l, NEW r, IsValue(l), IsValue(r)
  PROVE  CompareValues(l, r) = Reverse(CompareValues(r, l))
<1>1. l.num \in Int /\ r.num \in Int
  BY DEF IsValue
<1>2. CASE l.kind = "null" \/ r.kind = "null"
  <2>1. PICK a \in Int, b \in Int : /\ a = IF l.kind = "null" THEN 0 ELSE 1
                                    /\ b = IF r.kind = "null" THEN 0 ELSE 1
    OBVIOUS
  <2>2. CompareValues(l, r) = Cmp(a, b) /\ CompareValues(r, l) = Cmp(b, a)
    BY <1>2, <2>1, Alternatives
  <2> QED
    BY <2>2, CmpMirrors
<1>3. CASE ~(l.kind = "null" \/ r.kind = "null") /\ l.kind = r.kind /\ l.kind \in {"str", "int"}
  <2>1. CompareValues(l, r) = Cmp(l.num, r.num) /\ CompareValues(r, l) = Cmp(r.num, l.num)
    BY <1>3, Alternatives
  <2> QED
    BY <1>1, <2>1, CmpMirrors
<1>4. CASE Mixed(l, r)
  <2>1. \/ l.kind = "int" /\ r.kind = "double"
        \/ l.kind = "double" /\ r.kind = "int"
    BY <1>4 DEF Mixed
  <2>2. /\ CompareValues(l, r) = CompareMixed(l, r)
        /\ CompareValues(r, l) = CompareMixed(r, l)
    BY <2>1 DEF CompareValues, Mixed
  <2>3. \A a, b : Reverse(Reverse(IntCompareDouble(a, b))) = IntCompareDouble(a, b)
    BY DEF IntCompareDouble, Reverse, Cmp
  <2> QED
    BY <2>1, <2>2, <2>3 DEF CompareMixed
<1>5. CASE /\ ~(l.kind = "null" \/ r.kind = "null") /\ ~(l.kind = r.kind /\ l.kind \in {"str", "int"})
           /\ ~Mixed(l, r)
  <2>1. ~(r.kind = l.kind /\ r.kind \in {"str", "int"}) /\ ~Mixed(r, l)
    BY <1>5 DEF Mixed
  <2>2. /\ CompareValues(l, r) = CompareAsDoubles(ToDouble(l), ToDouble(r))
        /\ CompareValues(r, l) = CompareAsDoubles(ToDouble(r), ToDouble(l))
    BY <1>5, <2>1 DEF CompareValues
  <2> QED
    BY <2>2, ToDoubleIsNumber, CompareAsDoublesMirrors
<1> QED
  BY <1>2, <1>3, <1>4, <1>5

(* Counting integers in ticks keeps their order.                              *)
LEMMA ScaledOrder ==
  ASSUME NEW a \in Int, NEW b \in Int
  PROVE  a * One \in Int /\ b * One \in Int /\ Cmp(a * One, b * One) = Cmp(a, b)
<1>1. PICK one \in Nat \ {0} : one = One
  BY OneIsPower
<1>2. a * one < b * one <=> a < b
  OBVIOUS
<1>3. b * one < a * one <=> b < a
  OBVIOUS
<1> QED
  BY <1>1, <1>2, <1>3 DEF Cmp

(* R-16, of any two finite values.                                            *)
LEMMA OrderAgreesWithNumbers ==
  ASSUME NEW l, NEW r, IsValue(l), IsValue(r), Finite(l), Finite(r)
  PROVE  /\ l.kind = "double" /\ r.kind = "double" =>
              CompareValues(l, r) = IF Within(l.num, r.num) THEN "equal" ELSE Cmp(l.num, r.num)
         /\ ~(l.kind = "double" /\ r.kind = "double") /\ Ticks(l) % One = 0 /\ Ticks(r) % One = 0 =>
              CompareValues(l, r) = Cmp(Ticks(l), Ticks(r))
<1>1. l.num \in Int /\ r.num \in Int
  BY DEF IsValue
<1>2. CASE l.kind = "double" /\ r.kind = "double"
  <2>1. CompareValues(l, r) = CompareAsDoubles(l, r)
    <3>1. CompareValues(l, r) = CompareAsDoubles(ToDouble(l), ToDouble(r))
      BY <1>2, Alternatives DEF Mixed
    <3>2. ToDouble(l) = l /\ ToDouble(r) = r
      BY <1>2 DEF ToDouble
    <3> QED
      BY <3>1, <3>2
  <2>2. Error \notin {l, r}
    BY <1>2 DEF Error
  <2>3. DoubleOrder(l, r) = Cmp(l.num, r.num)
    BY <1>2 DEF DoubleOrder
  <2>4. CASE Within(l.num, r.num)
    BY <1>2, <2>1, <2>2, <2>4 DEF CompareAsDoubles
  <2>5. CASE ~Within(l.num, r.num)
    BY <1>2, <2>1, <2>2, <2>3, <2>5 DEF CompareAsDoubles
  <2> QED
    BY <1>2, <2>4, <2>5
<1>3. CASE l.kind = "int" /\ r.kind = "int"
  BY <1>1, <1>3, Alternatives, ScaledOrder DEF Ticks
<1>4. CASE l.kind = "int" /\ r.kind = "double"
  <2>1. CompareValues(l, r) = IntCompareDouble(l.num, r)
    BY <1>4, Alternatives DEF Mixed, CompareMixed
  <2> QED
    BY <1>4, <2>1 DEF IntCompareDouble, Ticks
<1>5. CASE l.kind = "double" /\ r.kind = "int"
  <2>1. CompareValues(l, r) = Reverse(IntCompareDouble(r.num, l))
    BY <1>5, Alternatives DEF Mixed, CompareMixed
  <2>2. l.num % One = 0 => IntCompareDouble(r.num, l) = Cmp(r.num * One, l.num)
    BY <1>5 DEF IntCompareDouble
  <2>3. r.num * One \in Int
    BY <1>1, ScaledOrder
  <2> QED
    BY <1>1, <1>5, <2>1, <2>2, <2>3, CmpMirrors DEF Ticks
<1> QED
  BY <1>2, <1>3, <1>4, <1>5 DEF Finite

(* V-8: the order's "equal" is the equality the validation uses.              *)
LEMMA EqualIsEqual ==
  ASSUME NEW l, NEW r, IsValue(l), IsValue(r), IsNumber(l), IsNumber(r), {l, r} # {NaN}
  PROVE  CompareValues(l, r) = "equal" <=> ValuesEqual(l, r)
<1>1. l.num \in Int /\ r.num \in Int
  BY DEF IsValue
<1>2. CASE l.kind = "int" /\ r.kind = "int"
  <2>1. CompareValues(l, r) = "equal" <=> l.num = r.num
    BY <1>1, <1>2, Alternatives, CmpMirrors
  <2>2. ValuesEqual(l, r) <=> l = r
    BY <1>2 DEF ValuesEqual, IsDouble
  <2>3. l = r <=> l.num = r.num
    BY <1>2 DEF IsValue
  <2> QED
    BY <2>1, <2>2, <2>3
<1>3. CASE l.kind = "int" /\ r.kind = "double"
  <2>1. CompareValues(l, r) = IntCompareDouble(l.num, r)
    BY <1>3, Alternatives DEF Mixed, CompareMixed
  <2> QED
    BY <1>3, <2>1 DEF ValuesEqual, IsDouble
<1>4. CASE l.kind = "double" /\ r.kind = "int"
  <2>1. CompareValues(l, r) = Reverse(IntCompareDouble(r.num, l))
    BY <1>4, Alternatives DEF Mixed, CompareMixed
  <2>2. Reverse(IntCompareDouble(r.num, l)) = "equal" <=> IntCompareDouble(r.num, l) = "equal"
    BY Reversed
  <2>3. ValuesEqual(l, r) <=> IntCompareDouble(r.num, l) = "equal"
    BY <1>4 DEF ValuesEqual, IsDouble
  <2> QED
    BY <2>1, <2>2, <2>3
<1>5. CASE IsDouble(l) /\ IsDouble(r)
  <2>1. CompareValues(l, r) = CompareAsDoubles(l, r)
    <3>1. CompareValues(l, r) = CompareAsDoubles(ToDouble(l), ToDouble(r))
      BY <1>5, Alternatives DEF Mixed, IsDouble
    <3>2. ToDouble(l) = l /\ ToDouble(r) = r
      BY <1>5 DEF ToDouble, IsDouble
    <3> QED
      BY <3>1, <3>2
  <2>2. ValuesEqual(l, r) <=> DoublesEqual(l, r)
    <3>1. l.kind # "int" /\ r.kind # "int"
      BY <1>5 DEF IsDouble
    <3> QED
      BY <1>5, <3>1 DEF ValuesEqual
  <2>3. Error \notin {l, r}
    BY <1>5 DEF Error, IsDouble
  <2>4. CASE l.kind = "double" /\ r.kind = "double"
    <3>1. CASE Within(l.num, r.num)
      BY <2>1, <2>2, <2>3, <2>4, <3>1 DEF CompareAsDoubles, DoublesEqual
    <3>2. CASE ~Within(l.num, r.num)
      <4>1. CompareAsDoubles(l, r) = DoubleOrder(l, r)
        BY <2>3, <2>4, <3>2 DEF CompareAsDoubles
      <4>2. DoubleOrder(l, r) = Cmp(l.num, r.num)
        BY <2>4 DEF DoubleOrder
      <4>3. l.num # r.num
        BY <1>1, <3>2, WithinMirrors
      <4> QED
        BY <1>1, <2>1, <2>2, <2>4, <3>2, <4>1, <4>2, <4>3, CmpMirrors DEF DoublesEqual
    <3> QED
      BY <3>1, <3>2
  <2>5. CASE ~(l.kind = "double" /\ r.kind = "double")
    <3>1. CompareValues(l, r) = DoubleOrder(l, r)
      BY <2>1, <2>3, <2>5 DEF CompareAsDoubles
    <3>2. CASE l.kind = "nan" \/ r.kind = "nan"
      <4>1. l.kind # "nan" \/ r.kind # "nan"
        BY <3>2 DEF IsValue, NaN
      <4>2. DoubleOrder(l, r) # "equal"
        BY <3>2, <4>1 DEF DoubleOrder, Cmp
      <4> QED
        BY <2>2, <3>1, <3>2, <4>1, <4>2 DEF DoublesEqual
    <3>3. CASE ~(l.kind = "nan" \/ r.kind = "nan")
      <4>1. PICK a \in Int, b \in Int : /\ a = IF l.kind = "inf" THEN l.num ELSE 0
                                        /\ b = IF r.kind = "inf" THEN r.num ELSE 0
        BY <1>1
      <4>2. DoubleOrder(l, r) = Cmp(a, b)
        BY <2>5, <3>3, <4>1 DEF DoubleOrder
      <4>3. a = b <=> DoublesEqual(l, r)
        BY <1>5, <2>5, <3>3, <4>1 DEF DoublesEqual, IsDouble, IsValue
      <4> QED
        BY <2>2, <3>1, <4>2, <4>3, CmpMirrors
    <3> QED
      BY <3>2, <3>3
  <2> QED
    BY <2>4, <2>5
<1>6. CASE (l.kind = "int" /\ r.kind \in {"inf", "nan"}) \/ (r.kind = "int" /\ l.kind \in {"inf", "nan"})
  <2>1. CompareValues(l, r) = CompareAsDoubles(ToDouble(l), ToDouble(r))
    BY <1>6, Alternatives DEF Mixed
  <2>2. PICK a, b : a = ToDouble(l) /\ b = ToDouble(r)
    OBVIOUS
  <2>3. \/ a.kind = "double" /\ b = r /\ b.kind \in {"inf", "nan"}
        \/ b.kind = "double" /\ a = l /\ a.kind \in {"inf", "nan"}
    BY <1>6, <2>2 DEF ToDouble, Double
  <2>4. Error \notin {a, b} /\ ~(a.kind = "double" /\ b.kind = "double")
    BY <2>3 DEF Error
  <2>5. CompareAsDoubles(a, b) = DoubleOrder(a, b)
    BY <2>4 DEF CompareAsDoubles
  <2>6. DoubleOrder(a, b) # "equal"
    <3>1. CASE a.kind = "nan" \/ b.kind = "nan"
      BY <2>3, <3>1 DEF DoubleOrder, Cmp
    <3>2. CASE ~(a.kind = "nan" \/ b.kind = "nan")
      <4>1. PICK i \in Int, j \in Int : /\ i = IF a.kind = "inf" THEN a.num ELSE 0
                                        /\ j = IF b.kind = "inf" THEN b.num ELSE 0
        BY <1>1, <2>3
      <4>2. DoubleOrder(a, b) = Cmp(i, j)
        BY <2>4, <3>2, <4>1 DEF DoubleOrder
      <4>3. i # j
        BY <2>3, <3>2, <4>1 DEF IsValue
      <4> QED
        BY <4>2, <4>3, CmpMirrors
    <3> QED
      BY <3>1, <3>2
  <2>7. ~ValuesEqual(l, r)
    BY <1>6 DEF ValuesEqual, IsDouble, IntCompareDouble
  <2> QED
    BY <2>1, <2>2, <2>5, <2>6, <2>7
<1> QED
  BY <1>2, <1>3, <1>4, <1>5, <1>6 DEF IsNumber, IsDouble

-----------------------------------------------------------------------------
(* Arithmetic of integers. *)

(* Rounding half away from zero keeps a whole number.                         *)
LEMMA WholeIsRounded ==
  ASSUME NEW n \in Int PROVE Rounded(n * One) = n
<1>1. PICK d \in Nat \ {0} : d = One
  BY OneIsPower
<1>2. ASSUME NEW m \in Int PROVE (2 * (m * d) + d) \div (2 * d) = m
  <2>1. PICK e \in Nat \ {0} : e = 2 * d
    OBVIOUS
  <2>2. 2 * (m * d) = m * e
    BY <2>1
  <2>3. (m * e + d) \div e = m
    BY <2>1
  <2> QED
    BY <2>1, <2>2, <2>3
<1>3. n * d < 0 <=> n < 0
  OBVIOUS
<1>4. -(n * d) = (-n) * d
  OBVIOUS
<1>5. CASE n < 0
  <2>1. (2 * ((-n) * d) + d) \div (2 * d) = -n
    BY <1>2
  <2>2. HalfAway(n * d, d) = -((2 * ((-n) * d) + d) \div (2 * d))
    BY <1>3, <1>4, <1>5 DEF HalfAway
  <2> QED
    BY <1>1, <2>1, <2>2 DEF Rounded
<1>6. CASE ~(n < 0)
  BY <1>1, <1>2, <1>3, <1>6 DEF HalfAway, Rounded
<1> QED
  BY <1>5, <1>6

(* The value of an exact integer: a double when nothing is lost by it.        *)
ExactValue(n) == IF Lossless(n) THEN Double(n * One) ELSE Integer(n)

(* It denotes that integer either way.                                        *)
LEMMA ExactValueDenotes ==
  ASSUME NEW n \in Int PROVE Denotes(ExactValue(n), n)
BY DEF ExactValue, Denotes, Double, Integer, Ticks

(* expression.rs: with no zero on the right, the exact path gives that value. *)
LEMMA IntegersAreComputedExactly ==
  ASSUME NEW o \in {"add", "sub", "mul"}, NEW l, NEW r, l.kind = "int", r.kind = "int",
         r.num # 0, Exact(o, l.num, r.num) \in Ints
  PROVE  Apply(o, l, r) = ExactValue(Exact(o, l.num, r.num))
<1>1. Apply(o, l, r) = Arithmetic(o, l, r)
  BY DEF Apply, Comparisons
<1>2. ~IsEmpty(l) /\ ~IsEmpty(r)
  BY DEF IsEmpty
<1>3. PICK n : n = Exact(o, l.num, r.num)
  OBVIOUS
<1>4. Arithmetic(o, l, r) = IF Lossless(n) THEN Double(AsDouble(n)) ELSE Integer(n)
  BY <1>2, <1>3 DEF Arithmetic
<1> QED
  BY <1>1, <1>3, <1>4 DEF ExactValue, Lossless

(* number.rs: normalizing for an integer field keeps it.                      *)
LEMMA NormalizedStaysExact ==
  ASSUME NEW n \in Ints
  PROVE  NormalizeCalculatedValue(ExactValue(n), "integer") = ExactValue(n)
<1>1. CASE Lossless(n)
  <2>1. PICK v : v = Double(n * One)
    OBVIOUS
  <2>2. v.kind = "double" /\ v.num = n * One
    BY <2>1 DEF Double
  <2>3. NormalizeCalculatedValue(v, "integer") = Double(AsDouble(Rounded(v.num)))
    BY <2>2 DEF NormalizeCalculatedValue, IsNumber
  <2>4. Rounded(v.num) = n
    BY <2>2, WholeIsRounded, IntsAreBounded
  <2> QED
    BY <1>1, <2>1, <2>3, <2>4 DEF ExactValue, Lossless
<1>2. CASE ~Lossless(n)
  <2>1. PICK v : v = Integer(n)
    OBVIOUS
  <2>2. v.kind = "int" /\ v.num = n
    BY <2>1 DEF Integer
  <2>3. NormalizeCalculatedValue(v, "integer") = v
    BY <1>2, <2>2 DEF NormalizeCalculatedValue, IsNumber
  <2> QED
    BY <1>2, <2>1, <2>3 DEF ExactValue
<1> QED
  BY <1>1, <1>2

-----------------------------------------------------------------------------
(* The invariants. *)

(* OfIntegers, without the zero and inside the integers.                      *)
ExactlyComputed == OfIntegers /\ right.num # 0 /\ Exact(op, left.num, right.num) \in Ints

(* NonzeroArithmeticExact is not inductive: that the value denotes the        *)
(* result does not say that normalization keeps it.                           *)
ValueInv ==
  /\ left \in Operands /\ right \in Operands
  /\ stage = "evaluated" /\ ExactlyComputed =>
       value = ExactValue(Exact(op, left.num, right.num))
  /\ stage = "normalized" /\ ExactlyComputed /\ field = "integer" =>
       value = ExactValue(Exact(op, left.num, right.num))

(* Every step of the calculation keeps ValueInv.                              *)
LEMMA ValueInvStep ==
  ASSUME ValueInv, [Next]_vars PROVE ValueInv'
<1>1. ASSUME left' = left, right' = right, op' = op, field' = field
      PROVE  /\ left' \in Operands /\ right' \in Operands
             /\ ExactlyComputed' <=> ExactlyComputed
  BY <1>1 DEF ValueInv, ExactlyComputed, OfIntegers
<1>2. CASE EvaluateExpression
  <2>1. left' = left /\ right' = right /\ op' = op /\ field' = field
    BY <1>2 DEF EvaluateExpression
  <2>2. value' = Apply(op, left, right) /\ stage' # "normalized"
    BY <1>2 DEF EvaluateExpression
  <2>3. ExactlyComputed => value' = ExactValue(Exact(op, left.num, right.num))
    BY <2>2, IntegersAreComputedExactly DEF ExactlyComputed, OfIntegers
  <2> QED
    BY <1>1, <2>1, <2>2, <2>3 DEF ValueInv
<1>3. CASE Normalize
  <2>1. left' = left /\ right' = right /\ op' = op /\ field' = field
    BY <1>3 DEF Normalize
  <2>2. /\ stage = "evaluated" /\ stage' = "normalized"
        /\ value' = NormalizeCalculatedValue(value, field)
    BY <1>3 DEF Normalize
  <2>3. ExactlyComputed /\ field = "integer" => value' = ExactValue(Exact(op, left.num, right.num))
    BY <2>2, NormalizedStaysExact DEF ValueInv, ExactlyComputed
  <2> QED
    BY <1>1, <2>1, <2>2, <2>3 DEF ValueInv
<1>4. CASE Store
  <2>1. left' = left /\ right' = right /\ op' = op /\ field' = field
    BY <1>4 DEF Store
  <2>2. stage' \notin {"evaluated", "normalized"}
    BY <1>4 DEF Store
  <2> QED
    BY <1>1, <2>1, <2>2 DEF ValueInv
<1>5. CASE Resubmit
  <2>1. left' = left /\ right' = right /\ op' = op /\ field' = field
    BY <1>5 DEF Resubmit
  <2>2. stage' \notin {"evaluated", "normalized"}
    BY <1>5 DEF Resubmit
  <2> QED
    BY <1>1, <2>1, <2>2 DEF ValueInv
<1>6. CASE UNCHANGED vars
  <2>1. left' = left /\ right' = right /\ op' = op /\ field' = field /\ value' = value /\ stage' = stage
    BY <1>6 DEF vars
  <2> QED
    BY <1>1, <2>1 DEF ValueInv
<1> QED
  BY <1>2, <1>3, <1>4, <1>5, <1>6 DEF Next

(* The calculation keeps its operands and, of integers, the exact result.     *)
THEOREM ValueInvHolds == Spec => []ValueInv
<1>1. Init => ValueInv
  BY DEF Init, ValueInv
<1>2. ValueInv /\ [Next]_vars => ValueInv'
  BY ValueInvStep
<1> QED
  BY <1>1, <1>2, PTL DEF Spec

(* ValueInv is about the operands: they are values.                           *)
LEMMA OperandsAreValues ==
  ASSUME ValueInv PROVE IsValue(left) /\ IsValue(right)
BY ValuesAssumption DEF ValueInv

(* OrderMirrors: compare_values is antisymmetric for all values it is given.  *)
THEOREM OrderAlwaysMirrors == Spec => []OrderMirrors
<1>1. ValueInv => OrderMirrors
  BY OperandsAreValues, OrderIsAntisymmetric DEF OrderMirrors
<1> QED
  BY <1>1, ValueInvHolds, PTL

(* OrderIsNumeric: on finite numbers compare_values orders by the number.     *)
THEOREM OrderIsAlwaysNumeric == Spec => []OrderIsNumeric
<1>1. ASSUME ValueInv PROVE OrderIsNumeric
  <2>1. IsValue(left) /\ IsValue(right)
    BY <1>1, OperandsAreValues
  <2> QED
    BY <2>1, OrderAgreesWithNumbers DEF OrderIsNumeric
<1> QED
  BY <1>1, ValueInvHolds, PTL

(* OneEqualityOfNumbers: `eq` and the mismatch error use one equality.        *)
THEOREM NumbersHaveOneEquality == Spec => []OneEqualityOfNumbers
<1>1. ValueInv => OneEqualityOfNumbers
  BY OperandsAreValues, EqualIsEqual DEF OneEqualityOfNumbers
<1> QED
  BY <1>1, ValueInvHolds, PTL

(* NonzeroArithmeticExact: integer results are exact up to normalization.     *)
THEOREM NonzeroArithmeticIsExact == Spec => []NonzeroArithmeticExact
<1>1. ASSUME ValueInv PROVE NonzeroArithmeticExact
  <2> SUFFICES ASSUME stage \in {"evaluated", "normalized"}, OfIntegers, right.num # 0,
                      Exact(op, left.num, right.num) \in Ints, field = "integer"
               PROVE  Denotes(value, Exact(op, left.num, right.num))
    BY DEF NonzeroArithmeticExact
  <2>1. value = ExactValue(Exact(op, left.num, right.num))
    BY <1>1 DEF ValueInv, ExactlyComputed
  <2>2. Exact(op, left.num, right.num) \in Int
    BY IntsAreBounded
  <2> QED
    BY <2>1, <2>2, ExactValueDenotes
<1> QED
  BY <1>1, ValueInvHolds, PTL

-----------------------------------------------------------------------------
(* Integers written and read back. *)

(* Of all integers that read as a double within the precision, only that      *)
(* double's own is even.                                                      *)
LEMMA OnlyItsOwnIsEven ==
  ASSUME NEW n \in Int, Abs(n) <= Pow2[Precision],
         NEW x \in Int, x % 2 = 0, AsDouble(x) = n * One
  PROVE  x = n
<1>1. PICK one \in Nat \ {0} : one = One
  BY OneIsPower
<1>2. PICK h \in Nat, p \in Nat : p = Pow2[Precision] /\ p = 2 * h
  <2>1. Precision \in Nat /\ Precision # 0 /\ Precision - 1 \in Nat
    BY FormatsAssumption
  <2> QED
    BY <2>1, PowersAreDefined, PowersArePositive
<1>3. CASE Abs(x) <= p
  <2>1. AsDouble(x) = x * One
    BY <1>2, <1>3, SmallIntegersAreDoubles
  <2>2. x * one = n * one
    BY <1>1, <2>1
  <2>3. (x - n) * one = 0
    BY <2>2
  <2> QED
    BY <2>3
<1>4. CASE Abs(x) >= p + 2
  <2>1. Abs(n * one) > p * one
    BY <1>1, <1>2, <1>4, LargeIntegersStayLarge
  <2>2. (p - n) * one >= 0 /\ (p + n) * one >= 0
    BY <1>2 DEF Abs
  <2>3. (p - n) * one = p * one - n * one /\ (p + n) * one = p * one + n * one
    OBVIOUS
  <2>4. PICK a \in Int, b \in Int : a = n * one /\ b = p * one
    OBVIOUS
  <2> QED
    BY <2>1, <2>2, <2>3, <2>4 DEF Abs
<1>5. CASE Abs(x) = p + 1
  <2>1. x = 2 * h + 1 \/ x = -(2 * h + 1)
    BY <1>2, <1>5 DEF Abs
  <2> QED
    BY <2>1
<1> QED
  BY <1>3, <1>4, <1>5 DEF Abs

(* The shortest digits of such a double are its integer's: dropping digits    *)
(* and padding with zeros makes an even number.                               *)
LEMMA DigitsAreTheInteger ==
  ASSUME NEW n \in Int, Abs(n) <= Pow2[Precision]
  PROVE  ShortestDigits(n) = n
<1> DEFINE reads(k) == {m \in ((n \div Pow10[k]) - 1)..((n \div Pow10[k]) + 1) :
                          AsDouble(m * Pow10[k]) = n * One}
           last(k) == reads(k) # {} /\ \A j \in k+1..MaxZeros : reads(j) = {}
           k0 == CHOOSE k \in 0..MaxZeros : last(k)
           far(m) == Abs(m * Pow10[k0] - n)
           nearest(m) == \A o \in reads(k0) : far(m) <= far(o)
           m0 == CHOOSE m \in reads(k0) : nearest(m)
<1>1. ShortestDigits(n) = m0 * Pow10[k0]
  BY DEF ShortestDigits
<1>2. Pow10[0] = 1 /\ n \in reads(0)
  <2>1. Pow10[0] = 1
    BY PowersAreDefined
  <2>2. n \div 1 = n /\ n * 1 = n /\ n \in n - 1 .. n + 1
    OBVIOUS
  <2> QED
    BY <2>1, <2>2, SmallIntegersAreDoubles
<1>3. \E k \in 0..MaxZeros : last(k)
  <2> DEFINE T == {z \in 0..MaxZeros : reads(MaxZeros - z) # {}}
  <2> HIDE DEF reads
  <2>1. MaxZeros \in Nat
    BY FormatsAssumption
  <2>2. MaxZeros \in T
    BY <1>2, <2>1
  <2>3. PICK z \in T : \A y \in T : z <= y
    <3>1. T \in SUBSET Nat
      BY <2>1
    <3> HIDE DEF T
    <3> QED
      BY <2>2, <3>1, LeastElement
  <2>4. MaxZeros - z \in 0..MaxZeros /\ reads(MaxZeros - z) # {}
    BY <2>1
  <2>5. ASSUME NEW j \in MaxZeros - z + 1..MaxZeros PROVE reads(j) = {}
    <3>1. PICK y \in 0..MaxZeros : y = MaxZeros - j /\ MaxZeros - y = j /\ ~(z <= y)
      BY <2>1
    <3>2. y \notin T
      <4> HIDE DEF T
      <4> QED
        BY <2>3, <3>1
    <3>3. reads(MaxZeros - y) = {}
      BY <3>1, <3>2
    <3> QED
      BY <3>1, <3>3
  <2> QED
    BY <2>4, <2>5
<1>4. k0 \in 0..MaxZeros /\ last(k0)
  <2> HIDE DEF last
  <2> QED
    BY <1>3
<1> HIDE DEF k0
<1>5. PICK ten \in Nat \ {0} : ten = Pow10[k0] /\ k0 \in Nat
  BY <1>4, FormatsAssumption, PowersArePositive
<1>6. reads(k0) # {} /\ \A m \in reads(k0) : m \in Int /\ AsDouble(m * ten) = n * One
  <2>1. n \div ten \in Int
    OBVIOUS
  <2> QED
    BY <1>4, <1>5, <2>1
<1> HIDE DEF reads
<1>7. m0 \in reads(k0) /\ nearest(m0)
  <2> DEFINE T == {far(m) : m \in reads(k0)}
  <2>1. \A m \in reads(k0) : far(m) \in Nat
    BY <1>5, <1>6 DEF Abs
  <2>2. PICK m \in reads(k0) : nearest(m)
    <3>1. T \in SUBSET Nat /\ T # {}
      <4> HIDE DEF far
      <4> QED
        BY <1>6, <2>1
    <3>2. PICK f \in T : \A g \in T : f <= g
      <4> HIDE DEF T
      <4> QED
        BY <3>1, LeastElement
    <3> HIDE DEF far
    <3> QED
      BY <3>2
  <2> HIDE DEF nearest
  <2> QED
    BY <2>2
<1> HIDE DEF m0
<1>8. PICK m \in Int : m = m0 /\ AsDouble(m * ten) = n * One
  BY <1>6, <1>7
<1>9. CASE k0 = 0
  <2>1. ten = 1 /\ n \in reads(k0)
    BY <1>2, <1>5, <1>9
  <2>2. far(m0) <= far(n)
    <3> HIDE DEF far
    <3> QED
      BY <1>7, <2>1
  <2>3. Abs(m - n) <= Abs(n - n)
    <3>1. m0 * Pow10[k0] = m /\ n * Pow10[k0] = n
      BY <1>5, <1>8, <2>1
    <3> QED
      BY <2>2, <3>1
  <2>4. m = n
    BY <2>3 DEF Abs
  <2> QED
    BY <1>1, <1>5, <1>8, <2>1, <2>4
<1>10. CASE k0 # 0
  <2>1. PICK t \in Nat : ten = 10 * t
    BY <1>5, <1>10, PowersAreDefined, PowersArePositive
  <2>2. PICK x \in Int : x = m * ten
    OBVIOUS
  <2>3. x = 2 * (5 * (m * t))
    BY <2>1, <2>2
  <2>4. x % 2 = 0
    <3>1. PICK y \in Int : y = 5 * (m * t)
      OBVIOUS
    <3> QED
      BY <2>3, <3>1
  <2>5. x = n
    BY <1>8, <2>2, <2>4, OnlyItsOwnIsEven
  <2> QED
    BY <1>1, <1>5, <1>8, <2>2, <2>5
<1> QED
  BY <1>9, <1>10

(* A value that a calculation or its normalization leaves.                    *)
Computable(v) == v.kind \in {"null", "bool"} \/ (v.kind \in {"int", "double"} /\ v.num \in Int)

(* The value of an integer field when it is stored.                           *)
IsStored(v) ==
  \/ v.kind \in {"null", "bool", "int"}
  \/ v.kind = "double" /\ v.num \in Int /\ Abs(v.num) <= Pow2[Precision] * One

(* It reads back as an equal one.                                             *)
LEMMA StoredIsEchoed ==
  ASSUME NEW v, IsStored(v) PROVE ValuesEqual(Echoed(v), v)
<1>1. CASE v.kind \in {"null", "bool", "int"}
  <2>1. Echoed(v) = v
    BY <1>1 DEF Echoed
  <2> QED
    BY <1>1, <2>1 DEF ValuesEqual, IsDouble
<1>2. CASE v.kind = "double" /\ ~(v.num % One = 0 /\ Abs(v.num) < ExponentForm * One)
  <2>1. Echoed(v) = v
    BY <1>2 DEF Echoed
  <2>2. v.num \in Int
    BY <1>2 DEF IsStored
  <2>3. DoublesEqual(v, v)
    BY <1>2, <2>2, WithinMirrors DEF DoublesEqual
  <2> QED
    BY <1>2, <2>1, <2>3 DEF ValuesEqual, IsDouble
<1>3. CASE v.kind = "double" /\ v.num % One = 0 /\ Abs(v.num) < ExponentForm * One
  <2>1. PICK one \in Nat \ {0} : one = One
    BY OneIsPower
  <2>2. PICK n \in Int : n = v.num \div One /\ v.num = n * one /\ v.num \in Int
    BY <1>3, <2>1 DEF IsStored
  <2>3. Abs(n) <= Pow2[Precision]
    <3>1. PICK p \in Nat : p = Pow2[Precision]
      BY FormatsAssumption, PowersArePositive
    <3>2. Abs(n * one) <= p * one
      BY <1>3, <2>1, <2>2, <3>1 DEF IsStored
    <3>3. CASE n > p
      <4>1. (n - p) * one > 0 /\ (n - p) * one = n * one - p * one
        BY <3>3
      <4>2. PICK a \in Int, b \in Int : a = n * one /\ b = p * one
        OBVIOUS
      <4> QED
        BY <3>2, <4>1, <4>2 DEF Abs
    <3>4. CASE -n > p
      <4>1. (-n - p) * one > 0 /\ (-n - p) * one = -(n * one) - p * one
        BY <3>4
      <4>2. PICK a \in Int, b \in Int : a = n * one /\ b = p * one
        OBVIOUS
      <4> QED
        BY <3>2, <4>1, <4>2 DEF Abs
    <3> QED
      BY <3>1, <3>3, <3>4 DEF Abs
  <2>4. Echoed(v) = Integer(n)
    BY <1>3, <2>2, <2>3, DigitsAreTheInteger DEF Echoed
  <2>5. IntCompareDouble(n, v) = "equal"
    BY <1>3, <2>1, <2>2, CmpMirrors DEF IntCompareDouble
  <2> QED
    BY <1>3, <2>4, <2>5 DEF ValuesEqual, IsDouble, Integer
<1> QED
  BY <1>1, <1>2, <1>3 DEF IsStored

(* expression.rs: what an operation on doubles leaves.                        *)
LEMMA OnDoublesIsComputable ==
  ASSUME NEW o \in {"add", "sub", "mul", "div"}, NEW l, NEW r, AsNumber(l), AsNumber(r)
  PROVE  OnDoubles(o, l, r) = Error \/ Computable(OnDoubles(o, l, r))
<1>1. ASSUME NEW n \in Int, NEW d \in Nat \ {0}
      PROVE  FromRatio(n, d).kind # "double" \/ Computable(FromRatio(n, d))
  <2>1. PICK t \in Int : t = Nearest(n, d)
    BY NearestIsNear
  <2> QED
    BY <2>1 DEF FromRatio, Inf, Double, Computable
<1>2. Computable(Null) /\ Computable(Double(0))
  BY DEF Null, Double, Computable
<1>3. CASE Error \in {l, r}
  <2>1. OnDoubles(o, l, r) = Error
    <3>1. l.kind # "double" \/ r.kind # "double"
      BY <1>3 DEF Error
    <3>2. l.kind # "double" \/ r.kind # "inf"
      BY <1>3 DEF Error
    <3> QED
      BY <1>3, <3>1, <3>2 DEF OnDoubles
  <2> QED
    BY <2>1
<1>4. CASE Error \notin {l, r} /\ ~(l.kind = "double" /\ r.kind = "double")
  <2>1. OnDoubles(o, l, r) \in {Double(0), Null}
    BY <1>4 DEF OnDoubles
  <2> QED
    BY <1>2, <2>1
<1>5. CASE Error \notin {l, r} /\ l.kind = "double" /\ r.kind = "double"
  <2> DEFINE result == CASE o = "add" -> FromRatio(l.num + r.num, 1)
                         [] o = "sub" -> FromRatio(l.num - r.num, 1)
                         [] o = "mul" -> FromRatio(l.num * r.num, One)
                         [] o = "div" -> IF r.num < 0 THEN FromRatio(-l.num * One, -r.num)
                                                      ELSE FromRatio(l.num * One, r.num)
  <2>1. OnDoubles(o, l, r) = IF (o = "div" /\ r.num = 0) \/ result.kind # "double" THEN Null ELSE result
    BY <1>5 DEF OnDoubles
  <2>2. l.num \in Int /\ r.num \in Int
    BY <1>5 DEF AsNumber, IsValue
  <2>3. ~(o = "div" /\ r.num = 0) => result.kind # "double" \/ Computable(result)
    <3>1. PICK one \in Nat \ {0} : one = One
      BY OneIsPower
    <3>2. CASE o = "add"
      <4>1. l.num + r.num \in Int /\ 1 \in Nat \ {0} /\ result = FromRatio(l.num + r.num, 1)
        BY <2>2, <3>2
      <4> QED
        BY <1>1, <4>1
    <3>3. CASE o = "sub"
      <4>1. l.num - r.num \in Int /\ 1 \in Nat \ {0} /\ result = FromRatio(l.num - r.num, 1)
        BY <2>2, <3>3
      <4> QED
        BY <1>1, <4>1
    <3>4. CASE o = "mul"
      <4>1. l.num * r.num \in Int /\ result = FromRatio(l.num * r.num, one)
        BY <2>2, <3>1, <3>4
      <4> QED
        BY <1>1, <4>1
    <3>5. CASE o = "div" /\ r.num < 0
      <4>1. -l.num * one \in Int /\ -r.num \in Nat \ {0} /\ result = FromRatio(-l.num * one, -r.num)
        BY <2>2, <3>1, <3>5
      <4> QED
        BY <1>1, <4>1
    <3>6. CASE o = "div" /\ r.num > 0
      <4>1. l.num * one \in Int /\ r.num \in Nat \ {0} /\ result = FromRatio(l.num * one, r.num)
        BY <2>2, <3>1, <3>6
      <4> QED
        BY <1>1, <4>1
    <3> QED
      BY <2>2, <3>2, <3>3, <3>4, <3>5, <3>6
  <2> HIDE DEF result
  <2> QED
    BY <1>2, <2>1, <2>3
<1> QED
  BY <1>3, <1>4, <1>5

(* And an expression of any two values.                                       *)
LEMMA AppliedIsComputable ==
  ASSUME NEW o \in Ops, NEW l, NEW r, IsValue(l), IsValue(r)
  PROVE  Apply(o, l, r) = Error \/ Computable(Apply(o, l, r))
<1>1. CASE o \in Comparisons
  <2>1. Apply(o, l, r) = Error \/ \E b : Apply(o, l, r) = Bool(b)
    BY <1>1 DEF Apply
  <2>2. \A b : Computable(Bool(b))
    BY DEF Bool, Computable
  <2> QED
    BY <2>1, <2>2
<1>2. CASE o \notin Comparisons
  <2>1. o \in {"add", "sub", "mul", "div"} /\ Apply(o, l, r) = Arithmetic(o, l, r)
    BY <1>2, OpsAssumption DEF Apply
  <2>2. PICK n : n = Exact(o, l.num, r.num)
    OBVIOUS
  <2>3. CASE IsEmpty(l) \/ IsEmpty(r)
    <3>1. Arithmetic(o, l, r) = Null
      <4>1. ~(l.kind = "int" /\ r.kind = "int")
        BY <2>3 DEF IsEmpty
      <4> QED
        BY <2>3, <4>1 DEF Arithmetic
    <3> QED
      BY <2>1, <3>1 DEF Null, Computable
  <2>4. CASE ~(IsEmpty(l) \/ IsEmpty(r)) /\ l.kind = "int" /\ r.kind = "int" /\ r.num # 0 /\ n \in Ints
    <3>1. n \in Int
      BY <2>4, IntsAreBounded
    <3>2. PICK t \in Int : t = AsDouble(n)
      BY <3>1, AsDoubleIsNumber
    <3>3. Apply(o, l, r) \in {Double(t), Integer(n)}
      BY <2>1, <2>2, <2>4, <3>2 DEF Arithmetic
    <3> QED
      BY <3>1, <3>3 DEF Double, Integer, Computable
  <2>5. CASE /\ ~(IsEmpty(l) \/ IsEmpty(r))
             /\ ~(l.kind = "int" /\ r.kind = "int" /\ r.num # 0 /\ n \in Ints)
    <3>1. Apply(o, l, r) = OnDoubles(o, ToDouble(l), ToDouble(r))
      BY <2>1, <2>2, <2>5 DEF Arithmetic
    <3>2. AsNumber(ToDouble(l)) /\ AsNumber(ToDouble(r))
      BY ToDoubleIsNumber
    <3> QED
      BY <2>1, <3>1, <3>2, OnDoublesIsComputable
  <2> QED
    BY <2>3, <2>4, <2>5
<1> QED
  BY <1>1, <1>2

(* number.rs: normalizing for an integer field leaves such a value.           *)
LEMMA NormalizedIsComputable ==
  ASSUME NEW v, Computable(v)
  PROVE  Computable(NormalizeCalculatedValue(v, "integer"))
<1>1. CASE v.kind \in {"null", "bool"}
  <2>1. NormalizeCalculatedValue(v, "integer") = v
    BY <1>1 DEF NormalizeCalculatedValue, IsNumber
  <2> QED
    BY <2>1
<1>2. CASE v.kind \in {"int", "double"}
  <2>1. PICK t \in Int : t = IF v.kind = "int" THEN AsDouble(v.num) ELSE v.num
    BY <1>2, AsDoubleIsNumber DEF Computable
  <2>2. PICK k \in Int : k = Rounded(t)
    <3>1. PICK one \in Nat \ {0} : one = One
      BY OneIsPower
    <3>2. PICK e \in Nat \ {0} : e = 2 * one
      OBVIOUS
    <3>3. (2 * (-t) + one) \div e \in Int /\ (2 * t + one) \div e \in Int
      OBVIOUS
    <3>4. HalfAway(t, one) \in Int
      BY <3>2, <3>3 DEF HalfAway
    <3> QED
      BY <3>1, <3>4 DEF Rounded
  <2>3. PICK d \in Int : d = AsDouble(k)
    BY AsDoubleIsNumber
  <2>4. NormalizeCalculatedValue(v, "integer") \in {v, Double(d)}
    BY <1>2, <2>1, <2>2, <2>3 DEF NormalizeCalculatedValue, IsNumber
  <2> QED
    BY <2>4 DEF Double, Computable
<1> QED
  BY <1>1, <1>2 DEF Computable

(* The value is a number of the program all the way, and one within the       *)
(* precision when it is stored.                                               *)
EchoInv ==
  /\ left \in Operands /\ right \in Operands /\ op \in Ops
  /\ stage = "evaluated" => Computable(value)
  /\ field = "integer" =>
       /\ stage = "normalized" => Computable(value)
       /\ stage = "stored" => IsStored(value)
       /\ stage # "CALCULATED_VALUE_MISMATCH"

(* Every step of the calculation keeps EchoInv.                               *)
LEMMA EchoInvStep ==
  ASSUME EchoInv, [Next]_vars PROVE EchoInv'
<1>1. CASE EvaluateExpression
  <2>1. left' = left /\ right' = right /\ op' = op /\ value' = Apply(op, left, right)
    BY <1>1 DEF EvaluateExpression
  <2>2. stage' = IF value' = Error THEN "failed" ELSE "evaluated"
    BY <1>1 DEF EvaluateExpression
  <2>3. value' = Error \/ Computable(value')
    BY <2>1, AppliedIsComputable, ValuesAssumption DEF EchoInv
  <2> QED
    BY <2>1, <2>2, <2>3 DEF EchoInv
<1>2. CASE Normalize
  <2>1. /\ left' = left /\ right' = right /\ op' = op /\ field' = field
        /\ stage = "evaluated" /\ stage' = "normalized"
        /\ value' = NormalizeCalculatedValue(value, field)
    BY <1>2 DEF Normalize
  <2>2. field = "integer" => Computable(value')
    BY <2>1, NormalizedIsComputable DEF EchoInv
  <2> QED
    BY <2>1, <2>2 DEF EchoInv
<1>3. CASE Store
  <2>1. /\ left' = left /\ right' = right /\ op' = op /\ field' = field /\ value' = value
        /\ stage = "normalized" /\ stage' \in {"CALCULATED_VALUE_INVALID", "stored"}
        /\ stage' = "stored" => ~(value.kind = "double" /\ ~IsRepresentable(field, value.num))
    BY <1>3 DEF Store
  <2>2. field = "integer" /\ stage' = "stored" => IsStored(value)
    BY <2>1 DEF EchoInv, Computable, IsStored, IsRepresentable
  <2> QED
    BY <2>1, <2>2 DEF EchoInv
<1>4. CASE Resubmit
  <2>1. /\ left' = left /\ right' = right /\ op' = op /\ field' = field
        /\ stage = "stored" /\ stage' \in {"accepted", "CALCULATED_VALUE_MISMATCH"}
        /\ ValuesEqual(Echoed(value), value) => stage' = "accepted"
    BY <1>4 DEF Resubmit
  <2>2. field = "integer" => stage' = "accepted"
    BY <2>1, StoredIsEchoed DEF EchoInv
  <2> QED
    BY <2>1, <2>2 DEF EchoInv
<1>5. CASE UNCHANGED vars
  BY <1>5 DEF vars, EchoInv
<1> QED
  BY <1>1, <1>2, <1>3, <1>4, <1>5 DEF Next

(* IntegerResubmissionAccepted: what an integer field stores, written and     *)
(* sent back, is never CALCULATED_VALUE_MISMATCH.                             *)
THEOREM IntegerIsAlwaysAccepted == Spec => []IntegerResubmissionAccepted
<1>1. Init => EchoInv
  BY DEF Init, EchoInv
<1>2. EchoInv /\ [Next]_vars => EchoInv'
  BY EchoInvStep
<1>3. EchoInv => IntegerResubmissionAccepted
  BY DEF EchoInv, IntegerResubmissionAccepted, ResubmissionAccepted
<1> QED
  BY <1>1, <1>2, <1>3, PTL DEF Spec
=============================================================================
