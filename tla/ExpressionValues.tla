-------------------------- MODULE ExpressionValues --------------------------
(***************************************************************************)
(* rules/value.rs, rules/number.rs and the arithmetic and comparisons of    *)
(* rules/expression.rs: one calculation `op(left, right)` from its operands *)
(* through normalization and storing to the client that sends the value it  *)
(* received back.                                                            *)
(*                                                                         *)
(* The number formats are small ones of the same shape: integers have       *)
(* IntBits bits (i64), doubles Precision significant bits (f64), and as     *)
(* there 2^Precision < ExponentForm < 2^(IntBits - 1). A finite double is   *)
(* counted in ticks of 1/One. Negative zero is not told from zero.          *)
(***************************************************************************)
EXTENDS Integers, Sequences

CONSTANTS
  One,            \* ticks in 1.0
  Epsilon,        \* EPSILON, in ticks
  Precision,      \* significant bits of a double
  IntBits,        \* bits of an integer
  MaxDouble,      \* the largest finite double, in ticks
  MaxZeros,       \* bound: zeros that the shortest digits of a double end in
  ExponentForm,   \* doubles from here on are written with an exponent (1e17)
  Step,           \* `multipleOf` of a stepped field
  Texts,          \* the strings considered, in lexical order: what each parses to
  Operands,       \* the values considered
  Ops, FieldTypes

Pow2[n \in Nat] == IF n = 0 THEN 1 ELSE 2 * Pow2[n - 1]

Pow10[n \in Nat] == IF n = 0 THEN 1 ELSE 10 * Pow10[n - 1]

ASSUME FormatsAssumption ==
  /\ Precision \in Nat \ {0, 1} /\ IntBits \in Nat \ {0} /\ ExponentForm \in Nat
  /\ Pow2[Precision] < ExponentForm /\ ExponentForm < Pow2[IntBits - 1]
  /\ Step \in Nat \ {0} /\ Epsilon \in Nat \ {0} /\ MaxZeros \in Nat
  /\ One \in Nat /\ \E bits \in 0..One : One = Pow2[bits]

Null      == [kind |-> "null", num |-> 0]
Bool(b)   == [kind |-> "bool", num |-> IF b THEN 1 ELSE 0]
Integer(n)    == [kind |-> "int", num |-> n]
Double(t) == [kind |-> "double", num |-> t]
Inf(sign) == [kind |-> "inf", num |-> sign]
NaN       == [kind |-> "nan", num |-> 0]
Str(i)    == [kind |-> "str", num |-> i]
Raw       == [kind |-> "raw", num |-> 0]
Error     == [kind |-> "error", num |-> 0]

VARIABLES
  op, left, right,  \* the expression
  field,            \* the calculated field's type
  value,            \* its value so far
  computed,         \* its value before normalization
  stage

vars == <<op, left, right, field, value, computed, stage>>

-----------------------------------------------------------------------------
(* Number formats. *)

Abs(n) == IF n < 0 THEN -n ELSE n
Ints == -Pow2[IntBits - 1] .. Pow2[IntBits - 1] - 1
Saturate(n) == IF n \in Ints THEN n ELSE IF n < 0 THEN -Pow2[IntBits - 1] ELSE Pow2[IntBits - 1] - 1
Wrap(n) == ((n + Pow2[IntBits - 1]) % Pow2[IntBits]) - Pow2[IntBits - 1]

HalfEven(n, d) ==
  LET q == n \div d  r == n % d
  IN  IF 2 * r < d \/ (2 * r = d /\ q % 2 = 0) THEN q ELSE q + 1
HalfAway(n, d) == IF n < 0 THEN -((2 * (-n) + d) \div (2 * d)) ELSE (2 * n + d) \div (2 * d)
TruncDiv(a, b) ==
  LET q == Abs(a) \div Abs(b) IN IF (a < 0) = (b < 0) THEN q ELSE -q

(* The spacing of doubles around n/d ticks, and the double nearest to it.    *)
(* 2^Abs(n) is more than n, so there is a spacing.                            *)
Spacing(n, d) ==
  LET fits(k) == Abs(n) < Pow2[Precision + k] * d
  IN  Pow2[CHOOSE k \in 0..Abs(n) : fits(k) /\ (k = 0 \/ ~fits(k - 1))]
Nearest(n, d) == HalfEven(n, d * Spacing(n, d)) * Spacing(n, d)
FromRatio(n, d) ==
  IF Abs(Nearest(n, d)) > MaxDouble THEN Inf(IF n < 0 THEN -1 ELSE 1) ELSE Double(Nearest(n, d))

AsDouble(n) == Nearest(n * One, 1)   \* `integer as f64`, in ticks
Lossless(n) == AsDouble(n) = n * One

-----------------------------------------------------------------------------
(* value.rs *)

IsNumber(v) == v.kind \in {"int", "double", "inf", "nan"}
IsDouble(v) == v.kind \in {"double", "inf", "nan"}

IsValue(v) ==
  /\ v \in [kind : {"null", "bool", "int", "double", "inf", "nan", "str", "raw"}, num : Int]
  /\ v.kind \in {"null", "nan", "raw"} => v.num = 0
  /\ v.kind = "bool" => v.num \in {0, 1}
  /\ v.kind = "int"  => v.num \in Ints
  /\ v.kind = "inf"  => v.num \in {-1, 1}
  /\ v.kind = "str"  => v.num \in DOMAIN Texts

ASSUME ValuesAssumption ==
  /\ \A v \in Operands : IsValue(v)
  /\ \A i \in DOMAIN Texts : Texts[i] = Error \/ (IsValue(Texts[i]) /\ IsDouble(Texts[i]))

IsEmpty(v) == v.kind \in {"null", "inf", "nan"} \/ (v.kind = "str" /\ v.num = 1)

ToDouble(v) ==
  CASE v.kind \in {"double", "inf", "nan"} -> v
    [] v.kind \in {"null", "bool", "int"}  -> Double(AsDouble(v.num))
    [] v.kind = "str"                      -> Texts[v.num]
    [] v.kind \in {"raw", "error"}         -> Error

Cmp(a, b) == IF a < b THEN "less" ELSE IF a > b THEN "greater" ELSE "equal"
Reverse(ordering) ==
  CASE ordering = "less" -> "greater" [] ordering = "greater" -> "less" [] OTHER -> ordering

Within(a, b) == Abs(a - b) < Epsilon

(* The last alternative compares `number` with `integer`, as the code does. *)
IntCompareDouble(integer, d) ==
  IF d.kind # "double" THEN "none"
  ELSE IF d.num % One = 0 THEN Cmp(integer * One, d.num)
  ELSE IF Within(AsDouble(integer), d.num) THEN "equal"
  ELSE Cmp(d.num, AsDouble(integer))

DoublesEqual(l, r) ==
  /\ l.kind = r.kind /\ l.kind # "nan"
  /\ IF l.kind = "double" THEN Within(l.num, r.num) ELSE l.num = r.num

ValuesEqual(l, r) ==
  CASE IsDouble(l) /\ IsDouble(r)      -> DoublesEqual(l, r)
    [] l.kind = "int" /\ IsDouble(r)   -> IntCompareDouble(l.num, r) = "equal"
    [] IsDouble(l) /\ r.kind = "int"   -> IntCompareDouble(r.num, l) = "equal"
    [] OTHER                           -> l = r

-----------------------------------------------------------------------------
(* expression.rs *)

(* partial_cmp, NaN below everything and equal to itself *)
DoubleOrder(l, r) ==
  CASE l.kind = "nan" \/ r.kind = "nan" ->
         Cmp(IF l.kind = "nan" THEN 0 ELSE 1, IF r.kind = "nan" THEN 0 ELSE 1)
    [] l.kind = "double" /\ r.kind = "double" -> Cmp(l.num, r.num)
    [] OTHER -> Cmp(IF l.kind = "inf" THEN l.num ELSE 0, IF r.kind = "inf" THEN r.num ELSE 0)

(* Mutated: doubles are ordered without the tolerance. *)
CompareAsDoublesStrictly(l, r) ==
  IF Error \in {l, r} THEN "error" ELSE DoubleOrder(l, r)

CompareAsDoubles(l, r) ==
  CASE Error \in {l, r} -> "error"
    [] l.kind = "double" /\ r.kind = "double" /\ Within(l.num, r.num) -> "equal"
    [] OTHER -> DoubleOrder(l, r)

(* Mutated: the second mixed pair keeps the order of the first. *)
CompareMixedUnreversed(l, r) ==
  IF l.kind = "int" THEN IntCompareDouble(l.num, r) ELSE IntCompareDouble(r.num, l)

(* An integer and a double, in either order *)
CompareMixed(l, r) ==
  IF l.kind = "int" THEN IntCompareDouble(l.num, r)
                    ELSE Reverse(IntCompareDouble(r.num, l))

Mixed(l, r) == {l.kind, r.kind} = {"int", "double"}

CompareValues(l, r) ==
  CASE l.kind = "null" \/ r.kind = "null" ->
         Cmp(IF l.kind = "null" THEN 0 ELSE 1, IF r.kind = "null" THEN 0 ELSE 1)
    [] l.kind = r.kind /\ l.kind \in {"str", "int"} -> Cmp(l.num, r.num)
    [] Mixed(l, r) -> CompareMixed(l, r)
    [] OTHER -> CompareAsDoubles(ToDouble(l), ToDouble(r))

Holds(o, ordering) ==
  CASE o = "eq"  -> ordering = "equal"
    [] o = "neq" -> ordering # "equal"
    [] o = "gt"  -> ordering = "greater"
    [] o = "gte" -> ordering # "less"
    [] o = "lt"  -> ordering = "less"
    [] o = "lte" -> ordering # "greater"

Comparisons == {"eq", "neq", "gt", "gte", "lt", "lte"}

ASSUME OpsAssumption == Ops \subseteq Comparisons \cup {"add", "sub", "mul", "div"}

Exact(o, a, b) ==
  CASE o = "add" -> a + b [] o = "sub" -> a - b [] o = "mul" -> a * b
    [] o = "div" -> TruncDiv(a, b)

(* One operation on doubles; a result that is not finite is Null. *)
OnDoubles(o, l, r) ==
  LET finite == l.kind = "double" /\ r.kind = "double"
      result == CASE o = "add" -> FromRatio(l.num + r.num, 1)
                  [] o = "sub" -> FromRatio(l.num - r.num, 1)
                  [] o = "mul" -> FromRatio(l.num * r.num, One)
                  [] o = "div" -> IF r.num < 0 THEN FromRatio(-l.num * One, -r.num)
                                               ELSE FromRatio(l.num * One, r.num)
  IN  CASE Error \in {l, r} -> Error
        [] finite -> IF (o = "div" /\ r.num = 0) \/ result.kind # "double" THEN Null ELSE result
        [] o = "div" /\ l.kind = "double" /\ r.kind = "inf" -> Double(0)
        [] OTHER -> Null

(* The exact path is left when the right operand is zero, whatever the operator. *)
Arithmetic(o, l, r) ==
  LET n     == Exact(o, l.num, r.num)
      exact == l.kind = "int" /\ r.kind = "int" /\ r.num # 0 /\ n \in Ints
  IN  CASE IsEmpty(l) \/ IsEmpty(r) -> Null
        [] exact -> IF Lossless(n) THEN Double(AsDouble(n)) ELSE Integer(n)
        [] OTHER -> OnDoubles(o, ToDouble(l), ToDouble(r))

Apply(o, l, r) ==
  IF o \in Comparisons
  THEN IF CompareValues(l, r) = "error" THEN Error ELSE Bool(Holds(o, CompareValues(l, r)))
  ELSE Arithmetic(o, l, r)

-----------------------------------------------------------------------------
(* number.rs: an `integer` field, a `number` field without decimals, and one *)
(* whose multipleOf is Step.                                                  *)

(* f64::round, then the cast back and forth through i64 *)
Rounded(t) == HalfAway(t, One)

(* snap_to_step: the casts to i64 saturate and the product wraps. *)
SnapToStep(t) ==
  LET scaled == Saturate(Rounded(t))
      steps  == Saturate(HalfAway(Nearest(AsDouble(scaled), Step), One))
  IN  AsDouble(Wrap(steps * Step))

(* Mutated: an exact integer is converted like any other number. *)
NormalizeThroughDouble(v, type) ==
  LET t == IF v.kind = "int" THEN AsDouble(v.num) ELSE v.num
  IN  IF ~IsNumber(v) THEN v
      ELSE IF v.kind \in {"inf", "nan"} THEN Null
      ELSE IF type = "stepped" THEN Double(AsDouble(Rounded(SnapToStep(t))))
      ELSE Double(AsDouble(Rounded(t)))

NormalizeCalculatedValue(v, type) ==
  LET t == IF v.kind = "int" THEN AsDouble(v.num) ELSE v.num
  IN  IF ~IsNumber(v) THEN v
      ELSE IF v.kind = "int" /\ type = "integer" /\ ~Lossless(v.num) THEN v
      ELSE IF v.kind \in {"inf", "nan"} THEN Null
      ELSE IF type = "stepped" THEN Double(AsDouble(Rounded(SnapToStep(t))))
      ELSE Double(AsDouble(Rounded(t)))

(* Mutated: no bound. *)
AnyRepresentable(type, t) == TRUE

(* validate/calculated.rs *)
IsRepresentable(type, t) == type = "integer" => Abs(t) <= Pow2[Precision] * One

-----------------------------------------------------------------------------
(* json/write.rs and json.rs: the shortest digits that read back to the      *)
(* double, padded with zeros and without a point when it is integral, and    *)
(* such a text is an integer when it fits one.                                *)

ShortestDigits(n) ==
  LET reads(k) == {m \in ((n \div Pow10[k]) - 1)..((n \div Pow10[k]) + 1) :
                     AsDouble(m * Pow10[k]) = n * One}
      k == CHOOSE k \in 0..MaxZeros : reads(k) # {} /\ \A j \in k+1..MaxZeros : reads(j) = {}
      m == CHOOSE m \in reads(k) : \A o \in reads(k) : Abs(m * Pow10[k] - n) <= Abs(o * Pow10[k] - n)
  IN  m * Pow10[k]

(* The value a client reads and sends back *)
Echoed(v) ==
  IF v.kind = "double" /\ v.num % One = 0 /\ Abs(v.num) < ExponentForm * One
  THEN Integer(ShortestDigits(v.num \div One))
  ELSE v

-----------------------------------------------------------------------------
Init ==
  /\ left \in Operands /\ right \in Operands
  /\ op \in Ops /\ field \in FieldTypes
  /\ value = Null /\ computed = Null
  /\ stage = "given"

EvaluateExpression ==
  /\ stage = "given"
  /\ computed' = Apply(op, left, right)
  /\ value' = computed'
  /\ stage' = IF computed' = Error THEN "failed" ELSE "evaluated"
  /\ UNCHANGED <<op, left, right, field>>

Normalize ==
  /\ stage = "evaluated"
  /\ value' = NormalizeCalculatedValue(value, field)
  /\ stage' = "normalized"
  /\ UNCHANGED <<op, left, right, field, computed>>

(* apply_calculated_fields in Complete mode, nothing submitted *)
Store ==
  /\ stage = "normalized"
  /\ stage' = IF value.kind \in {"inf", "nan"} \/ (value.kind = "double" /\ ~IsRepresentable(field, value.num))
              THEN "CALCULATED_VALUE_INVALID" ELSE "stored"
  /\ UNCHANGED <<op, left, right, field, value, computed>>

(* The client sends the stored value back with the same answers. *)
Resubmit ==
  /\ stage = "stored" /\ value # Null
  /\ stage' = IF ValuesEqual(Echoed(value), value) THEN "accepted" ELSE "CALCULATED_VALUE_MISMATCH"
  /\ UNCHANGED <<op, left, right, field, value, computed>>

Next == EvaluateExpression \/ Normalize \/ Store \/ Resubmit

Spec == Init /\ [][Next]_vars

-----------------------------------------------------------------------------
Given == stage = "given"
Finite(v) == v.kind \in {"int", "double"}
Ticks(v) == IF v.kind = "int" THEN v.num * One ELSE v.num

(* Swapping the operands reverses the order, errors included. *)
OrderMirrors == Given => CompareValues(left, right) = Reverse(CompareValues(right, left))

(* SPEC R-16: integers are compared exactly with integers and integral       *)
(* doubles, doubles by value up to the tolerance.                             *)
OrderIsNumeric ==
  Given /\ Finite(left) /\ Finite(right) =>
    IF left.kind = "double" /\ right.kind = "double"
    THEN CompareValues(left, right) =
           IF Within(left.num, right.num) THEN "equal" ELSE Cmp(left.num, right.num)
    ELSE Ticks(left) % One = 0 /\ Ticks(right) % One = 0 =>
           CompareValues(left, right) = Cmp(Ticks(left), Ticks(right))

(* docs/rules.md, "Anything else compares as a number": also an integer and  *)
(* a fractional double.                                                       *)
MixedOrderIsNumeric ==
  Given /\ Finite(left) /\ Finite(right) /\ ~Within(Ticks(left), Ticks(right)) =>
    CompareValues(left, right) = Cmp(Ticks(left), Ticks(right))

(* SPEC V-8: `eq` and CALCULATED_VALUE_MISMATCH agree on any two numbers     *)
(* (two NaN are one position of the order and still different values).        *)
OneEqualityOfNumbers ==
  Given /\ IsNumber(left) /\ IsNumber(right) /\ {left, right} # {NaN} =>
    (CompareValues(left, right) = "equal" <=> ValuesEqual(left, right))

Denotes(v, n) == v.kind \in {"int", "double"} /\ Ticks(v) = n * One
OfIntegers == left.kind = "int" /\ right.kind = "int" /\ op \in {"add", "sub", "mul"}

(* docs/rules.md: add, sub and mul of two integers are exact, and stay so when  *)
(* normalized. With a zero on the right the code takes the path of doubles.      *)
NonzeroArithmeticExact ==
  stage \in {"evaluated", "normalized"} /\ OfIntegers /\ right.num # 0
      /\ Exact(op, left.num, right.num) \in Ints /\ field = "integer" =>
    Denotes(value, Exact(op, left.num, right.num))

(* docs/json.md and docs/validation.md: the digits written read back to a    *)
(* value equal to the one they were written for.                              *)
ResubmissionAccepted == stage # "CALCULATED_VALUE_MISMATCH"
IntegerResubmissionAccepted == field = "integer" => ResubmissionAccepted
=============================================================================
