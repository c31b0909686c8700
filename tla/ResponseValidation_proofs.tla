---------------------- MODULE ResponseValidation_proofs ----------------------
(***************************************************************************)
(* Proofs about ResponseValidation: what the calls of one client report and  *)
(* keep agrees with each other, no error is lost unsaid, no answer is         *)
(* dropped, and what was accepted is accepted again.                          *)
(***************************************************************************)
EXTENDS ResponseValidation, SequenceTheorems, FiniteSetTheorems, WellFoundedInduction, TLAPS

-----------------------------------------------------------------------------
(* Sequences of errors, joined and flattened. *)

(* A sequence, over whatever set.                                             *)
IsSeq(s) == s \in Seq(ToSet(s))

(* A sequence over any set is one over the set of its own elements.           *)
LEMMA OwnElements ==
  ASSUME NEW S, NEW s \in Seq(S)
  PROVE  IsSeq(s)
<1>1. Len(s) \in Nat /\ s \in [1..Len(s) -> S] /\ DOMAIN s = 1..Len(s)
  BY LenProperties
<1>2. \A k \in 1..Len(s) : s[k] \in ToSet(s)
  BY <1>1 DEF ToSet
<1>3. s \in [1..Len(s) -> ToSet(s)]
  BY <1>1, <1>2
<1> QED
  BY <1>1, <1>3, SeqDef DEF IsSeq

(* A sequence is a function on 1..Len(s).                                     *)
LEMMA Listed ==
  ASSUME NEW s, IsSeq(s)
  PROVE  /\ Len(s) \in Nat /\ DOMAIN s = 1..Len(s)
         /\ s = <<>> <=> Len(s) = 0
         /\ s = <<>> <=> ToSet(s) = {}
<1>1. Len(s) \in Nat /\ DOMAIN s = 1..Len(s) /\ (s = <<>> <=> Len(s) = 0)
  BY EmptySeq, LenProperties DEF IsSeq
<1>2. ASSUME Len(s) # 0 PROVE ToSet(s) # {}
  <2>1. 1 \in DOMAIN s
    BY <1>1, <1>2
  <2> QED
    BY <2>1, Zenon DEF ToSet
<1>3. ASSUME Len(s) = 0 PROVE ToSet(s) = {}
  <2>1. DOMAIN s = {}
    BY <1>1, <1>3
  <2> QED
    BY <2>1, Zenon DEF ToSet
<1> QED
  BY <1>1, <1>2, <1>3

(* A function on 1..n is a sequence of length n.                              *)
LEMMA FunctionIsSeq ==
  ASSUME NEW n \in Nat, NEW f, f = [k \in 1..n |-> f[k]]
  PROVE  IsSeq(f) /\ Len(f) = n
<1> DEFINE S == {f[k] : k \in 1..n}
<1>1. f \in [1..n -> S]
  OBVIOUS
<1>2. f \in Seq(S)
  BY <1>1, SeqDef
<1>3. Len(f) = n
  BY <1>1, <1>2, LenProperties
<1> QED
  BY <1>2, <1>3, OwnElements

(* The empty sequence and a sequence of one.                                  *)
LEMMA EmptyAndOne ==
  /\ IsSeq(<<>>) /\ ToSet(<<>>) = {}
  /\ \A e : IsSeq(<<e>>) /\ ToSet(<<e>>) = {e} /\ Len(<<e>>) = 1 /\ <<e>>[1] = e
<1>1. IsSeq(<<>>) /\ ToSet(<<>>) = {}
  BY DEF IsSeq, ToSet
<1>2. ASSUME NEW e PROVE IsSeq(<<e>>) /\ ToSet(<<e>>) = {e} /\ Len(<<e>>) = 1 /\ <<e>>[1] = e
  <2>1. ToSet(<<e>>) = {e}
    BY DEF ToSet
  <2>2. <<e>> \in Seq({e}) /\ Len(<<e>>) = 1 /\ <<e>>[1] = e
    OBVIOUS
  <2> QED
    BY <2>1, <2>2 DEF IsSeq
<1> QED
  BY <1>1, <1>2

(* Joining two sequences.                                                     *)
LEMMA Joined ==
  ASSUME NEW s, NEW t, IsSeq(s), IsSeq(t)
  PROVE  /\ IsSeq(s \o t) /\ Len(s \o t) = Len(s) + Len(t)
         /\ ToSet(s \o t) = ToSet(s) \cup ToSet(t)
         /\ \A k \in 1..Len(s) : (s \o t)[k] = s[k]
         /\ \A k \in 1..Len(t) : (s \o t)[Len(s) + k] = t[k]
<1> DEFINE S == ToSet(s) \cup ToSet(t)
           r == s \o t
<1>1. s \in Seq(S) /\ t \in Seq(S)
  BY SeqMonotonic DEF IsSeq
<1>2. Len(s) \in Nat /\ Len(t) \in Nat /\ DOMAIN s = 1..Len(s) /\ DOMAIN t = 1..Len(t)
  BY Listed
<1> HIDE DEF S
<1>3. /\ r \in Seq(S) /\ Len(r) = Len(s) + Len(t)
      /\ \A k \in 1..Len(s) + Len(t) : r[k] = IF k <= Len(s) THEN s[k] ELSE t[k - Len(s)]
  BY <1>1, ConcatProperties
<1>4. IsSeq(r)
  BY <1>3, OwnElements
<1> HIDE DEF r
<1>5. DOMAIN r = 1..Len(s) + Len(t)
  BY <1>3, <1>4, Listed
<1>6. \A k \in 1..Len(s) : r[k] = s[k]
  BY <1>2, <1>3
<1>7. \A k \in 1..Len(t) : r[Len(s) + k] = t[k]
  <2> TAKE k \in 1..Len(t)
  <2>1. Len(s) + k \in 1..Len(s) + Len(t) /\ ~(Len(s) + k <= Len(s)) /\ Len(s) + k - Len(s) = k
    BY <1>2
  <2> QED
    BY <1>3, <2>1
<1>8. \A k \in DOMAIN r : r[k] \in ToSet(s) \cup ToSet(t)
  <2> TAKE k \in DOMAIN r
  <2>1. CASE k <= Len(s)
    BY <1>2, <1>5, <1>6, <2>1 DEF ToSet
  <2>2. CASE ~(k <= Len(s))
    <3>1. k - Len(s) \in 1..Len(t) /\ r[k] = t[k - Len(s)]
      BY <1>2, <1>3, <1>5, <2>2
    <3> QED
      BY <1>2, <3>1 DEF ToSet
  <2> QED
    BY <2>1, <2>2
<1>9. \A k \in 1..Len(s) : k \in DOMAIN r
  BY <1>2, <1>5
<1>10. \A k \in 1..Len(t) : Len(s) + k \in DOMAIN r
  BY <1>2, <1>5
<1>11. ToSet(s) \subseteq ToSet(r)
  BY <1>2, <1>6, <1>9, Zenon DEF ToSet
<1>12. ToSet(t) \subseteq ToSet(r)
  BY <1>2, <1>7, <1>10, Zenon DEF ToSet
<1>13. ToSet(r) \subseteq ToSet(s) \cup ToSet(t)
  BY <1>8, Zenon DEF ToSet
<1> QED
  BY <1>3, <1>4, <1>6, <1>7, <1>11, <1>12, <1>13 DEF r

(* A set of naturals that holds 0 and successors holds every natural.          *)
LEMMA SetInduction ==
  ASSUME NEW S \in SUBSET Nat, 0 \in S, \A n \in S : n + 1 \in S
  PROVE  S = Nat
<1> DEFINE R == {ss \in Nat \X Nat : ss[1] < ss[2]}
<1>1. OpToRel(<, Nat) = R
  BY DEF OpToRel
<1>2. IsWellFoundedOn(R, Nat)
  BY <1>1, NatLessThanWellFounded, Zenon
<1> SUFFICES ASSUME Nat \ S # {} PROVE FALSE
  OBVIOUS
<1>3. PICK m \in Nat \ S : \A n \in Nat \ S : ~(<<n, m>> \in R)
  <2>1. Nat \ S \in SUBSET Nat
    OBVIOUS
  <2> HIDE DEF R
  <2> QED
    BY <1>2, <2>1, WFMin, Zenon
<1>4. \A n \in Nat \ S : ~(n < m)
  BY <1>3
<1>5. m - 1 \in S
  BY <1>4
<1> QED
  BY <1>3, <1>5

(* Append leaves what was there and adds one element at the end.              *)
LEMMA Pushed ==
  ASSUME NEW s, IsSeq(s), NEW e
  PROVE  /\ IsSeq(Append(s, e))
         /\ Len(Append(s, e)) = Len(s) + 1
         /\ Append(s, e)[Len(s) + 1] = e
         /\ \A k \in 1..Len(s) : Append(s, e)[k] = s[k]
<1> DEFINE S == ToSet(s) \cup {e}
<1>1. s \in Seq(S) /\ e \in S
  BY SeqMonotonic DEF IsSeq
<1> HIDE DEF S
<1>2. Append(s, e) \in Seq(S) /\ Len(Append(s, e)) = Len(s) + 1
      /\ \A k \in 1..Len(s) : Append(s, e)[k] = s[k]
      /\ Append(s, e)[Len(s) + 1] = e
  BY <1>1, AppendProperties
<1>3. IsSeq(Append(s, e))
  BY <1>2, OwnElements
<1> QED
  BY <1>2, <1>3

(* Append adds the new element to the set of elements.                        *)
LEMMA AppendedSet ==
  ASSUME NEW s, IsSeq(s), NEW e
  PROVE  ToSet(Append(s, e)) = ToSet(s) \cup {e}
<1>1. PICK r : r = Append(s, e)
  OBVIOUS
<1>2. IsSeq(r) /\ Len(r) = Len(s) + 1 /\ r[Len(s) + 1] = e /\ \A k \in 1..Len(s) : r[k] = s[k]
  BY <1>1, Pushed
<1>3. DOMAIN s = 1..Len(s) /\ Len(s) \in Nat /\ DOMAIN r = 1..Len(s) + 1
  BY <1>2, Listed
<1>4. 1..Len(s) + 1 = 1..Len(s) \cup {Len(s) + 1}
  BY <1>3
<1>5. DOMAIN r = DOMAIN s \cup {Len(s) + 1} /\ \A k \in DOMAIN s : r[k] = s[k]
  BY <1>2, <1>3, <1>4
<1>6. ToSet(r) = ToSet(s) \cup {e}
  BY <1>2, <1>5 DEF ToSet
<1> QED
  BY <1>1, <1>6

(* FlattenSeq's loop: what the first i sequences have been joined to.         *)
Joins(ss, flat) ==
  \A i \in 1..Len(ss) : flat[i] = IF i = 1 THEN ss[i] ELSE flat[i - 1] \o ss[i]

(* FlattenSeq of a sequence that is not empty is the last of those.           *)
LEMMA FlatIsDefined ==
  ASSUME NEW ss, Len(ss) \in Nat \ {0}
  PROVE  \E flat : Joins(ss, flat) /\ FlattenSeq(ss) = flat[Len(ss)]
<1> DEFINE Step(i, f) == IF i = 1 THEN ss[i] ELSE f[i - 1] \o ss[i]
           Good(f, n) == \A i \in 1..n : f[i] = Step(i, f)
           S == {n \in Nat : \E f : f = [i \in 1..n |-> f[i]] /\ Good(f, n)}
<1>1. 0 \in S
  <2>1. Good([i \in 1..0 |-> 0], 0)
    OBVIOUS
  <2> QED
    BY <2>1
<1>2. ASSUME NEW n \in S PROVE n + 1 \in S
  <2>1. PICK f : f = [i \in 1..n |-> f[i]] /\ Good(f, n)
    OBVIOUS
  <2> DEFINE g == [i \in 1..n + 1 |-> IF i = n + 1 THEN Step(i, f) ELSE f[i]]
  <2>2. \A i \in 1..n : g[i] = f[i]
    OBVIOUS
  <2>3. \A i \in 1..n + 1 : i = 1 \/ (i - 1 \in 1..n /\ g[i - 1] = f[i - 1])
    OBVIOUS
  <2>4. \A i \in 1..n + 1 : g[i] = Step(i, f)
    <3>1. \A i \in 1..n : g[i] = Step(i, f)
      <4> HIDE DEF g, Step
      <4> QED
        BY <2>1, <2>2
    <3>2. g[n + 1] = Step(n + 1, f)
      OBVIOUS
    <3>3. \A i \in 1..n + 1 : i \in 1..n \/ i = n + 1
      OBVIOUS
    <3> QED
      BY <3>1, <3>2, <3>3
  <2>5. g = [i \in 1..n + 1 |-> g[i]]
    OBVIOUS
  <2> HIDE DEF g
  <2>6. Good(g, n + 1)
    BY <2>3, <2>4
  <2> HIDE DEF Good, Step
  <2> QED
    BY <2>5, <2>6
<1>3. S = Nat
  <2> HIDE DEF S
  <2>1. S \in SUBSET Nat
    BY DEF S
  <2> QED
    BY <1>1, <1>2, <2>1, SetInduction
<1>4. PICK f : f = [i \in 1..Len(ss) |-> f[i]] /\ Good(f, Len(ss))
  <2>1. Len(ss) \in S
    BY <1>3
  <2> HIDE DEF Good, Step
  <2> QED
    BY <2>1
<1>5. f = [i \in 1..Len(ss) |-> Step(i, f)]
  BY <1>4
<1> DEFINE flat == CHOOSE h : h = [i \in 1..Len(ss) |-> Step(i, h)]
<1>6. flat = [i \in 1..Len(ss) |-> Step(i, flat)]
  BY <1>5
<1>7. FlattenSeq(ss) = flat[Len(ss)]
  BY DEF FlattenSeq
<1> HIDE DEF flat
<1>8. Joins(ss, flat)
  BY <1>6 DEF Joins
<1> QED
  BY <1>7, <1>8

(* What all sequences of a list have.                                         *)
ListOfSeqs(ss, n) == n \in Nat /\ ss = [k \in 1..n |-> ss[k]] /\ \A k \in 1..n : IsSeq(ss[k])

(* The elements of a flattened list are those of its sequences.               *)
LEMMA FlatHasAll ==
  ASSUME NEW ss, NEW n, ListOfSeqs(ss, n)
  PROVE  /\ IsSeq(FlattenSeq(ss))
         /\ ToSet(FlattenSeq(ss)) = UNION {ToSet(ss[k]) : k \in 1..n}
<1>1. IsSeq(ss) /\ Len(ss) = n /\ n \in Nat
  BY FunctionIsSeq DEF ListOfSeqs
<1>2. CASE n = 0
  <2>1. ss = <<>> /\ FlattenSeq(ss) = ss /\ 1..n = {}
    BY <1>1, <1>2, Listed DEF FlattenSeq
  <2> QED
    BY <2>1, EmptyAndOne, Zenon
<1>3. CASE n # 0
  <2>1. PICK flat : Joins(ss, flat) /\ FlattenSeq(ss) = flat[n]
    BY <1>1, <1>3, FlatIsDefined
  <2> DEFINE U(i) == UNION {ToSet(ss[k]) : k \in 1..i}
             Has(i) == IsSeq(flat[i]) /\ ToSet(flat[i]) = U(i)
             S == {i \in Nat : i \in 1..n => Has(i)}
  <2>2. 0 \in S
    OBVIOUS
  <2>3. ASSUME NEW i \in S PROVE i + 1 \in S
    <3> SUFFICES ASSUME i + 1 \in 1..n PROVE Has(i + 1)
      <4> HIDE DEF Has
      <4> QED
        OBVIOUS
    <3>1. i \in Nat /\ 1..i + 1 = 1..i \cup {i + 1} /\ IsSeq(ss[i + 1])
      BY DEF ListOfSeqs
    <3>2. U(i + 1) = U(i) \cup ToSet(ss[i + 1])
      BY <3>1, Zenon
    <3>3. flat[i + 1] = IF i + 1 = 1 THEN ss[i + 1] ELSE flat[i] \o ss[i + 1]
      BY <1>1, <2>1, <3>1 DEF Joins
    <3>4. CASE i = 0
      <4>1. flat[i + 1] = ss[i + 1] /\ 1..i = {}
        BY <3>3, <3>4
      <4>2. U(i) = {}
        BY <4>1, Zenon
      <4> HIDE DEF U
      <4> QED
        BY <3>1, <3>2, <4>1, <4>2
    <3>5. CASE i # 0
      <4>1. i \in 1..n /\ i + 1 # 1
        BY <1>1, <3>1, <3>5
      <4>2. Has(i) /\ flat[i + 1] = flat[i] \o ss[i + 1]
        BY <3>3, <4>1
      <4>3. PICK a : a = flat[i] /\ IsSeq(a)
        BY <4>2
      <4>4. IsSeq(a \o ss[i + 1]) /\ ToSet(a \o ss[i + 1]) = ToSet(a) \cup ToSet(ss[i + 1])
        BY <3>1, <4>3, Joined, Zenon
      <4> HIDE DEF U
      <4> QED
        BY <3>2, <4>2, <4>3, <4>4
    <3> QED
      BY <3>4, <3>5
  <2>4. S = Nat
    <3> HIDE DEF S
    <3>1. S \in SUBSET Nat
      BY DEF S
    <3> QED
      BY <2>2, <2>3, <3>1, SetInduction
  <2>5. n \in 1..n
    BY <1>1, <1>3
  <2>6. Has(n)
    <3> HIDE DEF Has
    <3> QED
      BY <1>1, <2>4, <2>5
  <2> QED
    BY <2>1, <2>6
<1> QED
  BY <1>2, <1>3

(* A list of sequences of one flattens to the list of their elements.         *)
LEMMA FlatOfOnes ==
  ASSUME NEW ss, NEW n \in Nat, NEW f, f = [k \in 1..n |-> f[k]],
         ss = [k \in 1..n |-> ss[k]], \A k \in 1..n : ss[k] = <<f[k]>>
  PROVE  FlattenSeq(ss) = f
<1>1. IsSeq(ss) /\ Len(ss) = n /\ IsSeq(f) /\ Len(f) = n
  BY FunctionIsSeq
<1>2. CASE n = 0
  <2>1. ss = <<>> /\ f = <<>> /\ FlattenSeq(ss) = ss
    BY <1>1, <1>2, Listed DEF FlattenSeq
  <2> QED
    BY <2>1
<1>3. CASE n # 0
  <2>1. PICK flat : Joins(ss, flat) /\ FlattenSeq(ss) = flat[n]
    BY <1>1, <1>3, FlatIsDefined
  <2> DEFINE Has(i) == IsSeq(flat[i]) /\ Len(flat[i]) = i /\ \A k \in 1..i : flat[i][k] = f[k]
             S == {i \in Nat : i \in 1..n => Has(i)}
  <2>2. 0 \in S
    OBVIOUS
  <2>3. ASSUME NEW i \in S PROVE i + 1 \in S
    <3> SUFFICES ASSUME i + 1 \in 1..n PROVE Has(i + 1)
      <4> HIDE DEF Has
      <4> QED
        OBVIOUS
    <3> DEFINE one == <<f[i + 1]>>
    <3>1. i \in Nat /\ ss[i + 1] = one /\ IsSeq(one) /\ Len(one) = 1 /\ one[1] = f[i + 1]
      BY EmptyAndOne
    <3> HIDE DEF one
    <3>2. flat[i + 1] = IF i + 1 = 1 THEN one ELSE flat[i] \o one
      BY <1>1, <2>1, <3>1 DEF Joins
    <3>3. CASE i = 0
      <4>1. flat[i + 1] = one /\ \A k \in 1..i + 1 : k = 1
        BY <3>2, <3>3
      <4> QED
        BY <3>1, <3>3, <4>1
    <3>4. CASE i # 0
      <4>1. i \in 1..n /\ i + 1 # 1
        BY <3>1, <3>4
      <4>2. Has(i) /\ flat[i + 1] = flat[i] \o one
        BY <3>2, <4>1
      <4>3. /\ IsSeq(flat[i] \o one) /\ Len(flat[i] \o one) = i + 1
            /\ \A k \in 1..i : (flat[i] \o one)[k] = flat[i][k]
            /\ (flat[i] \o one)[i + 1] = f[i + 1]
        <5>1. /\ IsSeq(flat[i] \o one) /\ Len(flat[i] \o one) = Len(flat[i]) + Len(one)
              /\ \A k \in 1..Len(flat[i]) : (flat[i] \o one)[k] = flat[i][k]
              /\ \A k \in 1..Len(one) : (flat[i] \o one)[Len(flat[i]) + k] = one[k]
          <6>1. PICK a : a = flat[i] /\ IsSeq(a)
            BY <4>2
          <6>2. PICK b : b = one /\ IsSeq(b)
            BY <3>1
          <6>3. /\ IsSeq(a \o b) /\ Len(a \o b) = Len(a) + Len(b)
                /\ \A k \in 1..Len(a) : (a \o b)[k] = a[k]
                /\ \A k \in 1..Len(b) : (a \o b)[Len(a) + k] = b[k]
            BY <6>1, <6>2, Joined
          <6> QED
            BY <6>1, <6>2, <6>3
        <5> QED
          BY <3>1, <4>2, <5>1
      <4>4. \A k \in 1..i + 1 : k \in 1..i \/ k = i + 1
        BY <3>1
      <4> QED
        BY <4>2, <4>3, <4>4
    <3> QED
      BY <3>3, <3>4
  <2>4. S = Nat
    <3> HIDE DEF S
    <3>1. S \in SUBSET Nat
      BY DEF S
    <3> QED
      BY <2>2, <2>3, <3>1, SetInduction
  <2>5. n \in 1..n
    BY <1>3
  <2>6. Has(n)
    <3> HIDE DEF Has
    <3> QED
      BY <2>4, <2>5
  <2>7. DOMAIN flat[n] = 1..n
    BY <2>6, Listed
  <2>8. flat[n] \in [1..n -> ToSet(flat[n])]
    BY <2>6 DEF IsSeq
  <2>9. flat[n] = f
    BY <2>6, <2>8
  <2> QED
    BY <2>1, <2>9
<1> QED
  BY <1>2, <1>3

-----------------------------------------------------------------------------
(* What is found: the errors of every check as a set. *)

(* The errors that a list of codes stands for at a path.                      *)
Marks(codes, path) == {Error(c, path) : c \in ToSet(codes)}

(* A list of codes becomes a list of errors, in the same order.               *)
LEMMA Marked ==
  ASSUME NEW codes, IsSeq(codes), NEW path
  PROVE  /\ IsSeq([j \in DOMAIN codes |-> Error(codes[j], path)])
         /\ ToSet([j \in DOMAIN codes |-> Error(codes[j], path)]) = Marks(codes, path)
<1> DEFINE f == [j \in DOMAIN codes |-> Error(codes[j], path)]
<1>1. DOMAIN codes = 1..Len(codes) /\ Len(codes) \in Nat
  BY Listed
<1>2. f = [j \in 1..Len(codes) |-> f[j]]
  BY <1>1
<1>3. DOMAIN f = DOMAIN codes /\ \A j \in DOMAIN codes : f[j] = Error(codes[j], path)
  OBVIOUS
<1> HIDE DEF f
<1>4. IsSeq(f)
  BY <1>1, <1>2, FunctionIsSeq
<1>5. ToSet(f) = Marks(codes, path)
  BY <1>3, Zenon DEF ToSet, Marks
<1> QED
  BY <1>4, <1>5 DEF f

(* The verdicts of a plain field and of a calculated one are lists of codes.  *)
LEMMA ScalarListsCodes ==
  ASSUME NEW s, NEW code, NEW v, NEW mode
  PROVE  IsSeq(ScalarField(s, code, v, mode).codes)
<1>1. \A c : IsSeq(Refused(c).codes)
  BY EmptyAndOne DEF Refused
<1>2. IsSeq([codes |-> <<>>, keeps |-> FALSE].codes)
  BY EmptyAndOne
<1> QED
  BY <1>1, EmptyAndOne DEF ScalarField

(* So is what the checks of a calculated value say.                           *)
LEMMA CalculatedListsCodes ==
  ASSUME NEW s, NEW code, NEW v, NEW value, NEW mode
  PROVE  IsSeq(CalculatedCodes(s, code, v, value, mode))
<1> DEFINE a == IF v \notin {"absent", "null"} /\ ~Same(code, v, value) THEN <<"CALCULATED_VALUE_MISMATCH">> ELSE <<>>
           b == IF ~Representable(code, value) THEN <<"CALCULATED_VALUE_INVALID">> ELSE <<>>
           d == IF Required(s, code) /\ value \in {"null", "blank"} THEN <<"REQUIRED_FIELD_MISSING">> ELSE <<>>
<1>1. IsSeq(a) /\ IsSeq(b) /\ IsSeq(d)
  BY EmptyAndOne
<1> HIDE DEF a, b, d
<1>2. IsSeq(a \o b \o d)
  BY <1>1, Joined
<1>3. CalculatedCodes(s, code, v, value, mode) =
        IF v \in {"hollow", "object"} THEN <<"INVALID_TYPE">>
        ELSE IF mode = "Draft" THEN <<>> ELSE a \o b \o d
  BY DEF CalculatedCodes, a, b, d
<1> QED
  BY <1>2, <1>3, EmptyAndOne

(* And so are the verdicts of every top-level field and of every cell.        *)
LEMMA FieldListsCodes ==
  ASSUME NEW s, NEW code, NEW v, NEW value, NEW mode
  PROVE  /\ IsSeq(CalculatedField(s, code, v, value, mode).codes)
         /\ IsSeq(CalculatedCell(s, code, v, value, mode).codes)
         /\ IsSeq(TopField(s, code, mode).codes)
         /\ \A position : IsSeq(Cell(s, position, code, mode).codes)
<1>1. \A c, w, x : IsSeq(CalculatedCell(s, c, w, x, mode).codes)
  BY CalculatedListsCodes DEF CalculatedCell
<1>2. \A c, w, x : IsSeq(CalculatedField(s, c, w, x, mode).codes)
  <2> TAKE c, w, x
  <2> DEFINE cell == CalculatedCell(s, c, w, x, mode)
  <2>1. IsSeq(cell.codes)
    BY <1>1
  <2> HIDE DEF cell
  <2>2. IsSeq(<<"CALCULATED_VALUE_INVALID">>) /\ IsSeq(Append(cell.codes, "CALCULATED_VALUE_INVALID"))
    BY <2>1, EmptyAndOne, Pushed
  <2>3. IsSeq([codes |-> Append(cell.codes, "CALCULATED_VALUE_INVALID"), keeps |-> FALSE].codes)
    BY <2>2
  <2> QED
    BY <2>1, <2>3 DEF CalculatedField, cell
<1>3. IsSeq(TopField(s, code, mode).codes)
  BY <1>2, ScalarListsCodes DEF TopField
<1>4. \A position : IsSeq(Cell(s, position, code, mode).codes)
  BY <1>1, ScalarListsCodes DEF Cell
<1> QED
  BY <1>1, <1>2, <1>3, <1>4

(* What one top-level field, one element of the repeater, and the whole       *)
(* repeater are found to have wrong with them.                                 *)
FieldFinds(s, code, mode) == Marks(TopField(s, code, mode).codes, <<code>>)
FieldsFind(s, codes, mode) == UNION {FieldFinds(s, c, mode) : c \in codes}
CellFinds(s, position, code, mode) == Marks(Cell(s, position, code, mode).codes, <<Repeater, position, code>>)
RowFinds(s, position, mode) ==
  IF ~IsRow(s.rows.elements[position]) THEN {Error("INVALID_TYPE", <<Repeater, position>>)}
  ELSE (IF s.rows.elements[position].stray THEN {Error("UNKNOWN_FIELD", <<Repeater, position>>)} ELSE {})
       \cup UNION {CellFinds(s, position, c, mode) : c \in Cells}
Inactive(s) == ~Visible(s, Repeater) \/ ~Enabled(s, Repeater)
RowsFind(s, mode) == UNION {RowFinds(s, k, mode) : k \in DOMAIN s.rows.elements}
RepeaterFinds(s, mode) ==
  IF Inactive(s)
  THEN IF s.rows.kind = "array" /\ Len(s.rows.elements) > 0
       THEN {Error(IF Visible(s, Repeater) THEN "DISABLED_FIELD_VALUE" ELSE "HIDDEN_FIELD_VALUE", <<Repeater>>)}
       ELSE {}
  ELSE IF s.rows.kind # "array"
  THEN (IF s.rows.kind = "wrong" THEN {Error("INVALID_TYPE", <<Repeater>>)} ELSE {}) \cup ToSet(ItemCount(0, mode))
  ELSE ToSet(ItemCount(Len(s.rows.elements), mode)) \cup RowsFind(s, mode)

(* The loop over the top-level fields finds what its fields have.             *)
LEMMA FieldsFound ==
  ASSUME NEW s, NEW mode, NEW chosen \in SUBSET Codes
  PROVE  /\ IsSeq(ErrorsOf(s, chosen, mode))
         /\ ToSet(ErrorsOf(s, chosen, mode)) = FieldsFind(s, chosen, mode)
<1> DEFINE n == Len(Fields)
           found(k) == IF Fields[k] \in chosen THEN TopField(s, Fields[k], mode).codes ELSE <<>>
           list(k) == [j \in DOMAIN found(k) |-> Error(found(k)[j], <<Fields[k]>>)]
           ss == [k \in DOMAIN Fields |-> list(k)]
<1>1. n \in Nat /\ DOMAIN Fields = 1..n /\ Codes = {Fields[k] : k \in 1..n}
  BY ClientAssumption, LenProperties DEF Codes
<1>2. ErrorsOf(s, chosen, mode) = FlattenSeq(ss)
  BY DEF ErrorsOf
<1>3. \A k \in 1..n : IsSeq(found(k))
  BY FieldListsCodes, EmptyAndOne
<1>4. \A k \in 1..n : IsSeq(list(k)) /\ ToSet(list(k)) = Marks(found(k), <<Fields[k]>>)
  <2> TAKE k \in 1..n
  <2>1. PICK codes : codes = found(k) /\ IsSeq(codes)
    BY <1>3
  <2> HIDE DEF found
  <2> QED
    BY <2>1, Marked
<1>5. ss = [k \in 1..n |-> ss[k]] /\ \A k \in 1..n : ss[k] = list(k)
  BY <1>1
<1>6. \A k \in 1..n : ToSet(list(k)) = IF Fields[k] \in chosen THEN FieldFinds(s, Fields[k], mode) ELSE {}
  <2> TAKE k \in 1..n
  <2>1. CASE Fields[k] \in chosen
    BY <1>4, <2>1 DEF FieldFinds
  <2>2. CASE Fields[k] \notin chosen
    <3>1. found(k) = <<>>
      BY <2>2
    <3>2. Marks(<<>>, <<Fields[k]>>) = {}
      BY EmptyAndOne DEF Marks
    <3> QED
      BY <1>4, <2>2, <3>1, <3>2
  <2> QED
    BY <2>1, <2>2
<1> HIDE DEF n, ss, list
<1>7. IsSeq(FlattenSeq(ss)) /\ ToSet(FlattenSeq(ss)) = UNION {ToSet(ss[k]) : k \in 1..n}
  <2>1. ListOfSeqs(ss, n)
    BY <1>1, <1>4, <1>5 DEF ListOfSeqs
  <2> QED
    BY <2>1, FlatHasAll, Zenon
<1>8. UNION {ToSet(ss[k]) : k \in 1..n} = FieldsFind(s, chosen, mode)
  <2>1. \A k \in 1..n : ToSet(ss[k]) = IF Fields[k] \in chosen THEN FieldFinds(s, Fields[k], mode) ELSE {}
    BY <1>5, <1>6
  <2>2. \A c \in chosen : \E k \in 1..n : c = Fields[k]
    BY <1>1
  <2> QED
    BY <2>1, <2>2 DEF FieldsFind
<1> QED
  BY <1>2, <1>7, <1>8

(* The loop over the children of a row, and the loop over the rows.           *)
LEMMA RowFound ==
  ASSUME NEW s, NEW position, NEW mode
  PROVE  /\ IsSeq(RowErrors(s, position, mode))
         /\ ToSet(RowErrors(s, position, mode)) = RowFinds(s, position, mode)
<1> DEFINE n == Len(Children)
           element == s.rows.elements[position]
           codes(k) == Cell(s, position, Children[k], mode).codes
           list(k) == [j \in DOMAIN codes(k) |-> Error(codes(k)[j], <<Repeater, position, Children[k]>>)]
           ss == [k \in DOMAIN Children |-> list(k)]
           stray == IF element.stray THEN <<Error("UNKNOWN_FIELD", <<Repeater, position>>)>> ELSE <<>>
<1>1. n \in Nat /\ DOMAIN Children = 1..n /\ Cells = {Children[k] : k \in 1..n}
  BY ClientAssumption, LenProperties DEF Cells
<1>2. RowErrors(s, position, mode) =
        IF ~IsRow(element) THEN <<Error("INVALID_TYPE", <<Repeater, position>>)>>
        ELSE stray \o FlattenSeq(ss)
  BY DEF RowErrors
<1>3. \A k \in 1..n : IsSeq(list(k)) /\ ToSet(list(k)) = CellFinds(s, position, Children[k], mode)
  <2> TAKE k \in 1..n
  <2>1. PICK c : c = codes(k) /\ IsSeq(c)
    BY FieldListsCodes
  <2>2. CellFinds(s, position, Children[k], mode) = Marks(c, <<Repeater, position, Children[k]>>)
    BY <2>1 DEF CellFinds
  <2> HIDE DEF codes
  <2> QED
    BY <2>1, <2>2, Marked
<1>4. ss = [k \in 1..n |-> ss[k]] /\ \A k \in 1..n : ss[k] = list(k)
  BY <1>1
<1>5. IsSeq(stray) /\ ToSet(stray) = IF element.stray THEN {Error("UNKNOWN_FIELD", <<Repeater, position>>)} ELSE {}
  BY EmptyAndOne
<1> HIDE DEF n, ss, list, stray
<1>6. IsSeq(FlattenSeq(ss)) /\ ToSet(FlattenSeq(ss)) = UNION {ToSet(ss[k]) : k \in 1..n}
  <2>1. ListOfSeqs(ss, n)
    BY <1>1, <1>3, <1>4 DEF ListOfSeqs
  <2> QED
    BY <2>1, FlatHasAll, Zenon
<1>7. UNION {ToSet(ss[k]) : k \in 1..n} = UNION {CellFinds(s, position, c, mode) : c \in Cells}
  BY <1>1, <1>3, <1>4
<1>8. IsSeq(stray \o FlattenSeq(ss)) /\ ToSet(stray \o FlattenSeq(ss)) = ToSet(stray) \cup ToSet(FlattenSeq(ss))
  BY <1>5, <1>6, Joined, Zenon
<1> QED
  BY <1>2, <1>5, <1>6, <1>7, <1>8, EmptyAndOne DEF RowFinds

(* The checks of the number of rows.                                          *)
LEMMA ItemCountListed ==
  ASSUME NEW count, NEW mode
  PROVE  IsSeq(ItemCount(count, mode))
<1> DEFINE a == IF count < form.minItems THEN <<Error("REPEATER_MIN_ITEMS", <<Repeater>>)>> ELSE <<>>
           b == IF count > form.maxItems THEN <<Error("REPEATER_MAX_ITEMS", <<Repeater>>)>> ELSE <<>>
<1>1. IsSeq(a) /\ IsSeq(b)
  BY EmptyAndOne
<1>2. ItemCount(count, mode) = IF mode = "Draft" THEN <<>> ELSE a \o b
  BY DEF ItemCount
<1> HIDE DEF a, b
<1> QED
  BY <1>1, <1>2, EmptyAndOne, Joined

(* The whole repeater.                                                        *)
LEMMA RepeaterFound ==
  ASSUME NEW s, IsSeq(s.rows.elements), NEW mode
  PROVE  /\ IsSeq(ValidateRepeater(s, mode).errors)
         /\ ToSet(ValidateRepeater(s, mode).errors) = RepeaterFinds(s, mode)
<1> DEFINE count == Len(s.rows.elements)
           list == [k \in 1..count |-> RowErrors(s, k, mode)]
           gate == Error(IF Visible(s, Repeater) THEN "DISABLED_FIELD_VALUE" ELSE "HIDDEN_FIELD_VALUE", <<Repeater>>)
           errors == ValidateRepeater(s, mode).errors
<1>1. count \in Nat /\ DOMAIN s.rows.elements = 1..count
  BY Listed
<1>2. CASE Inactive(s)
  <2>1. errors = IF s.rows.kind = "array" /\ count > 0 THEN <<gate>> ELSE <<>>
    BY <1>2 DEF ValidateRepeater, Inactive
  <2> QED
    BY <1>2, <2>1, EmptyAndOne DEF RepeaterFinds
<1>3. CASE ~Inactive(s) /\ s.rows.kind # "array"
  <2> DEFINE a == IF s.rows.kind = "wrong" THEN <<Error("INVALID_TYPE", <<Repeater>>)>> ELSE <<>>
  <2>1. errors = a \o ItemCount(0, mode)
    BY <1>3 DEF ValidateRepeater, Inactive
  <2>2. IsSeq(a) /\ ToSet(a) = IF s.rows.kind = "wrong" THEN {Error("INVALID_TYPE", <<Repeater>>)} ELSE {}
    BY EmptyAndOne
  <2> HIDE DEF a, errors
  <2>3. IsSeq(errors) /\ ToSet(errors) = ToSet(a) \cup ToSet(ItemCount(0, mode))
    BY <2>1, <2>2, ItemCountListed, Joined, Zenon
  <2> QED
    BY <1>3, <2>2, <2>3 DEF RepeaterFinds, errors
<1>4. CASE ~Inactive(s) /\ s.rows.kind = "array"
  <2>1. errors = ItemCount(count, mode) \o FlattenSeq(list)
    BY <1>4 DEF ValidateRepeater, Inactive
  <2>2. list = [k \in 1..count |-> list[k]] /\ \A k \in 1..count : list[k] = RowErrors(s, k, mode)
    OBVIOUS
  <2> HIDE DEF list, errors, count
  <2>3. \A k \in 1..count : IsSeq(list[k]) /\ ToSet(list[k]) = RowFinds(s, k, mode)
    BY <2>2, RowFound
  <2>4. IsSeq(FlattenSeq(list)) /\ ToSet(FlattenSeq(list)) = UNION {ToSet(list[k]) : k \in 1..count}
    BY <1>1, <2>2, <2>3, FlatHasAll, Zenon DEF ListOfSeqs
  <2>5. UNION {ToSet(list[k]) : k \in 1..count} = RowsFind(s, mode)
    BY <1>1, <2>3 DEF RowsFind
  <2>6. IsSeq(errors) /\ ToSet(errors) = ToSet(ItemCount(count, mode)) \cup ToSet(FlattenSeq(list))
    BY <2>1, <2>4, ItemCountListed, Joined, Zenon
  <2> QED
    BY <1>4, <2>4, <2>5, <2>6 DEF RepeaterFinds, errors, count
<1> QED
  BY <1>2, <1>3, <1>4

(* The whole list: what one call finds.                                       *)
OnPageCodes(page) == {c \in Codes : OnPage(c, page)}
Finds(s, mode, page) ==
  (IF s.stray THEN {Error("UNKNOWN_FIELD", <<"answers">>)} ELSE {})
  \cup FieldsFind(s, OnPageCodes(page) \ (Calculated \cup {Repeater}), mode)
  \cup (IF OnPage(Repeater, page) THEN RepeaterFinds(s, mode) ELSE {})
  \cup FieldsFind(s, OnPageCodes(page) \cap Calculated, mode)
  \cup (IF mode = "Complete" /\ page = "all" /\ ~Flag(s, form.assert, TRUE)
        THEN {Error("VALIDATION", <<"rules">>)} ELSE {})

(* Part after part, the list of a call is what the call finds.                *)
LEMMA AllFound ==
  ASSUME NEW s, IsSeq(s.rows.elements), NEW mode, NEW page
  PROVE  /\ IsSeq(AllErrors(s, mode, page))
         /\ ToSet(AllErrors(s, mode, page)) = Finds(s, mode, page)
<1> DEFINE a == IF s.stray THEN <<Error("UNKNOWN_FIELD", <<"answers">>)>> ELSE <<>>
           b == ErrorsOf(s, OnPageCodes(page) \ (Calculated \cup {Repeater}), mode)
           c == IF OnPage(Repeater, page) THEN ValidateRepeater(s, mode).errors ELSE <<>>
           d == ErrorsOf(s, OnPageCodes(page) \cap Calculated, mode)
           e == IF mode = "Complete" /\ page = "all" /\ ~Flag(s, form.assert, TRUE)
                THEN <<Error("VALIDATION", <<"rules">>)>> ELSE <<>>
<1>1. AllErrors(s, mode, page) = a \o b \o c \o d \o e
  BY DEF AllErrors, OnPageCodes
<1>2. IsSeq(a) /\ ToSet(a) = IF s.stray THEN {Error("UNKNOWN_FIELD", <<"answers">>)} ELSE {}
  BY EmptyAndOne
<1>3. /\ IsSeq(b)
      /\ ToSet(b) = FieldsFind(s, OnPageCodes(page) \ (Calculated \cup {Repeater}), mode)
  <2>1. OnPageCodes(page) \ (Calculated \cup {Repeater}) \in SUBSET Codes
    BY DEF OnPageCodes
  <2> QED
    BY <2>1, FieldsFound
<1>4. IsSeq(c) /\ ToSet(c) = IF OnPage(Repeater, page) THEN RepeaterFinds(s, mode) ELSE {}
  BY RepeaterFound, EmptyAndOne
<1>5. IsSeq(d) /\ ToSet(d) = FieldsFind(s, OnPageCodes(page) \cap Calculated, mode)
  <2>1. OnPageCodes(page) \cap Calculated \in SUBSET Codes
    BY DEF OnPageCodes
  <2> QED
    BY <2>1, FieldsFound
<1>6. IsSeq(e) /\ ToSet(e) = IF mode = "Complete" /\ page = "all" /\ ~Flag(s, form.assert, TRUE)
                            THEN {Error("VALIDATION", <<"rules">>)} ELSE {}
  BY EmptyAndOne
<1> HIDE DEF a, b, c, d, e
<1>7. PICK ab : ab = a \o b /\ IsSeq(ab) /\ ToSet(ab) = ToSet(a) \cup ToSet(b)
  BY <1>2, <1>3, Joined, Zenon
<1>8. PICK abc : abc = ab \o c /\ IsSeq(abc) /\ ToSet(abc) = ToSet(ab) \cup ToSet(c)
  BY <1>4, <1>7, Joined, Zenon
<1>9. PICK abcd : abcd = abc \o d /\ IsSeq(abcd) /\ ToSet(abcd) = ToSet(abc) \cup ToSet(d)
  BY <1>5, <1>8, Joined, Zenon
<1>10. PICK abcde : abcde = abcd \o e /\ IsSeq(abcde) /\ ToSet(abcde) = ToSet(abcd) \cup ToSet(e)
  BY <1>6, <1>9, Joined, Zenon
<1>11. AllErrors(s, mode, page) = abcde
  BY <1>1, <1>7, <1>8, <1>9, <1>10
<1>12. Finds(s, mode, page) = ToSet(a) \cup ToSet(b) \cup ToSet(c) \cup ToSet(d) \cup ToSet(e)
  BY <1>2, <1>3, <1>4, <1>5, <1>6 DEF Finds
<1> QED
  BY <1>7, <1>8, <1>9, <1>10, <1>11, <1>12

-----------------------------------------------------------------------------
(* The cap. *)

(* cap_errors returns the errors, or fewer and a summary; and never too many. *)
LEMMA CapKeepsAllOrSaysSo ==
  ASSUME NEW errors, IsSeq(errors)
  PROVE  /\ IsSeq(CapErrors(errors)) /\ Len(CapErrors(errors)) <= MaxErrors
         /\ \/ CapErrors(errors) = errors
            \/ \E j \in DOMAIN CapErrors(errors) : CapErrors(errors)[j].code = Truncated
<1> DEFINE fits(n) == n <= MaxErrors - 1 /\ (n <= 1 \/ Bytes(SubSeq(errors, 1, n)) <= MaxBytes)
           Cut(n) == (\A m \in 1..n : fits(m)) /\ (n = Len(errors) \/ ~fits(n + 1))
           kept == CHOOSE n \in 0..Len(errors) : Cut(n)
<1>1. Len(errors) \in Nat /\ MaxErrors \in Nat \ {0}
  BY Listed, ClientAssumption
<1>2. \E n \in 0..Len(errors) : Cut(n)
  <2> DEFINE S == {n \in Nat : n <= Len(errors) => (\E m \in 0..n : Cut(m)) \/ \A m \in 1..n : fits(m)}
  <2> SUFFICES ASSUME ~\E n \in 0..Len(errors) : Cut(n) PROVE FALSE
    OBVIOUS
  <2>1. 0 \in S
    OBVIOUS
  <2>2. ASSUME NEW n \in S PROVE n + 1 \in S
    <3> HIDE DEF fits
    <3> SUFFICES ASSUME n + 1 <= Len(errors) PROVE \A m \in 1..n + 1 : fits(m)
      OBVIOUS
    <3>1. n \in Nat /\ n \in 0..Len(errors) /\ n # Len(errors) /\ \A m \in 0..n : m \in 0..Len(errors)
      BY <1>1
    <3>2. ~Cut(n) /\ ~\E m \in 0..n : Cut(m)
      BY <3>1
    <3>3. \A m \in 1..n : fits(m)
      BY <3>1, <3>2
    <3>4. fits(n + 1)
      BY <3>1, <3>2, <3>3
    <3>5. \A m \in 1..n + 1 : m \in 1..n \/ m = n + 1
      BY <3>1
    <3> QED
      BY <3>3, <3>4, <3>5
  <2>3. S = Nat
    <3> HIDE DEF S
    <3>1. S \in SUBSET Nat
      BY DEF S
    <3> QED
      BY <2>1, <2>2, <3>1, SetInduction
  <2> HIDE DEF fits
  <2>4. \A m \in 1..Len(errors) : fits(m)
    BY <1>1, <2>3
  <2>5. Cut(Len(errors))
    BY <2>4
  <2> QED
    BY <1>1, <2>5
<1>3. kept \in 0..Len(errors) /\ Cut(kept)
  <2> HIDE DEF Cut
  <2> QED
    BY <1>2
<1>4. CapErrors(errors) = IF kept < Len(errors) THEN Append(SubSeq(errors, 1, kept), Error(Truncated, <<>>))
                                                ELSE errors
  BY DEF CapErrors
<1>5. kept <= MaxErrors - 1
  BY <1>1, <1>3
<1> HIDE DEF kept, Cut, fits
<1>6. CASE kept < Len(errors)
  <2> DEFINE front == SubSeq(errors, 1, kept)
             last == Error(Truncated, <<>>)
  <2>1. IsSeq(front) /\ Len(front) = kept
    <3>1. \A k \in 1..kept : errors[k] \in ToSet(errors)
      BY <1>1, <1>3, Listed DEF ToSet
    <3>2. /\ front \in Seq(ToSet(errors))
          /\ Len(front) = IF 1 <= kept THEN kept - 1 + 1 ELSE 0
      <4>1. 1 \in Int /\ kept \in Int
        BY <1>3
      <4> QED
        BY <3>1, <4>1, SubSeqProperties
    <3>3. Len(front) = kept
      BY <1>3, <3>2
    <3> QED
      BY <3>2, <3>3, OwnElements, Zenon
  <2>2. last.code = Truncated
    BY DEF Error
  <2> HIDE DEF front, last
  <2>3. /\ IsSeq(Append(front, last)) /\ Len(Append(front, last)) = kept + 1
        /\ Append(front, last)[kept + 1] = last
    BY <2>1, Pushed
  <2>4. CapErrors(errors) = Append(front, last)
    BY <1>4, <1>6 DEF front, last
  <2>5. kept + 1 \in DOMAIN Append(front, last)
    BY <1>3, <2>3, Listed
  <2> QED
    BY <1>1, <1>3, <1>5, <2>2, <2>3, <2>4, <2>5
<1>7. CASE ~(kept < Len(errors))
  <2>1. CapErrors(errors) = errors /\ Len(errors) = kept
    BY <1>1, <1>3, <1>4, <1>7
  <2> QED
    BY <1>1, <1>3, <1>5, <2>1
<1> QED
  BY <1>6, <1>7

-----------------------------------------------------------------------------
(* The invariant: what was returned was computed from the current answers.    *)

(* The verdicts on a field, of what they look at: the flags and the answer.   *)
ScalarVerdict(visible, enabled, readOnly, required, wrong, v, mode) ==
  LET active == visible /\ enabled
      open   == active /\ ~readOnly
      empty  == IsEmptyElement(v)
  IN  CASE ~active /\ ~empty -> Refused(IF visible THEN "DISABLED_FIELD_VALUE" ELSE "HIDDEN_FIELD_VALUE")
        [] active /\ ~open /\ ~empty -> Refused("READONLY_FIELD_MODIFIED")
        [] open /\ empty /\ mode = "Complete" /\ required -> Refused("REQUIRED_FIELD_MISSING")
        [] open /\ wrong -> Refused("INVALID_TYPE")
        [] open /\ v = "over" -> Refused("CONSTRAINT_VIOLATION")
        [] OTHER -> [codes |-> <<>>, keeps |-> open /\ v \in Usable]

CalculatedVerdict(same, representable, required, v, value, mode) ==
  IF v \in {"hollow", "object"} THEN <<"INVALID_TYPE">>
  ELSE IF mode = "Draft" THEN <<>>
  ELSE (IF v \notin {"absent", "null"} /\ ~same THEN <<"CALCULATED_VALUE_MISMATCH">> ELSE <<>>)
       \o (IF ~representable THEN <<"CALCULATED_VALUE_INVALID">> ELSE <<>>)
       \o (IF required /\ value \in {"null", "blank"} THEN <<"REQUIRED_FIELD_MISSING">> ELSE <<>>)

(* The checks of the model are these verdicts. *)
LEMMA VerdictsAre ==
  /\ \A s, c, v, mode :
       ScalarField(s, c, v, mode) =
         ScalarVerdict(Visible(s, c), Enabled(s, c), form.readOnly[c], Required(s, c), WrongType(c, v), v, mode)
  /\ \A s, c, v, value, mode :
       CalculatedCodes(s, c, v, value, mode) =
         CalculatedVerdict(Same(c, v, value), Representable(c, value), Required(s, c), v, value, mode)
<1>1. ASSUME NEW s, NEW c, NEW v, NEW mode
      PROVE  ScalarField(s, c, v, mode) =
               ScalarVerdict(Visible(s, c), Enabled(s, c), form.readOnly[c], Required(s, c), WrongType(c, v), v, mode)
  BY ZenonT(30) DEF ScalarField, ScalarVerdict
<1>2. ASSUME NEW s, NEW c, NEW v, NEW value, NEW mode
      PROVE  CalculatedCodes(s, c, v, value, mode) =
               CalculatedVerdict(Same(c, v, value), Representable(c, value), Required(s, c), v, value, mode)
  BY ZenonT(30) DEF CalculatedCodes, CalculatedVerdict
<1> QED
  BY <1>1, <1>2

(* No step changes the form, so whatever is computed from it stays the same.  *)
LEMMA SameFormSameVerdicts ==
  ASSUME form' = form
  PROVE  /\ \A s, call : Validate(s, call)' = Validate(s, call)
         /\ \A s, mode, page : AllErrors(s, mode, page)' = AllErrors(s, mode, page)
         /\ \A s, mode, page : Normalized(s, mode, page)' = Normalized(s, mode, page)
         /\ \A s : EvaluationFails(s)' = EvaluationFails(s)
<1>1. \A s, c : /\ Visible(s, c)' = Visible(s, c) /\ Enabled(s, c)' = Enabled(s, c)
               /\ Required(s, c)' = Required(s, c)
  BY DEF Visible, Enabled, Required, Flag
<1>2. \A s, p, b : Flag(s, p, b)' = Flag(s, p, b)
  BY DEF Flag
<1>3. Calculated' = Calculated
  BY DEF Calculated
<1>4. \A s, c : ValueOf(s, c)' = ValueOf(s, c)
  BY DEF ValueOf
<1>5. \A s, c : ValuesOf(s, c)' = ValuesOf(s, c)
  BY DEF ValuesOf
<1>6. \A s : EvaluationFails(s)' = EvaluationFails(s)
  BY <1>3, <1>4, <1>5 DEF EvaluationFails
<1>22. \A c, v, w : /\ WrongType(c, v)' = WrongType(c, v)
                    /\ Same(c, v, w)' = Same(c, v, w)
                    /\ Representable(c, v)' = Representable(c, v)
  BY DEF WrongType, Same, Representable
<1>23. \A c, v : AsKept(c, v)' = AsKept(c, v)
  BY <1>3 DEF AsKept, Converted, Spelled
<1>7. \A s, c, v, mode : ScalarField(s, c, v, mode)' = ScalarField(s, c, v, mode)
  <2> TAKE s, c, v, mode
  <2> DEFINE seen == ScalarVerdict(Visible(s, c), Enabled(s, c), form.readOnly[c], Required(s, c), WrongType(c, v), v, mode)
  <2>1. seen' = seen
    BY <1>1, <1>22, Zenon
  <2>2. ScalarField(s, c, v, mode) = seen
    BY VerdictsAre
  <2>3. ScalarField(s, c, v, mode)' = seen'
    BY ZenonT(30) DEF ScalarField, ScalarVerdict
  <2> QED
    BY <2>1, <2>2, <2>3
<1>8. \A s, c, v, value, mode : CalculatedCodes(s, c, v, value, mode)' = CalculatedCodes(s, c, v, value, mode)
  <2> TAKE s, c, v, value, mode
  <2> DEFINE seen == CalculatedVerdict(Same(c, v, value), Representable(c, value), Required(s, c), v, value, mode)
  <2>1. seen' = seen
    BY <1>1, <1>22, Zenon
  <2>2. CalculatedCodes(s, c, v, value, mode) = seen
    BY VerdictsAre
  <2>3. CalculatedCodes(s, c, v, value, mode)' = seen'
    BY ZenonT(30) DEF CalculatedCodes, CalculatedVerdict
  <2> QED
    BY <2>1, <2>2, <2>3
<1>9. \A s, c, v, value, mode : CalculatedCell(s, c, v, value, mode)' = CalculatedCell(s, c, v, value, mode)
  BY <1>8, <1>22 DEF CalculatedCell
<1>10. \A s, c, v, value, mode : CalculatedField(s, c, v, value, mode)' = CalculatedField(s, c, v, value, mode)
  <2> TAKE s, c, v, value, mode
  <2> DEFINE cell == CalculatedCell(s, c, v, value, mode)
             bad == cell.keeps /\ mode = "Complete" /\ value \notin {"null", "blank"}
                      /\ ~SatisfiesField(c, value)
             verdict == IF bad THEN [codes |-> Append(cell.codes, "CALCULATED_VALUE_INVALID"), keeps |-> FALSE]
                              ELSE cell
  <2>1. cell' = cell
    BY <1>9
  <2>2. SatisfiesField(c, value)' <=> SatisfiesField(c, value)
    BY DEF SatisfiesField
  <2>3. CalculatedField(s, c, v, value, mode) = verdict /\ CalculatedField(s, c, v, value, mode)' = verdict'
    BY DEF CalculatedField
  <2> HIDE DEF cell
  <2>4. bad' <=> bad
    BY <2>1, <2>2
  <2> HIDE DEF bad
  <2>5. verdict' = verdict
    BY <2>1, <2>4
  <2> QED
    BY <2>3, <2>5
<1>11. \A count, mode : ItemCount(count, mode)' = ItemCount(count, mode)
  BY DEF ItemCount
<1>24. \A s, n, c : ValueAt(s, n, c)' = ValueAt(s, n, c)
  BY <1>5 DEF ValueAt
<1>12. \A s, n, c, mode : Cell(s, n, c, mode)' = Cell(s, n, c, mode)
  <2> TAKE s, n, c, mode
  <2>1. PICK value : value = ValueAt(s, n, c) /\ ValueAt(s, n, c)' = value
    BY <1>24
  <2>2. CASE c \in Calculated
    <3>1. /\ Cell(s, n, c, mode) = CalculatedCell(s, c, s.rows.elements[n].cells[c], value, mode)
          /\ Cell(s, n, c, mode)' = CalculatedCell(s, c, s.rows.elements[n].cells[c], value, mode)'
      BY <1>3, <2>1, <2>2 DEF Cell
    <3> QED
      BY <1>9, <3>1
  <2>3. CASE c \notin Calculated
    BY <1>3, <1>7, <2>3 DEF Cell
  <2> QED
    BY <2>2, <2>3
<1>13. /\ \A s, n, c : CellValue(s, n, c)' = CellValue(s, n, c)
       /\ \A s, c : FieldValue(s, c)' = FieldValue(s, c)
  <2>1. \A s, n, c : CellValue(s, n, c)' = CellValue(s, n, c)
    <3> TAKE s, n, c
    <3> DEFINE v == IF c \in Calculated THEN ValueAt(s, n, c) ELSE s.rows.elements[n].cells[c]
    <3>1. v' = v
      BY <1>3, <1>24
    <3>2. CellValue(s, n, c) = AsKept(c, v) /\ CellValue(s, n, c)' = AsKept(c, v)'
      BY DEF CellValue
    <3> HIDE DEF v
    <3>3. PICK w : w = v /\ v' = w
      BY <3>1
    <3> QED
      BY <1>23, <3>2, <3>3
  <2>2. \A s, c : FieldValue(s, c)' = FieldValue(s, c)
    <3> TAKE s, c
    <3> DEFINE v == IF c \in Calculated THEN ValueOf(s, c) ELSE s.fields[c]
    <3>1. v' = v
      BY <1>3, <1>4
    <3>2. FieldValue(s, c) = AsKept(c, v) /\ FieldValue(s, c)' = AsKept(c, v)'
      BY DEF FieldValue
    <3> HIDE DEF v
    <3>3. PICK w : w = v /\ v' = w
      BY <3>1
    <3> QED
      BY <1>23, <3>2, <3>3
  <2> QED
    BY <2>1, <2>2
<1>14. \A s, n, mode : RowErrors(s, n, mode)' = RowErrors(s, n, mode)
  <2> TAKE s, n, mode
  <2> DEFINE list(k) == [j \in DOMAIN Cell(s, n, Children[k], mode).codes |->
                          Error(Cell(s, n, Children[k], mode).codes[j], <<Repeater, n, Children[k]>>)]
             ss == [k \in DOMAIN Children |-> list(k)]
  <2>1. \A k : list(k)' = list(k)
    BY <1>12
  <2>2. RowErrors(s, n, mode) =
          IF ~IsRow(s.rows.elements[n]) THEN <<Error("INVALID_TYPE", <<Repeater, n>>)>>
          ELSE (IF s.rows.elements[n].stray THEN <<Error("UNKNOWN_FIELD", <<Repeater, n>>)>> ELSE <<>>)
               \o FlattenSeq(ss)
    BY DEF RowErrors
  <2>3. RowErrors(s, n, mode)' =
          IF ~IsRow(s.rows.elements[n]) THEN <<Error("INVALID_TYPE", <<Repeater, n>>)>>
          ELSE (IF s.rows.elements[n].stray THEN <<Error("UNKNOWN_FIELD", <<Repeater, n>>)>> ELSE <<>>)
               \o FlattenSeq(ss')
    BY DEF RowErrors
  <2>4. ss' = ss
    <3> HIDE DEF list
    <3> QED
      BY <2>1
  <2> HIDE DEF ss
  <2> QED
    BY <2>2, <2>3, <2>4
<1>15. \A s, n, mode : NormalizedRow(s, n, mode)' = NormalizedRow(s, n, mode)
  BY <1>12, <1>13 DEF NormalizedRow
<1>16. \A s, mode : ValidateRepeater(s, mode)' = ValidateRepeater(s, mode)
  BY <1>1, <1>11, <1>14, <1>15, ZenonT(30) DEF ValidateRepeater
<1>17. \A s, c, mode : TopField(s, c, mode)' = TopField(s, c, mode)
  BY <1>3, <1>4, <1>7, <1>10 DEF TopField
<1>18. \A s, chosen, mode : ErrorsOf(s, chosen, mode)' = ErrorsOf(s, chosen, mode)
  <2> TAKE s, chosen, mode
  <2> DEFINE found(k) == IF Fields[k] \in chosen THEN TopField(s, Fields[k], mode).codes ELSE <<>>
             list(k) == [j \in DOMAIN found(k) |-> Error(found(k)[j], <<Fields[k]>>)]
             ss == [k \in DOMAIN Fields |-> list(k)]
  <2>1. \A k : found(k)' = found(k)
    BY <1>17
  <2>2. ErrorsOf(s, chosen, mode) = FlattenSeq(ss) /\ ErrorsOf(s, chosen, mode)' = FlattenSeq(ss')
    BY DEF ErrorsOf
  <2>3. \A k : list(k)' = list(k)
    <3> HIDE DEF found
    <3> QED
      BY <2>1
  <2>4. ss' = ss
    <3> HIDE DEF list
    <3> QED
      BY <2>3
  <2> HIDE DEF ss
  <2> QED
    BY <2>2, <2>4
<1>19. \A s, mode, page : AllErrors(s, mode, page)' = AllErrors(s, mode, page)
  <2> TAKE s, mode, page
  <2> DEFINE plain == {c \in Codes : OnPage(c, page)} \ (Calculated \cup {Repeater})
             derived == {c \in Codes : OnPage(c, page)} \cap Calculated
             b == ErrorsOf(s, plain, mode)
             d == ErrorsOf(s, derived, mode)
             c == IF OnPage(Repeater, page) THEN ValidateRepeater(s, mode).errors ELSE <<>>
             e == IF mode = "Complete" /\ page = "all" /\ ~Flag(s, form.assert, TRUE)
                  THEN <<Error("VALIDATION", <<"rules">>)>> ELSE <<>>
  <2>1. plain' = plain /\ derived' = derived
    BY <1>3
  <2>2. b' = b /\ d' = d
    <3> HIDE DEF plain, derived
    <3> QED
      BY <1>18, <2>1
  <2>3. c' = c
    BY <1>16
  <2>4. e' = e
    BY <1>2
  <2>5. AllErrors(s, mode, page) = (IF s.stray THEN <<Error("UNKNOWN_FIELD", <<"answers">>)>> ELSE <<>>)
          \o b \o c \o d \o e
    BY DEF AllErrors
  <2>6. AllErrors(s, mode, page)' = (IF s.stray THEN <<Error("UNKNOWN_FIELD", <<"answers">>)>> ELSE <<>>)
          \o b' \o c' \o d' \o e'
    BY DEF AllErrors
  <2> HIDE DEF b, c, d, e
  <2> QED
    BY <2>2, <2>3, <2>4, <2>5, <2>6
<1>20. \A s, mode, page : Normalized(s, mode, page)' = Normalized(s, mode, page)
  BY <1>13, <1>16, <1>17 DEF Normalized
<1>21. \A s, call : Validate(s, call)' = Validate(s, call)
  BY <1>6, <1>19, <1>20 DEF Validate
<1> QED
  BY <1>6, <1>19, <1>20, <1>21

(* A non-empty set of numbers up to n has a greatest one.                     *)
LEMMA GreatestElement ==
  ASSUME NEW n \in Nat, NEW T \in SUBSET (1..n), T # {}
  PROVE  \E k \in T : \A j \in T : j <= k
<1> DEFINE Has(m) == \A U \in SUBSET (1..m) : U # {} => \E k \in U : \A j \in U : j <= k
           S == {m \in Nat : Has(m)}
<1>1. 0 \in S
  <2>1. 1..0 = {}
    OBVIOUS
  <2>2. Has(0)
    BY <2>1
  <2> QED
    BY <2>2
<1>2. ASSUME NEW m \in S PROVE m + 1 \in S
  <2> SUFFICES ASSUME NEW U \in SUBSET (1..m + 1), U # {} PROVE \E k \in U : \A j \in U : j <= k
    OBVIOUS
  <2>1. CASE m + 1 \in U
    BY <2>1
  <2>2. CASE m + 1 \notin U
    <3>1. U \in SUBSET (1..m)
      BY <2>2
    <3> QED
      BY <3>1
  <2> QED
    BY <2>1, <2>2
<1>3. S = Nat
  <2> HIDE DEF S
  <2>1. S \in SUBSET Nat
    BY DEF S
  <2> QED
    BY <1>1, <1>2, <2>1, SetInduction
<1> QED
  BY <1>3

(* The positions of the objects among the elements of an answer.              *)
LEMMA RowsHavePositions ==
  ASSUME NEW answer, IsSeq(answer.elements)
  PROVE  /\ IsSeq(RowPositions(answer))
         /\ ToSet(RowPositions(answer)) = {k \in DOMAIN answer.elements : IsRow(answer.elements[k])}
         /\ (\A k \in DOMAIN answer.elements : IsRow(answer.elements[k])) =>
              RowPositions(answer) = [k \in DOMAIN answer.elements |-> k]
<1> DEFINE n == Len(answer.elements)
           ss == [k \in DOMAIN answer.elements |-> IF IsRow(answer.elements[k]) THEN <<k>> ELSE <<>>]
<1>1. n \in Nat /\ DOMAIN answer.elements = 1..n
  BY Listed
<1>2. ss = [k \in 1..n |-> ss[k]]
  BY <1>1
<1>3. \A k \in 1..n : /\ ss[k] = IF IsRow(answer.elements[k]) THEN <<k>> ELSE <<>>
                      /\ IsSeq(ss[k])
                      /\ ToSet(ss[k]) = IF IsRow(answer.elements[k]) THEN {k} ELSE {}
  BY <1>1, EmptyAndOne
<1>4. RowPositions(answer) = FlattenSeq(ss)
  BY DEF RowPositions
<1> HIDE DEF ss, n
<1>5. IsSeq(FlattenSeq(ss)) /\ ToSet(FlattenSeq(ss)) = UNION {ToSet(ss[k]) : k \in 1..n}
  <2>1. ListOfSeqs(ss, n)
    BY <1>1, <1>2, <1>3 DEF ListOfSeqs
  <2> QED
    BY <2>1, FlatHasAll, Zenon
<1>6. UNION {ToSet(ss[k]) : k \in 1..n} = {k \in 1..n : IsRow(answer.elements[k])}
  <2> DEFINE R == {k \in 1..n : IsRow(answer.elements[k])}
  <2>1. \A k \in 1..n : ToSet(ss[k]) = IF k \in R THEN {k} ELSE {}
    BY <1>3
  <2>2. R \subseteq 1..n
    OBVIOUS
  <2> HIDE DEF R
  <2>3. ASSUME NEW x PROVE x \in UNION {ToSet(ss[k]) : k \in 1..n} <=> x \in R
    <3>1. x \in UNION {ToSet(ss[k]) : k \in 1..n} <=> \E k \in 1..n : x \in ToSet(ss[k])
      BY Zenon
    <3> QED
      BY <2>1, <2>2, <3>1
  <2>4. UNION {ToSet(ss[k]) : k \in 1..n} = R
    BY <2>3, Zenon
  <2> QED
    BY <2>4 DEF R
<1>7. ASSUME \A k \in 1..n : IsRow(answer.elements[k])
      PROVE  FlattenSeq(ss) = [k \in 1..n |-> k]
  <2>1. PICK f : f = [k \in 1..n |-> k]
    OBVIOUS
  <2>2. f = [k \in 1..n |-> f[k]] /\ \A k \in 1..n : ss[k] = <<f[k]>>
    BY <1>3, <1>7, <2>1
  <2>3. FlattenSeq(ss) = f
    <3>1. n \in Nat /\ f = [k \in 1..n |-> f[k]] /\ ss = [k \in 1..n |-> ss[k]]
      BY <1>1, <1>2, <2>2
    <3>2. \A k \in 1..n : ss[k] = <<f[k]>>
      BY <2>2
    <3> QED
      BY <3>1, <3>2, FlatOfOnes
  <2> QED
    BY <2>1, <2>3
<1> QED
  BY <1>1, <1>4, <1>5, <1>6, <1>7

(* The objects of an answer are elements of it.                               *)
LEMMA ObjectsAreElements ==
  ASSUME NEW answer, IsSeq(answer.elements)
  PROVE  \E m \in Nat : /\ m = Len(RowPositions(answer)) /\ DOMAIN Objects(answer) = 1..m
                        /\ \A k \in 1..m : /\ RowPositions(answer)[k] \in DOMAIN answer.elements
                                           /\ IsRow(answer.elements[RowPositions(answer)[k]])
                                           /\ Objects(answer)[k] = answer.elements[RowPositions(answer)[k]]
<1>1. PICK at : at = RowPositions(answer) /\ IsSeq(at)
  BY RowsHavePositions
<1>2. Len(at) \in Nat /\ DOMAIN at = 1..Len(at)
  BY <1>1, Listed
<1>3. \A k \in 1..Len(at) : at[k] \in ToSet(at)
  BY <1>2, Zenon DEF ToSet
<1>4. \A k \in 1..Len(at) : at[k] \in DOMAIN answer.elements /\ IsRow(answer.elements[at[k]])
  BY <1>1, <1>3, RowsHavePositions
<1>5. Objects(answer) = [k \in DOMAIN at |-> answer.elements[at[k]]]
  BY <1>1 DEF Objects
<1> QED
  BY <1>1, <1>2, <1>4, <1>5

(* What the rules read of an answer is a value.                               *)
LEMMA ReadsAreValues ==
  ASSUME NEW s, IsSubmission(s), NEW code \in (Codes \ {Repeater}) \cup Cells
  PROVE  /\ Flattened(s, code) \in Values
         /\ \A k \in DOMAIN Objects(s.rows) : ReadInRow(s, Objects(s.rows)[k], code) \in Values
<1>1. \A v \in Answers : RuleValue(v) \in Values
  BY DEF Answers, Values, Usable, Respelled, RuleValue
<1>2. IsSeq(s.rows.elements)
  BY DEF IsSubmission, IsSeq
<1>3. PICK m \in Nat : /\ m = Len(RowPositions(s.rows)) /\ DOMAIN Objects(s.rows) = 1..m
                       /\ \A k \in 1..m : /\ RowPositions(s.rows)[k] \in DOMAIN s.rows.elements
                                          /\ Objects(s.rows)[k] = s.rows.elements[RowPositions(s.rows)[k]]
  BY <1>2, ObjectsAreElements
<1>4. \A k \in 1..m : \A c \in Cells : Objects(s.rows)[k].cells[c] \in Answers
  BY <1>3 DEF IsSubmission
<1>5. Flattened(s, code) \in Values
  <2>1. CASE code \in Cells
    <3> DEFINE held == {k \in 1..m : Objects(s.rows)[k].cells[code] # "absent"}
               last == CHOOSE k \in held : \A j \in held : j <= k
    <3>1. Flattened(s, code) = IF held = {} THEN "null" ELSE RuleValue(Objects(s.rows)[last].cells[code])
      BY <1>3, <2>1 DEF Flattened
    <3>2. held # {} => last \in held
      <4>1. held \in SUBSET (1..m)
        OBVIOUS
      <4> HIDE DEF held
      <4> QED
        BY <4>1, GreatestElement
    <3>3. held # {} => last \in 1..m
      BY <3>2
    <3> HIDE DEF held, last
    <3>4. "null" \in Values
      BY DEF Values, Answers
    <3> QED
      BY <1>1, <1>4, <2>1, <3>1, <3>3, <3>4
  <2>2. CASE code \notin Cells
    BY <1>1, <2>2 DEF Flattened, IsSubmission
  <2> QED
    BY <2>1, <2>2
<1>6. ASSUME NEW k \in 1..m PROVE ReadInRow(s, Objects(s.rows)[k], code) \in Values
  BY <1>1, <1>4, <1>5, <1>6 DEF ReadInRow
<1> QED
  BY <1>3, <1>5, <1>6

(* Only for a field of numbers a calculation makes a double.                  *)
MayMake(c, v) == form.type[c] \in {"number", "integer"} \/ v \notin {"float", "rough", "infinite"}

(* A calculation that does not fail makes a value its field may be given.     *)
LEMMA CalculationsMakeValues ==
  ASSUME IsForm(form), NEW s, IsSubmission(s), ~EvaluationFails(s), NEW c \in Calculated
  PROVE  /\ ValueOf(s, c) \in Values /\ MayMake(c, ValueOf(s, c))
         /\ c \in Cells =>
              /\ DOMAIN ValuesOf(s, c) = DOMAIN Objects(s.rows)
              /\ \A k \in DOMAIN Objects(s.rows) :
                   ValuesOf(s, c)[k] \in Values /\ MayMake(c, ValuesOf(s, c)[k])
<1>1. /\ form.calculate[c].of \in (Codes \ {Repeater}) \cup Cells
      /\ form.calculate[c].apply \in [Values -> Values \cup {"failed"}]
      /\ \A v \in Values : MayMake(c, form.calculate[c].apply[v])
  BY DEF IsForm, Calculated, MayMake
<1>2. ValueOf(s, c) \in Values \cup {"failed"} /\ MayMake(c, ValueOf(s, c))
  BY <1>1, ReadsAreValues DEF ValueOf
<1>3. ValueOf(s, c) # "failed"
  BY DEF EvaluationFails
<1>4. ValuesOf(s, c) = [k \in DOMAIN Objects(s.rows) |->
        form.calculate[c].apply[ReadInRow(s, Objects(s.rows)[k], form.calculate[c].of)]]
  BY DEF ValuesOf
<1>5. \A k \in DOMAIN Objects(s.rows) :
        ValuesOf(s, c)[k] \in Values \cup {"failed"} /\ MayMake(c, ValuesOf(s, c)[k])
  BY <1>1, <1>4, ReadsAreValues
<1>6. ASSUME c \in Cells, NEW k \in DOMAIN Objects(s.rows) PROVE ValuesOf(s, c)[k] # "failed"
  <2>1. k \in DOMAIN ValuesOf(s, c)
    BY <1>4
  <2> QED
    BY <1>6, <2>1 DEF EvaluationFails
<1> QED
  BY <1>2, <1>3, <1>4, <1>5, <1>6

(* What is written of an answer is an answer.                                 *)
LEMMA WrittenAsAnswer ==
  ASSUME NEW c, NEW v \in Answers
  PROVE  AsKept(c, v) \in Answers
<1>1. AsKept(c, v) \in {v, "one", "null"}
  BY DEF AsKept, Converted, Spelled
<1>2. "one" \in Answers /\ "null" \in Answers
  BY DEF Answers, Usable
<1> QED
  BY <1>1, <1>2

(* The calculated value of a row is a value.                                  *)
LEMMA RowsAreCalculated ==
  ASSUME IsForm(form), NEW s, IsSubmission(s), ~EvaluationFails(s),
         NEW position \in DOMAIN s.rows.elements, NEW c \in Cells, c \in Calculated
  PROVE  /\ ValueAt(s, position, c) \in Values /\ MayMake(c, ValueAt(s, position, c))
         /\ ValueAt(s, position, c) \in {ValuesOf(s, c)[k] : k \in DOMAIN ValuesOf(s, c)} \cup {"null"}
<1>1. IsSeq(s.rows.elements)
  BY DEF IsSubmission, IsSeq
<1>2. position \in Nat \ {0}
  BY <1>1, Listed
<1>3. PICK m \in Nat : DOMAIN Objects(s.rows) = 1..m
  BY <1>1, ObjectsAreElements
<1>4. PICK values : /\ values = ValuesOf(s, c) /\ values = [k \in 1..m |-> values[k]]
                    /\ \A k \in 1..m : values[k] \in Values /\ MayMake(c, values[k])
  BY <1>3, CalculationsMakeValues DEF ValuesOf
<1>5. Len(values) = m /\ DOMAIN values = 1..m
  BY <1>4, FunctionIsSeq
<1>6. ValueAt(s, position, c) = IF position <= Len(values) THEN values[position] ELSE "null"
  BY <1>4 DEF ValueAt
<1>7. "null" \in Values /\ MayMake(c, "null")
  BY DEF Values, Answers, MayMake
<1>8. position <= m => position \in 1..m
  BY <1>2
<1> QED
  BY <1>4, <1>5, <1>6, <1>7, <1>8

(* What is written of a field or a cell is an answer: it can be sent back.    *)
LEMMA KeptAreAnswers ==
  ASSUME IsForm(form), NEW s, IsSubmission(s), ~EvaluationFails(s)
  PROVE  /\ \A c \in Codes \ {Repeater} : FieldValue(s, c) \in Answers
         /\ \A position \in DOMAIN s.rows.elements : \A c \in Cells : CellValue(s, position, c) \in Answers
<1>1. Values \subseteq Answers
  BY DEF Values
<1>2. ASSUME NEW c \in Codes \ {Repeater} PROVE FieldValue(s, c) \in Answers
  <2>1. (IF c \in Calculated THEN ValueOf(s, c) ELSE s.fields[c]) \in Answers
    BY <1>1, CalculationsMakeValues DEF IsSubmission
  <2> QED
    BY <2>1, WrittenAsAnswer DEF FieldValue
<1>3. ASSUME NEW position \in DOMAIN s.rows.elements, NEW c \in Cells
      PROVE  CellValue(s, position, c) \in Answers
  <2>1. (IF c \in Calculated THEN ValueAt(s, position, c) ELSE s.rows.elements[position].cells[c]) \in Answers
    BY <1>1, RowsAreCalculated DEF IsSubmission
  <2> QED
    BY <2>1, WrittenAsAnswer DEF CellValue
<1> QED
  BY <1>2, <1>3

(* The rows that validate_repeater keeps: one for each object, in order.      *)
LEMMA RowsKept ==
  ASSUME NEW s, IsSeq(s.rows.elements), NEW mode
  PROVE  /\ IsSeq(ValidateRepeater(s, mode).rows)
         /\ ValidateRepeater(s, mode).rows =
              IF Inactive(s) \/ s.rows.kind # "array" THEN <<>>
              ELSE [k \in DOMAIN RowPositions(s.rows) |-> NormalizedRow(s, RowPositions(s.rows)[k], mode)]
<1> DEFINE at == RowPositions(s.rows)
           rows == [k \in DOMAIN at |-> NormalizedRow(s, at[k], mode)]
<1>1. DOMAIN at = 1..Len(at) /\ Len(at) \in Nat
  BY RowsHavePositions, Listed
<1>2. rows = [k \in 1..Len(at) |-> rows[k]]
  BY <1>1
<1>3. IsSeq(rows)
  <2> HIDE DEF rows, at
  <2> QED
    BY <1>1, <1>2, FunctionIsSeq
<1>4. ValidateRepeater(s, mode).rows = IF Inactive(s) \/ s.rows.kind # "array" THEN <<>> ELSE rows
  BY DEF ValidateRepeater, Inactive
<1> QED
  BY <1>3, <1>4, EmptyAndOne

(* What an accepted call returns can be sent back as a submission.            *)
LEMMA NormalizedIsSubmission ==
  ASSUME IsForm(form), NEW s, IsSubmission(s), ~EvaluationFails(s)
  PROVE  IsSubmission(AsSubmission(Normalized(s, "Complete", "all")))
<1> DEFINE N == Normalized(s, "Complete", "all")
           A == AsSubmission(N)
<1>1. IsSeq(s.rows.elements)
  BY DEF IsSubmission, IsSeq
<1>2. /\ N.fields = [c \in {x \in Codes \ {Repeater} : TopField(s, x, "Complete").keeps} |-> FieldValue(s, c)]
      /\ N.rows = ValidateRepeater(s, "Complete").rows
  BY DEF Normalized, OnPage
<1>3. \A c \in DOMAIN N.fields : N.fields[c] \in Answers
  BY <1>2, KeptAreAnswers
<1>4. IsSeq(N.rows)
  BY <1>1, <1>2, RowsKept
<1>5. \A k \in DOMAIN N.rows : \A c \in DOMAIN N.rows[k] : c \in Cells => N.rows[k][c] \in Answers
  <2> TAKE k \in DOMAIN N.rows
  <2>1. /\ k \in DOMAIN RowPositions(s.rows)
        /\ N.rows[k] = NormalizedRow(s, RowPositions(s.rows)[k], "Complete")
    <3>1. PICK rows : rows = N.rows
      OBVIOUS
    <3>2. rows = IF Inactive(s) \/ s.rows.kind # "array" THEN <<>>
                 ELSE [j \in DOMAIN RowPositions(s.rows) |-> NormalizedRow(s, RowPositions(s.rows)[j], "Complete")]
      BY <1>1, <1>2, <3>1, RowsKept
    <3>3. rows # <<>>
      BY <3>1
    <3> HIDE DEF N
    <3> QED
      BY <3>1, <3>2, <3>3
  <2>2. PICK position : position = RowPositions(s.rows)[k] /\ position \in DOMAIN s.rows.elements
    <3>1. RowPositions(s.rows)[k] \in ToSet(RowPositions(s.rows))
      BY <2>1, Zenon DEF ToSet
    <3> QED
      BY <1>1, <3>1, RowsHavePositions
  <2>3. NormalizedRow(s, position, "Complete") =
          [c \in {x \in Cells : Cell(s, position, x, "Complete").keeps} |-> CellValue(s, position, c)]
    BY DEF NormalizedRow
  <2> HIDE DEF N
  <2> QED
    BY <2>1, <2>2, <2>3, KeptAreAnswers
<1> HIDE DEF N
<1>6. /\ \A c \in Codes \ {Repeater} : A.fields[c] = IF c \in DOMAIN N.fields THEN N.fields[c] ELSE "absent"
      /\ A.rows.kind = "array"
      /\ A.rows.elements = [k \in DOMAIN N.rows |-> A.rows.elements[k]]
      /\ \A k \in DOMAIN N.rows : \A c \in Cells :
           A.rows.elements[k].cells[c] = IF c \in DOMAIN N.rows[k] THEN N.rows[k][c] ELSE "absent"
  BY DEF AsSubmission
<1> HIDE DEF A
<1>7. IsSeq(A.rows.elements) /\ DOMAIN A.rows.elements = DOMAIN N.rows
  <2>1. DOMAIN N.rows = 1..Len(N.rows) /\ Len(N.rows) \in Nat
    BY <1>4, Listed
  <2> QED
    BY <1>6, <2>1, FunctionIsSeq
<1>8. "absent" \in Answers
  BY DEF Answers
<1>9. \A c \in Codes \ {Repeater} : A.fields[c] \in Answers
  BY <1>3, <1>6, <1>8
<1>10. \A k \in DOMAIN A.rows.elements : \A c \in Cells : A.rows.elements[k].cells[c] \in Answers
  BY <1>5, <1>6, <1>7, <1>8
<1> QED
  BY <1>6, <1>7, <1>9, <1>10 DEF IsSubmission, IsSeq, A, N

(* What was accepted before it was sent back.                                 *)
WasAccepted(a) ==
  /\ IsSubmission(a.from) /\ ~EvaluationFails(a.from)
  /\ AllErrors(a.from, "Complete", "all") = <<>>
  /\ a.normalized = Normalized(a.from, "Complete", "all")

ValidationInv ==
  /\ IsForm(form) /\ IsSubmission(submission)
  /\ results = [k \in DOMAIN Script |-> results[k]]
  /\ \A k \in DOMAIN Script : results[k] \in {Pending, Validate(submission, Script[k])}
  /\ accepted # <<>> =>
       /\ accepted = <<accepted[1]>> /\ WasAccepted(accepted[1])
       /\ submission = AsSubmission(accepted[1].normalized)

(* A call that returned has looked at the current answers.                    *)
LEMMA ReturnedIsValidated ==
  ASSUME ValidationInv, NEW k \in DOMAIN Script, Returned(k)
  PROVE  /\ ~EvaluationFails(submission) /\ Script[k].page \in DOMAIN Pages \cup {"all"}
         /\ results[k].errors = CapErrors(AllErrors(submission, Script[k].mode, Script[k].page))
         /\ results[k].normalized = Normalized(submission, Script[k].mode, Script[k].page)
         /\ IsSeq(AllErrors(submission, Script[k].mode, Script[k].page))
<1>1. results[k] = Validate(submission, Script[k]) /\ results[k] # Failed
  BY DEF ValidationInv, Returned, Pending, Failed
<1>2. ~EvaluationFails(submission) /\ Script[k].page \in DOMAIN Pages \cup {"all"}
  BY <1>1 DEF Validate
<1>3. /\ results[k].errors = CapErrors(AllErrors(submission, Script[k].mode, Script[k].page))
      /\ results[k].normalized = Normalized(submission, Script[k].mode, Script[k].page)
  BY <1>1, <1>2 DEF Validate
<1>4. IsSeq(submission.rows.elements)
  BY DEF ValidationInv, IsSubmission, IsSeq
<1> QED
  BY <1>2, <1>3, <1>4, AllFound

(* A call that returned without a summary has reported what it found.         *)
LEMMA WholeIsAll ==
  ASSUME ValidationInv, NEW k \in DOMAIN Script, Whole(k)
  PROVE  /\ results[k].errors = AllErrors(submission, Script[k].mode, Script[k].page)
         /\ Found(k) = Finds(submission, Script[k].mode, Script[k].page)
<1>1. IsSeq(submission.rows.elements)
  BY DEF ValidationInv, IsSubmission, IsSeq
<1>2. PICK errors : /\ errors = AllErrors(submission, Script[k].mode, Script[k].page) /\ IsSeq(errors)
                    /\ results[k].errors = CapErrors(errors)
                    /\ ToSet(errors) = Finds(submission, Script[k].mode, Script[k].page)
  BY <1>1, ReturnedIsValidated, AllFound DEF Whole
<1>3. \A j \in DOMAIN results[k].errors : results[k].errors[j].code # Truncated
  BY DEF Whole, Found
<1>4. CapErrors(errors) = errors
  BY <1>2, <1>3, CapKeepsAllOrSaysSo
<1>5. Found(k) = ToSet(errors)
  BY <1>2, <1>4, Zenon DEF Found, ToSet
<1> QED
  BY <1>2, <1>4, <1>5

(* An accepted call found nothing, and reported that in whole.                *)
LEMMA AcceptedIsClean ==
  ASSUME ValidationInv, NEW k \in DOMAIN Script, Accepts(k)
  PROVE  Whole(k) /\ AllErrors(submission, Script[k].mode, Script[k].page) = <<>>
<1>1. Returned(k) /\ results[k].errors = <<>>
  BY DEF Accepts
<1>2. Found(k) = {}
  BY <1>1 DEF Found
<1>3. Whole(k)
  BY <1>1, <1>2 DEF Whole
<1> QED
  BY <1>1, <1>3, WholeIsAll

(* A client starts with a submission of its form and with no results.         *)
LEMMA InvInitially == Init => ValidationInv
<1> SUFFICES ASSUME Init PROVE ValidationInv
  OBVIOUS
<1>1. IsForm(form) /\ IsSubmission(submission)
  BY SuitesAssumption DEF Init
<1> QED
  BY <1>1 DEF Init, ValidationInv

(* A call changes its own result only.                                        *)
LEMMA CallKeepsInv ==
  ASSUME ValidationInv, NEW k \in DOMAIN Script, ValidateResponse(k)
  PROVE  ValidationInv'
<1>1. form' = form /\ submission' = submission /\ accepted' = accepted
  BY DEF ValidateResponse
<1>2. \A s, call : Validate(s, call)' = Validate(s, call)
  BY <1>1, SameFormSameVerdicts
<1>3. results' = [j \in DOMAIN Script |-> results'[j]]
      /\ \A j \in DOMAIN Script : results'[j] = IF j = k THEN Validate(submission, Script[k]) ELSE results[j]
  BY DEF ValidateResponse, ValidationInv
<1>4. \A j \in DOMAIN Script : results'[j] \in {Pending, Validate(submission, Script[j])}
  BY <1>3 DEF ValidationInv
<1>5. \A j \in DOMAIN Script : Validate(submission, Script[j])' = Validate(submission, Script[j])
  BY <1>1, <1>2
<1>6. \A a : WasAccepted(a)' <=> WasAccepted(a)
  BY <1>1, SameFormSameVerdicts DEF WasAccepted
<1>7. WasAccepted(accepted[1])' <=> WasAccepted(accepted[1])
  BY <1>1, <1>6
<1> QED
  BY <1>1, <1>3, <1>4, <1>5, <1>7 DEF ValidationInv, Pending, NoAnswers

(* Sending back starts over with answers that were accepted.                  *)
LEMMA ResubmitKeepsInv ==
  ASSUME ValidationInv, NEW k \in DOMAIN Script, Resubmit(k)
  PROVE  ValidationInv'
<1> DEFINE a == [from |-> submission, normalized |-> results[k].normalized]
<1>1. form' = form /\ accepted' = <<a>> /\ submission' = AsSubmission(results[k].normalized)
      /\ results' = [j \in DOMAIN Script |-> Pending]
  BY DEF Resubmit
<1>2. Returned(k) /\ Script[k].mode = "Complete" /\ Script[k].page = "all"
  BY DEF Resubmit, Accepts, Submits
<1>3. ~EvaluationFails(submission) /\ results[k].normalized = Normalized(submission, "Complete", "all")
  BY <1>2, ReturnedIsValidated
<1>4. AllErrors(submission, "Complete", "all") = <<>>
  BY <1>2, AcceptedIsClean DEF Resubmit
<1>5. WasAccepted(a)
  BY <1>3, <1>4 DEF WasAccepted, ValidationInv
<1>6. IsForm(form') /\ IsSubmission(submission')
  BY <1>1, <1>3, NormalizedIsSubmission DEF ValidationInv
<1>7. PICK b : b = a
  OBVIOUS
<1>8. WasAccepted(b)' <=> WasAccepted(b)
  BY <1>1, SameFormSameVerdicts DEF WasAccepted
<1>9. accepted'[1] = b /\ accepted' = <<b>>
  BY <1>1, <1>7
<1>10. WasAccepted(accepted[1])'
  BY <1>5, <1>7, <1>8, <1>9
<1>11. submission' = AsSubmission(accepted'[1].normalized)
  BY <1>1, <1>9, <1>7
<1> HIDE DEF a
<1> QED
  BY <1>1, <1>6, <1>9, <1>10, <1>11 DEF ValidationInv, Pending, NoAnswers

(* Every step keeps the invariant.                                            *)
LEMMA InvStep == ValidationInv /\ [Next]_vars => ValidationInv'
<1>1. ASSUME ValidationInv, Next PROVE ValidationInv'
  BY <1>1, CallKeepsInv, ResubmitKeepsInv DEF Next
<1>2. ASSUME ValidationInv, UNCHANGED vars PROVE ValidationInv'
  <2>1. form' = form /\ submission' = submission /\ results' = results /\ accepted' = accepted
    BY <1>2 DEF vars
  <2>2. \A j \in DOMAIN Script : Validate(submission, Script[j])' = Validate(submission, Script[j])
    <3>1. \A s, call : Validate(s, call)' = Validate(s, call)
      BY <2>1, SameFormSameVerdicts
    <3> QED
      BY <2>1, <3>1
  <2>3. \A a : WasAccepted(a)' <=> WasAccepted(a)
    BY <2>1, SameFormSameVerdicts DEF WasAccepted
  <2>4. WasAccepted(accepted[1])' <=> WasAccepted(accepted[1])
    BY <2>1, <2>3
  <2> QED
    BY <1>2, <2>1, <2>2, <2>4 DEF ValidationInv, Pending, NoAnswers
<1> QED
  BY <1>1, <1>2

(* What a call returned is what validate_impl makes of the answers the client *)
(* holds now: no step leaves a result that belongs to other answers, or to    *)
(* another form. What the client sent back came from a submission without errors. *)
THEOREM CallsAreOfCurrentAnswers == Spec => []ValidationInv
BY InvInitially, InvStep, PTL DEF Spec

(* SPEC V-9, cap_errors: a call returns at most MAX_ERRORS entries, and one   *)
(* that says nothing of truncation returns every error validate_impl found,   *)
(* for every form, submission and limit on the bytes.                         *)
THEOREM CapIsAlwaysHonest == Spec => []CapIsHonest
<1>1. ValidationInv => CapIsHonest
  <2> SUFFICES ASSUME ValidationInv, NEW k \in DOMAIN Script, Returned(k)
               PROVE  /\ Len(results[k].errors) <= MaxErrors
                      /\ Whole(k) => results[k].errors = AllErrors(submission, Script[k].mode, Script[k].page)
    BY DEF CapIsHonest
  <2>1. Len(results[k].errors) <= MaxErrors
    BY ReturnedIsValidated, CapKeepsAllOrSaysSo
  <2> QED
    BY <2>1, WholeIsAll
<1> QED
  BY <1>1, CallsAreOfCurrentAnswers, PTL

-----------------------------------------------------------------------------
(* Autosave and submission. *)

(* What the autosave finds the submission finds; the rest is CompleteOnly.    *)
Weaker(draft, complete) == draft \subseteq complete /\ \A e \in complete \ draft : e.code \in CompleteOnly

(* A plain field: an autosave only leaves out the missing answer.             *)
LEMMA ScalarWeaker ==
  ASSUME NEW s, NEW c, NEW v
  PROVE  /\ ToSet(ScalarField(s, c, v, "Draft").codes) \subseteq ToSet(ScalarField(s, c, v, "Complete").codes)
         /\ ToSet(ScalarField(s, c, v, "Complete").codes)
              \subseteq ToSet(ScalarField(s, c, v, "Draft").codes) \cup CompleteOnly
         /\ ScalarField(s, c, v, "Complete").keeps <=> ScalarField(s, c, v, "Draft").keeps
<1> DEFINE d == ScalarField(s, c, v, "Draft")
           k == ScalarField(s, c, v, "Complete")
           open == Visible(s, c) /\ Enabled(s, c) /\ ~form.readOnly[c]
           missing == open /\ IsEmptyElement(v) /\ Required(s, c)
<1>1. CASE ~missing
  <2>1. d = k
    BY <1>1 DEF ScalarField
  <2> QED
    BY <2>1
<1>2. CASE missing
  <2>1. ~WrongType(c, v) /\ v # "over" /\ v \notin Usable
    BY <1>2 DEF IsEmptyElement, Usable, Respelled, WrongType
  <2>2. k = Refused("REQUIRED_FIELD_MISSING")
    BY <1>2, <2>1 DEF ScalarField
  <2>3. d.codes = <<>> /\ d.keeps = FALSE
    BY <1>2, <2>1 DEF ScalarField
  <2>4. k.codes = <<"REQUIRED_FIELD_MISSING">> /\ k.keeps = FALSE
    BY <2>2 DEF Refused
  <2> QED
    BY <2>3, <2>4, EmptyAndOne DEF CompleteOnly
<1> QED
  BY <1>1, <1>2

(* A calculated value: an autosave looks at the type of the answer only.      *)
LEMMA CalculatedWeaker ==
  ASSUME NEW s, NEW c, NEW v, NEW value
  PROVE  /\ ToSet(CalculatedCodes(s, c, v, value, "Draft")) \subseteq ToSet(CalculatedCodes(s, c, v, value, "Complete"))
         /\ ToSet(CalculatedCodes(s, c, v, value, "Complete"))
              \subseteq ToSet(CalculatedCodes(s, c, v, value, "Draft")) \cup CompleteOnly
<1> DEFINE x == IF v \notin {"absent", "null"} /\ ~Same(c, v, value) THEN <<"CALCULATED_VALUE_MISMATCH">> ELSE <<>>
           y == IF ~Representable(c, value) THEN <<"CALCULATED_VALUE_INVALID">> ELSE <<>>
           z == IF Required(s, c) /\ value \in {"null", "blank"} THEN <<"REQUIRED_FIELD_MISSING">> ELSE <<>>
<1>1. /\ IsSeq(x) /\ IsSeq(y) /\ IsSeq(z)
      /\ ToSet(x) \subseteq CompleteOnly /\ ToSet(y) \subseteq CompleteOnly /\ ToSet(z) \subseteq CompleteOnly
  BY EmptyAndOne DEF CompleteOnly
<1>2. CASE v \in {"hollow", "object"}
  BY <1>2 DEF CalculatedCodes
<1>3. CASE v \notin {"hollow", "object"}
  <2>1. /\ CalculatedCodes(s, c, v, value, "Draft") = <<>>
        /\ CalculatedCodes(s, c, v, value, "Complete") = x \o y \o z
    BY <1>3 DEF CalculatedCodes
  <2> HIDE DEF x, y, z
  <2>2. PICK xy : xy = x \o y /\ IsSeq(xy) /\ ToSet(xy) = ToSet(x) \cup ToSet(y)
    BY <1>1, Joined, Zenon
  <2>3. ToSet(xy \o z) = ToSet(xy) \cup ToSet(z)
    BY <1>1, <2>2, Joined, Zenon
  <2> QED
    BY <1>1, <2>1, <2>2, <2>3, EmptyAndOne
<1> QED
  BY <1>2, <1>3

(* A field and a cell: the autosave finds less, and keeps at least as much.   *)
LEMMA FieldWeaker ==
  ASSUME NEW s, NEW c
  PROVE  /\ ToSet(TopField(s, c, "Draft").codes) \subseteq ToSet(TopField(s, c, "Complete").codes)
         /\ ToSet(TopField(s, c, "Complete").codes) \subseteq ToSet(TopField(s, c, "Draft").codes) \cup CompleteOnly
         /\ TopField(s, c, "Complete").keeps => TopField(s, c, "Draft").keeps
<1>1. CASE c \notin Calculated
  BY <1>1, ScalarWeaker DEF TopField
<1>2. CASE c \in Calculated
  <2> DEFINE v == s.fields[c]
             value == ValueOf(s, c)
             d == CalculatedCell(s, c, v, value, "Draft")
             k == CalculatedCell(s, c, v, value, "Complete")
             bad == k.keeps /\ value \notin {"null", "blank"} /\ ~SatisfiesField(c, value)
  <2>1. TopField(s, c, "Draft") = d
    BY <1>2 DEF TopField, CalculatedField
  <2>2. TopField(s, c, "Complete") =
          IF bad THEN [codes |-> Append(k.codes, "CALCULATED_VALUE_INVALID"), keeps |-> FALSE] ELSE k
    BY <1>2 DEF TopField, CalculatedField
  <2>3. /\ ToSet(d.codes) \subseteq ToSet(k.codes) /\ ToSet(k.codes) \subseteq ToSet(d.codes) \cup CompleteOnly
        /\ k.keeps <=> d.keeps
    BY CalculatedWeaker DEF CalculatedCell
  <2>4. IsSeq(k.codes)
    BY FieldListsCodes
  <2> HIDE DEF d, k, bad
  <2>5. ToSet(Append(k.codes, "CALCULATED_VALUE_INVALID")) = ToSet(k.codes) \cup {"CALCULATED_VALUE_INVALID"}
    BY <2>4, AppendedSet
  <2>6. "CALCULATED_VALUE_INVALID" \in CompleteOnly
    BY DEF CompleteOnly
  <2>7. CASE bad
    <3>1. TopField(s, c, "Complete").codes = Append(k.codes, "CALCULATED_VALUE_INVALID")
          /\ TopField(s, c, "Complete").keeps = FALSE
      BY <2>2, <2>7
    <3> QED
      BY <2>1, <2>3, <2>5, <2>6, <3>1
  <2>8. CASE ~bad
    BY <2>1, <2>2, <2>3, <2>8
  <2> QED
    BY <2>7, <2>8
<1> QED
  BY <1>1, <1>2

(* A cell of a row.                                                           *)
LEMMA CellWeaker ==
  ASSUME NEW s, NEW n, NEW c
  PROVE  /\ ToSet(Cell(s, n, c, "Draft").codes) \subseteq ToSet(Cell(s, n, c, "Complete").codes)
         /\ ToSet(Cell(s, n, c, "Complete").codes) \subseteq ToSet(Cell(s, n, c, "Draft").codes) \cup CompleteOnly
         /\ Cell(s, n, c, "Complete").keeps <=> Cell(s, n, c, "Draft").keeps
<1>1. \A v, value :
        LET d == CalculatedCell(s, c, v, value, "Draft")
            k == CalculatedCell(s, c, v, value, "Complete")
        IN  /\ ToSet(d.codes) \subseteq ToSet(k.codes) /\ ToSet(k.codes) \subseteq ToSet(d.codes) \cup CompleteOnly
            /\ k.keeps <=> d.keeps
  BY CalculatedWeaker DEF CalculatedCell
<1>2. CASE c \in Calculated
  BY <1>1, <1>2 DEF Cell
<1>3. CASE c \notin Calculated
  BY <1>3, ScalarWeaker DEF Cell
<1> QED
  BY <1>2, <1>3

(* Codes found at a path carry over to errors.                                *)
LEMMA MarksWeaker ==
  ASSUME NEW d, NEW k, NEW path, ToSet(d) \subseteq ToSet(k), ToSet(k) \subseteq ToSet(d) \cup CompleteOnly
  PROVE  Weaker(Marks(d, path), Marks(k, path))
<1>1. \A c : Error(c, path).code = c
  BY DEF Error
<1> QED
  BY <1>1 DEF Marks, Weaker

(* The relation goes through unions.                                          *)
LEMMA WeakerUnion ==
  ASSUME NEW a, NEW b, NEW c, NEW d, Weaker(a, b), Weaker(c, d)
  PROVE  Weaker(a \cup c, b \cup d)
BY DEF Weaker

(* The repeater: an autosave does not count its rows.                         *)
LEMMA RepeaterWeaker ==
  ASSUME NEW s
  PROVE  Weaker(RepeaterFinds(s, "Draft"), RepeaterFinds(s, "Complete"))
<1>1. \A n : \A c \in Cells : Weaker(CellFinds(s, n, c, "Draft"), CellFinds(s, n, c, "Complete"))
  BY CellWeaker, MarksWeaker DEF CellFinds
<1>2. \A n : Weaker(RowFinds(s, n, "Draft"), RowFinds(s, n, "Complete"))
  <2> TAKE n
  <2>1. CASE ~IsRow(s.rows.elements[n])
    BY <2>1 DEF RowFinds, Weaker
  <2>2. CASE IsRow(s.rows.elements[n])
    <3> DEFINE all(mode) == UNION {CellFinds(s, n, c, mode) : c \in Cells}
               stray == IF s.rows.elements[n].stray THEN {Error("UNKNOWN_FIELD", <<Repeater, n>>)} ELSE {}
    <3>1. Weaker(all("Draft"), all("Complete"))
      BY <1>1 DEF Weaker
    <3>2. Weaker(stray, stray)
      BY DEF Weaker
    <3>3. \A mode : RowFinds(s, n, mode) = stray \cup all(mode)
      BY <2>2 DEF RowFinds
    <3> HIDE DEF all, stray
    <3> QED
      BY <3>1, <3>2, <3>3, WeakerUnion
  <2> QED
    BY <2>1, <2>2
<1>3. Weaker(RowsFind(s, "Draft"), RowsFind(s, "Complete"))
  BY <1>2 DEF RowsFind, Weaker
<1>4. \A count : Weaker(ToSet(ItemCount(count, "Draft")), ToSet(ItemCount(count, "Complete")))
  <2> TAKE count
  <2> DEFINE a == IF count < form.minItems THEN <<Error("REPEATER_MIN_ITEMS", <<Repeater>>)>> ELSE <<>>
             b == IF count > form.maxItems THEN <<Error("REPEATER_MAX_ITEMS", <<Repeater>>)>> ELSE <<>>
  <2>1. ItemCount(count, "Draft") = <<>> /\ ItemCount(count, "Complete") = a \o b
    BY DEF ItemCount
  <2>2. /\ IsSeq(a) /\ IsSeq(b)
        /\ \A e \in ToSet(a) \cup ToSet(b) : e.code \in CompleteOnly
    BY EmptyAndOne DEF CompleteOnly, Error
  <2> HIDE DEF a, b
  <2>3. ToSet(a \o b) = ToSet(a) \cup ToSet(b)
    BY <2>2, Joined, Zenon
  <2> QED
    BY <2>1, <2>2, <2>3, EmptyAndOne DEF Weaker
<1>5. \A x : Weaker(x, x)
  BY DEF Weaker
<1> QED
  BY <1>3, <1>4, <1>5, WeakerUnion DEF RepeaterFinds

(* The whole list: an autosave leaves out the cross-field rules as well.      *)
LEMMA FindsWeaker ==
  ASSUME NEW s
  PROVE  Weaker(Finds(s, "Draft", "all"), Finds(s, "Complete", "all"))
<1> DEFINE stray == IF s.stray THEN {Error("UNKNOWN_FIELD", <<"answers">>)} ELSE {}
           plain(mode) == FieldsFind(s, OnPageCodes("all") \ (Calculated \cup {Repeater}), mode)
           rows(mode) == RepeaterFinds(s, mode)
           derived(mode) == FieldsFind(s, OnPageCodes("all") \cap Calculated, mode)
           rules == IF ~Flag(s, form.assert, TRUE) THEN {Error("VALIDATION", <<"rules">>)} ELSE {}
<1>1. \A c : Weaker(FieldFinds(s, c, "Draft"), FieldFinds(s, c, "Complete"))
  BY FieldWeaker, MarksWeaker DEF FieldFinds
<1>2. \A codes : Weaker(FieldsFind(s, codes, "Draft"), FieldsFind(s, codes, "Complete"))
  BY <1>1 DEF FieldsFind, Weaker
<1>3. /\ Weaker(stray, stray)
      /\ Weaker(plain("Draft"), plain("Complete")) /\ Weaker(derived("Draft"), derived("Complete"))
      /\ Weaker(rows("Draft"), rows("Complete"))
  <2>1. Weaker(stray, stray)
    BY DEF Weaker
  <2>2. Weaker(rows("Draft"), rows("Complete"))
    BY RepeaterWeaker
  <2> HIDE DEF stray, rows
  <2> QED
    BY <1>2, <2>1, <2>2
<1>4. Weaker({}, rules)
  <2>1. Error("VALIDATION", <<"rules">>).code = "VALIDATION" /\ "VALIDATION" \in CompleteOnly
    BY DEF Error, CompleteOnly
  <2>2. \A e \in rules : e = Error("VALIDATION", <<"rules">>)
    OBVIOUS
  <2> HIDE DEF rules
  <2> QED
    BY <2>1, <2>2 DEF Weaker
<1>5. OnPage(Repeater, "all")
  BY DEF OnPage
<1>6. /\ Finds(s, "Draft", "all") = stray \cup plain("Draft") \cup rows("Draft") \cup derived("Draft") \cup {}
      /\ Finds(s, "Complete", "all") = stray \cup plain("Complete") \cup rows("Complete") \cup derived("Complete") \cup rules
  BY <1>5 DEF Finds
<1> HIDE DEF stray, plain, rows, derived, rules
<1>7. Weaker(stray \cup plain("Draft"), stray \cup plain("Complete"))
  BY <1>3, WeakerUnion
<1>8. Weaker(stray \cup plain("Draft") \cup rows("Draft"), stray \cup plain("Complete") \cup rows("Complete"))
  BY <1>3, <1>7, WeakerUnion
<1>9. Weaker(stray \cup plain("Draft") \cup rows("Draft") \cup derived("Draft"),
             stray \cup plain("Complete") \cup rows("Complete") \cup derived("Complete"))
  BY <1>3, <1>8, WeakerUnion
<1> QED
  BY <1>4, <1>6, <1>9, WeakerUnion

(* The rows kept do not depend on the mode.                                   *)
LEMMA RowsOfEveryMode ==
  ASSUME NEW s, IsSeq(s.rows.elements)
  PROVE  ValidateRepeater(s, "Draft").rows = ValidateRepeater(s, "Complete").rows
<1>1. ASSUME NEW n PROVE NormalizedRow(s, n, "Draft") = NormalizedRow(s, n, "Complete")
  <2>1. {c \in Cells : Cell(s, n, c, "Draft").keeps} = {c \in Cells : Cell(s, n, c, "Complete").keeps}
    BY CellWeaker
  <2> QED
    BY <2>1 DEF NormalizedRow
<1> DEFINE at == RowPositions(s.rows)
           rows(mode) == [k \in DOMAIN at |-> NormalizedRow(s, at[k], mode)]
<1>2. rows("Draft") = rows("Complete")
  BY <1>1
<1>3. \A mode : ValidateRepeater(s, mode).rows = IF Inactive(s) \/ s.rows.kind # "array" THEN <<>> ELSE rows(mode)
  BY RowsKept
<1> HIDE DEF rows
<1> QED
  BY <1>2, <1>3

(* An autosave against the submission of the same answers: submitting finds   *)
(* every error the autosave found and in addition only those a Draft call     *)
(* leaves out, keeps no field the autosave did not keep, and keeps the same rows. *)
THEOREM DraftIsAlwaysWeaker == Spec => []DraftIsWeaker
<1>1. ValidationInv => DraftIsWeaker
  <2> SUFFICES ASSUME ValidationInv, NEW d \in DOMAIN Script, NEW k \in DOMAIN Script,
                      Script[d].mode = "Draft", Submits(k), Whole(d), Whole(k)
               PROVE  /\ Found(d) \subseteq Found(k)
                      /\ \A e \in Found(k) \ Found(d) : e.code \in CompleteOnly
                      /\ \A c \in DOMAIN results[k].normalized.fields :
                           /\ c \in DOMAIN results[d].normalized.fields
                           /\ results[d].normalized.fields[c] = results[k].normalized.fields[c]
                      /\ results[d].normalized.rows = results[k].normalized.rows
    BY DEF DraftIsWeaker
  <2>1. Script[d].page = "all" /\ Script[k].mode = "Complete" /\ Script[k].page = "all"
    BY ClientAssumption DEF Submits
  <2>2. Weaker(Found(d), Found(k))
    BY <2>1, WholeIsAll, FindsWeaker
  <2>3. /\ results[d].normalized = Normalized(submission, "Draft", "all")
        /\ results[k].normalized = Normalized(submission, "Complete", "all")
    BY <2>1, ReturnedIsValidated DEF Whole
  <2> DEFINE kept(mode) == {c \in Codes \ {Repeater} : TopField(submission, c, mode).keeps}
  <2>4. \A mode : /\ Normalized(submission, mode, "all").fields =
                       [c \in kept(mode) |-> FieldValue(submission, c)]
                  /\ Normalized(submission, mode, "all").rows = ValidateRepeater(submission, mode).rows
    BY DEF Normalized, OnPage
  <2>5. kept("Complete") \subseteq kept("Draft")
    BY FieldWeaker
  <2>6. IsSeq(submission.rows.elements)
    BY DEF ValidationInv, IsSubmission, IsSeq
  <2>7. results[d].normalized.rows = results[k].normalized.rows
    BY <2>3, <2>4, <2>6, RowsOfEveryMode
  <2> HIDE DEF kept
  <2>8. \A c \in DOMAIN results[k].normalized.fields :
          /\ c \in DOMAIN results[d].normalized.fields
          /\ results[d].normalized.fields[c] = results[k].normalized.fields[c]
    <3> DEFINE value(c) == FieldValue(submission, c)
    <3>1. PICK ds, ks : /\ ds = results[d].normalized.fields /\ ds = [c \in kept("Draft") |-> value(c)]
                        /\ ks = results[k].normalized.fields /\ ks = [c \in kept("Complete") |-> value(c)]
      BY <2>3, <2>4
    <3> HIDE DEF value
    <3>2. \A c \in DOMAIN ks : c \in DOMAIN ds /\ ds[c] = ks[c]
      BY <2>5, <3>1
    <3> QED
      BY <3>1, <3>2
  <2> QED
    BY <2>2, <2>7, <2>8 DEF Weaker
<1> QED
  BY <1>1, CallsAreOfCurrentAnswers, PTL

-----------------------------------------------------------------------------
(* Pages. *)

(* Every error of a field, of the repeater, and of the rest is at its path.   *)
LEMMA ErrorsHavePaths ==
  ASSUME NEW s, NEW mode
  PROVE  /\ \A c : \A e \in FieldFinds(s, c, mode) : e.path[1] = c
         /\ \A e \in RepeaterFinds(s, mode) : e.path[1] = Repeater
         /\ \A code : Error(code, <<"answers">>).path[1] = "answers" /\ Error(code, <<"rules">>).path[1] = "rules"
<1>1. \A c : \A e \in FieldFinds(s, c, mode) : e.path[1] = c
  BY DEF FieldFinds, Marks, Error
<1>2. \A n : \A e \in RowFinds(s, n, mode) : e.path[1] = Repeater
  <2>1. \A n, c : \A e \in CellFinds(s, n, c, mode) : e.path[1] = Repeater
    BY DEF CellFinds, Marks, Error
  <2>2. \A n, code : Error(code, <<Repeater, n>>).path[1] = Repeater
    BY DEF Error
  <2> QED
    BY <2>1, <2>2 DEF RowFinds
<1>3. \A code : Error(code, <<Repeater>>).path[1] = Repeater
  BY DEF Error
<1>4. \A count : \A e \in ToSet(ItemCount(count, mode)) : e.path[1] = Repeater
  <2> TAKE count
  <2> DEFINE a == IF count < form.minItems THEN <<Error("REPEATER_MIN_ITEMS", <<Repeater>>)>> ELSE <<>>
             b == IF count > form.maxItems THEN <<Error("REPEATER_MAX_ITEMS", <<Repeater>>)>> ELSE <<>>
  <2>1. ItemCount(count, mode) = IF mode = "Draft" THEN <<>> ELSE a \o b
    BY DEF ItemCount
  <2>2. IsSeq(a) /\ IsSeq(b) /\ \A e \in ToSet(a) \cup ToSet(b) : e.path[1] = Repeater
    BY <1>3, EmptyAndOne
  <2> HIDE DEF a, b
  <2>3. ToSet(a \o b) = ToSet(a) \cup ToSet(b)
    BY <2>2, Joined, Zenon
  <2> QED
    BY <2>1, <2>2, <2>3, EmptyAndOne
<1>5. \A e \in RowsFind(s, mode) : e.path[1] = Repeater
  BY <1>2 DEF RowsFind
<1>6. \A e \in RepeaterFinds(s, mode) : e.path[1] = Repeater
  BY <1>3, <1>4, <1>5 DEF RepeaterFinds
<1>7. \A code : Error(code, <<"answers">>).path[1] = "answers" /\ Error(code, <<"rules">>).path[1] = "rules"
  BY DEF Error
<1> QED
  BY <1>1, <1>6, <1>7

(* A page check finds what the submission finds there, and unknown keys.      *)
LEMMA PageFinds ==
  ASSUME NEW s, NEW p \in DOMAIN Pages
  PROVE  Finds(s, "Complete", p) =
           {e \in Finds(s, "Complete", "all") : e.path[1] \in Pages[p] \cup {"answers"}}
<1> DEFINE page == Pages[p]
           stray == IF s.stray THEN {Error("UNKNOWN_FIELD", <<"answers">>)} ELSE {}
           plain == Codes \ (Calculated \cup {Repeater})
           derived == Codes \cap Calculated
           rows == RepeaterFinds(s, "Complete")
           rules == IF ~Flag(s, form.assert, TRUE) THEN {Error("VALIDATION", <<"rules">>)} ELSE {}
<1>1. p # "all" /\ "rules" \notin page \cup {"answers"} /\ "answers" \notin Codes \cup {Repeater}
  BY ClientAssumption
<1>2. /\ \A c : OnPage(c, "all") /\ (OnPage(c, p) <=> c \in page)
      /\ OnPageCodes("all") = Codes /\ OnPageCodes(p) = Codes \cap page
  BY <1>1 DEF OnPage, OnPageCodes
<1>3. Finds(s, "Complete", "all") = stray \cup FieldsFind(s, plain, "Complete") \cup rows
                                      \cup FieldsFind(s, derived, "Complete") \cup rules
  BY <1>2 DEF Finds
<1>4. Finds(s, "Complete", p) = stray \cup FieldsFind(s, plain \cap page, "Complete")
                                  \cup (IF Repeater \in page THEN rows ELSE {})
                                  \cup FieldsFind(s, derived \cap page, "Complete")
  <2>1. (Codes \cap page) \ (Calculated \cup {Repeater}) = plain \cap page
    OBVIOUS
  <2>2. (Codes \cap page) \cap Calculated = derived \cap page
    OBVIOUS
  <2> HIDE DEF stray, plain, derived, rows
  <2> QED
    BY <1>1, <1>2, <2>1, <2>2 DEF Finds, stray, rows
<1> DEFINE Here(E) == {e \in E : e.path[1] \in page \cup {"answers"}}
<1>5. \A codes \in SUBSET Codes : Here(FieldsFind(s, codes, "Complete")) = FieldsFind(s, codes \cap page, "Complete")
  <2> TAKE codes \in SUBSET Codes
  <2>1. \A c \in codes : \A e \in FieldFinds(s, c, "Complete") : e.path[1] \in page \cup {"answers"} <=> c \in page
    BY <1>1, ErrorsHavePaths
  <2>2. \A e : e \in Here(FieldsFind(s, codes, "Complete")) <=>
                 \E c \in codes : e \in FieldFinds(s, c, "Complete") /\ e.path[1] \in page \cup {"answers"}
    BY DEF FieldsFind
  <2>3. \A e : e \in FieldsFind(s, codes \cap page, "Complete") <=>
                 \E c \in codes : e \in FieldFinds(s, c, "Complete") /\ c \in page
    BY DEF FieldsFind
  <2> HIDE DEF Here
  <2> QED
    BY <2>1, <2>2, <2>3
<1>6. Here(rows) = IF Repeater \in page THEN rows ELSE {}
  <2>1. \A e \in rows : e.path[1] \in page \cup {"answers"} <=> Repeater \in page
    BY <1>1, ErrorsHavePaths
  <2> HIDE DEF rows
  <2> QED
    BY <2>1
<1>7. Here(stray) = stray /\ Here(rules) = {}
  BY <1>1, ErrorsHavePaths
<1>8. plain \in SUBSET Codes /\ derived \in SUBSET Codes
  OBVIOUS
<1>9. Here(Finds(s, "Complete", "all")) = Finds(s, "Complete", p)
  <2>1. PICK a, b, c, d, e : /\ a = stray /\ b = FieldsFind(s, plain, "Complete") /\ c = rows
                             /\ d = FieldsFind(s, derived, "Complete") /\ e = rules
    OBVIOUS
  <2>2. Here(b) = FieldsFind(s, plain \cap page, "Complete") /\ Here(d) = FieldsFind(s, derived \cap page, "Complete")
    <3> HIDE DEF Here, plain, derived
    <3> QED
      BY <1>5, <1>8, <2>1
  <2> HIDE DEF stray, rows, rules, plain, derived
  <2>3. Here(a) = stray /\ Here(c) = (IF Repeater \in page THEN rows ELSE {}) /\ Here(e) = {}
    <3> HIDE DEF Here
    <3> QED
      BY <1>6, <1>7, <2>1
  <2>4. Finds(s, "Complete", "all") = a \cup b \cup c \cup d \cup e
    BY <1>3, <2>1
  <2>5. Here(Finds(s, "Complete", "all")) = Here(a) \cup Here(b) \cup Here(c) \cup Here(d) \cup Here(e)
    BY <2>4
  <2> HIDE DEF Here
  <2> QED
    BY <1>4, <2>2, <2>3, <2>5
<1> QED
  BY <1>9

(* SPEC V-12: colander_validate_page finds, keeps and normalizes of the fields *)
(* of its page exactly what the submission does, whatever the layout; the     *)
(* cross-field rules are the submission's alone.                              *)
THEOREM PagesAlwaysAgree == Spec => []PagesAgree
<1>1. ValidationInv => PagesAgree
  <2> SUFFICES ASSUME ValidationInv, NEW p \in DOMAIN Script, NEW k \in DOMAIN Script,
                      Script[p].page \in DOMAIN Pages, Submits(k), Whole(p), Whole(k)
               PROVE  LET page == Pages[Script[p].page]
                      IN  /\ Found(p) = {e \in Found(k) : e.path[1] \in page \cup {"answers"}}
                          /\ results[p].normalized.rows =
                               (IF Repeater \in page THEN results[k].normalized.rows ELSE <<>>)
                          /\ results[p].normalized.fields =
                               [c \in page \cap DOMAIN results[k].normalized.fields |-> results[k].normalized.fields[c]]
    BY DEF PagesAgree
  <2> DEFINE id == Script[p].page
             page == Pages[id]
             kept == {c \in Codes \ {Repeater} : TopField(submission, c, "Complete").keeps}
             value(c) == FieldValue(submission, c)
             rows == ValidateRepeater(submission, "Complete").rows
  <2>1. id # "all" /\ Script[p].mode = "Complete" /\ Script[k].mode = "Complete" /\ Script[k].page = "all"
    BY ClientAssumption DEF Submits
  <2>2. Found(p) = {e \in Found(k) : e.path[1] \in page \cup {"answers"}}
    BY <2>1, WholeIsAll, PageFinds
  <2>3. /\ results[p].normalized = Normalized(submission, "Complete", id)
        /\ results[k].normalized = Normalized(submission, "Complete", "all")
    BY <2>1, ReturnedIsValidated DEF Whole
  <2>4. /\ Normalized(submission, "Complete", "all").fields = [c \in kept |-> value(c)]
        /\ Normalized(submission, "Complete", "all").rows = rows
    BY DEF Normalized, OnPage
  <2>5. /\ Normalized(submission, "Complete", id).fields = [c \in page \cap kept |-> value(c)]
        /\ Normalized(submission, "Complete", id).rows = IF Repeater \in page THEN rows ELSE <<>>
    <3>1. \A c : OnPage(c, id) <=> c \in page
      BY <2>1 DEF OnPage
    <3>2. {c \in Codes \ {Repeater} : OnPage(c, id) /\ TopField(submission, c, "Complete").keeps} = page \cap kept
      BY <3>1
    <3> HIDE DEF kept, page
    <3> QED
      BY <3>1, <3>2 DEF Normalized
  <2> HIDE DEF kept, value, rows, page
  <2>6. [c \in page \cap kept |-> value(c)] =
          [c \in page \cap DOMAIN [x \in kept |-> value(x)] |-> [x \in kept |-> value(x)][c]]
    OBVIOUS
  <2> QED
    BY <2>2, <2>3, <2>4, <2>5, <2>6 DEF page
<1> QED
  BY <1>1, CallsAreOfCurrentAnswers, PTL

-----------------------------------------------------------------------------
(* Accepted submissions. *)

Nothing == {"absent", "null", "blank", "hollow"}

(* A plain field without errors keeps its answer, unless that is empty.       *)
LEMMA CleanScalar ==
  ASSUME NEW s, NEW c, NEW v \in Answers, ScalarField(s, c, v, "Complete").codes = <<>>
  PROVE  /\ ScalarField(s, c, v, "Complete").keeps <=> v \notin Nothing
         /\ Visible(s, c) /\ Enabled(s, c) /\ ~form.readOnly[c] => ~WrongType(c, v) /\ v # "over"
<1> DEFINE f == ScalarField(s, c, v, "Complete")
           active == Visible(s, c) /\ Enabled(s, c)
           open == active /\ ~form.readOnly[c]
<1>1. \A code : Refused(code).codes # <<>>
  BY DEF Refused
<1>2. IsEmptyElement(v) <=> v \in Nothing
  BY DEF IsEmptyElement, Nothing
<1>3. /\ v \in Usable => v \notin Nothing
      /\ WrongType(c, v) => v \notin Nothing \cup {"over"}
  BY DEF Usable, Respelled, Nothing, WrongType
<1>4. CASE ~open
  <2>1. v \in Nothing
    <3> SUFFICES ASSUME v \notin Nothing PROVE FALSE
      OBVIOUS
    <3>1. CASE ~active
      <4>1. f = Refused(IF Visible(s, c) THEN "DISABLED_FIELD_VALUE" ELSE "HIDDEN_FIELD_VALUE")
        BY <1>2, <3>1 DEF ScalarField
      <4> QED
        BY <1>1, <4>1
    <3>2. CASE active
      <4>1. f = Refused("READONLY_FIELD_MODIFIED")
        BY <1>2, <1>4, <3>2 DEF ScalarField
      <4> QED
        BY <1>1, <4>1
    <3> QED
      BY <3>1, <3>2
  <2>2. f = [codes |-> <<>>, keeps |-> open /\ v \in Usable]
    BY <1>2, <1>4, <2>1 DEF ScalarField
  <2>3. ~f.keeps
    <3>1. (open /\ v \in Usable) = FALSE
      BY <1>4
    <3>2. f = [codes |-> <<>>, keeps |-> FALSE]
      BY <2>2, <3>1, Zenon
    <3> QED
      BY <3>2
  <2> HIDE DEF f, open
  <2>4. f.keeps <=> v \notin Nothing
    BY <2>1, <2>3
  <2>5. ~(Visible(s, c) /\ Enabled(s, c) /\ ~form.readOnly[c])
    BY <1>4 DEF open
  <2> QED
    BY <2>4, <2>5 DEF f
<1>5. CASE open
  <2>1. ~WrongType(c, v) /\ v # "over"
    <3> SUFFICES ASSUME WrongType(c, v) \/ v = "over" PROVE FALSE
      OBVIOUS
    <3>1. v \notin Nothing /\ (v = "over" => ~WrongType(c, v))
      BY <1>3 DEF Nothing
    <3>2. f = Refused(IF v = "over" THEN "CONSTRAINT_VIOLATION" ELSE "INVALID_TYPE")
      BY <1>2, <1>5, <3>1 DEF ScalarField
    <3> QED
      BY <1>1, <3>2
  <2>2. ~(IsEmptyElement(v) /\ Required(s, c))
    <3> SUFFICES ASSUME IsEmptyElement(v) /\ Required(s, c) PROVE FALSE
      OBVIOUS
    <3>1. f = Refused("REQUIRED_FIELD_MISSING")
      BY <1>5, <2>1 DEF ScalarField
    <3> QED
      BY <1>1, <3>1
  <2>3. f.keeps <=> v \in Usable
    BY <1>5, <2>1, <2>2 DEF ScalarField
  <2>4. v \in Usable \cup Nothing
    <3>1. v \notin {"wrong", "object", "over"}
      BY <2>1 DEF WrongType
    <3> QED
      BY <3>1 DEF Answers, Nothing
  <2> QED
    BY <1>3, <2>1, <2>3, <2>4
<1> QED
  BY <1>4, <1>5

(* A calculated field or cell without errors was answered right, if at all.   *)
LEMMA CleanCalculated ==
  ASSUME NEW s, NEW c, NEW v, NEW value
  PROVE  CalculatedCodes(s, c, v, value, "Complete") = <<>> <=>
           /\ v \notin {"hollow", "object"}
           /\ v \notin {"absent", "null"} => Same(c, v, value)
           /\ Representable(c, value)
           /\ ~(Required(s, c) /\ value \in {"null", "blank"})
<1> DEFINE x == IF v \notin {"absent", "null"} /\ ~Same(c, v, value) THEN <<"CALCULATED_VALUE_MISMATCH">> ELSE <<>>
           y == IF ~Representable(c, value) THEN <<"CALCULATED_VALUE_INVALID">> ELSE <<>>
           z == IF Required(s, c) /\ value \in {"null", "blank"} THEN <<"REQUIRED_FIELD_MISSING">> ELSE <<>>
<1>1. CASE v \in {"hollow", "object"}
  <2>1. CalculatedCodes(s, c, v, value, "Complete") = <<"INVALID_TYPE">>
    BY <1>1 DEF CalculatedCodes
  <2> QED
    BY <1>1, <2>1
<1>2. CASE v \notin {"hollow", "object"}
  <2>1. CalculatedCodes(s, c, v, value, "Complete") = x \o y \o z
    BY <1>2 DEF CalculatedCodes
  <2>2. /\ IsSeq(x) /\ IsSeq(y) /\ IsSeq(z)
        /\ x = <<>> <=> ~(v \notin {"absent", "null"} /\ ~Same(c, v, value))
        /\ y = <<>> <=> Representable(c, value)
        /\ z = <<>> <=> ~(Required(s, c) /\ value \in {"null", "blank"})
    BY EmptyAndOne
  <2> HIDE DEF x, y, z
  <2>3. PICK xy : xy = x \o y /\ IsSeq(xy) /\ ToSet(xy) = ToSet(x) \cup ToSet(y)
    BY <2>2, Joined, Zenon
  <2>4. PICK xyz : xyz = xy \o z /\ IsSeq(xyz) /\ ToSet(xyz) = ToSet(xy) \cup ToSet(z)
    BY <2>2, <2>3, Joined, Zenon
  <2>5. xyz = <<>> <=> x = <<>> /\ y = <<>> /\ z = <<>>
    <3>1. \A t : IsSeq(t) => (t = <<>> <=> ToSet(t) = {})
      BY Listed
    <3> QED
      BY <2>2, <2>3, <2>4, <3>1
  <2>6. CalculatedCodes(s, c, v, value, "Complete") = xyz
    BY <2>1, <2>3, <2>4
  <2> QED
    BY <1>2, <2>2, <2>5, <2>6
<1> QED
  BY <1>1, <1>2

(* CalculatedField has no errors if its cell has none and its value is held.  *)
LEMMA CleanCalculatedField ==
  ASSUME NEW s, NEW c, NEW v, NEW value
  PROVE  /\ CalculatedField(s, c, v, value, "Complete").codes = <<>> <=>
              /\ CalculatedCodes(s, c, v, value, "Complete") = <<>>
              /\ value \notin {"null", "blank"} => SatisfiesField(c, value)
         /\ CalculatedField(s, c, v, value, "Complete").codes = <<>> =>
              CalculatedField(s, c, v, value, "Complete").keeps
<1> DEFINE cell == CalculatedCell(s, c, v, value, "Complete")
           bad == cell.keeps /\ value \notin {"null", "blank"} /\ ~SatisfiesField(c, value)
<1>1. /\ cell.codes = CalculatedCodes(s, c, v, value, "Complete")
      /\ cell.keeps <=> v \notin {"hollow", "object"} /\ Representable(c, value)
  BY DEF CalculatedCell
<1>2. IsSeq(cell.codes)
  BY FieldListsCodes
<1>3. CalculatedField(s, c, v, value, "Complete") =
        IF bad THEN [codes |-> Append(cell.codes, "CALCULATED_VALUE_INVALID"), keeps |-> FALSE] ELSE cell
  BY DEF CalculatedField
<1> HIDE DEF cell, bad
<1>4. Append(cell.codes, "CALCULATED_VALUE_INVALID") # <<>>
  <2>1. PICK r : r = Append(cell.codes, "CALCULATED_VALUE_INVALID") /\ IsSeq(r) /\ ToSet(r) # {}
    <3>1. IsSeq(Append(cell.codes, "CALCULATED_VALUE_INVALID"))
      BY <1>2, Pushed
    <3> QED
      BY <1>2, <3>1, AppendedSet
  <2> QED
    BY <2>1, EmptyAndOne
<1>5. cell.codes = <<>> => cell.keeps
  BY <1>1, CleanCalculated
<1>6. CASE bad
  BY <1>3, <1>4, <1>5, <1>6, <1>1 DEF bad
<1>7. CASE ~bad
  BY <1>3, <1>5, <1>7, <1>1 DEF bad
<1> QED
  BY <1>6, <1>7

(* Marks of a list are empty only if the list is.                             *)
LEMMA NoMarks ==
  ASSUME NEW codes, IsSeq(codes), NEW path
  PROVE  Marks(codes, path) = {} <=> codes = <<>>
<1>1. Marks(codes, path) = {} <=> ToSet(codes) = {}
  BY DEF Marks
<1> QED
  BY <1>1, Listed

(* What a submission without errors is like, field by field and row by row.   *)
LEMMA CleanSubmission ==
  ASSUME IsForm(form), NEW s, IsSubmission(s)
  PROVE  AllErrors(s, "Complete", "all") = <<>> <=>
           /\ ~s.stray
           /\ \A c \in Codes \ {Repeater} : TopField(s, c, "Complete").codes = <<>>
           /\ RepeaterFinds(s, "Complete") = {}
           /\ Flag(s, form.assert, TRUE)
<1>1. IsSeq(s.rows.elements)
  BY DEF IsSubmission, IsSeq
<1>2. AllErrors(s, "Complete", "all") = <<>> <=> Finds(s, "Complete", "all") = {}
  <2>1. PICK errors : errors = AllErrors(s, "Complete", "all") /\ IsSeq(errors)
                      /\ ToSet(errors) = Finds(s, "Complete", "all")
    BY <1>1, AllFound
  <2>2. errors = <<>> <=> ToSet(errors) = {}
    BY <2>1, Listed
  <2> QED
    BY <2>1, <2>2
<1>3. Repeater \notin Calculated /\ OnPageCodes("all") = Codes /\ OnPage(Repeater, "all")
  BY DEF IsForm, Calculated, OnPageCodes, OnPage
<1>4. \A codes : FieldsFind(s, codes, "Complete") = {} <=>
                   \A c \in codes : TopField(s, c, "Complete").codes = <<>>
  <2>1. \A c : FieldFinds(s, c, "Complete") = {} <=> TopField(s, c, "Complete").codes = <<>>
    BY NoMarks, FieldListsCodes DEF FieldFinds
  <2>2. \A codes : FieldsFind(s, codes, "Complete") = {} <=> \A c \in codes : FieldFinds(s, c, "Complete") = {}
    BY DEF FieldsFind
  <2> QED
    BY <2>1, <2>2
<1>5. Finds(s, "Complete", "all") = {} <=>
        /\ ~s.stray
        /\ FieldsFind(s, Codes \ (Calculated \cup {Repeater}), "Complete") = {}
        /\ RepeaterFinds(s, "Complete") = {}
        /\ FieldsFind(s, Codes \cap Calculated, "Complete") = {}
        /\ Flag(s, form.assert, TRUE)
  BY <1>3 DEF Finds
<1>6. \A c \in Codes \ {Repeater} : c \in Codes \ (Calculated \cup {Repeater}) \/ c \in Codes \cap Calculated
  OBVIOUS
<1>7. /\ \A c \in Codes \ (Calculated \cup {Repeater}) : c \in Codes \ {Repeater}
      /\ \A c \in Codes \cap Calculated : c \in Codes \ {Repeater}
  BY <1>3
<1> QED
  BY <1>2, <1>4, <1>5, <1>6, <1>7

(* Rows without errors: each element is an object, its cells have no errors,  *)
(* and each is kept at its position.                                           *)
LEMMA CleanRows ==
  ASSUME NEW s, IsSubmission(s), RepeaterFinds(s, "Complete") = {}
  PROVE  /\ \A n \in DOMAIN s.rows.elements :
              /\ IsRow(s.rows.elements[n]) /\ ~s.rows.elements[n].stray
              /\ \A c \in Cells : Cell(s, n, c, "Complete").codes = <<>>
         /\ ValidateRepeater(s, "Complete").rows =
              [n \in DOMAIN s.rows.elements |-> NormalizedRow(s, n, "Complete")]
<1> DEFINE elements == s.rows.elements
<1>1. IsSeq(elements)
  BY DEF IsSubmission, IsSeq
<1>2. DOMAIN elements = 1..Len(elements) /\ Len(elements) \in Nat
  BY <1>1, Listed
<1>3. CASE Inactive(s) \/ s.rows.kind # "array"
  <2>1. elements = <<>>
    <3>1. CASE s.rows.kind # "array"
      BY <3>1 DEF IsSubmission
    <3>2. CASE Inactive(s) /\ s.rows.kind = "array"
      <4>1. ~(Len(elements) > 0)
        BY <3>2 DEF RepeaterFinds
      <4> QED
        BY <1>1, <1>2, <4>1, Listed
    <3> QED
      BY <1>3, <3>1, <3>2
  <2>2. DOMAIN elements = {}
    BY <2>1
  <2>3. ValidateRepeater(s, "Complete").rows = <<>>
    BY <1>1, <1>3, RowsKept
  <2>4. [n \in {} |-> NormalizedRow(s, n, "Complete")] = <<>>
    OBVIOUS
  <2> HIDE DEF elements
  <2>5. [n \in DOMAIN elements |-> NormalizedRow(s, n, "Complete")] = <<>>
    BY <2>2, <2>4
  <2> QED
    BY <2>2, <2>3, <2>5 DEF elements
<1>4. CASE ~Inactive(s) /\ s.rows.kind = "array"
  <2>1. RowsFind(s, "Complete") = {}
    BY <1>4 DEF RepeaterFinds
  <2>2. \A n \in DOMAIN elements : RowFinds(s, n, "Complete") = {}
    BY <2>1 DEF RowsFind
  <2>3. ASSUME NEW n \in DOMAIN elements
        PROVE  /\ IsRow(elements[n]) /\ ~elements[n].stray
               /\ \A c \in Cells : Cell(s, n, c, "Complete").codes = <<>>
    <3>1. IsRow(elements[n])
      BY <2>2 DEF RowFinds
    <3>2. ~elements[n].stray /\ \A c \in Cells : CellFinds(s, n, c, "Complete") = {}
      BY <2>2, <3>1 DEF RowFinds
    <3>3. \A c \in Cells : Cell(s, n, c, "Complete").codes = <<>>
      BY <3>2, NoMarks, FieldListsCodes DEF CellFinds
    <3> QED
      BY <3>1, <3>2, <3>3
  <2>4. PICK at : at = RowPositions(s.rows) /\ at = [n \in DOMAIN elements |-> n]
    BY <1>1, <2>3, RowsHavePositions
  <2>5. ValidateRepeater(s, "Complete").rows = [n \in DOMAIN at |-> NormalizedRow(s, at[n], "Complete")]
    <3> DEFINE rows == LET positions == RowPositions(s.rows)
                       IN  [n \in DOMAIN positions |-> NormalizedRow(s, positions[n], "Complete")]
    <3>1. ValidateRepeater(s, "Complete").rows = rows
      BY <1>1, <1>4, RowsKept
    <3>2. rows = [n \in DOMAIN at |-> NormalizedRow(s, at[n], "Complete")]
      BY <2>4
    <3> QED
      BY <3>1, <3>2
  <2>6. DOMAIN at = DOMAIN elements /\ \A n \in DOMAIN elements : at[n] = n
    BY <2>4
  <2>7. [n \in DOMAIN at |-> NormalizedRow(s, at[n], "Complete")] =
          [n \in DOMAIN elements |-> NormalizedRow(s, n, "Complete")]
    BY <2>6
  <2> QED
    BY <2>3, <2>5, <2>7
<1> QED
  BY <1>3, <1>4

(* What is written is read back as it is written; the same number is written  *)
(* the same; what is written of an answer that is not empty is not empty.     *)
LEMMA WrittenOnce ==
  ASSUME NEW c, NEW v
  PROVE  /\ AsKept(c, AsKept(c, v)) = AsKept(c, v)
         /\ \A value : c \in Calculated /\ Same(c, v, value) => AsKept(c, v) = AsKept(c, value)
<1>1. AsKept(c, AsKept(c, v)) = AsKept(c, v)
  BY DEF AsKept, Converted, Spelled
<1>2. ASSUME NEW value, c \in Calculated, Same(c, v, value) PROVE AsKept(c, v) = AsKept(c, value)
  <2>1. v = value \/ (v = "one" /\ value = "float") \/ (v = "float" /\ value = "one")
    BY <1>2 DEF Same
  <2> QED
    BY <1>2, <2>1 DEF AsKept, Spelled
<1> QED
  BY <1>1, <1>2

(* Of a clean field or cell an answer that is not empty is what is kept.      *)
LEMMA CleanKeepsField ==
  ASSUME NEW s, IsSubmission(s), NEW c \in Codes \ {Repeater}, TopField(s, c, "Complete").codes = <<>>
  PROVE  /\ s.fields[c] \notin Nothing =>
              /\ TopField(s, c, "Complete").keeps
              /\ FieldValue(s, c) = AsKept(c, s.fields[c])
         /\ c \notin Calculated => (TopField(s, c, "Complete").keeps <=> s.fields[c] \notin Nothing)
         /\ c \in Calculated => TopField(s, c, "Complete").keeps
<1>1. CASE c \in Calculated
  <2>1. TopField(s, c, "Complete") = CalculatedField(s, c, s.fields[c], ValueOf(s, c), "Complete")
    BY <1>1 DEF TopField
  <2>2. CalculatedCodes(s, c, s.fields[c], ValueOf(s, c), "Complete") = <<>>
        /\ TopField(s, c, "Complete").keeps
    BY <2>1, CleanCalculatedField
  <2>3. s.fields[c] \notin {"absent", "null"} => Same(c, s.fields[c], ValueOf(s, c))
    BY <2>2, CleanCalculated
  <2>4. s.fields[c] \notin Nothing => FieldValue(s, c) = AsKept(c, s.fields[c])
    BY <1>1, <2>3, WrittenOnce DEF Nothing, FieldValue
  <2> QED
    BY <1>1, <2>2, <2>4
<1>2. CASE c \notin Calculated
  <2>1. /\ TopField(s, c, "Complete") = ScalarField(s, c, s.fields[c], "Complete") /\ s.fields[c] \in Answers
        /\ FieldValue(s, c) = AsKept(c, s.fields[c])
    BY <1>2 DEF TopField, IsSubmission, FieldValue
  <2> QED
    BY <1>2, <2>1, CleanScalar
<1> QED
  BY <1>1, <1>2

(* The same for the cells of a row.                                           *)
LEMMA CleanKeepsCell ==
  ASSUME NEW s, IsSubmission(s), NEW n \in DOMAIN s.rows.elements, NEW c \in Cells,
         Cell(s, n, c, "Complete").codes = <<>>
  PROVE  LET v == s.rows.elements[n].cells[c]
         IN  /\ v \notin Nothing => Cell(s, n, c, "Complete").keeps /\ CellValue(s, n, c) = AsKept(c, v)
             /\ c \notin Calculated => (Cell(s, n, c, "Complete").keeps <=> v \notin Nothing)
             /\ c \in Calculated => Cell(s, n, c, "Complete").keeps
<1> DEFINE v == s.rows.elements[n].cells[c]
           value == ValueAt(s, n, c)
<1>1. CASE c \in Calculated
  <2>1. Cell(s, n, c, "Complete") = CalculatedCell(s, c, v, value, "Complete")
    BY <1>1 DEF Cell
  <2>2. CellValue(s, n, c) = AsKept(c, value)
    BY <1>1 DEF CellValue
  <2> HIDE DEF value
  <2>3. CalculatedCodes(s, c, v, value, "Complete") = <<>>
    BY <2>1 DEF CalculatedCell
  <2>4. /\ v \notin {"hollow", "object"} /\ Representable(c, value)
        /\ v \notin {"absent", "null"} => Same(c, v, value)
    BY <2>3, CleanCalculated
  <2>5. Cell(s, n, c, "Complete").keeps
    <3>1. CalculatedCell(s, c, v, value, "Complete").keeps = (v \notin {"hollow", "object"} /\ Representable(c, value))
      BY DEF CalculatedCell
    <3> HIDE DEF v
    <3> QED
      BY <2>1, <2>4, <3>1
  <2>6. v \notin Nothing => CellValue(s, n, c) = AsKept(c, v)
    BY <1>1, <2>2, <2>4, WrittenOnce DEF Nothing
  <2> QED
    BY <1>1, <2>5, <2>6
<1>2. CASE c \notin Calculated
  <2>1. /\ Cell(s, n, c, "Complete") = ScalarField(s, c, v, "Complete") /\ v \in Answers
        /\ CellValue(s, n, c) = AsKept(c, v)
    BY <1>2 DEF Cell, CellValue, IsSubmission
  <2> HIDE DEF v
  <2> QED
    BY <1>2, <2>1, CleanScalar DEF v
<1> QED
  BY <1>1, <1>2

(* A submission accepted without errors comes back with every answer that is  *)
(* not empty, at its own field, row and cell, as it is converted and spelled: *)
(* hidden, disabled, read-only and calculated fields refuse an answer they do *)
(* not keep. Of a repeater, rows keep their positions because elements that   *)
(* are no objects are errors.                                                  *)
THEOREM NothingIsEverDropped == Spec => []NothingDropped
<1>1. ASSUME ValidationInv, NEW k \in DOMAIN Script, Submits(k), Accepts(k)
      PROVE  /\ submission.rows.kind = "wrong" =>
                  ~(Visible(submission, Repeater) /\ Enabled(submission, Repeater))
             /\ \A c \in Codes \ {Repeater} :
                  ~IsEmptyElement(submission.fields[c]) => KeptAt(k, <<c>>) = {AsKept(c, submission.fields[c])}
             /\ \A j \in DOMAIN submission.rows.elements : \A c \in Cells :
                  ~IsEmptyElement(submission.rows.elements[j].cells[c]) =>
                    KeptAt(k, <<Repeater, j, c>>) = {AsKept(c, submission.rows.elements[j].cells[c])}
  <2> DEFINE kept == results[k].normalized
             elements == submission.rows.elements
  <2>1. Script[k].mode = "Complete" /\ Script[k].page = "all" /\ IsForm(form) /\ IsSubmission(submission)
    BY <1>1 DEF Submits, ValidationInv
  <2>2. Returned(k)
    BY <1>1 DEF Accepts
  <2>3. kept = Normalized(submission, "Complete", "all") /\ AllErrors(submission, "Complete", "all") = <<>>
    BY <1>1, <2>1, <2>2, ReturnedIsValidated, AcceptedIsClean
  <2>4. /\ \A c \in Codes \ {Repeater} : TopField(submission, c, "Complete").codes = <<>>
        /\ RepeaterFinds(submission, "Complete") = {}
    BY <2>1, <2>3, CleanSubmission
  <2>5. \A v : IsEmptyElement(v) <=> v \in Nothing
    BY DEF IsEmptyElement, Nothing
  <2>6. submission.rows.kind = "wrong" => ~(Visible(submission, Repeater) /\ Enabled(submission, Repeater))
    BY <2>4 DEF RepeaterFinds, Inactive
  <2>7. ASSUME NEW c \in Codes \ {Repeater}, submission.fields[c] \notin Nothing
        PROVE  KeptAt(k, <<c>>) = {AsKept(c, submission.fields[c])}
    <3>1. TopField(submission, c, "Complete").keeps /\ FieldValue(submission, c) = AsKept(c, submission.fields[c])
      BY <2>1, <2>4, <2>7, CleanKeepsField
    <3>2. c \in DOMAIN kept.fields /\ kept.fields[c] = AsKept(c, submission.fields[c])
      BY <2>3, <3>1 DEF Normalized, OnPage
    <3> HIDE DEF kept
    <3>3. {kept.fields[x] : x \in {c} \cap DOMAIN kept.fields} = {AsKept(c, submission.fields[c])}
      BY <3>2
    <3>4. KeptAt(k, <<c>>) = {kept.fields[x] : x \in {c} \cap DOMAIN kept.fields}
      BY DEF KeptAt, kept
    <3> QED
      BY <3>3, <3>4
  <2>8. ASSUME NEW j \in DOMAIN elements, NEW c \in Cells, elements[j].cells[c] \notin Nothing
        PROVE  KeptAt(k, <<Repeater, j, c>>) = {AsKept(c, elements[j].cells[c])}
    <3>1. /\ \A n \in DOMAIN elements : IsRow(elements[n])
          /\ Cell(submission, j, c, "Complete").codes = <<>>
          /\ ValidateRepeater(submission, "Complete").rows =
               [n \in DOMAIN elements |-> NormalizedRow(submission, n, "Complete")]
      BY <2>1, <2>4, CleanRows
    <3>2. kept.rows[j] = NormalizedRow(submission, j, "Complete")
      BY <2>3, <3>1 DEF Normalized, OnPage
    <3>3. Cell(submission, j, c, "Complete").keeps /\ CellValue(submission, j, c) = AsKept(c, elements[j].cells[c])
      BY <2>1, <2>8, <3>1, CleanKeepsCell
    <3>4. NormalizedRow(submission, j, "Complete") =
            [x \in {y \in Cells : Cell(submission, j, y, "Complete").keeps} |-> CellValue(submission, j, x)]
      BY DEF NormalizedRow
    <3>5. c \in DOMAIN kept.rows[j] /\ kept.rows[j][c] = AsKept(c, elements[j].cells[c])
      BY <3>2, <3>3, <3>4
    <3>6. IsSeq(elements)
      BY <2>1 DEF IsSubmission, IsSeq
    <3>7. j \in Nat \ {0} /\ 1..j \subseteq DOMAIN elements
      BY <3>6, Listed
    <3>8. Cardinality({n \in 1..j : IsRow(elements[n])}) = j
      <4>1. {n \in 1..j : IsRow(elements[n])} = 1..j
        BY <3>1, <3>7
      <4>2. Cardinality(1..j) = j
        <5>1. 1 \in Int /\ j \in Int /\ ~(1 > j) /\ j - 1 + 1 = j
          BY <3>7
        <5>2. Cardinality(1..j) = IF 1 > j THEN 0 ELSE j - 1 + 1
          BY <5>1, FS_Interval, Zenon
        <5> QED
          BY <5>1, <5>2
      <4> QED
        BY <4>1, <4>2
    <3>9. KeptAt(k, <<Repeater, j, c>>) = {kept.rows[j][x] : x \in {c} \cap DOMAIN kept.rows[j]}
      <4> DEFINE path == <<Repeater, j, c>>
      <4>1. Len(path) = 3 /\ path[2] = j /\ path[3] = c
        OBVIOUS
      <4> HIDE DEF path
      <4> DEFINE row == Cardinality({n \in 1..path[2] : IsRow(elements[n])})
      <4>2. row = j
        BY <3>8, <4>1
      <4>3. KeptAt(k, path) =
              CASE Len(path) = 1 -> {kept.fields[x] : x \in {path[1]} \cap DOMAIN kept.fields}
                [] Len(path) = 3 -> {kept.rows[row][x] : x \in {path[3]} \cap DOMAIN kept.rows[row]}
        BY DEF KeptAt
      <4> HIDE DEF row, kept
      <4>4. KeptAt(k, path) = {kept.rows[row][x] : x \in {path[3]} \cap DOMAIN kept.rows[row]}
        BY <4>1, <4>3
      <4>5. KeptAt(k, path) = {kept.rows[j][x] : x \in {c} \cap DOMAIN kept.rows[j]}
        BY <4>1, <4>2, <4>4
      <4> QED
        BY <4>5 DEF path, kept
    <3> HIDE DEF kept
    <3> QED
      BY <3>5, <3>9
  <2> QED
    BY <2>5, <2>6, <2>7, <2>8
<1>2. ValidationInv => NothingDropped
  BY <1>1 DEF NothingDropped
<1> QED
  BY <1>2, CallsAreOfCurrentAnswers, PTL

-----------------------------------------------------------------------------
(* What was accepted, sent back. *)

(* The answers t hold what is written of the answers and of the calculated    *)
(* values of s, whose elements are objects.                                    *)
SentBack(s, t) ==
  /\ IsSubmission(s) /\ IsSubmission(t)
  /\ ~t.stray /\ t.rows.kind = "array"
  /\ \A c \in Codes \ {Repeater} : t.fields[c] = FieldValue(s, c)
  /\ DOMAIN t.rows.elements = DOMAIN s.rows.elements
  /\ \A n \in DOMAIN s.rows.elements :
       /\ IsRow(s.rows.elements[n]) /\ IsRow(t.rows.elements[n]) /\ ~t.rows.elements[n].stray
       /\ \A c \in Cells : t.rows.elements[n].cells[c] = CellValue(s, n, c)

(* The answered fields that a calculation or a predicate reads.               *)
Read == {form.lead} \cup {form.calculate[c].of : c \in Calculated}

(* A form reads answered fields only.                                         *)
LEMMA ReadsAnswers ==
  ASSUME IsForm(form)
  PROVE  /\ Read \in SUBSET (((Codes \ {Repeater}) \cup Cells) \ Calculated)
         /\ form.lead \in Read /\ \A c \in Calculated : form.calculate[c].of \in Read
BY DEF IsForm, Calculated, Read

(* If all elements are objects, the objects are the elements.                 *)
LEMMA AllAreObjects ==
  ASSUME NEW answer, IsSeq(answer.elements), \A n \in DOMAIN answer.elements : IsRow(answer.elements[n])
  PROVE  Objects(answer) = [n \in DOMAIN answer.elements |-> answer.elements[n]]
<1>1. PICK at : at = RowPositions(answer) /\ at = [n \in DOMAIN answer.elements |-> n]
  BY RowsHavePositions
<1>2. Objects(answer) = [n \in DOMAIN at |-> answer.elements[at[n]]]
  BY <1>1 DEF Objects
<1>3. DOMAIN at = DOMAIN answer.elements /\ \A n \in DOMAIN answer.elements : at[n] = n
  BY <1>1
<1> QED
  BY <1>2, <1>3

(* The rules read the same of the answers sent back.                          *)
LEMMA SameReads ==
  ASSUME IsForm(form), NEW s, NEW t, SentBack(s, t), ReadAsWritten(s)
  PROVE  /\ DOMAIN Objects(t.rows) = DOMAIN Objects(s.rows)
         /\ DOMAIN Objects(s.rows) = DOMAIN s.rows.elements
         /\ \A c \in Read : Flattened(t, c) = Flattened(s, c)
         /\ \A c \in Read : \A n \in DOMAIN Objects(s.rows) :
              ReadInRow(t, Objects(t.rows)[n], c) = ReadInRow(s, Objects(s.rows)[n], c)
<1>1. IsSeq(s.rows.elements) /\ IsSeq(t.rows.elements)
  BY DEF SentBack, IsSubmission, IsSeq
<1>2. PICK u : u = Objects(s.rows) /\ u = [n \in DOMAIN s.rows.elements |-> s.rows.elements[n]]
  BY <1>1, AllAreObjects DEF SentBack
<1>3. PICK w : w = Objects(t.rows) /\ w = [n \in DOMAIN t.rows.elements |-> t.rows.elements[n]]
  BY <1>1, AllAreObjects DEF SentBack
<1>4. DOMAIN w = DOMAIN u /\ DOMAIN u = DOMAIN s.rows.elements
  BY <1>2, <1>3 DEF SentBack
<1>8. /\ \A c \in Read \ Cells : AsKept(c, s.fields[c]) = s.fields[c]
      /\ \A n \in DOMAIN s.rows.elements : IsRow(s.rows.elements[n]) =>
           \A c \in Read \cap Cells : AsKept(c, s.rows.elements[n].cells[c]) = s.rows.elements[n].cells[c]
  BY DEF ReadAsWritten, Read
<1>5. ASSUME NEW c \in Cells, c \in Read, NEW n \in DOMAIN u PROVE w[n].cells[c] = u[n].cells[c]
  <2>1. c \notin Calculated
    BY <1>5, ReadsAnswers
  <2>2. CellValue(s, n, c) = s.rows.elements[n].cells[c]
    BY <1>4, <1>5, <1>8, <2>1 DEF CellValue, SentBack
  <2> QED
    BY <1>2, <1>3, <1>4, <1>5, <2>2 DEF SentBack
<1>6. ASSUME NEW c \in Read PROVE Flattened(t, c) = Flattened(s, c)
  <2>1. CASE c \in Cells
    <3> DEFINE Held(rows) == {k \in DOMAIN rows : rows[k].cells[c] # "absent"}
               LastOf(rows) == CHOOSE k \in Held(rows) : \A j \in Held(rows) : j <= k
    <3>1. Held(w) = Held(u)
      BY <1>4, <1>5, <2>1
    <3>2. Flattened(s, c) = IF Held(u) = {} THEN "null" ELSE RuleValue(u[LastOf(u)].cells[c])
      <4>1. Flattened(s, c) = IF Held(Objects(s.rows)) = {} THEN "null"
                              ELSE RuleValue(Objects(s.rows)[LastOf(Objects(s.rows))].cells[c])
        BY <2>1, Zenon DEF Flattened
      <4> HIDE DEF Held, LastOf
      <4> QED
        BY <1>2, <4>1
    <3>3. Flattened(t, c) = IF Held(w) = {} THEN "null" ELSE RuleValue(w[LastOf(w)].cells[c])
      <4>1. Flattened(t, c) = IF Held(Objects(t.rows)) = {} THEN "null"
                              ELSE RuleValue(Objects(t.rows)[LastOf(Objects(t.rows))].cells[c])
        BY <2>1, Zenon DEF Flattened
      <4> HIDE DEF Held, LastOf
      <4> QED
        BY <1>3, <4>1
    <3>4. LastOf(w) = LastOf(u)
      <4> HIDE DEF Held
      <4> QED
        BY <3>1
    <3>5. Held(u) # {} => LastOf(u) \in DOMAIN u
      <4>1. PICK m \in Nat : DOMAIN u = 1..m
        BY <1>1, <1>4, Listed
      <4>2. Held(u) \in SUBSET (1..m)
        BY <4>1
      <4>3. Held(u) # {} => LastOf(u) \in Held(u)
        <5> HIDE DEF Held
        <5> QED
          BY <4>2, GreatestElement
      <4> QED
        BY <4>3
    <3>6. Held(u) # {} => w[LastOf(u)].cells[c] = u[LastOf(u)].cells[c]
      <4> HIDE DEF LastOf, Held
      <4> QED
        BY <1>5, <2>1, <3>5
    <3> HIDE DEF LastOf, Held
    <3> QED
      BY <3>1, <3>2, <3>3, <3>4, <3>6
  <2>2. CASE c \notin Cells
    <3>1. c \in Codes \ {Repeater} /\ c \notin Calculated
      BY <1>6, <2>2, ReadsAnswers
    <3>2. t.fields[c] = s.fields[c]
      BY <1>6, <1>8, <2>2, <3>1 DEF SentBack, FieldValue
    <3> QED
      BY <2>2, <3>2 DEF Flattened
  <2> QED
    BY <2>1, <2>2
<1>7. ASSUME NEW c \in Read, NEW n \in DOMAIN u PROVE ReadInRow(t, w[n], c) = ReadInRow(s, u[n], c)
  <2>1. c \in Cells => w[n].cells[c] = u[n].cells[c]
    BY <1>5
  <2> QED
    BY <1>6, <2>1 DEF ReadInRow
<1> QED
  BY <1>2, <1>3, <1>4, <1>6, <1>7

(* So the rules compute the same.                                             *)
LEMMA SameRules ==
  ASSUME IsForm(form), NEW s, NEW t, SentBack(s, t), ReadAsWritten(s)
  PROVE  /\ \A c \in Calculated : ValueOf(t, c) = ValueOf(s, c) /\ ValuesOf(t, c) = ValuesOf(s, c)
         /\ EvaluationFails(t) <=> EvaluationFails(s)
         /\ \A predicate, seed : Flag(t, predicate, seed) = Flag(s, predicate, seed)
         /\ \A c \in Codes \ {Repeater} : FieldValue(t, c) = FieldValue(s, c)
         /\ \A n : \A c \in Calculated : ValueAt(t, n, c) = ValueAt(s, n, c)
         /\ \A n \in DOMAIN s.rows.elements : \A c \in Cells : CellValue(t, n, c) = CellValue(s, n, c)
<1>1. form.lead \in Read /\ \A c \in Calculated : form.calculate[c].of \in Read
  BY ReadsAnswers
<1>2. \A c \in Calculated : ValueOf(t, c) = ValueOf(s, c)
  BY <1>1, SameReads DEF ValueOf
<1>3. ASSUME NEW c \in Calculated PROVE ValuesOf(t, c) = ValuesOf(s, c)
  <2> DEFINE f == [k \in DOMAIN Objects(s.rows) |->
                    form.calculate[c].apply[ReadInRow(s, Objects(s.rows)[k], form.calculate[c].of)]]
             g == [k \in DOMAIN Objects(t.rows) |->
                    form.calculate[c].apply[ReadInRow(t, Objects(t.rows)[k], form.calculate[c].of)]]
  <2>1. ValuesOf(s, c) = f /\ ValuesOf(t, c) = g
    BY DEF ValuesOf
  <2>2. DOMAIN Objects(t.rows) = DOMAIN Objects(s.rows)
        /\ \A k \in DOMAIN Objects(s.rows) :
             ReadInRow(t, Objects(t.rows)[k], form.calculate[c].of) =
             ReadInRow(s, Objects(s.rows)[k], form.calculate[c].of)
    BY <1>1, SameReads
  <2>3. f = g
    BY <2>2
  <2> QED
    BY <2>1, <2>3
<1>4. EvaluationFails(t) <=> EvaluationFails(s)
  BY <1>2, <1>3 DEF EvaluationFails
<1>5. Flattened(t, form.lead) = Flattened(s, form.lead)
  BY <1>1, SameReads
<1>6. \A predicate, seed : Flag(t, predicate, seed) = Flag(s, predicate, seed)
  BY <1>5 DEF Flag
<1>7. \A n : \A c \in Calculated : ValueAt(t, n, c) = ValueAt(s, n, c)
  BY <1>3 DEF ValueAt
<1>8. ASSUME NEW n \in DOMAIN s.rows.elements, NEW c \in Cells PROVE CellValue(t, n, c) = CellValue(s, n, c)
  <2>1. CASE c \in Calculated
    BY <1>7, <2>1 DEF CellValue
  <2>2. CASE c \notin Calculated
    <3>1. t.rows.elements[n].cells[c] = AsKept(c, s.rows.elements[n].cells[c])
      BY <1>8, <2>2 DEF CellValue, SentBack
    <3> QED
      BY <2>2, <3>1, WrittenOnce DEF CellValue
  <2> QED
    BY <2>1, <2>2
<1>9. ASSUME NEW c \in Codes \ {Repeater} PROVE FieldValue(t, c) = FieldValue(s, c)
  <2>1. CASE c \in Calculated
    BY <1>2, <2>1 DEF FieldValue
  <2>2. CASE c \notin Calculated
    <3>1. t.fields[c] = AsKept(c, s.fields[c])
      BY <1>9, <2>2 DEF FieldValue, SentBack
    <3> QED
      BY <2>2, <3>1, WrittenOnce DEF FieldValue
  <2> QED
    BY <2>1, <2>2
<1> QED
  BY <1>2, <1>3, <1>4, <1>6, <1>7, <1>8, <1>9

(* What was accepted without errors, sent back: what is written of the plain *)
(* answers and of the calculated values.                                      *)
LEMMA AcceptedIsSentBack ==
  ASSUME IsForm(form), NEW s, IsSubmission(s), ~EvaluationFails(s), WithoutEmpties(s),
         AllErrors(s, "Complete", "all") = <<>>
  PROVE  SentBack(s, AsSubmission(Normalized(s, "Complete", "all")))
<1> DEFINE N == Normalized(s, "Complete", "all")
           A == AsSubmission(N)
<1>1. /\ \A c \in Codes \ {Repeater} : TopField(s, c, "Complete").codes = <<>>
      /\ RepeaterFinds(s, "Complete") = {}
  BY CleanSubmission
<1>2. /\ N.fields = [c \in {x \in Codes \ {Repeater} : TopField(s, x, "Complete").keeps} |-> FieldValue(s, c)]
      /\ N.rows = ValidateRepeater(s, "Complete").rows
  BY DEF Normalized, OnPage
<1>3. /\ \A n \in DOMAIN s.rows.elements :
           IsRow(s.rows.elements[n]) /\ \A c \in Cells : Cell(s, n, c, "Complete").codes = <<>>
      /\ ValidateRepeater(s, "Complete").rows = [n \in DOMAIN s.rows.elements |-> NormalizedRow(s, n, "Complete")]
  BY <1>1, CleanRows
<1>4. DOMAIN N.rows = DOMAIN s.rows.elements
      /\ \A n \in DOMAIN s.rows.elements : N.rows[n] = NormalizedRow(s, n, "Complete")
  <2> HIDE DEF N
  <2> QED
    BY <1>2, <1>3
<1> HIDE DEF N
<1>5. /\ \A c \in Codes \ {Repeater} : A.fields[c] = IF c \in DOMAIN N.fields THEN N.fields[c] ELSE "absent"
      /\ ~A.stray /\ A.rows.kind = "array" /\ DOMAIN A.rows.elements = DOMAIN N.rows
      /\ \A n \in DOMAIN N.rows :
           /\ IsRow(A.rows.elements[n]) /\ ~A.rows.elements[n].stray
           /\ \A c \in Cells :
                A.rows.elements[n].cells[c] = IF c \in DOMAIN N.rows[n] THEN N.rows[n][c] ELSE "absent"
  BY DEF AsSubmission, IsRow
<1> HIDE DEF A
<1>6. \A c, v : v \in Nothing /\ v \notin {"null", "blank", "hollow"} => v = "absent" /\ AsKept(c, v) = v
  BY DEF Nothing, AsKept, Converted, Spelled
<1>7. ASSUME NEW c \in Codes \ {Repeater}
      PROVE  A.fields[c] = FieldValue(s, c)
  <2>1. /\ c \notin Calculated => (TopField(s, c, "Complete").keeps <=> s.fields[c] \notin Nothing)
        /\ c \in Calculated => TopField(s, c, "Complete").keeps
    BY <1>1, CleanKeepsField
  <2>2. c \in DOMAIN N.fields <=> TopField(s, c, "Complete").keeps
    BY <1>2
  <2>3. c \in DOMAIN N.fields => N.fields[c] = FieldValue(s, c)
    BY <1>2
  <2>4. c \notin Calculated /\ s.fields[c] \in Nothing => FieldValue(s, c) = "absent"
    BY <1>6 DEF WithoutEmpties, FieldValue
  <2> QED
    BY <1>5, <2>1, <2>2, <2>3, <2>4
<1>8. ASSUME NEW n \in DOMAIN s.rows.elements, NEW c \in Cells
      PROVE  A.rows.elements[n].cells[c] = CellValue(s, n, c)
  <2> DEFINE v == s.rows.elements[n].cells[c]
             K(x) == Cell(s, n, x, "Complete").keeps
  <2>1. /\ c \notin Calculated => (K(c) <=> v \notin Nothing)
        /\ c \in Calculated => K(c)
    BY <1>3, CleanKeepsCell
  <2>2. PICK row : row = N.rows[n] /\ row = [x \in {y \in Cells : K(y)} |-> CellValue(s, n, x)]
    BY <1>4 DEF NormalizedRow
  <2>3. A.rows.elements[n].cells[c] = IF c \in DOMAIN row THEN row[c] ELSE "absent"
    BY <1>4, <1>5, <2>2
  <2>4. c \notin Calculated /\ v \in Nothing => CellValue(s, n, c) = "absent"
    BY <1>3, <1>6 DEF WithoutEmpties, CellValue
  <2> HIDE DEF K, v
  <2>5. (c \in DOMAIN row <=> K(c)) /\ (c \in DOMAIN row => row[c] = CellValue(s, n, c))
    BY <2>2
  <2> QED
    BY <2>1, <2>3, <2>4, <2>5
<1>9. IsSubmission(A)
  BY NormalizedIsSubmission DEF A, N
<1> QED
  BY <1>3, <1>4, <1>5, <1>7, <1>8, <1>9 DEF SentBack, A, N

(* A plain answer that was accepted is judged the same as it is written.      *)
LEMMA WrittenIsJudgedAlike ==
  ASSUME NEW s, NEW c, c \notin Calculated, NEW v \in Answers \ {"infinite"},
         ScalarField(s, c, v, "Complete").codes = <<>>
  PROVE  ScalarField(s, c, AsKept(c, v), "Complete") = ScalarField(s, c, v, "Complete")
<1> DEFINE w == AsKept(c, v)
           active == Visible(s, c) /\ Enabled(s, c)
           open == active /\ ~form.readOnly[c]
<1>1. w = v \/ (w = "one" /\ v \in Respelled)
  BY DEF AsKept, Converted, Spelled, Respelled
<1>2. CASE w = v
  BY <1>2
<1>3. CASE w = "one" /\ v \in Respelled
  <2>1. /\ ~IsEmptyElement(w) /\ ~WrongType(c, w) /\ w # "over" /\ w \in Usable
        /\ ~IsEmptyElement(v) /\ v # "over" /\ v \in Usable
    BY <1>3 DEF IsEmptyElement, WrongType, Usable, Respelled
  <2>2. open => ~WrongType(c, v)
    BY CleanScalar
  <2>6. ScalarField(s, c, v, "Complete").codes = <<>>
    OBVIOUS
  <2>7. \A code : Refused(code).codes # <<>>
    BY DEF Refused
  <2> HIDE DEF w
  <2>3. CASE ~active
    <3>1. ScalarField(s, c, v, "Complete") =
            Refused(IF Visible(s, c) THEN "DISABLED_FIELD_VALUE" ELSE "HIDDEN_FIELD_VALUE")
      BY <2>1, <2>3 DEF ScalarField
    <3> QED
      BY <2>6, <2>7, <3>1
  <2>4. CASE active /\ ~open
    <3>1. ScalarField(s, c, v, "Complete") = Refused("READONLY_FIELD_MODIFIED")
      BY <2>1, <2>4 DEF ScalarField
    <3> QED
      BY <2>6, <2>7, <3>1
  <2>5. CASE open
    <3>1. ScalarField(s, c, w, "Complete") = [codes |-> <<>>, keeps |-> TRUE]
      BY <2>1, <2>5 DEF ScalarField
    <3>2. ScalarField(s, c, v, "Complete") = [codes |-> <<>>, keeps |-> TRUE]
      BY <2>1, <2>2, <2>5 DEF ScalarField
    <3> QED
      BY <3>1, <3>2 DEF w
  <2> QED
    BY <2>3, <2>4, <2>5 DEF w
<1> QED
  BY <1>1, <1>2, <1>3 DEF w

(* A calculated value is the same as it is written.                           *)
LEMMA WrittenIsSame ==
  ASSUME NEW c \in Calculated, NEW value \in Values, MayMake(c, value), value \notin {"rough", "infinite"}
  PROVE  /\ Same(c, AsKept(c, value), value)
         /\ AsKept(c, value) \notin {"hollow", "object"}
<1>1. AsKept(c, value) = IF value = "float" THEN "one" ELSE value
  BY DEF AsKept, Spelled
<1>2. value \notin {"hollow", "object"}
  BY DEF Values
<1> QED
  BY <1>1, <1>2 DEF Same, MayMake

(* Sent back, fields and cells are found the same, and the calculated ones    *)
(* are answered right.                                                         *)
LEMMA SentBackIsClean ==
  ASSUME IsForm(form), NEW s, NEW t, SentBack(s, t), WithoutEmpties(s), ReadAsWritten(s),
         ~EvaluationFails(s), AllErrors(s, "Complete", "all") = <<>>
  PROVE  /\ AllErrors(t, "Complete", "all") = <<>>
         /\ \A c \in Codes \ {Repeater} : TopField(t, c, "Complete").keeps <=> TopField(s, c, "Complete").keeps
         /\ \A n \in DOMAIN s.rows.elements : \A c \in Cells :
              Cell(t, n, c, "Complete").keeps <=> Cell(s, n, c, "Complete").keeps
<1> USE DEF SentBack
<1>1. /\ ~s.stray /\ Flag(s, form.assert, TRUE)
      /\ \A c \in Codes \ {Repeater} : TopField(s, c, "Complete").codes = <<>>
      /\ RepeaterFinds(s, "Complete") = {}
  BY CleanSubmission
<1>2. \A n \in DOMAIN s.rows.elements : \A c \in Cells : Cell(s, n, c, "Complete").codes = <<>>
  BY <1>1, CleanRows
<1>3. \A predicate, seed : Flag(t, predicate, seed) = Flag(s, predicate, seed)
  BY SameRules
<1>4. \A c : Visible(t, c) = Visible(s, c) /\ Enabled(t, c) = Enabled(s, c) /\ Required(t, c) = Required(s, c)
  BY <1>3, Zenon DEF Visible, Enabled, Required
<1>5. \A c, v : ScalarField(t, c, v, "Complete") = ScalarField(s, c, v, "Complete")
  BY <1>4 DEF ScalarField
<1>6. ASSUME NEW c \in Calculated, NEW v, NEW value \in Values, MayMake(c, value), value # "rough",
             CalculatedCodes(s, c, v, value, "Complete") = <<>>
      PROVE  CalculatedCodes(t, c, AsKept(c, value), value, "Complete") = <<>>
  <2>1. Representable(c, value) /\ ~(Required(s, c) /\ value \in {"null", "blank"})
    BY <1>6, CleanCalculated
  <2>2. Same(c, AsKept(c, value), value) /\ AsKept(c, value) \notin {"hollow", "object"}
    <3>1. value # "infinite"
      BY <2>1 DEF Representable
    <3> QED
      BY <1>6, <3>1, WrittenIsSame
  <2> QED
    BY <1>4, <2>1, <2>2, CleanCalculated
<1>7. ASSUME NEW c \in Codes \ {Repeater}
      PROVE  /\ TopField(t, c, "Complete").codes = <<>>
             /\ TopField(t, c, "Complete").keeps <=> TopField(s, c, "Complete").keeps
  <2>1. CASE c \in Calculated
    <3> DEFINE value == ValueOf(s, c)
    <3>1. /\ value \in Values /\ MayMake(c, value) /\ value # "rough"
          /\ ValueOf(t, c) = value /\ t.fields[c] = AsKept(c, value)
      <4>1. value \in Values /\ MayMake(c, value) /\ ValueOf(t, c) = value
        BY <2>1, CalculationsMakeValues, SameRules
      <4>2. value # "rough"
        BY <1>7, <2>1 DEF ReadAsWritten
      <4> QED
        BY <1>7, <2>1, <4>1, <4>2 DEF FieldValue
    <3>2. TopField(s, c, "Complete") = CalculatedField(s, c, s.fields[c], value, "Complete")
      BY <2>1 DEF TopField
    <3>3. TopField(t, c, "Complete") = CalculatedField(t, c, AsKept(c, value), value, "Complete")
      BY <2>1, <3>1 DEF TopField
    <3> HIDE DEF value
    <3>4. CalculatedField(s, c, s.fields[c], value, "Complete").codes = <<>>
      BY <1>1, <1>7, <3>2
    <3>5. CalculatedField(t, c, AsKept(c, value), value, "Complete").codes = <<>>
      BY <1>6, <2>1, <3>1, <3>4, CleanCalculatedField
    <3> QED
      BY <3>2, <3>3, <3>4, <3>5, CleanCalculatedField
  <2>2. CASE c \notin Calculated
    <3>1. PICK v : v = s.fields[c] /\ v \in Answers \ {"infinite"}
      BY <1>7 DEF IsSubmission, WithoutEmpties
    <3>2. /\ t.fields[c] = AsKept(c, v)
          /\ TopField(s, c, "Complete") = ScalarField(s, c, v, "Complete")
          /\ TopField(t, c, "Complete") = ScalarField(t, c, AsKept(c, v), "Complete")
      BY <1>7, <2>2, <3>1 DEF TopField, FieldValue
    <3>3. ScalarField(s, c, AsKept(c, v), "Complete") = ScalarField(s, c, v, "Complete")
      BY <1>1, <1>7, <2>2, <3>1, <3>2, WrittenIsJudgedAlike
    <3>4. TopField(t, c, "Complete") = TopField(s, c, "Complete")
      BY <1>5, <3>2, <3>3
    <3> QED
      BY <1>1, <1>7, <3>4
  <2> QED
    BY <2>1, <2>2
<1>8. ASSUME NEW n \in DOMAIN s.rows.elements, NEW c \in Cells
      PROVE  /\ Cell(t, n, c, "Complete").codes = <<>>
             /\ Cell(t, n, c, "Complete").keeps <=> Cell(s, n, c, "Complete").keeps
  <2> DEFINE value == ValueAt(s, n, c)
             v == s.rows.elements[n].cells[c]
  <2>1. t.rows.elements[n].cells[c] = CellValue(s, n, c)
    BY <1>8
  <2>2. CASE c \in Calculated
    <3>1. Cell(s, n, c, "Complete") = CalculatedCell(s, c, v, value, "Complete")
      BY <2>2 DEF Cell
    <3>2. Cell(t, n, c, "Complete") = CalculatedCell(t, c, AsKept(c, value), value, "Complete")
      <4>1. ValueAt(t, n, c) = value /\ t.rows.elements[n].cells[c] = AsKept(c, value)
        BY <2>1, <2>2, SameRules DEF CellValue
      <4> QED
        BY <2>2, <4>1 DEF Cell
    <3>3. value \in Values /\ MayMake(c, value) /\ value # "rough"
      <4>1. /\ value \in Values /\ MayMake(c, value)
            /\ value \in {ValuesOf(s, c)[k] : k \in DOMAIN ValuesOf(s, c)} \cup {"null"}
        BY <1>8, <2>2, RowsAreCalculated
      <4>2. \A k \in DOMAIN ValuesOf(s, c) : ValuesOf(s, c)[k] # "rough"
        BY <1>8, <2>2 DEF ReadAsWritten
      <4> HIDE DEF value
      <4> QED
        BY <4>1, <4>2
    <3> HIDE DEF value, v
    <3>4. CalculatedCodes(s, c, v, value, "Complete") = <<>>
      BY <1>2, <1>8, <3>1 DEF CalculatedCell
    <3>5. CalculatedCodes(t, c, AsKept(c, value), value, "Complete") = <<>>
      BY <1>6, <2>2, <3>3, <3>4
    <3>6. /\ v \notin {"hollow", "object"} /\ Representable(c, value)
          /\ AsKept(c, value) \notin {"hollow", "object"}
      BY <3>4, <3>5, CleanCalculated
    <3>7. /\ CalculatedCell(s, c, v, value, "Complete").keeps
          /\ CalculatedCell(t, c, AsKept(c, value), value, "Complete").keeps
          /\ CalculatedCell(t, c, AsKept(c, value), value, "Complete").codes =
               CalculatedCodes(t, c, AsKept(c, value), value, "Complete")
      BY <3>6 DEF CalculatedCell
    <3> QED
      BY <3>1, <3>2, <3>5, <3>7
  <2>3. CASE c \notin Calculated
    <3>1. v \in Answers \ {"infinite"}
      BY <1>8 DEF IsSubmission, WithoutEmpties
    <3>2. Cell(t, n, c, "Complete") = ScalarField(t, c, AsKept(c, v), "Complete")
          /\ Cell(s, n, c, "Complete") = ScalarField(s, c, v, "Complete")
      BY <2>1, <2>3 DEF Cell, CellValue
    <3> HIDE DEF v
    <3>3. ScalarField(s, c, AsKept(c, v), "Complete") = ScalarField(s, c, v, "Complete")
      BY <1>2, <1>8, <2>3, <3>1, <3>2, WrittenIsJudgedAlike
    <3>4. Cell(t, n, c, "Complete") = Cell(s, n, c, "Complete")
      BY <1>5, <3>2, <3>3
    <3> QED
      BY <1>2, <1>8, <3>4
  <2> QED
    BY <2>2, <2>3
<1>9. RepeaterFinds(t, "Complete") = {}
  <2>1. IsSeq(s.rows.elements) /\ IsSeq(t.rows.elements)
    BY DEF IsSubmission, IsSeq
  <2>2. PICK m \in Nat : /\ m = Len(s.rows.elements) /\ m = Len(t.rows.elements)
                         /\ DOMAIN t.rows.elements = 1..m
    BY <2>1, Listed
  <2>3. Inactive(t) <=> Inactive(s)
    BY <1>4 DEF Inactive
  <2>4. s.rows.kind # "array" => m = 0
    <3>1. s.rows.kind # "array" => DOMAIN s.rows.elements = {}
      BY DEF IsSubmission
    <3> QED
      BY <2>2, <3>1
  <2>5. RowsFind(t, "Complete") = {}
    <3>1. \A n \in DOMAIN t.rows.elements : RowFinds(t, n, "Complete") = {}
      <4> TAKE n \in DOMAIN t.rows.elements
      <4>1. \A c \in Cells : CellFinds(t, n, c, "Complete") = {}
        BY <1>8, NoMarks, FieldListsCodes DEF CellFinds
      <4> QED
        BY <4>1 DEF RowFinds
    <3> QED
      BY <3>1 DEF RowsFind
  <2>6. CASE Inactive(s)
    <3>1. ~(m > 0)
      BY <1>1, <2>2, <2>4, <2>6 DEF RepeaterFinds
    <3> QED
      BY <2>2, <2>3, <2>6, <3>1 DEF RepeaterFinds
  <2>7. CASE ~Inactive(s)
    <3>1. ToSet(ItemCount(m, "Complete")) = {}
      <4>1. CASE s.rows.kind = "array"
        BY <1>1, <2>2, <2>7, <4>1 DEF RepeaterFinds
      <4>2. CASE s.rows.kind # "array"
        BY <1>1, <2>4, <2>7, <4>2 DEF RepeaterFinds
      <4> QED
        BY <4>1, <4>2
    <3> QED
      BY <2>2, <2>3, <2>5, <2>7, <3>1 DEF RepeaterFinds
  <2> QED
    BY <2>6, <2>7
<1>10. AllErrors(t, "Complete", "all") = <<>>
  BY <1>1, <1>3, <1>7, <1>9, CleanSubmission
<1> QED
  BY <1>7, <1>8, <1>10

(* And so what is kept is the same again.                                     *)
LEMMA SentBackIsKept ==
  ASSUME IsForm(form), NEW s, NEW t, SentBack(s, t), WithoutEmpties(s), ReadAsWritten(s),
         ~EvaluationFails(s), AllErrors(s, "Complete", "all") = <<>>
  PROVE  Normalized(t, "Complete", "all") = Normalized(s, "Complete", "all")
<1> DEFINE Kept(x) == {c \in Codes \ {Repeater} : TopField(x, c, "Complete").keeps}
           OfFields(x) == [c \in Kept(x) |-> FieldValue(x, c)]
<1>1. /\ IsSubmission(s) /\ IsSubmission(t)
      /\ DOMAIN t.rows.elements = DOMAIN s.rows.elements
  BY DEF SentBack
<1>2. OfFields(t) = OfFields(s)
  <2>1. Kept(t) = Kept(s)
    BY SentBackIsClean
  <2>2. \A c \in Kept(s) : FieldValue(t, c) = FieldValue(s, c)
    BY SameRules
  <2> HIDE DEF Kept
  <2> QED
    BY <2>1, <2>2
<1>3. RepeaterFinds(s, "Complete") = {} /\ RepeaterFinds(t, "Complete") = {}
  BY <1>1, SentBackIsClean, CleanSubmission
<1>4. \A n \in DOMAIN s.rows.elements : NormalizedRow(t, n, "Complete") = NormalizedRow(s, n, "Complete")
  <2> TAKE n \in DOMAIN s.rows.elements
  <2> DEFINE Of(x) == {c \in Cells : Cell(x, n, c, "Complete").keeps}
  <2>1. Of(t) = Of(s)
    BY SentBackIsClean
  <2>2. \A c \in Of(s) : CellValue(t, n, c) = CellValue(s, n, c)
    BY SameRules
  <2>3. \A x : NormalizedRow(x, n, "Complete") = [c \in Of(x) |-> CellValue(x, n, c)]
    BY DEF NormalizedRow
  <2> HIDE DEF Of
  <2> QED
    BY <2>1, <2>2, <2>3
<1>5. ValidateRepeater(t, "Complete").rows = ValidateRepeater(s, "Complete").rows
  <2>1. ValidateRepeater(s, "Complete").rows = [n \in DOMAIN s.rows.elements |-> NormalizedRow(s, n, "Complete")]
    BY <1>1, <1>3, CleanRows
  <2>2. ValidateRepeater(t, "Complete").rows = [n \in DOMAIN t.rows.elements |-> NormalizedRow(t, n, "Complete")]
    BY <1>1, <1>3, CleanRows
  <2> QED
    BY <1>1, <1>4, <2>1, <2>2
<1>6. \A x : Normalized(x, "Complete", "all") =
              [fields |-> OfFields(x), rows |-> ValidateRepeater(x, "Complete").rows]
  BY DEF Normalized, OnPage
<1> HIDE DEF OfFields
<1> QED
  BY <1>2, <1>5, <1>6

(* No errors are not capped.                                                  *)
LEMMA CapOfNothing == CapErrors(<<>>) = <<>>
<1> DEFINE none == <<>>
           fits(n) == n <= MaxErrors - 1 /\ (n <= 1 \/ Bytes(SubSeq(none, 1, n)) <= MaxBytes)
           Cut(n) == (\A m \in 1..n : fits(m)) /\ (n = Len(none) \/ ~fits(n + 1))
           kept == CHOOSE n \in 0..Len(none) : Cut(n)
<1>1. Len(none) = 0 /\ 0..Len(none) = {0}
  OBVIOUS
<1>2. CapErrors(none) = IF kept < Len(none) THEN Append(SubSeq(none, 1, kept), Error(Truncated, <<>>)) ELSE none
  BY DEF CapErrors
<1> HIDE DEF none, fits
<1>3. Cut(0)
  BY <1>1
<1>4. kept = 0
  <2>1. kept \in 0..Len(none)
    <3> HIDE DEF Cut
    <3> QED
      BY <1>1, <1>3
  <2> QED
    BY <1>1, <2>1
<1> HIDE DEF kept
<1> QED
  BY <1>1, <1>2, <1>4 DEF none

(* What the server normalized and the client sends back is accepted again and *)
(* normalized to itself, though some answers are spelled differently: those   *)
(* that the rules read are not, so the rules calculate the same; a respelled  *)
(* answer is judged as before; and the calculated values, which now are part of *)
(* the answers, are answered right. Of a submission without empty answers whose *)
(* answers to the rules, and calculated values, normalization leaves as they are. *)
THEOREM AcceptedIsAlwaysStable == Spec => []AcceptedIsStable
<1>1. ASSUME ValidationInv, NEW k \in DOMAIN Script, Submits(k), accepted # <<>>,
             results[k] # Pending, WithoutEmpties(accepted[1].from), ReadAsWritten(accepted[1].from)
      PROVE  Accepts(k) /\ results[k].normalized = accepted[1].normalized
  <2> DEFINE s == accepted[1].from
  <2>1. /\ IsForm(form) /\ IsSubmission(s) /\ ~EvaluationFails(s)
        /\ AllErrors(s, "Complete", "all") = <<>>
        /\ accepted[1].normalized = Normalized(s, "Complete", "all")
        /\ submission = AsSubmission(Normalized(s, "Complete", "all"))
    BY <1>1 DEF ValidationInv, WasAccepted
  <2>2. Script[k].mode = "Complete" /\ Script[k].page = "all"
    BY <1>1 DEF Submits
  <2> HIDE DEF s
  <2>3. SentBack(s, submission)
    BY <1>1, <2>1, AcceptedIsSentBack DEF s
  <2>4. /\ ~EvaluationFails(submission) /\ AllErrors(submission, "Complete", "all") = <<>>
        /\ Normalized(submission, "Complete", "all") = Normalized(s, "Complete", "all")
    BY <1>1, <2>1, <2>3, SameRules, SentBackIsClean, SentBackIsKept DEF s
  <2>5. results[k] = Validate(submission, Script[k])
    BY <1>1 DEF ValidationInv
  <2>6. results[k] = [status |-> "done", errors |-> CapErrors(<<>>),
                      normalized |-> Normalized(s, "Complete", "all")]
    BY <2>2, <2>4, <2>5 DEF Validate
  <2>7. CapErrors(<<>>) = <<>>
    BY CapOfNothing
  <2> QED
    BY <2>1, <2>6, <2>7 DEF Accepts, Returned
<1>2. ValidationInv => AcceptedIsStable
  BY <1>1 DEF AcceptedIsStable
<1> QED
  BY <1>2, CallsAreOfCurrentAnswers, PTL
=============================================================================
