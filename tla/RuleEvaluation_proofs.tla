----------------------- MODULE RuleEvaluation_proofs -----------------------
(***************************************************************************)
(* One pass over the calculations is a fixpoint and leaves its stores in   *)
(* agreement, for every form, rules document, submission and every meaning *)
(* of the expressions.                                                      *)
(***************************************************************************)
EXTENDS RuleEvaluation, TLAPS

-----------------------------------------------------------------------------
(* Maps and sequences. *)

LEMMA PutDomain ==
  \A m, c, v, x : x \in DOMAIN Put(m, c, v) <=> x = c \/ x \in DOMAIN m
BY DEF Put

LEMMA PutHere ==
  \A m, c, v : Put(m, c, v)[c] = v
BY DEF Put

LEMMA PutElsewhere ==
  \A m, c, v : \A x \in DOMAIN m : x # c => Put(m, c, v)[x] = m[x]
BY DEF Put

LEMMA GetAfterPut ==
  \A m, c, v, x : x # c => Get(Put(m, c, v), x) = Get(m, x)
BY DEF Put, Get

LEMMA GetPutHere ==
  \A m, c, v : Get(Put(m, c, v), c) = v
BY DEF Put, Get

LEMMA OverDomain ==
  \A row, base, x : x \in DOMAIN Over(row, base) <=> x \in DOMAIN row \/ x \in DOMAIN base
BY DEF Over

LEMMA GetOver ==
  \A row, base, x : Get(Over(row, base), x) = IF x \in DOMAIN row THEN row[x] ELSE Get(base, x)
BY DEF Over, Get

LEMMA GetWithout ==
  \A m, S, x : Get(Without(m, S), x) = IF x \in S THEN Null ELSE Get(m, x)
BY DEF Without, Get

LEMMA SequenceFromFunction ==
  ASSUME NEW n \in Nat, NEW s, s = [i \in 1..n |-> s[i]]
  PROVE  Len(s) = n /\ DOMAIN s = 1..n /\ (s = << >> <=> n = 0)
<1>1. s \in Seq({s[i] : i \in 1..n})
  <2>1. s \in [1..n -> {s[i] : i \in 1..n}]
    OBVIOUS
  <2>2. QED
    BY <2>1
<1>2. DOMAIN s = 1..n
  OBVIOUS
<1>3. Len(s) \in Nat /\ DOMAIN s = 1..Len(s)
  BY <1>1
<1>4. Len(s) = n
  BY <1>2, <1>3
<1>5. s = << >> <=> n = 0
  BY <1>1, <1>4
<1>6. QED
  BY <1>2, <1>4, <1>5

-----------------------------------------------------------------------------
(* What a calculation's value depends on. *)

(* Evaluate with the document as a parameter. *)
EvaluateOf(doc, f, scope, rs) ==
  Compute(f, [c \in doc.reads[f] |-> Get(scope, c)],
             [c \in doc.subjects[f] |-> Aggregate(c, scope, rs)])

LEMMA EvaluateDependsOnInputs ==
  ASSUME NEW doc, NEW f, NEW scope1, NEW scope2, NEW rs1, NEW rs2,
         \A c \in doc.reads[f] : Get(scope1, c) = Get(scope2, c),
         \A c \in doc.subjects[f] : Aggregate(c, scope1, rs1) = Aggregate(c, scope2, rs2)
  PROVE  EvaluateOf(doc, f, scope1, rs1) = EvaluateOf(doc, f, scope2, rs2)
<1>1. [c \in doc.reads[f] |-> Get(scope1, c)] = [c \in doc.reads[f] |-> Get(scope2, c)]
  OBVIOUS
<1>2. [c \in doc.subjects[f] |-> Aggregate(c, scope1, rs1)]
        = [c \in doc.subjects[f] |-> Aggregate(c, scope2, rs2)]
  OBVIOUS
<1>3. QED
  BY <1>1, <1>2 DEF EvaluateOf

(* An aggregate reads at most its subject from the scope. *)
LEMMA AggregateOfScope ==
  ASSUME NEW c, NEW scope1, NEW scope2, NEW rs, Get(scope1, c) = Get(scope2, c)
  PROVE  Aggregate(c, scope1, rs) = Aggregate(c, scope2, rs)
BY DEF Aggregate

(* Writing one calculation's results into every row. *)
WriteBack(rs, f, results) == [i \in DOMAIN rs |-> Put(rs[i], f, results[i])]

LEMMA WriteBackKeepsColumns ==
  ASSUME NEW rs, NEW f, NEW results, NEW c, c # f
  PROVE  Column(WriteBack(rs, f, results), c) = Column(rs, c)
<1>1. DOMAIN WriteBack(rs, f, results) = DOMAIN rs
  BY DEF WriteBack
<1>2. \A i \in DOMAIN rs : Get(WriteBack(rs, f, results)[i], c) = Get(rs[i], c)
  BY GetAfterPut DEF WriteBack
<1>3. QED
  BY <1>1, <1>2 DEF Column

(* What a row sees of the other codes when a result is stored everywhere. *)
LEMMA WriteBackKeepsScope ==
  ASSUME NEW row, NEW base, NEW S, NEW f, NEW v, NEW array, NEW c, c # f
  PROVE  Get(Over(Put(row, f, v), Without(Put(base, f, array), S \cup {f})), c)
           = Get(Over(row, Without(base, S)), c)
<1> DEFINE written == Put(row, f, v)
           outer   == Put(base, f, array)
<1>1. c \in DOMAIN written <=> c \in DOMAIN row
  BY PutDomain
<1>2. \A x \in DOMAIN row : x # f => written[x] = row[x]
  BY PutElsewhere
<1>3. Get(outer, c) = Get(base, c)
  BY GetAfterPut
<1> HIDE DEF written, outer
<1>4. Get(Without(outer, S \cup {f}), c) = Get(Without(base, S), c)
  BY <1>3, GetWithout
<1>5. Get(Over(written, Without(outer, S \cup {f})), c) = Get(Over(row, Without(base, S)), c)
  BY <1>1, <1>2, <1>4, GetOver
<1>6. QED
  BY <1>5 DEF written, outer

-----------------------------------------------------------------------------
(* Every step preserves the invariant. *)

(* Nothing that has run, nor `f` itself, reads the code `f` is about to write. *)
LEMMA WritesAreUnread ==
  ASSUME EvaluationInvariant, NEW f \in Calculated \ done, Needs(f) \subseteq done,
         NEW h \in done \cup {f}, NEW c \in document.reads[h] \cup document.subjects[h]
  PROVE  c # f
<1>1. document \in Documents /\ done \subseteq Calculated
  BY DEF EvaluationInvariant, TypeOK
<1>2. CASE h = f
  BY <1>1, <1>2, DocumentsAssumption
<1>3. CASE h \in done
  BY <1>1, <1>3 DEF EvaluationInvariant, Needs
<1>4. QED
  BY <1>2, <1>3

LEMMA WrittenRows ==
  ASSUME TypeOK, NEW f \in Codes, NEW results
  PROVE  LET written == [i \in DOMAIN rows |-> Put(rows[i], f, results[i])]
         IN  /\ written = [i \in 1..Len(written) |-> written[i]] /\ Len(written) = Len(rows)
             /\ \A i \in DOMAIN written : DOMAIN written[i] \subseteq Codes
             /\ written = << >> <=> rows = << >>
<1> DEFINE n == Len(rows)
           written == [i \in DOMAIN rows |-> Put(rows[i], f, results[i])]
<1>1. n \in Nat /\ rows = [i \in 1..n |-> rows[i]]
  BY CodesAssumption DEF TypeOK
<1> HIDE DEF n
<1>2. DOMAIN rows = 1..n /\ (rows = << >> <=> n = 0)
  BY <1>1, SequenceFromFunction
<1>3. written = [i \in 1..n |-> written[i]]
  BY <1>2
<1>4. \A i \in DOMAIN written : DOMAIN written[i] \subseteq Codes
  <2>1. ASSUME NEW i \in DOMAIN rows, NEW x \in DOMAIN written[i]
        PROVE  x \in Codes
    <3>1. x = f \/ x \in DOMAIN rows[i]
      BY PutDomain
    <3>2. QED
      BY <3>1 DEF TypeOK
  <2>2. QED
    BY <2>1
<1> HIDE DEF written
<1>5. Len(written) = n /\ (written = << >> <=> n = 0)
  BY <1>1, <1>3, SequenceFromFunction
<1>6. QED
  BY <1>2, <1>3, <1>4, <1>5 DEF n, written

LEMMA OnceKeepsFixpoint ==
  ASSUME EvaluationInvariant, NEW f, CalculateOnce(f), f \in Calculated
  PROVE  CalculatedIsFixpoint'
<1> DEFINE value == Evaluate(f, working, rows)
<1>1. /\ f \in Calculated \ done /\ Needs(f) \subseteq done
      /\ calculated' = Put(calculated, f, value) /\ working' = Put(working, f, value)
      /\ done' = done \cup {f} /\ rows' = rows /\ perRow' = perRow /\ document' = document
  BY DEF CalculateOnce, Ready
<1>2. /\ document \in Documents /\ DOMAIN calculated = done /\ perRow \subseteq done
      /\ f \notin perRow
  BY <1>1 DEF EvaluationInvariant, TypeOK
<1> HIDE DEF value
<1>3. \A h \in done' : \A c \in document.reads[h] \cup document.subjects[h] : c # f
  BY <1>1, WritesAreUnread
<1>4. ASSUME NEW h \in done' \ perRow'
      PROVE  calculated'[h] = EvaluateOf(document, h, working', rows)
  <2>1. EvaluateOf(document, h, working, rows) = EvaluateOf(document, h, working', rows)
    <3>1. \A c \in document.reads[h] \cup document.subjects[h] : Get(working, c) = Get(working', c)
      BY <1>1, <1>3, GetAfterPut
    <3>2. \A c \in document.subjects[h] : Aggregate(c, working, rows) = Aggregate(c, working', rows)
      BY <3>1, AggregateOfScope
    <3>3. QED
      BY <3>1, <3>2, EvaluateDependsOnInputs
  <2>2. CASE h = f
    <3>1. calculated'[f] = value
      BY <1>1, PutHere
    <3>2. QED
      BY <2>1, <2>2, <3>1 DEF value, Evaluate, EvaluateOf
  <2>3. CASE h # f
    <3>1. h \in done \ perRow
      BY <1>1, <2>3
    <3>2. calculated'[h] = calculated[h]
      BY <1>1, <1>2, <2>3, <3>1, PutElsewhere
    <3>3. calculated[h] = Evaluate(h, working, rows)
      BY <3>1 DEF EvaluationInvariant, CalculatedIsFixpoint
    <3>4. QED
      BY <2>1, <3>2, <3>3 DEF Evaluate, EvaluateOf
  <2>4. QED
    BY <2>2, <2>3
<1>5. ASSUME NEW h \in perRow, NEW i \in DOMAIN rows
      PROVE  calculated'[h][i] = EvaluateOf(document, h, Over(rows[i], Without(working', perRow)), rows)
  <2>1. h \in done /\ h # f
    BY <1>2
  <2>2. calculated'[h] = calculated[h]
    BY <1>1, <1>2, <2>1, PutElsewhere
  <2>3. calculated[h][i] = EvaluateOf(document, h, Over(rows[i], Without(working, perRow)), rows)
    BY DEF EvaluationInvariant, CalculatedIsFixpoint, RowScopeOf, Evaluate, EvaluateOf
  <2>4. \A c \in document.reads[h] \cup document.subjects[h] :
          Get(Over(rows[i], Without(working, perRow)), c) = Get(Over(rows[i], Without(working', perRow)), c)
    <3>1. \A c \in document.reads[h] \cup document.subjects[h] : Get(working, c) = Get(working', c)
      BY <1>1, <1>3, <2>1, GetAfterPut
    <3>2. \A c \in document.reads[h] \cup document.subjects[h] :
            Get(Without(working, perRow), c) = Get(Without(working', perRow), c)
      BY <3>1, GetWithout
    <3>3. QED
      BY <3>2, GetOver
  <2>5. \A c \in document.subjects[h] :
          Aggregate(c, Over(rows[i], Without(working, perRow)), rows)
            = Aggregate(c, Over(rows[i], Without(working', perRow)), rows)
    BY <2>4, AggregateOfScope
  <2>6. QED
    BY <2>2, <2>3, <2>4, <2>5, EvaluateDependsOnInputs
<1>6. QED
  BY <1>1, <1>4, <1>5 DEF CalculatedIsFixpoint, RowScopeOf, Evaluate, EvaluateOf

LEMMA PerRowKeepsFixpoint ==
  ASSUME EvaluationInvariant, NEW f, CalculatePerRow(f)
  PROVE  CalculatedIsFixpoint'
<1> DEFINE scope(i) == Over(rows[i], Without(working, perRow))
           results  == [i \in DOMAIN rows |-> Evaluate(f, scope(i), rows)]
<1>1. /\ f \in Calculated \ done /\ Needs(f) \subseteq done /\ f \in Derived /\ rows # << >>
      /\ calculated' = Put(calculated, f, results) /\ working' = Put(working, f, results)
      /\ rows' = WriteBack(rows, f, results)
      /\ done' = done \cup {f} /\ perRow' = perRow \cup {f} /\ document' = document
  BY DEF CalculatePerRow, Ready, WriteBack
<1>2. /\ document \in Documents /\ DOMAIN calculated = done /\ perRow \subseteq done
      /\ f \notin perRow
  BY <1>1 DEF EvaluationInvariant, TypeOK
<1>r. \A i \in DOMAIN rows : results[i] = EvaluateOf(document, f, scope(i), rows)
  BY DEF Evaluate, EvaluateOf
<1> HIDE DEF results
<1>3. \A h \in done' : \A c \in document.reads[h] \cup document.subjects[h] : c # f
  BY <1>1, WritesAreUnread
<1>d. DOMAIN rows' = DOMAIN rows /\ \A i \in DOMAIN rows : rows'[i] = Put(rows[i], f, results[i])
  BY <1>1 DEF WriteBack
<1>w. Len(rows') = Len(rows) /\ rows' # << >>
  <2>1. f \in Codes
    BY <1>1 DEF Codes, Children
  <2>2. TypeOK
    BY DEF EvaluationInvariant
  <2>3. QED
    BY <1>1, <2>1, <2>2, WrittenRows DEF WriteBack
<1>c. ASSUME NEW h \in done', NEW c \in document.subjects[h], NEW scope1, NEW scope2,
             Get(scope1, c) = Get(scope2, c)
      PROVE  Aggregate(c, scope1, rows) = Aggregate(c, scope2, rows')
  <2>1. Column(rows, c) = Column(rows', c)
    BY <1>1, <1>3, WriteBackKeepsColumns
  <2>2. QED
    BY <1>1, <1>c, <1>w, <2>1 DEF Aggregate
<1>4. ASSUME NEW h \in done' \ perRow'
      PROVE  calculated'[h] = EvaluateOf(document, h, working', rows')
  <2>1. h \in done \ perRow /\ h # f
    BY <1>1
  <2>2. calculated'[h] = calculated[h]
    BY <1>1, <1>2, <2>1, PutElsewhere
  <2>3. calculated[h] = EvaluateOf(document, h, working, rows)
    BY <2>1 DEF EvaluationInvariant, CalculatedIsFixpoint, Evaluate, EvaluateOf
  <2>4. \A c \in document.reads[h] \cup document.subjects[h] : Get(working, c) = Get(working', c)
    BY <1>1, <1>3, GetAfterPut
  <2>5. \A c \in document.subjects[h] : Aggregate(c, working, rows) = Aggregate(c, working', rows')
    BY <1>c, <2>4
  <2>6. QED
    BY <2>2, <2>3, <2>4, <2>5, EvaluateDependsOnInputs
<1>5. ASSUME NEW h \in perRow', NEW i \in DOMAIN rows
      PROVE  calculated'[h][i] = EvaluateOf(document, h, Over(rows'[i], Without(working', perRow')), rows')
  <2>1. EvaluateOf(document, h, scope(i), rows)
          = EvaluateOf(document, h, Over(rows'[i], Without(working', perRow')), rows')
    <3>1. h \in done'
      BY <1>1, <1>2
    <3>2. \A c \in document.reads[h] \cup document.subjects[h] :
            Get(scope(i), c) = Get(Over(rows'[i], Without(working', perRow')), c)
      BY <1>1, <1>3, <1>d, <3>1, WriteBackKeepsScope
    <3> HIDE DEF scope
    <3>3. \A c \in document.subjects[h] :
            Aggregate(c, scope(i), rows)
              = Aggregate(c, Over(rows'[i], Without(working', perRow')), rows')
      BY <1>c, <3>1, <3>2
    <3>4. QED
      BY <3>2, <3>3, EvaluateDependsOnInputs
  <2>2. CASE h = f
    <3>1. calculated'[f] = results
      BY <1>1, PutHere
    <3>2. QED
      BY <1>r, <2>1, <2>2, <3>1
  <2>3. CASE h # f
    <3>1. h \in perRow /\ h \in done
      BY <1>1, <1>2, <2>3
    <3>2. calculated'[h] = calculated[h]
      BY <1>1, <1>2, <2>3, <3>1, PutElsewhere
    <3>3. calculated[h][i] = EvaluateOf(document, h, scope(i), rows)
      BY <3>1 DEF EvaluationInvariant, CalculatedIsFixpoint, RowScopeOf, Evaluate, EvaluateOf
    <3>4. QED
      BY <2>1, <3>2, <3>3
  <2>4. QED
    BY <2>2, <2>3
<1>6. QED
  BY <1>1, <1>4, <1>5, <1>d DEF CalculatedIsFixpoint, RowScopeOf, Evaluate, EvaluateOf

LEMMA OnceKeepsStores ==
  ASSUME EvaluationInvariant, NEW f, CalculateOnce(f)
  PROVE  StoresAgree'
<1> DEFINE value == Evaluate(f, working, rows)
<1>1. /\ f \in Calculated \ done
      /\ calculated' = Put(calculated, f, value) /\ working' = Put(working, f, value)
      /\ done' = done \cup {f} /\ rows' = rows /\ perRow' = perRow
  BY DEF CalculateOnce, Ready
<1> HIDE DEF value
<1>2. DOMAIN calculated = done /\ perRow \subseteq done
  BY DEF EvaluationInvariant, TypeOK
<1>3. f \in DOMAIN working' /\ working'[f] = value /\ calculated'[f] = value
  <2>1. f \in DOMAIN working'
    BY <1>1, PutDomain
  <2>2. working'[f] = value /\ calculated'[f] = value
    BY <1>1, PutHere
  <2>3. QED
    BY <2>1, <2>2
<1>4. ASSUME NEW h \in done
      PROVE  h \in DOMAIN working' /\ working'[h] = calculated'[h] /\ calculated'[h] = calculated[h]
  <2>1. h # f /\ h \in DOMAIN working /\ h \in DOMAIN calculated /\ working[h] = calculated[h]
    BY <1>1, <1>2 DEF EvaluationInvariant, StoresAgree
  <2>2. h \in DOMAIN working'
    BY <1>1, <2>1, PutDomain
  <2>3. working'[h] = working[h] /\ calculated'[h] = calculated[h]
    BY <1>1, <2>1, PutElsewhere
  <2>4. QED
    BY <2>1, <2>2, <2>3
<1>5. QED
  BY <1>1, <1>2, <1>3, <1>4 DEF EvaluationInvariant, StoresAgree

LEMMA PerRowKeepsStores ==
  ASSUME EvaluationInvariant, NEW f, CalculatePerRow(f)
  PROVE  StoresAgree'
<1> DEFINE results == [i \in DOMAIN rows |->
                         Evaluate(f, Over(rows[i], Without(working, perRow)), rows)]
<1>1. /\ f \in Calculated \ done
      /\ calculated' = Put(calculated, f, results) /\ working' = Put(working, f, results)
      /\ rows' = [i \in DOMAIN rows |-> Put(rows[i], f, results[i])]
      /\ done' = done \cup {f} /\ perRow' = perRow \cup {f}
  BY DEF CalculatePerRow, Ready
<1>r. DOMAIN results = DOMAIN rows
  OBVIOUS
<1> HIDE DEF results
<1>2. DOMAIN calculated = done /\ perRow \subseteq done
  BY DEF EvaluationInvariant, TypeOK
<1>3. f \in DOMAIN working' /\ working'[f] = results /\ calculated'[f] = results
  <2>1. f \in DOMAIN working'
    BY <1>1, PutDomain
  <2>2. working'[f] = results /\ calculated'[f] = results
    BY <1>1, PutHere
  <2>3. QED
    BY <2>1, <2>2
<1>4. ASSUME NEW h \in done
      PROVE  h \in DOMAIN working' /\ working'[h] = calculated'[h] /\ calculated'[h] = calculated[h]
  <2>1. h # f /\ h \in DOMAIN working /\ h \in DOMAIN calculated /\ working[h] = calculated[h]
    BY <1>1, <1>2 DEF EvaluationInvariant, StoresAgree
  <2>2. h \in DOMAIN working'
    BY <1>1, <2>1, PutDomain
  <2>3. working'[h] = working[h] /\ calculated'[h] = calculated[h]
    BY <1>1, <2>1, PutElsewhere
  <2>4. QED
    BY <2>1, <2>2, <2>3
<1>5. \A h \in done' : h \in DOMAIN working' /\ working'[h] = calculated'[h]
  BY <1>1, <1>3, <1>4
<1>6. ASSUME NEW h \in perRow'
      PROVE  /\ DOMAIN calculated'[h] = DOMAIN rows'
             /\ \A i \in DOMAIN rows' : h \in DOMAIN rows'[i] /\ rows'[i][h] = calculated'[h][i]
  <2>1. CASE h = f
    <3>1. \A i \in DOMAIN rows : rows'[i] = Put(rows[i], f, results[i])
      BY <1>1
    <3>2. \A i \in DOMAIN rows : f \in DOMAIN rows'[i]
      BY <3>1, PutDomain
    <3>3. \A i \in DOMAIN rows : rows'[i][f] = results[i]
      BY <3>1, PutHere
    <3>4. DOMAIN rows' = DOMAIN rows
      BY <1>1
    <3>5. QED
      BY <1>r, <1>3, <2>1, <3>2, <3>3, <3>4
  <2>2. CASE h # f
    <3>1. h \in perRow /\ h \in done
      BY <1>1, <1>2, <2>2
    <3>2. /\ DOMAIN calculated[h] = DOMAIN rows
          /\ \A i \in DOMAIN rows : h \in DOMAIN rows[i] /\ rows[i][h] = calculated[h][i]
      BY <3>1 DEF EvaluationInvariant, StoresAgree
    <3>3. DOMAIN rows' = DOMAIN rows /\ \A i \in DOMAIN rows : rows'[i] = Put(rows[i], f, results[i])
      BY <1>1
    <3>4. \A i \in DOMAIN rows : h \in DOMAIN rows'[i]
      BY <3>2, <3>3, PutDomain
    <3>5. \A i \in DOMAIN rows : rows'[i][h] = rows[i][h]
      BY <2>2, <3>2, <3>3, PutElsewhere
    <3>6. calculated'[h] = calculated[h]
      BY <1>4, <3>1
    <3>7. QED
      BY <3>2, <3>3, <3>4, <3>5, <3>6
  <2>3. QED
    BY <2>1, <2>2
<1>7. QED
  BY <1>5, <1>6 DEF StoresAgree

-----------------------------------------------------------------------------
(* The other parts of the invariant. *)

LEMMA InitEstablishes ==
  Init => EvaluationInvariant
<1> SUFFICES ASSUME Init PROVE EvaluationInvariant
  OBVIOUS
<1>1. DOMAIN working \subseteq Codes
  BY KeysAssumption DEF Init
<1>2. rows = [i \in 1..0 |-> rows[i]]
  BY DEF Init
<1>3. Len(rows) = 0 /\ DOMAIN rows = {}
  BY DEF Init
<1>4. DOMAIN calculated = {}
  BY DEF Init, Empty
<1>5. TypeOK
  BY <1>1, <1>2, <1>3, <1>4, CodesAssumption DEF Init, TypeOK
<1>6. QED
  BY <1>5 DEF Init, EvaluationInvariant, CalculatedIsFixpoint, StoresAgree, CountAgrees

LEMMA PrepareEstablishesNothingElse ==
  ASSUME EvaluationInvariant, phase = "prepare", done' = done, perRow' = perRow
  PROVE  CalculatedIsFixpoint' /\ StoresAgree'
<1>1. done' = {} /\ perRow' = {}
  BY DEF EvaluationInvariant
<1>2. QED
  BY <1>1 DEF CalculatedIsFixpoint, StoresAgree

LEMMA PrepareRowsPreserves ==
  ASSUME EvaluationInvariant, NEW objects \in Objects, NEW others, NEW later,
         PrepareRows(objects, others, later)
  PROVE  EvaluationInvariant'
<1>1. PICK n \in 0..MaxRows : objects \in [1..n -> RowMaps]
  BY DEF Objects
<1>2. n \in Nat /\ objects = [i \in 1..n |-> objects[i]]
  BY <1>1, CodesAssumption
<1>3. Len(objects) = n /\ DOMAIN objects = 1..n
  BY <1>2, SequenceFromFunction
<1>4. \A i \in DOMAIN objects : DOMAIN objects[i] \subseteq Codes
  BY <1>1, <1>3, KeysAssumption
<1> DEFINE flat == Flattened(objects, others)
           left == Without(flat, later)
           base == IF entry = "answers" THEN Over(left, given) ELSE given
<1>5. /\ phase = "prepare" /\ rows' = objects /\ working' = Put(base, Lines, Len(objects))
      /\ phase' = "calculate" /\ entry' = entry /\ document' = document /\ done' = done
      /\ perRow' = perRow /\ calculated' = calculated /\ observed' = observed /\ given' = given
  BY DEF PrepareRows, FlattenedAnswers
<1>6. \A c \in DOMAIN flat : c \in Codes
  <2> DEFINE having(c) == {i \in DOMAIN objects : c \in DOMAIN objects[i]}
             last(c)   == CHOOSE i \in having(c) : \A j \in having(c) : j <= i
             columns   == [c \in {c \in Codes : having(c) # {}} |-> objects[last(c)][c]]
             counted   == Put(Empty, Lines, Len(objects) + others)
  <2>1. flat = Over(columns, counted)
    BY DEF Flattened
  <2>2. DOMAIN columns \subseteq Codes
    OBVIOUS
  <2>3. \A c \in DOMAIN counted : c = Lines
    BY PutDomain DEF Empty
  <2> HIDE DEF columns, counted, flat
  <2>4. \A c \in DOMAIN flat : c \in DOMAIN columns \/ c \in DOMAIN counted
    BY <2>1, OverDomain
  <2>5. QED
    BY <2>2, <2>3, <2>4 DEF Codes, OuterCodes
<1>7. \A c \in DOMAIN left : c \in DOMAIN flat
  BY DEF Without
<1> HIDE DEF flat, left
<1>8. \A c \in DOMAIN base : c \in DOMAIN left \/ c \in DOMAIN given
  BY OverDomain
<1>b. entry = "values" => base = given
  OBVIOUS
<1> HIDE DEF base
<1>9. DOMAIN working' \subseteq Codes
  <2>1. \A c \in DOMAIN working' : c = Lines \/ c \in DOMAIN base
    BY <1>5, PutDomain
  <2>2. DOMAIN given \subseteq Codes
    BY KeysAssumption DEF EvaluationInvariant, TypeOK
  <2>3. QED
    BY <1>6, <1>7, <1>8, <2>1, <2>2 DEF Codes, OuterCodes
<1>10. entry = "values" => \A c \in Scalars \cup Cells : Get(working', c) = Get(given, c)
  <2>1. \A c \in Scalars \cup Cells : c # Lines
    BY CodesAssumption DEF OuterCodes, Children
  <2>2. QED
    BY <1>5, <1>b, <2>1, GetAfterPut
<1>11. TypeOK'
  BY <1>1, <1>2, <1>3, <1>4, <1>5, <1>9 DEF EvaluationInvariant, TypeOK
<1>12. CountAgrees'
  BY <1>5, GetPutHere DEF CountAgrees
<1>13. done' = {} /\ perRow' = {}
  BY <1>5 DEF EvaluationInvariant
<1>14. QED
  BY <1>5, <1>10, <1>11, <1>12, <1>13, PrepareEstablishesNothingElse DEF EvaluationInvariant

LEMMA PrepareCountPreserves ==
  ASSUME EvaluationInvariant, NEW count, PrepareCount(count)
  PROVE  EvaluationInvariant'
<1>1. /\ phase = "prepare" /\ rows' = rows /\ rows = << >> /\ phase' = "calculate"
      /\ entry' = entry /\ document' = document /\ done' = done
      /\ perRow' = perRow /\ calculated' = calculated /\ observed' = observed /\ given' = given
  BY DEF PrepareCount, EvaluationInvariant
<1>p. PICK v : working' = given \/ working' = Put(given, Lines, v)
  BY DEF PrepareCount
<1>2. DOMAIN working' \subseteq Codes
  <2>1. \A c \in DOMAIN working' : c = Lines \/ c \in DOMAIN given
    BY <1>p, PutDomain
  <2>2. DOMAIN given \subseteq Codes
    BY KeysAssumption DEF EvaluationInvariant, TypeOK
  <2>3. QED
    BY <2>1, <2>2 DEF Codes, OuterCodes
<1>g. \A c \in Scalars \cup Cells : Get(working', c) = Get(given, c)
  <2>1. \A c \in Scalars \cup Cells : c # Lines
    BY CodesAssumption DEF OuterCodes, Children
  <2>2. QED
    BY <1>p, <2>1, GetAfterPut
<1>3. TypeOK'
  BY <1>1, <1>2 DEF EvaluationInvariant, TypeOK
<1>4. done' = {} /\ perRow' = {}
  BY <1>1 DEF EvaluationInvariant
<1>5. QED
  BY <1>1, <1>3, <1>4, <1>g, PrepareEstablishesNothingElse DEF EvaluationInvariant, CountAgrees

LEMMA OncePreserves ==
  ASSUME EvaluationInvariant, NEW f \in Calculated, CalculateOnce(f)
  PROVE  EvaluationInvariant'
<1> DEFINE value == Evaluate(f, working, rows)
<1>1. /\ f \in Calculated \ done /\ Needs(f) \subseteq done /\ phase = "calculate"
      /\ f \in Derived => rows = << >>
      /\ calculated' = Put(calculated, f, value) /\ working' = Put(working, f, value)
      /\ done' = done \cup {f} /\ rows' = rows /\ perRow' = perRow /\ document' = document
      /\ entry' = entry /\ observed' = observed /\ phase' = phase /\ given' = given
  BY DEF CalculateOnce, Ready
<1> HIDE DEF value
<1>2. f # Lines /\ f \in Codes
  BY CodesAssumption DEF Calculated, Codes, OuterCodes, Children
<1>3. TypeOK'
  <2>1. \A c \in DOMAIN working' : c \in Codes
    BY <1>1, <1>2, PutDomain DEF EvaluationInvariant, TypeOK
  <2>2. DOMAIN calculated = done
    BY DEF EvaluationInvariant, TypeOK
  <2>3. DOMAIN calculated' = done'
    BY <1>1, <2>2, PutDomain
  <2>4. QED
    BY <1>1, <2>1, <2>3 DEF EvaluationInvariant, TypeOK
<1>4. perRow' = IF rows' = << >> THEN {} ELSE done' \cap Derived
  BY <1>1 DEF EvaluationInvariant
<1>5. \A h \in done' : Needs(h)' \subseteq done'
  BY <1>1 DEF EvaluationInvariant, Needs
<1>6. entry' = "values" => \A c \in Scalars \cup Cells : Get(working', c) = Get(given', c)
  <2>1. \A c \in Scalars \cup Cells : c # f
    BY CodesAssumption DEF Calculated, OuterCodes, Children
  <2>2. QED
    BY <1>1, <2>1, GetAfterPut DEF EvaluationInvariant
<1>7. CountAgrees'
  BY <1>1, <1>2, GetAfterPut DEF EvaluationInvariant, CountAgrees
<1>8. CalculatedIsFixpoint' /\ StoresAgree'
  BY OnceKeepsFixpoint, OnceKeepsStores
<1>9. QED
  BY <1>1, <1>3, <1>4, <1>5, <1>6, <1>7, <1>8 DEF EvaluationInvariant

LEMMA PerRowPreserves ==
  ASSUME EvaluationInvariant, NEW f \in Calculated, CalculatePerRow(f)
  PROVE  EvaluationInvariant'
<1> DEFINE results == [i \in DOMAIN rows |->
                         Evaluate(f, Over(rows[i], Without(working, perRow)), rows)]
<1>1. /\ f \in Calculated \ done /\ Needs(f) \subseteq done /\ phase = "calculate"
      /\ f \in Derived /\ rows # << >>
      /\ calculated' = Put(calculated, f, results) /\ working' = Put(working, f, results)
      /\ rows' = [i \in DOMAIN rows |-> Put(rows[i], f, results[i])]
      /\ done' = done \cup {f} /\ perRow' = perRow \cup {f} /\ document' = document
      /\ entry' = entry /\ observed' = observed /\ phase' = phase /\ given' = given
  BY DEF CalculatePerRow, Ready
<1> HIDE DEF results
<1>2. f # Lines /\ f \in Codes
  BY CodesAssumption DEF Calculated, Codes, OuterCodes, Children
<1>3. /\ rows' = [i \in 1..Len(rows') |-> rows'[i]] /\ Len(rows') = Len(rows)
      /\ \A i \in DOMAIN rows' : DOMAIN rows'[i] \subseteq Codes
      /\ rows' # << >>
  BY <1>1, <1>2, WrittenRows DEF EvaluationInvariant
<1>4. TypeOK'
  <2>1. \A c \in DOMAIN working' : c \in Codes
    BY <1>1, <1>2, PutDomain DEF EvaluationInvariant, TypeOK
  <2>2. DOMAIN calculated = done
    BY DEF EvaluationInvariant, TypeOK
  <2>3. DOMAIN calculated' = done'
    BY <1>1, <2>2, PutDomain
  <2>4. QED
    BY <1>1, <1>3, <2>1, <2>3 DEF EvaluationInvariant, TypeOK
<1>5. perRow' = IF rows' = << >> THEN {} ELSE done' \cap Derived
  BY <1>1, <1>3 DEF EvaluationInvariant
<1>6. \A h \in done' : Needs(h)' \subseteq done'
  BY <1>1 DEF EvaluationInvariant, Needs
<1>7. entry' = "values" => \A c \in Scalars \cup Cells : Get(working', c) = Get(given', c)
  <2>1. \A c \in Scalars \cup Cells : c # f
    BY CodesAssumption DEF Calculated, OuterCodes, Children
  <2>2. QED
    BY <1>1, <2>1, GetAfterPut DEF EvaluationInvariant
<1>8. CountAgrees'
  BY <1>1, <1>2, <1>3, GetAfterPut DEF EvaluationInvariant, CountAgrees
<1>9. CalculatedIsFixpoint' /\ StoresAgree'
  BY PerRowKeepsFixpoint, PerRowKeepsStores
<1>10. QED
  BY <1>1, <1>4, <1>5, <1>6, <1>7, <1>8, <1>9 DEF EvaluationInvariant

-----------------------------------------------------------------------------
(* The theorems. *)

LEMMA StoresUnchanged ==
  ASSUME EvaluationInvariant, UNCHANGED <<entry, document, given, working, rows, done, perRow, calculated>>,
         phase' \in {phase, "failed", "done"},
         phase' = "done" => done = Calculated /\ observed' = working,
         phase' = "prepare" => phase = "prepare"
  PROVE  EvaluationInvariant'
<1>1. \A f \in done : calculated[f] = calculated'[f] /\ Needs(f)' = Needs(f)
  BY DEF Needs
<1>2. TypeOK'
  BY DEF EvaluationInvariant, TypeOK
<1>3. CalculatedIsFixpoint'
  <2>1. \A f \in done, i \in DOMAIN rows : Evaluate(f, RowScopeOf(i), rows)' = Evaluate(f, RowScopeOf(i), rows)
    BY DEF Evaluate, RowScopeOf
  <2>2. \A f \in done : Evaluate(f, working, rows)' = Evaluate(f, working, rows)
    BY DEF Evaluate
  <2>3. perRow \subseteq done
    BY DEF EvaluationInvariant, TypeOK
  <2>4. QED
    BY <2>1, <2>2, <2>3 DEF EvaluationInvariant, CalculatedIsFixpoint
<1>4. StoresAgree'
  BY DEF EvaluationInvariant, StoresAgree
<1>5. CountAgrees'
  <2>1. phase' # "prepare" => phase # "prepare" \/ rows = << >>
    BY DEF EvaluationInvariant
  <2>2. QED
    BY <2>1 DEF EvaluationInvariant, CountAgrees
<1>6. \A f \in done' : Needs(f)' \subseteq done'
  BY <1>1 DEF EvaluationInvariant
<1>7. QED
  BY <1>2, <1>3, <1>4, <1>5, <1>6 DEF EvaluationInvariant

LEMMA NextPreserves ==
  EvaluationInvariant /\ [Next]_vars => EvaluationInvariant'
<1> SUFFICES ASSUME EvaluationInvariant, [Next]_vars PROVE EvaluationInvariant'
  OBVIOUS
<1>1. CASE \E objects \in Objects, others \in 0..MaxRows, later \in SUBSET DOMAIN given :
             PrepareRows(objects, others, later)
  BY <1>1, PrepareRowsPreserves
<1>2. CASE \E count \in 0..MaxRows : PrepareCount(count)
  BY <1>2, PrepareCountPreserves
<1>3. CASE \E f \in Calculated : CalculateOnce(f)
  BY <1>3, OncePreserves
<1>4. CASE \E f \in Calculated : CalculatePerRow(f)
  BY <1>4, PerRowPreserves
<1>5. CASE EvaluationFails
  BY <1>5, StoresUnchanged DEF EvaluationFails
<1>6. CASE ApplyPredicates
  BY <1>6, StoresUnchanged DEF ApplyPredicates
<1>7. CASE UNCHANGED vars
  BY <1>7, StoresUnchanged DEF vars, EvaluationInvariant
<1>8. QED
  BY <1>1, <1>2, <1>3, <1>4, <1>5, <1>6, <1>7 DEF Next

(* The invariant of apply_calculations: whatever has run had all its inputs *)
(* in place.                                                                 *)
THEOREM EvaluationInvariantHolds == Spec => []EvaluationInvariant
<1>1. Init => EvaluationInvariant
  BY InitEstablishes
<1>2. EvaluationInvariant /\ [Next]_vars => EvaluationInvariant'
  BY NextPreserves
<1>3. QED
  BY <1>1, <1>2, PTL DEF Spec

(* The evaluator's maps, rows and phases keep their types. *)
THEOREM TypeCorrect == Spec => []TypeOK
<1>1. EvaluationInvariant => TypeOK
  BY DEF EvaluationInvariant
<1>2. QED
  BY <1>1, EvaluationInvariantHolds, PTL

(* R-2: after one ordered pass no calculation would give another value. *)
THEOREM OnePassIsFixpoint == Spec => []CalculatedIsFixpoint
<1>1. EvaluationInvariant => CalculatedIsFixpoint
  BY DEF EvaluationInvariant
<1>2. QED
  BY <1>1, EvaluationInvariantHolds, PTL

(* R-7: rows, working values and the result hold one value per calculation. *)
THEOREM StoresStayInAgreement == Spec => []StoresAgree
<1>1. EvaluationInvariant => StoresAgree
  BY DEF EvaluationInvariant
<1>2. QED
  BY <1>1, EvaluationInvariantHolds, PTL

(* R-7a: the repeater's value is its number of rows, to the end. *)
THEOREM CountIsRows == Spec => []CountAgrees
<1>1. EvaluationInvariant => CountAgrees
  BY DEF EvaluationInvariant
<1>2. QED
  BY <1>1, EvaluationInvariantHolds, PTL

(* Predicates and validations are evaluated on every calculated value. *)
THEOREM PredicatesSeeResults == Spec => []PredicatesSeeCalculated
<1>1. EvaluationInvariant => PredicatesSeeCalculated
  BY DEF EvaluationInvariant, TypeOK, PredicatesSeeCalculated, StoresAgree, Get
<1>2. QED
  BY <1>1, EvaluationInvariantHolds, PTL

(* R-7 where rows arrive as values: what a row's calculation reads is the    *)
(* row's own, handed in beside the repeater, or calculated outside it.        *)
THEOREM ValuesKeepRowScope == Spec => []RowScopeOfValues
<1>1. EvaluationInvariant => RowScopeOfValues
  <2> SUFFICES ASSUME EvaluationInvariant, entry = "values",
                      NEW f \in perRow, NEW i \in DOMAIN rows
               PROVE  LET own     == DOMAIN rows[i]
                          handed  == (Scalars \cup Cells) \ own
                          read(c) == IF c \in own THEN rows[i][c]
                                     ELSE IF c \in handed THEN Get(given, c) ELSE Get(working, c)
                      IN  /\ calculated[f][i] =
                               Compute(f, [c \in document.reads[f] |-> read(c)],
                                 [c \in document.subjects[f] |-> Aggregate(c, working, rows)])
                          /\ document.reads[f] \cap Derived \subseteq own
    BY DEF RowScopeOfValues
  <2> DEFINE own     == DOMAIN rows[i]
             handed  == (Scalars \cup Cells) \ own
             read(c) == IF c \in own THEN rows[i][c]
                        ELSE IF c \in handed THEN Get(given, c) ELSE Get(working, c)
  <2>1. rows # << >> /\ perRow = done \cap Derived /\ document \in Documents /\ f \in done
    BY DEF EvaluationInvariant, TypeOK
  <2>2. calculated[f][i] = Evaluate(f, RowScopeOf(i), rows)
    BY DEF EvaluationInvariant, CalculatedIsFixpoint
  <2>3. document.reads[f] \cap Derived \subseteq perRow
    BY <2>1 DEF EvaluationInvariant, Needs, Calculated
  <2>4. perRow \subseteq own
    BY DEF EvaluationInvariant, StoresAgree
  <2>5. \A c \in document.reads[f] : Get(RowScopeOf(i), c) = read(c)
    <3> SUFFICES ASSUME NEW c \in document.reads[f], c \notin own
                 PROVE  Get(RowScopeOf(i), c)
                          = IF c \in Scalars \cup Cells THEN Get(given, c) ELSE Get(working, c)
      BY GetOver DEF RowScopeOf
    <3>1. Get(RowScopeOf(i), c) = Get(Without(working, perRow), c)
      BY GetOver DEF RowScopeOf
    <3>2. c \notin perRow
      BY <2>4
    <3>3. Get(RowScopeOf(i), c) = Get(working, c)
      BY <3>1, <3>2, GetWithout
    <3>4. QED
      BY <3>3 DEF EvaluationInvariant
  <2>6. \A c \in document.subjects[f] :
          Aggregate(c, RowScopeOf(i), rows) = Aggregate(c, working, rows)
    BY <2>1 DEF Aggregate
  <2> HIDE DEF read
  <2>7. [c \in document.reads[f] |-> Get(RowScopeOf(i), c)] = [c \in document.reads[f] |-> read(c)]
    BY <2>5
  <2>8. [c \in document.subjects[f] |-> Aggregate(c, RowScopeOf(i), rows)]
          = [c \in document.subjects[f] |-> Aggregate(c, working, rows)]
    BY <2>6
  <2>9. calculated[f][i] =
          Compute(f, [c \in document.reads[f] |-> read(c)],
                     [c \in document.subjects[f] |-> Aggregate(c, working, rows)])
    BY <2>2, <2>7, <2>8 DEF Evaluate
  <2>10. QED
    BY <2>3, <2>4, <2>9 DEF read
<1>2. QED
  BY <1>1, EvaluationInvariantHolds, PTL
=============================================================================
