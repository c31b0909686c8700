--------------------------- MODULE RuleEvaluation ---------------------------
(***************************************************************************)
(* rules/evaluate.rs, rules/rows.rs and `flatten_for_rules`: the           *)
(* calculations of one rules document over one set of values.              *)
(*                                                                         *)
(* The form has outer fields and one repeater, `Lines`, with child fields. *)
(* Fields are named by their code. An expression is abstracted to what it  *)
(* reads: `reads[f]` are its direct references, `subjects[f]` what its      *)
(* aggregates are of (the children it sums, the repeater when it counts     *)
(* it), and Compute(f, r, g) is what evaluating and normalizing it yields   *)
(* from the values r of the former and what the aggregates g read of the    *)
(* latter. Nothing is assumed of Compute, so two values are known to be     *)
(* equal only when they were computed from equal inputs.                    *)
(*                                                                         *)
(* Keys are not restricted to where they belong: a caller may give a child  *)
(* code beside the repeater and an outer code within a row, and both are    *)
(* kept.                                                                    *)
(*                                                                         *)
(* Calculations run in an order that puts dependencies first, which is what *)
(* DependencyOrder establishes; the choice among ready fields is open.      *)
(***************************************************************************)
EXTENDS Integers, FiniteSets, Sequences

CONSTANTS
  Scalars,        \* outer input fields
  Totals,         \* outer calculated fields
  Cells,          \* child input fields of the repeater
  Derived,        \* calculated child fields of the repeater
  Lines,          \* the repeater's code
  Null,           \* Val::Null
  Submitted,      \* what may be handed in beside the repeater: code -> value
  RowMaps,        \* the objects an element may be: code -> value
  MaxRows,        \* bound on the rows submitted, and on the other elements
  Entries,        \* "answers" (validate_response), "values" (evaluate_rules)
  Documents,      \* the rules documents considered: [reads, subjects]
  Compute(_, _, _)

Calculated == Totals \cup Derived
Children == Cells \cup Derived
OuterCodes == Scalars \cup Totals \cup {Lines}
Codes == OuterCodes \cup Children

ASSUME CodesAssumption ==
  /\ Lines \notin Scalars \cup Totals
  /\ Scalars \cap Totals = {} /\ Cells \cap Derived = {}
  /\ OuterCodes \cap Children = {}
  /\ MaxRows \in Nat
  /\ Entries \subseteq {"answers", "values"}

ASSUME KeysAssumption ==
  /\ \A m \in Submitted : DOMAIN m \subseteq Codes \ {Lines}
  /\ \A m \in RowMaps : DOMAIN m \subseteq Codes

(* RULE_INVALID_ROW_REFERENCE and RULE_SELF_REFERENCE: an outer calculation *)
(* reads a child only through a sum, a child calculation may also read its  *)
(* siblings, neither reads itself.                                           *)
ASSUME DocumentsAssumption ==
  \A doc \in Documents :
    /\ doc.reads \in [Calculated -> SUBSET Codes]
    /\ doc.subjects \in [Calculated -> SUBSET (Children \cup {Lines})]
    /\ \A f \in Totals : doc.reads[f] \subseteq OuterCodes
    /\ \A f \in Calculated : f \notin doc.reads[f] \cup doc.subjects[f]

VARIABLES
  entry,      \* which entry point built the values
  document,   \* the rules document
  given,      \* what the caller handed in beside the repeater
  working,    \* working_values: code -> value
  rows,       \* the repeater's rows in the RowSet: code -> value
  done,       \* the calculations that have run
  perRow,     \* per_row_outputs
  calculated, \* calculated_values
  observed,   \* the values predicates and validations were evaluated on
  phase

vars == <<entry, document, given, working, rows, done, perRow, calculated, observed, phase>>

-----------------------------------------------------------------------------
(* Maps. *)

Empty == [c \in {} |-> Null]

(* IndexMap::get with the evaluator's default *)
Get(m, c) == IF c \in DOMAIN m THEN m[c] ELSE Null

(* IndexMap::insert *)
Put(m, c, v) == [x \in DOMAIN m \cup {c} |-> IF x = c THEN v ELSE m[x]]

(* the entries of `row` inserted over `base` *)
Over(row, base) ==
  [x \in DOMAIN row \cup DOMAIN base |-> IF x \in DOMAIN row THEN row[x] ELSE base[x]]

Without(m, S) == [x \in DOMAIN m \ S |-> m[x]]

-----------------------------------------------------------------------------
(* Building the values. *)

(* A submitted array is given by its objects, in order, and the number of   *)
(* other elements: RowSet::from_answers, from_values and                     *)
(* flatten_repeater_answer skip those wherever they stand. A row keeps every *)
(* key of its object.                                                         *)
Objects == UNION {[1..n -> RowMaps] : n \in 0..MaxRows}

(* flatten_repeater_answer: for every key of a row, the value of the last   *)
(* row that has it, and the number of elements.                              *)
Flattened(objects, others) ==
  LET having(c) == {i \in DOMAIN objects : c \in DOMAIN objects[i]}
      last(c)   == CHOOSE i \in having(c) : \A j \in having(c) : j <= i
  IN  Over([c \in {c \in Codes : having(c) # {}} |-> objects[last(c)][c]],
           Put(Empty, Lines, Len(objects) + others))

(* flatten_for_rules goes through the answers in their order: `later` are   *)
(* the keys after the repeater's, which overwrite what its rows left.        *)
FlattenedAnswers(objects, others, later) ==
  Over(Without(Flattened(objects, others), later), given)

Needs(f) == (document.reads[f] \cup document.subjects[f]) \cap Calculated

(* analyze_checked refuses a document whose calculations wait for each other. *)
Acyclic ==
  \A C \in SUBSET Calculated : C # {} => \E f \in C : Needs(f) \cap C = {}

(* The values start as handed in, whatever their keys: stale values of      *)
(* calculated fields, and child codes beside the repeater.                    *)
Init ==
  /\ entry \in Entries
  /\ document \in Documents
  /\ Acyclic
  /\ given \in Submitted
  /\ working = given
  /\ rows = << >> /\ done = {} /\ perRow = {}
  /\ calculated = Empty /\ observed = Empty
  /\ phase = "prepare"

(* Mutated: the count keeps the elements that are not rows. *)
CountEveryElement(objects, others, later) ==
  /\ phase = "prepare"
  /\ rows' = objects
  /\ working' = IF entry = "answers" THEN FlattenedAnswers(objects, others, later)
                                     ELSE Put(given, Lines, Len(objects) + others)
  /\ phase' = "calculate"
  /\ UNCHANGED <<entry, document, given, done, perRow, calculated, observed>>

(* An array: its objects become the rows, `answers` also flattens them, and  *)
(* evaluate_with_semantics overwrites the repeater's value with their number. *)
PrepareRows(objects, others, later) ==
  /\ phase = "prepare"
  /\ rows' = objects
  /\ working' = Put(IF entry = "answers" THEN FlattenedAnswers(objects, others, later)
                                         ELSE given,
                    Lines, Len(objects))
  /\ phase' = "calculate"
  /\ UNCHANGED <<entry, document, given, done, perRow, calculated, observed>>

(* No array: absent, or a value that `answers` counts as no rows and         *)
(* `values` takes for the row count itself.                                   *)
PrepareCount(count) ==
  /\ phase = "prepare"
  /\ working' \in {given, Put(given, Lines, IF entry = "answers" THEN 0 ELSE count)}
  /\ phase' = "calculate"
  /\ UNCHANGED <<entry, document, given, rows, done, perRow, calculated, observed>>

-----------------------------------------------------------------------------
(* apply_calculations *)

(* Mutated: a calculation may start before what it sums is computed. *)
ReadyForDirectReads(f) ==
  /\ phase = "calculate" /\ f \in Calculated \ done
  /\ document.reads[f] \cap Calculated \subseteq done

Ready(f) == phase = "calculate" /\ f \in Calculated \ done /\ Needs(f) \subseteq done

(* the child's value in every row, what `sum` accumulates *)
Column(rs, c) == [i \in DOMAIN rs |-> Get(rs[i], c)]

(* `count` takes the number of rows and, without rows, the repeater's value; *)
(* an aggregate reads the row set, whatever shadows the code in a row.        *)
Aggregate(c, scope, rs) ==
  IF c # Lines THEN Column(rs, c)
  ELSE IF rs # << >> THEN Len(rs) ELSE Get(scope, Lines)

(* evaluate_expression followed by normalize_calculated_value *)
Evaluate(f, scope, rs) ==
  Compute(f, [c \in document.reads[f] |-> Get(scope, c)],
             [c \in document.subjects[f] |-> Aggregate(c, scope, rs)])

(* An outer calculation, or a child calculation when there are no rows. *)
CalculateOnce(f) ==
  /\ Ready(f)
  /\ f \in Derived => rows = << >>
  /\ LET value == Evaluate(f, working, rows)
     IN  /\ calculated' = Put(calculated, f, value)
         /\ working' = Put(working, f, value)
  /\ done' = done \cup {f}
  /\ UNCHANGED <<entry, document, given, rows, perRow, observed, phase>>

(* Mutated: one scope serves every row, so a row's keys stay for the next. *)
CalculateInOneScope(f) ==
  /\ Ready(f)
  /\ f \in Derived /\ rows # << >>
  /\ LET template == Without(working, perRow)
         before(i) == IF i = 1 THEN template ELSE Over(rows[i - 1], template)
         results  == [i \in DOMAIN rows |-> Evaluate(f, Over(rows[i], before(i)), rows)]
     IN  /\ rows' = [i \in DOMAIN rows |-> Put(rows[i], f, results[i])]
         /\ calculated' = Put(calculated, f, results)
         /\ working' = Put(working, f, results)
  /\ perRow' = perRow \cup {f}
  /\ done' = done \cup {f}
  /\ UNCHANGED <<entry, document, given, observed, phase>>

(* A child calculation, once per row: the row over a template of the outer  *)
(* values without the arrays earlier child calculations produced; then the   *)
(* results go back into the rows and their array into the outer values.      *)
CalculatePerRow(f) ==
  /\ Ready(f)
  /\ f \in Derived /\ rows # << >>
  /\ LET template == Without(working, perRow)
         results  == [i \in DOMAIN rows |-> Evaluate(f, Over(rows[i], template), rows)]
     IN  /\ rows' = [i \in DOMAIN rows |-> Put(rows[i], f, results[i])]
         /\ calculated' = Put(calculated, f, results)
         /\ working' = Put(working, f, results)
  /\ perRow' = perRow \cup {f}
  /\ done' = done \cup {f}
  /\ UNCHANGED <<entry, document, given, observed, phase>>

(* One failing expression fails the call (SPEC R-11): nothing is returned. *)
EvaluationFails ==
  /\ phase = "calculate"
  /\ \E f \in Calculated : Ready(f)
  /\ phase' = "failed"
  /\ UNCHANGED <<entry, document, given, working, rows, done, perRow, calculated, observed>>

(* apply_field_predicates and collect_validation_errors read the final values. *)
ApplyPredicates ==
  /\ phase = "calculate"
  /\ done = Calculated
  /\ phase' = "done"
  /\ observed' = working
  /\ UNCHANGED <<entry, document, given, working, rows, done, perRow, calculated>>

Next ==
  \/ \E objects \in Objects, others \in 0..MaxRows, later \in SUBSET DOMAIN given :
       PrepareRows(objects, others, later)
  \/ \E count \in 0..MaxRows : PrepareCount(count)
  \/ \E f \in Calculated : CalculateOnce(f) \/ CalculatePerRow(f)
  \/ EvaluationFails
  \/ ApplyPredicates

Spec == Init /\ [][Next]_vars

-----------------------------------------------------------------------------
TypeOK ==
  /\ entry \in Entries
  /\ document \in Documents
  /\ given \in Submitted
  /\ DOMAIN working \subseteq Codes
  /\ rows = [i \in 1..Len(rows) |-> rows[i]] /\ Len(rows) \in 0..MaxRows
  /\ \A i \in DOMAIN rows : DOMAIN rows[i] \subseteq Codes
  /\ done \subseteq Calculated
  /\ perRow \subseteq done \cap Derived
  /\ DOMAIN calculated = done
  /\ phase \in {"prepare", "calculate", "done", "failed"}

(* The values a child calculation sees in row i once everything is in place. *)
RowScopeOf(i) == Over(rows[i], Without(working, perRow))

(* SPEC R-2: one ordered pass is a fixpoint of the rules. Evaluating any      *)
(* calculation again on the values as they are now, in its row where it ran  *)
(* per row, gives what is stored: nothing it read has changed since.          *)
CalculatedIsFixpoint ==
  /\ \A f \in done \ perRow : calculated[f] = Evaluate(f, working, rows)
  /\ \A f \in perRow : \A i \in DOMAIN rows :
       calculated[f][i] = Evaluate(f, RowScopeOf(i), rows)

(* SPEC R-7: the three places a calculated value is stored agree. *)
StoresAgree ==
  /\ \A f \in done : f \in DOMAIN working /\ working[f] = calculated[f]
  /\ \A f \in perRow :
       /\ DOMAIN calculated[f] = DOMAIN rows
       /\ \A i \in DOMAIN rows : f \in DOMAIN rows[i] /\ rows[i][f] = calculated[f][i]

(* R-7a: `ref` to the repeater and `count` of it give one number, whichever  *)
(* entry point built the values and whatever elements were dropped.           *)
CountAgrees ==
  phase # "prepare" /\ rows # << >> => Get(working, Lines) = Len(rows)

(* Predicates and cross-field validations see every calculated value. *)
PredicatesSeeCalculated ==
  phase = "done" => /\ DOMAIN calculated = Calculated
                    /\ \A f \in Calculated : Get(observed, f) = calculated[f]

(* The inductive invariant: what has run had its inputs in place, and with   *)
(* rows every calculated child of the repeater has run once per row.          *)
EvaluationInvariant ==
  /\ TypeOK
  /\ phase = "prepare" => done = {} /\ rows = << >>
  /\ perRow = IF rows = << >> THEN {} ELSE done \cap Derived
  /\ \A f \in done : Needs(f) \subseteq done
  /\ phase = "done" => done = Calculated /\ observed = working
  /\ entry = "values" => \A c \in Scalars \cup Cells : Get(working, c) = Get(given, c)
  /\ CalculatedIsFixpoint
  /\ StoresAgree
  /\ CountAgrees

(* SPEC R-7, "the row's child codes resolve to that row": a per-row value    *)
(* is computed from its own row and outer fields, never from another row.    *)
RowScope ==
  \A f \in perRow : \A i \in DOMAIN rows :
    calculated[f][i] =
      Compute(f, [c \in document.reads[f] |->
                    IF c \in Children \cup DOMAIN rows[i] THEN Get(rows[i], c)
                                                        ELSE Get(working, c)],
                 [c \in document.subjects[f] |-> Aggregate(c, working, rows)])

(* R-7 for the entry point that hands the rows over as values: what a per-row *)
(* value reads is in its own row, or what the caller handed in beside the     *)
(* repeater under that code, or calculated outside it; another row's value    *)
(* it never reads, in whichever order the calculations run.                    *)
RowScopeOfValues ==
  entry = "values" =>
    \A f \in perRow : \A i \in DOMAIN rows :
      LET own     == DOMAIN rows[i]
          handed  == (Scalars \cup Cells) \ own
          read(c) == IF c \in own THEN rows[i][c]
                     ELSE IF c \in handed THEN Get(given, c) ELSE Get(working, c)
      IN  /\ calculated[f][i] =
               Compute(f, [c \in document.reads[f] |-> read(c)],
                          [c \in document.subjects[f] |-> Aggregate(c, working, rows)])
          /\ document.reads[f] \cap Derived \subseteq own
=============================================================================
