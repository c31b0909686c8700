---------------------------- MODULE RuleAnalysis ----------------------------
(***************************************************************************)
(* rules/analyze.rs, shape.rs and refs.rs: the structural checks of a      *)
(* rules document, and rules/expression.rs: the walk of the evaluator over *)
(* an expression they accepted.                                             *)
(*                                                                         *)
(* An expression is a JSON node [kind, ref, lit, op, args]: `kind` tells   *)
(* an object from null and from anything else, `ref` is a field code, Blank *)
(* (present, but no non-empty string) or None, `args` a sequence or None.   *)
(* A node may carry several of these, as JSON may. Values are left out:     *)
(* whether a fold stops early and whether operands convert is open. So is   *)
(* what the indexes of a form say: FormIndex builds them, FormRules puts     *)
(* the two together.                                                         *)
(***************************************************************************)
EXTENDS Integers, Sequences, SequencesExt, IndexMaps

CONSTANTS
  None,           \* absent; no error; no repeater
  Blank,          \* a `ref` that is no non-empty string
  Expressions,    \* the expressions considered, with all they hold
  MaxNesting,     \* MAX_DEPTH of the readers of JSON and MessagePack
  Forms,          \* the forms considered
  Documents(_),   \* the rules documents considered for a form
  SemanticsOf(_), \* FormSemantics::from_form
  AnswersOf(_)    \* build_answer_index

(* Expressions are JSON values: no reader builds one that nests deeper.      *)
NestsIn[l \in 0..MaxNesting] ==
  [e \in Expressions |->
     /\ l > 0
     /\ e.args # None => \A i \in DOMAIN e.args : NestsIn[l - 1][e.args[i]]]

ASSUME ExpressionsAssumption ==
  /\ MaxNesting \in Nat \ {0}
  /\ \A e \in Expressions : /\ e.args = None \/ e.args \in Seq(Expressions)
                            /\ NestsIn[MaxNesting][e]

(* the codes of the errors about an entry of a rules document                *)
ErrorCodes ==
  {"RULE_INVALID_EXPRESSION", "RULE_UNSUPPORTED_EXPRESSION_OPERATOR", "RULE_INVALID_EXPRESSION_ARITY",
   "RULE_UNKNOWN_FIELD_REF", "RULE_INVALID_ROW_REFERENCE", "RULE_AGGREGATE_NOT_REPEATER",
   "RULE_CALCULATE_NOT_READONLY", "RULE_SELF_REFERENCE", "RULE_UNKNOWN_FIELD", "RULE_UNKNOWN_RULE_KEY",
   "RULE_UNKNOWN_VALIDATION_KEY", "RULE_INVALID_VALIDATION", "RULE_MISSING_ASSERT",
   "RULE_DUPLICATE_VALIDATION_CODE"}

ASSUME NoneAssumption == None \notin ErrorCodes

(* The entries of a rules document are a list; their keys hold expressions.  *)
ASSUME DocumentsAssumption ==
  \A f \in Forms : \A d \in Documents(f) :
    /\ DOMAIN d.entries = 1..Len(d.entries) /\ Len(d.entries) \in Nat
    /\ \A i \in DOMAIN d.entries : \A key \in DOMAIN d.entries[i].keys :
         d.entries[i].keys[key] \in Expressions

(* shape.rs OPERATORS, one for all that are checked and evaluated alike.    *)
Comparisons == {"eq"}
Arithmetic == {"add"}
Unary == {"not"}
Folds == {"and"}
Aggregates == {"count", "sum"}
Operators == Comparisons \cup Arithmetic \cup Unary \cup Folds \cup Aggregates

Arity(op) ==
  CASE op \in Comparisons \cup Arithmetic \cup {"sum"} -> 2
    [] op \in Unary \cup {"count"} -> 1

VARIABLES
  form,         \* the form schema
  rules,        \* the rules document
  semantics,    \* FormSemantics
  answers,      \* ResponseSemantics: the answer index
  position,     \* the entry of the rules document being validated
  stage,
  error,        \* the RULE_ or FIELD_ code of a rejection
  site,         \* the expression being evaluated: its key, path and home
  stack,        \* the activations of evaluate_expression
  reads,        \* codes whose value was read
  aggregated    \* what count and sum were pointed at

analysisVars == <<form, rules, semantics, answers, position, stage, error, site, stack, reads, aggregated>>

given == <<form, rules>>

evaluation == <<site, stack, reads, aggregated>>

-----------------------------------------------------------------------------
(* shape.rs *)

IsObject(node) == node.kind = "object"
IsReference(node) == IsObject(node) /\ node.ref \notin {None, Blank}

(* the first of a sequence of verdicts that is an error *)
FirstError(verdicts) ==
  LET failed == {i \in DOMAIN verdicts : verdicts[i] # None}
  IN  IF failed = {} THEN None ELSE verdicts[CHOOSE i \in failed : \A j \in failed : i <= j]

(* `below` is the function of expressions one level down.                   *)

ArgumentError(below, arg) ==
  IF arg.kind = "null" THEN "RULE_INVALID_EXPRESSION" ELSE below[arg]

(* Mutated: operands are not looked into. *)
ShapeErrorOfRoot(below, node) ==
  IF node.kind = "null" THEN None
  ELSE IF ~IsObject(node) THEN "RULE_INVALID_EXPRESSION"
  ELSE IF node.ref # None THEN IF node.ref = Blank THEN "RULE_INVALID_EXPRESSION" ELSE None
  ELSE IF node.lit THEN IF node.op = None /\ node.args = None
                   THEN None ELSE "RULE_INVALID_EXPRESSION"
  ELSE IF node.op = None THEN "RULE_INVALID_EXPRESSION"
  ELSE IF node.op \notin Operators THEN "RULE_UNSUPPORTED_EXPRESSION_OPERATOR"
  ELSE IF node.args = None THEN "RULE_INVALID_EXPRESSION"
  ELSE IF node.op \notin Folds /\ Len(node.args) # Arity(node.op) THEN "RULE_INVALID_EXPRESSION_ARITY"
  ELSE None

(* validate_expression_shape *)
ShapeError(below, node) ==
  IF node.kind = "null" THEN None
  ELSE IF ~IsObject(node) THEN "RULE_INVALID_EXPRESSION"
  ELSE IF node.ref # None THEN IF node.ref = Blank THEN "RULE_INVALID_EXPRESSION" ELSE None
  ELSE IF node.lit THEN IF node.op = None /\ node.args = None
                   THEN None ELSE "RULE_INVALID_EXPRESSION"
  ELSE IF node.op = None THEN "RULE_INVALID_EXPRESSION"
  ELSE IF node.op \notin Operators THEN "RULE_UNSUPPORTED_EXPRESSION_OPERATOR"
  ELSE IF node.args = None THEN "RULE_INVALID_EXPRESSION"
  ELSE IF node.op \notin Folds /\ Len(node.args) # Arity(node.op) THEN "RULE_INVALID_EXPRESSION_ARITY"
  ELSE FirstError([i \in DOMAIN node.args |-> ArgumentError(below, node.args[i])])

(* validate_aggregate_arguments: of the root of an expression only *)
AggregateArgumentError(node) ==
  IF /\ IsObject(node) /\ node.op \in Aggregates /\ node.args # None
     /\ \E i \in DOMAIN node.args : ~IsReference(node.args[i])
  THEN "RULE_INVALID_EXPRESSION"
  ELSE None

(* what it says of expressions, level by level *)
ShapeErrors[l \in 0..MaxNesting] ==
  [node \in Expressions |-> IF l = 0 THEN None ELSE ShapeError(ShapeErrors[l - 1], node)]

-----------------------------------------------------------------------------
(* refs.rs: the collectors carry the set of codes seen so far. A node whose *)
(* `ref` was seen before is not passed over: its operands, if it has any,   *)
(* are then collected as well.                                               *)

Operands(node) == IF node.args = None THEN << >> ELSE node.args
Codes == {node.ref : node \in Expressions}

(* A loop: what each step in turn makes of the value before it.              *)
Through(steps, start) ==
  LET after[k \in 0..Len(steps)] == IF k = 0 THEN start ELSE steps[k][after[k - 1]]
  IN  after[Len(steps)]

OfOperands(below, node, seen) ==
  Through([i \in DOMAIN Operands(node) |-> below[Operands(node)[i]]], seen)

(* collect_references_recursive *)
Collect(below, node, seen) ==
  IF ~IsObject(node) THEN seen
  ELSE IF IsReference(node) /\ node.ref \notin seen THEN seen \cup {node.ref}
  ELSE OfOperands(below, node, seen)

Collected[l \in 0..MaxNesting] ==
  [node \in Expressions |-> [seen \in SUBSET Codes |->
     IF l = 0 THEN seen ELSE Collect(Collected[l - 1], node, seen)]]

References(node) == Collected[MaxNesting][node][{}]

(* collect_direct_references_recursive: not below an aggregate *)
CollectDirect(below, node, seen) ==
  IF ~IsObject(node) THEN seen
  ELSE IF IsReference(node) /\ node.ref \notin seen THEN seen \cup {node.ref}
  ELSE IF node.op \in Aggregates THEN seen
  ELSE OfOperands(below, node, seen)

CollectedDirect[l \in 0..MaxNesting] ==
  [node \in Expressions |-> [seen \in SUBSET Codes |->
     IF l = 0 THEN seen ELSE CollectDirect(CollectedDirect[l - 1], node, seen)]]

DirectReferences(node) == CollectedDirect[MaxNesting][node][{}]

(* collect_aggregate_repeaters_recursive: the first argument only *)
CollectTargets(below, node, seen) ==
  IF ~IsObject(node) THEN seen
  ELSE IF node.op \in Aggregates THEN
         IF Operands(node) # << >> /\ IsReference(Head(node.args))
         THEN seen \cup {Head(node.args).ref} ELSE seen
  ELSE OfOperands(below, node, seen)

CollectedTargets[l \in 0..MaxNesting] ==
  [node \in Expressions |-> [seen \in SUBSET Codes |->
     IF l = 0 THEN seen ELSE CollectTargets(CollectedTargets[l - 1], node, seen)]]

ReferenceError(node) ==
  IF References(node) \subseteq KeysOf(semantics.byCode) THEN None ELSE "RULE_UNKNOWN_FIELD_REF"

(* Mutated: any row scope will do. *)
RowScopeErrorOfNoHome(node, home) ==
  IF home = None /\ DirectReferences(node) \cap KeysOf(semantics.topology.repeaterOf) # {}
  THEN "RULE_INVALID_ROW_REFERENCE" ELSE None

(* validate_row_scope: a child code is read in the rows of its own repeater *)
RowScopeError(node, home) ==
  LET repeaterOf == semantics.topology.repeaterOf
  IN  IF \A c \in DirectReferences(node) \cap KeysOf(repeaterOf) : Lookup(repeaterOf, c) = home
      THEN None ELSE "RULE_INVALID_ROW_REFERENCE"

(* validate_aggregate_targets *)
TargetError(node) ==
  IF CollectedTargets[MaxNesting][node][{}] \cap KeysOf(semantics.topology.repeaterOf) = {}
  THEN None ELSE "RULE_AGGREGATE_NOT_REPEATER"

(* the five checks of one expression, in their order *)
ExpressionError(node, home) ==
  IF node.kind = "null"
  THEN None
  ELSE FirstError(<<ShapeErrors[MaxNesting][node], AggregateArgumentError(node), ReferenceError(node),
                    RowScopeError(node, home), TargetError(node)>>)

-----------------------------------------------------------------------------
(* analyze.rs. An entry of the rules document is [id, keys] for a field and *)
(* [code, keys] for a validation; `keys` maps its keys to expressions.       *)

FieldKeys == <<"visibleWhen", "enabledWhen", "requiredWhen", "calculate">>
ValidationKeys == <<"when", "assert">>

Null == [kind |-> "null", ref |-> None, lit |-> FALSE, op |-> None, args |-> None]

ExpressionOf(entry, key) == IF key \in DOMAIN entry.keys THEN entry.keys[key] ELSE Null

(* a calculation runs in the rows of the repeater its field lies in *)
HomeOf(id, key) ==
  IF key = "calculate" /\ id \in KeysOf(semantics.topology.parentOf)
  THEN Lookup(semantics.topology.parentOf, id) ELSE None

CalculationError(entry, info) ==
  LET calculate == ExpressionOf(entry, "calculate")
  IN  IF calculate.kind = "null" THEN None
      ELSE IF ~info.readOnly THEN "RULE_CALCULATE_NOT_READONLY"
      ELSE IF info.code \in References(calculate) THEN "RULE_SELF_REFERENCE"
      ELSE None

(* one iteration of `validate_field_rules` *)
FieldEntryError(entry) ==
  IF entry.id \notin KeysOf(semantics.byId)
  THEN "RULE_UNKNOWN_FIELD"
  ELSE FirstError(
         <<IF DOMAIN entry.keys \subseteq ToSet(FieldKeys) THEN None ELSE "RULE_UNKNOWN_RULE_KEY">>
         \o [i \in DOMAIN FieldKeys |->
               ExpressionError(ExpressionOf(entry, FieldKeys[i]), HomeOf(entry.id, FieldKeys[i]))]
         \o <<CalculationError(entry, Lookup(semantics.byId, entry.id))>>)

(* one iteration of `validate_validation_entries` *)
ValidationEntryError(entry, earlier) ==
  FirstError(
    <<IF DOMAIN entry.keys \subseteq ToSet(ValidationKeys) THEN None ELSE "RULE_UNKNOWN_VALIDATION_KEY",
      IF entry.code = None THEN "RULE_INVALID_VALIDATION" ELSE None,
      IF ExpressionOf(entry, "assert").kind = "null" THEN "RULE_MISSING_ASSERT" ELSE None,
      IF entry.code \in earlier THEN "RULE_DUPLICATE_VALIDATION_CODE" ELSE None>>
    \o [i \in DOMAIN ValidationKeys |->
          ExpressionError(ExpressionOf(entry, ValidationKeys[i]), None)])

(* analyze_with_semantics: the ids of the fields a calculation reads *)
Dependencies(node) ==
  {Lookup(semantics.byCode, c).id : c \in References(node) \cap KeysOf(semantics.byCode)}

-----------------------------------------------------------------------------
AnalysisInit ==
  /\ form \in Forms
  /\ rules \in Documents(form)
  /\ semantics = SemanticsOf(<< >>)
  /\ answers = NoEntries
  /\ position = 1
  /\ stage = "semantics"
  /\ error = None
  /\ site = None
  /\ stack = << >>
  /\ reads = {}
  /\ aggregated = {}

Reject(code) == stage' = "rejected" /\ error' = code

(* validate_impl: FormSemantics, then ResponseSemantics *)
BuildSemantics ==
  /\ stage = "semantics"
  /\ LET derived  == SemanticsOf(form)
         response == AnswersOf(form)
         failed   == FirstError(<<derived.error, response.error>>)
     IN  /\ semantics' = derived
         /\ answers' = response.byCode
         /\ IF failed # None
            THEN Reject(failed)
            ELSE stage' = "containers" /\ error' = None
  /\ UNCHANGED <<given, position, evaluation>>

(* validate_form_version_match, then the types of `fields` and `validations` *)
CheckContainers ==
  /\ stage = "containers"
  /\ IF ~rules.versionsMatch THEN Reject("RULE_SCHEMA_VERSION_MISMATCH")
     ELSE IF ~rules.fieldsIsObject THEN Reject("RULE_FIELDS_NOT_OBJECT")
     ELSE IF ~rules.validationsIsArray THEN Reject("RULE_VALIDATIONS_NOT_ARRAY")
     ELSE stage' = "entries" /\ UNCHANGED error
  /\ UNCHANGED <<given, semantics, answers, position, evaluation>>

CheckEntry ==
  /\ stage = "entries"
  /\ position \in DOMAIN rules.entries
  /\ LET entry   == rules.entries[position]
         earlier == {rules.entries[i].code : i \in 1..(position - 1)}
         failed  == IF entry.id # None
                    THEN FieldEntryError(entry)
                    ELSE ValidationEntryError(entry, earlier)
     IN  IF failed # None
         THEN Reject(failed) /\ UNCHANGED position
         ELSE position' = position + 1 /\ UNCHANGED <<stage, error>>
  /\ UNCHANGED <<given, semantics, answers, evaluation>>

(* The document passes; what the sort makes of the dependencies is          *)
(* DependencyOrder. Which expression is evaluated, and in which row, is      *)
(* RuleEvaluation: here it is any of them.                                   *)
Evaluate ==
  /\ stage = "entries"
  /\ position \notin DOMAIN rules.entries
  /\ \E i \in DOMAIN rules.entries :
       LET entry == rules.entries[i]
       IN  \E key \in DOMAIN entry.keys :
             /\ entry.keys[key].kind # "null"
             /\ site' = [id |-> entry.id, key |-> key, home |-> HomeOf(entry.id, key),
                         expression |-> entry.keys[key]]
             /\ stack' = <<[node |-> entry.keys[key], next |-> 1]>>
  /\ stage' = "evaluating"
  /\ UNCHANGED <<given, semantics, answers, position, error, reads, aggregated>>

-----------------------------------------------------------------------------
(* expression.rs. `next` counts the operands an activation has evaluated.   *)

Top == Last(stack)
Node == Top.node

(* what is neither a reference nor a literal is run as an operator *)
IsOperation == IsObject(Node) /\ ~IsReference(Node) /\ ~Node.lit

(* the operand an operator asks for next, whether or not it is there *)
Wants ==
  \/ Node.op \in Comparisons \cup Arithmetic \cup Unary /\ Top.next <= Arity(Node.op)
  \/ Node.op \in Folds /\ Top.next <= Len(Node.args)

Return ==
  /\ stack' = Front(stack)
  /\ stage' = IF Len(stack) = 1 THEN "evaluated" ELSE stage

static == <<given, semantics, answers, position, error, site>>

ReadReference ==
  /\ stage = "evaluating"
  /\ IsReference(Node)
  /\ reads' = reads \cup {Node.ref}
  /\ Return
  /\ UNCHANGED <<static, aggregated>>

ReadLiteral ==
  /\ stage = "evaluating"
  /\ IsObject(Node) /\ ~IsReference(Node) /\ Node.lit
  /\ Return
  /\ UNCHANGED <<static, reads, aggregated>>

EvaluateOperand ==
  /\ stage = "evaluating"
  /\ IsOperation
  /\ Node.op \in Operators /\ Node.args # None
  /\ Wants
  /\ Top.next \in DOMAIN Node.args
  /\ stack' = [stack EXCEPT ![Len(stack)].next = @ + 1]
              \o <<[node |-> Node.args[Top.next], next |-> 1]>>
  /\ UNCHANGED <<static, stage, reads, aggregated>>

(* A fold may stop after any operand; operands beyond the arity are never   *)
(* asked for.                                                                *)
FinishOperator ==
  /\ stage = "evaluating"
  /\ IsOperation
  /\ Node.op \in Operators \ Aggregates /\ Node.args # None
  /\ \/ ~Wants
     \/ Node.op \in Folds /\ Top.next > 1
  /\ Return
  /\ UNCHANGED <<static, reads, aggregated>>

(* count and sum address their arguments and evaluate none of them *)
Aggregate ==
  /\ stage = "evaluating"
  /\ IsOperation
  /\ Node.op \in Aggregates /\ Node.args # None
  /\ Len(Node.args) >= Arity(Node.op)
  /\ \A i \in 1..Arity(Node.op) : IsReference(Node.args[i])
  /\ aggregated' = aggregated \cup {Node.args[1].ref}
  /\ Return
  /\ UNCHANGED <<static, reads>>

(* compare_values and to_double fail on values that do not convert *)
FailOnValue ==
  /\ stage = "evaluating"
  /\ IsOperation
  /\ Node.op \in Comparisons \cup Arithmetic /\ Node.args # None
  /\ ~Wants
  /\ stage' = "value_error"
  /\ UNCHANGED <<static, stack, reads, aggregated>>

(* the evaluator's own errors about the shape of a node *)
FailOnShape ==
  /\ stage = "evaluating"
  /\ \/ ~IsObject(Node)
     \/ /\ IsOperation
        /\ \/ Node.op \notin Operators
           \/ Node.args = None
           \/ Wants /\ Top.next \notin DOMAIN Node.args
           \/ /\ Node.op \in Aggregates
              /\ \/ Len(Node.args) < Arity(Node.op)
                 \/ \E i \in 1..Arity(Node.op) : ~IsReference(Node.args[i])
  /\ stage' = "shape_error"
  /\ UNCHANGED <<static, stack, reads, aggregated>>

AnalysisNext ==
  \/ BuildSemantics
  \/ CheckContainers
  \/ CheckEntry
  \/ Evaluate
  \/ ReadReference
  \/ ReadLiteral
  \/ EvaluateOperand
  \/ FinishOperator
  \/ Aggregate
  \/ FailOnValue
  \/ FailOnShape

AnalysisSpec == AnalysisInit /\ [][AnalysisNext]_analysisVars

-----------------------------------------------------------------------------
(* SPEC R-9 and R-14: whatever an accepted expression reads, however its    *)
(* folds are cut short, is a known field, is read in its own row if it is a  *)
(* child, and is among the dependencies by which its calculation is ordered; *)
(* an aggregate never addresses a child.                                     *)
EveryReadWasAnalyzed ==
  LET repeaterOf == semantics.topology.repeaterOf
  IN  /\ \A c \in reads :
           /\ c \in KeysOf(semantics.byCode)
           /\ c \in KeysOf(repeaterOf) => Lookup(repeaterOf, c) = site.home
           /\ site.key = "calculate" =>
                /\ Lookup(semantics.byCode, c).id \in Dependencies(site.expression)
                /\ c # Lookup(semantics.byId, site.id).code
      /\ \A c \in aggregated :
           c \in KeysOf(semantics.byCode) \ KeysOf(repeaterOf)

(* SPEC R-12: what the analyzer accepted does not fail on its shape, except  *)
(* where validate_aggregate_arguments does not look: an aggregate below the  *)
(* root of an expression may carry an argument that is no reference.         *)
ShapeFailureOnlyInNestedAggregate ==
  stage = "shape_error" =>
    /\ Len(stack) > 1
    /\ Node.op \in Aggregates
    /\ \E i \in DOMAIN Node.args : ~IsReference(Node.args[i])

=============================================================================
