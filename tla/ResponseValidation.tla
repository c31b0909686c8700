-------------------------- MODULE ResponseValidation --------------------------
(***************************************************************************)
(* validate.rs and validate/: one colander_validate_response call, from the  *)
(* submitted answers to the error list and the normalized answers, and a     *)
(* client that saves a draft, checks its pages, submits, and submits what it *)
(* got back once more.                                                       *)
(*                                                                         *)
(* An answer is told apart only by what the checks tell apart: no key, null, *)
(* an empty text or list, `{}`, another object, two valid values, one of the *)
(* right type outside the constraints, and a value of the wrong type; and by *)
(* what normalization makes of it, where it is not written as it was read:   *)
(*   "float"     a double that is a whole number, `7.0`; as a number, "one"   *)
(*   "exact"     an integer that no double holds                              *)
(*   "rough"     a double whose digits are another integer's                  *)
(*   "infinite"  a double that is not finite, `1e400`                         *)
(*   "variant"   a date, time or date-time not in its canonical spelling      *)
(* The same tokens name computed values; "null" is also Val::Null. The form   *)
(* has one repeater.                                                          *)
(***************************************************************************)
EXTENDS Integers, Sequences, FiniteSets, SequencesExt

CONSTANTS
  Fields,      \* top-level field codes that are answered, in document order
  Repeater,    \* the one that is a repeater
  Children,    \* its children, in document order
  Pages,       \* the UI layout: page id -> the fields it names
  Suites,      \* forms with their rules, each with the submissions considered
  Script,      \* the client's calls, in order
  MaxErrors,   \* MAX_ERRORS
  MaxBytes     \* MAX_ERROR_BYTES

VARIABLES
  form,        \* the form, UI and rules documents
  submission,  \* answersJson: scalars, the repeater's answer, an unknown key
  results,     \* results[k]: what the k-th call of Script returned
  accepted     \* <<what a Complete call accepted>>, once it is sent back

vars == <<form, submission, results, accepted>>

NoAnswers == [fields |-> [c \in {} |-> "null"], rows |-> <<>>]
Pending == [status |-> "pending", errors |-> <<>>, normalized |-> NoAnswers]
Failed  == [status |-> "failed", errors |-> <<>>, normalized |-> NoAnswers]

Codes == {Fields[k] : k \in DOMAIN Fields}
Cells == {Children[k] : k \in DOMAIN Children}
Calculated == DOMAIN form.calculate
Respelled == {"float", "exact", "rough", "infinite", "variant"}
Usable  == {"one", "two"} \cup Respelled
Answers == {"absent", "null", "blank", "hollow", "object", "over", "wrong"} \cup Usable
Values  == Answers \ {"absent", "hollow", "object"}

-----------------------------------------------------------------------------
(* What the model is used for. *)

(* Lists of codes, pages of fields (validate_page is always Complete), and    *)
(* room for the summary. "answers" and "rules" are no codes: as paths they    *)
(* stand for the unknown keys and for the cross-field rules.                   *)
ASSUME ClientAssumption ==
  /\ Fields \in Seq(Codes) /\ Children \in Seq(Cells)
  /\ "all" \notin DOMAIN Pages
  /\ {"answers", "rules"} \cap (Codes \cup {Repeater} \cup UNION {Pages[p] : p \in DOMAIN Pages}) = {}
  /\ \A k \in DOMAIN Script : \/ Script[k].mode = "Complete"
                             \/ Script[k] = [mode |-> "Draft", page |-> "all"]
  /\ MaxErrors \in Nat \ {0}

(* Calculations make values of values of answered fields, or fail; those of  *)
(* fields that hold no numbers make no doubles.                               *)
IsForm(f) ==
  LET answered == ((Codes \ {Repeater}) \cup Cells) \ DOMAIN f.calculate
  IN  /\ Repeater \notin DOMAIN f.calculate
      /\ f.lead \in answered
      /\ \A c \in DOMAIN f.calculate :
           /\ f.calculate[c].of \in answered
           /\ f.calculate[c].apply \in [Values -> Values \cup {"failed"}]
           /\ \/ f.type[c] \in {"number", "integer"}
              \/ \A v \in Values : f.calculate[c].apply[v] \notin {"float", "rough", "infinite"}

IsSubmission(s) ==
  /\ \A c \in Codes \ {Repeater} : s.fields[c] \in Answers
  /\ s.rows.elements \in Seq(ToSet(s.rows.elements))
  /\ s.rows.kind # "array" => s.rows.elements = <<>>
  /\ \A j \in DOMAIN s.rows.elements : \A c \in Cells : s.rows.elements[j].cells[c] \in Answers

ASSUME SuitesAssumption ==
  \A suite \in Suites : /\ \A f \in suite.forms : IsForm(f)
                        /\ \A s \in suite.submissions : IsSubmission(s)

-----------------------------------------------------------------------------
(* The hand-off to the rules. *)

IsEmptyElement(v) == v \in {"absent", "null", "blank", "hollow"}
IsRow(element) == element.kind = "row"
(* The positions of the elements that are objects, in order *)
RowPositions(answer) ==
  FlattenSeq([k \in DOMAIN answer.elements |-> IF IsRow(answer.elements[k]) THEN <<k>> ELSE <<>>])
Objects(answer) == LET at == RowPositions(answer) IN [k \in DOMAIN at |-> answer.elements[at[k]]]

(* Val::from_json_element; objects become a missing rule value *)
RuleValue(v) == IF v \in {"absent", "null", "hollow", "object"} THEN "null" ELSE v

(* flatten_for_rules: of a child, the last row that has the key *)
Flattened(s, code) ==
  IF code \in Cells
  THEN LET rows == Objects(s.rows)
           held == {k \in DOMAIN rows : rows[k].cells[code] # "absent"}
       IN  IF held = {} THEN "null"
           ELSE RuleValue(rows[CHOOSE k \in held : \A j \in held : j <= k].cells[code])
  ELSE RuleValue(s.fields[code])

(* A calculation in a row reads the row's own value, or what the flat values *)
(* hold where the row has none.                                               *)
ReadInRow(s, row, code) ==
  IF code \in Cells /\ row.cells[code] # "absent" THEN RuleValue(row.cells[code])
                                                  ELSE Flattened(s, code)

(* calculated_values[code]: a value, or for a child one per row object *)
ValueOf(s, code) == form.calculate[code].apply[Flattened(s, form.calculate[code].of)]
ValuesOf(s, code) ==
  LET rows == Objects(s.rows)
  IN  [k \in DOMAIN rows |-> form.calculate[code].apply[ReadInRow(s, rows[k], form.calculate[code].of)]]

EvaluationFails(s) ==
  \E code \in Calculated :
    \/ ValueOf(s, code) = "failed"
    \/ code \in Cells /\ "failed" \in {ValuesOf(s, code)[k] : k \in DOMAIN ValuesOf(s, code)}

(* A predicate over one answer overwrites what the documents seed. *)
Flag(s, predicate, seed) ==
  LET filled == Flattened(s, form.lead) \notin {"null", "blank", "infinite"}
  IN  CASE predicate = "unset"  -> seed
        [] predicate = "never"  -> FALSE
        [] predicate = "always" -> TRUE
        [] predicate = "filled" -> filled
        [] predicate = "empty"  -> ~filled

Visible(s, code)  == Flag(s, form.visibleWhen[code], ~form.hidden[code])
Enabled(s, code)  == Flag(s, form.enabledWhen[code], ~form.readOnly[code])
Required(s, code) == Flag(s, form.requiredWhen[code], form.required[code])

-----------------------------------------------------------------------------
(* What is kept of a value, and how it is written. *)

(* try_convert_value refuses an answer. *)
WrongType(code, v) ==
  \/ v \in {"wrong", "object"}
  \/ v \in {"float", "rough", "infinite"} /\ form.type[code] # "number"
  \/ v = "exact" /\ form.type[code] \notin {"number", "integer"}
  \/ v = "variant" /\ form.type[code] \notin {"date", "text"}

(* A number field holds doubles, a date field canonical dates. *)
Converted(code, v) ==
  IF (form.type[code] = "number" /\ v = "exact") \/ (form.type[code] = "date" /\ v = "variant")
  THEN "one" ELSE v

(* A whole double is written without a point, one that is not finite as null. *)
Spelled(v) == CASE v \in {"float", "rough"} -> "one" [] v = "infinite" -> "null" [] OTHER -> v

(* What the normalized answers say of a value that is kept *)
AsKept(code, v) == Spelled(IF code \in Calculated THEN v ELSE Converted(code, v))

(* values_equal: a number is the same with a point and without one. *)
Same(code, v, value) ==
  v = value \/ ({v, value} = {"one", "float"} /\ form.type[code] \in {"number", "integer"})

-----------------------------------------------------------------------------
(* One field or cell: its error codes and whether a value is kept. *)

Error(code, path) == [code |-> code, path |-> path]
Refused(code) == [codes |-> <<code>>, keeps |-> FALSE]

(* Mutated: an autosave does not look at constraints. *)
ScalarFieldLenientDraft(s, code, v, mode) ==
  LET open == Visible(s, code) /\ Enabled(s, code) /\ ~form.readOnly[code]
  IN  CASE open /\ WrongType(code, v) -> Refused("INVALID_TYPE")
        [] open /\ v = "over" /\ mode = "Complete" -> Refused("CONSTRAINT_VIOLATION")
        [] OTHER -> [codes |-> <<>>, keeps |-> open /\ v \in Usable]

(* Mutated: a read-only field that a rule enables drops its answer unsaid. *)
ScalarFieldReadOnlyIgnored(s, code, v, mode) ==
  LET open == Visible(s, code) /\ Enabled(s, code) /\ ~form.readOnly[code]
  IN  CASE ~open -> [codes |-> <<>>, keeps |-> FALSE]
        [] open /\ WrongType(code, v) -> Refused("INVALID_TYPE")
        [] open /\ v = "over" -> Refused("CONSTRAINT_VIOLATION")
        [] OTHER -> [codes |-> <<>>, keeps |-> v \in Usable]

ScalarField(s, code, v, mode) ==
  LET active == Visible(s, code) /\ Enabled(s, code)
      open   == active /\ ~form.readOnly[code]
      empty  == IsEmptyElement(v)
  IN  CASE ~active /\ ~empty ->
             Refused(IF Visible(s, code) THEN "DISABLED_FIELD_VALUE" ELSE "HIDDEN_FIELD_VALUE")
        [] active /\ ~open /\ ~empty -> Refused("READONLY_FIELD_MODIFIED")
        [] open /\ empty /\ mode = "Complete" /\ Required(s, code) -> Refused("REQUIRED_FIELD_MISSING")
        [] open /\ WrongType(code, v) -> Refused("INVALID_TYPE")
        [] open /\ v = "over" -> Refused("CONSTRAINT_VIOLATION")
        [] OTHER -> [codes |-> <<>>, keeps |-> open /\ v \in Usable]

(* calculated_value_satisfies_field. validate_constraints looks at Int values *)
(* of an integer field only, and calculations produce doubles.                *)
SatisfiesField(code, value) == value = "over" => form.type[code] = "integer"

(* is_representable, and finite: an integer field keeps doubles up to 2^53.   *)
Representable(code, value) ==
  value # "infinite" /\ (value = "rough" => form.type[code] # "integer")

(* Mutated: a calculated field refuses any answer, as a read-only field does. *)
CalculatedCodesReadOnly(s, code, v, value, mode) ==
  IF ~IsEmptyElement(v) THEN <<"READONLY_FIELD_MODIFIED">> ELSE <<>>

(* The checks a calculated field and a calculated cell share. *)
CalculatedCodes(s, code, v, value, mode) ==
  IF v \in {"hollow", "object"} THEN <<"INVALID_TYPE">>
  ELSE IF mode = "Draft" THEN <<>>
  ELSE (IF v \notin {"absent", "null"} /\ ~Same(code, v, value) THEN <<"CALCULATED_VALUE_MISMATCH">> ELSE <<>>)
       \o (IF ~Representable(code, value) THEN <<"CALCULATED_VALUE_INVALID">> ELSE <<>>)
       \o (IF Required(s, code) /\ value \in {"null", "blank"} THEN <<"REQUIRED_FIELD_MISSING">> ELSE <<>>)

(* apply_calculated_repeater_child *)
CalculatedCell(s, code, v, value, mode) ==
  [codes |-> CalculatedCodes(s, code, v, value, mode),
   keeps |-> v \notin {"hollow", "object"} /\ Representable(code, value)]

(* apply_calculated_fields also holds the value to the field's constraints. *)
CalculatedField(s, code, v, value, mode) ==
  LET cell == CalculatedCell(s, code, v, value, mode)
      bad  == cell.keeps /\ mode = "Complete" /\ value \notin {"null", "blank"}
                /\ ~SatisfiesField(code, value)
  IN  IF bad THEN [codes |-> Append(cell.codes, "CALCULATED_VALUE_INVALID"), keeps |-> FALSE]
             ELSE cell

-----------------------------------------------------------------------------
(* The repeater: [errors, rows], or no rows when it is not looked at. *)

ItemCount(count, mode) ==
  IF mode = "Draft" THEN <<>>
  ELSE (IF count < form.minItems THEN <<Error("REPEATER_MIN_ITEMS", <<Repeater>>)>> ELSE <<>>)
       \o (IF count > form.maxItems THEN <<Error("REPEATER_MAX_ITEMS", <<Repeater>>)>> ELSE <<>>)

(* The calculated value of the row at a position *)
ValueAt(s, position, code) ==
  LET values == ValuesOf(s, code) IN IF position <= Len(values) THEN values[position] ELSE "null"

(* validate_repeater_row, for the element at a position. *)
Cell(s, position, code, mode) ==
  LET v == s.rows.elements[position].cells[code]
  IN  IF code \in Calculated THEN CalculatedCell(s, code, v, ValueAt(s, position, code), mode)
                             ELSE ScalarField(s, code, v, mode)

CellValue(s, position, code) ==
  AsKept(code, IF code \in Calculated THEN ValueAt(s, position, code)
                                      ELSE s.rows.elements[position].cells[code])

RowErrors(s, position, mode) ==
  LET element == s.rows.elements[position]
      at(k)   == <<Repeater, position, Children[k]>>
      cell(k) == Cell(s, position, Children[k], mode)
  IN  IF ~IsRow(element) THEN <<Error("INVALID_TYPE", <<Repeater, position>>)>>
      ELSE (IF element.stray THEN <<Error("UNKNOWN_FIELD", <<Repeater, position>>)>> ELSE <<>>)
           \o FlattenSeq([k \in DOMAIN Children |->
                [j \in DOMAIN cell(k).codes |-> Error(cell(k).codes[j], at(k))]])

NormalizedRow(s, position, mode) ==
  [code \in {c \in Cells : Cell(s, position, c, mode).keeps} |-> CellValue(s, position, code)]

ValidateRepeater(s, mode) ==
  LET array    == s.rows.kind = "array"
      count    == Len(s.rows.elements)
      inactive == ~Visible(s, Repeater) \/ ~Enabled(s, Repeater)
  IN  CASE inactive ->
             [errors |-> IF array /\ count > 0
                         THEN <<Error(IF Visible(s, Repeater) THEN "DISABLED_FIELD_VALUE"
                                                               ELSE "HIDDEN_FIELD_VALUE", <<Repeater>>)>>
                         ELSE <<>>,
              rows |-> <<>>]
        [] ~inactive /\ ~array ->
             [errors |-> (IF s.rows.kind = "wrong" THEN <<Error("INVALID_TYPE", <<Repeater>>)>> ELSE <<>>)
                           \o ItemCount(0, mode),
              rows |-> <<>>]
        [] ~inactive /\ array ->
             [errors |-> ItemCount(count, mode)
                           \o FlattenSeq([k \in 1..count |-> RowErrors(s, k, mode)]),
              rows |-> LET at == RowPositions(s.rows)
                       IN  [k \in DOMAIN at |-> NormalizedRow(s, at[k], mode)]]

-----------------------------------------------------------------------------
(* The call. *)

(* One top-level scalar or calculated field *)
TopField(s, code, mode) ==
  IF code \in Calculated THEN CalculatedField(s, code, s.fields[code], ValueOf(s, code), mode)
                         ELSE ScalarField(s, code, s.fields[code], mode)

FieldValue(s, code) == AsKept(code, IF code \in Calculated THEN ValueOf(s, code) ELSE s.fields[code])

(* A loop over the fields that passes over all but the chosen ones *)
ErrorsOf(s, chosen, mode) ==
  FlattenSeq([k \in DOMAIN Fields |->
    LET found == IF Fields[k] \in chosen THEN TopField(s, Fields[k], mode).codes ELSE <<>>
    IN  [j \in DOMAIN found |-> Error(found[j], <<Fields[k]>>)]])

(* Mutated: calculated fields are checked on every page. *)
OnPageUnlessCalculated(code, page) == page = "all" \/ code \in Calculated \/ code \in Pages[page]

OnPage(code, page) == page = "all" \/ code \in Pages[page]

AllErrors(s, mode, page) ==
  LET unknown    == IF s.stray THEN <<Error("UNKNOWN_FIELD", <<"answers">>)>> ELSE <<>>
      onPage     == {c \in Codes : OnPage(c, page)}
  IN  unknown
      \o ErrorsOf(s, onPage \ (Calculated \cup {Repeater}), mode)
      \o (IF OnPage(Repeater, page) THEN ValidateRepeater(s, mode).errors ELSE <<>>)
      \o ErrorsOf(s, onPage \cap Calculated, mode)
      \o (IF mode = "Complete" /\ page = "all" /\ ~Flag(s, form.assert, TRUE)
          THEN <<Error("VALIDATION", <<"rules">>)>> ELSE <<>>)

Normalized(s, mode, page) ==
  LET kept == {c \in Codes \ {Repeater} : OnPage(c, page) /\ TopField(s, c, mode).keeps}
  IN  [fields |-> [c \in kept |-> FieldValue(s, c)],
       rows   |-> IF OnPage(Repeater, page) THEN ValidateRepeater(s, mode).rows ELSE <<>>]

Truncated == "VALIDATION_ERRORS_TRUNCATED"
(* An unknown key is echoed and costs more than a field's message. *)
Bytes(errors) == Len(errors) + 2 * Len(SelectSeq(errors, LAMBDA e : e.code = "UNKNOWN_FIELD"))

(* Mutated: the summary entry comes on top of the limit. *)
CapErrorsByOne(errors) ==
  IF Len(errors) > MaxErrors
  THEN Append(SubSeq(errors, 1, MaxErrors), Error(Truncated, <<>>)) ELSE errors

CapErrors(errors) ==
  LET fits(n) == n <= MaxErrors - 1 /\ (n <= 1 \/ Bytes(SubSeq(errors, 1, n)) <= MaxBytes)
      kept    == CHOOSE n \in 0..Len(errors) :
                   (\A m \in 1..n : fits(m)) /\ (n = Len(errors) \/ ~fits(n + 1))
  IN  IF kept < Len(errors)
      THEN Append(SubSeq(errors, 1, kept), Error(Truncated, <<>>)) ELSE errors

(* validate_impl. A page the layout lacks and an expression that cannot be    *)
(* evaluated fail the whole call.                                             *)
Validate(s, call) ==
  IF call.page \notin DOMAIN Pages \cup {"all"} \/ EvaluationFails(s) THEN Failed
  ELSE [status     |-> "done",
        errors     |-> CapErrors(AllErrors(s, call.mode, call.page)),
        normalized |-> Normalized(s, call.mode, call.page)]

-----------------------------------------------------------------------------
Init ==
  /\ \E suite \in Suites : form \in suite.forms /\ submission \in suite.submissions
  /\ results = [k \in DOMAIN Script |-> Pending]
  /\ accepted = <<>>

(* The calls are independent; the client makes them in the order of Script. *)
ValidateResponse(k) ==
  /\ results[k] = Pending /\ \A j \in 1..(k - 1) : results[j] # Pending
  /\ results' = [results EXCEPT ![k] = Validate(submission, Script[k])]
  /\ UNCHANGED <<form, submission, accepted>>

Returned(k) == results[k].status = "done"
Accepts(k) == Returned(k) /\ results[k].errors = <<>>
Submits(k) == Script[k] = [mode |-> "Complete", page |-> "all"]

(* What the client gets back from an accepted submission, as answers. *)
AsSubmission(normalized) ==
  [fields |-> [c \in Codes \ {Repeater} |->
                 IF c \in DOMAIN normalized.fields THEN normalized.fields[c] ELSE "absent"],
   rows   |-> [kind |-> "array",
               elements |-> [k \in DOMAIN normalized.rows |->
                 [kind |-> "row", stray |-> FALSE,
                  cells |-> [c \in Cells |-> IF c \in DOMAIN normalized.rows[k]
                                             THEN normalized.rows[k][c] ELSE "absent"]]]],
   stray  |-> FALSE]

Resubmit(k) ==
  /\ Submits(k) /\ Accepts(k) /\ accepted = <<>>
  /\ accepted' = <<[from |-> submission, normalized |-> results[k].normalized]>>
  /\ submission' = AsSubmission(results[k].normalized)
  /\ results' = [j \in DOMAIN Script |-> Pending]
  /\ UNCHANGED form

Next == \E k \in DOMAIN Script : ValidateResponse(k) \/ Resubmit(k)

Spec == Init /\ [][Next]_vars

-----------------------------------------------------------------------------
Found(k) == {results[k].errors[j] : j \in DOMAIN results[k].errors}
Whole(k) == Returned(k) /\ \A e \in Found(k) : e.code # Truncated

(* The values kept at a path, empty or one. The rows kept are the objects.   *)
KeptAt(k, path) ==
  LET kept == results[k].normalized
      row  == Cardinality({j \in 1..path[2] : IsRow(submission.rows.elements[j])})
  IN  CASE Len(path) = 1 -> {kept.fields[c] : c \in {path[1]} \cap DOMAIN kept.fields}
        [] Len(path) = 3 -> {kept.rows[row][c] : c \in {path[3]} \cap DOMAIN kept.rows[row]}

CompleteOnly ==
  {"REQUIRED_FIELD_MISSING", "REPEATER_MIN_ITEMS", "REPEATER_MAX_ITEMS",
   "CALCULATED_VALUE_MISMATCH", "CALCULATED_VALUE_INVALID", "VALIDATION"}

(* docs/validation.md, "Draft versus Complete": submitting finds every error *)
(* the autosave found, in addition only those of the table, and keeps nothing *)
(* the autosave did not keep.                                                 *)
DraftIsWeaker ==
  \A d, k \in DOMAIN Script :
    Script[d].mode = "Draft" /\ Submits(k) /\ Whole(d) /\ Whole(k) =>
      /\ Found(d) \subseteq Found(k)
      /\ \A e \in Found(k) \ Found(d) : e.code \in CompleteOnly
      /\ \A c \in DOMAIN results[k].normalized.fields :
           /\ c \in DOMAIN results[d].normalized.fields
           /\ results[d].normalized.fields[c] = results[k].normalized.fields[c]
      /\ results[d].normalized.rows = results[k].normalized.rows

(* SPEC V-12: a page check finds and keeps what the submission finds and     *)
(* keeps on the page's fields, and unknown keys; so a wizard whose accepted   *)
(* pages cover the form can fail its submission in cross-field rules only.    *)
PagesAgree ==
  \A p, k \in DOMAIN Script :
    Script[p].page \in DOMAIN Pages /\ Submits(k) /\ Whole(p) /\ Whole(k) =>
      LET page == Pages[Script[p].page]
      IN  /\ Found(p) = {e \in Found(k) : e.path[1] \in page \cup {"answers"}}
          /\ results[p].normalized.rows =
               (IF Repeater \in page THEN results[k].normalized.rows ELSE <<>>)
          /\ results[p].normalized.fields =
               [c \in page \cap DOMAIN results[k].normalized.fields |-> results[k].normalized.fields[c]]

(* An accepted submission never loses a value the client sent: it is kept at *)
(* its field, row and cell, as conversion and spelling make it. A repeater    *)
(* answer that is no array is one exception: while the repeater is hidden or  *)
(* disabled it is dropped unsaid. A number too large for a double is another: *)
(* a number field without a maximum accepts it and keeps null.                *)
NothingDropped ==
  \A k \in DOMAIN Script : Submits(k) /\ Accepts(k) =>
    LET lasts(v) == ~IsEmptyElement(v) /\ v # "infinite"
    IN  /\ submission.rows.kind = "wrong" =>
             ~(Visible(submission, Repeater) /\ Enabled(submission, Repeater))
        /\ \A c \in Codes \ {Repeater} :
             lasts(submission.fields[c]) => KeptAt(k, <<c>>) = {AsKept(c, submission.fields[c])}
        /\ \A j \in DOMAIN submission.rows.elements : \A c \in Cells :
             lasts(submission.rows.elements[j].cells[c]) =>
               KeptAt(k, <<Repeater, j, c>>) = {AsKept(c, submission.rows.elements[j].cells[c])}

(* Every key of the submission has a value: no null, "" or {}, and no number *)
(* that is kept as null.                                                      *)
WithoutEmpties(s) ==
  LET blank == {"null", "blank", "hollow", "infinite"}
  IN  /\ \A c \in Codes \ {Repeater} : s.fields[c] \notin blank
      /\ \A j \in DOMAIN s.rows.elements :
           IsRow(s.rows.elements[j]) => \A c \in Cells : s.rows.elements[j].cells[c] \notin blank

(* What the rules read is written as the client wrote it, and no calculated  *)
(* value is written as another number. Without this, the rules may compute   *)
(* something else of what comes back: `7.0` is normalized to `7`, an integer, *)
(* which div divides without a remainder (rules/expression.rs:98-117).        *)
ReadAsWritten(s) ==
  LET read == {form.lead} \cup {form.calculate[c].of : c \in Calculated}
  IN  /\ \A c \in read \ Cells : AsKept(c, s.fields[c]) = s.fields[c]
      /\ \A j \in DOMAIN s.rows.elements : IsRow(s.rows.elements[j]) =>
           \A c \in read \cap Cells : LET v == s.rows.elements[j].cells[c] IN AsKept(c, v) = v
      /\ \A c \in Calculated : /\ c \in Codes => ValueOf(s, c) # "rough"
                               /\ c \in Cells => \A k \in DOMAIN ValuesOf(s, c) : ValuesOf(s, c)[k] # "rough"

(* What the server normalized is accepted again, and normalized to itself,   *)
(* of answers that normalization leaves to the rules as they were.            *)
AcceptedIsStable ==
  \A k \in DOMAIN Script : Submits(k) /\ accepted # <<>> /\ results[k] # Pending =>
    LET from == accepted[1].from
    IN  WithoutEmpties(from) /\ ReadAsWritten(from) =>
          Accepts(k) /\ results[k].normalized = accepted[1].normalized

(* SPEC V-9: at most MaxErrors entries, and a response that says nothing of  *)
(* truncation reports every error.                                            *)
CapIsHonest ==
  \A k \in DOMAIN Script : Returned(k) =>
    /\ Len(results[k].errors) <= MaxErrors
    /\ Whole(k) => results[k].errors = AllErrors(submission, Script[k].mode, Script[k].page)
=============================================================================
