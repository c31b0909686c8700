--------------------------- MODULE MCRuleAnalysis ---------------------------
(***************************************************************************)
(* Two suites: every form of up to three fields with hardly any rules, and *)
(* one form with two repeaters under bounded expression trees.             *)
(***************************************************************************)
EXTENDS FormRules

-----------------------------------------------------------------------------
Field(id, code, type, readOnly, items) ==
  [id |-> id, code |-> code, type |-> type, readOnly |-> readOnly,
   items |-> items, malformed |-> {}]

JsonNode(ref, lit, op, args) ==
  [kind |-> "object", ref |-> ref, lit |-> lit, op |-> op, args |-> args]
Ref(code) == JsonNode(code, FALSE, None, None)
Literal == JsonNode(None, TRUE, None, None)
Operation(op, args) == JsonNode(None, FALSE, op, args)
NoObject(kind) == [kind |-> kind, ref |-> None, lit |-> FALSE, op |-> None, args |-> None]

Document(entries) ==
  [versionsMatch |-> TRUE, fieldsIsObject |-> TRUE, validationsIsArray |-> TRUE, entries |-> entries]
Rule(id, key, expression) == [id |-> id, code |-> None, keys |-> [k \in {key} |-> expression]]
Validation(code, key, expression) ==
  [id |-> None, code |-> code, keys |-> [k \in {key} |-> expression]]

-----------------------------------------------------------------------------
(* Suite 1: the ordered forests of three fields; ids and codes may repeat.  *)
Types == {"group", "repeater", "text"}
Leaves == {NoItems, << >>}
Labels == {<<"a", "a", "a">>, <<"a", "a", "b">>, <<"a", "b", "a">>, <<"a", "b", "b">>, <<"a", "b", "c">>}

Shapes == {"aside", "first", "last", "both", "chain"}

Forest(shape, id, code, type, leaf) ==
  LET f(i, items) == Field(id[i], code[i], type[i], FALSE, items)
  IN  CASE shape = "aside" -> <<f(1, leaf[1]), f(2, leaf[2]), f(3, leaf[3])>>
        [] shape = "first" -> <<f(1, <<f(2, leaf[2])>>), f(3, leaf[3])>>
        [] shape = "last"  -> <<f(1, leaf[1]), f(2, <<f(3, leaf[3])>>)>>
        [] shape = "both"  -> <<f(1, <<f(2, leaf[2]), f(3, leaf[3])>>)>>
        [] shape = "chain" -> <<f(1, <<f(2, <<f(3, leaf[3])>>)>>)>>

NestedForms ==
  {Forest(shape, id, code, type, leaf) :
     shape \in Shapes, id \in Labels, code \in Labels,
     type \in [1..3 -> Types], leaf \in [1..3 -> Leaves]}

Broken(key) == [Field("a", "a", "text", FALSE, NoItems) EXCEPT !.malformed = {key}]

BrokenForms ==
  {<<Field("b", "b", type, FALSE, <<Broken(key)>>)>>
     : type \in Types, key \in Names \cup Flags \cup Hints}

(* Suite 2 *)
TwoRepeaters ==
  <<Field("L", "L", "repeater", FALSE,
          <<Field("q", "q", "integer", FALSE, NoItems), Field("t", "t", "number", TRUE, NoItems)>>),
    Field("o", "o", "number", FALSE, NoItems),
    Field("s", "s", "number", TRUE, NoItems),
    Field("M", "M", "repeater", FALSE, <<Field("m", "m", "number", FALSE, NoItems)>>)>>

(* JSON may carry a `ref` beside operands, which only the collectors see.    *)
Decorated == JsonNode("o", FALSE, "not", <<Ref("q")>>)

Simple == {Ref(c) : c \in {"q", "o", "L", "m", "s"}}
          \cup {Ref("unknown"), Ref(Blank), Literal, Decorated, NoObject("null"), NoObject("text")}

Tuples(S) == {<< >>} \cup {<<x>> : x \in S} \cup {<<x, y>> : x, y \in S}

Flat == Simple
        \cup {Operation(op, args) : op \in {"eq", "add", "not", "and", "count", "sum"},
                                    args \in {None} \cup Tuples(Simple)}
        \cup {Operation("min", <<Literal>>), Operation(None, <<Literal>>),
              JsonNode(None, TRUE, "not", <<Ref("o")>>), JsonNode("q", TRUE, "sum", <<Ref("q")>>),
              Operation("eq", <<Literal, Literal, Ref("q")>>)}

Inner == {Operation(op, args) : op \in {"not", "and", "count", "sum"},
                                args \in Tuples({Ref("q"), Ref("o"), Ref("L"), Literal})}

Deep == {Operation("not", <<x>>) : x \in Inner}
        \cup {Operation(op, <<x, y>>) : op \in {"eq", "and"}, x \in Inner,
                                        y \in {Ref("q"), Decorated, Operation("count", <<Ref("M")>>)}}
        \cup {Operation(op, <<y, x>>) : op \in {"add", "and"}, x \in Inner,
                                        y \in {Ref("o"), Decorated}}

Place(where, e) ==
  CASE where = "predicate"  -> <<Rule("o", "visibleWhen", e)>>
    [] where = "total"      -> <<Rule("s", "calculate", e)>>
    [] where = "cell"       -> <<Rule("t", "calculate", e)>>
    [] where = "validation" -> <<Validation("v", "assert", e)>>

Misplaced ==
  {<<Rule("m", "calculate", Ref("m"))>>, <<Rule("none", "visibleWhen", Literal)>>,
   <<Rule("o", "hiddenWhen", Literal)>>, <<Validation("v", "when", Literal)>>,
   <<Validation("v", "asserts", Literal)>>, <<Validation(None, "assert", Literal)>>,
   <<Validation("v", "assert", Literal), Validation("v", "assert", Literal)>>,
   <<Rule("t", "calculate", Ref("q")), Validation("v", "assert", Ref("q"))>>}

(* the expressions of the documents below, with all they hold *)
Trees ==
  Flat \cup Deep \cup Inner \cup {Operation("count", <<Ref("M")>>), Ref("M"), Ref("c")}
SmallExpressions == Trees  \* TLC evaluates a constant's value at each use, Trees once

Entries ==
  {Place(where, e) : where \in {"predicate", "total", "cell", "validation"}, e \in Flat \cup Deep}
  \cup Misplaced

Unmatched(document) ==
  {[document EXCEPT !.versionsMatch = versions, !.fieldsIsObject = fields, !.validationsIsArray = validations]
     : versions, fields, validations \in BOOLEAN}

SmallForms == NestedForms \cup BrokenForms \cup {TwoRepeaters}

SmallDocuments(f) ==
  IF f = TwoRepeaters
  THEN {Document(entries) : entries \in Entries}
       \cup Unmatched(Document(<<Rule("o", "visibleWhen", Literal)>>))
  ELSE {Document(<<Rule("a", "visibleWhen", Ref("c"))>>)}
=============================================================================
