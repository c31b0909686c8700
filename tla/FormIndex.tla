----------------------------- MODULE FormIndex -----------------------------
(***************************************************************************)
(* index.rs, semantic.rs and describe.rs: what is derived from a form      *)
(* before any rule or answer is looked at.                                 *)
(*                                                                         *)
(* A field is [id, code, type, items, readOnly, malformed]: `items` is the *)
(* sequence of its nested fields or NoItems, `malformed` the keys of it    *)
(* that have the wrong type or, if required, are missing or null. A field  *)
(* is named by its path, the positions that lead to it. One outcome record *)
(* is threaded through each walk; once it has an error nothing is added.   *)
(***************************************************************************)
EXTENDS Integers, Sequences, SequencesExt, IndexMaps

CONSTANT
  NoItems,        \* `items` absent, or no array
  None            \* no error, no repeater

Info(field, path) ==
  [id |-> field.id, code |-> field.code, type |-> field.type,
   readOnly |-> field.readOnly, path |-> path]

(* require_string, field_bool, field_double and field_int *)
Malformed(field, keys) == field.malformed \cap keys # {}

Names == {"id", "code", "type"}
Flags == {"required", "readOnly"}
Hints == {"multipleOf", "decimalPlaces"}

-----------------------------------------------------------------------------
(* build_by_id: every field, groups and repeaters included, depth first.   *)

RECURSIVE IndexFields(_, _, _, _)

(* one iteration of `index_fields` *)
IndexField(acc, field, path, underRepeater) ==
  IF acc.error # None THEN acc
  ELSE IF Malformed(field, Names) THEN [acc EXCEPT !.error = "FIELD"]
  ELSE IF underRepeater /\ field.items # NoItems THEN
         [acc EXCEPT !.error = "REPEATER_NESTED_FIELD"]
  ELSE IF Malformed(field, Flags \cup Hints) THEN [acc EXCEPT !.error = "FIELD"]
  ELSE
         LET indexed == [acc EXCEPT !.byId = Insert(@, field.id, Info(field, path))]
         IN  IF field.items = NoItems
             THEN indexed
             ELSE IndexFields(field.items, path,
                              underRepeater \/ field.type = "repeater", indexed)

IndexFields(fields, path, underRepeater, acc) ==
  FoldLeftDomain(LAMBDA a, i : IndexField(a, fields[i], Append(path, i), underRepeater),
                 acc, fields)

BuildById(fields) == IndexFields(fields, << >>, FALSE, [error |-> None, byId |-> NoEntries])

(* build_by_code_from_id: looks at what the id index kept, in its order. *)
IndexCode(acc, info) ==
  IF acc.error # None THEN acc
  ELSE IF info.code \in KeysOf(acc.byCode) THEN [acc EXCEPT !.error = "RULE_DUPLICATE_FIELD_CODE"]
  ELSE [acc EXCEPT !.byCode = Insert(@, info.code, info)]

BuildByCode(byId) ==
  FoldLeft(LAMBDA acc, entry : IndexCode(acc, entry[2]),
           [error |-> None, byCode |-> NoEntries], byId)

-----------------------------------------------------------------------------
(* walk_repeater_topology: which field lies in which repeater's rows.      *)

RECURSIVE WalkTopology(_, _, _)

(* Mutated: a repeater is entered with the scope of what is around it. *)
PlaceFieldInOuterScope(topology, field, repeater) ==
  LET entered == [topology EXCEPT !.repeaters = Append(@, field.code)]
      inRow   == [topology EXCEPT !.parentOf = Insert(@, field.id, repeater),
                                  !.repeaterOf = Insert(@, field.code, repeater)]
      inside(t, r) == IF field.items = NoItems THEN t ELSE WalkTopology(field.items, r, t)
  IN  IF field.type = "repeater"
      THEN inside(entered, repeater)
      ELSE inside(IF repeater = None THEN topology ELSE inRow, repeater)

(* one iteration of `walk_repeater_topology`, of a field with all its names *)
PlaceField(topology, field, repeater) ==
  LET entered == [topology EXCEPT !.repeaters = Append(@, field.code)]
      inRow   == [topology EXCEPT !.parentOf = Insert(@, field.id, repeater),
                                  !.repeaterOf = Insert(@, field.code, repeater)]
      inside(t, r) == IF field.items = NoItems THEN t ELSE WalkTopology(field.items, r, t)
  IN  IF field.type = "repeater"
      THEN inside(entered, field.code)
      ELSE inside(IF repeater = None THEN topology ELSE inRow, repeater)

WalkTopology(fields, repeater, topology) ==
  FoldLeft(LAMBDA t, field : PlaceField(t, field, repeater), topology, fields)

RepeaterTopology(fields) ==
  WalkTopology(fields, None,
               [repeaters |-> << >>, repeaterOf |-> NoEntries, parentOf |-> NoEntries])

(* FormSemantics::from_form: the two indexes, then the topology *)
FromForm(fields) ==
  LET ids   == BuildById(fields)
      codes == BuildByCode(ids.byId)
  IN  [error    |-> IF ids.error # None THEN ids.error ELSE codes.error,
       byId     |-> ids.byId,
       byCode   |-> codes.byCode,
       topology |-> RepeaterTopology(fields)]

-----------------------------------------------------------------------------
(* build_answer_index: what can be answered, keyed by code. Groups are     *)
(* entered and not listed; only a repeater has children.                   *)

(* one iteration of `index_child_fields` *)
IndexChild(acc, field, path) ==
  IF acc.error # None THEN acc
  ELSE IF Malformed(field, Names) THEN [acc EXCEPT !.error = "FIELD"]
  ELSE IF field.items # NoItems THEN [acc EXCEPT !.error = "REPEATER_NESTED_FIELD"]
  ELSE IF Malformed(field, Flags) THEN [acc EXCEPT !.error = "FIELD"]
  ELSE [acc EXCEPT !.children = Append(@, Info(field, path))]

Children(field, path) ==
  IF field.type = "repeater" /\ field.items # NoItems
  THEN FoldLeftDomain(LAMBDA a, i : IndexChild(a, field.items[i], Append(path, i)),
                      [error |-> None, children |-> << >>], field.items)
  ELSE [error |-> None, children |-> << >>]

RECURSIVE IndexAnswerFields(_, _, _)

(* one iteration of `index_answer_fields` *)
IndexAnswer(acc, field, path) ==
  LET below == Children(field, path)
      entry == [info |-> Info(field, path), children |-> below.children]
  IN  IF acc.error # None THEN acc
      ELSE IF Malformed(field, Names) THEN [acc EXCEPT !.error = "FIELD"]
      ELSE IF below.error # None THEN [acc EXCEPT !.error = below.error]
      ELSE IF Malformed(field, Flags) THEN [acc EXCEPT !.error = "FIELD"]
      ELSE IF field.type # "group" THEN [acc EXCEPT !.byCode = Insert(@, field.code, entry)]
      ELSE IF field.items = NoItems THEN acc
      ELSE IndexAnswerFields(field.items, path, acc)

IndexAnswerFields(fields, path, acc) ==
  FoldLeftDomain(LAMBDA a, i : IndexAnswer(a, fields[i], Append(path, i)), acc, fields)

BuildAnswerIndex(fields) ==
  IndexAnswerFields(fields, << >>, [error |-> None, byCode |-> NoEntries])

-----------------------------------------------------------------------------
(* describe: the id index as a list, each entry with the pointer of the    *)
(* container its own pointer goes through.                                  *)
Describe(byId) ==
  [i \in DOMAIN byId |->
     LET path == byId[i][2].path
     IN  [path |-> path, parentPath |-> IF Len(path) = 1 THEN None ELSE Front(path)]]

=============================================================================
