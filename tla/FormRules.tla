------------------------------ MODULE FormRules ------------------------------
(***************************************************************************)
(* validate.rs, validate_impl: the indexes FormIndex builds of a form, and  *)
(* the checks of RuleAnalysis that read them.                               *)
(***************************************************************************)
EXTENDS RuleAnalysis

CONSTANT NoItems  \* `items` absent, or no array

INSTANCE FormIndex

-----------------------------------------------------------------------------
(* Every field below the top level, in the rows of a repeater or not.       *)
RECURSIVE PathsOf(_, _)

PathsOf(fields, path) ==
  UNION {{Append(path, i)}
         \cup (IF fields[i].items = NoItems THEN {} ELSE PathsOf(fields[i].items, Append(path, i)))
         : i \in DOMAIN fields}

RECURSIVE FieldAt(_, _)

FieldAt(fields, path) ==
  IF Len(path) = 1 THEN fields[path[1]] ELSE FieldAt(fields[path[1]].items, Tail(path))

(* Ids are the caller's to keep distinct (documents.md), and only groups    *)
(* and repeaters are containers.                                             *)
WellFormed ==
  LET paths == PathsOf(form, << >>)
  IN  /\ \A p, q \in paths : FieldAt(form, p).id = FieldAt(form, q).id => p = q
      /\ \A p \in paths : FieldAt(form, p).items # NoItems
                            => FieldAt(form, p).type \in {"group", "repeater"}

(* The four indexes of an accepted form are of one form: the id index, the  *)
(* code index and the answers name the same field by the same code; the     *)
(* children an answer index gives a repeater are the codes the topology     *)
(* puts into its rows; a description lists each container before what is in  *)
(* it. validate_response reads answers through one index, flags, row scope   *)
(* and calculated values through the others.                                 *)
IndexesAgree ==
  stage \notin {"semantics", "rejected"} /\ WellFormed =>
    LET topology == semantics.topology
        described == Describe(semantics.byId)
        byCode(c) == Lookup(semantics.byCode, c)
        children(c) == Lookup(answers, c).children
    IN  /\ {semantics.byId[i][2].path : i \in DOMAIN semantics.byId} = PathsOf(form, << >>)
        /\ \A c \in KeysOf(answers) :
             /\ c \in KeysOf(semantics.byCode) /\ Lookup(answers, c).info = byCode(c)
             /\ c \notin KeysOf(topology.repeaterOf)
             /\ \A i \in DOMAIN children(c) : children(c)[i] = byCode(children(c)[i].code)
        /\ \A c \in KeysOf(semantics.byCode) :
             LET inRowsOf == {r \in KeysOf(answers) :
                                \E i \in DOMAIN children(r) : children(r)[i].code = c}
             IN  byCode(c).type # "repeater" =>
                   inRowsOf = IF c \in KeysOf(topology.repeaterOf)
                              THEN {Lookup(topology.repeaterOf, c)} ELSE {}
        /\ \A i \in DOMAIN described :
             described[i].parentPath # None =>
               \E j \in 1..(i - 1) : described[j].path = described[i].parentPath

=============================================================================
