--------------------------- MODULE SchemaClassify ---------------------------
(***************************************************************************)
(* schema/classify.rs: the walk over a schema document that decides, before   *)
(* any instance is looked at, whether the document is a usable schema. It      *)
(* visits every subschema and every `$ref` target once, depth first, and       *)
(* refuses a reference to a node it is in the middle of.                       *)
(*                                                                         *)
(* A node stands for the address of a JSON value at a subschema position. Its  *)
(* keywords are a sequence in document order; a keyword that holds several     *)
(* subschemas is one entry per subschema, and keywords that hold none are      *)
(* "assert" when the walk has nothing to say of them and "unusable" otherwise. *)
(***************************************************************************)
EXTENDS Integers, Sequences, FiniteSets

CONSTANTS
  Nodes,           \* the addresses
  Root,            \* the document itself
  Unresolved,      \* where a reference that names nothing leads
  Schemas,         \* the documents considered
  MaxSchemaDepth   \* MAX_SCHEMA_DEPTH

SubschemaKeywords ==
  {"allOf", "anyOf", "oneOf", "not", "if", "then", "else",
   "properties", "additionalProperties", "items"}

Kinds == {"object", "true", "false", "other"}

(* JSON is a tree: no two keywords hold the same value, and none the root.     *)
IsDocument(d) ==
  /\ \A n \in Nodes :
       /\ d[n].kind \in Kinds
       /\ d[n].keywords \in Seq([name : SubschemaKeywords \cup {"$ref", "assert", "unusable"},
                                 to : Nodes \cup {Unresolved}, accepts : SUBSET STRING])
       /\ d[n].kind # "object" => d[n].keywords = << >>
  /\ \A n \in Nodes : \A k \in DOMAIN d[n].keywords :
       d[n].keywords[k].name \in SubschemaKeywords =>
         /\ d[n].keywords[k].to \in Nodes \ {Root}
         /\ \A m \in Nodes : \A j \in DOMAIN d[m].keywords :
              /\ d[m].keywords[j].name \in SubschemaKeywords
              /\ d[m].keywords[j].to = d[n].keywords[k].to
              => m = n /\ j = k

ASSUME SchemaAssumption ==
  /\ Root \in Nodes /\ Unresolved \notin Nodes
  /\ MaxSchemaDepth \in Nat \ {0}
  /\ \A d \in Schemas : IsDocument(d)

VARIABLES
  schema,   \* the document
  seen,     \* the nodes walked or being walked
  path,     \* ancestors, each with the keyword its visit has come to
  errors,   \* the kinds of error found
  phase     \* "walk", then "classified"

walkVars == <<schema, seen, path, errors, phase>>

-----------------------------------------------------------------------------
Frame(n) == [node |-> n, next |-> 1]
Ancestors == {path[i].node : i \in DOMAIN path}

Top == path[Len(path)]
AtEnd == Top.next > Len(schema[Top.node].keywords)
Keyword == schema[Top.node].keywords[Top.next]
Advanced == [path EXCEPT ![Len(path)].next = @ + 1]

Walking == phase = "walk" /\ path # << >>
Visiting(names) == Walking /\ ~AtEnd /\ Keyword.name \in names

(* The keyword is done with, and so is its subschema if it had one. *)
Pass == path' = Advanced /\ UNCHANGED <<seen, errors>>
Refuse(error) == path' = Advanced /\ errors' = errors \cup {error} /\ UNCHANGED seen

(* Mutated: a node counts as walked only once it is left. *)
WalkSubschemaUnmarked(n) ==
  CASE schema[n].kind = "other" -> Refuse("wrong type")
    [] schema[n].kind = "object" /\ n \notin seen ->
         path' = Append(Advanced, Frame(n)) /\ UNCHANGED <<seen, errors>>
    [] OTHER -> Pass

(* walk_subschema and walk *)
WalkSubschema(n) ==
  CASE schema[n].kind = "other" -> Refuse("wrong type")
    [] schema[n].kind = "object" /\ n \notin seen ->
         /\ seen' = seen \cup {n}
         /\ path' = Append(Advanced, Frame(n))
         /\ UNCHANGED errors
    [] OTHER -> Pass

VisitAssertion ==
  /\ Visiting({"assert"})
  /\ Pass
  /\ UNCHANGED <<schema, phase>>

RefuseKeyword ==
  /\ Visiting({"unusable"})
  /\ Refuse("unusable")
  /\ UNCHANGED <<schema, phase>>

VisitSubschema ==
  /\ Visiting(SubschemaKeywords)
  /\ WalkSubschema(Keyword.to)
  /\ UNCHANGED <<schema, phase>>

(* Mutated: what was walked is not looked at again, ancestor or not. *)
VisitReferenceSeenFirst ==
  /\ Visiting({"$ref"})
  /\ CASE Keyword.to = Unresolved -> Pass
       [] Keyword.to \in seen -> Pass
       [] Keyword.to \in Nodes \ seen /\ Len(path) >= MaxSchemaDepth -> Refuse("depth")
       [] OTHER -> WalkSubschema(Keyword.to)
  /\ UNCHANGED <<schema, phase>>

(* Mutated: one set serves as memo and as chain of ancestors. *)
VisitReferenceOneSet ==
  /\ Visiting({"$ref"})
  /\ CASE Keyword.to = Unresolved -> Pass
       [] Keyword.to \in seen -> Refuse("recursive")
       [] Keyword.to \in Nodes \ seen /\ Len(path) >= MaxSchemaDepth -> Refuse("depth")
       [] OTHER -> WalkSubschema(Keyword.to)
  /\ UNCHANGED <<schema, phase>>

(* Mutated: a refused reference is come to again. *)
VisitReferenceAgain ==
  /\ Visiting({"$ref"})
  /\ CASE Keyword.to = Unresolved -> Pass
       [] Keyword.to \in Ancestors -> errors' = errors \cup {"recursive"} /\ UNCHANGED <<seen, path>>
       [] Keyword.to \in Nodes \ Ancestors /\ Len(path) >= MaxSchemaDepth -> Refuse("depth")
       [] OTHER -> WalkSubschema(Keyword.to)
  /\ UNCHANGED <<schema, phase>>

VisitReference ==
  /\ Visiting({"$ref"})
  /\ CASE Keyword.to = Unresolved -> Pass
       [] Keyword.to \in Ancestors -> Refuse("recursive")
       [] Keyword.to \in Nodes \ Ancestors /\ Len(path) >= MaxSchemaDepth -> Refuse("depth")
       [] OTHER -> WalkSubschema(Keyword.to)
  /\ UNCHANGED <<schema, phase>>

LeaveNode ==
  /\ Walking /\ AtEnd
  /\ path' = SubSeq(path, 1, Len(path) - 1)
  /\ UNCHANGED <<schema, seen, errors, phase>>

Classified ==
  /\ phase = "walk" /\ path = << >>
  /\ phase' = "classified"
  /\ UNCHANGED <<schema, seen, path, errors>>

Init ==
  /\ schema \in Schemas
  /\ seen = IF schema[Root].kind = "object" THEN {Root} ELSE {}
  /\ path = IF schema[Root].kind = "object" THEN <<Frame(Root)>> ELSE << >>
  /\ errors = IF schema[Root].kind = "other" THEN {"no schema"} ELSE {}
  /\ phase = "walk"

Next ==
  \/ VisitAssertion \/ RefuseKeyword \/ VisitSubschema \/ VisitReference
  \/ LeaveNode \/ Classified

Spec == Init /\ [][Next]_walkVars

-----------------------------------------------------------------------------
(* Evaluation descends from a node to where its keywords lead. *)
Leads(n, k) ==
  LET keyword == schema[n].keywords[k]
  IN  /\ keyword.name \in SubschemaKeywords \cup {"$ref"}
      /\ keyword.to \in Nodes
      /\ schema[keyword.to].kind = "object"
To(n, k) == schema[n].keywords[k].to

(* Nodes from each of which evaluation can go on within them: it may never end *)
Looping(S) ==
  /\ S \in SUBSET Nodes /\ S # {}
  /\ \A n \in S : \E k \in DOMAIN schema[n].keywords : Leads(n, k) /\ To(n, k) \in S

(* References name the root or a definition, no value a keyword holds. *)
ReferencesDefinitions ==
  \A n, m \in Nodes :
    \A k \in DOMAIN schema[n].keywords, j \in DOMAIN schema[m].keywords :
      schema[n].keywords[k].name = "$ref" /\ schema[m].keywords[j].name \in SubschemaKeywords =>
        To(n, k) # To(m, j)

Finished == seen \ Ancestors
ClosedUnderDescent(S) ==
  \A n \in S : \A k \in DOMAIN schema[n].keywords : Leads(n, k) => To(n, k) \in S

TypeOK ==
  /\ IsDocument(schema)
  /\ seen \subseteq {n \in Nodes : schema[n].kind = "object"}
  /\ path \in Seq([node : Nodes, next : Nat \ {0}])
  /\ errors \subseteq {"no schema", "wrong type", "unusable", "recursive", "depth"}
  /\ phase \in {"walk", "classified"}

(* The walk's path is a descent from the root without repetition. *)
PathIsDescent ==
  /\ path # << >> => path[1].node = Root
  /\ \A i \in 1..Len(path) :
       path[i].node \in seen /\ path[i].next <= Len(schema[path[i].node].keywords) + 1
  /\ \A i, j \in 1..Len(path) : path[i].node = path[j].node => i = j
  /\ \A i \in 1..Len(path) - 1 :
       LET k == path[i].next - 1
       IN  k \in DOMAIN schema[path[i].node].keywords
           /\ Leads(path[i].node, k) /\ To(path[i].node, k) = path[i + 1].node

(* What is behind the walk leads to what is finished, and that ends. *)
BehindIsFinished ==
  ReferencesDefinitions /\ errors = {} =>
    /\ ClosedUnderDescent(Finished)
    /\ \A i \in 1..Len(path) : \A k \in 1..path[i].next - 1 :
         Leads(path[i].node, k) =>
           To(path[i].node, k) \in Finished \/ (i < Len(path) /\ k = path[i].next - 1)
    /\ \A S \in SUBSET Finished : ~Looping(S)

(* S-10: a reference is called recursive only in a document that has a loop: a *)
(* definition shared by independent positions is none.                          *)
RecursionErrorIsReal == "recursive" \in errors => \E S \in SUBSET Nodes : Looping(S)

WalkInvariant ==
  /\ TypeOK /\ PathIsDescent /\ BehindIsFinished
  /\ schema[Root].kind = "object" => Root \in seen
  /\ phase = "classified" => path = << >>

(* S-10: a document whose evaluation can reach itself is not accepted. What     *)
(* evaluation can enter was walked, and none of it loops.                       *)
RecursionRejected ==
  phase = "classified" /\ errors = {} =>
    /\ schema[Root].kind = "object" => Root \in seen
    /\ ClosedUnderDescent(seen)
    /\ \A S \in SUBSET seen : ~Looping(S)

(* The same, for documents whose references name definitions.                   *)
RecursionOfDefinitionsRejected == ReferencesDefinitions => RecursionRejected
=============================================================================
