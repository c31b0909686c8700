-------------------------- MODULE ComponentExpansion --------------------------
(***************************************************************************)
(* compile/fields.rs, compile/context.rs and compile/projection.rs: the      *)
(* expansion of a form's `component-ref` fields from the caller's batch, with *)
(* its resolution stack, its memo of compiled components, its budget, the     *)
(* layouts it records, and the second expansion, in a context of its own, a   *)
(* content-hash pin is verified with.                                         *)
(*                                                                         *)
(* A component stands for one (code, version). Its form is a sequence of      *)
(* fields, plain or references; groups in it are flattened, a field's code is *)
(* its id, and a component that has a UI lays its fields out in order. A pin  *)
(* either is the digest of the component's compiled triple or is not.         *)
(***************************************************************************)
EXTENDS Integers, Sequences, FiniteSets, SequencesExt

CONSTANTS
  Components,    \* every (code, version) that may be named
  Plain,         \* the `ref` of a field that is no reference
  Unversioned,   \* the `ref` of a reference without componentVersion
  Forms,         \* the forms considered: sequences of fields
  Batches,       \* the batches considered
  MaxDepth,      \* MAX_COMPONENT_DEPTH
  MaxFields,     \* ExpansionBudget::MAX_FIELDS
  MaxBytes       \* ExpansionBudget::MAX_BYTES

ASSUME BoundsAssumption ==
  /\ MaxDepth \in Nat \ {0} /\ MaxFields \in Nat /\ MaxBytes \in Nat
  /\ {Plain, Unversioned, "form"} \cap Components = {}
  /\ IsFiniteSet(Components)

ASSUME RequestsAssumption ==
  /\ \A f \in Forms : f \in Seq(ToSet(f))
  /\ \A b \in Batches :
       /\ DOMAIN b \subseteq Components
       /\ \A c \in DOMAIN b : b[c].fields \in Seq(ToSet(b[c].fields))

VARIABLES
  form, batch,   \* the request
  contexts,      \* the compilation context and, while a pin is verified, the second one
  verified,      \* verified_pins
  outcome

vars == <<form, batch, contexts, verified, outcome>>

-----------------------------------------------------------------------------
FieldsOf(c) == IF c = "form" THEN form ELSE batch[c].fields

Leaf(id) == [id |-> id, items |-> <<>>, size |-> 1]
Total(sizes) ==
  LET sum[k \in 0..Len(sizes)] == IF k = 0 THEN 0 ELSE sum[k - 1] + sizes[k]
  IN  sum[Len(sizes)]
Sizes(items) == Total([k \in DOMAIN items |-> items[k].size])   \* count_fields
Group(id, items) ==
  [id |-> id, items |-> items, size |-> 1 + Sizes(items)]

Frame(c) == [of |-> c, next |-> 1, items |-> <<>>]
EmptyMap == [c \in {} |-> <<>>]
Put(map, key, value) == [k \in DOMAIN map \cup {key} |-> IF k = key THEN value ELSE map[k]]

(* CompilationContext::new. The root's frame is not on the resolution stack. *)
NewContext(root) ==
  [stack |-> <<Frame(root)>>, resolved |-> {}, taken |-> {}, compiled |-> EmptyMap,
   layouts |-> EmptyMap, fields |-> 0, bytes |-> 0]

Now == contexts[Len(contexts)]
Update(context) == contexts' = [contexts EXCEPT ![Len(contexts)] = context]
VerifiesHashes == Len(contexts) = 1

Top == Now.stack[Len(Now.stack)]
AtEnd == Top.next > Len(FieldsOf(Top.of))
Field == FieldsOf(Top.of)[Top.next]
OnStack(context) == {context.stack[k].of : k \in 2..Len(context.stack)}

Running == outcome = "running"
Fail(code) == outcome' = code /\ UNCHANGED <<contexts, verified>>

-----------------------------------------------------------------------------
(* expand_component_reference *)

AtReference == Running /\ ~AtEnd /\ Field.ref # Plain

(* Mutated: no cycle check; the depth bound stands in for it. *)
ReferenceErrorWithoutCycle ==
  CASE Field.ref = Unversioned -> "COMPONENT_VERSION_REQUIRED"
    [] Field.ref # Unversioned /\ Len(Now.stack) - 1 >= MaxDepth -> "COMPONENT_DEPTH_EXCEEDED"
    [] Field.ref # Unversioned /\ Len(Now.stack) - 1 < MaxDepth
         /\ Field.ref \notin DOMAIN batch -> "COMPONENT_VERSION_NOT_FOUND"
    [] OTHER -> "none"

ReferenceError ==
  LET named  == Field.ref # Unversioned
      cyclic == Field.ref \in OnStack(Now)
      deep   == Len(Now.stack) - 1 >= MaxDepth
  IN  CASE ~named -> "COMPONENT_VERSION_REQUIRED"
        [] named /\ cyclic -> "CIRCULAR_COMPONENT_REFERENCE"
        [] named /\ ~cyclic /\ deep -> "COMPONENT_DEPTH_EXCEEDED"
        [] named /\ ~cyclic /\ ~deep /\ Field.ref \notin DOMAIN batch -> "COMPONENT_VERSION_NOT_FOUND"
        [] OTHER -> "none"

RejectReference ==
  /\ AtReference /\ ReferenceError # "none"
  /\ Fail(ReferenceError)
  /\ UNCHANGED <<form, batch>>

CompilePlainField ==
  /\ Running /\ ~AtEnd /\ Field.ref = Plain
  /\ Update([Now EXCEPT !.stack[Len(Now.stack)].items = Append(@, Leaf(Field.id)),
                        !.stack[Len(Now.stack)].next = @ + 1])
  /\ UNCHANGED <<form, batch, verified, outcome>>

Unresolved == AtReference /\ ReferenceError = "none" /\ Field.ref \notin Now.resolved
Pinned(c) == batch[c].pin # "none"

(* resolve -> verify_component_hash -> component_hash: the component's own    *)
(* triple is compiled in a context that verifies nothing.                      *)
BeginVerification ==
  /\ Unresolved /\ VerifiesHashes /\ Pinned(Field.ref) /\ Field.ref \notin verified
  /\ contexts' = Append(contexts, NewContext(Field.ref))
  /\ UNCHANGED <<form, batch, verified, outcome>>

(* Mutated: a pin is compared at the form's own references only. *)
ResolveFormPins ==
  /\ Unresolved /\ (VerifiesHashes /\ Pinned(Field.ref) => Field.ref \in verified)
  /\ IF Top.of = "form" /\ batch[Field.ref].pin = "wrong"
     THEN Fail("COMPONENT_HASH_MISMATCH")
     ELSE /\ Update([Now EXCEPT !.resolved = @ \cup {Field.ref}])
          /\ UNCHANGED <<verified, outcome>>
  /\ UNCHANGED <<form, batch>>

Resolve ==
  /\ Unresolved /\ (VerifiesHashes /\ Pinned(Field.ref) => Field.ref \in verified)
  /\ IF VerifiesHashes /\ batch[Field.ref].pin = "wrong"
     THEN Fail("COMPONENT_HASH_MISMATCH")
     ELSE /\ Update([Now EXCEPT !.resolved = @ \cup {Field.ref}])
          /\ UNCHANGED <<verified, outcome>>
  /\ UNCHANGED <<form, batch>>

Resolved == AtReference /\ ReferenceError = "none" /\ Field.ref \in Now.resolved

(* The source form leaves the dependency with the first expansion. *)
ExpandFirst ==
  /\ Resolved /\ Field.ref \notin DOMAIN Now.compiled
  /\ IF Field.ref \in Now.taken
     THEN Fail("COMPONENT_SOURCE_UNAVAILABLE")
     ELSE /\ Update([Now EXCEPT !.taken = @ \cup {Field.ref}, !.stack = Append(@, Frame(Field.ref))])
          /\ UNCHANGED <<verified, outcome>>
  /\ UNCHANGED <<form, batch>>

(* Mutated: a component with a UI is laid out as one without. *)
LayoutOfDefault(c, items, layouts) ==
  [k \in DOMAIN items |-> [field |-> items[k].id, children |-> <<>>]]

(* compile_layout_array, or build_default_layout, which expands nothing. The  *)
(* layouts recorded so far are looked up by field id alone.                    *)
LayoutOf(c, items, layouts) ==
  [k \in DOMAIN items |->
    [field |-> items[k].id,
     children |-> IF batch[c].ui /\ items[k].id \in DOMAIN layouts
                  THEN [j \in DOMAIN layouts[items[k].id] |-> layouts[items[k].id][j].field]
                  ELSE <<>>]]

(* The reference at the top of `context` becomes a group of the items of c. *)
WithGroup(context, c, items) ==
  LET last == Len(context.stack)
      id   == FieldsOf(context.stack[last].of)[context.stack[last].next].id
      node == Group(id, items)
  IN  [context EXCEPT !.stack[last].items = Append(@, node),
                      !.stack[last].next = @ + 1,
                      !.layouts = Put(@, id, LayoutOf(c, items, @)),
                      !.fields = @ + Sizes(items),
                      !.bytes = @ + node.size]

Charged(context) ==
  IF context.fields > MaxFields \/ context.bytes > MaxBytes
  THEN Fail("COMPONENT_BUDGET_EXCEEDED")
  ELSE Update(context) /\ UNCHANGED <<verified, outcome>>

(* Mutated: copies are free. *)
CloneUncharged ==
  /\ Resolved /\ Field.ref \in DOMAIN Now.compiled
  /\ Charged([WithGroup(Now, Field.ref, Now.compiled[Field.ref])
               EXCEPT !.fields = Now.fields, !.bytes = Now.bytes])
  /\ UNCHANGED <<form, batch>>

CloneCompiled ==
  /\ Resolved /\ Field.ref \in DOMAIN Now.compiled
  /\ Charged(WithGroup(Now, Field.ref, Now.compiled[Field.ref]))
  /\ UNCHANGED <<form, batch>>

(* Mutated: the compiled fields are kept for references from the form only. *)
FinishUnmemoized ==
  /\ Running /\ AtEnd /\ Len(Now.stack) > 1
  /\ LET popped == [Now EXCEPT !.stack = Front(@)]
         known  == IF Len(popped.stack) > 1 THEN popped
                   ELSE [popped EXCEPT !.compiled = Put(@, Top.of, Top.items)]
     IN  Charged(WithGroup(known, Top.of, Top.items))
  /\ UNCHANGED <<form, batch>>

(* Mutated: what is kept is the component without its last field. *)
FinishShort ==
  /\ Running /\ AtEnd /\ Len(Now.stack) > 1
  /\ LET popped == [Now EXCEPT !.stack = Front(@),
                               !.compiled = Put(@, Top.of, Front(Top.items))]
     IN  Charged(WithGroup(popped, Top.of, Top.items))
  /\ UNCHANGED <<form, batch>>

FinishComponent ==
  /\ Running /\ AtEnd /\ Len(Now.stack) > 1
  /\ LET popped == [Now EXCEPT !.stack = Front(@), !.compiled = Put(@, Top.of, Top.items)]
     IN  Charged(WithGroup(popped, Top.of, Top.items))
  /\ UNCHANGED <<form, batch>>

(* Mutated: the digest is not kept. *)
FinishVerificationForgets ==
  /\ Running /\ AtEnd /\ Len(Now.stack) = 1 /\ ~VerifiesHashes
  /\ contexts' = Front(contexts)
  /\ UNCHANGED <<form, batch, verified, outcome>>

(* The digest of a pinned component's triple is known. *)
FinishVerification ==
  /\ Running /\ AtEnd /\ Len(Now.stack) = 1 /\ ~VerifiesHashes
  /\ verified' = verified \cup {Top.of}
  /\ contexts' = Front(contexts)
  /\ UNCHANGED <<form, batch, outcome>>

(* compile_from_roots: the final documents are charged as well. *)
FinishForm ==
  /\ Running /\ AtEnd /\ Len(Now.stack) = 1 /\ VerifiesHashes
  /\ outcome' = IF Now.bytes + Sizes(Top.items) > MaxBytes THEN "COMPONENT_BUDGET_EXCEEDED" ELSE "ok"
  /\ UNCHANGED <<form, batch, contexts, verified>>

Init ==
  /\ form \in Forms /\ batch \in Batches
  /\ contexts = <<NewContext("form")>>
  /\ verified = {}
  /\ outcome = "running"

Next ==
  \/ RejectReference \/ CompilePlainField \/ BeginVerification \/ Resolve
  \/ ExpandFirst \/ CloneCompiled \/ FinishComponent \/ FinishVerification \/ FinishForm

Spec == Init /\ [][Next]_vars

(* The call runs until it returns. *)
FairSpec == Spec /\ WF_vars(Next)

-----------------------------------------------------------------------------
Refs(fields) == {fields[k].ref : k \in DOMAIN fields} \ {Plain}
RefsOf(c) == IF c \in DOMAIN batch THEN Refs(batch[c].fields) ELSE {}
(* The least set that holds `start` and the references of all it holds. *)
ReachableFrom(start) ==
  LET named == start \cup UNION {RefsOf(c) : c \in DOMAIN batch}
  IN  {c \in named : \A closed \in SUBSET named :
         start \subseteq closed /\ (\A d \in closed : RefsOf(d) \subseteq closed) => c \in closed}
Used == ReachableFrom(Refs(form))
Cyclic(c) == c \in ReachableFrom(RefsOf(c))

(* P-8, P-11: a component whose source is gone is being expanded or memoized, *)
(* so no reference ever finds it unavailable.                                  *)
SourceAccounted ==
  /\ \A k \in DOMAIN contexts :
       LET context == contexts[k]
       IN  /\ context.taken = OnStack(context) \cup DOMAIN context.compiled
           /\ OnStack(context) \cap DOMAIN context.compiled = {}
           /\ Cardinality(OnStack(context)) = Len(context.stack) - 1
  /\ outcome # "COMPONENT_SOURCE_UNAVAILABLE"

(* P-1, P-3: the verdict is about the reference graph: what compiles is        *)
(* acyclic, complete and pinned to what it is, and each refusal has its cause. *)
VerdictExact ==
  /\ outcome = "ok" => \A c \in Used :
       c \in DOMAIN batch /\ ~Cyclic(c) /\ batch[c].pin # "wrong"
  /\ outcome = "CIRCULAR_COMPONENT_REFERENCE" => \E c \in Used : Cyclic(c)
  /\ outcome = "COMPONENT_VERSION_NOT_FOUND" => ~(Used \subseteq DOMAIN batch)
  /\ outcome = "COMPONENT_HASH_MISMATCH" => \E c \in Used \cap DOMAIN batch : batch[c].pin = "wrong"

(* The nodes of the full unfolding of some fields, where `unfolded` says how   *)
(* many there are below each component; and of every component, down to a      *)
(* level no chain of different components goes beyond.                         *)
NodesOf(fields, unfolded) ==
  Total([k \in DOMAIN fields |->
           1 + IF fields[k].ref \in DOMAIN unfolded THEN unfolded[fields[k].ref] ELSE 0])
Unfolding ==
  LET to[n \in 0..Cardinality(Components)] ==
        [c \in DOMAIN batch |-> IF n = 0 THEN 0 ELSE NodesOf(batch[c].fields, to[n - 1])]
  IN  to
Unfolded(fields) == NodesOf(fields, Unfolding[Cardinality(Components)])

(* P-8: memoized or not, the output is the unfolding of the references.       *)
OutputIsUnfolding == outcome = "ok" => Sizes(Top.items) = Unfolded(form)

(* P-8: what is materialised for references is within the budget.             *)
BudgetCoversOutput == outcome = "ok" => Sizes(Top.items) - Len(form) <= MaxFields

(* P-1, P-9: expansion ends, with or without pins to verify on the way,        *)
(* whatever the batch.                                                         *)
ExpansionEnds == <>(~Running)

(* The same field id is a reference to the same component wherever it occurs.  *)
OneComponentPerId ==
  \A c, d \in {"form"} \cup DOMAIN batch : \A j \in DOMAIN FieldsOf(c), k \in DOMAIN FieldsOf(d) :
    FieldsOf(c)[j].id = FieldsOf(d)[k].id => FieldsOf(c)[j].ref = FieldsOf(d)[k].ref

(* docs/documents.md: a layout node that names an expanded reference has that  *)
(* component's layout as children, at the first site and at every clone. It    *)
(* takes ids that agree: a clone is laid out with whatever its inner ids were  *)
(* last recorded for, by any component.                                        *)
LayoutsFollowReferences ==
  outcome = "ok" /\ OneComponentPerId => \A k \in DOMAIN form :
    form[k].ref \in Components /\ batch[form[k].ref].ui =>
      \A j \in DOMAIN batch[form[k].ref].fields :
        LET inner == batch[form[k].ref].fields[j]
        IN  inner.ref # Plain =>
              Now.layouts[form[k].id][j].children =
                [i \in DOMAIN batch[inner.ref].fields |-> batch[inner.ref].fields[i].id]
=============================================================================
