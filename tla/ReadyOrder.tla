----------------------------- MODULE ReadyOrder -----------------------------
(***************************************************************************)
(* What the rules analyzer promises about the evaluation order of the      *)
(* calculated fields: a field joins the order only when every calculated   *)
(* field it reads is already in it, nothing joins twice, and the analysis  *)
(* ends with the verdict "cyclic" exactly when some field can never join.  *)
(* How the next ready field is found is left open.                         *)
(***************************************************************************)
EXTENDS FiniteSets, Sequences

CONSTANT Fields  \* the field ids a rules document may name

VARIABLES
  calculated,    \* the ids with a non-null `calculate`
  dependencies,  \* [calculated -> SUBSET Fields]: the ids each one reads
  order,         \* the evaluation order built so far
  verdict        \* "pending", then "ordered" or "cyclic"

vars == <<calculated, dependencies, order, verdict>>

Placed == {order[i] : i \in DOMAIN order}

(* The calculated fields `f` has to wait for; an input field is no obstacle. *)
Needs(f) == dependencies[f] \cap calculated

(* A set of fields none of which can come first: a cycle and what feeds it. *)
Deadlocked(C) ==
  /\ C # {}
  /\ C \subseteq calculated
  /\ \A f \in C : Needs(f) \cap C # {}

Init ==
  /\ calculated \in SUBSET Fields
  /\ dependencies \in [calculated -> SUBSET Fields]
  /\ order = << >>
  /\ verdict = "pending"

Place(f) ==
  /\ verdict = "pending"
  /\ f \in calculated \ Placed
  /\ Needs(f) \subseteq Placed
  /\ order' = Append(order, f)
  /\ UNCHANGED <<calculated, dependencies, verdict>>

Accept ==
  /\ verdict = "pending"
  /\ Placed = calculated
  /\ verdict' = "ordered"
  /\ UNCHANGED <<calculated, dependencies, order>>

Reject ==
  /\ verdict = "pending"
  /\ Deadlocked(calculated \ Placed)
  /\ verdict' = "cyclic"
  /\ UNCHANGED <<calculated, dependencies, order>>

Next == (\E f \in calculated : Place(f)) \/ Accept \/ Reject

Spec == Init /\ [][Next]_vars
=============================================================================
