-------------------------- MODULE DependencyOrder --------------------------
(***************************************************************************)
(* rules/analyze.rs: the evaluation order of the calculated fields         *)
(* (`topological_sort`, Kahn's algorithm with a FIFO queue) and the cycle  *)
(* verdict `analyze_checked_with_semantics` draws from its length.         *)
(*                                                                         *)
(* A field id is its position in the rules document, so document order is  *)
(* the order of the numbers. `in_degree` and `dependents` are filled one   *)
(* field at a time; the queue is seeded in document order; then one step   *)
(* per `pop_front` and one per waiter it releases.                         *)
(***************************************************************************)
EXTENDS Integers, FiniteSets, Sequences, SequencesExt

CONSTANT N                       \* number of fields the rules document names

ASSUME NAssumption == N \in Nat \ {0}

Fields == 1..N

VARIABLES
  calculated,     \* calculated_field_ids
  dependencies,   \* [calculated -> SUBSET Fields], de-duplicated per field
  phase,          \* which loop is running
  scan,           \* position of the two document-order loops
  inDegree,       \* in_degree
  dependents,     \* reverse adjacency: dependents[d] = the fields waiting on d
  queue,          \* the FIFO of ready fields
  order,          \* evaluation_order
  waiters,        \* the rest of dependents[current] still to be released
  verdict         \* what the caller returns

vars == <<calculated, dependencies, phase, scan, inDegree, dependents,
          queue, order, waiters, verdict>>

input == <<calculated, dependencies>>

-----------------------------------------------------------------------------
Needs(f) == dependencies[f] \cap calculated

(* Every rules document over N fields: which are calculated, what each of  *)
(* them reads. A read of its own code is caught by RULE_SELF_REFERENCE in   *)
(* the checked path only, so self dependencies are inputs of the sort.      *)
Init ==
  /\ calculated \in SUBSET Fields
  /\ dependencies \in [calculated -> SUBSET Fields]
  /\ phase = "count"
  /\ scan = 1
  /\ inDegree = [f \in calculated |-> 0]
  /\ dependents = [f \in calculated |-> << >>]
  /\ queue = << >>
  /\ order = << >>
  /\ waiters = << >>
  /\ verdict = "pending"

(* Mutated: counts the reads of input fields, which nothing discounts. *)
CountEveryRead ==
  /\ phase = "count"
  /\ scan \in calculated
  /\ inDegree' = [inDegree EXCEPT ![scan] = Cardinality(dependencies[scan])]
  /\ dependents' = [d \in calculated |->
                      IF d \in dependencies[scan]
                      THEN Append(dependents[d], scan)
                      ELSE dependents[d]]
  /\ scan' = scan + 1
  /\ UNCHANGED <<input, phase, queue, order, waiters, verdict>>

(* `for field_id in calculated_field_ids { for dependency in deps { .. } }`: *)
(* a dependency that is not calculated has no entry in `dependents`.         *)
CountDependencies ==
  /\ phase = "count"
  /\ scan \in calculated
  /\ inDegree' = [inDegree EXCEPT ![scan] = Cardinality(Needs(scan))]
  /\ dependents' = [d \in calculated |->
                      IF d \in dependencies[scan]
                      THEN Append(dependents[d], scan)
                      ELSE dependents[d]]
  /\ scan' = scan + 1
  /\ UNCHANGED <<input, phase, queue, order, waiters, verdict>>

(* The queue is collected from the zero entries of in_degree, in order. *)
SeedQueue ==
  /\ phase = "seed"
  /\ scan \in calculated
  /\ queue' = IF inDegree[scan] = 0 THEN Append(queue, scan) ELSE queue
  /\ scan' = scan + 1
  /\ UNCHANGED <<input, phase, inDegree, dependents, order, waiters, verdict>>

(* A position that is not a calculated field takes part in neither loop. *)
SkipInputField ==
  /\ phase \in {"count", "seed"}
  /\ scan \in Fields \ calculated
  /\ scan' = scan + 1
  /\ UNCHANGED <<input, phase, inDegree, dependents, queue, order, waiters,
                 verdict>>

NextLoop ==
  /\ scan = N + 1
  /\ \/ phase = "count" /\ phase' = "seed" /\ scan' = 1
     \/ phase = "seed" /\ phase' = "sort" /\ scan' = scan
  /\ UNCHANGED <<input, inDegree, dependents, queue, order, waiters, verdict>>

(* `while let Some(current) = queue.pop_front() { order.push(current) .. }` *)
Dequeue ==
  /\ phase = "sort"
  /\ waiters = << >>
  /\ queue # << >>
  /\ queue' = Tail(queue)
  /\ order' = Append(order, Head(queue))
  /\ waiters' = dependents[Head(queue)]
  /\ UNCHANGED <<input, phase, scan, inDegree, dependents, verdict>>

(* Mutated: the zero test is lost, a waiter is queued at every release. *)
ReleaseWithoutTest ==
  /\ phase = "sort"
  /\ waiters # << >>
  /\ LET f == Head(waiters)
     IN  /\ inDegree' = [inDegree EXCEPT ![f] = @ - 1]
         /\ queue' = Append(queue, f)
  /\ waiters' = Tail(waiters)
  /\ UNCHANGED <<input, phase, scan, dependents, order, verdict>>

(* `*degree -= 1; if *degree == 0 { queue.push_back(field_id) }` *)
ReleaseWaiter ==
  /\ phase = "sort"
  /\ waiters # << >>
  /\ LET f == Head(waiters)
     IN  /\ inDegree' = [inDegree EXCEPT ![f] = @ - 1]
         /\ queue' = IF inDegree[f] = 1 THEN Append(queue, f) ELSE queue
  /\ waiters' = Tail(waiters)
  /\ UNCHANGED <<input, phase, scan, dependents, order, verdict>>

(* Mutated: the loop waits for every calculated field to be placed. *)
ConcludeWhenAllPlaced ==
  /\ phase = "sort"
  /\ waiters = << >>
  /\ queue = << >>
  /\ Len(order) = Cardinality(calculated)
  /\ phase' = "done"
  /\ verdict' = "ordered"
  /\ UNCHANGED <<input, scan, inDegree, dependents, queue, order, waiters>>

(* `metadata.evaluation_order.len() != metadata.calculated_field_ids.len()` *)
Conclude ==
  /\ phase = "sort"
  /\ waiters = << >>
  /\ queue = << >>
  /\ phase' = "done"
  /\ verdict' = IF Len(order) # Cardinality(calculated)
                THEN "cyclic" ELSE "ordered"
  /\ UNCHANGED <<input, scan, inDegree, dependents, queue, order, waiters>>

Next ==
  \/ CountDependencies
  \/ SeedQueue
  \/ SkipInputField
  \/ NextLoop
  \/ Dequeue
  \/ ReleaseWaiter
  \/ Conclude

Spec == Init /\ [][Next]_vars

(* The sort is one sequential loop: it never waits for anyone. *)
FairSpec == Spec /\ WF_vars(Next)

-----------------------------------------------------------------------------
Phases == {"count", "seed", "sort", "done"}

TypeOK ==
  /\ calculated \subseteq Fields
  /\ dependencies \in [calculated -> SUBSET Fields]
  /\ phase \in Phases
  /\ scan \in 1..(N + 1)
  /\ inDegree \in [calculated -> Nat]
  /\ dependents \in [calculated -> Seq(calculated)]
  /\ queue \in Seq(calculated)
  /\ order \in Seq(calculated)
  /\ waiters \in Seq(calculated)
  /\ verdict \in {"pending", "ordered", "cyclic"}

Placed == ToSet(order)

(* The dependencies of `f` that have not been discounted from its degree:  *)
(* not in the order yet, or just placed with `f` still among the waiters.  *)
Outstanding(f) ==
  {d \in Needs(f) : \/ d \notin Placed
                    \/ d = order[Len(order)] /\ f \in ToSet(waiters)}

(* `dependents` lists every counted edge once. *)
ReverseAdjacency ==
  \A d \in calculated :
    /\ IsInjective(dependents[d])
    /\ ToSet(dependents[d]) =
         {f \in calculated : d \in dependencies[f] /\ (phase = "count" => f < scan)}

(* The degree of a field is the number of its outstanding dependencies:    *)
(* the loop never decrements for an edge it did not count, which `*degree   *)
(* -= 1` on a usize could not survive.                                      *)
DegreeCountsOutstanding ==
  \A f \in calculated :
    IF phase = "count" /\ f >= scan
    THEN inDegree[f] = 0
    ELSE inDegree[f] = Cardinality(Outstanding(f))

(* Once seeded, the ready fields are exactly those queued or placed. *)
ReadyAreQueued ==
  LET scanned(f) == phase \in {"sort", "done"} \/ (phase = "seed" /\ f < scan)
  IN  ToSet(queue) \cup Placed =
        {f \in calculated : scanned(f) /\ inDegree[f] = 0}

NoFieldTwice ==
  /\ IsInjective(queue)
  /\ IsInjective(order)
  /\ ToSet(queue) \cap Placed = {}

(* The waiters left over are dependents of the field placed last. *)
WaitersOfCurrent ==
  /\ IsInjective(waiters)
  /\ waiters # << >> =>
       /\ phase = "sort"
       /\ order # << >>
       /\ ToSet(waiters) \subseteq ToSet(dependents[order[Len(order)]])

OrderOnlyWhileSorting ==
  /\ phase \in {"count", "seed"} => order = << >> /\ waiters = << >>
  /\ phase = "count" => queue = << >>
  /\ phase = "sort" => scan = N + 1
  /\ phase = "done" => queue = << >> /\ waiters = << >>
  /\ verdict = "pending" <=> phase # "done"

(* Every calculated value an expression reads has been computed before it: *)
(* SPEC R-14, and what `apply_calculations` relies on when it reads         *)
(* `working_values` without a check.                                        *)
DependenciesFirst ==
  \A i \in DOMAIN order : \A d \in Needs(order[i]) :
    \E j \in 1..(i - 1) : order[j] = d

(* The strengthening that makes the properties inductive. *)
SortInvariant ==
  /\ ReverseAdjacency
  /\ DegreeCountsOutstanding
  /\ ReadyAreQueued
  /\ NoFieldTwice
  /\ WaitersOfCurrent
  /\ OrderOnlyWhileSorting

Deadlocked(C) ==
  /\ C # {}
  /\ C \subseteq calculated
  /\ \A f \in C : Needs(f) \cap C # {}

(* RULE_CYCLIC_DEPENDENCY is exact: it is reported if and only if some     *)
(* calculated fields can never be computed before one another.              *)
CycleVerdictExact ==
  phase = "done" =>
    (verdict = "cyclic" <=> \E C \in SUBSET calculated : Deadlocked(C))

(* The order never contains a field of a cycle, nor one that reads from it. *)
CyclicNeverPlaced ==
  \A C \in SUBSET calculated :
    Deadlocked(C) => C \cap (Placed \cup ToSet(queue)) = {}

(* The sort always comes to a verdict. *)
SortTerminates == <>(phase = "done")

(* The sort implements the abstract order: FIFO choice of a ready field. *)
Abstract ==
  INSTANCE ReadyOrder WITH
    Fields <- Fields,
    calculated <- calculated, dependencies <- dependencies,
    order <- order, verdict <- verdict

ImplementsReadyOrder == Abstract!Spec
=============================================================================
