-------------------------- MODULE Analyzer_proofs --------------------------
(***************************************************************************)
(* Proofs about the analyzer of rules. DependencyOrder: for every number   *)
(* of fields and every dependency graph over them. RuleAnalysis: for every *)
(* set of forms and rules documents, whatever indexes are built of a form. *)
(***************************************************************************)
EXTENDS DependencyOrder, RuleAnalysis, FiniteSetTheorems, SequenceTheorems, NaturalsInduction,
        WellFoundedInduction, TLAPS

-----------------------------------------------------------------------------
(* The elements of a sequence under Append, Head and Tail. *)

LEMMA EmptySequence ==
  ToSet(<< >>) = {} /\ IsInjective(<< >>)
BY DEF ToSet, IsInjective

LEMMA AppendElement ==
  ASSUME NEW S, NEW s \in Seq(S), NEW e \in S
  PROVE  /\ Append(s, e) \in Seq(S)
         /\ Len(Append(s, e)) = Len(s) + 1
         /\ Append(s, e) # << >>
         /\ Append(s, e)[Len(s) + 1] = e
         /\ \A i \in 1..Len(s) : Append(s, e)[i] = s[i]
         /\ ToSet(Append(s, e)) = ToSet(s) \cup {e}
         /\ IsInjective(s) /\ e \notin ToSet(s) => IsInjective(Append(s, e))
BY DEF ToSet, IsInjective

LEMMA HeadAndTail ==
  ASSUME NEW S, NEW s \in Seq(S), s # << >>
  PROVE  /\ Head(s) \in S
         /\ Head(s) \in ToSet(s)
         /\ Tail(s) \in Seq(S)
         /\ ToSet(s) = ToSet(Tail(s)) \cup {Head(s)}
         /\ IsInjective(s) => /\ IsInjective(Tail(s))
                              /\ Head(s) \notin ToSet(Tail(s))
<1>1. /\ Len(s) \in Nat \ {0}
      /\ DOMAIN s = 1..Len(s)
      /\ Head(s) = s[1]
  BY EmptySeq, LenProperties
<1>2. /\ Head(s) \in S
      /\ Tail(s) \in Seq(S)
      /\ Len(Tail(s)) = Len(s) - 1
      /\ DOMAIN Tail(s) = 1..(Len(s) - 1)
      /\ \A i \in 1..(Len(s) - 1) : Tail(s)[i] = s[i + 1]
  BY <1>1, HeadTailProperties, LenProperties
<1>3. ToSet(s) = ToSet(Tail(s)) \cup {Head(s)}
  <2>1. ASSUME NEW i \in 1..Len(s) PROVE s[i] \in ToSet(Tail(s)) \cup {Head(s)}
    <3>1. CASE i = 1
      BY <3>1, <1>1
    <3>2. CASE i # 1
      <4>1. i - 1 \in 1..(Len(s) - 1) /\ Tail(s)[i - 1] = s[i]
        BY <3>2, <1>1, <1>2
      <4>2. QED
        BY <4>1, <1>2 DEF ToSet
    <3>3. QED
      BY <3>1, <3>2
  <2>2. ASSUME NEW i \in 1..(Len(s) - 1) PROVE Tail(s)[i] \in ToSet(s)
    BY <1>1, <1>2 DEF ToSet
  <2>3. Head(s) \in ToSet(s)
    BY <1>1 DEF ToSet
  <2>4. QED
    BY <2>1, <2>2, <2>3, <1>1, <1>2 DEF ToSet
<1>4. IsInjective(s) => IsInjective(Tail(s)) /\ Head(s) \notin ToSet(Tail(s))
  BY <1>1, <1>2 DEF ToSet, IsInjective
<1>5. QED
  BY <1>1, <1>2, <1>3, <1>4

(* A sequence without repetition is as long as the set of its elements. *)
LEMMA LengthOfInjective ==
  ASSUME NEW S, NEW s \in Seq(S), IsInjective(s)
  PROVE  IsFiniteSet(ToSet(s)) /\ Cardinality(ToSet(s)) = Len(s)
<1>1. Len(s) \in Nat /\ DOMAIN s = 1..Len(s) /\ s \in [1..Len(s) -> ToSet(s)]
  BY LenProperties DEF ToSet
<1>2. s \in Injection(1..Len(s), ToSet(s)) /\ s \in Surjection(1..Len(s), ToSet(s))
  BY <1>1 DEF Injection, Surjection, ToSet, IsInjective
<1>3. ExistsBijection(1..Len(s), ToSet(s))
  BY <1>2 DEF ExistsBijection, Bijection
<1>4. IsFiniteSet(1..Len(s)) /\ Cardinality(1..Len(s)) = Len(s)
  BY <1>1, FS_Interval
<1>5. QED
  BY <1>3, <1>4, FS_Bijection

-----------------------------------------------------------------------------
(* Facts about the state the proofs below use at every step. *)

LEMMA NeedsFinite ==
  ASSUME TypeOK, NEW f \in calculated
  PROVE  IsFiniteSet(Needs(f)) /\ IsFiniteSet(Outstanding(f))
<1>1. IsFiniteSet(Fields)
  BY NAssumption, FS_Interval DEF Fields
<1>2. Needs(f) \subseteq Fields /\ Outstanding(f) \subseteq Fields
  BY DEF TypeOK, Needs, Outstanding
<1>3. QED
  BY <1>1, <1>2, FS_Subset

(* A field nothing outstanding holds back has degree zero, and conversely. *)
LEMMA ReadyMeansNothingOutstanding ==
  ASSUME TypeOK, DegreeCountsOutstanding, phase # "count", NEW f \in calculated
  PROVE  inDegree[f] = 0 <=> Outstanding(f) = {}
BY NeedsFinite, FS_EmptySet DEF DegreeCountsOutstanding

(* Counting the dependencies of one field. *)
LEMMA CountStep ==
  ASSUME TypeOK, SortInvariant, CountDependencies
  PROVE  TypeOK' /\ SortInvariant'
<1> USE DEF TypeOK, SortInvariant, CountDependencies, input
<1>1. /\ scan \in Fields /\ scan + 1 \in 1..(N + 1)
      /\ order = << >> /\ queue = << >> /\ waiters = << >> /\ Placed = {}
  BY NAssumption, EmptySequence DEF OrderOnlyWhileSorting, Fields, Placed
<1>2. IsFiniteSet(Needs(scan)) /\ Cardinality(Needs(scan)) \in Nat
  BY NeedsFinite, FS_CardinalityType
<1>3. ASSUME NEW d \in calculated
      PROVE  /\ dependents'[d] \in Seq(calculated)
             /\ IsInjective(dependents'[d])
             /\ ToSet(dependents'[d]) =
                  {f \in calculated : d \in dependencies[f] /\ f < scan + 1}
  <2>1. /\ dependents[d] \in Seq(calculated)
        /\ IsInjective(dependents[d])
        /\ ToSet(dependents[d]) =
             {f \in calculated : d \in dependencies[f] /\ f < scan}
    BY DEF ReverseAdjacency
  <2>2. \A f \in calculated : f < scan + 1 <=> f < scan \/ f = scan
    BY <1>1 DEF Fields
  <2>3. CASE d \in dependencies[scan]
    <3>1. dependents'[d] = Append(dependents[d], scan)
      BY <2>3
    <3>2. scan \notin ToSet(dependents[d])
      BY <2>1, <1>1 DEF Fields
    <3>3. /\ dependents'[d] \in Seq(calculated)
          /\ IsInjective(dependents'[d])
          /\ ToSet(dependents'[d]) = ToSet(dependents[d]) \cup {scan}
      BY <2>1, <3>1, <3>2, AppendElement
    <3>4. QED
      BY <2>1, <2>2, <2>3, <3>3
  <2>4. CASE d \notin dependencies[scan]
    BY <2>1, <2>2, <2>4
  <2>5. QED
    BY <2>3, <2>4
<1>4. TypeOK'
  BY <1>1, <1>2, <1>3
<1>5. ReverseAdjacency'
  BY <1>3 DEF ReverseAdjacency
<1>6. DegreeCountsOutstanding'
  <2>1. SUFFICES ASSUME NEW f \in calculated
                 PROVE  IF f >= scan + 1 THEN inDegree'[f] = 0
                        ELSE inDegree'[f] = Cardinality(Outstanding(f)')
    BY DEF DegreeCountsOutstanding
  <2>2. Outstanding(f)' = Needs(f) /\ Outstanding(f) = Needs(f)
    BY <1>1 DEF Outstanding, Needs, Placed
  <2>3. CASE f = scan
    BY <2>2, <2>3, <1>1 DEF Fields
  <2>4. CASE f # scan
    BY <2>2, <2>4, <1>1 DEF Fields, DegreeCountsOutstanding
  <2>5. QED
    BY <2>3, <2>4
<1>7. ReadyAreQueued' /\ NoFieldTwice' /\ WaitersOfCurrent' /\ OrderOnlyWhileSorting'
  BY <1>1, EmptySequence
     DEF ReadyAreQueued, NoFieldTwice, WaitersOfCurrent, OrderOnlyWhileSorting, Placed
<1>8. QED
  BY <1>4, <1>5, <1>6, <1>7

(* Seeding the queue with one field. *)
LEMMA SeedStep ==
  ASSUME TypeOK, SortInvariant, SeedQueue
  PROVE  TypeOK' /\ SortInvariant'
<1> USE DEF TypeOK, SortInvariant, SeedQueue, input
<1>1. /\ scan \in Fields /\ scan + 1 \in 1..(N + 1)
      /\ order = << >> /\ waiters = << >> /\ Placed = {}
  BY NAssumption, EmptySequence DEF OrderOnlyWhileSorting, Fields, Placed
<1>2. /\ ToSet(queue) = {f \in calculated : f < scan /\ inDegree[f] = 0}
      /\ IsInjective(queue)
  BY <1>1 DEF ReadyAreQueued, NoFieldTwice
<1>3. \A f \in calculated : f < scan + 1 <=> f < scan \/ f = scan
  BY <1>1 DEF Fields
<1>4. /\ queue' \in Seq(calculated)
      /\ IsInjective(queue')
      /\ ToSet(queue') = {f \in calculated : f < scan + 1 /\ inDegree[f] = 0}
  <2>1. CASE inDegree[scan] = 0
    <3>1. scan \notin ToSet(queue) /\ queue' = Append(queue, scan)
      BY <1>1, <1>2, <2>1 DEF Fields
    <3>2. /\ queue' \in Seq(calculated)
          /\ IsInjective(queue')
          /\ ToSet(queue') = ToSet(queue) \cup {scan}
      BY <1>2, <3>1, AppendElement
    <3>3. QED
      BY <1>2, <1>3, <2>1, <3>2
  <2>2. CASE inDegree[scan] # 0
    BY <1>2, <1>3, <2>2
  <2>3. QED
    BY <2>1, <2>2
<1>5. TypeOK'
  BY <1>1, <1>4
<1>6. ReverseAdjacency' /\ DegreeCountsOutstanding'
  BY DEF ReverseAdjacency, DegreeCountsOutstanding, Outstanding, Needs, Placed
<1>7. ReadyAreQueued' /\ NoFieldTwice'
  BY <1>1, <1>4, EmptySequence DEF ReadyAreQueued, NoFieldTwice, Placed
<1>8. WaitersOfCurrent' /\ OrderOnlyWhileSorting'
  BY <1>1, EmptySequence DEF WaitersOfCurrent, OrderOnlyWhileSorting
<1>9. QED
  BY <1>5, <1>6, <1>7, <1>8

(* Passing over a field without a `calculate`, and moving to the next loop. *)
LEMMA ScanStep ==
  ASSUME TypeOK, SortInvariant, SkipInputField \/ NextLoop
  PROVE  TypeOK' /\ SortInvariant'
<1> USE DEF TypeOK, SortInvariant, SkipInputField, NextLoop, input
<1>1. /\ phase \in {"count", "seed"}
      /\ order = << >> /\ waiters = << >> /\ Placed = {}
  BY EmptySequence DEF OrderOnlyWhileSorting, Placed
<1>2. TypeOK'
  <2>1. CASE SkipInputField
    BY <2>1, NAssumption DEF Fields
  <2>2. CASE NextLoop
    <3>1. scan' \in 1..(N + 1) /\ phase' \in Phases
      BY <2>2, NAssumption DEF Phases
    <3>2. UNCHANGED <<calculated, dependencies, inDegree, dependents, queue, order,
                      waiters, verdict>>
      BY <2>2
    <3>3. QED
      BY <3>1, <3>2
  <2>3. QED
    BY <2>1, <2>2
<1>3. \A f \in calculated : /\ f < N + 1
                            /\ SkipInputField => (f < scan + 1 <=> f < scan)
                            /\ ~(f < 1)
  BY NAssumption DEF Fields
<1>4. ReverseAdjacency'
  BY <1>1, <1>3 DEF ReverseAdjacency
<1>5. DegreeCountsOutstanding'
  <2>1. \A f \in calculated : Outstanding(f)' = Outstanding(f)
    BY DEF Outstanding, Needs, Placed
  <2>2. QED
    BY <1>1, <1>3, <2>1 DEF DegreeCountsOutstanding, Fields
<1>6. ReadyAreQueued'
  BY <1>1, <1>3, EmptySequence DEF ReadyAreQueued, OrderOnlyWhileSorting, Placed
<1>7. NoFieldTwice' /\ WaitersOfCurrent' /\ OrderOnlyWhileSorting'
  BY <1>1, EmptySequence
     DEF NoFieldTwice, WaitersOfCurrent, OrderOnlyWhileSorting, Placed
<1>8. QED
  BY <1>2, <1>4, <1>5, <1>6, <1>7
(* Taking the next ready field: its dependents still count it as outstanding *)
(* until they are released, so no degree is wrong in between.                *)
LEMMA DequeueStep ==
  ASSUME TypeOK, SortInvariant, Dequeue
  PROVE  TypeOK' /\ SortInvariant'
<1> DEFINE next == Head(queue)
<1>1. /\ next \in calculated
      /\ next \in ToSet(queue)
      /\ Tail(queue) \in Seq(calculated)
      /\ ToSet(queue) = ToSet(Tail(queue)) \cup {next}
      /\ IsInjective(Tail(queue))
      /\ next \notin ToSet(Tail(queue))
  BY HeadAndTail DEF TypeOK, SortInvariant, NoFieldTwice, Dequeue
<1>2. /\ phase = "sort" /\ waiters = << >>
      /\ queue' = Tail(queue)
      /\ order' = Append(order, next)
      /\ waiters' = dependents[next]
      /\ UNCHANGED <<calculated, dependencies, phase, scan, inDegree, dependents, verdict>>
  BY DEF Dequeue, input
<1> HIDE DEF next
<1>3. next \notin Placed
  BY <1>1 DEF SortInvariant, NoFieldTwice
<1>4. /\ order' \in Seq(calculated)
      /\ order'[Len(order')] = next
      /\ Placed' = Placed \cup {next}
      /\ IsInjective(order')
      /\ order' # << >>
  <2>1. order \in Seq(calculated) /\ IsInjective(order) /\ next \notin ToSet(order)
    BY <1>3 DEF TypeOK, SortInvariant, NoFieldTwice, Placed
  <2>2. QED
    BY <1>1, <1>2, <2>1, AppendElement DEF Placed
<1>5. /\ waiters' \in Seq(calculated)
      /\ IsInjective(waiters')
      /\ ToSet(waiters') = {f \in calculated : next \in dependencies[f]}
  BY <1>1, <1>2 DEF TypeOK, SortInvariant, ReverseAdjacency
<1>6. TypeOK'
  <2>1. queue' \in Seq(calculated)
    BY <1>1, <1>2
  <2>2. QED
    BY <1>2, <1>4, <1>5, <2>1 DEF TypeOK
<1>7. ReverseAdjacency'
  BY <1>2 DEF SortInvariant, ReverseAdjacency
<1>8. \A f \in calculated : Outstanding(f)' = Outstanding(f)
  <2>1. TAKE f \in calculated
  <2>2. Outstanding(f) = Needs(f) \ Placed
    BY <1>2, EmptySequence DEF Outstanding
  <2>3. Needs(f)' = Needs(f)
    BY <1>2 DEF Needs
  <2>4. next \in Needs(f) => f \in ToSet(waiters')
    BY <1>5 DEF Needs
  <2>5. ASSUME NEW d \in Needs(f)
        PROVE  (d \notin Placed' \/ (d = order'[Len(order')] /\ f \in ToSet(waiters')))
                 <=> d \notin Placed
    BY <1>3, <1>4, <2>4
  <2>6. Outstanding(f)' =
          {d \in Needs(f) : d \notin Placed' \/ (d = order'[Len(order')] /\ f \in ToSet(waiters'))}
    BY <2>3 DEF Outstanding
  <2>7. QED
    BY <2>2, <2>5, <2>6
<1>9. DegreeCountsOutstanding'
  BY <1>2, <1>8 DEF SortInvariant, DegreeCountsOutstanding
<1>10. ReadyAreQueued' /\ NoFieldTwice'
  BY <1>1, <1>2, <1>3, <1>4 DEF SortInvariant, ReadyAreQueued, NoFieldTwice
<1>11. WaitersOfCurrent' /\ OrderOnlyWhileSorting'
  BY <1>2, <1>4, <1>5, EmptySequence
     DEF SortInvariant, WaitersOfCurrent, OrderOnlyWhileSorting
<1>12. QED
  BY <1>6, <1>7, <1>9, <1>10, <1>11 DEF SortInvariant

(* Releasing one waiter: one outstanding dependency less, and the field is  *)
(* queued exactly when that was the last one.                                *)
LEMMA ReleaseStep ==
  ASSUME TypeOK, SortInvariant, ReleaseWaiter
  PROVE  TypeOK' /\ SortInvariant'
<1> DEFINE current == order[Len(order)]
<1>0. PICK f \in calculated : f = Head(waiters)
  BY HeadAndTail DEF TypeOK, ReleaseWaiter
<1>1. /\ f \in ToSet(waiters)
      /\ Tail(waiters) \in Seq(calculated)
      /\ ToSet(waiters) = ToSet(Tail(waiters)) \cup {f}
      /\ IsInjective(Tail(waiters))
      /\ f \notin ToSet(Tail(waiters))
  BY <1>0, HeadAndTail DEF TypeOK, SortInvariant, WaitersOfCurrent, ReleaseWaiter
<1>2. /\ phase = "sort" /\ waiters # << >>
      /\ waiters' = Tail(waiters)
      /\ inDegree' = [inDegree EXCEPT ![f] = inDegree[f] - 1]
      /\ queue' = IF inDegree[f] = 1 THEN Append(queue, f) ELSE queue
      /\ UNCHANGED <<calculated, dependencies, phase, scan, dependents, order, verdict>>
  BY <1>0 DEF ReleaseWaiter, input
<1>3. current \in Needs(f) /\ current \in Placed
  <2>1. /\ order \in Seq(calculated) /\ order # << >>
        /\ ToSet(waiters) \subseteq ToSet(dependents[current])
    BY <1>2 DEF TypeOK, SortInvariant, WaitersOfCurrent
  <2>2. Len(order) \in 1..Len(order) /\ DOMAIN order = 1..Len(order)
    BY <2>1, LenProperties, EmptySeq
  <2>3. current \in calculated /\ current \in Placed
    BY <2>1, <2>2, ElementOfSeq DEF Placed, ToSet
  <2>4. current \in dependencies[f]
    BY <1>1, <2>1, <2>3 DEF SortInvariant, ReverseAdjacency
  <2>5. QED
    BY <2>3, <2>4 DEF Needs
<1>4. /\ current' = current /\ Placed' = Placed
      /\ \A g \in calculated : Needs(g)' = Needs(g)
  BY <1>2 DEF Placed, Needs
<1>5. \A g \in calculated :
        /\ Outstanding(g) = {d \in Needs(g) : \/ d \notin Placed
                                              \/ d = current /\ g \in ToSet(waiters)}
        /\ Outstanding(g)' = {d \in Needs(g) : \/ d \notin Placed
                                               \/ d = current /\ g \in ToSet(Tail(waiters))}
  BY <1>2, <1>4 DEF Outstanding
<1> HIDE DEF current
<1>6. Outstanding(f)' = Outstanding(f) \ {current} /\ current \in Outstanding(f)
  <2>1. Outstanding(f)' = {d \in Needs(f) : d \notin Placed}
    BY <1>1, <1>5
  <2>2. Outstanding(f) = {d \in Needs(f) : d \notin Placed \/ d = current}
    BY <1>1, <1>5
  <2>3. QED
    BY <2>1, <2>2, <1>3
<1>7. \A g \in calculated \ {f} : Outstanding(g)' = Outstanding(g)
  <2>1. TAKE g \in calculated \ {f}
  <2>2. g \in ToSet(waiters) <=> g \in ToSet(Tail(waiters))
    BY <1>1
  <2>3. QED
    BY <1>5, <2>2
<1>8. /\ inDegree[f] = Cardinality(Outstanding(f))
      /\ Cardinality(Outstanding(f)') = inDegree[f] - 1
      /\ inDegree[f] \in Nat \ {0}
  <2>1. inDegree[f] = Cardinality(Outstanding(f)) /\ inDegree[f] \in Nat
    BY <1>1, <1>2 DEF TypeOK, SortInvariant, DegreeCountsOutstanding
  <2>2. IsFiniteSet(Outstanding(f))
    BY <1>1, NeedsFinite
  <2>3. inDegree[f] # 0
    BY <1>6, <2>1, <2>2, FS_EmptySet
  <2>4. Cardinality(Outstanding(f) \ {current}) = Cardinality(Outstanding(f)) - 1
    BY <1>6, <2>2, FS_RemoveElement
  <2>5. QED
    BY <1>6, <2>1, <2>3, <2>4
<1>9. f \notin ToSet(queue) /\ f \notin Placed
  BY <1>1, <1>8 DEF SortInvariant, ReadyAreQueued
<1>10. /\ inDegree' \in [calculated -> Nat]
       /\ inDegree'[f] = inDegree[f] - 1
       /\ \A g \in calculated \ {f} : inDegree'[g] = inDegree[g]
  BY <1>1, <1>2, <1>8 DEF TypeOK
<1>11. /\ queue' \in Seq(calculated)
       /\ IsInjective(queue')
       /\ ToSet(queue') = IF inDegree[f] = 1 THEN ToSet(queue) \cup {f} ELSE ToSet(queue)
  <2>1. queue \in Seq(calculated) /\ IsInjective(queue)
    BY DEF TypeOK, SortInvariant, NoFieldTwice
  <2>2. /\ Append(queue, f) \in Seq(calculated)
        /\ IsInjective(Append(queue, f))
        /\ ToSet(Append(queue, f)) = ToSet(queue) \cup {f}
    BY <1>1, <1>9, <2>1, AppendElement
  <2>3. QED
    BY <1>2, <2>1, <2>2
<1>12. TypeOK'
  BY <1>1, <1>2, <1>10, <1>11 DEF TypeOK
<1>13. ReverseAdjacency'
  BY <1>2 DEF SortInvariant, ReverseAdjacency
<1>14. DegreeCountsOutstanding'
  <2>1. SUFFICES ASSUME NEW g \in calculated
                 PROVE  inDegree'[g] = Cardinality(Outstanding(g)')
    BY <1>2 DEF DegreeCountsOutstanding
  <2>2. CASE g = f
    BY <1>8, <1>10, <2>2
  <2>3. CASE g # f
    BY <1>2, <1>7, <1>10, <2>3 DEF SortInvariant, DegreeCountsOutstanding
  <2>4. QED
    BY <2>2, <2>3
<1>15. ReadyAreQueued'
  <2>1. ToSet(queue) \cup Placed = {g \in calculated : inDegree[g] = 0}
    BY <1>2 DEF SortInvariant, ReadyAreQueued
  <2>2. \A g \in calculated : inDegree'[g] = 0 <=>
           inDegree[g] = 0 \/ (g = f /\ inDegree[f] = 1)
    BY <1>8, <1>10
  <2>3. ToSet(queue') \cup Placed' = {g \in calculated : inDegree'[g] = 0}
    BY <1>1, <1>4, <1>11, <2>1, <2>2
  <2>4. QED
    BY <1>2, <2>3 DEF ReadyAreQueued
<1>16. NoFieldTwice'
  BY <1>2, <1>4, <1>9, <1>11 DEF SortInvariant, NoFieldTwice
<1>17. WaitersOfCurrent' /\ OrderOnlyWhileSorting'
  BY <1>1, <1>2 DEF SortInvariant, WaitersOfCurrent, OrderOnlyWhileSorting
<1>18. QED
  BY <1>12, <1>13, <1>14, <1>15, <1>16, <1>17 DEF SortInvariant

LEMMA ConcludeStep ==
  ASSUME TypeOK, SortInvariant, Conclude
  PROVE  TypeOK' /\ SortInvariant'
<1> USE DEF TypeOK, SortInvariant, Conclude, input
<1>1. TypeOK'
  BY DEF Phases
<1>2. ReverseAdjacency'
  BY DEF ReverseAdjacency
<1>3. DegreeCountsOutstanding'
  BY DEF DegreeCountsOutstanding, Outstanding, Needs, Placed
<1>4. ReadyAreQueued' /\ NoFieldTwice' /\ WaitersOfCurrent' /\ OrderOnlyWhileSorting'
  BY DEF ReadyAreQueued, NoFieldTwice, WaitersOfCurrent, OrderOnlyWhileSorting, Placed
<1>5. QED
  BY <1>1, <1>2, <1>3, <1>4

LEMMA InitInvariant ==
  Init => TypeOK /\ SortInvariant
<1> SUFFICES ASSUME Init PROVE TypeOK /\ SortInvariant
  OBVIOUS
<1> USE DEF Init, TypeOK, SortInvariant
<1>1. TypeOK
  BY NAssumption DEF Phases
<1>2. \A f \in calculated : ~(f < 1)
  BY DEF Fields
<1>3. ReverseAdjacency
  BY <1>2, EmptySequence DEF ReverseAdjacency
<1>4. DegreeCountsOutstanding
  BY <1>2 DEF DegreeCountsOutstanding, Fields
<1>5. ReadyAreQueued /\ NoFieldTwice /\ WaitersOfCurrent /\ OrderOnlyWhileSorting
  BY EmptySequence
     DEF ReadyAreQueued, NoFieldTwice, WaitersOfCurrent, OrderOnlyWhileSorting, Placed
<1>6. QED
  BY <1>1, <1>3, <1>4, <1>5

LEMMA NextInvariant ==
  TypeOK /\ SortInvariant /\ [Next]_vars => TypeOK' /\ SortInvariant'
<1>1. ASSUME TypeOK, SortInvariant, UNCHANGED vars
      PROVE  TypeOK' /\ SortInvariant'
  <2>1. TypeOK' /\ ReverseAdjacency'
    BY <1>1 DEF vars, TypeOK, SortInvariant, ReverseAdjacency
  <2>2. DegreeCountsOutstanding'
    BY <1>1 DEF vars, SortInvariant, DegreeCountsOutstanding, Outstanding, Needs, Placed
  <2>3. ReadyAreQueued' /\ NoFieldTwice' /\ WaitersOfCurrent' /\ OrderOnlyWhileSorting'
    BY <1>1 DEF vars, SortInvariant, ReadyAreQueued, NoFieldTwice, WaitersOfCurrent,
                OrderOnlyWhileSorting, Placed
  <2>4. QED
    BY <2>1, <2>2, <2>3 DEF SortInvariant
<1>2. QED
  BY <1>1, CountStep, SeedStep, ScanStep, DequeueStep, ReleaseStep, ConcludeStep DEF Next

(* The sort's bookkeeping is sound: every degree counts exactly the         *)
(* dependencies not yet discounted, no decrement passes zero, the queue and *)
(* the order hold exactly the fields of degree zero, each of them once.     *)
THEOREM SortInvariantHolds == Spec => [](TypeOK /\ SortInvariant)
BY InitInvariant, NextInvariant, PTL DEF Spec
(* The state of the sort is well typed in every run: in particular no       *)
(* `*degree -= 1` takes an unsigned degree below zero.                      *)
THEOREM TypeCorrect == Spec => []TypeOK
BY SortInvariantHolds, PTL

THEOREM SortBookkeeping == Spec => []SortInvariant
BY SortInvariantHolds, PTL

-----------------------------------------------------------------------------
(* The order. *)

LEMMA ReadyHasNeedsPlaced ==
  ASSUME TypeOK, SortInvariant, Dequeue
  PROVE  Needs(Head(queue)) \subseteq Placed
<1>1. /\ Head(queue) \in calculated
      /\ Head(queue) \in ToSet(queue)
  BY HeadAndTail DEF TypeOK, Dequeue
<1>2. inDegree[Head(queue)] = 0
  BY <1>1 DEF SortInvariant, ReadyAreQueued, Dequeue
<1>3. Outstanding(Head(queue)) = {}
  BY <1>1, <1>2, ReadyMeansNothingOutstanding DEF SortInvariant, Dequeue
<1>4. QED
  BY <1>3 DEF Outstanding

LEMMA DependenciesFirstStep ==
  ASSUME TypeOK, SortInvariant, DependenciesFirst, [Next]_vars
  PROVE  DependenciesFirst'
<1>1. CASE Dequeue
  <2>1. /\ order \in Seq(calculated) /\ Len(order) \in Nat
        /\ DOMAIN order = 1..Len(order)
    BY LenProperties DEF TypeOK
  <2>2. /\ order' \in Seq(calculated)
        /\ Len(order') = Len(order) + 1
        /\ DOMAIN order' = 1..(Len(order) + 1)
        /\ order'[Len(order) + 1] = Head(queue)
        /\ \A i \in 1..Len(order) : order'[i] = order[i]
    <3>1. Head(queue) \in calculated /\ order' = Append(order, Head(queue))
      BY <1>1, HeadAndTail DEF TypeOK, Dequeue
    <3>2. QED
      BY <2>1, <3>1, AppendElement, LenProperties
  <2>3. \A f \in calculated : Needs(f)' = Needs(f)
    BY <1>1 DEF Dequeue, input, Needs
  <2>4. \A d \in Needs(Head(queue)) : \E j \in 1..Len(order) : order[j] = d
    BY <1>1, <2>1, ReadyHasNeedsPlaced DEF Placed, ToSet
  <2>5. SUFFICES ASSUME NEW i \in 1..(Len(order) + 1), NEW d \in Needs(order[i])'
                 PROVE  \E j \in 1..(i - 1) : order'[j] = d
    BY <2>2 DEF DependenciesFirst
  <2>6. order'[i] \in calculated
    BY <1>1, <2>2, ElementOfSeq DEF Dequeue, input
  <2>7. d \in dependencies[order'[i]] /\ d \in calculated
    BY <1>1 DEF Needs, Dequeue, input
  <2>8. CASE i = Len(order) + 1
    BY <2>1, <2>2, <2>4, <2>7, <2>8 DEF Needs
  <2>9. CASE i # Len(order) + 1
    <3>1. i \in DOMAIN order /\ order'[i] = order[i]
      BY <2>1, <2>2, <2>9
    <3>2. PICK j \in 1..(i - 1) : order[j] = d
      BY <2>7, <3>1 DEF DependenciesFirst, Needs
    <3>3. QED
      BY <2>1, <2>2, <3>1, <3>2
  <2>10. QED
    BY <2>8, <2>9
<1>2. CASE ~Dequeue
  <2>1. UNCHANGED <<calculated, dependencies, order>>
    BY <1>2 DEF Next, vars, CountDependencies, SeedQueue, SkipInputField, NextLoop,
                ReleaseWaiter, Conclude, input
  <2>2. QED
    BY <2>1 DEF DependenciesFirst, Needs
<1>3. QED
  BY <1>1, <1>2

(* Every calculated value an expression reads is computed before it, for    *)
(* every rules document: `apply_calculations` reads `working_values`         *)
(* without asking whether the value is already there.                       *)
THEOREM DependenciesComeFirst == Spec => []DependenciesFirst
<1>1. Init => DependenciesFirst
  BY DEF Init, DependenciesFirst
<1>2. TypeOK /\ SortInvariant /\ DependenciesFirst /\ [Next]_vars => DependenciesFirst'
  BY DependenciesFirstStep
<1>3. QED
  BY <1>1, <1>2, SortInvariantHolds, PTL DEF Spec
-----------------------------------------------------------------------------
(* The cycle verdict. *)

LEMMA CyclicNeverPlacedStep ==
  ASSUME TypeOK, SortInvariant, SortInvariant', CyclicNeverPlaced, [Next]_vars
  PROVE  CyclicNeverPlaced'
<1> SUFFICES ASSUME NEW C \in SUBSET calculated', Deadlocked(C)', NEW f \in C,
                    f \in Placed' \cup ToSet(queue')
             PROVE  FALSE
  BY DEF CyclicNeverPlaced
<1>1. UNCHANGED <<calculated, dependencies>>
  BY DEF Next, vars, CountDependencies, SeedQueue, SkipInputField, NextLoop, Dequeue,
         ReleaseWaiter, Conclude, input
<1>2. Deadlocked(C) /\ C \subseteq calculated
  BY <1>1 DEF Deadlocked, Needs
<1>3. C \cap (Placed \cup ToSet(queue)) = {}
  BY <1>2 DEF CyclicNeverPlaced
<1>4. PICK d \in Needs(f) : d \in C
  BY <1>2 DEF Deadlocked
<1>5. d \notin Placed /\ f \notin Placed /\ f \notin ToSet(queue)
  BY <1>3, <1>4
<1>6. \/ phase # "count" /\ inDegree[f] = 0
      \/ ReleaseWaiter /\ f = Head(waiters) /\ inDegree[f] = 1
  <2>1. CASE CountDependencies
    BY <1>3, <2>1 DEF CountDependencies, Placed
  <2>2. CASE SeedQueue
    <3>1. CASE inDegree[scan] = 0
      <4>1. ToSet(queue') = ToSet(queue) \cup {scan} /\ Placed' = Placed
        BY <2>2, <3>1, AppendElement DEF SeedQueue, TypeOK, Placed
      <4>2. QED
        BY <1>3, <2>2, <3>1, <4>1 DEF SeedQueue
    <3>2. CASE inDegree[scan] # 0
      BY <1>3, <2>2, <3>2 DEF SeedQueue, Placed
    <3>3. QED
      BY <3>1, <3>2
  <2>3. CASE SkipInputField
    BY <1>3, <2>3 DEF SkipInputField, Placed
  <2>4. CASE NextLoop
    BY <1>3, <2>4 DEF NextLoop, Placed
  <2>5. CASE Dequeue
    <3>1. Head(queue) \in calculated /\ ToSet(queue) = ToSet(Tail(queue)) \cup {Head(queue)}
      BY <2>5, HeadAndTail DEF Dequeue, TypeOK
    <3>2. Placed' = Placed \cup {Head(queue)}
      BY <2>5, <3>1, AppendElement DEF Dequeue, TypeOK, Placed
    <3>3. QED
      BY <1>3, <2>5, <3>1, <3>2 DEF Dequeue
  <2>6. CASE ReleaseWaiter
    <3>1. Head(waiters) \in calculated
      BY <2>6, HeadAndTail DEF ReleaseWaiter, TypeOK
    <3>2. CASE inDegree[Head(waiters)] = 1
      <4>1. ToSet(queue') = ToSet(queue) \cup {Head(waiters)} /\ Placed' = Placed
        BY <2>6, <3>1, <3>2, AppendElement DEF ReleaseWaiter, TypeOK, Placed
      <4>2. QED
        BY <1>3, <2>6, <3>2, <4>1
    <3>3. CASE inDegree[Head(waiters)] # 1
      BY <1>3, <2>6, <3>3 DEF ReleaseWaiter, Placed
    <3>4. QED
      BY <3>2, <3>3
  <2>7. CASE Conclude
    BY <1>3, <2>7 DEF Conclude, Placed
  <2>8. CASE UNCHANGED vars
    BY <1>3, <2>8 DEF vars, Placed
  <2>9. QED
    BY <2>1, <2>2, <2>3, <2>4, <2>5, <2>6, <2>7, <2>8 DEF Next
<1>7. CASE phase # "count" /\ inDegree[f] = 0
  BY <1>2, <1>4, <1>5, <1>7, ReadyMeansNothingOutstanding DEF Outstanding, SortInvariant
<1>8. CASE ReleaseWaiter /\ f = Head(waiters) /\ inDegree[f] = 1
  <2>1. waiters # << >> /\ f \in ToSet(waiters) /\ f \in calculated
    BY <1>8, HeadAndTail DEF ReleaseWaiter, TypeOK
  <2>2. order # << >> /\ ToSet(waiters) \subseteq ToSet(dependents[order[Len(order)]])
        /\ phase = "sort"
    BY <2>1 DEF SortInvariant, WaitersOfCurrent
  <2>3. order[Len(order)] \in Placed /\ order[Len(order)] \in calculated
    BY <2>2, EmptySeq, LenProperties, ElementOfSeq DEF TypeOK, Placed, ToSet
  <2>4. order[Len(order)] \in Outstanding(f) /\ d \in Outstanding(f)
    BY <1>4, <1>5, <2>1, <2>2, <2>3 DEF SortInvariant, ReverseAdjacency, Outstanding, Needs
  <2>5. order[Len(order)] # d
    BY <1>5, <2>3
  <2>6. IsFiniteSet(Outstanding(f)) /\ Cardinality(Outstanding(f)) = 1
    BY <1>8, <2>1, <2>2, NeedsFinite DEF SortInvariant, DegreeCountsOutstanding
  <2>7. Cardinality(Outstanding(f) \ {d}) = 0 /\ IsFiniteSet(Outstanding(f) \ {d})
    BY <2>4, <2>6, FS_RemoveElement
  <2>8. Outstanding(f) \ {d} = {}
    BY <2>7, FS_EmptySet
  <2>9. QED
    BY <2>4, <2>5, <2>8
<1>9. QED
  BY <1>6, <1>7, <1>8

(* No field of a dependency cycle, and none that reads from one, is ever    *)
(* ready: the partial order `evaluate_core` may run on holds only fields     *)
(* whose inputs are complete.                                                *)
THEOREM CyclesAreNeverPlaced == Spec => []CyclicNeverPlaced
<1>1. Init => CyclicNeverPlaced
  BY EmptySequence DEF Init, CyclicNeverPlaced, Placed
<1>2. TypeOK /\ SortInvariant /\ (TypeOK /\ SortInvariant)' /\ CyclicNeverPlaced /\ [Next]_vars
        => CyclicNeverPlaced'
  BY CyclicNeverPlacedStep
<1>3. QED
  BY <1>1, <1>2, SortInvariantHolds, PTL DEF Spec
(* Comparing two lengths is enough to see whether a field was left out. *)
LEMMA LengthComparesSets ==
  ASSUME TypeOK, SortInvariant
  PROVE  Len(order) = Cardinality(calculated) <=> Placed = calculated
<1>1. IsFiniteSet(calculated)
  <2>1. IsFiniteSet(Fields)
    BY NAssumption, FS_Interval DEF Fields
  <2>2. QED
    BY <2>1, FS_Subset DEF TypeOK
<1>2. Placed \subseteq calculated
  BY LenProperties, ElementOfSeq DEF TypeOK, Placed, ToSet
<1>3. Cardinality(Placed) = Len(order)
  BY LengthOfInjective DEF TypeOK, SortInvariant, NoFieldTwice, Placed
<1>4. QED
  BY <1>1, <1>2, <1>3, FS_Subset

(* The fields left out when the queue runs dry hold each other up. *)
LEMMA LeftOverIsDeadlocked ==
  ASSUME TypeOK, SortInvariant, phase \in {"sort", "done"},
         queue = << >>, waiters = << >>, Placed # calculated
  PROVE  Deadlocked(calculated \ Placed)
<1>1. Placed = {f \in calculated : inDegree[f] = 0}
  BY EmptySequence DEF SortInvariant, ReadyAreQueued
<1>2. ASSUME NEW f \in calculated \ Placed
      PROVE  Needs(f) \cap (calculated \ Placed) # {}
  <2>1. Outstanding(f) # {}
    BY <1>1, ReadyMeansNothingOutstanding DEF SortInvariant
  <2>2. QED
    BY <2>1, EmptySequence DEF Outstanding, Needs
<1>3. QED
  BY <1>1, <1>2 DEF Deadlocked

VerdictReadsOrder ==
  phase = "done" => (verdict = "cyclic" <=> Placed # calculated)

LEMMA VerdictReadsOrderHolds == Spec => []VerdictReadsOrder
<1>1. Init => VerdictReadsOrder
  BY DEF Init, VerdictReadsOrder
<1>2. TypeOK /\ SortInvariant /\ VerdictReadsOrder /\ [Next]_vars => VerdictReadsOrder'
  <2> SUFFICES ASSUME TypeOK, SortInvariant, VerdictReadsOrder, [Next]_vars
               PROVE  VerdictReadsOrder'
    OBVIOUS
  <2>1. CASE Conclude
    BY <2>1, LengthComparesSets DEF Conclude, input, VerdictReadsOrder, Placed
  <2>2. CASE UNCHANGED vars
    BY <2>2 DEF vars, VerdictReadsOrder, Placed
  <2>3. CASE Next /\ ~Conclude
    BY <2>3 DEF Next, CountDependencies, SeedQueue, SkipInputField, NextLoop, Dequeue,
                ReleaseWaiter, VerdictReadsOrder
  <2>4. QED
    BY <2>1, <2>2, <2>3
<1>3. QED
  BY <1>1, <1>2, SortInvariantHolds, PTL DEF Spec

(* RULE_CYCLIC_DEPENDENCY is reported for exactly the rules documents whose *)
(* calculated fields cannot all be ordered: no cycle is missed, and a        *)
(* document without one is never refused.                                    *)
THEOREM CycleVerdictIsExact == Spec => []CycleVerdictExact
<1>1. TypeOK /\ SortInvariant /\ CyclicNeverPlaced /\ VerdictReadsOrder => CycleVerdictExact
  <2> SUFFICES ASSUME TypeOK, SortInvariant, CyclicNeverPlaced, VerdictReadsOrder, phase = "done"
               PROVE  verdict = "cyclic" <=> \E C \in SUBSET calculated : Deadlocked(C)
    BY DEF CycleVerdictExact
  <2>1. queue = << >> /\ waiters = << >>
    BY DEF SortInvariant, OrderOnlyWhileSorting
  <2>2. Placed # calculated => \E C \in SUBSET calculated : Deadlocked(C)
    BY <2>1, LeftOverIsDeadlocked
  <2>3. ASSUME NEW C \in SUBSET calculated, Deadlocked(C)
        PROVE  Placed # calculated
    BY <2>3 DEF CyclicNeverPlaced, Deadlocked
  <2>4. QED
    BY <2>2, <2>3 DEF VerdictReadsOrder
<1>2. QED
  BY <1>1, SortInvariantHolds, CyclesAreNeverPlaced, VerdictReadsOrderHolds, PTL

-----------------------------------------------------------------------------
(* The queue and the degrees are one way of finding the next ready field:   *)
(* every step of the sort is a step of the abstract order or leaves it       *)
(* alone.                                                                    *)
THEOREM ReadyOrderImplemented == Spec => ImplementsReadyOrder
<1>1. Init => Abstract!Init
  BY DEF Init, Abstract!Init
<1>2. TypeOK /\ SortInvariant /\ [Next]_vars => [Abstract!Next]_Abstract!vars
  <2> SUFFICES ASSUME TypeOK, SortInvariant, [Next]_vars
               PROVE  [Abstract!Next]_Abstract!vars
    OBVIOUS
  <2>0. Abstract!Placed = Placed
    BY DEF Abstract!Placed, Placed, ToSet
  <2>1. CASE Dequeue
    <3>1. /\ Head(queue) \in calculated
          /\ Head(queue) \in ToSet(queue)
      BY <2>1, HeadAndTail DEF TypeOK, Dequeue
    <3>2. Head(queue) \notin Placed
      BY <3>1 DEF SortInvariant, NoFieldTwice
    <3>3. Needs(Head(queue)) \subseteq Placed
      BY <2>1, ReadyHasNeedsPlaced
    <3>4. verdict = "pending" /\ UNCHANGED <<calculated, dependencies, verdict>>
          /\ order' = Append(order, Head(queue))
      BY <2>1 DEF Dequeue, input, SortInvariant, OrderOnlyWhileSorting
    <3>5. Abstract!Place(Head(queue))
      BY <2>0, <3>1, <3>2, <3>3, <3>4 DEF Abstract!Place, Abstract!Needs, Needs
    <3>6. QED
      BY <3>1, <3>5 DEF Abstract!Next
  <2>2. CASE Conclude
    <3>1. verdict = "pending" /\ UNCHANGED <<calculated, dependencies, order>>
          /\ queue = << >> /\ waiters = << >> /\ phase = "sort"
      BY <2>2 DEF Conclude, input, SortInvariant, OrderOnlyWhileSorting
    <3>2. CASE Placed = calculated
      <4>1. verdict' = "ordered"
        BY <2>2, <3>2, LengthComparesSets DEF Conclude
      <4>2. QED
        BY <2>0, <3>1, <3>2, <4>1 DEF Abstract!Next, Abstract!Accept
    <3>3. CASE Placed # calculated
      <4>1. verdict' = "cyclic"
        BY <2>2, <3>3, LengthComparesSets DEF Conclude
      <4>2. Deadlocked(calculated \ Placed)
        BY <3>1, <3>3, LeftOverIsDeadlocked
      <4>3. Abstract!Deadlocked(calculated \ Abstract!Placed)
        BY <2>0, <4>2 DEF Deadlocked, Abstract!Deadlocked, Needs, Abstract!Needs
      <4>4. QED
        BY <3>1, <4>1, <4>3 DEF Abstract!Next, Abstract!Reject
    <3>4. QED
      BY <3>2, <3>3
  <2>3. CASE (Next /\ ~Dequeue /\ ~Conclude) \/ UNCHANGED vars
    BY <2>3 DEF Next, vars, CountDependencies, SeedQueue, SkipInputField, NextLoop,
                ReleaseWaiter, input, Abstract!vars
  <2>4. QED
    BY <2>1, <2>2, <2>3
<1>3. QED
  BY <1>1, <1>2, SortInvariantHolds, PTL DEF Spec, ImplementsReadyOrder, Abstract!Spec

-----------------------------------------------------------------------------
(* Induction and recursion over the numbers up to a bound. *)

LEMMA SetInduction ==
  ASSUME NEW S \in SUBSET Nat, 0 \in S, \A n \in S : n + 1 \in S
  PROVE  S = Nat
<1> SUFFICES ASSUME Nat \ S # {} PROVE FALSE
  OBVIOUS
<1> DEFINE R == {ss \in Nat \X Nat : ss[1] < ss[2]}
<1>1. OpToRel(<, Nat) = R
  BY DEF OpToRel
<1>2. IsWellFoundedOn(R, Nat)
  BY <1>1, NatLessThanWellFounded, Zenon
<1>3. PICK m \in Nat \ S : \A n \in Nat \ S : <<n, m>> \notin R
  <2> HIDE DEF R
  <2> QED
    BY <1>2, WFMin, Zenon
<1>4. \A n \in Nat \ S : ~(n < m)
  BY <1>3
<1>5. m # 0 /\ m - 1 \in Nat /\ m - 1 < m
  OBVIOUS
<1>6. m - 1 \in S
  BY <1>4, <1>5
<1> QED
  BY <1>5, <1>6

(* A function that starts with `base` and goes on by `step`, up to last.           *)
Recursion(f, last, base, step) == f = [n \in 0..last |-> IF n = 0 THEN base ELSE step[n][f[n - 1]]]

(* There is one, as long as the steps stay in V.                                *)
LEMMA RecursionExists ==
  ASSUME NEW last \in Nat, NEW V, NEW base \in V,
         NEW step, \A n \in 1..last : \A v \in V : step[n][v] \in V
  PROVE  \E f \in [0..last -> V] : Recursion(f, last, base, step)
<1> DEFINE Good(f, m) == /\ f \in [0..m -> V]
                         /\ \A n \in 0..m : f[n] = IF n = 0 THEN base ELSE step[n][f[n - 1]]
           S == {m \in Nat : m <= last => \E f : Good(f, m)}
<1>1. 0 \in S
  <2>1. Good([n \in 0..0 |-> base], 0)
    OBVIOUS
  <2> QED
    BY <2>1
<1>2. ASSUME NEW m \in S PROVE m + 1 \in S
  <2> SUFFICES ASSUME m + 1 <= last PROVE \E f : Good(f, m + 1)
    OBVIOUS
  <2>1. m \in Nat /\ m <= last
    OBVIOUS
  <2>2. PICK f : Good(f, m)
    BY <2>1
  <2> DEFINE g == [n \in 0..m + 1 |-> IF n = m + 1 THEN step[m + 1][f[m]] ELSE f[n]]
  <2>3. g[m + 1] = step[m + 1][f[m]] /\ \A n \in 0..m : g[n] = f[n]
    BY <2>1
  <2>4. f[m] \in V /\ g[m + 1] \in V
    BY <2>1, <2>2, <2>3
  <2>5. g \in [0..m + 1 -> V]
    BY <2>1, <2>2, <2>4
  <2> HIDE DEF g
  <2>6. ASSUME NEW n \in 0..m + 1 PROVE g[n] = IF n = 0 THEN base ELSE step[n][g[n - 1]]
    <3>1. CASE n = m + 1
      <4>1. n # 0 /\ n - 1 = m /\ m \in 0..m
        BY <2>1, <3>1
      <4> QED
        BY <2>3, <3>1, <4>1
    <3>2. CASE n # m + 1
      <4>1. n \in 0..m /\ (n = 0 \/ n - 1 \in 0..m)
        BY <2>1, <3>2
      <4> QED
        BY <2>2, <2>3, <4>1
    <3> QED
      BY <3>1, <3>2
  <2>7. Good(g, m + 1)
    BY <2>5, <2>6
  <2> QED
    BY <2>7
<1>3. S = Nat
  <2> HIDE DEF S
  <2>1. S \in SUBSET Nat
    BY DEF S
  <2> QED
    BY <1>1, <1>2, <2>1, SetInduction
<1>4. PICK f : Good(f, last)
  BY <1>3
<1>5. f = [n \in 0..last |-> f[n]]
  BY <1>4
<1> QED
  BY <1>4, <1>5 DEF Recursion

(* What a loop goes through: values in V, the k-th in P[k].                      *)
LEMMA ThroughKeeps ==
  ASSUME NEW V, NEW start \in V, NEW steps, Len(steps) \in Nat,
         \A k \in 1..Len(steps) : \A v \in V : steps[k][v] \in V,
         NEW P, start \in P[0],
         \A k \in 1..Len(steps) : \A v \in V : v \in P[k - 1] => steps[k][v] \in P[k]
  PROVE  Through(steps, start) \in V /\ Through(steps, start) \in P[Len(steps)]
<1> DEFINE after == CHOOSE f : Recursion(f, Len(steps), start, steps)
<1>1. PICK f \in [0..Len(steps) -> V] : Recursion(f, Len(steps), start, steps)
  BY RecursionExists
<1>2. Recursion(after, Len(steps), start, steps)
  <2> HIDE DEF Recursion
  <2> QED
    BY <1>1
<1>3. Through(steps, start) = after[Len(steps)]
  BY DEF Through, Recursion
<1> HIDE DEF after
<1>4. \A k \in 0..Len(steps) : after[k] = IF k = 0 THEN start ELSE steps[k][after[k - 1]]
  BY <1>2 DEF Recursion
<1> DEFINE S == {k \in Nat : k <= Len(steps) => after[k] \in V /\ after[k] \in P[k]}
<1>5. 0 \in S
  BY <1>4
<1>6. ASSUME NEW k \in S PROVE k + 1 \in S
  <2> SUFFICES ASSUME k + 1 <= Len(steps) PROVE after[k + 1] \in V /\ after[k + 1] \in P[k + 1]
    OBVIOUS
  <2>1. k + 1 \in 1..Len(steps) /\ k + 1 \in 0..Len(steps) /\ (k + 1) - 1 = k /\ k + 1 # 0
    OBVIOUS
  <2>2. after[k] \in V /\ after[k] \in P[k]
    OBVIOUS
  <2>3. after[k + 1] = steps[k + 1][after[k]]
    BY <1>4, <2>1
  <2> QED
    BY <2>1, <2>2, <2>3
<1>7. S = Nat
  <2> HIDE DEF S
  <2>1. S \in SUBSET Nat
    BY DEF S
  <2> QED
    BY <1>5, <1>6, <2>1, SetInduction
<1> QED
  BY <1>3, <1>7

(* What is in P at the start of a loop and what each step keeps in P, as values   *)
(* that only grow: what any step made is still there at the end.                  *)
LEMMA LoopGathers ==
  ASSUME NEW X, NEW start \in SUBSET X, NEW steps, Len(steps) \in Nat,
         \A k \in 1..Len(steps) : \A v \in SUBSET X : steps[k][v] \in SUBSET X /\ v \subseteq steps[k][v]
  PROVE  /\ Through(steps, start) \in SUBSET X
         /\ start \subseteq Through(steps, start)
         /\ \A j \in 1..Len(steps) : \E v \in SUBSET X : steps[j][v] \subseteq Through(steps, start)
<1>1. Through(steps, start) \in SUBSET X /\ start \subseteq Through(steps, start)
  <2> DEFINE P == [k \in 0..Len(steps) |-> {v \in SUBSET X : start \subseteq v}]
  <2>1. \A k \in 0..Len(steps) : P[k] = {v \in SUBSET X : start \subseteq v}
    OBVIOUS
  <2>2. start \in P[0]
    OBVIOUS
  <2>3. \A k \in 1..Len(steps) : \A v \in SUBSET X : v \in P[k - 1] => steps[k][v] \in P[k]
    <3>1. \A k \in 1..Len(steps) : k - 1 \in 0..Len(steps) /\ k \in 0..Len(steps)
      OBVIOUS
    <3> QED
      BY <2>1, <3>1
  <2> HIDE DEF P
  <2>4. Through(steps, start) \in SUBSET X /\ Through(steps, start) \in P[Len(steps)]
    BY <2>2, <2>3, ThroughKeeps
  <2> QED
    BY <2>1, <2>4
<1>2. ASSUME NEW j \in 1..Len(steps)
      PROVE  \E v \in SUBSET X : steps[j][v] \subseteq Through(steps, start)
  <2> DEFINE Later == {v \in SUBSET X : \E u \in SUBSET X : steps[j][u] \subseteq v}
             P == [k \in 0..Len(steps) |-> IF k < j THEN SUBSET X ELSE Later]
  <2>1. \A k \in 0..Len(steps) : P[k] = IF k < j THEN SUBSET X ELSE Later
    OBVIOUS
  <2>2. start \in P[0]
    OBVIOUS
  <2>3. ASSUME NEW k \in 1..Len(steps), NEW v \in SUBSET X, v \in P[k - 1] PROVE steps[k][v] \in P[k]
    <3>1. steps[k][v] \in SUBSET X /\ v \subseteq steps[k][v]
      OBVIOUS
    <3>2. k \in 0..Len(steps) /\ k - 1 \in 0..Len(steps)
      OBVIOUS
    <3>3. CASE k < j
      BY <2>1, <3>1, <3>2, <3>3
    <3>4. CASE k = j
      <4>1. steps[k][v] \in Later
        BY <3>1, <3>4
      <4> QED
        BY <2>1, <3>2, <3>4, <4>1
    <3>5. CASE k > j
      <4>1. ~(k - 1 < j) /\ ~(k < j)
        BY <3>5, <3>2
      <4>2. v \in Later
        BY <2>1, <2>3, <3>2, <4>1
      <4>3. steps[k][v] \in Later
        BY <3>1, <4>2
      <4> QED
        BY <2>1, <3>2, <4>1, <4>3
    <3> QED
      BY <3>3, <3>4, <3>5
  <2> HIDE DEF P
  <2>4. Through(steps, start) \in P[Len(steps)]
    BY <2>2, <2>3, ThroughKeeps
  <2>5. Len(steps) \in 0..Len(steps) /\ ~(Len(steps) < j)
    OBVIOUS
  <2>6. P[Len(steps)] = Later
    BY <2>1, <2>5
  <2> QED
    BY <2>4, <2>6
<1> QED
  BY <1>1, <1>2

(* Levels that go by one step from each to the next.                              *)
LEMMA LevelsExist ==
  ASSUME NEW V, NEW base \in V, NEW next \in [V -> V]
  PROVE  \E f \in [0..MaxNesting -> V] :
           f[0] = base /\ \A l \in 1..MaxNesting : f[l] = next[f[l - 1]]
<1> DEFINE step == [l \in 1..MaxNesting |-> next]
<1>1. MaxNesting \in Nat
  BY ExpressionsAssumption
<1>2. \A l \in 1..MaxNesting : \A v \in V : step[l][v] \in V
  OBVIOUS
<1>3. \A l \in 1..MaxNesting : step[l] = next
  OBVIOUS
<1> HIDE DEF step
<1>4. PICK f \in [0..MaxNesting -> V] : Recursion(f, MaxNesting, base, step)
  BY <1>1, <1>2, RecursionExists
<1>5. \A l \in 0..MaxNesting : f[l] = IF l = 0 THEN base ELSE step[l][f[l - 1]]
  BY <1>4 DEF Recursion
<1> QED
  BY <1>1, <1>3, <1>5

LEMMA NestingLevels ==
  /\ NestsIn \in [0..MaxNesting -> [Expressions -> BOOLEAN]]
  /\ \A e \in Expressions : ~NestsIn[0][e]
  /\ \A l \in 1..MaxNesting : \A e \in Expressions :
       NestsIn[l][e] = (e.args # None => \A i \in DOMAIN e.args : NestsIn[l - 1][e.args[i]])
<1> DEFINE V == [Expressions -> BOOLEAN]
           base == [e \in Expressions |-> FALSE]
           next == [v \in V |-> [e \in Expressions |-> e.args # None => \A i \in DOMAIN e.args : v[e.args[i]]]]
           Is(f) == f = [l \in 0..MaxNesting |-> [e \in Expressions |->
                           /\ l > 0
                           /\ e.args # None => \A i \in DOMAIN e.args : f[l - 1][e.args[i]]]]
<1>1. base \in V /\ next \in [V -> V]
  OBVIOUS
<1>2. PICK f \in [0..MaxNesting -> V] : f[0] = base /\ \A l \in 1..MaxNesting : f[l] = next[f[l - 1]]
  <2> HIDE DEF V, base, next
  <2> QED
    BY <1>1, LevelsExist
<1>3. MaxNesting \in Nat /\ \A l \in 1..MaxNesting : l - 1 \in 0..MaxNesting
  BY ExpressionsAssumption
<1>4. ASSUME NEW l \in 0..MaxNesting, NEW e \in Expressions
      PROVE  f[l][e] = (l > 0 /\ (e.args # None => \A i \in DOMAIN e.args : f[l - 1][e.args[i]]))
  <2>1. CASE l = 0
    BY <1>2, <2>1
  <2>2. CASE l # 0
    <3>1. l \in 1..MaxNesting /\ l > 0
      BY <1>3, <2>2
    <3>2. f[l] = next[f[l - 1]] /\ f[l - 1] \in V
      BY <1>2, <1>3, <3>1
    <3> QED
      BY <3>1, <3>2, Zenon
  <2> QED
    BY <2>1, <2>2
<1>5. Is(f)
  <2>1. f = [l \in 0..MaxNesting |-> [e \in Expressions |-> f[l][e]]]
    BY <1>2
  <2> QED
    BY <1>4, <2>1, Zenon
<1>6. Is(NestsIn)
  <2> HIDE DEF Is
  <2>1. NestsIn = CHOOSE g : Is(g)
    BY DEF NestsIn, Is
  <2> QED
    BY <1>5, <2>1
<1>7. ASSUME NEW l \in 0..MaxNesting, NEW e \in Expressions
      PROVE  NestsIn[l][e] = (l > 0 /\ (e.args # None => \A i \in DOMAIN e.args : NestsIn[l - 1][e.args[i]]))
  <2>1. NestsIn[l] = [d \in Expressions |->
                        /\ l > 0
                        /\ d.args # None => \A i \in DOMAIN d.args : NestsIn[l - 1][d.args[i]]]
    BY <1>6, Zenon
  <2> QED
    BY <2>1, Zenon
<1>8. NestsIn \in [0..MaxNesting -> V]
  BY <1>6
<1>9. ASSUME NEW e \in Expressions PROVE ~NestsIn[0][e]
  <2>1. 0 \in 0..MaxNesting /\ ~(0 > 0)
    BY <1>3
  <2> QED
    BY <1>7, <2>1, Zenon
<1>10. \A l \in 1..MaxNesting : l \in 0..MaxNesting /\ l > 0
  BY <1>3
<1> QED
  BY <1>7, <1>8, <1>9, <1>10

(* The first of some errors is one of them.                                       *)
LEMMA FirstErrorIsOne ==
  ASSUME NEW n \in Nat, NEW verdicts, DOMAIN verdicts = 1..n
  PROVE  \/ FirstError(verdicts) = None /\ \A i \in 1..n : verdicts[i] = None
         \/ \E i \in 1..n : verdicts[i] # None /\ FirstError(verdicts) = verdicts[i]
<1> DEFINE failed == {i \in 1..n : verdicts[i] # None}
<1>1. CASE failed = {}
  BY <1>1 DEF FirstError
<1>2. CASE failed # {}
  <2> DEFINE R == {ss \in Nat \X Nat : ss[1] < ss[2]}
  <2>1. OpToRel(<, Nat) = R
    BY DEF OpToRel
  <2>2. IsWellFoundedOn(R, Nat)
    BY <2>1, NatLessThanWellFounded, Zenon
  <2>3. failed \subseteq Nat /\ failed # {}
    BY <1>2
  <2>4. PICK m \in failed : \A i \in failed : <<i, m>> \notin R
    <3> HIDE DEF R, failed
    <3> QED
      BY <2>2, <2>3, WFMin, Zenon
  <2>5. ASSUME NEW i \in failed PROVE m <= i
    <3>1. m \in Nat /\ i \in Nat
      BY <2>3
    <3>2. ~(i < m)
      BY <2>4, <3>1
    <3> QED
      BY <3>1, <3>2
  <2>6. \E i \in failed : \A j \in failed : i <= j
    BY <2>5
  <2>7. FirstError(verdicts) = verdicts[CHOOSE i \in failed : \A j \in failed : i <= j]
    BY <1>2 DEF FirstError
  <2>8. (CHOOSE i \in failed : \A j \in failed : i <= j) \in failed
    <3> HIDE DEF failed
    <3> QED
      BY <2>6
  <2> QED
    BY <2>7, <2>8
<1> QED
  BY <1>1, <1>2

LEMMA ArgumentsAreExpressions ==
  ASSUME NEW e \in Expressions
  PROVE  /\ e.args # None => e.args \in Seq(Expressions)
         /\ Operands(e) \in Seq(Expressions)
         /\ e.ref \in Codes
BY ExpressionsAssumption DEF Operands, Codes

(* What a check of an expression may answer.                                      *)
Verdicts == ErrorCodes \cup {None}

LEMMA ErrorsAreVerdicts ==
  /\ None \in Verdicts
  /\ \A code \in ErrorCodes : code \in Verdicts /\ code # None
BY NoneAssumption DEF Verdicts

LEMMA ShapeErrorTyped ==
  ASSUME NEW below \in [Expressions -> Verdicts], NEW node \in Expressions
  PROVE  ShapeError(below, node) \in Verdicts
<1> DEFINE verdicts == [i \in DOMAIN node.args |-> ArgumentError(below, node.args[i])]
<1>1. CASE node.args \in Seq(Expressions)
  <2>1. Len(node.args) \in Nat /\ DOMAIN verdicts = 1..Len(node.args)
    BY <1>1
  <2>2. \A i \in 1..Len(node.args) : node.args[i] \in Expressions /\ verdicts[i] = ArgumentError(below, node.args[i])
    BY <1>1
  <2>3. ASSUME NEW i \in 1..Len(node.args) PROVE verdicts[i] \in Verdicts
    <3>1. below[node.args[i]] \in Verdicts
      BY <2>2
    <3>2. "RULE_INVALID_EXPRESSION" \in Verdicts
      BY ErrorsAreVerdicts DEF ErrorCodes
    <3>3. ArgumentError(below, node.args[i]) \in Verdicts
      BY <3>1, <3>2 DEF ArgumentError
    <3> QED
      BY <2>2, <3>3
  <2>4. FirstError(verdicts) \in Verdicts
    <3> HIDE DEF verdicts
    <3> QED
      BY <2>1, <2>3, FirstErrorIsOne DEF Verdicts
  <2> HIDE DEF verdicts
  <2>5. node.args # None => ShapeError(below, node) = FirstError(verdicts) \/ ShapeError(below, node) \in Verdicts
    BY ErrorsAreVerdicts DEF ShapeError, ErrorCodes, verdicts
  <2>6. node.args = None => ShapeError(below, node) \in Verdicts
    BY ErrorsAreVerdicts DEF ShapeError, ErrorCodes
  <2> QED
    BY <2>4, <2>5, <2>6
<1>2. CASE node.args = None
  BY <1>2, ErrorsAreVerdicts DEF ShapeError, ErrorCodes
<1> QED
  BY <1>1, <1>2, ArgumentsAreExpressions

LEMMA ShapeLevels ==
  \A l \in 1..MaxNesting : \A e \in Expressions : ShapeErrors[l][e] = ShapeError(ShapeErrors[l - 1], e)
<1> DEFINE V == [Expressions -> Verdicts]
           base == [e \in Expressions |-> None]
           next == [v \in V |-> [e \in Expressions |-> ShapeError(v, e)]]
           Is(f) == f = [l \in 0..MaxNesting |-> [e \in Expressions |->
                           IF l = 0 THEN None ELSE ShapeError(f[l - 1], e)]]
<1>1. base \in V /\ next \in [V -> V]
  BY ShapeErrorTyped DEF Verdicts
<1>2. PICK f \in [0..MaxNesting -> V] : f[0] = base /\ \A l \in 1..MaxNesting : f[l] = next[f[l - 1]]
  <2> HIDE DEF V, base, next
  <2> QED
    BY <1>1, LevelsExist
<1>3. MaxNesting \in Nat /\ \A l \in 1..MaxNesting : l - 1 \in 0..MaxNesting
  BY ExpressionsAssumption
<1>4. ASSUME NEW l \in 0..MaxNesting, NEW e \in Expressions
      PROVE  f[l][e] = IF l = 0 THEN None ELSE ShapeError(f[l - 1], e)
  <2>1. CASE l = 0
    BY <1>2, <2>1
  <2>2. CASE l # 0
    <3>1. l \in 1..MaxNesting
      BY <1>3, <2>2
    <3>2. f[l] = next[f[l - 1]] /\ f[l - 1] \in V
      BY <1>2, <1>3, <3>1
    <3> QED
      BY <2>2, <3>2, Zenon
  <2> QED
    BY <2>1, <2>2
<1>5. Is(f)
  <2>1. f = [l \in 0..MaxNesting |-> [e \in Expressions |-> f[l][e]]]
    BY <1>2
  <2> QED
    BY <1>4, <2>1, Zenon
<1>6. Is(ShapeErrors)
  <2> HIDE DEF Is
  <2>1. ShapeErrors = CHOOSE g : Is(g)
    BY DEF ShapeErrors, Is
  <2> QED
    BY <1>5, <2>1
<1>7. ASSUME NEW l \in 0..MaxNesting
      PROVE  ShapeErrors[l] = [e \in Expressions |-> IF l = 0 THEN None ELSE ShapeError(ShapeErrors[l - 1], e)]
  BY <1>6, Zenon
<1>8. ASSUME NEW l \in 1..MaxNesting, NEW e \in Expressions
       PROVE  ShapeErrors[l][e] = ShapeError(ShapeErrors[l - 1], e)
  <2>1. l \in 0..MaxNesting /\ l # 0
    BY <1>3
  <2> QED
    BY <1>7, <2>1, Zenon
<1> QED
  BY <1>8


(* Levels that start in V and go on by a step that stays there are all in V.      *)
LEMMA LevelsStay ==
  ASSUME NEW V, NEW f, f[0] \in V, \A l \in 1..MaxNesting : f[l - 1] \in V => f[l] \in V
  PROVE  \A l \in 0..MaxNesting : f[l] \in V
<1> DEFINE S == {k \in Nat : k <= MaxNesting => f[k] \in V}
<1>1. MaxNesting \in Nat
  BY ExpressionsAssumption
<1>2. 0 \in S
  OBVIOUS
<1>3. ASSUME NEW k \in S PROVE k + 1 \in S
  <2> SUFFICES ASSUME k + 1 <= MaxNesting PROVE f[k + 1] \in V
    OBVIOUS
  <2>1. k \in Nat /\ k <= MaxNesting /\ k + 1 \in 1..MaxNesting /\ (k + 1) - 1 = k
    BY <1>1
  <2> QED
    BY <2>1
<1>4. S = Nat
  <2> HIDE DEF S
  <2>1. S \in SUBSET Nat
    BY DEF S
  <2> QED
    BY <1>2, <1>3, <2>1, SetInduction
<1>5. \A l \in 0..MaxNesting : l \in S /\ l <= MaxNesting
  BY <1>1, <1>4
<1> QED
  BY <1>5

-----------------------------------------------------------------------------
(* The collectors. *)

(* What makes more of the codes seen, of codes of expressions.                    *)
Gathering == {g \in [SUBSET Codes -> SUBSET Codes] : \A seen \in SUBSET Codes : seen \subseteq g[seen]}
Gatherers == [Expressions -> Gathering]

(* what any operand made of some codes is among what all of them made *)
LEMMA OperandsGather ==
  ASSUME NEW below \in Gatherers, NEW node \in Expressions, NEW seen \in SUBSET Codes
  PROVE  LET all == OfOperands(below, node, seen)
         IN  /\ all \in SUBSET Codes
             /\ seen \subseteq all
             /\ node.args # None => \A i \in DOMAIN node.args : \E s \in SUBSET Codes :
                                      below[node.args[i]][s] \subseteq all
<1> DEFINE args == Operands(node)
           steps == [i \in DOMAIN args |-> below[args[i]]]
<1>1. args \in Seq(Expressions) /\ (node.args # None => args = node.args)
  BY ArgumentsAreExpressions DEF Operands
<1> HIDE DEF args
<1>2. Len(args) \in Nat /\ DOMAIN args = 1..Len(args) /\ Len(steps) = Len(args)
  BY <1>1
<1>3. ASSUME NEW k \in 1..Len(args), NEW v \in SUBSET Codes
      PROVE  steps[k][v] \in SUBSET Codes /\ v \subseteq steps[k][v]
  <2>1. args[k] \in Expressions /\ steps[k] = below[args[k]]
    BY <1>1, <1>2
  <2>2. below[args[k]] \in Gathering
    BY <2>1 DEF Gatherers
  <2> QED
    BY <2>1, <2>2 DEF Gathering
<1>4. \A i \in 1..Len(args) : steps[i] = below[args[i]]
  BY <1>2
<1>5. OfOperands(below, node, seen) = Through(steps, seen)
  BY DEF OfOperands, args
<1> HIDE DEF steps
<1>6. /\ Through(steps, seen) \in SUBSET Codes
      /\ seen \subseteq Through(steps, seen)
      /\ \A j \in 1..Len(steps) : \E v \in SUBSET Codes : steps[j][v] \subseteq Through(steps, seen)
  BY <1>2, <1>3, LoopGathers
<1>7. node.args # None => \A i \in DOMAIN node.args : \E s \in SUBSET Codes :
                             below[node.args[i]][s] \subseteq Through(steps, seen)
  <2> SUFFICES ASSUME node.args # None, NEW i \in DOMAIN node.args
               PROVE  \E s \in SUBSET Codes : below[node.args[i]][s] \subseteq Through(steps, seen)
    OBVIOUS
  <2>1. i \in 1..Len(steps) /\ steps[i] = below[node.args[i]]
    BY <1>1, <1>2, <1>4
  <2> QED
    BY <1>6, <2>1
<1> QED
  BY <1>5, <1>6, <1>7

LEMMA CollectorsGather ==
  ASSUME NEW below \in Gatherers, NEW node \in Expressions, NEW seen \in SUBSET Codes
  PROVE  /\ Collect(below, node, seen) \in SUBSET Codes /\ seen \subseteq Collect(below, node, seen)
         /\ CollectDirect(below, node, seen) \in SUBSET Codes /\ seen \subseteq CollectDirect(below, node, seen)
         /\ CollectTargets(below, node, seen) \in SUBSET Codes /\ seen \subseteq CollectTargets(below, node, seen)
<1>1. /\ OfOperands(below, node, seen) \in SUBSET Codes
      /\ seen \subseteq OfOperands(below, node, seen)
  BY OperandsGather
<1>2. seen \cup {node.ref} \in SUBSET Codes
  BY ArgumentsAreExpressions
<1>3. Operands(node) # << >> => Head(node.args).ref \in Codes
  <2> SUFFICES ASSUME Operands(node) # << >> PROVE Head(node.args).ref \in Codes
    OBVIOUS
  <2>1. node.args # None /\ node.args = Operands(node)
    BY DEF Operands
  <2>2. Head(node.args) \in Expressions
    BY <2>1, ArgumentsAreExpressions
  <2> QED
    BY <2>2, ArgumentsAreExpressions
<1>4. Collect(below, node, seen) \in SUBSET Codes /\ seen \subseteq Collect(below, node, seen)
  BY <1>1, <1>2 DEF Collect
<1>5. CollectDirect(below, node, seen) \in SUBSET Codes /\ seen \subseteq CollectDirect(below, node, seen)
  BY <1>1, <1>2 DEF CollectDirect
<1>6. CollectTargets(below, node, seen) \in SUBSET Codes /\ seen \subseteq CollectTargets(below, node, seen)
  BY <1>1, <1>3 DEF CollectTargets
<1> QED
  BY <1>4, <1>5, <1>6

LEMMA CollectedLevels ==
  /\ \A l \in 0..MaxNesting : Collected[l] \in Gatherers
  /\ \A l \in 1..MaxNesting : \A node \in Expressions : \A seen \in SUBSET Codes :
       Collected[l][node][seen] = Collect(Collected[l - 1], node, seen)
<1> DEFINE Level(v) == [node \in Expressions |-> [seen \in SUBSET Codes |-> Collect(v, node, seen)]]
           base == [node \in Expressions |-> [seen \in SUBSET Codes |-> seen]]
           next == [v \in Gatherers |-> Level(v)]
           Is(f) == f = [l \in 0..MaxNesting |-> [node \in Expressions |-> [seen \in SUBSET Codes |->
                           IF l = 0 THEN seen ELSE Collect(f[l - 1], node, seen)]]]
<1>1. ASSUME NEW v \in Gatherers PROVE Level(v) \in Gatherers
  <2>1. ASSUME NEW node \in Expressions PROVE Level(v)[node] \in Gathering
    BY CollectorsGather DEF Gathering
  <2> QED
    BY <2>1 DEF Gatherers
<1>2. base \in Gatherers
  BY DEF Gatherers, Gathering
<1>3. PICK f \in [0..MaxNesting -> Gatherers] :
        f[0] = base /\ \A l \in 1..MaxNesting : f[l] = next[f[l - 1]]
  <2>1. next \in [Gatherers -> Gatherers]
    BY <1>1
  <2> HIDE DEF base, next
  <2> QED
    BY <1>2, <2>1, LevelsExist
<1>4. MaxNesting \in Nat /\ \A l \in 1..MaxNesting : l \in 0..MaxNesting /\ l # 0 /\ l - 1 \in 0..MaxNesting
  BY ExpressionsAssumption
<1>5. ASSUME NEW l \in 0..MaxNesting, NEW node \in Expressions, NEW seen \in SUBSET Codes
      PROVE  f[l][node][seen] = IF l = 0 THEN seen ELSE Collect(f[l - 1], node, seen)
  <2>1. CASE l = 0
    BY <1>3, <2>1
  <2>2. CASE l # 0
    <3>1. l \in 1..MaxNesting
      BY <1>4, <2>2
    <3>2. f[l] = next[f[l - 1]] /\ f[l - 1] \in Gatherers
      BY <1>3, <1>4, <3>1
    <3>3. f[l] = Level(f[l - 1])
      BY <3>2
    <3>4. f[l][node] = [s \in SUBSET Codes |-> Collect(f[l - 1], node, s)]
      BY <3>3
    <3> QED
      BY <2>2, <3>4
  <2> QED
    BY <2>1, <2>2
<1>6. Is(f)
  <2>1. ASSUME NEW l \in 0..MaxNesting
        PROVE  f[l] = [node \in Expressions |-> [seen \in SUBSET Codes |->
                         IF l = 0 THEN seen ELSE Collect(f[l - 1], node, seen)]]
    <3> HIDE DEF base, next, Is, Level
    <3>1. f[l] \in Gatherers
      BY <1>3
    <3>2. f[l] = [node \in Expressions |-> f[l][node]]
      BY <3>1 DEF Gatherers
    <3>3. ASSUME NEW node \in Expressions
          PROVE  f[l][node] = [seen \in SUBSET Codes |->
                                 IF l = 0 THEN seen ELSE Collect(f[l - 1], node, seen)]
      <4>1. f[l][node] = [seen \in SUBSET Codes |-> f[l][node][seen]]
        BY <3>1 DEF Gatherers, Gathering
      <4> QED
        BY <1>5, <4>1, Zenon
    <3> QED
      BY <3>2, <3>3, Zenon
  <2>2. f = [l \in 0..MaxNesting |-> f[l]]
    BY <1>3
  <2> QED
    BY <2>1, <2>2, Zenon
<1>7. Is(Collected)
  <2> HIDE DEF Is
  <2>1. Collected = CHOOSE g : Is(g)
    BY DEF Collected, Is
  <2> QED
    BY <1>6, <2>1
<1>8. ASSUME NEW l \in 0..MaxNesting
      PROVE  Collected[l] = [node \in Expressions |-> [seen \in SUBSET Codes |->
                                IF l = 0 THEN seen ELSE Collect(Collected[l - 1], node, seen)]]
  BY <1>7, Zenon
<1>9. Collected[0] = base
  <2>1. 0 \in 0..MaxNesting
    BY <1>4
  <2> QED
    BY <1>8, <2>1, Zenon
<1>10. ASSUME NEW l \in 1..MaxNesting PROVE Collected[l] = Level(Collected[l - 1])
  <2>1. l \in 0..MaxNesting /\ (l = 0) = FALSE
    BY <1>4
  <2>2. Collected[l] = [node \in Expressions |-> [seen \in SUBSET Codes |->
                         IF l = 0 THEN seen ELSE Collect(Collected[l - 1], node, seen)]]
    BY <1>8, <2>1, Zenon
  <2> QED
    BY <2>1, <2>2
<1>11. \A l \in 0..MaxNesting : Collected[l] \in Gatherers
  <2>1. \A l \in 1..MaxNesting : Collected[l - 1] \in Gatherers => Collected[l] \in Gatherers
    BY <1>1, <1>10, Zenon
  <2> HIDE DEF base, Level
  <2> QED
    BY <1>2, <1>9, <2>1, LevelsStay
<1>12. ASSUME NEW l \in 1..MaxNesting, NEW node \in Expressions, NEW seen \in SUBSET Codes
       PROVE  Collected[l][node][seen] = Collect(Collected[l - 1], node, seen)
  <2>1. Collected[l] = Level(Collected[l - 1])
    BY <1>10
  <2>2. Collected[l][node] = [s \in SUBSET Codes |-> Collect(Collected[l - 1], node, s)]
    BY <2>1
  <2> QED
    BY <2>2
<1> QED
  BY <1>11, <1>12

LEMMA CollectedDirectLevels ==
  /\ \A l \in 0..MaxNesting : CollectedDirect[l] \in Gatherers
  /\ \A l \in 1..MaxNesting : \A node \in Expressions : \A seen \in SUBSET Codes :
       CollectedDirect[l][node][seen] = CollectDirect(CollectedDirect[l - 1], node, seen)
<1> DEFINE Level(v) == [node \in Expressions |-> [seen \in SUBSET Codes |-> CollectDirect(v, node, seen)]]
           base == [node \in Expressions |-> [seen \in SUBSET Codes |-> seen]]
           next == [v \in Gatherers |-> Level(v)]
           Is(f) == f = [l \in 0..MaxNesting |-> [node \in Expressions |-> [seen \in SUBSET Codes |->
                           IF l = 0 THEN seen ELSE CollectDirect(f[l - 1], node, seen)]]]
<1>1. ASSUME NEW v \in Gatherers PROVE Level(v) \in Gatherers
  <2>1. ASSUME NEW node \in Expressions PROVE Level(v)[node] \in Gathering
    BY CollectorsGather DEF Gathering
  <2> QED
    BY <2>1 DEF Gatherers
<1>2. base \in Gatherers
  BY DEF Gatherers, Gathering
<1>3. PICK f \in [0..MaxNesting -> Gatherers] :
        f[0] = base /\ \A l \in 1..MaxNesting : f[l] = next[f[l - 1]]
  <2>1. next \in [Gatherers -> Gatherers]
    BY <1>1
  <2> HIDE DEF base, next
  <2> QED
    BY <1>2, <2>1, LevelsExist
<1>4. MaxNesting \in Nat /\ \A l \in 1..MaxNesting : l \in 0..MaxNesting /\ l # 0 /\ l - 1 \in 0..MaxNesting
  BY ExpressionsAssumption
<1>5. ASSUME NEW l \in 0..MaxNesting, NEW node \in Expressions, NEW seen \in SUBSET Codes
      PROVE  f[l][node][seen] = IF l = 0 THEN seen ELSE CollectDirect(f[l - 1], node, seen)
  <2>1. CASE l = 0
    BY <1>3, <2>1
  <2>2. CASE l # 0
    <3>1. l \in 1..MaxNesting
      BY <1>4, <2>2
    <3>2. f[l] = next[f[l - 1]] /\ f[l - 1] \in Gatherers
      BY <1>3, <1>4, <3>1
    <3>3. f[l] = Level(f[l - 1])
      BY <3>2
    <3>4. f[l][node] = [s \in SUBSET Codes |-> CollectDirect(f[l - 1], node, s)]
      BY <3>3
    <3> QED
      BY <2>2, <3>4
  <2> QED
    BY <2>1, <2>2
<1>6. Is(f)
  <2>1. ASSUME NEW l \in 0..MaxNesting
        PROVE  f[l] = [node \in Expressions |-> [seen \in SUBSET Codes |->
                         IF l = 0 THEN seen ELSE CollectDirect(f[l - 1], node, seen)]]
    <3> HIDE DEF base, next, Is, Level
    <3>1. f[l] \in Gatherers
      BY <1>3
    <3>2. f[l] = [node \in Expressions |-> f[l][node]]
      BY <3>1 DEF Gatherers
    <3>3. ASSUME NEW node \in Expressions
          PROVE  f[l][node] = [seen \in SUBSET Codes |->
                                 IF l = 0 THEN seen ELSE CollectDirect(f[l - 1], node, seen)]
      <4>1. f[l][node] = [seen \in SUBSET Codes |-> f[l][node][seen]]
        BY <3>1 DEF Gatherers, Gathering
      <4> QED
        BY <1>5, <4>1, Zenon
    <3> QED
      BY <3>2, <3>3, Zenon
  <2>2. f = [l \in 0..MaxNesting |-> f[l]]
    BY <1>3
  <2> QED
    BY <2>1, <2>2, Zenon
<1>7. Is(CollectedDirect)
  <2> HIDE DEF Is
  <2>1. CollectedDirect = CHOOSE g : Is(g)
    BY DEF CollectedDirect, Is
  <2> QED
    BY <1>6, <2>1
<1>8. ASSUME NEW l \in 0..MaxNesting
      PROVE  CollectedDirect[l] = [node \in Expressions |-> [seen \in SUBSET Codes |->
                                IF l = 0 THEN seen ELSE CollectDirect(CollectedDirect[l - 1], node, seen)]]
  BY <1>7, Zenon
<1>9. CollectedDirect[0] = base
  <2>1. 0 \in 0..MaxNesting
    BY <1>4
  <2> QED
    BY <1>8, <2>1, Zenon
<1>10. ASSUME NEW l \in 1..MaxNesting PROVE CollectedDirect[l] = Level(CollectedDirect[l - 1])
  <2>1. l \in 0..MaxNesting /\ (l = 0) = FALSE
    BY <1>4
  <2>2. CollectedDirect[l] = [node \in Expressions |-> [seen \in SUBSET Codes |->
                         IF l = 0 THEN seen ELSE CollectDirect(CollectedDirect[l - 1], node, seen)]]
    BY <1>8, <2>1, Zenon
  <2> QED
    BY <2>1, <2>2
<1>11. \A l \in 0..MaxNesting : CollectedDirect[l] \in Gatherers
  <2>1. \A l \in 1..MaxNesting : CollectedDirect[l - 1] \in Gatherers => CollectedDirect[l] \in Gatherers
    BY <1>1, <1>10, Zenon
  <2> HIDE DEF base, Level
  <2> QED
    BY <1>2, <1>9, <2>1, LevelsStay
<1>12. ASSUME NEW l \in 1..MaxNesting, NEW node \in Expressions, NEW seen \in SUBSET Codes
       PROVE  CollectedDirect[l][node][seen] = CollectDirect(CollectedDirect[l - 1], node, seen)
  <2>1. CollectedDirect[l] = Level(CollectedDirect[l - 1])
    BY <1>10
  <2>2. CollectedDirect[l][node] = [s \in SUBSET Codes |-> CollectDirect(CollectedDirect[l - 1], node, s)]
    BY <2>1
  <2> QED
    BY <2>2
<1> QED
  BY <1>11, <1>12

LEMMA CollectedTargetsLevels ==
  /\ \A l \in 0..MaxNesting : CollectedTargets[l] \in Gatherers
  /\ \A l \in 1..MaxNesting : \A node \in Expressions : \A seen \in SUBSET Codes :
       CollectedTargets[l][node][seen] = CollectTargets(CollectedTargets[l - 1], node, seen)
<1> DEFINE Level(v) == [node \in Expressions |-> [seen \in SUBSET Codes |-> CollectTargets(v, node, seen)]]
           base == [node \in Expressions |-> [seen \in SUBSET Codes |-> seen]]
           next == [v \in Gatherers |-> Level(v)]
           Is(f) == f = [l \in 0..MaxNesting |-> [node \in Expressions |-> [seen \in SUBSET Codes |->
                           IF l = 0 THEN seen ELSE CollectTargets(f[l - 1], node, seen)]]]
<1>1. ASSUME NEW v \in Gatherers PROVE Level(v) \in Gatherers
  <2>1. ASSUME NEW node \in Expressions PROVE Level(v)[node] \in Gathering
    BY CollectorsGather DEF Gathering
  <2> QED
    BY <2>1 DEF Gatherers
<1>2. base \in Gatherers
  BY DEF Gatherers, Gathering
<1>3. PICK f \in [0..MaxNesting -> Gatherers] :
        f[0] = base /\ \A l \in 1..MaxNesting : f[l] = next[f[l - 1]]
  <2>1. next \in [Gatherers -> Gatherers]
    BY <1>1
  <2> HIDE DEF base, next
  <2> QED
    BY <1>2, <2>1, LevelsExist
<1>4. MaxNesting \in Nat /\ \A l \in 1..MaxNesting : l \in 0..MaxNesting /\ l # 0 /\ l - 1 \in 0..MaxNesting
  BY ExpressionsAssumption
<1>5. ASSUME NEW l \in 0..MaxNesting, NEW node \in Expressions, NEW seen \in SUBSET Codes
      PROVE  f[l][node][seen] = IF l = 0 THEN seen ELSE CollectTargets(f[l - 1], node, seen)
  <2>1. CASE l = 0
    BY <1>3, <2>1
  <2>2. CASE l # 0
    <3>1. l \in 1..MaxNesting
      BY <1>4, <2>2
    <3>2. f[l] = next[f[l - 1]] /\ f[l - 1] \in Gatherers
      BY <1>3, <1>4, <3>1
    <3>3. f[l] = Level(f[l - 1])
      BY <3>2
    <3>4. f[l][node] = [s \in SUBSET Codes |-> CollectTargets(f[l - 1], node, s)]
      BY <3>3
    <3> QED
      BY <2>2, <3>4
  <2> QED
    BY <2>1, <2>2
<1>6. Is(f)
  <2>1. ASSUME NEW l \in 0..MaxNesting
        PROVE  f[l] = [node \in Expressions |-> [seen \in SUBSET Codes |->
                         IF l = 0 THEN seen ELSE CollectTargets(f[l - 1], node, seen)]]
    <3> HIDE DEF base, next, Is, Level
    <3>1. f[l] \in Gatherers
      BY <1>3
    <3>2. f[l] = [node \in Expressions |-> f[l][node]]
      BY <3>1 DEF Gatherers
    <3>3. ASSUME NEW node \in Expressions
          PROVE  f[l][node] = [seen \in SUBSET Codes |->
                                 IF l = 0 THEN seen ELSE CollectTargets(f[l - 1], node, seen)]
      <4>1. f[l][node] = [seen \in SUBSET Codes |-> f[l][node][seen]]
        BY <3>1 DEF Gatherers, Gathering
      <4> QED
        BY <1>5, <4>1, Zenon
    <3> QED
      BY <3>2, <3>3, Zenon
  <2>2. f = [l \in 0..MaxNesting |-> f[l]]
    BY <1>3
  <2> QED
    BY <2>1, <2>2, Zenon
<1>7. Is(CollectedTargets)
  <2> HIDE DEF Is
  <2>1. CollectedTargets = CHOOSE g : Is(g)
    BY DEF CollectedTargets, Is
  <2> QED
    BY <1>6, <2>1
<1>8. ASSUME NEW l \in 0..MaxNesting
      PROVE  CollectedTargets[l] = [node \in Expressions |-> [seen \in SUBSET Codes |->
                                IF l = 0 THEN seen ELSE CollectTargets(CollectedTargets[l - 1], node, seen)]]
  BY <1>7, Zenon
<1>9. CollectedTargets[0] = base
  <2>1. 0 \in 0..MaxNesting
    BY <1>4
  <2> QED
    BY <1>8, <2>1, Zenon
<1>10. ASSUME NEW l \in 1..MaxNesting PROVE CollectedTargets[l] = Level(CollectedTargets[l - 1])
  <2>1. l \in 0..MaxNesting /\ (l = 0) = FALSE
    BY <1>4
  <2>2. CollectedTargets[l] = [node \in Expressions |-> [seen \in SUBSET Codes |->
                         IF l = 0 THEN seen ELSE CollectTargets(CollectedTargets[l - 1], node, seen)]]
    BY <1>8, <2>1, Zenon
  <2> QED
    BY <2>1, <2>2
<1>11. \A l \in 0..MaxNesting : CollectedTargets[l] \in Gatherers
  <2>1. \A l \in 1..MaxNesting : CollectedTargets[l - 1] \in Gatherers => CollectedTargets[l] \in Gatherers
    BY <1>1, <1>10, Zenon
  <2> HIDE DEF base, Level
  <2> QED
    BY <1>2, <1>9, <2>1, LevelsStay
<1>12. ASSUME NEW l \in 1..MaxNesting, NEW node \in Expressions, NEW seen \in SUBSET Codes
       PROVE  CollectedTargets[l][node][seen] = CollectTargets(CollectedTargets[l - 1], node, seen)
  <2>1. CollectedTargets[l] = Level(CollectedTargets[l - 1])
    BY <1>10
  <2>2. CollectedTargets[l][node] = [s \in SUBSET Codes |-> CollectTargets(CollectedTargets[l - 1], node, s)]
    BY <2>1
  <2> QED
    BY <2>2
<1> QED
  BY <1>11, <1>12


-----------------------------------------------------------------------------
(* What the checks leave of an expression. *)

(* some of what collection makes of a node is among `all` *)
Covered(levels, l, node, all) == \E seen \in SUBSET Codes : levels[l][node][seen] \subseteq all

LEMMA ReferenceCovered ==
  ASSUME NEW l \in 1..MaxNesting, NEW node \in Expressions, IsReference(node), NEW all
  PROVE  /\ Covered(Collected, l, node, all) => node.ref \in all
         /\ Covered(CollectedDirect, l, node, all) => node.ref \in all
<1>1. l - 1 \in 0..MaxNesting /\ IsObject(node)
  BY ExpressionsAssumption DEF IsReference
<1>2. ASSUME NEW seen \in SUBSET Codes, Collected[l][node][seen] \subseteq all PROVE node.ref \in all
  <2>1. Collected[l][node][seen] = Collect(Collected[l - 1], node, seen)
    BY CollectedLevels
  <2>2. seen \subseteq Collect(Collected[l - 1], node, seen)
    BY <1>1, CollectedLevels, CollectorsGather
  <2>3. node.ref \notin seen => Collect(Collected[l - 1], node, seen) = seen \cup {node.ref}
    BY <1>1 DEF Collect
  <2> QED
    BY <1>2, <2>1, <2>2, <2>3
<1>3. ASSUME NEW seen \in SUBSET Codes, CollectedDirect[l][node][seen] \subseteq all PROVE node.ref \in all
  <2>1. CollectedDirect[l][node][seen] = CollectDirect(CollectedDirect[l - 1], node, seen)
    BY CollectedDirectLevels
  <2>2. seen \subseteq CollectDirect(CollectedDirect[l - 1], node, seen)
    BY <1>1, CollectedDirectLevels, CollectorsGather
  <2>3. node.ref \notin seen => CollectDirect(CollectedDirect[l - 1], node, seen) = seen \cup {node.ref}
    BY <1>1 DEF CollectDirect
  <2> QED
    BY <1>3, <2>1, <2>2, <2>3
<1> QED
  BY <1>2, <1>3 DEF Covered

(* All three collectors look into the operands of an operator, the last two not   *)
(* into those of an aggregate.                                                    *)
LEMMA OperandCovered ==
  ASSUME NEW l \in 1..MaxNesting, NEW node \in Expressions, IsObject(node), ~IsReference(node),
         node.args # None, NEW i \in DOMAIN node.args, NEW all
  PROVE  /\ Covered(Collected, l, node, all) => Covered(Collected, l - 1, node.args[i], all)
         /\ Covered(CollectedDirect, l, node, all) /\ node.op \notin Aggregates
              => Covered(CollectedDirect, l - 1, node.args[i], all)
         /\ Covered(CollectedTargets, l, node, all) /\ node.op \notin Aggregates
              => Covered(CollectedTargets, l - 1, node.args[i], all)
<1>1. l - 1 \in 0..MaxNesting
  BY ExpressionsAssumption
<1>2. ASSUME NEW levels, levels[l - 1] \in Gatherers, NEW seen \in SUBSET Codes,
             OfOperands(levels[l - 1], node, seen) \subseteq all
      PROVE  Covered(levels, l - 1, node.args[i], all)
  BY <1>2, OperandsGather DEF Covered
<1>3. Covered(Collected, l, node, all) => Covered(Collected, l - 1, node.args[i], all)
  <2> SUFFICES ASSUME NEW seen \in SUBSET Codes, Collected[l][node][seen] \subseteq all
               PROVE  Covered(Collected, l - 1, node.args[i], all)
    BY DEF Covered
  <2>1. Collected[l][node][seen] = Collect(Collected[l - 1], node, seen)
    BY CollectedLevels
  <2>2. Collect(Collected[l - 1], node, seen) = OfOperands(Collected[l - 1], node, seen)
    BY DEF Collect
  <2>3. Collected[l - 1] \in Gatherers
    BY <1>1, CollectedLevels
  <2> QED
    BY <1>2, <2>1, <2>2, <2>3
<1>4. Covered(CollectedDirect, l, node, all) /\ node.op \notin Aggregates
        => Covered(CollectedDirect, l - 1, node.args[i], all)
  <2> SUFFICES ASSUME node.op \notin Aggregates,
                      NEW seen \in SUBSET Codes, CollectedDirect[l][node][seen] \subseteq all
               PROVE  Covered(CollectedDirect, l - 1, node.args[i], all)
    BY DEF Covered
  <2>1. CollectedDirect[l][node][seen] = CollectDirect(CollectedDirect[l - 1], node, seen)
    BY CollectedDirectLevels
  <2>2. CollectDirect(CollectedDirect[l - 1], node, seen) = OfOperands(CollectedDirect[l - 1], node, seen)
    BY DEF CollectDirect
  <2>3. CollectedDirect[l - 1] \in Gatherers
    BY <1>1, CollectedDirectLevels
  <2> QED
    BY <1>2, <2>1, <2>2, <2>3
<1>5. Covered(CollectedTargets, l, node, all) /\ node.op \notin Aggregates
        => Covered(CollectedTargets, l - 1, node.args[i], all)
  <2> SUFFICES ASSUME node.op \notin Aggregates,
                      NEW seen \in SUBSET Codes, CollectedTargets[l][node][seen] \subseteq all
               PROVE  Covered(CollectedTargets, l - 1, node.args[i], all)
    BY DEF Covered
  <2>1. CollectedTargets[l][node][seen] = CollectTargets(CollectedTargets[l - 1], node, seen)
    BY CollectedTargetsLevels
  <2>2. CollectTargets(CollectedTargets[l - 1], node, seen) = OfOperands(CollectedTargets[l - 1], node, seen)
    BY DEF CollectTargets
  <2>3. CollectedTargets[l - 1] \in Gatherers
    BY <1>1, CollectedTargetsLevels
  <2> QED
    BY <1>2, <2>1, <2>2, <2>3
<1> QED
  BY <1>3, <1>4, <1>5

(* what an aggregate is pointed at is among the targets collected *)
LEMMA TargetCovered ==
  ASSUME NEW l \in 1..MaxNesting, NEW node \in Expressions, IsObject(node), node.op \in Aggregates,
         node.args \in Seq(Expressions), node.args # None, node.args # << >>, IsReference(node.args[1]),
         NEW all, Covered(CollectedTargets, l, node, all)
  PROVE  node.args[1].ref \in all
<1>1. PICK seen \in SUBSET Codes : CollectedTargets[l][node][seen] \subseteq all
  BY DEF Covered
<1>2. Operands(node) # << >> /\ Head(node.args) = node.args[1]
  BY DEF Operands
<1>3. CollectedTargets[l][node][seen] = CollectTargets(CollectedTargets[l - 1], node, seen)
  BY CollectedTargetsLevels
<1>4. CollectTargets(CollectedTargets[l - 1], node, seen) = seen \cup {node.args[1].ref}
  BY <1>2 DEF CollectTargets
<1> QED
  BY <1>1, <1>3, <1>4

(* What the shape check leaves: an object whose operator, if it is run as one, has *)
(* the operands it asks for, none of them null.                                    *)
LEMMA AcceptedShape ==
  ASSUME NEW l \in 1..MaxNesting, NEW node \in Expressions, node.kind # "null", ShapeErrors[l][node] = None
  PROVE  /\ IsObject(node)
         /\ ~IsReference(node) /\ ~node.lit =>
              /\ node.op \in Operators
              /\ node.args # None /\ node.args \in Seq(Expressions)
              /\ node.op \in Folds \/ Len(node.args) = Arity(node.op)
              /\ \A i \in DOMAIN node.args : /\ node.args[i].kind # "null"
                                             /\ ShapeErrors[l - 1][node.args[i]] = None
<1> DEFINE verdicts == [i \in DOMAIN node.args |-> ArgumentError(ShapeErrors[l - 1], node.args[i])]
<1>1. ShapeError(ShapeErrors[l - 1], node) = None
  BY ShapeLevels
<1>2. \A code \in ErrorCodes : code # None
  BY ErrorsAreVerdicts
<1>3. IsObject(node)
  BY <1>1, <1>2 DEF ShapeError, ErrorCodes
<1>4. ASSUME ~IsReference(node), ~node.lit
      PROVE  /\ node.op \in Operators
             /\ node.args # None
             /\ node.op \in Folds \/ Len(node.args) = Arity(node.op)
             /\ FirstError(verdicts) = None
  <2>1. node.ref = None
    <3>1. node.ref # None => node.ref # Blank
      BY <1>1, <1>2, <1>3 DEF ShapeError, ErrorCodes
    <3> QED
      BY <1>3, <1>4, <3>1 DEF IsReference
  <2> HIDE DEF verdicts
  <2> QED
    BY <1>1, <1>2, <1>3, <1>4, <2>1 DEF ShapeError, ErrorCodes, verdicts
<1>5. ASSUME ~IsReference(node), ~node.lit, NEW i \in DOMAIN node.args
      PROVE  node.args[i].kind # "null" /\ ShapeErrors[l - 1][node.args[i]] = None
  <2>1. node.args \in Seq(Expressions) /\ FirstError(verdicts) = None
    BY <1>4, <1>5, ArgumentsAreExpressions
  <2>2. Len(node.args) \in Nat /\ DOMAIN verdicts = 1..Len(node.args) /\ i \in 1..Len(node.args)
    BY <2>1, <1>5
  <2>3. verdicts[i] = None
    <3> HIDE DEF verdicts
    <3> QED
      BY <2>1, <2>2, FirstErrorIsOne
  <2>4. ArgumentError(ShapeErrors[l - 1], node.args[i]) = None
    BY <2>3, <1>5
  <2>5. "RULE_INVALID_EXPRESSION" # None
    BY <1>2 DEF ErrorCodes
  <2> QED
    BY <2>4, <2>5 DEF ArgumentError
<1> QED
  BY <1>3, <1>4, <1>5, ArgumentsAreExpressions


-----------------------------------------------------------------------------
(* What the checks leave of an entry of the rules document. *)

(* no error among two lists of verdicts is none in either *)
LEMMA NoErrorInEither ==
  ASSUME NEW V, NEW s \in Seq(V), NEW t \in Seq(V), FirstError(s \o t) = None
  PROVE  /\ \A i \in 1..Len(s) : s[i] = None
         /\ \A i \in 1..Len(t) : t[i] = None
<1>1. /\ s \o t \in Seq(V) /\ Len(s \o t) = Len(s) + Len(t)
      /\ \A i \in 1..(Len(s) + Len(t)) : (s \o t)[i] = IF i <= Len(s) THEN s[i] ELSE t[i - Len(s)]
      /\ Len(s) \in Nat /\ Len(t) \in Nat
  BY ConcatProperties
<1>2. DOMAIN (s \o t) = 1..(Len(s) + Len(t))
  BY <1>1
<1>3. Len(s) + Len(t) \in Nat
  BY <1>1
<1>4. \A i \in 1..(Len(s) + Len(t)) : (s \o t)[i] = None
  BY <1>2, <1>3, FirstErrorIsOne
<1>5. ASSUME NEW i \in 1..Len(s) PROVE s[i] = None
  <2>1. i \in 1..(Len(s) + Len(t)) /\ i <= Len(s)
    BY <1>1
  <2> QED
    BY <1>1, <1>4, <2>1
<1>6. ASSUME NEW i \in 1..Len(t) PROVE t[i] = None
  <2>1. Len(s) + i \in 1..(Len(s) + Len(t)) /\ ~(Len(s) + i <= Len(s)) /\ (Len(s) + i) - Len(s) = i
    BY <1>1
  <2>2. (s \o t)[Len(s) + i] = t[i]
    BY <1>1, <2>1
  <2> QED
    BY <1>4, <2>1, <2>2
<1> QED
  BY <1>5, <1>6

(* What evaluation may rest on, of an expression at home in the rows of a repeater *)
(* or in none.                                                                     *)
Accepted(e, home) ==
  /\ e \in Expressions
  /\ e.kind # "null"
  /\ ShapeErrors[MaxNesting][e] = None
  /\ AggregateArgumentError(e) = None
  /\ References(e) \subseteq KeysOf(semantics.byCode)
  /\ \A c \in DirectReferences(e) \cap KeysOf(semantics.topology.repeaterOf) :
       Lookup(semantics.topology.repeaterOf, c) = home
  /\ CollectedTargets[MaxNesting][e][{}] \cap KeysOf(semantics.topology.repeaterOf) = {}

LEMMA ExpressionAccepted ==
  ASSUME NEW e \in Expressions, e.kind # "null", NEW home, ExpressionError(e, home) = None
  PROVE  Accepted(e, home)
<1> DEFINE verdicts == <<ShapeErrors[MaxNesting][e], AggregateArgumentError(e), ReferenceError(e),
                         RowScopeError(e, home), TargetError(e)>>
<1>1. FirstError(verdicts) = None
  BY DEF ExpressionError
<1>2. \A i \in 1..5 : verdicts[i] = None
  <2>1. DOMAIN verdicts = 1..5 /\ 5 \in Nat
    OBVIOUS
  <2> HIDE DEF verdicts
  <2> QED
    BY <1>1, <2>1, FirstErrorIsOne
<1>3. /\ ShapeErrors[MaxNesting][e] = None /\ AggregateArgumentError(e) = None
      /\ ReferenceError(e) = None /\ RowScopeError(e, home) = None /\ TargetError(e) = None
  <2>1. verdicts[1] = None /\ verdicts[2] = None /\ verdicts[3] = None /\ verdicts[4] = None /\ verdicts[5] = None
    <3> HIDE DEF verdicts
    <3> QED
      BY <1>2
  <2> QED
    BY <2>1
<1>4. /\ "RULE_UNKNOWN_FIELD_REF" # None /\ "RULE_INVALID_ROW_REFERENCE" # None
      /\ "RULE_AGGREGATE_NOT_REPEATER" # None
  BY ErrorsAreVerdicts DEF ErrorCodes
<1>5. References(e) \subseteq KeysOf(semantics.byCode)
  BY <1>3, <1>4 DEF ReferenceError
<1>6. \A c \in DirectReferences(e) \cap KeysOf(semantics.topology.repeaterOf) :
        Lookup(semantics.topology.repeaterOf, c) = home
  BY <1>3, <1>4 DEF RowScopeError
<1>7. CollectedTargets[MaxNesting][e][{}] \cap KeysOf(semantics.topology.repeaterOf) = {}
  BY <1>3, <1>4 DEF TargetError
<1> QED
  BY <1>3, <1>5, <1>6, <1>7 DEF Accepted

EntryError(i) ==
  LET entry == rules.entries[i]
  IN  IF entry.id # None
      THEN FieldEntryError(entry)
      ELSE ValidationEntryError(entry, {rules.entries[j].code : j \in 1..(i - 1)})

(* A calculation is a field's, and does not read the field it is of.               *)
NotOfItself(id, key, e) ==
  key = "calculate" => Lookup(semantics.byId, id).code \notin References(e)

LEMMA FieldEntryAccepted ==
  ASSUME NEW entry, FieldEntryError(entry) = None, NEW key \in DOMAIN entry.keys,
         entry.keys[key] \in Expressions, entry.keys[key].kind # "null"
  PROVE  /\ Accepted(entry.keys[key], HomeOf(entry.id, key))
         /\ NotOfItself(entry.id, key, entry.keys[key])
<1> DEFINE known == <<IF DOMAIN entry.keys \subseteq ToSet(FieldKeys) THEN None ELSE "RULE_UNKNOWN_RULE_KEY">>
           each == [i \in DOMAIN FieldKeys |->
                      ExpressionError(ExpressionOf(entry, FieldKeys[i]), HomeOf(entry.id, FieldKeys[i]))]
           calculation == <<CalculationError(entry, Lookup(semantics.byId, entry.id))>>
           V == {known[1], calculation[1]} \cup {each[i] : i \in 1..4}
<1>1. \A code \in ErrorCodes : code # None
  BY ErrorsAreVerdicts
<1>2. FirstError(known \o each \o calculation) = None
  BY <1>1 DEF FieldEntryError, ErrorCodes
<1>3. DOMAIN FieldKeys = 1..4 /\ DOMAIN each = 1..4
  BY DEF FieldKeys
<1>4. known \in Seq(V) /\ each \in Seq(V) /\ calculation \in Seq(V)
      /\ Len(known) = 1 /\ Len(each) = 4 /\ Len(calculation) = 1
  <2>1. known \in Seq({known[1]}) /\ Len(known) = 1
    OBVIOUS
  <2>2. calculation \in Seq({calculation[1]}) /\ Len(calculation) = 1
    OBVIOUS
  <2>3. each = [i \in 1..4 |-> each[i]]
    BY <1>3
  <2> HIDE DEF known, each, calculation
  <2>4. each \in Seq({each[i] : i \in 1..4}) /\ Len(each) = 4
    BY <2>3
  <2> QED
    BY <2>1, <2>2, <2>4
<1>5. known \o each \in Seq(V) /\ Len(known \o each) = 5
  <2> HIDE DEF known, each, calculation, V
  <2>1. known \o each \in Seq(V) /\ Len(known \o each) = Len(known) + Len(each)
    BY <1>4, ConcatProperties, Zenon
  <2> QED
    BY <1>4, <2>1
<1>6. calculation[1] = None /\ FirstError(known \o each) = None
  <2> HIDE DEF known, each, calculation, V
  <2>0. /\ \A i \in 1..Len(known \o each) : (known \o each)[i] = None
        /\ \A i \in 1..Len(calculation) : calculation[i] = None
    BY <1>2, <1>4, <1>5, NoErrorInEither, Zenon
  <2>1. \A i \in 1..5 : (known \o each)[i] = None
    BY <1>5, <2>0
  <2>2. DOMAIN (known \o each) = 1..5 /\ 5 \in Nat
    BY <1>5
  <2>3. FirstError(known \o each) = None
    BY <2>1, <2>2, FirstErrorIsOne
  <2>4. calculation[1] = None
    BY <1>4, <2>0
  <2> QED
    BY <2>3, <2>4
<1>7. known[1] = None /\ \A i \in 1..4 : each[i] = None
  <2> HIDE DEF known, each, calculation, V
  <2> QED
    BY <1>4, <1>6, NoErrorInEither
<1>8. PICK k \in 1..4 : FieldKeys[k] = key
  <2>1. DOMAIN entry.keys \subseteq ToSet(FieldKeys)
    BY <1>1, <1>7 DEF ErrorCodes
  <2> QED
    BY <1>3, <2>1 DEF ToSet
<1>9. ExpressionOf(entry, key) = entry.keys[key]
  BY DEF ExpressionOf
<1>10. ExpressionError(entry.keys[key], HomeOf(entry.id, key)) = None
  <2>1. each[k] = ExpressionError(ExpressionOf(entry, FieldKeys[k]), HomeOf(entry.id, FieldKeys[k]))
    BY <1>3
  <2> HIDE DEF each
  <2> QED
    BY <1>7, <1>8, <1>9, <2>1
<1>11. Accepted(entry.keys[key], HomeOf(entry.id, key))
  BY <1>10, ExpressionAccepted
<1>12. NotOfItself(entry.id, key, entry.keys[key])
  <2> SUFFICES ASSUME key = "calculate"
               PROVE  Lookup(semantics.byId, entry.id).code \notin References(entry.keys[key])
    BY DEF NotOfItself
  <2>1. CalculationError(entry, Lookup(semantics.byId, entry.id)) = None
    BY <1>6
  <2>2. ExpressionOf(entry, "calculate") = entry.keys[key]
    BY <1>9
  <2> QED
    BY <1>1, <2>1, <2>2 DEF CalculationError, ErrorCodes
<1> QED
  BY <1>11, <1>12

LEMMA ValidationEntryAccepted ==
  ASSUME NEW entry, entry.id = None, NEW earlier, ValidationEntryError(entry, earlier) = None,
         NEW key \in DOMAIN entry.keys, entry.keys[key] \in Expressions, entry.keys[key].kind # "null"
  PROVE  /\ Accepted(entry.keys[key], HomeOf(entry.id, key))
         /\ NotOfItself(entry.id, key, entry.keys[key])
<1> DEFINE own ==
             <<IF DOMAIN entry.keys \subseteq ToSet(ValidationKeys) THEN None ELSE "RULE_UNKNOWN_VALIDATION_KEY",
               IF entry.code = None THEN "RULE_INVALID_VALIDATION" ELSE None,
               IF ExpressionOf(entry, "assert").kind = "null" THEN "RULE_MISSING_ASSERT" ELSE None,
               IF entry.code \in earlier THEN "RULE_DUPLICATE_VALIDATION_CODE" ELSE None>>
           each == [i \in DOMAIN ValidationKeys |-> ExpressionError(ExpressionOf(entry, ValidationKeys[i]), None)]
           V == {own[i] : i \in 1..4} \cup {each[i] : i \in 1..2}
<1>1. \A code \in ErrorCodes : code # None
  BY ErrorsAreVerdicts
<1>2. FirstError(own \o each) = None
  BY DEF ValidationEntryError
<1>3. DOMAIN ValidationKeys = 1..2 /\ DOMAIN each = 1..2
  BY DEF ValidationKeys
<1>4. own \in Seq(V) /\ each \in Seq(V) /\ Len(own) = 4 /\ Len(each) = 2
  <2>1. own = [i \in 1..4 |-> own[i]]
    OBVIOUS
  <2>2. each = [i \in 1..2 |-> each[i]]
    BY <1>3
  <2> HIDE DEF own, each
  <2>3. own \in Seq({own[i] : i \in 1..4}) /\ Len(own) = 4
    BY <2>1
  <2>4. each \in Seq({each[i] : i \in 1..2}) /\ Len(each) = 2
    BY <2>2
  <2> QED
    BY <2>3, <2>4
<1>5. own[1] = None /\ \A i \in 1..2 : each[i] = None
  <2> HIDE DEF own, each, V
  <2>1. (\A i \in 1..Len(own) : own[i] = None) /\ (\A i \in 1..Len(each) : each[i] = None)
    BY <1>2, <1>4, NoErrorInEither, Zenon
  <2> QED
    BY <1>4, <2>1
<1>6. PICK k \in 1..2 : ValidationKeys[k] = key
  <2>1. DOMAIN entry.keys \subseteq ToSet(ValidationKeys)
    BY <1>1, <1>5 DEF ErrorCodes
  <2> QED
    BY <1>3, <2>1 DEF ToSet
<1>7. key # "calculate"
  BY <1>6 DEF ValidationKeys
<1>8. ExpressionError(entry.keys[key], None) = None
  <2>1. each[k] = ExpressionError(ExpressionOf(entry, ValidationKeys[k]), None)
    BY <1>3
  <2>2. ExpressionOf(entry, key) = entry.keys[key]
    BY DEF ExpressionOf
  <2> HIDE DEF each
  <2> QED
    BY <1>5, <1>6, <2>1, <2>2
<1> QED
  BY <1>7, <1>8, ExpressionAccepted DEF NotOfItself, HomeOf


-----------------------------------------------------------------------------
(* The walk of the evaluator. *)

Evaluation == {"evaluating", "evaluated", "value_error", "shape_error"}

Activations == [node : Expressions, next : Nat \ {0}]

(* An activation is of a node the shape check passed, at a level that leaves room  *)
(* for what it holds; what the collectors made of it is in what they made of the   *)
(* whole expression.                                                                *)
InvariantOf(a, l) ==
  /\ l \in 1..MaxNesting
  /\ NestsIn[l][a.node]
  /\ a.node.kind # "null"
  /\ ShapeErrors[l][a.node] = None
  /\ Covered(Collected, l, a.node, References(site.expression))
  /\ Covered(CollectedDirect, l, a.node, DirectReferences(site.expression))
  /\ Covered(CollectedTargets, l, a.node, CollectedTargets[MaxNesting][site.expression][{}])

StackInvariant ==
  /\ stack \in Seq(Activations)
  /\ \A j \in 1..Len(stack) : InvariantOf(stack[j], MaxNesting + 1 - j)
  /\ stack # << >> => stack[1].node = site.expression
  /\ stage \in {"evaluating", "shape_error"} => stack # << >>

ReadsInvariant ==
  /\ reads \subseteq References(site.expression) \cap DirectReferences(site.expression)
  /\ aggregated \subseteq References(site.expression) \cap CollectedTargets[MaxNesting][site.expression][{}]

SiteInvariant ==
  /\ Accepted(site.expression, site.home)
  /\ NotOfItself(site.id, site.key, site.expression)

EntriesInvariant ==
  /\ form \in Forms /\ rules \in Documents(form)
  /\ position \in Nat \ {0}
  /\ stage \in {"semantics", "containers"} => position = 1
  /\ stage = "entries" => \A i \in 1..(position - 1) : i \in DOMAIN rules.entries => EntryError(i) = None

WalkInvariant ==
  /\ EntriesInvariant
  /\ stage \notin Evaluation => reads = {} /\ aggregated = {}
  /\ stage \in Evaluation => SiteInvariant /\ StackInvariant /\ ReadsInvariant
  /\ ShapeFailureOnlyInNestedAggregate

LEMMA AnalysisInitInvariant == AnalysisInit => WalkInvariant
BY DEF AnalysisInit, WalkInvariant, EntriesInvariant, Evaluation, ShapeFailureOnlyInNestedAggregate

LEMMA BuildSemanticsStep == WalkInvariant /\ BuildSemantics => WalkInvariant'
<1> SUFFICES ASSUME WalkInvariant, BuildSemantics PROVE WalkInvariant'
  OBVIOUS
<1>1. /\ UNCHANGED <<form, rules, position, reads, aggregated>>
      /\ stage' \in {"rejected", "containers"} /\ stage = "semantics"
  BY DEF BuildSemantics, Reject, given, evaluation
<1>2. EntriesInvariant'
  BY <1>1 DEF WalkInvariant, EntriesInvariant
<1> QED
  BY <1>1, <1>2 DEF WalkInvariant, Evaluation, ShapeFailureOnlyInNestedAggregate

LEMMA CheckContainersStep == WalkInvariant /\ CheckContainers => WalkInvariant'
<1> SUFFICES ASSUME WalkInvariant, CheckContainers PROVE WalkInvariant'
  OBVIOUS
<1>1. /\ UNCHANGED <<form, rules, position, reads, aggregated>>
      /\ stage' \in {"rejected", "entries"} /\ stage = "containers"
  BY DEF CheckContainers, Reject, given, evaluation
<1>2. position = 1
  BY <1>1 DEF WalkInvariant, EntriesInvariant
<1>3. EntriesInvariant'
  BY <1>1, <1>2 DEF WalkInvariant, EntriesInvariant
<1> QED
  BY <1>1, <1>3 DEF WalkInvariant, Evaluation, ShapeFailureOnlyInNestedAggregate

LEMMA CheckEntryStep == WalkInvariant /\ CheckEntry => WalkInvariant'
<1> SUFFICES ASSUME WalkInvariant, CheckEntry PROVE WalkInvariant'
  OBVIOUS
<1>1. /\ UNCHANGED <<form, rules, semantics, reads, aggregated>>
      /\ stage = "entries" /\ stage' \in {"rejected", "entries"}
      /\ position \in DOMAIN rules.entries
      /\ \/ stage' = "rejected" /\ UNCHANGED position
         \/ stage' = "entries" /\ position' = position + 1 /\ EntryError(position) = None
  BY DEF CheckEntry, Reject, given, evaluation, EntryError
<1>2. \A i : EntryError(i)' = EntryError(i)
  BY <1>1 DEF EntryError, FieldEntryError, ValidationEntryError, ExpressionError, ReferenceError,
              RowScopeError, TargetError, CalculationError, HomeOf
<1>3. EntriesInvariant'
  <2>1. CASE stage' = "rejected"
    BY <1>1, <2>1 DEF WalkInvariant, EntriesInvariant
  <2>2. CASE stage' = "entries"
    <3>1. position' = position + 1 /\ EntryError(position) = None /\ position \in Nat \ {0}
      BY <1>1, <2>2 DEF WalkInvariant, EntriesInvariant
    <3>2. ASSUME NEW i \in 1..(position' - 1), i \in DOMAIN rules.entries PROVE EntryError(i) = None
      <4>1. i = position \/ i \in 1..(position - 1)
        BY <3>1
      <4> QED
        BY <1>1, <3>1, <3>2, <4>1 DEF WalkInvariant, EntriesInvariant
    <3> QED
      BY <1>1, <1>2, <2>2, <3>1, <3>2 DEF WalkInvariant, EntriesInvariant
  <2> QED
    BY <1>1, <2>1, <2>2
<1> QED
  BY <1>1, <1>3 DEF WalkInvariant, Evaluation, ShapeFailureOnlyInNestedAggregate

(* Evaluation starts with an expression of an entry all of whose checks passed.    *)
LEMMA EvaluateStep == WalkInvariant /\ Evaluate => WalkInvariant'
<1> SUFFICES ASSUME WalkInvariant, Evaluate PROVE WalkInvariant'
  OBVIOUS
<1>1. PICK i \in DOMAIN rules.entries : \E key \in DOMAIN rules.entries[i].keys :
        /\ rules.entries[i].keys[key].kind # "null"
        /\ site' = [id |-> rules.entries[i].id, key |-> key, home |-> HomeOf(rules.entries[i].id, key),
                    expression |-> rules.entries[i].keys[key]]
        /\ stack' = <<[node |-> rules.entries[i].keys[key], next |-> 1]>>
  BY DEF Evaluate
<1> DEFINE entry == rules.entries[i]
<1>2. PICK key \in DOMAIN entry.keys :
        /\ entry.keys[key].kind # "null"
        /\ site' = [id |-> entry.id, key |-> key, home |-> HomeOf(entry.id, key),
                    expression |-> entry.keys[key]]
        /\ stack' = <<[node |-> entry.keys[key], next |-> 1]>>
  BY <1>1
<1>3. /\ UNCHANGED <<form, rules, semantics, position, reads, aggregated>>
      /\ stage = "entries" /\ stage' = "evaluating" /\ position \notin DOMAIN rules.entries
  BY DEF Evaluate, given
<1>4. /\ DOMAIN rules.entries = 1..Len(rules.entries) /\ Len(rules.entries) \in Nat
      /\ entry.keys[key] \in Expressions
  BY <1>2, DocumentsAssumption DEF WalkInvariant, EntriesInvariant
<1> DEFINE e == entry.keys[key]
<1> HIDE DEF entry, e
<1>5. EntryError(i) = None
  <2>1. i \in 1..(position - 1)
    BY <1>1, <1>3, <1>4 DEF WalkInvariant, EntriesInvariant
  <2> QED
    BY <1>1, <1>3, <2>1 DEF WalkInvariant, EntriesInvariant
<1>6. Accepted(e, HomeOf(entry.id, key)) /\ NotOfItself(entry.id, key, e)
  <2>1. CASE entry.id # None
    <3>1. FieldEntryError(entry) = None
      BY <1>5, <2>1 DEF EntryError, entry
    <3> QED
      BY <1>2, <1>4, <3>1, FieldEntryAccepted DEF e
  <2>2. CASE entry.id = None
    <3>1. ValidationEntryError(entry, {rules.entries[j].code : j \in 1..(i - 1)}) = None
      BY <1>5, <2>2 DEF EntryError, entry
    <3> QED
      BY <1>2, <1>4, <2>2, <3>1, ValidationEntryAccepted DEF e
  <2> QED
    BY <2>1, <2>2
<1>7. site'.id = entry.id /\ site'.key = key /\ site'.home = HomeOf(entry.id, key) /\ site'.expression = e
  BY <1>2 DEF e
<1>8. SiteInvariant'
  BY <1>3, <1>6, <1>7 DEF SiteInvariant, Accepted, NotOfItself
<1>9. StackInvariant'
  <2>1. /\ stack' = <<[node |-> e, next |-> 1]>> /\ e \in Expressions
        /\ MaxNesting \in Nat \ {0} /\ MaxNesting + 1 - 1 = MaxNesting /\ MaxNesting \in 1..MaxNesting
    BY <1>2, <1>4, ExpressionsAssumption DEF e
  <2>2. stack' \in Seq(Activations) /\ Len(stack') = 1 /\ stack'[1].node = e
    BY <2>1 DEF Activations
  <2>3. NestsIn[MaxNesting][e]
    BY <2>1, ExpressionsAssumption
  <2>4. {} \in SUBSET Codes
    OBVIOUS
  <2>5. /\ Covered(Collected, MaxNesting, e, References(e))
        /\ Covered(CollectedDirect, MaxNesting, e, DirectReferences(e))
        /\ Covered(CollectedTargets, MaxNesting, e, CollectedTargets[MaxNesting][e][{}])
    BY <2>4 DEF Covered, References, DirectReferences
  <2>6. InvariantOf(stack[1], MaxNesting)'
    BY <1>6, <1>7, <2>1, <2>2, <2>3, <2>5 DEF InvariantOf, Accepted
  <2> QED
    BY <1>7, <2>1, <2>2, <2>6 DEF StackInvariant
<1>10. EntriesInvariant'
  BY <1>3 DEF WalkInvariant, EntriesInvariant
<1>11. ReadsInvariant'
  BY <1>3 DEF WalkInvariant, Evaluation, ReadsInvariant
<1> QED
  BY <1>3, <1>8, <1>9, <1>10, <1>11 DEF WalkInvariant, Evaluation, ShapeFailureOnlyInNestedAggregate


LEMMA TopOfStack ==
  ASSUME StackInvariant, stack # << >>
  PROVE  /\ Len(stack) \in Nat \ {0} /\ Top = stack[Len(stack)]
         /\ Node \in Expressions /\ Top.next \in Nat \ {0}
         /\ InvariantOf(Top, MaxNesting + 1 - Len(stack))
         /\ Len(stack) = 1 => Node = site.expression
<1>1. stack \in Seq(Activations) /\ Len(stack) \in Nat \ {0} /\ Len(stack) \in 1..Len(stack)
  BY DEF StackInvariant
<1>2. Top = stack[Len(stack)]
  BY DEF Top, Last
<1>3. Top \in Activations
  BY <1>1, <1>2
<1> QED
  BY <1>1, <1>2, <1>3 DEF StackInvariant, Node, Activations

LEMMA ReturnKeepsStack ==
  ASSUME StackInvariant, stage = "evaluating", UNCHANGED site, Return
  PROVE  StackInvariant' /\ stage' \in {"evaluating", "evaluated"}
<1>1. stack \in Seq(Activations) /\ stack # << >> /\ Len(stack) \in Nat \ {0}
  BY DEF StackInvariant
<1>2. stack' = SubSeq(stack, 1, Len(stack) - 1)
  BY DEF Return, Front
<1>3. /\ stack' \in Seq(Activations) /\ Len(stack') = Len(stack) - 1
      /\ \A j \in 1..Len(stack') : j \in 1..Len(stack) /\ stack'[j] = stack[j]
  <2>1. PICK k \in Nat : k = Len(stack) - 1
    BY <1>1
  <2>2. /\ stack' = SubSeq(stack, 1, k) /\ 1 \in Int /\ k \in Int
        /\ \A i \in 1..k : stack[i] \in Activations /\ i \in 1..Len(stack)
    BY <1>1, <1>2, <2>1
  <2>3. /\ SubSeq(stack, 1, k) \in Seq(Activations)
        /\ Len(SubSeq(stack, 1, k)) = IF 1 <= k THEN k - 1 + 1 ELSE 0
        /\ \A i \in 1..(k - 1 + 1) : SubSeq(stack, 1, k)[i] = stack[1 + i - 1]
    BY <2>2, SubSeqProperties
  <2>4. Len(stack') = k /\ \A i \in 1..k : stack'[i] = stack[i]
    BY <2>1, <2>2, <2>3
  <2> QED
    BY <2>1, <2>2, <2>3, <2>4
<1>4. \A j \in 1..Len(stack') : InvariantOf(stack[j], MaxNesting + 1 - j)'
  BY <1>3 DEF StackInvariant, InvariantOf
<1>5. stack' # << >> => Len(stack) # 1 /\ 1 \in 1..Len(stack')
  BY <1>1, <1>3
<1>6. stack' # << >> => stack'[1].node = site'.expression
  BY <1>3, <1>5 DEF StackInvariant
<1>7. stage' \in {"evaluating", "evaluated"} /\ (stage' = "evaluating" => stack' # << >>)
  <2>1. Len(stack) # 1 => stack' # << >>
    BY <1>1, <1>3
  <2> QED
    BY <2>1 DEF Return
<1> QED
  BY <1>3, <1>4, <1>6, <1>7 DEF StackInvariant

(* A step of the walk leaves what was checked as it is.                            *)
LEMMA CheckedStays ==
  ASSUME WalkInvariant, stage \in Evaluation, stage' \in Evaluation, UNCHANGED static
  PROVE  EntriesInvariant' /\ SiteInvariant'
<1>1. UNCHANGED <<form, rules, semantics, answers, position, error, site>>
  BY DEF static, given
<1>2. EntriesInvariant'
  BY <1>1 DEF WalkInvariant, EntriesInvariant, Evaluation
<1>3. SiteInvariant'
  BY <1>1 DEF WalkInvariant, SiteInvariant, Accepted, NotOfItself
<1> QED
  BY <1>2, <1>3

LEMMA ReadReferenceStep == WalkInvariant /\ ReadReference => WalkInvariant'
<1> SUFFICES ASSUME WalkInvariant, ReadReference PROVE WalkInvariant'
  OBVIOUS
<1>1. /\ stage = "evaluating" /\ IsReference(Node) /\ reads' = reads \cup {Node.ref}
      /\ Return /\ UNCHANGED <<static, aggregated>> /\ UNCHANGED site
  BY DEF ReadReference, static
<1>2. StackInvariant /\ ReadsInvariant /\ stack # << >>
  BY <1>1 DEF WalkInvariant, Evaluation, StackInvariant
<1>3. StackInvariant' /\ stage' \in {"evaluating", "evaluated"}
  BY <1>1, <1>2, ReturnKeepsStack
<1>4. EntriesInvariant' /\ SiteInvariant'
  BY <1>1, <1>3, CheckedStays DEF Evaluation
<1>5. Node.ref \in References(site.expression) /\ Node.ref \in DirectReferences(site.expression)
  BY <1>1, <1>2, TopOfStack, ReferenceCovered DEF InvariantOf, Node
<1>6. ReadsInvariant'
  BY <1>1, <1>2, <1>5 DEF ReadsInvariant
<1> QED
  BY <1>3, <1>4, <1>6 DEF WalkInvariant, Evaluation, ShapeFailureOnlyInNestedAggregate

LEMMA ReadLiteralStep == WalkInvariant /\ ReadLiteral => WalkInvariant'
<1> SUFFICES ASSUME WalkInvariant, ReadLiteral PROVE WalkInvariant'
  OBVIOUS
<1>1. stage = "evaluating" /\ Return /\ UNCHANGED <<static, reads, aggregated>> /\ UNCHANGED site
  BY DEF ReadLiteral, static
<1>2. StackInvariant /\ ReadsInvariant
  BY <1>1 DEF WalkInvariant, Evaluation
<1>3. StackInvariant' /\ stage' \in {"evaluating", "evaluated"}
  BY <1>1, <1>2, ReturnKeepsStack
<1>4. EntriesInvariant' /\ SiteInvariant'
  BY <1>1, <1>3, CheckedStays DEF Evaluation
<1>5. ReadsInvariant'
  BY <1>1, <1>2 DEF ReadsInvariant
<1> QED
  BY <1>3, <1>4, <1>5 DEF WalkInvariant, Evaluation, ShapeFailureOnlyInNestedAggregate

LEMMA FinishOperatorStep == WalkInvariant /\ FinishOperator => WalkInvariant'
<1> SUFFICES ASSUME WalkInvariant, FinishOperator PROVE WalkInvariant'
  OBVIOUS
<1>1. stage = "evaluating" /\ Return /\ UNCHANGED <<static, reads, aggregated>> /\ UNCHANGED site
  BY DEF FinishOperator, static
<1>2. StackInvariant /\ ReadsInvariant
  BY <1>1 DEF WalkInvariant, Evaluation
<1>3. StackInvariant' /\ stage' \in {"evaluating", "evaluated"}
  BY <1>1, <1>2, ReturnKeepsStack
<1>4. EntriesInvariant' /\ SiteInvariant'
  BY <1>1, <1>3, CheckedStays DEF Evaluation
<1>5. ReadsInvariant'
  BY <1>1, <1>2 DEF ReadsInvariant
<1> QED
  BY <1>3, <1>4, <1>5 DEF WalkInvariant, Evaluation, ShapeFailureOnlyInNestedAggregate

(* A node that is run as an operator passed the shape check as one.                *)
LEMMA OperationShape ==
  ASSUME StackInvariant, stack # << >>, IsOperation, NEW l, l = MaxNesting + 1 - Len(stack)
  PROVE  /\ Node.op \in Operators
         /\ Node.args # None /\ Node.args \in Seq(Expressions)
         /\ Node.op \in Folds \/ Len(Node.args) = Arity(Node.op)
         /\ \A i \in DOMAIN Node.args :
              /\ Node.args[i].kind # "null"
              /\ ShapeErrors[l - 1][Node.args[i]] = None
<1>1. Node \in Expressions /\ l \in 1..MaxNesting /\ Node.kind # "null" /\ ShapeErrors[l][Node] = None
  BY TopOfStack DEF InvariantOf, Node
<1>2. ~IsReference(Node) /\ ~Node.lit
  BY DEF IsOperation
<1> QED
  BY <1>1, <1>2, AcceptedShape

LEMMA OperatorsDiffer ==
  /\ Aggregates \cap (Comparisons \cup Arithmetic \cup Unary \cup Folds) = {}
  /\ \A op \in Aggregates : Arity(op) \in {1, 2}
BY DEF Aggregates, Comparisons, Arithmetic, Unary, Folds, Arity

LEMMA EvaluateOperandStep == WalkInvariant /\ EvaluateOperand => WalkInvariant'
<1> SUFFICES ASSUME WalkInvariant, EvaluateOperand PROVE WalkInvariant'
  OBVIOUS
<1> PICK n : n = Len(stack)
  OBVIOUS
<1> DEFINE l == MaxNesting + 1 - n
           arg == Node.args[Top.next]
           pushed == [node |-> arg, next |-> 1]
           raised == [stack EXCEPT ![n].next = @ + 1]
<1>1. /\ stage = "evaluating" /\ IsOperation /\ Wants /\ Top.next \in DOMAIN Node.args
      /\ stack' = raised \o <<pushed>>
      /\ UNCHANGED <<static, stage, reads, aggregated>> /\ UNCHANGED site
  BY DEF EvaluateOperand, static
<1>2. StackInvariant /\ ReadsInvariant /\ stack # << >> /\ stack \in Seq(Activations)
  BY <1>1 DEF WalkInvariant, Evaluation, StackInvariant
<1>3. /\ n \in Nat \ {0} /\ Top = stack[n] /\ Node \in Expressions /\ Top.next \in Nat \ {0}
      /\ InvariantOf(Top, l)
  BY <1>2, TopOfStack
<1>4. Node = Top.node /\ l \in 1..MaxNesting /\ MaxNesting \in Nat
  BY <1>3, ExpressionsAssumption DEF InvariantOf, Node
<1>5. /\ Node.args # None /\ Node.args \in Seq(Expressions)
      /\ arg \in Expressions /\ arg.kind # "null" /\ ShapeErrors[l - 1][arg] = None
  <2>1. /\ Node.args # None /\ Node.args \in Seq(Expressions)
        /\ \A i \in DOMAIN Node.args : Node.args[i].kind # "null" /\ ShapeErrors[l - 1][Node.args[i]] = None
    BY <1>1, <1>2, OperationShape
  <2>2. arg \in Expressions
    BY <1>1, <2>1
  <2> QED
    BY <1>1, <2>1, <2>2
<1>6. IsObject(Node) /\ ~IsReference(Node) /\ Node.op \notin Aggregates
  BY <1>1, OperatorsDiffer DEF IsOperation, Wants
<1> HIDE DEF arg
<1>7. NestsIn[l - 1][arg] /\ l - 1 \in 1..MaxNesting
  <2>1. NestsIn[l][Node]
    BY <1>3, <1>4 DEF InvariantOf
  <2>2. NestsIn[l - 1][arg]
    BY <1>1, <1>3, <1>4, <1>5, <2>1, NestingLevels DEF arg
  <2>3. l - 1 # 0
    BY <1>5, <2>2, NestingLevels
  <2> QED
    BY <1>4, <2>2, <2>3
<1>8. /\ Covered(Collected, l - 1, arg, References(site.expression))
      /\ Covered(CollectedDirect, l - 1, arg, DirectReferences(site.expression))
      /\ Covered(CollectedTargets, l - 1, arg, CollectedTargets[MaxNesting][site.expression][{}])
  BY <1>1, <1>3, <1>4, <1>5, <1>6, OperandCovered DEF InvariantOf, arg
<1>9. InvariantOf(pushed, l - 1)
  BY <1>5, <1>7, <1>8 DEF InvariantOf
<1>10. /\ raised \in Seq(Activations) /\ Len(raised) = n
       /\ \A j \in 1..n : raised[j].node = stack[j].node
  <2>1. stack[n] \in Activations /\ Top.next + 1 \in Nat \ {0}
    BY <1>2, <1>3
  <2>2. raised = [stack EXCEPT ![n] = [stack[n] EXCEPT !.next = @ + 1]]
    OBVIOUS
  <2>3. [stack[n] EXCEPT !.next = @ + 1] \in Activations
    BY <1>3, <2>1 DEF Activations
  <2>4. [stack[n] EXCEPT !.next = @ + 1].node = stack[n].node
    BY <2>1 DEF Activations
  <2> QED
    BY <1>2, <1>3, <2>2, <2>3, <2>4
<1>11. pushed \in Activations
  BY <1>5 DEF Activations
<1> HIDE DEF raised, pushed
<1>12. /\ stack' \in Seq(Activations) /\ Len(stack') = n + 1
       /\ \A j \in 1..n : stack'[j].node = stack[j].node
       /\ stack'[n + 1] = pushed
  <2>1. <<pushed>> \in Seq(Activations) /\ Len(<<pushed>>) = 1 /\ <<pushed>>[1] = pushed
    BY <1>11
  <2>2. /\ stack' \in Seq(Activations) /\ Len(stack') = n + 1
        /\ \A j \in 1..(n + 1) : stack'[j] = IF j <= n THEN raised[j] ELSE <<pushed>>[j - n]
    <3>1. /\ stack' \in Seq(Activations) /\ Len(stack') = Len(raised) + Len(<<pushed>>)
          /\ \A j \in 1..(Len(raised) + Len(<<pushed>>)) :
               stack'[j] = IF j <= Len(raised) THEN raised[j] ELSE <<pushed>>[j - Len(raised)]
      BY <1>1, <1>10, <2>1, ConcatProperties, Zenon
    <3> QED
      BY <1>10, <2>1, <3>1
  <2>3. \A j \in 1..n : j \in 1..(n + 1) /\ j <= n
    BY <1>3
  <2>4. n + 1 \in 1..(n + 1) /\ ~(n + 1 <= n) /\ (n + 1) - n = 1
    BY <1>3
  <2> QED
    BY <1>10, <2>1, <2>2, <2>3, <2>4
<1>13. \A j \in 1..Len(stack') : InvariantOf(stack[j], MaxNesting + 1 - j)'
  <2>1. ASSUME NEW j \in 1..n PROVE InvariantOf(stack[j], MaxNesting + 1 - j)'
    <3>1. InvariantOf(stack[j], MaxNesting + 1 - j)
      BY <1>2 DEF StackInvariant
    <3> QED
      BY <1>1, <1>12, <3>1 DEF InvariantOf
  <2>2. InvariantOf(stack[n + 1], MaxNesting + 1 - (n + 1))'
    <3>1. MaxNesting + 1 - (n + 1) = l - 1
      BY <1>3, <1>4
    <3> QED
      BY <1>1, <1>9, <1>12, <3>1 DEF InvariantOf
  <2>3. \A j \in 1..Len(stack') : j \in 1..n \/ j = n + 1
    BY <1>3, <1>12
  <2> QED
    BY <2>1, <2>2, <2>3
<1>14. stack' # << >> /\ stack'[1].node = site'.expression
  BY <1>1, <1>2, <1>3, <1>12 DEF StackInvariant
<1>15. StackInvariant'
  BY <1>12, <1>13, <1>14 DEF StackInvariant
<1>16. ReadsInvariant'
  BY <1>1, <1>2 DEF ReadsInvariant
<1>17. EntriesInvariant' /\ SiteInvariant'
  BY <1>1, CheckedStays DEF Evaluation
<1> QED
  BY <1>1, <1>15, <1>16, <1>17 DEF WalkInvariant, Evaluation, ShapeFailureOnlyInNestedAggregate

LEMMA AggregateStep == WalkInvariant /\ Aggregate => WalkInvariant'
<1> SUFFICES ASSUME WalkInvariant, Aggregate PROVE WalkInvariant'
  OBVIOUS
<1> DEFINE l == MaxNesting + 1 - Len(stack)
           target == Node.args[1]
<1>1. /\ stage = "evaluating" /\ IsOperation /\ Node.op \in Aggregates
      /\ \A i \in 1..Arity(Node.op) : IsReference(Node.args[i])
      /\ aggregated' = aggregated \cup {target.ref}
      /\ Return /\ UNCHANGED <<static, reads>> /\ UNCHANGED site
  BY DEF Aggregate, static
<1>2. StackInvariant /\ ReadsInvariant /\ stack # << >>
  BY <1>1 DEF WalkInvariant, Evaluation, StackInvariant
<1>3. StackInvariant' /\ stage' \in {"evaluating", "evaluated"}
  BY <1>1, <1>2, ReturnKeepsStack
<1>4. EntriesInvariant' /\ SiteInvariant'
  BY <1>1, <1>3, CheckedStays DEF Evaluation
<1>5. Node = Top.node /\ Node \in Expressions /\ InvariantOf(Top, l) /\ l \in 1..MaxNesting
  BY <1>2, TopOfStack DEF InvariantOf, Node
<1>6. /\ Node.args # None /\ Node.args \in Seq(Expressions) /\ Len(Node.args) = Arity(Node.op)
  BY <1>1, <1>2, OperationShape, OperatorsDiffer
<1>7. 1 \in DOMAIN Node.args /\ Node.args # << >> /\ IsReference(target) /\ target \in Expressions
  <2>1. Arity(Node.op) \in {1, 2}
    BY <1>1, OperatorsDiffer
  <2> QED
    BY <1>1, <1>6, <2>1
<1>8. IsObject(Node) /\ ~IsReference(Node)
  BY <1>1 DEF IsOperation
<1>9. target.ref \in CollectedTargets[MaxNesting][site.expression][{}]
  BY <1>1, <1>5, <1>6, <1>7, <1>8, TargetCovered DEF InvariantOf
<1>10. target.ref \in References(site.expression)
  <2>1. Covered(Collected, l - 1, target, References(site.expression))
    BY <1>5, <1>6, <1>7, <1>8, OperandCovered DEF InvariantOf
  <2>2. NestsIn[l - 1][target]
    BY <1>5, <1>6, <1>7, NestingLevels DEF InvariantOf
  <2>3. l - 1 # 0
    BY <1>7, <2>2, NestingLevels
  <2>4. l - 1 \in 1..MaxNesting
    BY <1>5, <2>3, ExpressionsAssumption
  <2> HIDE DEF l, target
  <2> QED
    BY <1>7, <2>1, <2>4, ReferenceCovered
<1>11. ReadsInvariant'
  <2> HIDE DEF target
  <2> QED
    BY <1>1, <1>2, <1>9, <1>10 DEF ReadsInvariant
<1> QED
  BY <1>3, <1>4, <1>11 DEF WalkInvariant, Evaluation, ShapeFailureOnlyInNestedAggregate

LEMMA FailOnValueStep == WalkInvariant /\ FailOnValue => WalkInvariant'
<1> SUFFICES ASSUME WalkInvariant, FailOnValue PROVE WalkInvariant'
  OBVIOUS
<1>1. stage = "evaluating" /\ stage' = "value_error" /\ UNCHANGED <<static, stack, reads, aggregated>>
      /\ UNCHANGED site
  BY DEF FailOnValue, static
<1>2. EntriesInvariant' /\ SiteInvariant'
  BY <1>1, CheckedStays DEF Evaluation
<1>3. StackInvariant /\ ReadsInvariant
  BY <1>1 DEF WalkInvariant, Evaluation
<1>4. StackInvariant' /\ ReadsInvariant'
  BY <1>1, <1>3 DEF StackInvariant, ReadsInvariant, InvariantOf
<1> QED
  BY <1>1, <1>2, <1>4 DEF WalkInvariant, Evaluation, ShapeFailureOnlyInNestedAggregate

(* The evaluator finds fault with the shape of no node but an aggregate below the   *)
(* root.                                                                            *)
LEMMA FailOnShapeStep == WalkInvariant /\ FailOnShape => WalkInvariant'
<1> SUFFICES ASSUME WalkInvariant, FailOnShape PROVE WalkInvariant'
  OBVIOUS
<1>1. /\ stage = "evaluating" /\ stage' = "shape_error" /\ UNCHANGED <<static, stack, reads, aggregated>>
      /\ UNCHANGED site
  BY DEF FailOnShape, static
<1>2. EntriesInvariant' /\ SiteInvariant'
  BY <1>1, CheckedStays DEF Evaluation
<1>3. StackInvariant /\ ReadsInvariant /\ stack # << >>
  BY <1>1 DEF WalkInvariant, Evaluation, StackInvariant
<1>4. StackInvariant' /\ ReadsInvariant'
  BY <1>1, <1>3 DEF StackInvariant, ReadsInvariant, InvariantOf
<1>5. /\ Node \in Expressions /\ Top.next \in Nat \ {0} /\ Len(stack) \in Nat \ {0}
      /\ Len(stack) = 1 => Node = site.expression
      /\ IsObject(Node)
  <2>1. /\ Node \in Expressions /\ Top.next \in Nat \ {0} /\ Len(stack) \in Nat \ {0}
        /\ Len(stack) = 1 => Node = site.expression
        /\ InvariantOf(Top, MaxNesting + 1 - Len(stack))
    BY <1>3, TopOfStack
  <2> QED
    BY <2>1, AcceptedShape DEF InvariantOf, Node
<1>6. IsOperation
  BY <1>5 DEF FailOnShape
<1>7. /\ Node.op \in Operators /\ Node.args # None /\ Node.args \in Seq(Expressions)
      /\ Node.op \in Folds \/ Len(Node.args) = Arity(Node.op)
  BY <1>3, <1>6, OperationShape
<1>8. Wants => Top.next \in DOMAIN Node.args
  BY <1>5, <1>7, OperatorsDiffer DEF Wants, Folds, Comparisons, Arithmetic, Unary
<1>9. /\ Node.op \in Aggregates
      /\ Len(Node.args) < Arity(Node.op) \/ \E i \in 1..Arity(Node.op) : ~IsReference(Node.args[i])
  BY <1>5, <1>7, <1>8 DEF FailOnShape
<1>10. \E i \in DOMAIN Node.args : ~IsReference(Node.args[i])
  <2>1. Len(Node.args) = Arity(Node.op) /\ Arity(Node.op) \in {1, 2}
    BY <1>7, <1>9, OperatorsDiffer
  <2> QED
    BY <1>7, <1>9, <2>1
<1>11. Len(stack) > 1
  <2>1. AggregateArgumentError(site.expression) = None
    BY <1>1 DEF WalkInvariant, Evaluation, SiteInvariant, Accepted
  <2>2. "RULE_INVALID_EXPRESSION" # None
    BY ErrorsAreVerdicts DEF ErrorCodes
  <2>3. Node # site.expression
    BY <1>5, <1>7, <1>9, <1>10, <2>1, <2>2 DEF AggregateArgumentError
  <2>4. Len(stack) \in Nat \ {0} /\ Len(stack) # 1
    BY <1>5, <2>3
  <2> QED
    BY <2>4
<1>12. ShapeFailureOnlyInNestedAggregate'
  BY <1>1, <1>9, <1>10, <1>11 DEF ShapeFailureOnlyInNestedAggregate, Node, Top
<1> QED
  BY <1>1, <1>2, <1>4, <1>12 DEF WalkInvariant, Evaluation


LEMMA AnalysisNextInvariant == WalkInvariant /\ [AnalysisNext]_analysisVars => WalkInvariant'
<1> SUFFICES ASSUME WalkInvariant, [AnalysisNext]_analysisVars PROVE WalkInvariant'
  OBVIOUS
<1>1. CASE UNCHANGED analysisVars
  <2>1. UNCHANGED <<form, rules, semantics, answers, position, stage, error, site, stack, reads, aggregated>>
    BY <1>1 DEF analysisVars
  <2>2. EntriesInvariant'
    <3>1. \A i : EntryError(i)' = EntryError(i)
      BY <2>1 DEF EntryError, FieldEntryError, ValidationEntryError, ExpressionError, ReferenceError,
                  RowScopeError, TargetError, CalculationError, HomeOf
    <3> QED
      BY <2>1, <3>1 DEF WalkInvariant, EntriesInvariant
  <2>3. stage \in Evaluation => SiteInvariant' /\ StackInvariant' /\ ReadsInvariant'
    BY <2>1 DEF WalkInvariant, SiteInvariant, Accepted, NotOfItself, StackInvariant, InvariantOf, ReadsInvariant
  <2>4. ShapeFailureOnlyInNestedAggregate'
    BY <2>1 DEF WalkInvariant, ShapeFailureOnlyInNestedAggregate, Node, Top
  <2> QED
    BY <2>1, <2>2, <2>3, <2>4 DEF WalkInvariant
<1>2. CASE BuildSemantics
  BY <1>2, BuildSemanticsStep
<1>3. CASE CheckContainers
  BY <1>3, CheckContainersStep
<1>4. CASE CheckEntry
  BY <1>4, CheckEntryStep
<1>5. CASE Evaluate
  BY <1>5, EvaluateStep
<1>6. CASE ReadReference
  BY <1>6, ReadReferenceStep
<1>7. CASE ReadLiteral
  BY <1>7, ReadLiteralStep
<1>8. CASE EvaluateOperand
  BY <1>8, EvaluateOperandStep
<1>9. CASE FinishOperator
  BY <1>9, FinishOperatorStep
<1>10. CASE Aggregate
  BY <1>10, AggregateStep
<1>11. CASE FailOnValue
  BY <1>11, FailOnValueStep
<1>12. CASE FailOnShape
  BY <1>12, FailOnShapeStep
<1> QED
  BY <1>1, <1>2, <1>3, <1>4, <1>5, <1>6, <1>7, <1>8, <1>9, <1>10, <1>11, <1>12 DEF AnalysisNext

LEMMA InvariantAnalyzes == WalkInvariant => EveryReadWasAnalyzed
<1> SUFFICES ASSUME WalkInvariant PROVE EveryReadWasAnalyzed
  OBVIOUS
<1>1. CASE stage \notin Evaluation
  BY <1>1 DEF WalkInvariant, EveryReadWasAnalyzed
<1>2. CASE stage \in Evaluation
  <2>1. SiteInvariant /\ ReadsInvariant
    BY <1>2 DEF WalkInvariant
  <2>2. ASSUME NEW c \in reads
        PROVE  /\ c \in KeysOf(semantics.byCode)
               /\ c \in KeysOf(semantics.topology.repeaterOf)
                    => Lookup(semantics.topology.repeaterOf, c) = site.home
               /\ site.key = "calculate" =>
                    /\ Lookup(semantics.byCode, c).id \in Dependencies(site.expression)
                    /\ c # Lookup(semantics.byId, site.id).code
    <3>1. c \in References(site.expression) /\ c \in DirectReferences(site.expression)
      BY <2>1 DEF ReadsInvariant
    <3> QED
      BY <2>1, <3>1 DEF SiteInvariant, Accepted, NotOfItself, Dependencies
  <2>3. ASSUME NEW c \in aggregated
        PROVE  c \in KeysOf(semantics.byCode) \ KeysOf(semantics.topology.repeaterOf)
    BY <2>1 DEF ReadsInvariant, SiteInvariant, Accepted
  <2> QED
    BY <2>2, <2>3 DEF EveryReadWasAnalyzed
<1> QED
  BY <1>1, <1>2

(* The inductive invariant: the entries before `position` passed their checks, and *)
(* in evaluation what is left to be looked at of an expression is covered by what  *)
(* the checks saw of it.                                                           *)
LEMMA WalkInvariantHolds == AnalysisSpec => []WalkInvariant
BY AnalysisInitInvariant, AnalysisNextInvariant, PTL DEF AnalysisSpec

(* SPEC R-9 and R-14, for every form, rules document and what is derived of it:    *)
(* whatever the evaluator reads of an expression the analyzer accepted is known,    *)
(* read in its own row and, in a calculation, among its dependencies; what it       *)
(* aggregates is no child of a repeater.                                            *)
THEOREM ReadsAreAlwaysAnalyzed == AnalysisSpec => []EveryReadWasAnalyzed
BY WalkInvariantHolds, InvariantAnalyzes, PTL

(* SPEC R-12: evaluation of an accepted expression fails on the shape of nothing    *)
(* but an aggregate below the root whose argument is no reference.                  *)
THEOREM ShapeFailsOnlyInNestedAggregates == AnalysisSpec => []ShapeFailureOnlyInNestedAggregate
<1>1. WalkInvariant => ShapeFailureOnlyInNestedAggregate
  BY DEF WalkInvariant
<1> QED
  BY WalkInvariantHolds, <1>1, PTL

=============================================================================
