---------------------- MODULE ComponentExpansion_proofs ----------------------
(***************************************************************************)
(* Proofs about ComponentExpansion: whatever components refer to, and however *)
(* deep a pin's own expansion nests, no reference meets a component whose     *)
(* source is gone, the call's verdict is the one the reference graph deserves, *)
(* and what compiles is the unfolding of the references, charged and laid out. *)
(***************************************************************************)
EXTENDS ComponentExpansion, FiniteSetTheorems, SequenceTheorems, WellFoundedInduction, TLAPS

-----------------------------------------------------------------------------
(* Sequences as functions on 1..n: what the stack operations do to them.      *)

(* A sequence, over whatever set.                                             *)
IsSeq(s) == s \in Seq(ToSet(s))

(* A sequence over any set is one over the set of its own elements.           *)
LEMMA OwnElements ==
  ASSUME NEW S, NEW s \in Seq(S)
  PROVE  IsSeq(s)
<1>1. Len(s) \in Nat /\ s \in [1..Len(s) -> S] /\ DOMAIN s = 1..Len(s)
  BY LenProperties
<1>2. \A k \in 1..Len(s) : s[k] \in ToSet(s)
  BY <1>1 DEF ToSet
<1>3. s \in [1..Len(s) -> ToSet(s)]
  BY <1>1, <1>2
<1> QED
  BY <1>1, <1>3, SeqDef DEF IsSeq

(* A sequence is a function on 1..Len(s).                                     *)
LEMMA Listed ==
  ASSUME NEW s, IsSeq(s)
  PROVE  /\ Len(s) \in Nat /\ DOMAIN s = 1..Len(s)
         /\ s # <<>> => Len(s) \in Nat \ {0}
BY EmptySeq, LenProperties DEF IsSeq

(* Append leaves what was there and adds one element at the end.              *)
LEMMA Pushed ==
  ASSUME NEW s, IsSeq(s), NEW e
  PROVE  /\ IsSeq(Append(s, e))
         /\ Len(Append(s, e)) = Len(s) + 1
         /\ Append(s, e)[Len(s) + 1] = e
         /\ \A k \in 1..Len(s) : Append(s, e)[k] = s[k]
<1> DEFINE S == ToSet(s) \cup {e}
<1>1. s \in Seq(S) /\ e \in S
  BY SeqMonotonic DEF IsSeq
<1> HIDE DEF S
<1>2. Append(s, e) \in Seq(S) /\ Len(Append(s, e)) = Len(s) + 1
      /\ \A k \in 1..Len(s) : Append(s, e)[k] = s[k]
      /\ Append(s, e)[Len(s) + 1] = e
  BY <1>1, AppendProperties
<1>3. IsSeq(Append(s, e))
  BY <1>2, OwnElements
<1> QED
  BY <1>2, <1>3

(* Front drops the last element and nothing else.                             *)
LEMMA Popped ==
  ASSUME NEW s, IsSeq(s), s # <<>>
  PROVE  /\ IsSeq(Front(s))
         /\ Len(Front(s)) = Len(s) - 1
         /\ \A k \in 1..Len(s) - 1 : Front(s)[k] = s[k]
<1> DEFINE S == ToSet(s)
<1>1. s \in Seq(S) /\ Len(s) \in Nat \ {0}
  BY EmptySeq DEF IsSeq
<1> HIDE DEF S
<1>2. PICK n \in Nat : n = Len(s) - 1
  BY <1>1
<1>3. \A k \in 1..n : s[k] \in S
  BY <1>1, <1>2, ElementOfSeq
<1>4. /\ SubSeq(s, 1, n) \in Seq(S)
      /\ Len(SubSeq(s, 1, n)) = IF 1 <= n THEN n - 1 + 1 ELSE 0
      /\ \A k \in 1..n - 1 + 1 : SubSeq(s, 1, n)[k] = s[1 + k - 1]
  <2>1. 1 \in Int /\ n \in Int
    OBVIOUS
  <2> QED
    BY <2>1, <1>3, SubSeqProperties, SMT
<1>5. Len(SubSeq(s, 1, n)) = n /\ \A k \in 1..n : SubSeq(s, 1, n)[k] = s[k]
  BY <1>4
<1>6. Front(s) = SubSeq(s, 1, n)
  BY <1>2 DEF Front
<1>7. IsSeq(SubSeq(s, 1, n))
  BY <1>4, OwnElements
<1> QED
  BY <1>2, <1>5, <1>6, <1>7

(* One element of s is another one in t.                                      *)
Differs(s, t, n) ==
  t = [k \in DOMAIN s |-> t[k]] /\ \A k \in DOMAIN s : k # n => t[k] = s[k]

(* EXCEPT at one index changes at most that element.                          *)
LEMMA Except ==
  ASSUME NEW s, NEW n, NEW e PROVE Differs(s, [s EXCEPT ![n] = e], n)
BY DEF Differs

(* A sequence with one element replaced is a sequence of the same length.     *)
LEMMA Replaced ==
  ASSUME NEW s, IsSeq(s), NEW n \in 1..Len(s), NEW t, Differs(s, t, n)
  PROVE  /\ IsSeq(t) /\ Len(t) = Len(s)
         /\ \A k \in 1..Len(s) : k # n => t[k] = s[k]
<1> DEFINE S == ToSet(s) \cup {t[n]}
<1>1. DOMAIN s = 1..Len(s) /\ Len(s) \in Nat /\ s \in Seq(S)
  BY SeqMonotonic, Listed DEF IsSeq
<1>2. \A k \in 1..Len(s) : t[k] \in S
  BY <1>1 DEF Differs, ToSet
<1>3. t = [k \in 1..Len(s) |-> t[k]]
  BY <1>1 DEF Differs
<1> HIDE DEF S
<1>4. t \in [1..Len(s) -> S]
  BY <1>2, <1>3
<1>5. t \in Seq(S)
  BY <1>1, <1>4, SeqDef
<1>6. DOMAIN t = 1..Len(t) /\ Len(t) \in Nat
  BY <1>5, LenProperties
<1>7. Len(t) = Len(s)
  BY <1>1, <1>4, <1>6
<1> QED
  BY <1>1, <1>5, <1>7, OwnElements DEF Differs

(* As many different elements as positions.                                   *)
LEMMA DistinctCount ==
  ASSUME NEW s, NEW n \in Nat, \A i, j \in 1..n : i < j => s[i] # s[j]
  PROVE  Cardinality({s[k] : k \in 1..n}) = n
<1> DEFINE T == {s[k] : k \in 1..n}
           f == [k \in 1..n |-> s[k]]
<1>1. f \in [1..n -> T]
  OBVIOUS
<1>2. \A i, j \in 1..n : f[i] = f[j] => i = j
  OBVIOUS
<1>3. \A t \in T : \E k \in 1..n : f[k] = t
  OBVIOUS
<1>4. f \in Bijection(1..n, T)
  BY <1>1, <1>2, <1>3 DEF Bijection, Injection, Surjection, IsInjective
<1>5. ExistsBijection(1..n, T)
  BY <1>4 DEF ExistsBijection
<1> HIDE DEF T
<1>6. Cardinality(T) = n
  BY <1>5, FS_CountingElements
<1> QED
  BY <1>6 DEF T

-----------------------------------------------------------------------------
(* What is reachable from a set of references is closed under references, and *)
(* lies in every closed set those references lie in.                          *)
LEMMA ReachableHasStart ==
  ASSUME NEW start PROVE start \subseteq ReachableFrom(start)
BY DEF ReachableFrom

(* The references of what is reachable are reachable.                         *)
LEMMA ReachableIsClosed ==
  ASSUME NEW start, NEW d \in ReachableFrom(start)
  PROVE  RefsOf(d) \subseteq ReachableFrom(start)
<1> SUFFICES ASSUME NEW c \in RefsOf(d) PROVE c \in ReachableFrom(start)
  OBVIOUS
<1> DEFINE named == start \cup UNION {RefsOf(e) : e \in DOMAIN batch}
<1>1. d \in DOMAIN batch
  BY DEF RefsOf
<1>2. c \in named
  BY <1>1
<1>3. \A closed \in SUBSET named :
        start \subseteq closed /\ (\A e \in closed : RefsOf(e) \subseteq closed) => c \in closed
  <2> TAKE closed \in SUBSET named
  <2> HAVE start \subseteq closed /\ (\A e \in closed : RefsOf(e) \subseteq closed)
  <2>1. d \in closed
    BY DEF ReachableFrom
  <2> QED
    BY <2>1
<1> QED
  BY <1>2, <1>3 DEF ReachableFrom

(* A set closed under references that holds the start holds all of it.        *)
LEMMA ReachableIsLeast ==
  ASSUME NEW start, NEW S, start \subseteq S, \A d \in S : RefsOf(d) \subseteq S
  PROVE  ReachableFrom(start) \subseteq S
<1> SUFFICES ASSUME NEW c \in ReachableFrom(start) PROVE c \in S
  OBVIOUS
<1> DEFINE named == start \cup UNION {RefsOf(e) : e \in DOMAIN batch}
           closed == S \cap named
<1>1. \A d \in closed : RefsOf(d) \subseteq closed
  BY DEF RefsOf
<1>2. start \subseteq closed /\ closed \in SUBSET named
  OBVIOUS
<1> QED
  BY <1>1, <1>2 DEF ReachableFrom

(* What the components of the batch refer to does not change.                 *)
LEMMA SameFields ==
  ASSUME NEW c, form' = form, batch' = batch PROVE FieldsOf(c)' = FieldsOf(c)
BY DEF FieldsOf

(* A component refers to what it referred to.                                 *)
LEMMA SameRefs ==
  ASSUME NEW c, batch' = batch PROVE RefsOf(c)' = RefsOf(c)
BY DEF RefsOf

(* Reachability depends on the batch alone.                                   *)
LEMMA SameReachable ==
  ASSUME NEW start, batch' = batch PROVE ReachableFrom(start)' = ReachableFrom(start)
BY DEF ReachableFrom, RefsOf

(* What the form uses depends on the request alone.                           *)
LEMMA SameUsed ==
  ASSUME form' = form, batch' = batch PROVE Used' = Used
BY SameReachable DEF Used

(* So does which components are cyclic.                                       *)
LEMMA SameCycles ==
  ASSUME NEW c, batch' = batch PROVE Cyclic(c)' <=> Cyclic(c)
BY SameRefs, SameReachable DEF Cyclic

-----------------------------------------------------------------------------
(* The invariant *)
(* A context has those seven fields, its frames those three.                   *)
IsContext(x) ==
  DOMAIN x = {"stack", "resolved", "taken", "compiled", "layouts", "fields", "bytes"}
IsFrame(f) == DOMAIN f = {"of", "next", "items"}
Shape(x) ==
  /\ IsContext(x)
  /\ IsSeq(x.stack) /\ x.stack # <<>>
  /\ \A k \in 1..Len(x.stack) : IsFrame(x.stack[k])

(* The field a frame is at, and whether all of its references before that one *)
(* are compiled.                                                              *)
RefAt(frame) == FieldsOf(frame.of)[frame.next].ref
DoneBefore(frame, compiled) ==
  /\ frame.next \in 1..Len(FieldsOf(frame.of)) + 1
  /\ \A n \in 1..frame.next - 1 : FieldsOf(frame.of)[n].ref \in {Plain} \cup compiled

(* Above the root, the frames are of distinct components of the batch the form *)
(* refers to; each is where its lower neighbour's field points, so each is     *)
(* reachable from every component below it.                                    *)
Path(x, root) ==
  /\ x.stack[1].of = root
  /\ \A k \in 2..Len(x.stack) : x.stack[k].of \in DOMAIN batch \cap Used
  /\ \A k \in 1..Len(x.stack) : DoneBefore(x.stack[k], DOMAIN x.compiled)
  /\ \A k \in 1..Len(x.stack) - 1 :
       /\ x.stack[k].next <= Len(FieldsOf(x.stack[k].of))
       /\ RefAt(x.stack[k]) = x.stack[k + 1].of
  /\ \A i, j \in 2..Len(x.stack) : i < j =>
       x.stack[j].of # x.stack[i].of /\ x.stack[j].of \in ReachableFrom(RefsOf(x.stack[i].of))

(* The memo is closed under references and acyclic, and whatever lost its      *)
(* source is on the stack or in the memo.                                      *)
Memo(x) ==
  /\ x.taken = OnStack(x) \cup DOMAIN x.compiled
  /\ OnStack(x) \cap DOMAIN x.compiled = {}
  /\ x.taken \subseteq x.resolved
  /\ x.resolved \subseteq DOMAIN batch \cap Used
  /\ \A c \in DOMAIN x.compiled : RefsOf(c) \subseteq DOMAIN x.compiled /\ ~Cyclic(c)

Sound(x, root) == Shape(x) /\ Path(x, root) /\ Memo(x)

IInv ==
  /\ form \in Forms /\ batch \in Batches
  /\ IsSeq(contexts) /\ Len(contexts) \in {1, 2}
  /\ Sound(contexts[1], "form")
  /\ \A c \in contexts[1].resolved : batch[c].pin # "wrong"
  /\ Len(contexts) = 2 =>
       \E c \in DOMAIN batch \cap Used : Sound(contexts[2], c)
  /\ outcome # "COMPONENT_SOURCE_UNAVAILABLE"
  /\ VerdictExact

(* A context that is sound stays so while the request is the same.            *)
LEMMA SameSound ==
  ASSUME NEW x, NEW root, form' = form, batch' = batch PROVE Sound(x, root)' <=> Sound(x, root)
<1>1. Shape(x)' <=> Shape(x)
  BY DEF Shape, IsContext, IsFrame
<1>2. Memo(x)' <=> Memo(x)
  BY SameRefs, SameUsed, SameCycles DEF Memo, OnStack
<1>3. ASSUME NEW frame, NEW compiled PROVE DoneBefore(frame, compiled)' <=> DoneBefore(frame, compiled)
  BY SameFields DEF DoneBefore
<1>4. ASSUME NEW frame PROVE RefAt(frame)' = RefAt(frame)
  BY SameFields DEF RefAt
<1>5. Path(x, root)' <=> Path(x, root)
  BY SameFields, SameRefs, SameReachable, SameUsed, <1>3, <1>4 DEF Path
<1> QED
  BY <1>1, <1>2, <1>5 DEF Sound

-----------------------------------------------------------------------------
(* The request never changes.                                                 *)
Requests == form \in Forms /\ batch \in Batches
Named(c) == c = "form" \/ c \in DOMAIN batch \cap Used

(* Forms and components of a request have their fields in sequence.           *)
LEMMA FieldsAreListed ==
  ASSUME Requests, NEW c, Named(c)
  PROVE  /\ Len(FieldsOf(c)) \in Nat /\ DOMAIN FieldsOf(c) = 1..Len(FieldsOf(c))
         /\ c # "form" => RefsOf(c) = Refs(FieldsOf(c))
         /\ "form" \notin DOMAIN batch
<1>1. "form" \notin DOMAIN batch
  BY RequestsAssumption, BoundsAssumption DEF Requests
<1>2. IsSeq(FieldsOf(c))
  BY RequestsAssumption, <1>1 DEF Requests, Named, FieldsOf, IsSeq
<1>3. Len(FieldsOf(c)) \in Nat /\ DOMAIN FieldsOf(c) = 1..Len(FieldsOf(c))
  BY <1>2, Listed
<1>4. c # "form" => RefsOf(c) = Refs(FieldsOf(c))
  BY DEF Named, RefsOf, FieldsOf
<1> QED
  BY <1>1, <1>3, <1>4

(* Whatever a field refers to is among the references of its component, and    *)
(* used by the form if its component is.                                      *)
LEMMA Reference ==
  ASSUME Requests, NEW c, Named(c), NEW n \in 1..Len(FieldsOf(c)), FieldsOf(c)[n].ref # Plain
  PROVE  /\ FieldsOf(c)[n].ref \in Used
         /\ c # "form" => FieldsOf(c)[n].ref \in RefsOf(c)
<1>1. FieldsOf(c)[n].ref \in Refs(FieldsOf(c))
  BY FieldsAreListed DEF Refs
<1>2. CASE c = "form"
  BY <1>1, <1>2, ReachableHasStart DEF FieldsOf, Used
<1>3. CASE c # "form"
  <2>1. c \in Used /\ FieldsOf(c)[n].ref \in RefsOf(c)
    BY <1>1, <1>3, FieldsAreListed DEF Named
  <2> QED
    BY <2>1, <1>3, ReachableIsClosed DEF Used
<1> QED
  BY <1>2, <1>3

(* CompilationContext::new makes a sound context, for the form or for a pin.  *)
LEMMA FreshSound ==
  ASSUME Requests, NEW root, Named(root)
  PROVE  Sound(NewContext(root), root)
<1> DEFINE x == NewContext(root)
<1>1. /\ x.stack = <<Frame(root)>> /\ x.resolved = {} /\ x.taken = {} /\ x.compiled = EmptyMap
      /\ IsContext(x)
  BY DEF NewContext, IsContext
<1>2. DOMAIN EmptyMap = {}
  BY DEF EmptyMap
<1>3. x.stack \in Seq({Frame(root)}) /\ Len(x.stack) = 1 /\ x.stack # <<>> /\ x.stack[1] = Frame(root)
  BY <1>1
<1>4. /\ Frame(root).of = root /\ Frame(root).next = 1
      /\ IsFrame(Frame(root))
  BY DEF Frame, IsFrame
<1> HIDE DEF x
<1>5. Shape(x)
  <2>1. IsSeq(x.stack)
    BY <1>3, OwnElements
  <2> QED
    BY <2>1, <1>1, <1>3, <1>4 DEF Shape
<1>6. Path(x, root)
  <2>1. Len(FieldsOf(root)) \in Nat
    BY FieldsAreListed
  <2>2. DoneBefore(Frame(root), DOMAIN x.compiled)
    BY <2>1, <1>4 DEF DoneBefore
  <2> QED
    BY <2>2, <1>3, <1>4 DEF Path
<1>7. Memo(x)
  <2>1. OnStack(x) = {}
    BY <1>3 DEF OnStack
  <2> QED
    BY <2>1, <1>1, <1>2 DEF Memo
<1> QED
  BY <1>5, <1>6, <1>7 DEF Sound, x

(* A frame goes past its field once what the field refers to is compiled.      *)
LEMMA AdvanceSound ==
  ASSUME NEW x, NEW y, NEW root, NEW n, Sound(x, root), Shape(y), n = Len(x.stack),
         Len(y.stack) = n, \A k \in 1..n : k # n => y.stack[k] = x.stack[k],
         y.stack[n].of = x.stack[n].of, y.stack[n].next = x.stack[n].next + 1,
         y.resolved = x.resolved, y.taken = x.taken, y.compiled = x.compiled,
         Len(FieldsOf(x.stack[n].of)) \in Nat, x.stack[n].next <= Len(FieldsOf(x.stack[n].of)),
         RefAt(x.stack[n]) \in {Plain} \cup DOMAIN x.compiled
  PROVE  Sound(y, root)
<1>1. n \in Nat \ {0}
  BY Listed DEF Sound, Shape
<1>2. \A k \in 1..n : y.stack[k].of = x.stack[k].of
  OBVIOUS
<1>3. Memo(y)
  <2>1. OnStack(y) = OnStack(x)
    BY <1>1, <1>2 DEF OnStack
  <2> QED
    BY <2>1 DEF Sound, Memo
<1>4. ASSUME NEW k \in 1..n PROVE DoneBefore(y.stack[k], DOMAIN y.compiled)
  <2>1. DoneBefore(x.stack[k], DOMAIN x.compiled)
    BY DEF Sound, Path
  <2>2. CASE k # n
    BY <2>1, <2>2
  <2>3. CASE k = n
    BY <2>1, <2>3, <1>1, SMTT(30) DEF DoneBefore, RefAt
  <2> QED
    BY <2>2, <2>3
<1>5. Path(y, root)
  <2>1. \A k \in 2..n : y.stack[k].of \in DOMAIN batch \cap Used
    BY <1>1, <1>2 DEF Sound, Path
  <2>2. \A k \in 1..n - 1 : /\ y.stack[k].next <= Len(FieldsOf(y.stack[k].of))
                            /\ RefAt(y.stack[k]) = y.stack[k + 1].of
    BY <1>1, <1>2, SMTT(30) DEF Sound, Path
  <2>3. \A i, j \in 2..n : i < j =>
          y.stack[j].of # y.stack[i].of /\ y.stack[j].of \in ReachableFrom(RefsOf(y.stack[i].of))
    BY <1>1, <1>2 DEF Sound, Path
  <2>4. y.stack[1].of = root
    BY <1>1, <1>2 DEF Sound, Path
  <2> QED
    BY <2>1, <2>2, <2>3, <2>4, <1>4 DEF Path
<1> QED
  BY <1>3, <1>5 DEF Sound

(* A component of the batch the form refers to is resolved.                   *)
LEMMA ResolveSound ==
  ASSUME NEW x, NEW root, Sound(x, root), NEW c \in DOMAIN batch \cap Used,
         NEW y, IsContext(y), y.stack = x.stack, y.taken = x.taken, y.compiled = x.compiled,
         y.resolved = x.resolved \cup {c}
  PROVE  Sound(y, root)
<1>1. Shape(y)
  BY DEF Sound, Shape
<1>2. Path(y, root)
  BY DEF Sound, Path
<1>3. Memo(y)
  BY DEF Sound, Memo, OnStack
<1> QED
  BY <1>1, <1>2, <1>3 DEF Sound

(* A component that is neither on the stack nor compiled is put on the stack.  *)
LEMMA PushSound ==
  ASSUME Requests, NEW x, NEW root, Named(root), Sound(x, root), NEW n, n = Len(x.stack),
         x.stack[n].next <= Len(FieldsOf(x.stack[n].of)),
         NEW c, c = RefAt(x.stack[n]), c # Plain, c \in x.resolved,
         c \notin DOMAIN x.compiled, c \notin OnStack(x),
         NEW y, IsContext(y), y.stack = Append(x.stack, Frame(c)), y.taken = x.taken \cup {c},
         y.compiled = x.compiled, y.resolved = x.resolved
  PROVE  Sound(y, root)
<1>1. IsSeq(x.stack) /\ x.stack # <<>>
  BY DEF Sound, Shape
<1>2. n \in Nat \ {0}
  BY <1>1, Listed
<1>3. IsSeq(y.stack)
  BY <1>1, Pushed
<1>4. Len(y.stack) = n + 1 /\ y.stack[n + 1] = Frame(c) /\ \A k \in 1..n : y.stack[k] = x.stack[k]
  BY <1>1, Pushed
<1>5. /\ Frame(c).of = c /\ Frame(c).next = 1
      /\ IsFrame(Frame(c))
  BY DEF Frame, IsFrame
<1>6. c \in DOMAIN batch \cap Used
  BY DEF Sound, Memo
<1>7. Shape(y)
  <2>1. y.stack # <<>>
    BY <1>2, <1>4, <1>3, Listed
  <2>2. \A k \in 1..n : IsFrame(y.stack[k])
    BY <1>2, <1>4 DEF Sound, Shape
  <2>3. \A k \in 1..Len(y.stack) : k \in 1..n \/ k = n + 1
    BY <1>2, <1>4
  <2>4. \A k \in 1..Len(y.stack) : IsFrame(y.stack[k])
    BY <2>2, <2>3, <1>4, <1>5
  <2> QED
    BY <2>1, <2>4, <1>4, <1>3 DEF Shape
<1>8. Memo(y)
  <2>1. OnStack(y) = OnStack(x) \cup {c}
    <3>1. \A k \in 2..n : y.stack[k].of = x.stack[k].of
      BY <1>4
    <3>2. n + 1 = 1 \/ y.stack[n + 1].of = c
      BY <1>4, <1>5
    <3>3. n + 1 \in 2..n + 1 /\ 2..n + 1 = 2..n \cup {n + 1}
      BY <1>2
    <3> QED
      BY <3>1, <3>2, <3>3, <1>2, <1>4 DEF OnStack
  <2> QED
    BY <2>1, <1>6 DEF Sound, Memo
<1>9. Path(y, root)
  <2>1. y.stack[1].of = root
    BY <1>2, <1>4 DEF Sound, Path
  <2>2. \A k \in 2..n + 1 : y.stack[k].of \in DOMAIN batch \cap Used
    <3>1. \A k \in 2..n : y.stack[k].of \in DOMAIN batch \cap Used
      BY <1>2, <1>4 DEF Sound, Path
    <3> QED
      BY <3>1, <1>2, <1>4, <1>5, <1>6
  <2>3. \A k \in 1..n + 1 : DoneBefore(y.stack[k], DOMAIN y.compiled)
    <3>1. \A k \in 1..n : DoneBefore(y.stack[k], DOMAIN y.compiled)
      BY <1>2, <1>4 DEF Sound, Path
    <3>2. DoneBefore(y.stack[n + 1], DOMAIN y.compiled)
      BY <1>4, <1>5, <1>6, FieldsAreListed DEF DoneBefore, Named
    <3> QED
      BY <3>1, <3>2, <1>2
  <2>4. \A k \in 1..n : /\ y.stack[k].next <= Len(FieldsOf(y.stack[k].of))
                        /\ RefAt(y.stack[k]) = y.stack[k + 1].of
    <3>1. \A k \in 1..n - 1 : /\ y.stack[k].next <= Len(FieldsOf(y.stack[k].of))
                              /\ RefAt(y.stack[k]) = y.stack[k + 1].of
      <4>1. \A k \in 1..n - 1 : /\ x.stack[k].next <= Len(FieldsOf(x.stack[k].of))
                                /\ RefAt(x.stack[k]) = x.stack[k + 1].of
        BY DEF Sound, Path
      <4>2. \A k \in 1..n - 1 : y.stack[k] = x.stack[k] /\ y.stack[k + 1] = x.stack[k + 1]
        BY <1>2, <1>4
      <4> QED
        BY <4>1, <4>2
    <3>2. /\ y.stack[n].next <= Len(FieldsOf(y.stack[n].of))
          /\ RefAt(y.stack[n]) = y.stack[n + 1].of
      BY <1>2, <1>4, <1>5
    <3>3. \A k \in 1..n : k \in 1..n - 1 \/ k = n
      BY <1>2
    <3> QED
      BY <3>1, <3>2, <3>3, Zenon
  <2>5. ASSUME NEW i \in 2..n
        PROVE  c # x.stack[i].of /\ c \in ReachableFrom(RefsOf(x.stack[i].of))
    <3>1. c # x.stack[i].of
      BY <1>2 DEF OnStack
    <3>2. x.stack[n].next \in 1..Len(FieldsOf(x.stack[n].of))
      BY <1>2 DEF Sound, Path, DoneBefore
    <3>3. x.stack[n].of # "form" /\ Named(x.stack[n].of)
      <4>1. x.stack[n].of \in DOMAIN batch \cap Used
        BY <1>2 DEF Sound, Path
      <4> QED
        BY <4>1, FieldsAreListed DEF Named
    <3>4. c \in RefsOf(x.stack[n].of)
      BY <3>2, <3>3, Reference DEF RefAt
    <3>5. CASE i = n
      BY <3>1, <3>4, <3>5, ReachableHasStart
    <3>6. CASE i # n
      <4>1. x.stack[n].of \in ReachableFrom(RefsOf(x.stack[i].of))
        BY <1>2, <3>6, SMTT(30) DEF Sound, Path
      <4> QED
        BY <4>1, <3>1, <3>4, ReachableIsClosed
    <3> QED
      BY <3>5, <3>6
  <2>6. ASSUME NEW i \in 2..n + 1, NEW j \in 2..n + 1, i < j
        PROVE  y.stack[j].of # y.stack[i].of /\ y.stack[j].of \in ReachableFrom(RefsOf(y.stack[i].of))
    <3>1. i \in 2..n /\ y.stack[i].of = x.stack[i].of
      BY <2>6, <1>2, <1>4
    <3>2. CASE j = n + 1
      BY <3>1, <3>2, <2>5, <1>4, <1>5
    <3>3. CASE j # n + 1
      <4>1. j \in 2..n /\ y.stack[j].of = x.stack[j].of
        BY <3>3, <1>2, <1>4
      <4> QED
        BY <4>1, <3>1, <2>6 DEF Sound, Path
    <3> QED
      BY <3>2, <3>3
  <2>7. Len(y.stack) = n + 1 /\ Len(y.stack) - 1 = n
    BY <1>2, <1>4
  <2>8. \A i, j \in 2..n + 1 : i < j =>
          y.stack[j].of # y.stack[i].of /\ y.stack[j].of \in ReachableFrom(RefsOf(y.stack[i].of))
    BY <2>6
  <2> QED
    BY <2>1, <2>2, <2>3, <2>4, <2>7, <2>8, Zenon DEF Path
<1> QED
  BY <1>7, <1>8, <1>9 DEF Sound

(* A component whose fields are all compiled leaves the stack for the memo:   *)
(* what the memo was before holds all it refers to and not itself, so it is    *)
(* on no cycle.                                                               *)
LEMMA PopSound ==
  ASSUME Requests, NEW x, NEW root, Sound(x, root), NEW n, n = Len(x.stack), n > 1,
         NEW c, c = x.stack[n].of, x.stack[n].next > Len(FieldsOf(c)),
         NEW y, IsContext(y), y.stack = Front(x.stack), y.taken = x.taken,
         DOMAIN y.compiled = DOMAIN x.compiled \cup {c}, y.resolved = x.resolved
  PROVE  /\ Sound(y, root) /\ Len(y.stack) = n - 1
         /\ y.stack[n - 1].next <= Len(FieldsOf(y.stack[n - 1].of))
         /\ RefAt(y.stack[n - 1]) = c
<1>1. IsSeq(x.stack) /\ x.stack # <<>>
  BY DEF Sound, Shape
<1>2. n \in Nat \ {0, 1}
  BY <1>1, Listed
<1>3. IsSeq(y.stack)
  BY <1>1, Popped
<1>4. Len(y.stack) = n - 1 /\ \A k \in 1..n - 1 : y.stack[k] = x.stack[k]
  BY <1>1, Popped
<1>5. c \in DOMAIN batch \cap Used /\ c # "form" /\ Named(c)
  <2>1. c \in DOMAIN batch \cap Used
    BY <1>2 DEF Sound, Path
  <2> QED
    BY <2>1, FieldsAreListed DEF Named
<1>6. RefsOf(c) \subseteq DOMAIN x.compiled
  <2>1. /\ x.stack[n].next = Len(FieldsOf(c)) + 1 /\ Len(FieldsOf(c)) \in Nat
        /\ \A k \in 1..x.stack[n].next - 1 : FieldsOf(c)[k].ref \in {Plain} \cup DOMAIN x.compiled
    <3>1. DoneBefore(x.stack[n], DOMAIN x.compiled)
      BY <1>2 DEF Sound, Path
    <3> QED
      BY <3>1, <1>5, FieldsAreListed DEF DoneBefore
  <2>2. DOMAIN FieldsOf(c) = 1..Len(FieldsOf(c)) /\ RefsOf(c) = Refs(FieldsOf(c))
    BY <1>5, FieldsAreListed
  <2>3. \A k \in DOMAIN FieldsOf(c) : FieldsOf(c)[k].ref \in {Plain} \cup DOMAIN x.compiled
    BY <2>1, <2>2
  <2> QED
    BY <2>2, <2>3 DEF Refs
<1>7. /\ \A k \in 1..n - 1 : /\ x.stack[k].next <= Len(FieldsOf(x.stack[k].of))
                              /\ RefAt(x.stack[k]) = x.stack[k + 1].of
       /\ \A i, j \in 2..n : i < j => /\ x.stack[j].of # x.stack[i].of
                                     /\ x.stack[j].of \in ReachableFrom(RefsOf(x.stack[i].of))
  BY DEF Sound, Path
<1>8. c \notin DOMAIN x.compiled
  BY <1>2 DEF Sound, Memo, OnStack
<1>9. ~Cyclic(c)
  <2>1. ReachableFrom(RefsOf(c)) \subseteq DOMAIN x.compiled
    BY <1>6, ReachableIsLeast DEF Sound, Memo
  <2> QED
    BY <2>1, <1>8 DEF Cyclic
<1>10. Shape(y)
  <2>1. y.stack # <<>>
    BY <1>2, <1>3, <1>4, Listed
  <2>2. \A k \in 1..n - 1 : IsFrame(y.stack[k])
    BY <1>2, <1>4 DEF Sound, Shape
  <2> QED
    BY <2>1, <2>2, <1>3, <1>4 DEF Shape
<1>11. Memo(y)
  <2>1. OnStack(x) = OnStack(y) \cup {c}
    <3>1. \A k \in 2..n - 1 : y.stack[k].of = x.stack[k].of
      BY <1>2, <1>4
    <3>2. n \in 2..n /\ 2..n = 2..n - 1 \cup {n}
      BY <1>2
    <3> QED
      BY <3>1, <3>2, <1>4, SMTT(30) DEF OnStack
  <2>2. c \notin OnStack(y)
    <3>1. \A k \in 2..n - 1 : x.stack[k].of # c
      BY <1>2, <1>7, SMTT(30)
    <3> QED
      BY <3>1, <1>2, <1>4 DEF OnStack
  <2>3. y.taken = OnStack(y) \cup DOMAIN y.compiled
    BY <2>1 DEF Sound, Memo
  <2>4. OnStack(y) \cap DOMAIN y.compiled = {}
    BY <2>1, <2>2 DEF Sound, Memo
  <2>5. \A d \in DOMAIN y.compiled : RefsOf(d) \subseteq DOMAIN y.compiled /\ ~Cyclic(d)
    BY <1>6, <1>9 DEF Sound, Memo
  <2>6. y.taken \subseteq y.resolved /\ y.resolved \subseteq DOMAIN batch \cap Used
    BY DEF Sound, Memo
  <2> QED
    BY <2>3, <2>4, <2>5, <2>6 DEF Memo
<1>12. Path(y, root)
  <2>1. y.stack[1].of = root
    BY <1>2, <1>4 DEF Sound, Path
  <2>2. \A k \in 2..n - 1 : y.stack[k].of \in DOMAIN batch \cap Used
    BY <1>2, <1>4 DEF Sound, Path
  <2>3. \A k \in 1..n - 1 : DoneBefore(y.stack[k], DOMAIN y.compiled)
    <3>1. \A k \in 1..n - 1 : DoneBefore(y.stack[k], DOMAIN x.compiled)
      BY <1>2, <1>4 DEF Sound, Path
    <3> QED
      BY <3>1 DEF DoneBefore
  <2>4. \A k \in 1..(n - 1) - 1 : /\ y.stack[k].next <= Len(FieldsOf(y.stack[k].of))
                                  /\ RefAt(y.stack[k]) = y.stack[k + 1].of
    <3>1. \A k \in 1..(n - 1) - 1 : k \in 1..n - 1 /\ k + 1 \in 1..n - 1
      BY <1>2
    <3> QED
      BY <3>1, <1>4, <1>7
  <2>5. \A i, j \in 2..n - 1 : i < j =>
          y.stack[j].of # y.stack[i].of /\ y.stack[j].of \in ReachableFrom(RefsOf(y.stack[i].of))
    <3>1. \A k \in 2..n - 1 : k \in 2..n /\ k \in 1..n - 1
      BY <1>2
    <3>2. ASSUME NEW i \in 2..n - 1, NEW j \in 2..n - 1, i < j
          PROVE  y.stack[j].of # y.stack[i].of
                 /\ y.stack[j].of \in ReachableFrom(RefsOf(y.stack[i].of))
      <4>1. y.stack[i] = x.stack[i] /\ y.stack[j] = x.stack[j]
        BY <3>1, <1>4
      <4> QED
        BY <4>1, <3>1, <3>2, <1>7
    <3> QED
      BY <3>2
  <2> QED
    BY <2>1, <2>2, <2>3, <2>4, <2>5, <1>4, Zenon DEF Path
<1>13. /\ y.stack[n - 1].next <= Len(FieldsOf(y.stack[n - 1].of))
       /\ RefAt(y.stack[n - 1]) = c
  <2>1. n - 1 \in 1..n - 1 /\ (n - 1) + 1 = n
    BY <1>2
  <2> QED
    BY <2>1, <1>4, <1>7
<1> QED
  BY <1>4, <1>10, <1>11, <1>12, <1>13 DEF Sound

(* Every frame is of the form or of a component the form uses.                 *)
LEMMA FrameNamed ==
  ASSUME NEW x, NEW root, Sound(x, root), Named(root), NEW k \in 1..Len(x.stack)
  PROVE  Named(x.stack[k].of)
<1>1. Len(x.stack) \in Nat \ {0}
  BY Listed DEF Sound, Shape
<1>2. CASE k = 1
  BY <1>2 DEF Sound, Path
<1>3. CASE k # 1
  <2>1. k \in 2..Len(x.stack)
    BY <1>1, <1>3
  <2> QED
    BY <2>1 DEF Sound, Path, Named
<1> QED
  BY <1>2, <1>3

(* What it takes for a step of the top frame to leave a context sound.           *)
LEMMA TopMoves ==
  ASSUME NEW x, NEW root, Sound(x, root), Named(root), Requests, NEW n, n = Len(x.stack),
         x.stack[n].next <= Len(FieldsOf(x.stack[n].of)),
         RefAt(x.stack[n]) \in {Plain} \cup DOMAIN x.compiled,
         NEW y, IsContext(y), Differs(x.stack, y.stack, n), IsFrame(y.stack[n]),
         y.stack[n].of = x.stack[n].of, y.stack[n].next = x.stack[n].next + 1,
         y.resolved = x.resolved, y.taken = x.taken, y.compiled = x.compiled
  PROVE  Sound(y, root)
<1>1. IsSeq(x.stack) /\ x.stack # <<>>
  BY DEF Sound, Shape
<1>2. n \in Nat \ {0} /\ n \in 1..n
  BY <1>1, Listed
<1>3. /\ IsSeq(y.stack)
      /\ Len(y.stack) = n
      /\ \A k \in 1..n : k # n => y.stack[k] = x.stack[k]
  BY <1>1, <1>2, Replaced
<1>4. Shape(y)
  <2>1. y.stack # <<>>
    BY <1>2, <1>3, Listed
  <2>2. \A k \in 1..n : IsFrame(y.stack[k])
    BY <1>3 DEF Sound, Shape
  <2> QED
    BY <2>1, <2>2, <1>3 DEF Shape
<1>5. Len(FieldsOf(x.stack[n].of)) \in Nat
  BY <1>2, FrameNamed, FieldsAreListed
<1> QED
  BY <1>3, <1>4, <1>5, AdvanceSound

(* WithGroup moves the top frame past its reference and keeps the memo as it is. *)
LEMMA GroupStep ==
  ASSUME NEW x, Shape(x), NEW n, n = Len(x.stack), NEW c, NEW items, NEW y,
         y = WithGroup(x, c, items)
  PROVE  /\ IsContext(y) /\ Differs(x.stack, y.stack, n)
         /\ y.stack[n].of = x.stack[n].of /\ y.stack[n].next = x.stack[n].next + 1
         /\ IsFrame(y.stack[n])
         /\ y.resolved = x.resolved /\ y.taken = x.taken /\ y.compiled = x.compiled
<1> DEFINE id == FieldsOf(x.stack[n].of)[x.stack[n].next].id
           node == Group(id, items)
           z == [x EXCEPT !.stack[n].items = Append(@, node), !.stack[n].next = @ + 1]
<1>1. y = [z EXCEPT !.layouts = Put(x.layouts, id, LayoutOf(c, items, x.layouts)),
                    !.fields = x.fields + Sizes(items),
                    !.bytes = x.bytes + node.size]
  BY DEF WithGroup
<1>2. /\ IsContext(z) /\ Differs(x.stack, z.stack, n)
      /\ z.stack[n].of = x.stack[n].of /\ z.stack[n].next = x.stack[n].next + 1
      /\ IsFrame(z.stack[n])
      /\ z.resolved = x.resolved /\ z.taken = x.taken /\ z.compiled = x.compiled
  <2>1. n \in 1..n /\ DOMAIN x.stack = 1..n
    BY Listed DEF Shape
  <2>2. n \in DOMAIN x.stack /\ IsFrame(x.stack[n]) /\ IsContext(x)
    BY <2>1 DEF Shape
  <2> HIDE DEF node
  <2> QED
    BY <2>2 DEF IsContext, IsFrame, Differs
<1> HIDE DEF z, id, node
<1>3. IsContext(y) /\ y.stack = z.stack /\ y.resolved = z.resolved /\ y.taken = z.taken
      /\ y.compiled = z.compiled
  BY <1>1, <1>2 DEF IsContext
<1> QED
  BY <1>2, <1>3

(* A group put in place of a compiled component leaves a context sound.        *)
LEMMA GroupSound ==
  ASSUME NEW x, NEW root, Sound(x, root), Named(root), Requests, NEW n, n = Len(x.stack),
         x.stack[n].next <= Len(FieldsOf(x.stack[n].of)),
         RefAt(x.stack[n]) \in DOMAIN x.compiled, NEW c, NEW items
  PROVE  /\ Sound(WithGroup(x, c, items), root)
         /\ WithGroup(x, c, items).resolved = x.resolved
<1> DEFINE y == WithGroup(x, c, items)
<1>1. /\ IsContext(y) /\ Differs(x.stack, y.stack, n)
      /\ y.stack[n].of = x.stack[n].of /\ y.stack[n].next = x.stack[n].next + 1
      /\ IsFrame(y.stack[n])
      /\ y.resolved = x.resolved /\ y.taken = x.taken /\ y.compiled = x.compiled
  BY GroupStep DEF Sound
<1> HIDE DEF y
<1>2. Sound(y, root)
  BY <1>1, TopMoves
<1> QED
  BY <1>1, <1>2 DEF y

-----------------------------------------------------------------------------
(* The steps of the specification.                                            *)
LEMMA CurrentContext ==
  ASSUME IInv
  PROVE  /\ Requests /\ contexts # <<>> /\ IsSeq(contexts) /\ Len(contexts) \in {1, 2}
         /\ \E root : Named(root) /\ Sound(Now, root)
         /\ VerifiesHashes => Now = contexts[1] /\ Sound(Now, "form")
         /\ ~VerifiesHashes => Len(contexts) = 2
<1>1. contexts # <<>>
  BY Listed DEF IInv
<1>2. CASE Len(contexts) = 1
  BY <1>1, <1>2 DEF IInv, Now, Requests, Named, VerifiesHashes
<1>3. CASE Len(contexts) = 2
  BY <1>1, <1>3 DEF IInv, Now, Requests, Named, VerifiesHashes
<1> QED
  BY <1>2, <1>3 DEF IInv

(* The frame at the top of the innermost context and the field it is at.      *)
LEMMA CurrentFrame ==
  ASSUME Requests, NEW root, Sound(Now, root), Named(root), NEW n, n = Len(Now.stack)
  PROVE  /\ n \in Nat \ {0} /\ Top = Now.stack[n] /\ Named(Top.of)
         /\ Len(FieldsOf(Top.of)) \in Nat /\ Top.next \in 1..Len(FieldsOf(Top.of)) + 1
         /\ ~AtEnd => Top.next <= Len(FieldsOf(Top.of)) /\ RefAt(Top) = Field.ref
         /\ AtReference => Field.ref \in Used /\ Field.ref # Plain
         /\ DoneBefore(Top, DOMAIN Now.compiled)
<1>1. n \in Nat \ {0} /\ n \in 1..n
  BY Listed DEF Sound, Shape
<1>2. Top = Now.stack[n]
  BY DEF Top
<1>3. Named(Top.of)
  BY <1>1, <1>2, FrameNamed
<1>4. Len(FieldsOf(Top.of)) \in Nat
  BY <1>3, FieldsAreListed
<1>5. DoneBefore(Top, DOMAIN Now.compiled)
  BY <1>1, <1>2 DEF Sound, Path
<1>6. Top.next \in 1..Len(FieldsOf(Top.of)) + 1
  BY <1>5 DEF DoneBefore
<1>7. ~AtEnd => Top.next <= Len(FieldsOf(Top.of)) /\ RefAt(Top) = Field.ref
  BY <1>4, <1>6 DEF AtEnd, RefAt, Field
<1>8. AtReference => Field.ref \in Used /\ Field.ref # Plain
  <2> SUFFICES ASSUME AtReference PROVE Field.ref \in Used /\ Field.ref # Plain
    OBVIOUS
  <2>1. Top.next \in 1..Len(FieldsOf(Top.of)) /\ FieldsOf(Top.of)[Top.next].ref # Plain
    BY <1>4, <1>6 DEF AtReference, AtEnd, Field
  <2> QED
    BY <2>1, <1>3, Reference DEF Field
<1> QED
  BY <1>1, <1>2, <1>3, <1>4, <1>5, <1>6, <1>7, <1>8

(* The innermost context becomes a sound one that keeps to the pins.           *)
LEMMA UpdateKeeps ==
  ASSUME IInv, UNCHANGED <<form, batch>>, outcome' = "running",
         NEW y, Update(y), \A root : Named(root) /\ Sound(Now, root) => Sound(y, root),
         VerifiesHashes => \A c \in y.resolved : batch[c].pin # "wrong"
  PROVE  IInv'
<1>1. IsSeq(contexts)
  BY DEF IInv
<1>2. Len(contexts) \in {1, 2} /\ Len(contexts) \in 1..Len(contexts)
  BY DEF IInv
<1>3. /\ IsSeq(contexts') /\ Len(contexts') = Len(contexts)
      /\ contexts'[Len(contexts)] = y
      /\ \A k \in 1..Len(contexts) : k # Len(contexts) => contexts'[k] = contexts[k]
  <2>1. Differs(contexts, contexts', Len(contexts))
    BY Except DEF Update
  <2>2. contexts'[Len(contexts)] = y
    BY <1>1, <1>2, Listed DEF Update
  <2> QED
    BY <2>1, <2>2, <1>1, <1>2, Replaced
<1>4. VerdictExact'
  BY DEF VerdictExact
<1>5. (form \in Forms /\ batch \in Batches)'
  BY DEF IInv
<1>6. CASE Len(contexts) = 1
  <2>1. Now = contexts[1] /\ contexts'[1] = y /\ VerifiesHashes
    BY <1>3, <1>6 DEF Now, VerifiesHashes
  <2>2. Sound(y, "form")
    BY <2>1 DEF IInv, Named
  <2>3. Sound(contexts[1], "form")'
    BY <2>1, <2>2, SameSound
  <2>4. (\A c \in contexts[1].resolved : batch[c].pin # "wrong")'
    BY <2>1
  <2> QED
    BY <2>3, <2>4, <1>3, <1>4, <1>5, <1>6, <1>2 DEF IInv
<1>7. CASE Len(contexts) = 2
  <2>1. Now = contexts[2] /\ contexts'[1] = contexts[1] /\ contexts'[2] = y
    BY <1>3, <1>7 DEF Now
  <2>2. PICK c \in DOMAIN batch \cap Used : Sound(contexts[2], c)
    BY <1>7 DEF IInv
  <2>3. Sound(y, c)
    BY <2>1, <2>2 DEF Named
  <2>4. Sound(contexts[2], c)' /\ (c \in DOMAIN batch \cap Used)'
    BY <2>1, <2>2, <2>3, SameSound, SameUsed
  <2>5. Sound(contexts[1], "form")'
    BY <2>1, SameSound DEF IInv
  <2>6. (\A d \in contexts[1].resolved : batch[d].pin # "wrong")'
    BY <2>1 DEF IInv
  <2> QED
    BY <2>4, <2>5, <2>6, <1>3, <1>4, <1>5, <1>2 DEF IInv
<1> QED
  BY <1>6, <1>7, <1>2

(* The call ends with an outcome that is exact.                               *)
LEMMA EndKeeps ==
  ASSUME IInv, UNCHANGED <<form, batch, contexts>>,
         outcome' # "COMPONENT_SOURCE_UNAVAILABLE", VerdictExact'
  PROVE  IInv'
<1>1. Sound(contexts[1], "form")'
  BY SameSound DEF IInv
<1>2. (Len(contexts) = 2 => \E c \in DOMAIN batch \cap Used : Sound(contexts[2], c))'
  BY SameSound, SameUsed DEF IInv
<1> QED
  BY <1>1, <1>2 DEF IInv

(* What the current field refers to is used by the form.                      *)
LEMMA Refusal ==
  ASSUME IInv, UNCHANGED <<form, batch, contexts>>, AtReference,
         \/ outcome' \in {"COMPONENT_VERSION_REQUIRED", "COMPONENT_DEPTH_EXCEEDED",
                          "COMPONENT_BUDGET_EXCEEDED"}
         \/ outcome' = "COMPONENT_VERSION_NOT_FOUND" /\ Field.ref \notin DOMAIN batch
         \/ outcome' = "COMPONENT_HASH_MISMATCH" /\ Field.ref \in DOMAIN batch
            /\ batch[Field.ref].pin = "wrong"
         \/ outcome' = "CIRCULAR_COMPONENT_REFERENCE" /\ Cyclic(Field.ref)
  PROVE  IInv'
<1>1. PICK root : Named(root) /\ Sound(Now, root) /\ Requests
  BY CurrentContext
<1>2. Field.ref \in Used
  BY <1>1, CurrentFrame
<1>3. PICK d \in Used : d = Field.ref
  BY <1>2
<1>4. d \in Used' /\ (Cyclic(d)' <=> Cyclic(d)) /\ batch' = batch
  BY SameUsed, SameCycles
<1>5. VerdictExact'
  BY <1>3, <1>4 DEF VerdictExact
<1> QED
  BY <1>5, EndKeeps

(* A reference to a component on the stack closes a cycle.                     *)
LEMMA OnStackIsCyclic ==
  ASSUME IInv, AtReference, Field.ref \in OnStack(Now)
  PROVE  Cyclic(Field.ref)
<1>1. PICK root : Named(root) /\ Sound(Now, root) /\ Requests
  BY CurrentContext
<1>2. PICK n : n = Len(Now.stack)
  OBVIOUS
<1>3. /\ n \in Nat \ {0} /\ Top = Now.stack[n] /\ Named(Top.of)
      /\ Len(FieldsOf(Top.of)) \in Nat /\ Top.next \in 1..Len(FieldsOf(Top.of)) + 1
      /\ Top.next <= Len(FieldsOf(Top.of))
      /\ Field.ref # Plain
  BY <1>1, <1>2, CurrentFrame DEF AtReference
<1>4. PICK i \in 2..n : Now.stack[i].of = Field.ref
  BY <1>2 DEF OnStack
<1>5. Top.of # "form"
  <2>1. n \in 2..n
    BY <1>3, <1>4
  <2>2. Now.stack[n].of \in DOMAIN batch
    BY <2>1, <1>1, <1>2 DEF Sound, Path
  <2> QED
    BY <2>2, <1>1, <1>3, FieldsAreListed
<1>6. Field.ref \in RefsOf(Top.of)
  <2>1. Top.next \in 1..Len(FieldsOf(Top.of))
    BY <1>3
  <2> QED
    BY <2>1, <1>1, <1>3, <1>5, Reference DEF Field
<1>7. CASE i = n
  BY <1>3, <1>4, <1>6, <1>7, ReachableHasStart DEF Cyclic
<1>8. CASE i # n
  <2>1. Now.stack[n].of \in ReachableFrom(RefsOf(Now.stack[i].of))
    <3>1. n \in 2..n /\ i < n
      BY <1>3, <1>4, <1>8
    <3> QED
      BY <3>1, <1>1, <1>2, <1>4 DEF Sound, Path
  <2> QED
    BY <2>1, <1>3, <1>4, <1>6, ReachableIsClosed DEF Cyclic
<1> QED
  BY <1>7, <1>8

(* A refusal has its cause: a cycle is one, a missing version is missing.     *)
LEMMA RejectReferenceKeeps ==
  ASSUME IInv, RejectReference PROVE IInv'
<1> DEFINE named == Field.ref # Unversioned
           cyclic == Field.ref \in OnStack(Now)
           deep == Len(Now.stack) - 1 >= MaxDepth
<1>1. /\ AtReference /\ ReferenceError # "none" /\ outcome' = ReferenceError
      /\ UNCHANGED <<form, batch, contexts>>
  BY DEF RejectReference, Fail
<1>2. ReferenceError =
        CASE ~named -> "COMPONENT_VERSION_REQUIRED"
          [] named /\ cyclic -> "CIRCULAR_COMPONENT_REFERENCE"
          [] named /\ ~cyclic /\ deep -> "COMPONENT_DEPTH_EXCEEDED"
          [] named /\ ~cyclic /\ ~deep /\ Field.ref \notin DOMAIN batch -> "COMPONENT_VERSION_NOT_FOUND"
          [] OTHER -> "none"
  BY DEF ReferenceError
<1> HIDE DEF named, cyclic, deep
<1>3. \/ outcome' \in {"COMPONENT_VERSION_REQUIRED", "COMPONENT_DEPTH_EXCEEDED"}
      \/ outcome' = "COMPONENT_VERSION_NOT_FOUND" /\ Field.ref \notin DOMAIN batch
      \/ outcome' = "CIRCULAR_COMPONENT_REFERENCE" /\ cyclic
  BY <1>1, <1>2
<1>4. cyclic => Cyclic(Field.ref)
  BY <1>1, OnStackIsCyclic DEF cyclic
<1> QED
  BY <1>1, <1>3, <1>4, Refusal

(* Every step below starts from these facts about the innermost context.       *)
LEMMA Current ==
  ASSUME IInv
  PROVE  \E root, n :
           /\ Named(root) /\ Sound(Now, root) /\ Requests /\ n = Len(Now.stack)
           /\ n \in Nat \ {0} /\ Top = Now.stack[n] /\ Named(Top.of)
           /\ Len(FieldsOf(Top.of)) \in Nat /\ Top.next \in 1..Len(FieldsOf(Top.of)) + 1
           /\ ~AtEnd => Top.next <= Len(FieldsOf(Top.of)) /\ RefAt(Top) = Field.ref
           /\ AtReference => Field.ref \in Used /\ Field.ref # Plain
           /\ DoneBefore(Top, DOMAIN Now.compiled)
<1>1. PICK root : Named(root) /\ Sound(Now, root) /\ Requests
  BY CurrentContext
<1>2. PICK n : n = Len(Now.stack)
  OBVIOUS
<1> QED
  BY <1>1, <1>2, CurrentFrame

(* The pins of what is resolved while hashes are verified are right.           *)
LEMMA PinsHold ==
  ASSUME IInv, VerifiesHashes, NEW c \in Now.resolved PROVE batch[c].pin # "wrong"
BY CurrentContext DEF IInv

(* A plain field only moves the top frame on.                                 *)
LEMMA CompilePlainFieldKeeps ==
  ASSUME IInv, CompilePlainField PROVE IInv'
<1>1. PICK n : n = Len(Now.stack)
  OBVIOUS
<1> DEFINE y == [Now EXCEPT !.stack[n].items = Append(@, Leaf(Field.id)),
                            !.stack[n].next = @ + 1]
<1>2. /\ Update(y) /\ ~AtEnd /\ Field.ref = Plain
      /\ UNCHANGED <<form, batch, outcome>> /\ outcome' = "running"
  BY <1>1 DEF CompilePlainField, Running
<1>3. ASSUME NEW root, Named(root), Sound(Now, root)
      PROVE  Sound(y, root) /\ y.resolved = Now.resolved
  <2>1. Requests
    BY CurrentContext
  <2>2. Now.stack[n].next <= Len(FieldsOf(Now.stack[n].of)) /\ RefAt(Now.stack[n]) = Plain
    BY <2>1, <1>1, <1>2, <1>3, CurrentFrame
  <2>3. /\ IsContext(y) /\ Differs(Now.stack, y.stack, n)
        /\ y.stack[n].of = Now.stack[n].of /\ y.stack[n].next = Now.stack[n].next + 1
        /\ IsFrame(y.stack[n])
        /\ y.resolved = Now.resolved /\ y.taken = Now.taken /\ y.compiled = Now.compiled
    <3>1. n \in 1..n /\ DOMAIN Now.stack = 1..n
      BY <1>1, <1>3, Listed DEF Sound, Shape
    <3>2. n \in DOMAIN Now.stack /\ IsFrame(Now.stack[n]) /\ IsContext(Now)
      BY <3>1, <1>1, <1>3 DEF Sound, Shape
    <3> QED
      BY <3>2 DEF IsContext, IsFrame, Differs
  <2> HIDE DEF y
  <2>4. Sound(y, root)
    BY <2>1, <2>2, <2>3, <1>1, <1>3, TopMoves
  <2> QED
    BY <2>3, <2>4
<1> HIDE DEF y
<1>4. y.resolved = Now.resolved
  BY <1>3, CurrentContext
<1>5. VerifiesHashes => \A c \in y.resolved : batch[c].pin # "wrong"
  BY <1>4, PinsHold
<1> QED
  BY <1>2, <1>3, <1>5, UpdateKeeps

(* A pin is verified in a fresh context, the second and last one.             *)
LEMMA BeginVerificationKeeps ==
  ASSUME IInv, BeginVerification PROVE IInv'
<1>1. /\ Unresolved /\ VerifiesHashes /\ Pinned(Field.ref)
      /\ contexts' = Append(contexts, NewContext(Field.ref))
      /\ UNCHANGED <<form, batch, outcome>> /\ outcome' = "running"
  BY DEF BeginVerification, Unresolved, AtReference, Running
<1>2. Field.ref \in DOMAIN batch \cap Used
  <2>1. Field.ref \in Used
    BY <1>1, Current DEF Unresolved
  <2>2. Field.ref \in DOMAIN batch
    BY <1>1 DEF Unresolved, ReferenceError
  <2> QED
    BY <2>1, <2>2
<1>3. PICK c \in DOMAIN batch \cap Used : c = Field.ref
  BY <1>2
<1>4. Sound(NewContext(c), c)
  BY CurrentContext, FreshSound DEF Named
<1>5. Len(contexts) = 1 /\ IsSeq(contexts)
  BY <1>1 DEF VerifiesHashes, IInv
<1>6. IsSeq(contexts') /\ Len(contexts') = 2 /\ contexts'[2] = NewContext(c) /\ contexts'[1] = contexts[1]
  <2>1. PICK e : e = NewContext(c) /\ contexts' = Append(contexts, e)
    BY <1>1, <1>3
  <2>2. /\ IsSeq(Append(contexts, e))
        /\ Len(Append(contexts, e)) = Len(contexts) + 1
        /\ Append(contexts, e)[Len(contexts) + 1] = e
        /\ \A k \in 1..Len(contexts) : Append(contexts, e)[k] = contexts[k]
    <3>1. IsSeq(contexts)
      BY <1>5
    <3> QED
      BY <3>1, Pushed
  <2>3. Len(contexts) = 1
    BY <1>5
  <2>4. Append(contexts, e)[1] = contexts[1] /\ Append(contexts, e)[2] = e
    BY <2>2, <2>3
  <2> QED
    BY <2>1, <2>2, <2>3, <2>4
<1>7. Sound(contexts[2], c)' /\ (c \in DOMAIN batch \cap Used)'
  BY <1>1, <1>4, <1>6, SameSound, SameUsed
<1>8. Sound(contexts[1], "form")' /\ (\A d \in contexts[1].resolved : batch[d].pin # "wrong")'
  BY <1>1, <1>6, SameSound DEF IInv
<1>9. VerdictExact'
  BY <1>1 DEF VerdictExact
<1> QED
  BY <1>1, <1>6, <1>7, <1>8, <1>9 DEF IInv

(* What is resolved is in the batch, and has its pin if pins are verified here. *)
LEMMA ResolveKeeps ==
  ASSUME IInv, Resolve PROVE IInv'
<1>1. Unresolved /\ UNCHANGED <<form, batch>> /\ AtReference /\ outcome = "running"
  BY DEF Resolve, Unresolved, AtReference, Running
<1>2. Field.ref \in DOMAIN batch \cap Used
  <2>1. Field.ref \in Used
    BY <1>1, Current
  <2>2. Field.ref \in DOMAIN batch
    BY <1>1 DEF Unresolved, ReferenceError
  <2> QED
    BY <2>1, <2>2
<1>3. CASE VerifiesHashes /\ batch[Field.ref].pin = "wrong"
  <2>1. outcome' = "COMPONENT_HASH_MISMATCH" /\ UNCHANGED contexts
    BY <1>3 DEF Resolve, Fail
  <2> QED
    BY <2>1, <1>1, <1>2, <1>3, Refusal
<1>4. CASE ~(VerifiesHashes /\ batch[Field.ref].pin = "wrong")
  <2> DEFINE c == Field.ref
             y == [Now EXCEPT !.resolved = @ \cup {c}]
  <2>1. Update(y) /\ outcome' = "running"
    BY <1>1, <1>4 DEF Resolve
  <2>2. c \in DOMAIN batch \cap Used
    BY <1>2
  <2> HIDE DEF c
  <2>3. ASSUME NEW root, Named(root), Sound(Now, root)
        PROVE  Sound(y, root) /\ y.resolved = Now.resolved \cup {c}
    <3>1. /\ IsContext(y) /\ y.stack = Now.stack /\ y.taken = Now.taken
          /\ y.compiled = Now.compiled /\ y.resolved = Now.resolved \cup {c}
      BY <2>3 DEF Sound, Shape, IsContext
    <3> HIDE DEF y
    <3> QED
      BY <3>1, <2>2, <2>3, ResolveSound
  <2> HIDE DEF y
  <2>4. y.resolved = Now.resolved \cup {c}
    BY <2>3, CurrentContext
  <2>5. VerifiesHashes => \A d \in y.resolved : batch[d].pin # "wrong"
    BY <2>4, <1>4, PinsHold DEF c
  <2> QED
    BY <1>1, <2>1, <2>3, <2>5, UpdateKeeps
<1> QED
  BY <1>3, <1>4

(* The source is there for the first expansion, which pushes a frame.         *)
LEMMA ExpandFirstKeeps ==
  ASSUME IInv, ExpandFirst PROVE IInv'
<1> DEFINE c == Field.ref
<1>1. /\ UNCHANGED <<form, batch>> /\ AtReference /\ ~AtEnd /\ outcome = "running"
      /\ c \in Now.resolved /\ c \notin DOMAIN Now.compiled /\ c # Plain
  BY DEF ExpandFirst, Resolved, AtReference, Running
<1>2. c \notin OnStack(Now)
  BY DEF ExpandFirst, Resolved, ReferenceError
<1>3. c \notin Now.taken
  BY <1>1, <1>2, CurrentContext DEF Sound, Memo
<1> DEFINE y == [Now EXCEPT !.taken = @ \cup {c}, !.stack = Append(@, Frame(c))]
<1>4. Update(y) /\ outcome' = "running"
  BY <1>1, <1>3 DEF ExpandFirst
<1> HIDE DEF c
<1>5. ASSUME NEW root, Named(root), Sound(Now, root)
      PROVE  Sound(y, root) /\ y.resolved = Now.resolved
  <2>1. /\ IsContext(y) /\ y.stack = Append(Now.stack, Frame(c)) /\ y.taken = Now.taken \cup {c}
        /\ y.compiled = Now.compiled /\ y.resolved = Now.resolved
    BY <1>5 DEF Sound, Shape, IsContext
  <2> HIDE DEF y
  <2>2. PICK n : n = Len(Now.stack)
    OBVIOUS
  <2>3. Requests
    BY CurrentContext
  <2>4. Now.stack[n].next <= Len(FieldsOf(Now.stack[n].of)) /\ c = RefAt(Now.stack[n])
    BY <1>1, <1>5, <2>2, <2>3, CurrentFrame DEF c
  <2>5. Sound(y, root)
    BY <1>1, <1>2, <1>5, <2>1, <2>2, <2>3, <2>4, PushSound
  <2> QED
    BY <2>1, <2>5
<1> HIDE DEF y
<1>6. VerifiesHashes => \A d \in y.resolved : batch[d].pin # "wrong"
  BY <1>5, CurrentContext, PinsHold
<1> QED
  BY <1>1, <1>4, <1>5, <1>6, UpdateKeeps

(* The budget either ends the call or lets the group in.                       *)
LEMMA ChargedKeeps ==
  ASSUME IInv, UNCHANGED <<form, batch>>, outcome = "running", NEW y, Charged(y),
         \A root : Named(root) /\ Sound(Now, root) => Sound(y, root) /\ y.resolved = Now.resolved
  PROVE  IInv'
<1>1. VerifiesHashes => \A d \in y.resolved : batch[d].pin # "wrong"
  BY CurrentContext, PinsHold
<1>2. CASE y.fields > MaxFields \/ y.bytes > MaxBytes
  <2>1. outcome' = "COMPONENT_BUDGET_EXCEEDED" /\ UNCHANGED contexts
    BY <1>2 DEF Charged, Fail
  <2>2. VerdictExact'
    BY <2>1 DEF VerdictExact
  <2> QED
    BY <2>1, <2>2, EndKeeps
<1>3. CASE ~(y.fields > MaxFields \/ y.bytes > MaxBytes)
  <2>1. Update(y) /\ outcome' = "running"
    BY <1>3 DEF Charged
  <2> QED
    BY <2>1, <1>1, UpdateKeeps
<1> QED
  BY <1>2, <1>3

(* A clone takes a group from the memo and moves the top frame past it.       *)
LEMMA CloneCompiledKeeps ==
  ASSUME IInv, CloneCompiled PROVE IInv'
<1> DEFINE c == Field.ref
           items == Now.compiled[c]
           y == WithGroup(Now, c, items)
<1>1. /\ UNCHANGED <<form, batch>> /\ ~AtEnd /\ outcome = "running"
      /\ c \in DOMAIN Now.compiled /\ Charged(y)
  BY DEF CloneCompiled, Resolved, AtReference, Running
<1> HIDE DEF items
<1>2. ASSUME NEW root, Named(root), Sound(Now, root)
      PROVE  Sound(y, root) /\ y.resolved = Now.resolved
  <2>1. PICK n : n = Len(Now.stack)
    OBVIOUS
  <2>2. Requests
    BY CurrentContext
  <2>3. Now.stack[n].next <= Len(FieldsOf(Now.stack[n].of)) /\ RefAt(Now.stack[n]) \in DOMAIN Now.compiled
    BY <1>1, <1>2, <2>1, <2>2, CurrentFrame
  <2> HIDE DEF c
  <2> QED
    BY <1>2, <2>1, <2>2, <2>3, GroupSound
<1> HIDE DEF y
<1> QED
  BY <1>1, <1>2, ChargedKeeps

(* A component that is done goes from the stack into the memo.                *)
LEMMA FinishComponentKeeps ==
  ASSUME IInv, FinishComponent PROVE IInv'
<1> DEFINE c == Top.of
           items == Top.items
           x == [Now EXCEPT !.stack = Front(@), !.compiled = Put(@, c, items)]
           y == WithGroup(x, c, items)
<1>1. /\ UNCHANGED <<form, batch>> /\ AtEnd /\ outcome = "running" /\ Len(Now.stack) > 1
      /\ Charged(y)
  BY DEF FinishComponent, Running
<1> HIDE DEF items
<1>2. ASSUME NEW root, Named(root), Sound(Now, root)
      PROVE  Sound(y, root) /\ y.resolved = Now.resolved
  <2>1. PICK n : n = Len(Now.stack)
    OBVIOUS
  <2>2. Requests
    BY CurrentContext
  <2>3. n > 1 /\ c = Now.stack[n].of /\ Now.stack[n].next > Len(FieldsOf(c)) /\ n \in Nat
    BY <1>1, <1>2, <2>1, <2>2, CurrentFrame DEF AtEnd
  <2>4. /\ IsContext(x) /\ x.stack = Front(Now.stack) /\ x.taken = Now.taken
        /\ DOMAIN x.compiled = DOMAIN Now.compiled \cup {c} /\ x.resolved = Now.resolved
    <3> HIDE DEF c
    <3>1. IsContext(Now)
      BY <1>2 DEF Sound, Shape
    <3>2. \A map, v : DOMAIN Put(map, c, v) = DOMAIN map \cup {c}
      BY DEF Put
    <3>3. IsContext(x) /\ x.stack = Front(Now.stack) /\ x.taken = Now.taken
          /\ x.compiled = Put(Now.compiled, c, items) /\ x.resolved = Now.resolved
      BY <3>1 DEF IsContext
    <3> QED
      BY <3>2, <3>3
  <2> HIDE DEF c, x
  <2>5. /\ Sound(x, root) /\ Len(x.stack) = n - 1
        /\ x.stack[n - 1].next <= Len(FieldsOf(x.stack[n - 1].of))
        /\ RefAt(x.stack[n - 1]) = c
    <3>1. PICK z : z = Now
      OBVIOUS
    <3>2. Sound(z, root) /\ n = Len(z.stack) /\ c = z.stack[n].of /\ z.stack[n].next > Len(FieldsOf(c))
      BY <1>2, <2>1, <2>3, <3>1
    <3>3. IsContext(x) /\ x.stack = Front(z.stack) /\ x.taken = z.taken
          /\ DOMAIN x.compiled = DOMAIN z.compiled \cup {c} /\ x.resolved = z.resolved
      BY <2>4, <3>1
    <3>4. n > 1
      BY <2>3
    <3> QED
      BY <2>2, <3>2, <3>3, <3>4, PopSound, SMTT(30)
  <2>6. RefAt(x.stack[n - 1]) \in DOMAIN x.compiled
    BY <2>4, <2>5
  <2>7. Sound(y, root) /\ y.resolved = x.resolved
    BY <1>2, <2>2, <2>5, <2>6, GroupSound
  <2> QED
    BY <2>4, <2>7
<1> HIDE DEF y
<1> QED
  BY <1>1, <1>2, ChargedKeeps

(* The second context is dropped, the first is as it was.                     *)
LEMMA FinishVerificationKeeps ==
  ASSUME IInv, FinishVerification PROVE IInv'
<1>1. UNCHANGED <<form, batch, outcome>> /\ contexts' = Front(contexts) /\ ~VerifiesHashes
  BY DEF FinishVerification
<1>2. IsSeq(contexts) /\ contexts # <<>> /\ Len(contexts) = 2
  BY <1>1, CurrentContext
<1>3. IsSeq(contexts') /\ Len(contexts') = 1 /\ contexts'[1] = contexts[1]
  <2>1. 1 \in 1..Len(contexts) - 1 /\ Len(contexts) - 1 = 1
    BY <1>2
  <2> QED
    BY <2>1, <1>1, <1>2, Popped
<1>4. Sound(contexts[1], "form")' /\ (\A d \in contexts[1].resolved : batch[d].pin # "wrong")'
  BY <1>1, <1>3, SameSound DEF IInv
<1>5. VerdictExact'
  BY <1>1 DEF FinishVerification, Running, VerdictExact
<1> QED
  BY <1>1, <1>3, <1>4, <1>5 DEF IInv

(* The form's own references are in the memo, which is closed, acyclic and      *)
(* resolved with the right pins.                                               *)
LEMMA FinishFormKeeps ==
  ASSUME IInv, FinishForm PROVE IInv'
<1>1. /\ UNCHANGED <<form, batch, contexts>> /\ AtEnd /\ Len(Now.stack) = 1 /\ VerifiesHashes
      /\ outcome' \in {"COMPONENT_BUDGET_EXCEEDED", "ok"}
  BY DEF FinishForm
<1>2. Sound(Now, "form") /\ Named("form") /\ Requests
  BY <1>1, CurrentContext DEF Named
<1>3. /\ Top = Now.stack[1] /\ Len(FieldsOf(Top.of)) \in Nat
      /\ Top.next \in 1..Len(FieldsOf(Top.of)) + 1 /\ DoneBefore(Top, DOMAIN Now.compiled)
  BY <1>1, <1>2, CurrentFrame
<1>4. Top.of = "form" /\ FieldsOf("form") = form /\ DOMAIN form = 1..Len(form)
  BY <1>2, <1>3, FieldsAreListed DEF Sound, Path, FieldsOf
<1>5. \A k \in DOMAIN form : form[k].ref \in {Plain} \cup DOMAIN Now.compiled
  BY <1>1, <1>3, <1>4 DEF AtEnd, DoneBefore
<1>6. Refs(form) \subseteq DOMAIN Now.compiled
  BY <1>5 DEF Refs
<1>7. Used \subseteq DOMAIN Now.compiled
  BY <1>2, <1>6, ReachableIsLeast DEF Used, Sound, Memo
<1>8. \A c \in Used : c \in DOMAIN batch /\ ~Cyclic(c) /\ batch[c].pin # "wrong"
  BY <1>1, <1>2, <1>7, PinsHold DEF Sound, Memo
<1>9. VerdictExact'
  <2>1. ASSUME NEW c \in Used' PROVE (c \in DOMAIN batch /\ ~Cyclic(c) /\ batch[c].pin # "wrong")'
    BY <1>1, <1>8, SameUsed, SameCycles
  <2> QED
    BY <2>1, <1>1 DEF VerdictExact
<1> QED
  BY <1>1, <1>9, EndKeeps

(* The first context is fresh.                                                *)
LEMMA InitSound ==
  Init => IInv
<1> SUFFICES ASSUME Init PROVE IInv
  OBVIOUS
<1>1. Requests /\ contexts = <<NewContext("form")>> /\ outcome = "running"
  BY DEF Init, Requests
<1>2. IsSeq(contexts) /\ Len(contexts) = 1 /\ contexts[1] = NewContext("form")
  <2>1. PICK e : e = NewContext("form")
    OBVIOUS
  <2>2. contexts \in Seq({e}) /\ Len(contexts) = 1 /\ contexts[1] = e
    BY <2>1, <1>1
  <2> QED
    BY <2>1, <2>2, OwnElements
<1>3. Sound(contexts[1], "form")
  BY <1>1, <1>2, FreshSound DEF Named
<1>4. contexts[1].resolved = {}
  BY <1>2 DEF NewContext
<1>5. VerdictExact
  BY <1>1 DEF VerdictExact
<1> QED
  BY <1>1, <1>2, <1>3, <1>4, <1>5 DEF IInv, Requests

(* Each action keeps the invariant.                                           *)
LEMMA StepSound ==
  IInv /\ [Next]_vars => IInv'
<1> SUFFICES ASSUME IInv, [Next]_vars PROVE IInv'
  OBVIOUS
<1>1. CASE UNCHANGED vars
  <2>1. UNCHANGED <<form, batch, contexts, outcome>>
    BY <1>1 DEF vars
  <2>2. VerdictExact'
    <3>1. Used' = Used /\ batch' = batch /\ outcome' = outcome
      BY <2>1, SameUsed
    <3>2. ASSUME NEW c PROVE Cyclic(c)' <=> Cyclic(c)
      BY <2>1, SameCycles
    <3>3. VerdictExact
      BY DEF IInv
    <3> QED
      BY <3>1, <3>2, <3>3 DEF VerdictExact
  <2> QED
    BY <2>1, <2>2, EndKeeps DEF IInv
<1>2. CASE RejectReference
  BY <1>2, RejectReferenceKeeps
<1>3. CASE CompilePlainField
  BY <1>3, CompilePlainFieldKeeps
<1>4. CASE BeginVerification
  BY <1>4, BeginVerificationKeeps
<1>5. CASE Resolve
  BY <1>5, ResolveKeeps
<1>6. CASE ExpandFirst
  BY <1>6, ExpandFirstKeeps
<1>7. CASE CloneCompiled
  BY <1>7, CloneCompiledKeeps
<1>8. CASE FinishComponent
  BY <1>8, FinishComponentKeeps
<1>9. CASE FinishVerification
  BY <1>9, FinishVerificationKeeps
<1>10. CASE FinishForm
  BY <1>10, FinishFormKeeps
<1> QED
  BY <1>1, <1>2, <1>3, <1>4, <1>5, <1>6, <1>7, <1>8, <1>9, <1>10 DEF Next

(* In every context, at every moment, what lost its source is on the stack or  *)
(* in the memo.                                                               *)
LEMMA SoundAccounts ==
  ASSUME IInv PROVE SourceAccounted
<1>1. ASSUME NEW x, NEW root, Sound(x, root)
      PROVE  /\ x.taken = OnStack(x) \cup DOMAIN x.compiled
             /\ OnStack(x) \cap DOMAIN x.compiled = {}
             /\ Cardinality(OnStack(x)) = Len(x.stack) - 1
  <2>1. PICK n \in Nat : n = Len(x.stack) - 1
    BY <1>1, Listed DEF Sound, Shape
  <2> DEFINE s == [k \in 1..n |-> x.stack[k + 1].of]
  <2>2. \A i, j \in 1..n : i < j => s[i] # s[j]
    <3> SUFFICES ASSUME NEW i \in 1..n, NEW j \in 1..n, i < j PROVE s[i] # s[j]
      OBVIOUS
    <3>1. i + 1 \in 2..Len(x.stack) /\ j + 1 \in 2..Len(x.stack) /\ i + 1 < j + 1
      BY <2>1, <1>1, Listed DEF Sound, Shape
    <3>2. x.stack[j + 1].of # x.stack[i + 1].of
      BY <3>1, <1>1 DEF Sound, Path
    <3> QED
      BY <3>2
  <2>3. OnStack(x) = {s[k] : k \in 1..n}
    <3>1. Len(x.stack) = n + 1
      BY <2>1, <1>1, Listed DEF Sound, Shape
    <3>2. \A k \in 2..n + 1 : k - 1 \in 1..n /\ s[k - 1] = x.stack[k].of
      OBVIOUS
    <3>3. \A k \in 1..n : k + 1 \in 2..n + 1 /\ s[k] = x.stack[k + 1].of
      OBVIOUS
    <3> HIDE DEF s
    <3>4. ASSUME NEW e \in OnStack(x) PROVE e \in {s[k] : k \in 1..n}
      <4>1. PICK k \in 2..n + 1 : e = x.stack[k].of
        BY <3>1 DEF OnStack
      <4> QED
        BY <4>1, <3>2
    <3>5. ASSUME NEW k \in 1..n PROVE s[k] \in OnStack(x)
      BY <3>1, <3>3 DEF OnStack
    <3> QED
      BY <3>4, <3>5
  <2> HIDE DEF s
  <2>4. Cardinality({s[k] : k \in 1..n}) = n
    BY <2>2, DistinctCount
  <2> QED
    BY <1>1, <2>1, <2>3, <2>4 DEF Sound, Memo
<1>2. ASSUME NEW k \in DOMAIN contexts PROVE \E root : Sound(contexts[k], root)
  <2>1. k = 1 \/ (k = 2 /\ Len(contexts) = 2)
    BY Listed DEF IInv
  <2> QED
    BY <2>1 DEF IInv
<1> QED
  BY <1>1, <1>2 DEF SourceAccounted, IInv

-----------------------------------------------------------------------------
(* P-8, P-11: whatever the batch, and however references and pins nest, what   *)
(* is not available any more is being expanded or memoized, and no reference   *)
(* finds its source gone.                                                     *)
THEOREM SourceAlwaysAccounted == Spec => []SourceAccounted
<1>1. Spec => []IInv
  BY InitSound, StepSound, PTL DEF Spec
<1>2. IInv => SourceAccounted
  BY SoundAccounts
<1> QED
  BY <1>1, <1>2, PTL

(* P-1, P-3: for every form and batch, what compiles is acyclic, complete and   *)
(* pinned to what it is, and a cycle, a missing version or a wrong pin is       *)
(* reported only where the form reaches one.                                   *)
THEOREM VerdictAlwaysExact == Spec => []VerdictExact
<1>1. Spec => []IInv
  BY InitSound, StepSound, PTL DEF Spec
<1>2. IInv => VerdictExact
  BY DEF IInv
<1> QED
  BY <1>1, <1>2, PTL

-----------------------------------------------------------------------------
(* Induction over the naturals, for a property given as a set: the least      *)
(* number without it would follow one that has it.                            *)
LEMMA SetInduction ==
  ASSUME NEW S \in SUBSET Nat, 0 \in S, \A n \in S : n + 1 \in S
  PROVE  S = Nat
<1> SUFFICES ASSUME Nat \ S # {} PROVE FALSE
  OBVIOUS
<1> DEFINE R == {ss \in Nat \X Nat : ss[1] < ss[2]}
<1>1. OpToRel(<, Nat) = R
  BY DEF OpToRel
<1>2. IsWellFoundedOn(R, Nat)
  BY <1>1, NatLessThanWellFounded, Zenon
<1>3. PICK m \in Nat \ S : \A n \in Nat \ S : <<n, m>> \notin R
  <2> HIDE DEF R
  <2> QED
    BY <1>2, WFMin, Zenon
<1>4. \A n \in Nat \ S : ~(n < m)
  BY <1>3
<1>5. m # 0 /\ m - 1 \in Nat /\ m - 1 < m
  OBVIOUS
<1>6. m - 1 \in S
  BY <1>4, <1>5
<1> QED
  BY <1>5, <1>6

(* A function that starts with `base` and goes on by `step`, up to N.           *)
Recursion(f, N, base, step) == f = [n \in 0..N |-> IF n = 0 THEN base ELSE step[n][f[n - 1]]]

(* Recursion over 0..N: there is a function that starts with `base` and goes   *)
(* on by `step`, as long as the steps stay in V.                               *)
LEMMA RecursionExists ==
  ASSUME NEW N \in Nat, NEW V, NEW base \in V,
         NEW step, \A n \in 1..N : \A v \in V : step[n][v] \in V
  PROVE  \E f \in [0..N -> V] : Recursion(f, N, base, step)
<1> DEFINE Good(f, m) == /\ f \in [0..m -> V]
                         /\ \A n \in 0..m : f[n] = IF n = 0 THEN base ELSE step[n][f[n - 1]]
           S == {m \in Nat : m <= N => \E f : Good(f, m)}
<1>1. 0 \in S
  <2>1. Good([n \in 0..0 |-> base], 0)
    OBVIOUS
  <2> QED
    BY <2>1
<1>2. ASSUME NEW m \in S PROVE m + 1 \in S
  <2> SUFFICES ASSUME m + 1 <= N PROVE \E f : Good(f, m + 1)
    OBVIOUS
  <2>1. m \in Nat /\ m <= N
    OBVIOUS
  <2>2. PICK f : Good(f, m)
    BY <2>1
  <2> DEFINE g == [n \in 0..m + 1 |-> IF n = m + 1 THEN step[m + 1][f[m]] ELSE f[n]]
  <2>3. g[m + 1] = step[m + 1][f[m]] /\ \A n \in 0..m : g[n] = f[n]
    BY <2>1
  <2>4. f[m] \in V /\ g[m + 1] \in V
    BY <2>1, <2>2, <2>3
  <2>5. g \in [0..m + 1 -> V]
    BY <2>1, <2>2, <2>4
  <2> HIDE DEF g
  <2>6. ASSUME NEW n \in 0..m + 1 PROVE g[n] = IF n = 0 THEN base ELSE step[n][g[n - 1]]
    <3>1. CASE n = m + 1
      <4>1. n # 0 /\ n - 1 = m /\ m \in 0..m
        BY <2>1, <3>1
      <4> QED
        BY <2>3, <3>1, <4>1
    <3>2. CASE n # m + 1
      <4>1. n \in 0..m /\ (n = 0 \/ n - 1 \in 0..m)
        BY <2>1, <3>2
      <4> QED
        BY <2>2, <2>3, <4>1
    <3> QED
      BY <3>1, <3>2
  <2>7. Good(g, m + 1)
    BY <2>5, <2>6
  <2> QED
    BY <2>7
<1>3. S = Nat
  <2> HIDE DEF S
  <2>1. S \in SUBSET Nat
    BY DEF S
  <2> QED
    BY <1>1, <1>2, <2>1, SetInduction
<1>4. PICK f : Good(f, N)
  BY <1>3
<1>5. f = [n \in 0..N |-> f[n]]
  BY <1>4
<1> QED
  BY <1>4, <1>5 DEF Recursion

Agree(f, g, N) == \A n \in 0..N : f[n] = g[n]
GoOnAlike(f, g, N) == f[0] = g[0] /\ \A n \in 1..N : f[n - 1] = g[n - 1] => f[n] = g[n]

(* Two functions that obey one recursion from 0 on agree where both do.        *)
LEMMA RecursionAgrees ==
  ASSUME NEW N \in Nat, NEW f, NEW g, GoOnAlike(f, g, N)
  PROVE  Agree(f, g, N)
<1> DEFINE S == {n \in Nat : n <= N => f[n] = g[n]}
<1>1. 0 \in S
  BY DEF GoOnAlike
<1>2. ASSUME NEW n \in S PROVE n + 1 \in S
  <2> SUFFICES ASSUME n + 1 <= N PROVE f[n + 1] = g[n + 1]
    OBVIOUS
  <2>1. n + 1 \in 1..N /\ n + 1 - 1 = n /\ f[n] = g[n]
    OBVIOUS
  <2> QED
    BY <2>1 DEF GoOnAlike
<1>3. S = Nat
  <2> HIDE DEF S
  <2>1. S \in SUBSET Nat
    BY DEF S
  <2> QED
    BY <1>1, <1>2, <2>1, SetInduction
<1> QED
  BY <1>3 DEF Agree

(* What Total adds up, of sizes that are numbers.                               *)
Numbers(s) == Len(s) \in Nat /\ \A k \in 1..Len(s) : s[k] \in Nat

LEMMA TotalSums ==
  ASSUME NEW s, Numbers(s)
  PROVE  \E sum \in [0..Len(s) -> Nat] :
           /\ Total(s) = sum[Len(s)]
           /\ sum[0] = 0
           /\ \A k \in 1..Len(s) : sum[k] = sum[k - 1] + s[k]
<1> DEFINE N == Len(s)
           step == [k \in 1..N |-> [v \in Nat |-> v + s[k]]]
           Sum(f) == f = [k \in 0..N |-> IF k = 0 THEN 0 ELSE f[k - 1] + s[k]]
<1>1. N \in Nat /\ \A k \in 1..N : s[k] \in Nat
  BY DEF Numbers
<1> HIDE DEF N
<1>2. \A k \in 1..N : \A v \in Nat : step[k][v] \in Nat
  BY <1>1
<1>3. PICK f \in [0..N -> Nat] : Recursion(f, N, 0, step)
  <2> HIDE DEF step
  <2>1. 0 \in Nat
    OBVIOUS
  <2> QED
    BY <2>1, <1>1, <1>2, RecursionExists
<1>4. Sum(f)
  <2>1. ASSUME NEW k \in 0..N PROVE f[k] = IF k = 0 THEN 0 ELSE f[k - 1] + s[k]
    <3>1. CASE k = 0
      BY <1>1, <1>3, <3>1 DEF Recursion
    <3>2. CASE k # 0
      <4>1. k \in 1..N /\ k - 1 \in 0..N
        BY <1>1, <3>2
      <4>2. f[k - 1] \in Nat
        BY <4>1
      <4>3. f[k] = step[k][f[k - 1]]
        BY <1>3, <3>2 DEF Recursion
      <4> QED
        BY <4>1, <4>2, <4>3, <3>2
    <3> QED
      BY <3>1, <3>2
  <2>2. f = [k \in 0..N |-> f[k]]
    BY <1>3
  <2> QED
    BY <2>1, <2>2
<1> DEFINE sum == CHOOSE g : Sum(g)
<1>5. Sum(sum)
  <2> HIDE DEF Sum
  <2> QED
    BY <1>4
<1>6. Total(s) = sum[N]
  BY DEF Total, N
<1> HIDE DEF sum
<1>7. Agree(sum, f, N)
  <2>1. sum[0] = f[0]
    BY <1>4, <1>5, <1>1
  <2>2. ASSUME NEW k \in 1..N, sum[k - 1] = f[k - 1] PROVE sum[k] = f[k]
    <3>1. k \in 0..N /\ k # 0
      OBVIOUS
    <3>2. f[k] = f[k - 1] + s[k] /\ sum[k] = sum[k - 1] + s[k]
      BY <3>1, <1>4, <1>5
    <3> QED
      BY <2>2, <3>2
  <2>3. \A k \in 1..N : sum[k - 1] = f[k - 1] => sum[k] = f[k]
    BY <2>2
  <2>4. GoOnAlike(sum, f, N)
    BY <2>1, <2>3 DEF GoOnAlike
  <2> HIDE DEF Sum
  <2> QED
    BY <1>1, <2>4, RecursionAgrees
<1>8. sum = f
  <2>1. sum = [k \in 0..N |-> sum[k]]
    BY <1>5
  <2> HIDE DEF Sum
  <2> QED
    BY <2>1, <1>7 DEF Agree
<1>9. sum[0] = 0 /\ \A k \in 1..N : sum[k] = sum[k - 1] + s[k]
  <2>1. \A k \in 0..N : sum[k] = IF k = 0 THEN 0 ELSE sum[k - 1] + s[k]
    BY <1>5
  <2> QED
    BY <2>1, <1>1
<1> QED
  BY <1>6, <1>8, <1>9 DEF N

LEMMA TotalOfNone ==
  ASSUME NEW s, Len(s) = 0 PROVE Total(s) = 0
BY TotalSums DEF Numbers

(* One more number at the end is added to the total.                            *)
LEMMA TotalOfOneMore ==
  ASSUME NEW s, Numbers(s), NEW t, Numbers(t), Len(t) = Len(s) + 1,
         \A k \in 1..Len(s) : t[k] = s[k]
  PROVE  Total(t) = Total(s) + t[Len(t)] /\ Total(s) \in Nat
<1> DEFINE N == Len(s)
<1>1. N \in Nat /\ Len(t) = N + 1
  BY DEF Numbers
<1>2. PICK f \in [0..N -> Nat] : /\ Total(s) = f[N] /\ f[0] = 0
                                 /\ \A k \in 1..N : f[k] = f[k - 1] + s[k]
  BY TotalSums
<1>3. PICK g \in [0..N + 1 -> Nat] : /\ Total(t) = g[N + 1] /\ g[0] = 0
                                     /\ \A k \in 1..N + 1 : g[k] = g[k - 1] + t[k]
  BY <1>1, TotalSums
<1>4. \A k \in 1..N : t[k] = s[k]
  OBVIOUS
<1> HIDE DEF N
<1>5. Agree(g, f, N)
  <2>1. ASSUME NEW k \in 1..N, g[k - 1] = f[k - 1] PROVE g[k] = f[k]
    <3>1. k \in 1..N + 1
      BY <1>1
    <3> QED
      BY <3>1, <2>1, <1>2, <1>3, <1>4
  <2>2. GoOnAlike(g, f, N)
    BY <2>1, <1>2, <1>3 DEF GoOnAlike
  <2> QED
    BY <2>2, <1>1, RecursionAgrees
<1>6. N \in 0..N /\ N + 1 \in 1..N + 1 /\ N + 1 - 1 = N
  BY <1>1
<1>7. g[N + 1] = g[N] + t[N + 1] /\ g[N] = f[N]
  BY <1>3, <1>5, <1>6 DEF Agree
<1> QED
  BY <1>1, <1>2, <1>3, <1>6, <1>7 DEF N

-----------------------------------------------------------------------------
(* Sizes: what a list of compiled nodes counts.                                *)

(* A function on 1..n is as long as that.                                       *)
LEMMA LengthOfFunction ==
  ASSUME NEW n \in Nat, NEW s, s = [k \in 1..n |-> s[k]] PROVE IsSeq(s) /\ Len(s) = n
<1> DEFINE S == {s[k] : k \in 1..n}
<1>1. s \in [1..n -> S]
  OBVIOUS
<1>2. s \in Seq(S)
  BY <1>1, SeqDef
<1>3. DOMAIN s = 1..Len(s) /\ Len(s) \in Nat
  BY <1>2, LenProperties
<1>4. DOMAIN s = 1..n
  BY <1>1
<1>5. IsSeq(s)
  BY <1>2, OwnElements
<1> HIDE DEF S
<1> QED
  BY <1>3, <1>4, <1>5

(* Compiled nodes in a list, each with a size.                                  *)
Items(items) == IsSeq(items) /\ \A k \in 1..Len(items) : items[k].size \in Nat
SizesOf(items) == [k \in DOMAIN items |-> items[k].size]

LEMMA SizesAreNumbers ==
  ASSUME NEW items, Items(items)
  PROVE  /\ Numbers(SizesOf(items)) /\ Len(SizesOf(items)) = Len(items) /\ Len(items) \in Nat
         /\ \A k \in 1..Len(items) : SizesOf(items)[k] = items[k].size
         /\ Sizes(items) = Total(SizesOf(items)) /\ Sizes(items) \in Nat
<1> DEFINE n == Len(items)
           s == SizesOf(items)
<1>1. DOMAIN items = 1..n /\ n \in Nat
  BY Listed DEF Items
<1>2. s = [k \in 1..n |-> s[k]] /\ \A k \in 1..n : s[k] = items[k].size
  BY <1>1 DEF SizesOf
<1> HIDE DEF n, s
<1>3. Len(s) = n
  BY <1>1, <1>2, LengthOfFunction
<1>4. Numbers(s)
  BY <1>1, <1>2, <1>3 DEF Numbers, Items, n
<1>5. Sizes(items) = Total(s)
  BY DEF Sizes, SizesOf, s
<1>6. Total(s) \in Nat
  <2>1. PICK f \in [0..n -> Nat] : Total(s) = f[n]
    BY <1>3, <1>4, TotalSums
  <2> QED
    BY <2>1, <1>1
<1> QED
  BY <1>1, <1>2, <1>3, <1>4, <1>5, <1>6 DEF n, s

(* Nothing counts nothing.                                                      *)
LEMMA SizesOfNone ==
  Items(<<>>) /\ Sizes(<<>>) = 0
<1>1. IsSeq(<<>>) /\ Len(<<>>) = 0
  <2>1. PICK e : e = <<>>
    OBVIOUS
  <2>2. e \in Seq({}) /\ Len(e) = 0
    BY <2>1, EmptySeq
  <2> QED
    BY <2>1, <2>2, OwnElements
<1>2. Items(<<>>)
  BY <1>1 DEF Items
<1> QED
  BY <1>1, <1>2, SizesAreNumbers, TotalOfNone

(* One more node counts its size more.                                          *)
LEMMA SizesOfOneMore ==
  ASSUME NEW items, Items(items), NEW node, node.size \in Nat
  PROVE  /\ Items(Append(items, node))
         /\ Sizes(Append(items, node)) = Sizes(items) + node.size
<1> DEFINE more == Append(items, node)
           n == Len(items)
<1>1. /\ IsSeq(more) /\ Len(more) = n + 1 /\ n \in Nat
      /\ more[n + 1] = node /\ \A k \in 1..n : more[k] = items[k]
  BY Pushed, Listed DEF Items
<1> HIDE DEF more
<1>2. Items(more)
  <2>1. ASSUME NEW k \in 1..n + 1 PROVE more[k].size \in Nat
    <3>1. k = n + 1 \/ k \in 1..n
      BY <1>1
    <3> QED
      BY <3>1, <1>1 DEF Items
  <2> QED
    BY <1>1, <2>1 DEF Items
<1> DEFINE s == SizesOf(items)
           t == SizesOf(more)
<1>3. /\ Numbers(s) /\ Len(s) = n /\ Sizes(items) = Total(s)
      /\ \A k \in 1..n : s[k] = items[k].size
  BY SizesAreNumbers
<1>4. /\ Numbers(t) /\ Len(t) = n + 1 /\ Sizes(more) = Total(t)
      /\ \A k \in 1..n + 1 : t[k] = more[k].size
  BY <1>1, <1>2, SizesAreNumbers
<1> HIDE DEF s, t
<1>5. \A k \in 1..Len(s) : t[k] = s[k]
  BY <1>1, <1>3, <1>4
<1>6. Total(t) = Total(s) + t[n + 1]
  BY <1>1, <1>3, <1>4, <1>5, TotalOfOneMore
<1>7. t[n + 1] = node.size
  BY <1>1, <1>4
<1> QED
  BY <1>2, <1>3, <1>4, <1>6, <1>7 DEF more

(* A list of fields unfolds to a number of nodes.                               *)
LEMMA NodesAreNumbers ==
  ASSUME NEW fields, IsSeq(fields), NEW D, NEW unfolded \in [D -> Nat]
  PROVE  NodesOf(fields, unfolded) \in Nat
<1> DEFINE n == Len(fields)
           s == [k \in DOMAIN fields |->
                  1 + IF fields[k].ref \in DOMAIN unfolded THEN unfolded[fields[k].ref] ELSE 0]
<1>1. DOMAIN fields = 1..n /\ n \in Nat
  BY Listed
<1>2. s = [k \in 1..n |-> s[k]] /\ \A k \in 1..n : s[k] \in Nat
  BY <1>1
<1>3. NodesOf(fields, unfolded) = Total(s)
  BY DEF NodesOf
<1> HIDE DEF n, s
<1>4. Len(s) = n
  BY <1>1, <1>2, LengthOfFunction
<1>5. Numbers(s)
  BY <1>1, <1>2, <1>4 DEF Numbers
<1>6. PICK f \in [0..n -> Nat] : Total(s) = f[n]
  BY <1>4, <1>5, TotalSums
<1> QED
  BY <1>1, <1>3, <1>6

(* One more level of the unfolding.                                             *)
NextLevel(unfolded) == [c \in DOMAIN batch |-> NodesOf(batch[c].fields, unfolded)]
Levels == Cardinality(Components)

LEMMA UnfoldingSteps ==
  ASSUME Requests
  PROVE  /\ Levels \in Nat
         /\ \A n \in 0..Levels : DOMAIN Unfolding[n] = DOMAIN batch
         /\ \A n \in 1..Levels : Unfolding[n] = NextLevel(Unfolding[n - 1])
<1> DEFINE N == Levels
           V == [DOMAIN batch -> Nat]
           base == [c \in DOMAIN batch |-> 0]
           step == [n \in 1..N |-> [v \in V |-> NextLevel(v)]]
           Equation(f) == f = [n \in 0..N |-> [c \in DOMAIN batch |->
                                IF n = 0 THEN 0 ELSE NodesOf(batch[c].fields, f[n - 1])]]
<1>1. N \in Nat
  BY FS_CardinalityType, BoundsAssumption DEF Levels
<1>2. ASSUME NEW v \in V PROVE NextLevel(v) \in V
  <2>1. \A c \in DOMAIN batch : IsSeq(batch[c].fields)
    BY RequestsAssumption DEF Requests, IsSeq
  <2>2. \A c \in DOMAIN batch : NodesOf(batch[c].fields, v) \in Nat
    BY <2>1, NodesAreNumbers
  <2> QED
    BY <2>2 DEF NextLevel
<1>3. base \in V
  OBVIOUS
<1> HIDE DEF N, V, base
<1>4. \A n \in 1..N : \A v \in V : step[n][v] = NextLevel(v) /\ step[n][v] \in V
  BY <1>2
<1> HIDE DEF step
<1>5. PICK f \in [0..N -> V] : Recursion(f, N, base, step)
  BY <1>1, <1>3, <1>4, RecursionExists
<1>6. ASSUME NEW n \in 0..N
      PROVE  f[n] = [c \in DOMAIN batch |-> IF n = 0 THEN 0 ELSE NodesOf(batch[c].fields, f[n - 1])]
  <2>1. CASE n = 0
    BY <1>1, <1>5, <2>1 DEF Recursion, base
  <2>2. CASE n # 0
    <3>1. n \in 1..N /\ n - 1 \in 0..N
      BY <1>1, <2>2
    <3>2. f[n] = step[n][f[n - 1]] /\ f[n - 1] \in V
      BY <1>5, <2>2, <3>1 DEF Recursion
    <3>3. f[n] = NextLevel(f[n - 1])
      BY <1>4, <3>1, <3>2
    <3> QED
      BY <2>2, <3>3 DEF NextLevel
  <2> QED
    BY <2>1, <2>2
<1>7. Equation(f)
  <2>1. f = [n \in 0..N |-> f[n]]
    BY <1>5
  <2> QED
    BY <1>6, <2>1
<1> DEFINE to == CHOOSE g : Equation(g)
<1>8. Unfolding = to
  BY DEF Unfolding, N, Levels
<1>9. Equation(to)
  <2> HIDE DEF Equation
  <2> QED
    BY <1>7
<1> HIDE DEF to
<1>10. \A n \in 0..N : to[n] = [c \in DOMAIN batch |-> IF n = 0 THEN 0 ELSE NodesOf(batch[c].fields, to[n - 1])]
  BY <1>9
<1>11. ASSUME NEW n \in 1..N PROVE to[n] = NextLevel(to[n - 1])
  <2>1. n \in 0..N /\ n # 0
    BY <1>1
  <2> QED
    BY <2>1, <1>10 DEF NextLevel
<1>12. \A n \in 0..N : DOMAIN to[n] = DOMAIN batch
  BY <1>10
<1> QED
  BY <1>1, <1>8, <1>11, <1>12 DEF N

-----------------------------------------------------------------------------
(* What compiled nodes say of the fields they are compiled from: one node per  *)
(* field, in order, under its id, with the nodes of what it refers to below it. *)
NodeSize(field, compiled) ==
  1 + IF field.ref \in DOMAIN compiled THEN Sizes(compiled[field.ref]) ELSE 0
Spelled(items, fields, n, compiled) ==
  /\ IsSeq(items) /\ Len(items) = n
  /\ \A k \in 1..n : items[k].id = fields[k].id /\ items[k].size = NodeSize(fields[k], compiled)
SpelledFrame(frame, compiled) == Spelled(frame.items, FieldsOf(frame.of), frame.next - 1, compiled)
SpelledMemo(compiled) ==
  \A c \in DOMAIN compiled :
    /\ Spelled(compiled[c], batch[c].fields, Len(batch[c].fields), compiled)
    /\ Items(compiled[c])

(* From the level that counts the memoized components on, the unfolding says   *)
(* what the memo says.                                                         *)
Unfolds(compiled) ==
  \A n \in 0..Levels : Cardinality(DOMAIN compiled) <= n =>
    \A c \in DOMAIN compiled : Unfolding[n][c] = Sizes(compiled[c])

(* Whatever a frame's nodes hold beyond one node per field has been charged.    *)
Counted(x) ==
  /\ \A k \in 1..Len(x.stack) : SpelledFrame(x.stack[k], x.compiled)
  /\ \A k \in 1..Len(x.stack) : Sizes(x.stack[k].items) - Len(x.stack[k].items) <= x.fields
  /\ SpelledMemo(x.compiled)
  /\ Unfolds(x.compiled)
  /\ x.fields \in Nat /\ x.fields <= MaxFields

(* A node counts itself at least.                                              *)
LEMMA NodeSizeIsNumber ==
  ASSUME NEW compiled, SpelledMemo(compiled), NEW field
  PROVE  /\ NodeSize(field, compiled) \in Nat /\ NodeSize(field, compiled) >= 1
         /\ NodeSize(field, compiled) = 1 + IF field.ref \in DOMAIN compiled THEN Sizes(compiled[field.ref]) ELSE 0
         /\ field.ref \in DOMAIN compiled => Sizes(compiled[field.ref]) \in Nat
<1>1. field.ref \in DOMAIN compiled => Sizes(compiled[field.ref]) \in Nat
  BY SizesAreNumbers DEF SpelledMemo
<1> QED
  BY <1>1 DEF NodeSize

(* Nodes that are spelled have sizes.                                          *)
LEMMA SpelledItems ==
  ASSUME NEW compiled, SpelledMemo(compiled), NEW items, NEW fields, NEW n,
         Spelled(items, fields, n, compiled)
  PROVE  Items(items)
BY NodeSizeIsNumber DEF Spelled, Items

(* A node that is spelled at its field keeps so after any more.                *)
LEMMA SpelledOneMore ==
  ASSUME NEW compiled, NEW items, NEW fields, NEW n \in Nat,
         Spelled(items, fields, n, compiled), NEW node,
         node.id = fields[n + 1].id, node.size = NodeSize(fields[n + 1], compiled)
  PROVE  Spelled(Append(items, node), fields, n + 1, compiled)
<1>1. /\ IsSeq(Append(items, node)) /\ Len(Append(items, node)) = n + 1
      /\ Append(items, node)[n + 1] = node
      /\ \A k \in 1..n : Append(items, node)[k] = items[k]
  BY Pushed DEF Spelled
<1>2. ASSUME NEW k \in 1..n + 1
      PROVE  /\ Append(items, node)[k].id = fields[k].id
             /\ Append(items, node)[k].size = NodeSize(fields[k], compiled)
  <2>1. k \in 1..n \/ k = n + 1
    OBVIOUS
  <2> QED
    BY <2>1, <1>1 DEF Spelled
<1> QED
  BY <1>1, <1>2 DEF Spelled

(* The top frame takes the node of its field, charged beyond the field itself.  *)
LEMMA TopCounted ==
  ASSUME NEW x, NEW root, Sound(x, root), Named(root), Requests, Counted(x),
         NEW n, n = Len(x.stack),
         NEW field, field = FieldsOf(x.stack[n].of)[x.stack[n].next],
         NEW node, node.id = field.id, node.size = NodeSize(field, x.compiled),
         NEW y, Differs(x.stack, y.stack, n), y.stack[n].of = x.stack[n].of,
         y.stack[n].next = x.stack[n].next + 1,
         y.stack[n].items = Append(x.stack[n].items, node),
         y.compiled = x.compiled, y.fields = x.fields + node.size - 1, y.fields <= MaxFields
  PROVE  Counted(y)
<1>1. n \in Nat \ {0} /\ n \in 1..n /\ IsSeq(x.stack)
  BY Listed, SMTT(30) DEF Sound, Shape
<1>2. Len(y.stack) = n /\ \A k \in 1..n : k # n => y.stack[k] = x.stack[k]
  BY <1>1, Replaced, SMTT(30)
<1>3. x.fields \in Nat /\ SpelledMemo(x.compiled)
  BY DEF Counted
<1>4. node.size \in Nat /\ node.size >= 1
  BY <1>3, NodeSizeIsNumber, Zenon
<1>5. x.stack[n].next - 1 \in Nat /\ x.stack[n].next \in Nat
  <2>1. x.stack[n].next \in 1..Len(FieldsOf(x.stack[n].of)) + 1
    BY <1>1 DEF Sound, Path, DoneBefore
  <2>2. Len(FieldsOf(x.stack[n].of)) \in Nat
    BY <1>1, FrameNamed, FieldsAreListed
  <2> QED
    BY <2>1, <2>2, SMTT(30)
<1> DEFINE m == x.stack[n].next - 1
           items == x.stack[n].items
<1>6. Spelled(items, FieldsOf(x.stack[n].of), m, x.compiled)
  BY <1>1 DEF Counted, SpelledFrame
<1>7. m + 1 = x.stack[n].next /\ m \in Nat /\ m + 1 = y.stack[n].next - 1
  BY <1>5, SMTT(30)
<1>8. Items(items) /\ Len(items) = m
  <2>1. Items(items)
    BY <1>3, <1>6, SpelledItems
  <2> QED
    BY <2>1, <1>6 DEF Spelled
<1>9. Sizes(items) - m <= x.fields /\ Sizes(items) \in Nat
  BY <1>1, <1>8, SizesAreNumbers DEF Counted
<1> HIDE DEF m, items
<1>10. SpelledFrame(y.stack[n], y.compiled)
  <2>1. Spelled(Append(items, node), FieldsOf(x.stack[n].of), m + 1, x.compiled)
    BY <1>6, <1>7, SpelledOneMore
  <2> QED
    BY <2>1, <1>7 DEF SpelledFrame, items
<1>11. Sizes(y.stack[n].items) - Len(y.stack[n].items) <= y.fields
  <2>1. Sizes(Append(items, node)) = Sizes(items) + node.size
    BY <1>4, <1>8, SizesOfOneMore
  <2>2. Len(Append(items, node)) = m + 1
    BY <1>8, Pushed DEF Items
  <2>3. Sizes(items) + node.size - (m + 1) <= x.fields + node.size - 1
    BY <1>3, <1>4, <1>7, <1>9, SMTT(30)
  <2>4. y.stack[n].items = Append(items, node)
    BY DEF items
  <2>5. PICK total : total = Sizes(y.stack[n].items)
    OBVIOUS
  <2>6. PICK length : length = Len(y.stack[n].items)
    OBVIOUS
  <2>7. total = Sizes(items) + node.size /\ length = m + 1
    BY <2>1, <2>2, <2>4, <2>5, <2>6, Zenon
  <2>8. total - length <= x.fields + node.size - 1
    <3>1. PICK size \in Nat : size = node.size
      BY <1>4
    <3>2. PICK charged \in Nat : charged = x.fields
      BY <1>3
    <3>3. PICK sizes \in Nat : sizes = Sizes(items)
      BY <1>9
    <3>4. sizes - m <= charged /\ total = sizes + size /\ length = m + 1
      BY <3>1, <3>2, <3>3, <2>7, <1>9
    <3>5. total - length <= charged + size - 1
      BY <3>4, <1>7, SMTT(30)
    <3> QED
      BY <3>1, <3>2, <3>5
  <2> QED
    BY <2>5, <2>6, <2>8, Zenon
<1>12. ASSUME NEW k \in 1..n
       PROVE  /\ SpelledFrame(y.stack[k], y.compiled)
              /\ Sizes(y.stack[k].items) - Len(y.stack[k].items) <= y.fields
  <2>1. CASE k = n
    BY <2>1, <1>10, <1>11
  <2>2. CASE k # n
    <3>1. y.stack[k] = x.stack[k] /\ SpelledFrame(x.stack[k], x.compiled)
      BY <2>2, <1>2 DEF Counted
    <3>2. Items(x.stack[k].items)
      BY <3>1, <1>3, SpelledItems DEF SpelledFrame
    <3>3. Sizes(x.stack[k].items) \in Nat /\ Len(x.stack[k].items) \in Nat
      BY <3>2, SizesAreNumbers
    <3>4. Sizes(x.stack[k].items) - Len(x.stack[k].items) <= x.fields
      BY DEF Counted
    <3>5. x.fields <= y.fields
      BY <1>3, <1>4, SMTT(30)
    <3>6. y.fields \in Int
      BY <1>3, <1>4, SMTT(30)
    <3>7. Sizes(x.stack[k].items) - Len(x.stack[k].items) <= y.fields
      BY <3>3, <3>4, <3>5, <3>6, <1>3, SMTT(30)
    <3> QED
      BY <3>1, <3>7
  <2> QED
    BY <2>1, <2>2
<1>13. y.fields \in Nat
  BY <1>3, <1>4, SMTT(30)
<1> QED
  BY <1>2, <1>12, <1>13 DEF Counted

(* A frame that is put on the stack has no nodes yet.                          *)
LEMMA PushCounted ==
  ASSUME NEW x, NEW root, Sound(x, root), Counted(x), NEW c, NEW y,
         y.stack = Append(x.stack, Frame(c)), y.compiled = x.compiled, y.fields = x.fields
  PROVE  Counted(y)
<1> DEFINE n == Len(x.stack)
<1>1. /\ n \in Nat /\ Len(y.stack) = n + 1 /\ y.stack[n + 1] = Frame(c)
      /\ \A k \in 1..n : y.stack[k] = x.stack[k]
  BY Listed, Pushed DEF Sound, Shape
<1>2. Frame(c).next = 1 /\ Frame(c).items = <<>>
  BY DEF Frame
<1>3. Items(<<>>) /\ Sizes(<<>>) = 0 /\ Len(<<>>) = 0
  BY SizesOfNone
<1>4. Spelled(<<>>, FieldsOf(Frame(c).of), 0, x.compiled)
  BY <1>3 DEF Spelled, Items
<1> HIDE DEF n
<1>5. ASSUME NEW k \in 1..n + 1
      PROVE  /\ SpelledFrame(y.stack[k], y.compiled)
             /\ Sizes(y.stack[k].items) - Len(y.stack[k].items) <= y.fields
  <2>1. k \in 1..n \/ k = n + 1
    BY <1>1
  <2>2. CASE k \in 1..n
    BY <2>2, <1>1 DEF Counted, n
  <2>3. CASE k = n + 1
    <3>1. y.stack[k] = Frame(c) /\ Frame(c).next - 1 = 0 /\ x.fields \in Nat
      BY <2>3, <1>1, <1>2 DEF Counted
    <3>2. SpelledFrame(Frame(c), x.compiled)
      BY <3>1, <1>2, <1>4 DEF SpelledFrame
    <3>3. Sizes(Frame(c).items) - Len(Frame(c).items) <= x.fields
      BY <3>1, <1>2, <1>3
    <3> QED
      BY <3>1, <3>2, <3>3
  <2> QED
    BY <2>1, <2>2, <2>3
<1> QED
  BY <1>1, <1>5 DEF Counted

(* A fresh context has counted nothing.                                        *)
LEMMA FreshCounted ==
  ASSUME NEW root PROVE Counted(NewContext(root))
<1> DEFINE x == NewContext(root)
<1>1. x.stack = <<Frame(root)>> /\ x.compiled = EmptyMap /\ x.fields = 0 /\ DOMAIN EmptyMap = {}
  BY DEF NewContext, EmptyMap
<1>2. Len(x.stack) = 1 /\ x.stack[1] = Frame(root)
  BY <1>1
<1>3. Frame(root).next - 1 = 0 /\ Frame(root).items = <<>>
  BY DEF Frame
<1>4. Items(<<>>) /\ Sizes(<<>>) = 0 /\ Len(<<>>) = 0
  BY SizesOfNone
<1>5. SpelledFrame(Frame(root), x.compiled)
  BY <1>3, <1>4 DEF SpelledFrame, Spelled, Items
<1>6. SpelledMemo(x.compiled) /\ Unfolds(x.compiled)
  BY <1>1 DEF SpelledMemo, Unfolds
<1>7. MaxFields \in Nat
  BY BoundsAssumption
<1> HIDE DEF x
<1>8. Sizes(Frame(root).items) - Len(Frame(root).items) <= x.fields
  BY <1>1, <1>3, <1>4
<1>9. ASSUME NEW k \in 1..1
      PROVE  /\ SpelledFrame(x.stack[k], x.compiled)
             /\ Sizes(x.stack[k].items) - Len(x.stack[k].items) <= x.fields
  BY <1>2, <1>5, <1>8
<1> QED
  BY <1>1, <1>2, <1>6, <1>7, <1>9 DEF Counted, x

-----------------------------------------------------------------------------
(* Where the unfolding below the references is what the memo says, fields        *)
(* unfold to as many nodes as their compiled nodes count.                       *)
LEMMA SpelledUnfolds ==
  ASSUME NEW fields, IsSeq(fields), NEW compiled, NEW items, Items(items),
         Spelled(items, fields, Len(fields), compiled),
         NEW unfolded, Plain \notin DOMAIN unfolded, Plain \notin DOMAIN compiled,
         DOMAIN compiled \subseteq DOMAIN unfolded,
         \A c \in DOMAIN compiled : unfolded[c] = Sizes(compiled[c]),
         \A k \in 1..Len(fields) : fields[k].ref \in {Plain} \cup DOMAIN compiled
  PROVE  NodesOf(fields, unfolded) = Sizes(items)
<1> DEFINE n == Len(fields)
           s == [k \in DOMAIN fields |->
                  1 + IF fields[k].ref \in DOMAIN unfolded THEN unfolded[fields[k].ref] ELSE 0]
           t == [k \in DOMAIN items |-> items[k].size]
<1>1. DOMAIN fields = 1..n /\ n \in Nat
  BY Listed
<1>2. DOMAIN items = 1..n
  BY Listed DEF Spelled
<1>3. \A k \in 1..n : items[k].size = NodeSize(fields[k], compiled)
  BY DEF Spelled
<1>4. ASSUME NEW k \in 1..n PROVE s[k] = t[k]
  <2>1. s[k] = 1 + IF fields[k].ref \in DOMAIN unfolded THEN unfolded[fields[k].ref] ELSE 0
    BY <1>1
  <2>2. t[k] = 1 + IF fields[k].ref \in DOMAIN compiled THEN Sizes(compiled[fields[k].ref]) ELSE 0
    BY <1>2, <1>3 DEF NodeSize
  <2>3. CASE fields[k].ref \in DOMAIN compiled
    BY <2>1, <2>2, <2>3
  <2>4. CASE fields[k].ref \notin DOMAIN compiled
    BY <2>1, <2>2, <2>4
  <2> QED
    BY <2>3, <2>4
<1>5. s = t
  <2>1. s = [k \in 1..n |-> s[k]] /\ t = [k \in 1..n |-> t[k]]
    BY <1>1, <1>2
  <2> HIDE DEF s, t
  <2> QED
    BY <2>1, <1>4
<1>6. NodesOf(fields, unfolded) = Total(s) /\ Sizes(items) = Total(t)
  BY DEF NodesOf, Sizes
<1> QED
  BY <1>5, <1>6

(* What a reference names is no plain field and no more than there are.         *)
LEMMA MemoIsSmall ==
  ASSUME Requests, NEW compiled, DOMAIN compiled \subseteq DOMAIN batch
  PROVE  /\ Plain \notin DOMAIN batch /\ IsFiniteSet(DOMAIN compiled)
         /\ Cardinality(DOMAIN compiled) \in Nat /\ Cardinality(DOMAIN compiled) <= Levels
<1>1. DOMAIN batch \subseteq Components
  BY RequestsAssumption DEF Requests
<1>2. Plain \notin Components /\ IsFiniteSet(Components)
  BY BoundsAssumption
<1>3. /\ IsFiniteSet(DOMAIN compiled)
      /\ Cardinality(DOMAIN compiled) <= Cardinality(Components)
  BY <1>1, <1>2, FS_Subset
<1> QED
  BY <1>1, <1>2, <1>3, FS_CardinalityType DEF Levels

(* A component whose nodes are complete goes from the stack into the memo: no   *)
(* other node counted on it.                                                    *)
LEMMA MemoOneMore ==
  ASSUME Requests, NEW compiled, NEW c \in DOMAIN batch, c \notin DOMAIN compiled,
         DOMAIN compiled \subseteq DOMAIN batch, SpelledMemo(compiled), Unfolds(compiled),
         \A d \in DOMAIN compiled : RefsOf(d) \subseteq DOMAIN compiled,
         RefsOf(c) \subseteq DOMAIN compiled,
         NEW items, Spelled(items, batch[c].fields, Len(batch[c].fields), compiled),
         NEW more, more = Put(compiled, c, items)
  PROVE  /\ \A field : field.ref \in {Plain} \cup DOMAIN compiled => NodeSize(field, more) = NodeSize(field, compiled)
         /\ SpelledMemo(more) /\ Unfolds(more)
<1>1. /\ DOMAIN more = DOMAIN compiled \cup {c} /\ more[c] = items
      /\ \A d \in DOMAIN compiled : more[d] = compiled[d]
  BY DEF Put
<1>2. /\ Plain \notin DOMAIN batch /\ IsFiniteSet(DOMAIN compiled)
      /\ Cardinality(DOMAIN compiled) \in Nat
  BY MemoIsSmall
<1>3. ASSUME NEW field, field.ref \in {Plain} \cup DOMAIN compiled
      PROVE  NodeSize(field, more) = NodeSize(field, compiled)
  <2>1. field.ref \in DOMAIN more <=> field.ref \in DOMAIN compiled
    BY <1>1, <1>2, <1>3
  <2>2. CASE field.ref \in DOMAIN compiled
    BY <2>1, <2>2, <1>1 DEF NodeSize
  <2>3. CASE field.ref \notin DOMAIN compiled
    BY <2>1, <2>3 DEF NodeSize
  <2> QED
    BY <2>2, <2>3
<1>4. ASSUME NEW d \in DOMAIN batch, RefsOf(d) \subseteq DOMAIN compiled
      PROVE  /\ \A k \in 1..Len(batch[d].fields) : batch[d].fields[k].ref \in {Plain} \cup DOMAIN compiled
             /\ IsSeq(batch[d].fields)
  <2>1. IsSeq(batch[d].fields)
    BY RequestsAssumption DEF Requests, IsSeq
  <2> QED
    BY <1>4, <2>1, Listed DEF RefsOf, Refs
<1>5. ASSUME NEW d \in DOMAIN batch, RefsOf(d) \subseteq DOMAIN compiled, NEW list,
             Spelled(list, batch[d].fields, Len(batch[d].fields), compiled)
      PROVE  Spelled(list, batch[d].fields, Len(batch[d].fields), more)
  <2>1. \A k \in 1..Len(batch[d].fields) :
           NodeSize(batch[d].fields[k], more) = NodeSize(batch[d].fields[k], compiled)
    BY <1>3, <1>4, <1>5
  <2> QED
    BY <1>5, <2>1 DEF Spelled
<1>6. Items(items)
  BY SpelledItems
<1>7. SpelledMemo(more)
  <2>1. ASSUME NEW d \in DOMAIN more
        PROVE  Spelled(more[d], batch[d].fields, Len(batch[d].fields), more) /\ Items(more[d])
    <3>1. CASE d = c
      BY <3>1, <1>1, <1>5, <1>6
    <3>2. CASE d # c
      <4>1. d \in DOMAIN compiled /\ more[d] = compiled[d] /\ d \in DOMAIN batch
        BY <3>2, <1>1
      <4>2. Spelled(compiled[d], batch[d].fields, Len(batch[d].fields), compiled) /\ Items(compiled[d])
        BY <4>1 DEF SpelledMemo
      <4>3. RefsOf(d) \subseteq DOMAIN compiled
        BY <4>1
      <4> QED
        BY <4>1, <4>2, <4>3, <1>5
    <3> QED
      BY <3>1, <3>2
  <2> QED
    BY <2>1 DEF SpelledMemo
<1>8. Unfolds(more)
  <2>1. Cardinality(DOMAIN more) = Cardinality(DOMAIN compiled) + 1
    <3>1. PICK memo : memo = DOMAIN compiled
      OBVIOUS
    <3>2. Cardinality(memo \cup {c}) = Cardinality(memo) + 1
      BY <3>1, <1>2, FS_AddElement
    <3> QED
      BY <3>1, <3>2, <1>1
  <2>2. ASSUME NEW n \in 0..Levels, Cardinality(DOMAIN more) <= n, NEW d \in DOMAIN more
        PROVE  Unfolding[n][d] = Sizes(more[d])
    <3>1. /\ Levels \in Nat /\ n \in 1..Levels /\ n - 1 \in 0..Levels
          /\ Cardinality(DOMAIN compiled) <= n - 1 /\ Cardinality(DOMAIN compiled) <= n
      <4>1. Levels \in Nat
        BY UnfoldingSteps
      <4> QED
        BY <4>1, <1>2, <2>1, <2>2
    <3>2. CASE d = c
      <4>1. Unfolding[n] = NextLevel(Unfolding[n - 1]) /\ DOMAIN Unfolding[n - 1] = DOMAIN batch
        BY <3>1, UnfoldingSteps
      <4>2. PICK unfolded : unfolded = Unfolding[n - 1]
        OBVIOUS
      <4>3. \A e \in DOMAIN compiled : unfolded[e] = Sizes(compiled[e])
        BY <3>1, <4>2 DEF Unfolds
      <4>4. NodesOf(batch[c].fields, unfolded) = Sizes(items)
        <5>1. IsSeq(batch[c].fields)
              /\ \A k \in 1..Len(batch[c].fields) : batch[c].fields[k].ref \in {Plain} \cup DOMAIN compiled
          BY <1>4
        <5>2. Plain \notin DOMAIN unfolded /\ Plain \notin DOMAIN compiled /\ DOMAIN compiled \subseteq DOMAIN unfolded
          BY <1>2, <4>1, <4>2
        <5> QED
          BY <5>1, <5>2, <4>3, <1>6, SpelledUnfolds
      <4>5. Unfolding[n][c] = NodesOf(batch[c].fields, unfolded)
        BY <4>1, <4>2 DEF NextLevel
      <4> QED
        BY <3>2, <4>4, <4>5, <1>1
    <3>3. CASE d # c
      BY <3>1, <3>3, <1>1 DEF Unfolds
    <3> QED
      BY <3>2, <3>3
  <2> QED
    BY <2>2 DEF Unfolds
<1> QED
  BY <1>3, <1>7, <1>8

(* A component that is done leaves the stack for the memo.                      *)
LEMMA PopCounted ==
  ASSUME Requests, NEW x, NEW root, Sound(x, root), Named(root), Counted(x),
         NEW n, n = Len(x.stack), n > 1,
         NEW c, c = x.stack[n].of, x.stack[n].next > Len(FieldsOf(c)),
         NEW y, y.stack = Front(x.stack), y.compiled = Put(x.compiled, c, x.stack[n].items),
         y.fields = x.fields
  PROVE  Counted(y)
<1>1. IsSeq(x.stack) /\ x.stack # <<>> /\ n \in Nat \ {0, 1} /\ n \in 2..n
  BY Listed DEF Sound, Shape
<1>2. Len(y.stack) = n - 1 /\ \A k \in 1..n - 1 : y.stack[k] = x.stack[k]
  BY <1>1, Popped
<1>3. c \in DOMAIN batch /\ FieldsOf(c) = batch[c].fields /\ c \notin DOMAIN x.compiled
  <2>1. c \in DOMAIN batch
    BY <1>1 DEF Sound, Path
  <2>2. c \in OnStack(x)
    BY <1>1 DEF OnStack
  <2> QED
    BY <2>1, <2>2, <1>1, FrameNamed, FieldsAreListed DEF FieldsOf, Sound, Memo
<1>4. DoneBefore(x.stack[n], DOMAIN x.compiled) /\ Len(FieldsOf(c)) \in Nat
      /\ DOMAIN FieldsOf(c) = 1..Len(FieldsOf(c)) /\ x.stack[n].next = Len(FieldsOf(c)) + 1
  <2>1. DoneBefore(x.stack[n], DOMAIN x.compiled)
    BY <1>1 DEF Sound, Path
  <2>2. Len(FieldsOf(c)) \in Nat /\ DOMAIN FieldsOf(c) = 1..Len(FieldsOf(c))
    BY <1>1, FrameNamed, FieldsAreListed
  <2> QED
    BY <2>1, <2>2 DEF DoneBefore
<1>5. RefsOf(c) \subseteq DOMAIN x.compiled
  <2>1. \A k \in DOMAIN FieldsOf(c) : FieldsOf(c)[k].ref \in {Plain} \cup DOMAIN x.compiled
    BY <1>4 DEF DoneBefore
  <2> QED
    BY <2>1, <1>3, SMTT(30) DEF RefsOf, Refs
<1>6. Spelled(x.stack[n].items, batch[c].fields, Len(batch[c].fields), x.compiled)
  <2>1. SpelledFrame(x.stack[n], x.compiled) /\ x.stack[n].next - 1 = Len(FieldsOf(c))
    BY <1>1, <1>4 DEF Counted
  <2> QED
    BY <2>1, <1>3 DEF SpelledFrame
<1>7. /\ \A field : field.ref \in {Plain} \cup DOMAIN x.compiled =>
            NodeSize(field, y.compiled) = NodeSize(field, x.compiled)
      /\ SpelledMemo(y.compiled) /\ Unfolds(y.compiled)
  <2>1. DOMAIN x.compiled \subseteq DOMAIN batch
        /\ \A d \in DOMAIN x.compiled : RefsOf(d) \subseteq DOMAIN x.compiled
    BY DEF Sound, Memo
  <2>2. SpelledMemo(x.compiled) /\ Unfolds(x.compiled)
    BY DEF Counted
  <2> QED
    BY <2>1, <2>2, <1>3, <1>5, <1>6, MemoOneMore
<1>8. ASSUME NEW k \in 1..n - 1
      PROVE  /\ SpelledFrame(y.stack[k], y.compiled)
             /\ Sizes(y.stack[k].items) - Len(y.stack[k].items) <= y.fields
  <2>1. k \in 1..n /\ y.stack[k] = x.stack[k]
    BY <1>1, <1>2
  <2>2. PICK f : f = x.stack[k]
    OBVIOUS
  <2>3. SpelledFrame(f, x.compiled) /\ DoneBefore(f, DOMAIN x.compiled)
    BY <2>1, <2>2 DEF Counted, Sound, Path
  <2>4. \A i \in 1..f.next - 1 : NodeSize(FieldsOf(f.of)[i], y.compiled) = NodeSize(FieldsOf(f.of)[i], x.compiled)
    BY <2>3, <1>7 DEF DoneBefore
  <2>5. SpelledFrame(f, y.compiled)
    BY <2>3, <2>4 DEF SpelledFrame, Spelled
  <2> QED
    BY <2>1, <2>2, <2>5 DEF Counted
<1> QED
  BY <1>2, <1>7, <1>8 DEF Counted

-----------------------------------------------------------------------------
(* Layouts. A field is laid out once its reference has been expanded; a layout  *)
(* follows a component when it has a node per field of it, and below each that  *)
(* refers to another component, if it has a UI, a node per field of that.       *)
LaidOut(field, layouts) == field.ref # Plain => field.id \in DOMAIN layouts
Follows(layout, c) ==
  /\ DOMAIN layout = DOMAIN batch[c].fields
  /\ \A j \in DOMAIN layout :
       LET inner == batch[c].fields[j]
       IN  /\ layout[j].field = inner.id
           /\ batch[c].ui /\ inner.ref # Plain =>
                layout[j].children = [i \in DOMAIN batch[inner.ref].fields |-> batch[inner.ref].fields[i].id]
LaidOutFrame(frame, layouts) == \A k \in 1..frame.next - 1 : LaidOut(FieldsOf(frame.of)[k], layouts)
LaidOutMemo(compiled, layouts) ==
  \A c \in DOMAIN compiled : \A k \in DOMAIN batch[c].fields : LaidOut(batch[c].fields[k], layouts)
Owners == {"form"} \cup DOMAIN batch
LayoutsFollow(compiled, layouts) ==
  \A d \in Owners : \A k \in DOMAIN FieldsOf(d) :
    FieldsOf(d)[k].id \in DOMAIN layouts =>
      /\ FieldsOf(d)[k].ref \in DOMAIN compiled
      /\ Follows(layouts[FieldsOf(d)[k].id], FieldsOf(d)[k].ref)
Layouts(x) ==
  /\ \A k \in 1..Len(x.stack) : LaidOutFrame(x.stack[k], x.layouts)
  /\ LaidOutMemo(x.compiled, x.layouts)
  /\ LayoutsFollow(x.compiled, x.layouts)

(* LayoutOf lays a memoized component out as its references are.                *)
LEMMA LayoutFollows ==
  ASSUME Requests, NEW compiled, NEW layouts, NEW c \in DOMAIN compiled,
         DOMAIN compiled \subseteq DOMAIN batch, SpelledMemo(compiled),
         LaidOutMemo(compiled, layouts), LayoutsFollow(compiled, layouts)
  PROVE  Follows(LayoutOf(c, compiled[c], layouts), c)
<1> DEFINE items == compiled[c]
           fields == batch[c].fields
           layout == LayoutOf(c, items, layouts)
<1>1. c \in DOMAIN batch /\ c \in Owners /\ FieldsOf(c) = fields
  <2>1. "form" \notin DOMAIN batch
    BY RequestsAssumption, BoundsAssumption DEF Requests
  <2> QED
    BY <2>1 DEF Owners, FieldsOf
<1>2. Spelled(items, fields, Len(fields), compiled)
  BY DEF SpelledMemo
<1>3. DOMAIN fields = 1..Len(fields)
  <2>1. IsSeq(fields)
    BY <1>1, RequestsAssumption DEF Requests, IsSeq
  <2> QED
    BY <2>1, Listed
<1>4. DOMAIN items = DOMAIN fields /\ \A k \in DOMAIN fields : items[k].id = fields[k].id
  <2>1. DOMAIN items = 1..Len(items)
    BY <1>2, Listed DEF Spelled
  <2> QED
    BY <2>1, <1>2, <1>3 DEF Spelled
<1>5. DOMAIN layout = DOMAIN items
  BY DEF LayoutOf
<1>6. ASSUME NEW j \in DOMAIN layout
      PROVE  /\ layout[j].field = fields[j].id
             /\ batch[c].ui /\ fields[j].ref # Plain =>
                  layout[j].children = [i \in DOMAIN batch[fields[j].ref].fields |->
                                          batch[fields[j].ref].fields[i].id]
  <2> DEFINE inner == fields[j]
  <2>1. j \in DOMAIN fields /\ j \in DOMAIN items /\ items[j].id = inner.id
    BY <1>4, <1>5
  <2>2. layout[j].field = inner.id
    BY <2>1 DEF LayoutOf
  <2>3. ASSUME batch[c].ui, inner.ref # Plain
        PROVE  layout[j].children = [i \in DOMAIN batch[inner.ref].fields |-> batch[inner.ref].fields[i].id]
    <3>1. inner.id \in DOMAIN layouts
      BY <2>1, <2>3 DEF LaidOutMemo, LaidOut
    <3>2. Follows(layouts[inner.id], inner.ref)
      BY <3>1, <2>1, <1>1 DEF LayoutsFollow
    <3>3. layout[j].children = [i \in DOMAIN layouts[inner.id] |-> layouts[inner.id][i].field]
      BY <2>1, <2>3, <3>1 DEF LayoutOf
    <3>4. PICK below : below = layouts[inner.id]
      OBVIOUS
    <3>5. /\ DOMAIN below = DOMAIN batch[inner.ref].fields
          /\ \A i \in DOMAIN below : below[i].field = batch[inner.ref].fields[i].id
      BY <3>2, <3>4 DEF Follows
    <3> HIDE DEF layout, inner
    <3>6. [i \in DOMAIN below |-> below[i].field]
            = [i \in DOMAIN batch[inner.ref].fields |-> batch[inner.ref].fields[i].id]
      BY <3>5
    <3> QED
      BY <3>3, <3>4, <3>6
  <2> QED
    BY <2>2, <2>3
<1> HIDE DEF layout
<1> QED
  BY <1>4, <1>5, <1>6 DEF Follows, layout

(* A group is laid out under its field's id, which every field with that id may *)
(* go by when ids agree on what they refer to.                                  *)
LEMMA GroupLaysOut ==
  ASSUME Requests, OneComponentPerId, NEW compiled, NEW layouts,
         DOMAIN compiled \subseteq DOMAIN batch, SpelledMemo(compiled),
         LaidOutMemo(compiled, layouts), LayoutsFollow(compiled, layouts),
         NEW d \in Owners, NEW k \in DOMAIN FieldsOf(d),
         FieldsOf(d)[k].ref \in DOMAIN compiled,
         NEW c, c = FieldsOf(d)[k].ref, NEW id, id = FieldsOf(d)[k].id,
         NEW more, more = Put(layouts, id, LayoutOf(c, compiled[c], layouts))
  PROVE  /\ \A field : LaidOut(field, layouts) => LaidOut(field, more)
         /\ LaidOut(FieldsOf(d)[k], more)
         /\ LaidOutMemo(compiled, more) /\ LayoutsFollow(compiled, more)
<1>1. PICK layout : layout = LayoutOf(c, compiled[c], layouts) /\ Follows(layout, c)
  BY LayoutFollows
<1>2. /\ DOMAIN more = DOMAIN layouts \cup {id} /\ more[id] = layout
      /\ \A e \in DOMAIN layouts : e # id => more[e] = layouts[e]
  BY <1>1 DEF Put
<1>3. ASSUME NEW field, LaidOut(field, layouts) PROVE LaidOut(field, more)
  BY <1>2, <1>3 DEF LaidOut
<1>4. LaidOut(FieldsOf(d)[k], more)
  BY <1>2 DEF LaidOut
<1>5. LaidOutMemo(compiled, more)
  BY <1>3 DEF LaidOutMemo
<1>6. ASSUME NEW e \in Owners, NEW j \in DOMAIN FieldsOf(e), FieldsOf(e)[j].id \in DOMAIN more
      PROVE  /\ FieldsOf(e)[j].ref \in DOMAIN compiled
             /\ Follows(more[FieldsOf(e)[j].id], FieldsOf(e)[j].ref)
  <2>1. CASE FieldsOf(e)[j].id = id
    <3>1. FieldsOf(e)[j].ref = c
      BY <2>1 DEF OneComponentPerId, Owners
    <3> QED
      BY <2>1, <3>1, <1>1, <1>2
  <2>2. CASE FieldsOf(e)[j].id # id
    <3>1. FieldsOf(e)[j].id \in DOMAIN layouts /\ more[FieldsOf(e)[j].id] = layouts[FieldsOf(e)[j].id]
      BY <2>2, <1>2, <1>6
    <3> QED
      BY <3>1 DEF LayoutsFollow
  <2> QED
    BY <2>1, <2>2
<1>7. LayoutsFollow(compiled, more)
  BY <1>6 DEF LayoutsFollow
<1> QED
  BY <1>3, <1>4, <1>5, <1>7

(* A context is measured: its nodes are counted and its layouts follow.         *)
Measured(x) == Counted(x) /\ (OneComponentPerId => Layouts(x))

(* A frame that is going on owns its field.                                     *)
LEMMA FrameOwns ==
  ASSUME Requests, NEW x, NEW root, Sound(x, root), Named(root), NEW k \in 1..Len(x.stack)
  PROVE  /\ x.stack[k].of \in Owners /\ Len(FieldsOf(x.stack[k].of)) \in Nat
         /\ DOMAIN FieldsOf(x.stack[k].of) = 1..Len(FieldsOf(x.stack[k].of))
         /\ x.stack[k].next \in 1..Len(FieldsOf(x.stack[k].of)) + 1
         /\ DoneBefore(x.stack[k], DOMAIN x.compiled)
<1>1. Named(x.stack[k].of)
  BY FrameNamed
<1>2. DoneBefore(x.stack[k], DOMAIN x.compiled)
  BY DEF Sound, Path
<1> QED
  BY <1>1, <1>2, FieldsAreListed DEF DoneBefore, Named, Owners

(* The top frame goes past a field that is plain, or that is laid out.           *)
LEMMA TopLaysOut ==
  ASSUME Requests, NEW x, NEW root, Sound(x, root), Named(root), Layouts(x),
         NEW n, n = Len(x.stack),
         NEW y, Differs(x.stack, y.stack, n), y.stack[n].of = x.stack[n].of,
         y.stack[n].next = x.stack[n].next + 1, y.compiled = x.compiled,
         \A field : LaidOut(field, x.layouts) => LaidOut(field, y.layouts),
         LaidOut(FieldsOf(x.stack[n].of)[x.stack[n].next], y.layouts),
         LaidOutMemo(y.compiled, y.layouts), LayoutsFollow(y.compiled, y.layouts)
  PROVE  Layouts(y)
<1>1. n \in Nat \ {0} /\ n \in 1..n /\ IsSeq(x.stack)
  BY Listed DEF Sound, Shape
<1>2. Len(y.stack) = n /\ \A k \in 1..n : k # n => y.stack[k] = x.stack[k]
  BY <1>1, Replaced
<1>3. ASSUME NEW k \in 1..n PROVE LaidOutFrame(y.stack[k], y.layouts)
  <2>1. LaidOutFrame(x.stack[k], x.layouts)
    BY DEF Layouts
  <2>2. LaidOutFrame(x.stack[k], y.layouts)
    BY <2>1 DEF LaidOutFrame
  <2>3. CASE k # n
    BY <2>2, <2>3, <1>2
  <2>4. CASE k = n
    <3>1. x.stack[n].next \in Nat
      <4>1. /\ Len(FieldsOf(x.stack[n].of)) \in Nat
            /\ x.stack[n].next \in 1..Len(FieldsOf(x.stack[n].of)) + 1
        BY <1>1, FrameOwns
      <4> QED
        BY <4>1
    <3>2. \A j \in 1..y.stack[n].next - 1 : j \in 1..x.stack[n].next - 1 \/ j = x.stack[n].next
      BY <3>1
    <3> QED
      BY <2>2, <2>4, <3>2 DEF LaidOutFrame
  <2> QED
    BY <2>3, <2>4
<1> QED
  BY <1>2, <1>3 DEF Layouts

(* A new frame has nothing behind it.                                          *)
LEMMA PushLaysOut ==
  ASSUME NEW x, NEW root, Sound(x, root), Layouts(x), NEW c, NEW y,
         y.stack = Append(x.stack, Frame(c)), y.compiled = x.compiled, y.layouts = x.layouts
  PROVE  Layouts(y)
<1> DEFINE n == Len(x.stack)
<1>1. /\ n \in Nat /\ Len(y.stack) = n + 1 /\ y.stack[n + 1] = Frame(c)
      /\ \A k \in 1..n : y.stack[k] = x.stack[k]
  BY Listed, Pushed DEF Sound, Shape
<1>2. LaidOutFrame(Frame(c), y.layouts)
  BY DEF LaidOutFrame, Frame
<1>3. \A k \in 1..n : LaidOutFrame(y.stack[k], y.layouts)
  BY <1>1 DEF Layouts
<1>4. \A k \in 1..n + 1 : k \in 1..n \/ k = n + 1
  BY <1>1
<1> HIDE DEF n
<1>5. \A k \in 1..Len(y.stack) : LaidOutFrame(y.stack[k], y.layouts)
  BY <1>1, <1>2, <1>3, <1>4
<1> QED
  BY <1>5 DEF Layouts

(* A fresh context has laid nothing out.                                       *)
LEMMA FreshLaysOut ==
  ASSUME NEW root PROVE Layouts(NewContext(root))
<1> DEFINE x == NewContext(root)
<1>1. x.stack = <<Frame(root)>> /\ x.compiled = EmptyMap /\ x.layouts = EmptyMap /\ DOMAIN EmptyMap = {}
  BY DEF NewContext, EmptyMap
<1>2. Len(x.stack) = 1 /\ x.stack[1] = Frame(root)
  BY <1>1
<1>3. LaidOutFrame(Frame(root), x.layouts)
  BY DEF LaidOutFrame, Frame
<1> HIDE DEF x
<1>4. LaidOutMemo(x.compiled, x.layouts) /\ LayoutsFollow(x.compiled, x.layouts)
  BY <1>1 DEF LaidOutMemo, LayoutsFollow
<1>5. \A k \in 1..1 : LaidOutFrame(x.stack[k], x.layouts)
  BY <1>2, <1>3
<1> QED
  BY <1>2, <1>4, <1>5 DEF Layouts, x

(* A component that is done has all of its references laid out.                 *)
LEMMA PopLaysOut ==
  ASSUME Requests, NEW x, NEW root, Sound(x, root), Named(root), Layouts(x),
         NEW n, n = Len(x.stack), n > 1,
         NEW c, c = x.stack[n].of, x.stack[n].next > Len(FieldsOf(c)),
         NEW y, y.stack = Front(x.stack), NEW items, y.compiled = Put(x.compiled, c, items),
         y.layouts = x.layouts
  PROVE  Layouts(y)
<1>1. IsSeq(x.stack) /\ x.stack # <<>> /\ n \in Nat \ {0, 1} /\ n \in 2..n /\ n \in 1..n
  BY Listed DEF Sound, Shape
<1>2. Len(y.stack) = n - 1 /\ \A k \in 1..n - 1 : y.stack[k] = x.stack[k] /\ k \in 1..n
  BY <1>1, Popped
<1>3. \A k \in 1..n - 1 : LaidOutFrame(y.stack[k], y.layouts)
  BY <1>2 DEF Layouts
<1>4. DOMAIN y.compiled = DOMAIN x.compiled \cup {c}
  BY DEF Put
<1>5. c \in DOMAIN batch /\ FieldsOf(c) = batch[c].fields
  <2>1. c \in DOMAIN batch
    BY <1>1 DEF Sound, Path
  <2> QED
    BY <2>1, <1>1, FrameNamed, FieldsAreListed DEF FieldsOf
<1>6. \A k \in DOMAIN batch[c].fields : LaidOut(batch[c].fields[k], y.layouts)
  <2>1. /\ Len(FieldsOf(c)) \in Nat /\ DOMAIN FieldsOf(c) = 1..Len(FieldsOf(c))
        /\ x.stack[n].next \in 1..Len(FieldsOf(c)) + 1
    BY <1>1, FrameOwns
  <2>2. x.stack[n].next - 1 = Len(FieldsOf(c))
    BY <2>1
  <2>3. LaidOutFrame(x.stack[n], x.layouts)
    BY <1>1 DEF Layouts
  <2> QED
    BY <2>1, <2>2, <2>3, <1>5 DEF LaidOutFrame
<1>7. LaidOutMemo(y.compiled, y.layouts)
  BY <1>4, <1>6 DEF LaidOutMemo, Layouts
<1>8. LayoutsFollow(y.compiled, y.layouts)
  BY <1>4 DEF LayoutsFollow, Layouts
<1> QED
  BY <1>2, <1>3, <1>7, <1>8 DEF Layouts

-----------------------------------------------------------------------------
(* Every context is measured at every moment.                                  *)
Measure == \A k \in 1..Len(contexts) : Measured(contexts[k])
MInv == IInv /\ Measure

(* What is measured stays so while the request is the same.                    *)
LEMMA SameMeasured ==
  ASSUME NEW x, form' = form, batch' = batch PROVE Measured(x)' <=> Measured(x)
<1>1. Unfolding' = Unfolding
  BY DEF Unfolding, NodesOf, Total
<1>2. ASSUME NEW c PROVE FieldsOf(c)' = FieldsOf(c)
  BY SameFields
<1>3. SpelledMemo(x.compiled)' <=> SpelledMemo(x.compiled)
  BY DEF SpelledMemo, Spelled, Items, NodeSize, IsSeq
<1>4. Unfolds(x.compiled)' <=> Unfolds(x.compiled)
  BY <1>1 DEF Unfolds, Levels
<1>5. ASSUME NEW f PROVE SpelledFrame(f, x.compiled)' <=> SpelledFrame(f, x.compiled)
  BY <1>2 DEF SpelledFrame, Spelled, NodeSize, IsSeq
<1>6. Counted(x)' <=> Counted(x)
  BY <1>3, <1>4, <1>5 DEF Counted
<1>7. OneComponentPerId' <=> OneComponentPerId
  BY <1>2 DEF OneComponentPerId
<1>8. ASSUME NEW f PROVE LaidOutFrame(f, x.layouts)' <=> LaidOutFrame(f, x.layouts)
  BY <1>2 DEF LaidOutFrame, LaidOut
<1>9. LaidOutMemo(x.compiled, x.layouts)' <=> LaidOutMemo(x.compiled, x.layouts)
  BY DEF LaidOutMemo, LaidOut
<1>10. LayoutsFollow(x.compiled, x.layouts)' <=> LayoutsFollow(x.compiled, x.layouts)
  <2>1. ASSUME NEW layout, NEW c PROVE Follows(layout, c)' <=> Follows(layout, c)
    BY DEF Follows
  <2>2. Owners' = Owners
    BY DEF Owners
  <2> QED
    BY <2>1, <2>2, <1>2 DEF LayoutsFollow
<1>11. Layouts(x)' <=> Layouts(x)
  BY <1>8, <1>9, <1>10 DEF Layouts
<1> QED
  BY <1>6, <1>7, <1>11 DEF Measured

(* The innermost context becomes one that is measured.                         *)
LEMMA UpdateMeasured ==
  ASSUME MInv, UNCHANGED <<form, batch>>, NEW y, Update(y), Measured(y)
  PROVE  Measure'
<1> DEFINE m == Len(contexts)
<1>1. IsSeq(contexts) /\ m \in {1, 2} /\ m \in 1..m
  BY DEF MInv, IInv
<1>2. /\ Len(contexts') = m /\ contexts'[m] = y
      /\ \A k \in 1..m : k # m => contexts'[k] = contexts[k]
  <2>1. Differs(contexts, contexts', m)
    BY Except DEF Update
  <2>2. contexts'[m] = y
    BY <1>1, Listed DEF Update
  <2> QED
    BY <2>1, <2>2, <1>1, Replaced
<1> HIDE DEF m
<1>3. ASSUME NEW k \in 1..m PROVE Measured(contexts[k])'
  <2>1. PICK z : z = contexts'[k]
    OBVIOUS
  <2>2. Measured(z)
    BY <2>1, <1>2 DEF MInv, Measure, m
  <2>3. Measured(z)'
    BY <2>2, SameMeasured
  <2> QED
    BY <2>1, <2>3
<1> QED
  BY <1>2, <1>3 DEF Measure

(* The contexts stay as they are.                                              *)
LEMMA RestMeasured ==
  ASSUME Measure, UNCHANGED <<form, batch, contexts>> PROVE Measure'
<1>1. ASSUME NEW k \in 1..Len(contexts) PROVE Measured(contexts[k])'
  BY SameMeasured DEF Measure
<1> QED
  BY <1>1 DEF Measure

(* The innermost context and its top frame.                                    *)
LEMMA CurrentMeasured ==
  ASSUME MInv
  PROVE  /\ Requests /\ Measured(Now) /\ Top = Now.stack[Len(Now.stack)]
         /\ \E root : Named(root) /\ Sound(Now, root)
<1>1. /\ Requests /\ Len(contexts) \in 1..Len(contexts)
      /\ \E root : Named(root) /\ Sound(Now, root)
  BY CurrentContext DEF MInv
<1>2. Measured(Now)
  BY <1>1 DEF MInv, Measure, Now
<1> QED
  BY <1>1, <1>2 DEF Top

(* A plain field's node counts one.                                            *)
LEMMA PlainFieldMeasured ==
  ASSUME MInv, CompilePlainField PROVE Measure'
<1> DEFINE x == Now
           n == Len(x.stack)
           leaf == Leaf(Field.id)
           y == [x EXCEPT !.stack[n].items = Append(@, leaf), !.stack[n].next = @ + 1]
<1>1. UNCHANGED <<form, batch>> /\ Update(y) /\ ~AtEnd /\ Field.ref = Plain
  BY DEF CompilePlainField
<1>2. PICK root : Named(root) /\ Sound(x, root) /\ Requests /\ Measured(x) /\ Top = x.stack[n]
  BY CurrentMeasured
<1>3. n \in 1..n /\ DOMAIN x.stack = 1..n
  BY <1>2, Listed DEF Sound, Shape
<1>4. n \in DOMAIN x.stack /\ IsFrame(x.stack[n]) /\ IsContext(x)
  BY <1>2, <1>3 DEF Sound, Shape
<1> HIDE DEF n, leaf
<1>5. /\ Differs(x.stack, y.stack, n) /\ y.stack[n].of = x.stack[n].of
      /\ y.stack[n].next = x.stack[n].next + 1
      /\ y.stack[n].items = Append(x.stack[n].items, leaf)
      /\ y.compiled = x.compiled /\ y.fields = x.fields /\ y.layouts = x.layouts
  BY <1>4 DEF IsContext, IsFrame, Differs
<1>6. PICK field : field = FieldsOf(x.stack[n].of)[x.stack[n].next] /\ field = Field
  BY <1>2 DEF Field
<1>7. x.fields \in Nat /\ x.fields <= MaxFields
  BY <1>2 DEF Measured, Counted
<1>8. leaf.id = field.id /\ leaf.size = 1
  BY <1>6 DEF leaf, Leaf
<1>9. field.ref = Plain /\ field.ref \notin DOMAIN x.compiled
  <2>1. Plain \notin DOMAIN batch
    BY <1>2, RequestsAssumption, BoundsAssumption DEF Requests
  <2> QED
    BY <2>1, <1>1, <1>2, <1>6 DEF Sound, Memo
<1>10. leaf.size = NodeSize(field, x.compiled)
  BY <1>8, <1>9 DEF NodeSize
<1> HIDE DEF x, y
<1>11. y.fields = x.fields + leaf.size - 1 /\ y.fields <= MaxFields
  BY <1>5, <1>7, <1>8
<1>12. Counted(y)
  BY <1>2, <1>5, <1>6, <1>8, <1>10, <1>11, TopCounted DEF Measured, n
<1>13. ASSUME Layouts(x) PROVE Layouts(y)
  <2>1. LaidOut(field, y.layouts)
    BY <1>9 DEF LaidOut
  <2>2. LaidOutMemo(y.compiled, y.layouts) /\ LayoutsFollow(y.compiled, y.layouts)
    BY <1>5, <1>13 DEF Layouts
  <2>3. \A f : LaidOut(f, x.layouts) => LaidOut(f, y.layouts)
    BY <1>5
  <2>4. LaidOut(FieldsOf(x.stack[n].of)[x.stack[n].next], y.layouts)
    BY <1>6, <2>1
  <2> QED
    BY <2>2, <2>3, <2>4, <1>2, <1>5, <1>13, TopLaysOut DEF n
<1>14. Measured(y)
  BY <1>2, <1>12, <1>13 DEF Measured
<1> QED
  BY <1>1, <1>14, UpdateMeasured

(* What WithGroup writes.                                                      *)
GroupWritten(x, y, n, id, c, items) ==
  /\ y.stack[n].items = Append(x.stack[n].items, Group(id, items))
  /\ y.fields = x.fields + Sizes(items)
  /\ y.layouts = Put(x.layouts, id, LayoutOf(c, items, x.layouts))

LEMMA GroupWrites ==
  ASSUME NEW x, Shape(x), NEW n, n = Len(x.stack), NEW c, NEW items,
         NEW id, id = FieldsOf(x.stack[n].of)[x.stack[n].next].id,
         NEW y, y = WithGroup(x, c, items)
  PROVE  GroupWritten(x, y, n, id, c, items)
<1> DEFINE node == Group(id, items)
           z == [x EXCEPT !.stack[n].items = Append(@, node), !.stack[n].next = @ + 1]
<1>1. y = [z EXCEPT !.layouts = Put(x.layouts, id, LayoutOf(c, items, x.layouts)),
                    !.fields = x.fields + Sizes(items),
                    !.bytes = x.bytes + node.size]
  BY DEF WithGroup
<1>2. IsContext(z) /\ z.stack[n].items = Append(x.stack[n].items, node)
  <2>1. n \in DOMAIN x.stack /\ IsFrame(x.stack[n]) /\ IsContext(x)
    BY Listed DEF Shape
  <2> HIDE DEF node
  <2> QED
    BY <2>1 DEF IsContext, IsFrame
<1> HIDE DEF z, node
<1>3. /\ y.stack = z.stack /\ y.fields = x.fields + Sizes(items)
      /\ y.layouts = Put(x.layouts, id, LayoutOf(c, items, x.layouts))
  BY <1>1, <1>2 DEF IsContext
<1> QED
  BY <1>2, <1>3 DEF node, GroupWritten

(* A group of a memoized component's nodes, when the budget has room for it.    *)
LEMMA GroupMeasured ==
  ASSUME Requests, NEW x, NEW root, Sound(x, root), Named(root), Measured(x),
         NEW n, n = Len(x.stack), x.stack[n].next <= Len(FieldsOf(x.stack[n].of)),
         NEW c, c = RefAt(x.stack[n]), c \in DOMAIN x.compiled,
         NEW items, items = x.compiled[c],
         NEW y, y = WithGroup(x, c, items), y.fields <= MaxFields
  PROVE  Measured(y)
<1>1. n \in 1..n
  BY Listed DEF Sound, Shape
<1>2. /\ Differs(x.stack, y.stack, n)
      /\ y.stack[n].of = x.stack[n].of /\ y.stack[n].next = x.stack[n].next + 1
      /\ y.compiled = x.compiled
  BY GroupStep, SMTT(30) DEF Sound
<1>3. PICK field : field = FieldsOf(x.stack[n].of)[x.stack[n].next] /\ field.ref = c
  BY DEF RefAt
<1>4. /\ y.stack[n].items = Append(x.stack[n].items, Group(field.id, items))
      /\ y.fields = x.fields + Sizes(items)
      /\ y.layouts = Put(x.layouts, field.id, LayoutOf(c, items, x.layouts))
  <2>1. Shape(x)
    BY DEF Sound
  <2>2. PICK id : id = FieldsOf(x.stack[n].of)[x.stack[n].next].id
    OBVIOUS
  <2>3. GroupWritten(x, y, n, id, c, items)
    BY <2>1, <2>2, GroupWrites
  <2> QED
    BY <1>3, <2>2, <2>3 DEF GroupWritten
<1>5. PICK node : node = Group(field.id, items)
  OBVIOUS
<1>6. node.id = field.id /\ node.size = 1 + Sizes(items)
  BY <1>5 DEF Group
<1>7. x.fields \in Nat /\ SpelledMemo(x.compiled) /\ Sizes(items) \in Nat
  <2>1. x.fields \in Nat /\ SpelledMemo(x.compiled)
    BY DEF Measured, Counted
  <2> QED
    BY <2>1, SizesAreNumbers DEF SpelledMemo
<1>8. node.size = NodeSize(field, x.compiled)
  BY <1>3, <1>6 DEF NodeSize
<1>9. y.fields = x.fields + node.size - 1
  <2>1. PICK sizes \in Nat : sizes = Sizes(items)
    BY <1>7
  <2>2. PICK charged \in Nat : charged = x.fields
    BY <1>7
  <2>3. PICK size : size = node.size
    OBVIOUS
  <2>4. size = 1 + sizes /\ y.fields = charged + sizes
    BY <1>4, <1>6, <2>1, <2>2, <2>3
  <2>5. y.fields = charged + size - 1
    BY <2>4
  <2> QED
    BY <2>2, <2>3, <2>5
<1>10. Counted(y)
  <2>1. y.stack[n].items = Append(x.stack[n].items, node)
    BY <1>4, <1>5
  <2>2. Counted(x)
    BY DEF Measured
  <2> QED
    BY <1>2, <1>3, <1>6, <1>8, <1>9, <2>1, <2>2, TopCounted
<1>11. ASSUME OneComponentPerId, Layouts(x) PROVE Layouts(y)
  <2>1. PICK d : d = x.stack[n].of
    OBVIOUS
  <2>2. PICK k : k = x.stack[n].next
    OBVIOUS
  <2>3. d \in Owners /\ k \in DOMAIN FieldsOf(d) /\ field = FieldsOf(d)[k]
    <3>1. /\ d \in Owners /\ Len(FieldsOf(d)) \in Nat /\ DOMAIN FieldsOf(d) = 1..Len(FieldsOf(d))
          /\ k \in 1..Len(FieldsOf(d)) + 1
      BY <1>1, <2>1, <2>2, FrameOwns
    <3> QED
      BY <3>1, <1>3, <2>1, <2>2
  <2>4. /\ DOMAIN x.compiled \subseteq DOMAIN batch
        /\ LaidOutMemo(x.compiled, x.layouts) /\ LayoutsFollow(x.compiled, x.layouts)
    BY <1>11 DEF Layouts, Sound, Memo
  <2>5. y.layouts = Put(x.layouts, field.id, LayoutOf(c, x.compiled[c], x.layouts))
    BY <1>4
  <2>6. /\ \A f : LaidOut(f, x.layouts) => LaidOut(f, y.layouts)
        /\ LaidOut(FieldsOf(d)[k], y.layouts)
        /\ LaidOutMemo(x.compiled, y.layouts) /\ LayoutsFollow(x.compiled, y.layouts)
    BY <1>3, <1>7, <1>11, <2>3, <2>4, <2>5, GroupLaysOut
  <2> QED
    BY <1>2, <1>11, <2>1, <2>2, <2>6, TopLaysOut
<1> QED
  BY <1>10, <1>11 DEF Measured

(* The budget lets in no more than it has.                                      *)
LEMMA ChargedMeasured ==
  ASSUME MInv, UNCHANGED <<form, batch>>, NEW y, Charged(y), y.fields \in Nat,
         y.fields <= MaxFields => Measured(y)
  PROVE  Measure'
<1>1. CASE y.fields > MaxFields \/ y.bytes > MaxBytes
  BY <1>1, RestMeasured DEF Charged, Fail, MInv
<1>2. CASE ~(y.fields > MaxFields \/ y.bytes > MaxBytes)
  <2>1. y.fields <= MaxFields
    BY <1>2, BoundsAssumption
  <2> QED
    BY <2>1, <1>2, UpdateMeasured DEF Charged
<1> QED
  BY <1>1, <1>2

-----------------------------------------------------------------------------
(* A clone is charged with what the memo counts.                               *)
LEMMA CloneMeasured ==
  ASSUME MInv, CloneCompiled PROVE Measure'
<1> DEFINE c == Field.ref
           x == Now
           items == x.compiled[c]
           y == WithGroup(x, c, items)
<1>1. UNCHANGED <<form, batch>> /\ ~AtEnd /\ c \in DOMAIN x.compiled /\ Charged(y)
  BY DEF CloneCompiled, Resolved, AtReference
<1>2. PICK root : Named(root) /\ Sound(x, root) /\ Requests /\ Measured(x)
  BY CurrentMeasured
<1>3. PICK n : n = Len(x.stack)
  OBVIOUS
<1>4. x.stack[n].next <= Len(FieldsOf(x.stack[n].of)) /\ RefAt(x.stack[n]) = c
  BY <1>1, <1>2, <1>3, CurrentFrame
<1>5. y.fields \in Nat
  <2>1. y.fields = x.fields + Sizes(items)
    BY <1>2, <1>3, GroupWrites DEF Sound, GroupWritten
  <2>2. x.fields \in Nat /\ Sizes(items) \in Nat
    BY <1>1, <1>2, SizesAreNumbers DEF Measured, Counted, SpelledMemo
  <2> HIDE DEF x, y, items, c
  <2> QED
    BY <2>1, <2>2
<1>6. y.fields <= MaxFields => Measured(y)
  <2> HIDE DEF x, c
  <2> QED
    BY <1>1, <1>2, <1>3, <1>4, GroupMeasured
<1> HIDE DEF y
<1> QED
  BY <1>1, <1>5, <1>6, ChargedMeasured

(* What is done is memoized with all of its nodes, and laid out where it was      *)
(* referred to.                                                                *)
LEMMA FinishMeasured ==
  ASSUME MInv, FinishComponent PROVE Measure'
<1> DEFINE c == Top.of
           items == Top.items
           w == Now
           x == [w EXCEPT !.stack = Front(@), !.compiled = Put(@, c, items)]
           y == WithGroup(x, c, items)
<1>1. /\ UNCHANGED <<form, batch>> /\ AtEnd /\ Len(w.stack) > 1 /\ Charged(y)
  BY DEF FinishComponent
<1>2. PICK root : Named(root) /\ Sound(w, root) /\ Requests /\ Measured(w) /\ Top = w.stack[Len(w.stack)]
  BY CurrentMeasured
<1>3. PICK n : n = Len(w.stack)
  OBVIOUS
<1>4. n > 1 /\ c = w.stack[n].of /\ items = w.stack[n].items /\ w.stack[n].next > Len(FieldsOf(c))
  BY <1>1, <1>2, <1>3 DEF AtEnd
<1> HIDE DEF c, items, w
<1>5. /\ IsContext(x) /\ x.stack = Front(w.stack) /\ x.compiled = Put(w.compiled, c, items)
      /\ x.taken = w.taken /\ x.resolved = w.resolved /\ x.layouts = w.layouts /\ x.fields = w.fields
  <2>1. IsContext(w)
    BY <1>2 DEF Sound, Shape
  <2> QED
    BY <2>1 DEF IsContext
<1> HIDE DEF x
<1>6. DOMAIN x.compiled = DOMAIN w.compiled \cup {c} /\ x.compiled[c] = items
  BY <1>5 DEF Put
<1>7. /\ Sound(x, root) /\ Len(x.stack) = n - 1
      /\ x.stack[n - 1].next <= Len(FieldsOf(x.stack[n - 1].of))
      /\ RefAt(x.stack[n - 1]) = c
  BY <1>2, <1>3, <1>4, <1>5, <1>6, PopSound, SMTT(30)
<1>8. Measured(x)
  <2>1. Counted(x)
    BY <1>2, <1>3, <1>4, <1>5, PopCounted DEF Measured
  <2>2. Layouts(w) => Layouts(x)
    BY <1>2, <1>3, <1>4, <1>5, PopLaysOut
  <2> QED
    BY <2>1, <2>2, <1>2 DEF Measured
<1>9. y.fields \in Nat
  <2>1. y.fields = x.fields + Sizes(items)
    BY <1>7, GroupWrites DEF Sound, GroupWritten
  <2>2. x.fields \in Nat /\ Sizes(items) \in Nat
    BY <1>6, <1>8, SizesAreNumbers DEF Measured, Counted, SpelledMemo
  <2> HIDE DEF y
  <2> QED
    BY <2>1, <2>2
<1>10. y.fields <= MaxFields => Measured(y)
  BY <1>2, <1>6, <1>7, <1>8, GroupMeasured
<1> HIDE DEF y
<1> QED
  BY <1>1, <1>9, <1>10, ChargedMeasured

(* A first expansion starts with no nodes.                                     *)
LEMMA ExpandMeasured ==
  ASSUME MInv, ExpandFirst PROVE Measure'
<1>1. UNCHANGED <<form, batch>>
  BY DEF ExpandFirst
<1>2. CASE Field.ref \in Now.taken
  BY <1>1, <1>2, RestMeasured DEF ExpandFirst, Fail, MInv
<1>3. CASE Field.ref \notin Now.taken
  <2> DEFINE c == Field.ref
             x == Now
             y == [x EXCEPT !.taken = @ \cup {c}, !.stack = Append(@, Frame(c))]
  <2>1. Update(y)
    BY <1>3 DEF ExpandFirst
  <2>2. PICK root : Named(root) /\ Sound(x, root) /\ Requests /\ Measured(x)
    BY CurrentMeasured
  <2> HIDE DEF c, x
  <2>3. /\ y.stack = Append(x.stack, Frame(c)) /\ y.compiled = x.compiled
        /\ y.layouts = x.layouts /\ y.fields = x.fields
    BY <2>2 DEF Sound, Shape, IsContext
  <2> HIDE DEF y
  <2>4. Counted(y)
    BY <2>2, <2>3, PushCounted DEF Measured
  <2>5. Layouts(x) => Layouts(y)
    BY <2>2, <2>3, PushLaysOut
  <2>6. Measured(y)
    BY <2>2, <2>4, <2>5 DEF Measured
  <2> QED
    BY <1>1, <2>1, <2>6, UpdateMeasured
<1> QED
  BY <1>2, <1>3

(* Resolving counts and lays out nothing.                                      *)
LEMMA ResolveMeasured ==
  ASSUME MInv, Resolve PROVE Measure'
<1>1. UNCHANGED <<form, batch>>
  BY DEF Resolve
<1>2. CASE VerifiesHashes /\ batch[Field.ref].pin = "wrong"
  BY <1>1, <1>2, RestMeasured DEF Resolve, Fail, MInv
<1>3. CASE ~(VerifiesHashes /\ batch[Field.ref].pin = "wrong")
  <2> DEFINE c == Field.ref
             x == Now
             y == [x EXCEPT !.resolved = @ \cup {c}]
  <2>1. Update(y)
    BY <1>3 DEF Resolve
  <2>2. PICK root : Named(root) /\ Sound(x, root) /\ Requests /\ Measured(x)
    BY CurrentMeasured
  <2> HIDE DEF c, x
  <2>3. /\ y.stack = x.stack /\ y.compiled = x.compiled
        /\ y.layouts = x.layouts /\ y.fields = x.fields
    BY <2>2 DEF Sound, Shape, IsContext
  <2> HIDE DEF y
  <2>4. Measured(y)
    BY <2>2, <2>3 DEF Measured, Counted, Layouts
  <2> QED
    BY <1>1, <2>1, <2>4, UpdateMeasured
<1> QED
  BY <1>2, <1>3

(* A verification starts from a fresh context and leaves the first one alone.   *)
LEMMA VerificationMeasured ==
  ASSUME MInv, BeginVerification \/ FinishVerification PROVE Measure'
<1>1. UNCHANGED <<form, batch>> /\ IsSeq(contexts) /\ contexts # <<>> /\ Len(contexts) \in {1, 2}
  BY CurrentContext DEF BeginVerification, FinishVerification, MInv
<1>2. \A k \in 1..Len(contexts) : Measured(contexts[k])
  BY DEF MInv, Measure
<1>3. CASE BeginVerification
  <2>1. PICK x : x = NewContext(Field.ref) /\ contexts' = Append(contexts, x)
    BY <1>3 DEF BeginVerification
  <2>2. Measured(x)
    BY <2>1, FreshCounted, FreshLaysOut DEF Measured
  <2>3. /\ Len(contexts') = Len(contexts) + 1 /\ contexts'[Len(contexts) + 1] = x
        /\ \A k \in 1..Len(contexts) : contexts'[k] = contexts[k]
    BY <1>1, <2>1, Pushed
  <2>4. ASSUME NEW k \in 1..Len(contexts') PROVE Measured(contexts[k])'
    <3>1. PICK z : z = contexts'[k]
      OBVIOUS
    <3>2. k \in 1..Len(contexts) \/ k = Len(contexts) + 1
      BY <1>1, <2>3
    <3>3. Measured(z)
      BY <3>1, <3>2, <1>2, <2>2, <2>3
    <3>4. Measured(z)'
      BY <3>3, <1>1, SameMeasured
    <3> QED
      BY <3>1, <3>4
  <2> QED
    BY <2>4 DEF Measure
<1>4. CASE FinishVerification
  <2>1. contexts' = Front(contexts)
    BY <1>4 DEF FinishVerification
  <2>2. /\ Len(contexts') = Len(contexts) - 1
        /\ \A k \in 1..Len(contexts) - 1 : contexts'[k] = contexts[k]
    BY <1>1, <2>1, Popped
  <2>3. ASSUME NEW k \in 1..Len(contexts') PROVE Measured(contexts[k])'
    <3>1. PICK z : z = contexts'[k]
      OBVIOUS
    <3>2. k \in 1..Len(contexts) - 1 /\ k \in 1..Len(contexts)
      BY <1>1, <2>2
    <3>3. Measured(z)
      BY <3>1, <3>2, <1>2, <2>2
    <3>4. Measured(z)'
      BY <3>3, <1>1, SameMeasured
    <3> QED
      BY <3>1, <3>4
  <2> QED
    BY <2>3 DEF Measure
<1> QED
  BY <1>3, <1>4

-----------------------------------------------------------------------------
(* The call is ok where the form's frame is the only one and at its end.        *)
FormDone == outcome = "ok" => VerifiesHashes /\ Len(Now.stack) = 1 /\ AtEnd
OInv == MInv /\ FormDone

LEMMA FormDoneKeeps ==
  ASSUME FormDone, [Next]_vars PROVE FormDone'
<1>1. CASE UNCHANGED vars
  BY <1>1 DEF vars, FormDone, VerifiesHashes, Now, AtEnd, Top, FieldsOf
<1>2. CASE RejectReference
  BY <1>2 DEF RejectReference, Fail, ReferenceError, FormDone
<1>3. CASE CompilePlainField \/ BeginVerification \/ FinishVerification
  BY <1>3 DEF CompilePlainField, BeginVerification, FinishVerification, Unresolved, AtReference,
              Running, FormDone
<1>4. CASE Resolve \/ ExpandFirst
  BY <1>4 DEF Resolve, ExpandFirst, Unresolved, Resolved, AtReference, Running, Fail, FormDone
<1>5. CASE CloneCompiled \/ FinishComponent
  BY <1>5 DEF CloneCompiled, FinishComponent, Charged, Resolved, AtReference, Running, Fail, FormDone
<1>6. CASE FinishForm
  BY <1>6 DEF FinishForm, FormDone, VerifiesHashes, Now, AtEnd, Top, FieldsOf
<1> QED
  BY <1>1, <1>2, <1>3, <1>4, <1>5, <1>6 DEF Next

(* The first context has counted and laid out nothing.                          *)
LEMMA InitMeasured == Init => OInv
<1> SUFFICES ASSUME Init PROVE OInv
  OBVIOUS
<1>1. Len(contexts) = 1 /\ contexts[1] = NewContext("form") /\ outcome = "running"
  BY DEF Init
<1>2. Measured(contexts[1])
  BY <1>1, FreshCounted, FreshLaysOut DEF Measured
<1>3. Measure
  BY <1>1, <1>2 DEF Measure
<1> QED
  BY <1>1, <1>3, InitSound DEF OInv, MInv, FormDone

(* Each action keeps what is counted, charged and laid out.                     *)
LEMMA StepMeasured == OInv /\ [Next]_vars => OInv'
<1> SUFFICES ASSUME OInv, [Next]_vars PROVE OInv'
  OBVIOUS
<1>1. MInv /\ Measure
  BY DEF OInv, MInv
<1>2. CASE UNCHANGED vars \/ RejectReference \/ FinishForm
  <2>1. UNCHANGED <<form, batch, contexts>>
    BY <1>2 DEF vars, RejectReference, Fail, FinishForm
  <2>2. Measure'
    BY <1>1, <2>1, RestMeasured
  <2> QED
    BY <2>2, FormDoneKeeps, StepSound DEF OInv, MInv
<1>3. CASE CompilePlainField \/ BeginVerification \/ Resolve \/ ExpandFirst
           \/ CloneCompiled \/ FinishComponent \/ FinishVerification
  <2>1. Measure'
    BY <1>1, <1>3, PlainFieldMeasured, VerificationMeasured, ResolveMeasured, ExpandMeasured,
       CloneMeasured, FinishMeasured
  <2> QED
    BY <2>1, FormDoneKeeps, StepSound DEF OInv, MInv
<1> QED
  BY <1>2, <1>3 DEF Next

(* What the form's own frame says when the call is ok.                          *)
LEMMA WhenDone ==
  ASSUME OInv, outcome = "ok"
  PROVE  /\ Requests /\ Measured(Now)
         /\ DOMAIN Now.compiled \subseteq DOMAIN batch
         /\ IsSeq(form) /\ DOMAIN form = 1..Len(form)
         /\ \A k \in 1..Len(form) : form[k].ref \in {Plain} \cup DOMAIN Now.compiled
         /\ Spelled(Top.items, form, Len(form), Now.compiled)
         /\ Sizes(Top.items) - Len(form) <= Now.fields
         /\ OneComponentPerId => \A k \in 1..Len(form) : LaidOut(form[k], Now.layouts)
<1>1. Sound(Now, "form") /\ Requests /\ Measured(Now) /\ Top = Now.stack[1] /\ AtEnd
      /\ Named("form") /\ Len(Now.stack) = 1
  BY CurrentContext, CurrentMeasured DEF OInv, MInv, FormDone, Named
<1>2. /\ Top.of = "form" /\ FieldsOf("form") = form /\ DOMAIN form = 1..Len(form) /\ Len(form) \in Nat
  BY <1>1, FieldsAreListed DEF Sound, Path, FieldsOf
<1>3. DoneBefore(Top, DOMAIN Now.compiled)
  BY <1>1 DEF Sound, Path
<1>4. Top.next - 1 = Len(form)
  BY <1>1, <1>2, <1>3 DEF DoneBefore, AtEnd
<1>5. \A k \in 1..Len(form) : form[k].ref \in {Plain} \cup DOMAIN Now.compiled
  BY <1>2, <1>3, <1>4 DEF DoneBefore
<1>6. SpelledFrame(Top, Now.compiled) /\ Sizes(Top.items) - Len(Top.items) <= Now.fields
  BY <1>1 DEF Measured, Counted
<1>7. Spelled(Top.items, form, Len(form), Now.compiled)
  BY <1>2, <1>4, <1>6 DEF SpelledFrame
<1>8. Sizes(Top.items) - Len(form) <= Now.fields
  BY <1>6, <1>7 DEF Spelled
<1>9. ASSUME OneComponentPerId PROVE \A k \in 1..Len(form) : LaidOut(form[k], Now.layouts)
  <2>1. LaidOutFrame(Top, Now.layouts)
    BY <1>1, <1>9 DEF Measured, Layouts
  <2> QED
    BY <2>1, <1>2, <1>4 DEF LaidOutFrame
<1>10. IsSeq(form)
  BY <1>1, RequestsAssumption DEF Requests, IsSeq
<1>11. DOMAIN Now.compiled \subseteq DOMAIN batch
  BY <1>1 DEF Sound, Memo
<1> QED
  BY <1>1, <1>2, <1>5, <1>7, <1>8, <1>9, <1>10, <1>11

(* The nodes of the form are those of its unfolding.                            *)
LEMMA DoneUnfolds ==
  ASSUME OInv PROVE OutputIsUnfolding
<1> SUFFICES ASSUME outcome = "ok" PROVE Sizes(Top.items) = Unfolded(form)
  BY DEF OutputIsUnfolding
<1> DEFINE compiled == Now.compiled
           unfolded == Unfolding[Levels]
<1>1. /\ Requests /\ DOMAIN compiled \subseteq DOMAIN batch /\ IsSeq(form)
      /\ \A k \in 1..Len(form) : form[k].ref \in {Plain} \cup DOMAIN compiled
      /\ Spelled(Top.items, form, Len(form), compiled)
      /\ SpelledMemo(compiled) /\ Unfolds(compiled)
  BY WhenDone DEF Measured, Counted
<1>2. /\ Plain \notin DOMAIN batch /\ Cardinality(DOMAIN compiled) <= Levels
      /\ Levels \in Nat /\ DOMAIN unfolded = DOMAIN batch
  <2>1. Levels \in Nat /\ \A n \in 0..Levels : DOMAIN Unfolding[n] = DOMAIN batch
    BY <1>1, UnfoldingSteps
  <2> HIDE DEF compiled
  <2> QED
    BY <2>1, <1>1, MemoIsSmall
<1>3. Unfolded(form) = NodesOf(form, unfolded)
  BY DEF Unfolded, Levels
<1> HIDE DEF compiled
<1>4. \A c \in DOMAIN compiled : unfolded[c] = Sizes(compiled[c])
  <2>1. Levels \in 0..Levels
    BY <1>2
  <2> QED
    BY <2>1, <1>1, <1>2 DEF Unfolds
<1> HIDE DEF unfolded
<1>5. Items(Top.items)
  BY <1>1, SpelledItems
<1>6. NodesOf(form, unfolded) = Sizes(Top.items)
  BY <1>1, <1>2, <1>4, <1>5, SpelledUnfolds
<1> QED
  BY <1>3, <1>6

(* The layouts of the form's references follow them.                            *)
LEMMA DoneLaysOut ==
  ASSUME OInv PROVE LayoutsFollowReferences
<1> SUFFICES ASSUME outcome = "ok", OneComponentPerId, NEW k \in DOMAIN form,
                    form[k].ref \in Components, batch[form[k].ref].ui,
                    NEW j \in DOMAIN batch[form[k].ref].fields,
                    batch[form[k].ref].fields[j].ref # Plain
             PROVE  LET inner == batch[form[k].ref].fields[j]
                    IN  Now.layouts[form[k].id][j].children =
                          [i \in DOMAIN batch[inner.ref].fields |-> batch[inner.ref].fields[i].id]
  BY DEF LayoutsFollowReferences
<1>1. /\ DOMAIN form = 1..Len(form) /\ Requests
      /\ LaidOut(form[k], Now.layouts) /\ LayoutsFollow(Now.compiled, Now.layouts)
  <2>1. /\ Measured(Now) /\ Requests /\ DOMAIN form = 1..Len(form)
        /\ \A n \in 1..Len(form) : LaidOut(form[n], Now.layouts)
    BY WhenDone
  <2> QED
    BY <2>1 DEF Measured, Layouts
<1>2. form[k].id \in DOMAIN Now.layouts
  BY <1>1, BoundsAssumption DEF LaidOut
<1>3. "form" \in Owners /\ FieldsOf("form") = form
  BY DEF Owners, FieldsOf
<1>4. Follows(Now.layouts[form[k].id], form[k].ref)
  BY <1>1, <1>2, <1>3 DEF LayoutsFollow
<1>5. PICK layout : layout = Now.layouts[form[k].id]
  OBVIOUS
<1>6. j \in DOMAIN layout
  BY <1>4, <1>5 DEF Follows
<1> QED
  BY <1>4, <1>5, <1>6 DEF Follows

(* The invariant holds throughout.                                             *)
LEMMA AlwaysMeasured == Spec => []OInv
BY InitMeasured, StepMeasured, PTL DEF Spec

(* P-8: whatever the batch, the limits and the order in which references meet,  *)
(* what compiles counts as many nodes as the full unfolding of its references:  *)
(* the memo loses and duplicates nothing.                                       *)
THEOREM OutputAlwaysUnfolds == Spec => []OutputIsUnfolding
<1>1. OInv => OutputIsUnfolding
  BY DoneUnfolds
<1> QED
  BY <1>1, AlwaysMeasured, PTL

(* P-8: whatever is materialised for references, by a first expansion or by a    *)
(* clone and however deep, has been charged to the budget.                      *)
THEOREM BudgetAlwaysCoversOutput == Spec => []BudgetCoversOutput
<1>1. OInv => BudgetCoversOutput
  <2> SUFFICES ASSUME OInv, outcome = "ok" PROVE Sizes(Top.items) - Len(form) <= MaxFields
    BY DEF BudgetCoversOutput
  <2>1. /\ Measured(Now) /\ Sizes(Top.items) - Len(form) <= Now.fields
        /\ Spelled(Top.items, form, Len(form), Now.compiled)
    BY WhenDone
  <2>2. /\ Now.fields \in Nat /\ Now.fields <= MaxFields /\ SpelledMemo(Now.compiled) /\ MaxFields \in Nat
    BY <2>1, BoundsAssumption DEF Measured, Counted
  <2>3. Sizes(Top.items) \in Nat /\ Len(form) \in Nat
    <3>1. Items(Top.items)
      BY <2>1, <2>2, SpelledItems
    <3> QED
      BY <3>1, <2>1, SizesAreNumbers DEF Spelled
  <2> QED
    BY <2>1, <2>2, <2>3
<1> QED
  BY <1>1, AlwaysMeasured, PTL

(* docs/documents.md: where field ids agree on what they refer to, every layout  *)
(* node that names an expanded reference has that component's fields below it,  *)
(* whether the reference was expanded or cloned.                                *)
THEOREM LayoutsAlwaysFollow == Spec => []LayoutsFollowReferences
<1>1. OInv => LayoutsFollowReferences
  BY DoneLaysOut
<1> QED
  BY <1>1, AlwaysMeasured, PTL
=============================================================================
