------------------------- MODULE SchemaCheck_proofs -------------------------
(***************************************************************************)
(* Proofs about SchemaClassify and SchemaCheck for every set of documents and *)
(* instances, every depth bound, step budget and cap. First the walk: its      *)
(* memo and its chain of ancestors together find each loop of definitions, and *)
(* only loops. Then evaluation: a run says of a node what its keywords mean,   *)
(* or names what stopped it, if that holds of the runs one level down.         *)
(***************************************************************************)
EXTENDS SchemaCheck, SequenceTheorems, WellFoundedInduction, TLAPS

Frames == [node : Nodes, next : Nat \ {0}]
Inv == WalkInvariant /\ RecursionErrorIsReal

-----------------------------------------------------------------------------
(* Positions. *)

LEMMA Ends ==
  ASSUME NEW l \in Nat \ {0}
  PROVE  /\ l \in 1..l /\ 1 \in 1..l
         /\ \A i \in 1..l : i # l => i \in 1..l - 1
         /\ \A i \in 1..l - 1 : i \in 1..l /\ i + 1 \in 1..l /\ i # l /\ i < l
         /\ ~(l < l)
OBVIOUS

LEMMA NextPosition ==
  ASSUME NEW l \in Nat, NEW x \in Nat \ {0}
  PROVE  /\ ~(x > l) => x \in 1..l /\ x + 1 <= l + 1
         /\ \A k \in 1..(x + 1) - 1 : k = x \/ k \in 1..x - 1
OBVIOUS

-----------------------------------------------------------------------------
(* What the three changes of the path do to it. *)

LEMMA AdvancedPath ==
  ASSUME path \in Seq(Frames), path # << >>
  PROVE  /\ Len(path) \in Nat \ {0}
         /\ Advanced \in Seq(Frames) /\ Len(Advanced) = Len(path) /\ Advanced # << >>
         /\ \A i \in 1..Len(path) : Advanced[i].node = path[i].node
         /\ \A i \in 1..Len(path) - 1 : Advanced[i] = path[i]
         /\ Advanced[Len(path)].next = path[Len(path)].next + 1
<1>1. Len(path) \in Nat \ {0} /\ path \in [1..Len(path) -> Frames]
  BY EmptySeq, LenProperties
<1>2. path[Len(path)] \in Frames
  BY <1>1
<1>3. [path[Len(path)] EXCEPT !.next = @ + 1] \in Frames
  BY <1>2 DEF Frames
<1>4. Advanced = [i \in 1..Len(path) |-> IF i = Len(path)
                                         THEN [path[Len(path)] EXCEPT !.next = @ + 1] ELSE path[i]]
  BY <1>1 DEF Advanced
<1>5. Advanced \in Seq(Frames) /\ Len(Advanced) = Len(path)
  BY <1>1, <1>3, <1>4
<1>6. QED
  BY <1>1, <1>2, <1>4, <1>5 DEF Frames

LEMMA PushedPath ==
  ASSUME NEW p \in Seq(Frames), NEW n \in Nodes
  PROVE  /\ Append(p, Frame(n)) \in Seq(Frames)
         /\ Append(p, Frame(n)) # << >>
         /\ Len(Append(p, Frame(n))) = Len(p) + 1
         /\ \A i \in 1..Len(p) : Append(p, Frame(n))[i] = p[i]
         /\ Append(p, Frame(n))[Len(p) + 1] = Frame(n)
         /\ Frame(n).node = n /\ Frame(n).next = 1
<1>1. Frame(n) \in Frames
  BY DEF Frame, Frames
<1>2. QED
  BY <1>1, AppendProperties DEF Frame

LEMMA NonemptyPath ==
  ASSUME path \in Seq(Frames), path # << >>
  PROVE  /\ Len(path) \in Nat \ {0} /\ DOMAIN path = 1..Len(path)
         /\ \A i \in 1..Len(path) : path[i].node \in Nodes /\ path[i].next \in Nat \ {0}
<1>1. Len(path) \in Nat \ {0} /\ DOMAIN path = 1..Len(path)
  BY EmptySeq, LenProperties
<1>2. \A i \in 1..Len(path) : path[i] \in Frames
  BY <1>1, ElementOfSeq
<1>3. QED
  BY <1>1, <1>2 DEF Frames

LEMMA PoppedPath ==
  ASSUME path \in Seq(Frames), path # << >>
  PROVE  /\ Len(path) \in Nat \ {0}
         /\ SubSeq(path, 1, Len(path) - 1) \in Seq(Frames)
         /\ Len(SubSeq(path, 1, Len(path) - 1)) = Len(path) - 1
         /\ \A i \in 1..Len(path) - 1 : SubSeq(path, 1, Len(path) - 1)[i] = path[i]
<1> DEFINE p == SubSeq(path, 1, Len(path) - 1)
<1>1. Len(path) \in Nat \ {0} /\ \A i \in 1..Len(path) - 1 : path[i] \in Frames
  BY NonemptyPath, ElementOfSeq
<1>2. p \in Seq(Frames) /\ Len(p) = IF 1 <= Len(path) - 1 THEN Len(path) - 1 - 1 + 1 ELSE 0
  <2>1. 1 \in Int /\ Len(path) - 1 \in Int
    BY <1>1
  <2>2. QED
    BY <1>1, <2>1, SubSeqProperties
<1>3. \A i \in 1..Len(path) - 1 : p[i] = path[i]
  BY <1>1, SubSeqProperties
<1>4. Len(p) = Len(path) - 1
  <2>1. ASSUME NEW l \in Nat \ {0}, NEW m, m = IF 1 <= l - 1 THEN l - 1 - 1 + 1 ELSE 0
        PROVE  m = l - 1
    BY <2>1
  <2> HIDE DEF p
  <2>2. QED
    BY <1>1, <1>2, <2>1
<1>5. QED
  BY <1>1, <1>2, <1>3, <1>4

(* DOMAIN of a sequence, wherever it is quantified over. *)
LEMMA KeywordDomain ==
  ASSUME IsDocument(schema), NEW n \in Nodes
  PROVE  /\ Len(schema[n].keywords) \in Nat
         /\ DOMAIN schema[n].keywords = 1..Len(schema[n].keywords)
BY LenProperties DEF IsDocument

(* A value is held by one keyword, the root by none. *)
LEMMA HeldOnce ==
  ASSUME IsDocument(schema), NEW n \in Nodes, NEW k \in DOMAIN schema[n].keywords,
         schema[n].keywords[k].name \in SubschemaKeywords
  PROVE  /\ To(n, k) \in Nodes \ {Root}
         /\ \A m \in Nodes : \A j \in DOMAIN schema[m].keywords :
              schema[m].keywords[j].name \in SubschemaKeywords /\ To(m, j) = To(n, k) => m = n /\ j = k
<1> HIDE DEF SubschemaKeywords
<1>1. \A a \in Nodes : \A b \in DOMAIN schema[a].keywords :
        schema[a].keywords[b].name \in SubschemaKeywords =>
          /\ schema[a].keywords[b].to \in Nodes \ {Root}
          /\ \A m \in Nodes : \A j \in DOMAIN schema[m].keywords :
               /\ schema[m].keywords[j].name \in SubschemaKeywords
               /\ schema[m].keywords[j].to = schema[a].keywords[b].to
               => m = a /\ j = b
  BY Zenon DEF IsDocument
<1>2. QED
  BY <1>1, Zenon DEF To

-----------------------------------------------------------------------------
(* A node some keyword holds is an ancestor only if that keyword led to it:    *)
(* the walk does not come to it again while it is there.                       *)
LEMMA HeldIsNoAncestor ==
  ASSUME TypeOK, PathIsDescent, ReferencesDefinitions,
         path # << >>, ~AtEnd, Keyword.name \in SubschemaKeywords
  PROVE  Keyword.to \notin Ancestors
<1> DEFINE last == Len(path)
           n == path[last].node
           k == path[last].next
<1>1. /\ last \in Nat \ {0} /\ DOMAIN path = 1..last
      /\ \A i \in 1..last : path[i].node \in Nodes /\ path[i].next \in Nat \ {0}
  BY NonemptyPath DEF TypeOK, Frames
<1>2. n \in Nodes /\ k \in DOMAIN schema[n].keywords
  <2>1. n \in Nodes /\ k \in Nat \ {0} /\ ~(k > Len(schema[n].keywords))
    BY <1>1 DEF AtEnd, Top
  <2>2. IsDocument(schema)
    BY DEF TypeOK
  <2>3. /\ Len(schema[n].keywords) \in Nat
        /\ DOMAIN schema[n].keywords = 1..Len(schema[n].keywords)
    BY <2>1, <2>2, KeywordDomain
  <2>4. QED
    BY <2>1, <2>3
<1>3. Keyword = schema[n].keywords[k]
  BY DEF Keyword, Top
<1>4. SUFFICES ASSUME NEW i \in 1..last, path[i].node = To(n, k) PROVE FALSE
  BY <1>1, <1>3 DEF Ancestors, To
<1>5. /\ To(n, k) # Root
      /\ \A m \in Nodes : \A j \in DOMAIN schema[m].keywords :
           schema[m].keywords[j].name \in SubschemaKeywords /\ To(m, j) = To(n, k) => m = n /\ j = k
  <2>1. schema[n].keywords[k].name \in SubschemaKeywords /\ IsDocument(schema)
    BY <1>3 DEF TypeOK
  <2>2. QED
    BY <2>1, <1>2, HeldOnce
<1>6. i # 1
  BY <1>4, <1>5, <1>1 DEF PathIsDescent
<1> DEFINE m == path[i - 1].node
           j == path[i - 1].next - 1
<1>7. i - 1 \in 1..last - 1 /\ m \in Nodes
  BY <1>1, <1>6
<1>8. j \in DOMAIN schema[m].keywords /\ Leads(m, j) /\ To(m, j) = To(n, k)
  BY <1>7, <1>4 DEF PathIsDescent
<1>9. schema[m].keywords[j].name # "$ref"
  BY <1>2, <1>3, <1>7, <1>8 DEF ReferencesDefinitions
<1>10. m = n
  BY <1>5, <1>7, <1>8, <1>9 DEF Leads
<1>11. i - 1 = last
  BY <1>1, <1>7, <1>10 DEF PathIsDescent
<1>12. QED
  BY <1>7, <1>11, <1>1

(* A reference to an ancestor closes a loop of the path's nodes. *)
LEMMA AncestorClosesLoop ==
  ASSUME TypeOK, PathIsDescent, path # << >>, ~AtEnd,
         Keyword.name = "$ref", Keyword.to \in Ancestors
  PROVE  \E S \in SUBSET Nodes : Looping(S)
<1> DEFINE last == Len(path)
<1>1. /\ last \in Nat \ {0} /\ DOMAIN path = 1..last
      /\ \A i \in 1..last : path[i].node \in Nodes /\ path[i].next \in Nat \ {0}
  BY NonemptyPath DEF TypeOK, Frames
<1>2. PICK i \in 1..last : path[i].node = Keyword.to
  BY <1>1 DEF Ancestors
<1> DEFINE S == {path[j].node : j \in i..last}
<1>3. S \in SUBSET Nodes /\ S # {}
  BY <1>1, <1>2
<1>4. ASSUME NEW j \in i..last
      PROVE  \E k \in DOMAIN schema[path[j].node].keywords :
               Leads(path[j].node, k) /\ To(path[j].node, k) \in S
  <2>1. CASE j = last
    <3>1. path[last].next \in DOMAIN schema[path[last].node].keywords
      <4>1. /\ path[last].node \in Nodes /\ path[last].next \in Nat \ {0}
            /\ ~(path[last].next > Len(schema[path[last].node].keywords))
        BY <1>1 DEF AtEnd, Top
      <4>2. IsDocument(schema)
        BY DEF TypeOK
      <4>3. /\ Len(schema[path[last].node].keywords) \in Nat
            /\ DOMAIN schema[path[last].node].keywords = 1..Len(schema[path[last].node].keywords)
        BY <4>1, <4>2, KeywordDomain
      <4>4. QED
        BY <4>1, <4>3
    <3>2. Keyword = schema[path[last].node].keywords[path[last].next]
      BY DEF Keyword, Top
    <3>3. Keyword.to \in Nodes /\ schema[Keyword.to].kind = "object"
      BY <1>1, <1>2 DEF TypeOK, PathIsDescent
    <3>4. Leads(path[last].node, path[last].next) /\ To(path[last].node, path[last].next) = path[i].node
      BY <1>2, <3>2, <3>3 DEF Leads, To
    <3>5. path[i].node \in S
      BY <1>2, <1>1
    <3>6. QED
      BY <2>1, <3>1, <3>4, <3>5, Zenon
  <2>2. CASE j # last
    <3>0. last \in Nat /\ i \in 1..last
      BY <1>1, <1>2
    <3>1. j \in 1..last - 1 /\ j + 1 \in i..last
      <4> HIDE DEF last
      <4>1. QED
        BY <2>2, <3>0
    <3>2. path[j].next - 1 \in DOMAIN schema[path[j].node].keywords
          /\ Leads(path[j].node, path[j].next - 1)
          /\ To(path[j].node, path[j].next - 1) = path[j + 1].node
      BY <3>1 DEF PathIsDescent
    <3>3. path[j + 1].node \in S
      BY <3>1
    <3>4. QED
      BY <3>2, <3>3
  <2>3. QED
    BY <2>1, <2>2
<1>5. Looping(S)
  BY <1>3, <1>4 DEF Looping
<1>6. QED
  BY <1>3, <1>5

-----------------------------------------------------------------------------
(* A set that is closed and has no loop in it keeps both when it takes in a     *)
(* node that leads into it only.                                                *)
LEMMA FinishOne ==
  ASSUME NEW F \in SUBSET Nodes, NEW n \in Nodes \ F,
         ClosedUnderDescent(F), \A S \in SUBSET F : ~Looping(S),
         \A k \in DOMAIN schema[n].keywords : Leads(n, k) => To(n, k) \in F
  PROVE  /\ ClosedUnderDescent(F \cup {n})
         /\ \A S \in SUBSET (F \cup {n}) : ~Looping(S)
<1>1. ClosedUnderDescent(F \cup {n})
  BY DEF ClosedUnderDescent
<1>2. ASSUME NEW S \in SUBSET (F \cup {n}), Looping(S) PROVE FALSE
  <2>1. \A m \in S : \E k \in DOMAIN schema[m].keywords : Leads(m, k) /\ To(m, k) \in S \cap F
    <3>1. TAKE m \in S
    <3>2. PICK k \in DOMAIN schema[m].keywords : Leads(m, k) /\ To(m, k) \in S
      BY <1>2 DEF Looping
    <3>3. To(m, k) \in F
      BY <3>2 DEF ClosedUnderDescent
    <3>4. QED
      BY <3>2, <3>3
  <2>2. S \cap F # {}
    BY <1>2, <2>1 DEF Looping
  <2>3. Looping(S \cap F)
    BY <2>1, <2>2 DEF Looping
  <2>4. QED
    BY <2>3
<1>3. QED
  BY <1>1, <1>2

-----------------------------------------------------------------------------
(* The document does not change, and with it what leads where. *)
LEMMA SameDocument ==
  ASSUME schema' = schema
  PROVE  /\ \A n, k : Leads(n, k)' = Leads(n, k) /\ To(n, k)' = To(n, k)
         /\ \A S : Looping(S)' = Looping(S) /\ ClosedUnderDescent(S)' = ClosedUnderDescent(S)
         /\ ReferencesDefinitions' = ReferencesDefinitions
BY DEF Leads, To, Looping, ClosedUnderDescent, ReferencesDefinitions

(* The two parts of the invariant after a step, in terms of the next path. *)
LEMMA DescentNext ==
  ASSUME schema' = schema,
         path' # << >> => path'[1].node = Root,
         \A i \in 1..Len(path') :
           path'[i].node \in seen' /\ path'[i].next <= Len(schema[path'[i].node].keywords) + 1,
         \A i, j \in 1..Len(path') : path'[i].node = path'[j].node => i = j,
         \A i \in 1..Len(path') - 1 :
           LET k == path'[i].next - 1
           IN  k \in DOMAIN schema[path'[i].node].keywords
               /\ Leads(path'[i].node, k) /\ To(path'[i].node, k) = path'[i + 1].node
  PROVE  PathIsDescent'
<1>1. (path # << >> => path[1].node = Root)'
  OBVIOUS
<1>2. (\A i \in 1..Len(path) :
         path[i].node \in seen /\ path[i].next <= Len(schema[path[i].node].keywords) + 1)'
  OBVIOUS
<1>3. (\A i, j \in 1..Len(path) : path[i].node = path[j].node => i = j)'
  OBVIOUS
<1>4. (\A i \in 1..Len(path) - 1 :
         LET k == path[i].next - 1
         IN  k \in DOMAIN schema[path[i].node].keywords
             /\ Leads(path[i].node, k) /\ To(path[i].node, k) = path[i + 1].node)'
  BY DEF Leads, To
<1>5. QED
  BY <1>1, <1>2, <1>3, <1>4 DEF PathIsDescent

LEMMA BehindNext ==
  ASSUME schema' = schema, NEW F, Finished' = F,
         ReferencesDefinitions /\ errors' = {} =>
           /\ ClosedUnderDescent(F)
           /\ \A i \in 1..Len(path') : \A k \in 1..path'[i].next - 1 :
                Leads(path'[i].node, k) =>
                  To(path'[i].node, k) \in F \/ (i < Len(path') /\ k = path'[i].next - 1)
           /\ \A S \in SUBSET F : ~Looping(S)
  PROVE  BehindIsFinished'
<1>1. SUFFICES ASSUME ReferencesDefinitions', errors' = {}
               PROVE  (/\ ClosedUnderDescent(Finished)
                       /\ \A i \in 1..Len(path) : \A k \in 1..path[i].next - 1 :
                            Leads(path[i].node, k) =>
                              To(path[i].node, k) \in Finished \/ (i < Len(path) /\ k = path[i].next - 1)
                       /\ \A S \in SUBSET Finished : ~Looping(S))'
  BY DEF BehindIsFinished
<1>2. ReferencesDefinitions
  BY <1>1, SameDocument
<1>3. ClosedUnderDescent(Finished)'
  BY <1>1, <1>2 DEF ClosedUnderDescent, Leads, To
<1>4. (\A S \in SUBSET Finished : ~Looping(S))'
  BY <1>1, <1>2 DEF Looping, Leads, To
<1>5. (\A i \in 1..Len(path) : \A k \in 1..path[i].next - 1 :
         Leads(path[i].node, k) =>
           To(path[i].node, k) \in Finished \/ (i < Len(path) /\ k = path[i].next - 1))'
  BY <1>1, <1>2 DEF Leads, To
<1>6. QED
  BY <1>3, <1>4, <1>5

(* The visit of a keyword that enters nothing. *)
LEMMA VisitKeeps ==
  ASSUME Inv, path # << >>, ~AtEnd, phase = "walk",
         path' = Advanced, seen' = seen, schema' = schema, phase' = phase,
         errors \subseteq errors',
         errors' \subseteq {"no schema", "wrong type", "unusable", "recursive", "depth"},
         "recursive" \in errors' \ errors => \E S \in SUBSET Nodes : Looping(S),
         ReferencesDefinitions /\ errors' = {} /\ Leads(Top.node, Top.next)
           => To(Top.node, Top.next) \in Finished
  PROVE  Inv'
<1> DEFINE last == Len(path)
           n == path[last].node
<1>1. /\ path \in Seq(Frames) /\ last = Len(path) /\ IsDocument(schema)
      /\ TypeOK /\ PathIsDescent /\ BehindIsFinished /\ RecursionErrorIsReal
  BY DEF Inv, WalkInvariant, TypeOK, Frames
<1>2. /\ last \in Nat \ {0} /\ DOMAIN path = 1..last
      /\ \A i \in 1..last : path[i].node \in Nodes /\ path[i].next \in Nat \ {0}
  BY <1>1, NonemptyPath
<1>3. /\ path' \in Seq(Frames) /\ Len(path') = last /\ path' # << >>
      /\ \A i \in 1..last : path'[i].node = path[i].node
      /\ \A i \in 1..last - 1 : path'[i] = path[i]
      /\ path'[last].next = path[last].next + 1
  BY <1>1, AdvancedPath
<1>4. DOMAIN path' = 1..last
  BY <1>3, LenProperties
<1>5. Ancestors' = Ancestors
  <2>1. Ancestors = {path[i].node : i \in 1..last}
    BY <1>2 DEF Ancestors
  <2>2. Ancestors' = {path'[i].node : i \in 1..last}
    BY <1>4 DEF Ancestors
  <2> HIDE DEF last
  <2>3. \A i \in 1..last : path'[i].node = path[i].node
    BY <1>3
  <2>4. QED
    BY <2>1, <2>2, <2>3, Zenon
<1>6. TypeOK'
  BY <1>1, <1>3 DEF TypeOK, Frames
<1>b. n = path[last].node /\ Top = path[last] /\ n \in Nodes
  BY <1>2, Ends DEF Top
<1>c. Len(schema[n].keywords) \in Nat
  BY <1>1, <1>b, KeywordDomain
<1>d. ~(path[last].next > Len(schema[n].keywords))
  BY <1>b DEF AtEnd
<1> HIDE DEF last, n
<1>7. path[last].next \in Nat \ {0} /\ path[last].next + 1 <= Len(schema[n].keywords) + 1
  BY <1>2, <1>c, <1>d, Ends, NextPosition
<1>a. /\ last \in 1..last /\ 1 \in 1..last
      /\ \A i \in 1..last : i # last => i \in 1..last - 1
      /\ \A i \in 1..last - 1 : i \in 1..last /\ i + 1 \in 1..last /\ i # last /\ i < last
      /\ ~(last < last)
  BY <1>2, Ends
<1>8. PathIsDescent'
  <2>1. path'[1].node = Root
    BY <1>a, <1>1, <1>3, NonemptyPath DEF PathIsDescent
  <2>2. ASSUME NEW i \in 1..last
        PROVE  path'[i].node \in seen /\ path'[i].next <= Len(schema[path'[i].node].keywords) + 1
    <3>0. path[i].node \in seen /\ path[i].next <= Len(schema[path[i].node].keywords) + 1
      BY <1>1 DEF PathIsDescent
    <3>1. CASE i = last
      <4>1. path'[i].node = n /\ path'[i].next = path[last].next + 1
        BY <3>1, <1>3, <1>b, <1>a
      <4>2. QED
        BY <3>0, <3>1, <4>1, <1>7, <1>b
    <3>2. CASE i # last
      BY <3>0, <3>2, <1>a, <1>3
    <3>3. QED
      BY <3>1, <3>2
  <2>3. \A i, j \in 1..last : path'[i].node = path'[j].node => i = j
    BY <1>1, <1>3 DEF PathIsDescent
  <2>4. ASSUME NEW i \in 1..last - 1
        PROVE  LET k == path'[i].next - 1
               IN  k \in DOMAIN schema[path'[i].node].keywords
                   /\ Leads(path'[i].node, k) /\ To(path'[i].node, k) = path'[i + 1].node
    <3>1. path'[i] = path[i] /\ path'[i + 1].node = path[i + 1].node
      BY <1>a, <1>3
    <3>2. QED
      BY <3>1, <1>1 DEF PathIsDescent
  <2>5. QED
    BY <2>1, <2>2, <2>3, <2>4, <1>3, DescentNext
<1>9. BehindIsFinished'
  <2>0. ASSUME ReferencesDefinitions, errors' = {} PROVE
        /\ ClosedUnderDescent(Finished)
        /\ \A i \in 1..last : \A k \in 1..path'[i].next - 1 :
             Leads(path'[i].node, k) =>
               To(path'[i].node, k) \in Finished \/ (i < last /\ k = path'[i].next - 1)
        /\ \A S \in SUBSET Finished : ~Looping(S)
    <3>1. errors = {}
      BY <2>0
    <3>2. /\ ClosedUnderDescent(Finished)
          /\ \A i \in 1..last : \A k \in 1..path[i].next - 1 :
               Leads(path[i].node, k) =>
                 To(path[i].node, k) \in Finished \/ (i < last /\ k = path[i].next - 1)
          /\ \A S \in SUBSET Finished : ~Looping(S)
      BY <3>1, <2>0, <1>1 DEF BehindIsFinished
    <3>3. ASSUME NEW i \in 1..last, NEW k \in 1..path'[i].next - 1, Leads(path'[i].node, k)
          PROVE  To(path'[i].node, k) \in Finished \/ (i < last /\ k = path'[i].next - 1)
      <4>1. CASE i # last
        <5>1. path'[i] = path[i]
          BY <4>1, <1>a, <1>3
        <5>2. QED
          BY <5>1, <3>2, <3>3
      <4>2. CASE i = last
        <5>1. path'[i].node = n /\ path'[i].next = path[last].next + 1
          BY <4>2, <1>3, <1>a, <1>b
        <5>2. k = path[last].next \/ k \in 1..path[last].next - 1
          BY <5>1, <3>3, <1>7, NextPosition
        <5>3. CASE k = path[last].next
          BY <5>1, <5>3, <3>3, <1>b, <2>0
        <5>4. CASE k \in 1..path[last].next - 1
          <6>1. To(n, k) \in Finished \/ (last < last /\ k = path[last].next - 1)
            BY <5>1, <5>4, <3>2, <3>3, <1>a, <1>b
          <6>2. QED
            BY <6>1, <5>1, <1>a
        <5>5. QED
          BY <5>2, <5>3, <5>4
      <4>3. QED
        BY <4>1, <4>2
    <3>4. QED
      BY <3>2, <3>3
  <2>1. QED
    BY <2>0, <1>3, <1>5, BehindNext DEF Finished
<1>10. RecursionErrorIsReal'
  BY <1>1, SameDocument DEF RecursionErrorIsReal
<1>11. QED
  BY <1>6, <1>8, <1>9, <1>10, <1>3 DEF Inv, WalkInvariant

(* The walk enters a node it has not seen. *)
LEMMA EnterKeeps ==
  ASSUME Inv, path # << >>, ~AtEnd, phase = "walk",
         NEW m \in Nodes, m \notin seen, schema[m].kind = "object",
         Leads(Top.node, Top.next), To(Top.node, Top.next) = m,
         path' = Append(Advanced, Frame(m)), seen' = seen \cup {m},
         schema' = schema, phase' = phase, errors' = errors
  PROVE  Inv'
<1> DEFINE last == Len(path)
           n == path[last].node
<1>1. /\ path \in Seq(Frames) /\ last = Len(path) /\ IsDocument(schema)
      /\ TypeOK /\ PathIsDescent /\ BehindIsFinished /\ RecursionErrorIsReal
  BY DEF Inv, WalkInvariant, TypeOK, Frames
<1>2. /\ last \in Nat \ {0} /\ DOMAIN path = 1..last
      /\ \A i \in 1..last : path[i].node \in Nodes /\ path[i].next \in Nat \ {0}
  BY <1>1, NonemptyPath
<1>3. /\ Advanced \in Seq(Frames) /\ Len(Advanced) = last
      /\ \A i \in 1..last : Advanced[i].node = path[i].node
      /\ \A i \in 1..last - 1 : Advanced[i] = path[i]
      /\ Advanced[last].next = path[last].next + 1
  BY <1>1, AdvancedPath
<1>b. n = path[last].node /\ Top = path[last] /\ n \in Nodes
  BY <1>2, Ends DEF Top
<1>c. Len(schema[n].keywords) \in Nat /\ DOMAIN schema[n].keywords = 1..Len(schema[n].keywords)
  BY <1>1, <1>b, KeywordDomain
<1>d. ~(path[last].next > Len(schema[n].keywords))
  BY <1>b DEF AtEnd
<1>e. Len(schema[m].keywords) \in Nat
  BY <1>1, KeywordDomain
<1> HIDE DEF last, n
<1>4. /\ path' \in Seq(Frames) /\ Len(path') = last + 1 /\ path' # << >>
      /\ \A i \in 1..last : path'[i].node = path[i].node
      /\ \A i \in 1..last - 1 : path'[i] = path[i]
      /\ path'[last].next = path[last].next + 1
      /\ path'[last + 1].node = m /\ path'[last + 1].next = 1
  <2>1. /\ path' \in Seq(Frames) /\ path' # << >> /\ Len(path') = last + 1
        /\ \A i \in 1..last : path'[i] = Advanced[i]
        /\ path'[last + 1] = Frame(m) /\ Frame(m).node = m /\ Frame(m).next = 1
    BY <1>3, PushedPath
  <2>2. QED
    BY <2>1, <1>3, <1>2, Ends
<1>5. DOMAIN path' = 1..last + 1
  BY <1>4, LenProperties
<1>a. /\ last \in 1..last /\ 1 \in 1..last
      /\ \A i \in 1..last : i # last => i \in 1..last - 1
      /\ \A i \in 1..last - 1 : i \in 1..last /\ i + 1 \in 1..last /\ i # last /\ i < last
      /\ ~(last < last)
  BY <1>2, Ends
<1>f. /\ \A i \in 1..last + 1 : i \in 1..last \/ i = last + 1
      /\ \A i \in 1..last : i < last + 1 /\ i \in 1..last + 1
      /\ last + 1 - 1 = last /\ last + 1 \in 1..last + 1
  BY <1>2
<1>6. Finished' = Finished
  <2>1. Ancestors' = Ancestors \cup {m}
    <3>1. Ancestors = {path[i].node : i \in 1..last}
      BY <1>2 DEF Ancestors
    <3>2. Ancestors' = {path'[i].node : i \in 1..last + 1}
      BY <1>5 DEF Ancestors
    <3>3. ASSUME NEW x \in Ancestors' PROVE x \in Ancestors \cup {m}
      <4>1. PICK i \in 1..last + 1 : x = path'[i].node
        BY <3>2, <3>3
      <4>2. CASE i \in 1..last
        BY <3>1, <4>1, <4>2, <1>4
      <4>3. CASE i = last + 1
        BY <4>1, <4>3, <1>4
      <4>4. QED
        BY <4>2, <4>3, <1>f
    <3>4. ASSUME NEW x \in Ancestors \cup {m} PROVE x \in Ancestors'
      <4>1. CASE x \in Ancestors
        <5>1. PICK i \in 1..last : x = path[i].node
          BY <3>1, <4>1
        <5>2. i \in 1..last + 1 /\ path'[i].node = x
          BY <5>1, <1>4, <1>f
        <5>3. QED
          BY <5>2, <3>2
      <4>2. CASE x = m
        BY <4>2, <3>2, <1>4, <1>f
      <4>3. QED
        BY <4>1, <4>2
    <3>5. QED
      BY <3>3, <3>4
  <2>2. QED
    BY <2>1 DEF Finished
<1>7. path[last].next \in Nat \ {0} /\ path[last].next \in 1..Len(schema[n].keywords)
      /\ path[last].next + 1 <= Len(schema[n].keywords) + 1
      /\ path[last].next + 1 - 1 = path[last].next
  <2>1. path[last].next \in Nat \ {0}
    BY <1>2, <1>a
  <2>2. QED
    BY <2>1, <1>c, <1>d, NextPosition
<1>8. TypeOK'
  BY <1>1, <1>4 DEF TypeOK, Frames
<1>9. PathIsDescent'
  <2>1. path'[1].node = Root
    BY <1>a, <1>1, <1>4, NonemptyPath DEF PathIsDescent
  <2>2. ASSUME NEW i \in 1..last + 1
        PROVE  path'[i].node \in seen' /\ path'[i].next <= Len(schema[path'[i].node].keywords) + 1
    <3>1. CASE i = last + 1
      BY <3>1, <1>4, <1>e
    <3>2. CASE i \in 1..last
      <4>0. path[i].node \in seen /\ path[i].next <= Len(schema[path[i].node].keywords) + 1
        BY <3>2, <1>1 DEF PathIsDescent, last
      <4>1. CASE i = last
        <5>1. path'[i].node = n /\ path'[i].next = path[last].next + 1
          BY <4>1, <1>4, <1>b, <1>a
        <5>2. QED
          BY <4>0, <4>1, <5>1, <1>7, <1>b
      <4>2. CASE i # last
        BY <3>2, <4>0, <4>2, <1>a, <1>4
      <4>3. QED
        BY <4>1, <4>2
    <3>3. QED
      BY <3>1, <3>2, <1>f
  <2>3. ASSUME NEW i \in 1..last + 1, NEW j \in 1..last + 1, path'[i].node = path'[j].node
        PROVE  i = j
    <3>1. \A h \in 1..last : path[h].node \in seen
      BY <1>1 DEF PathIsDescent
    <3>2. \A h \in 1..last : path'[h].node # m
      BY <3>1, <1>4
    <3>3. \A g, h \in 1..last : path[g].node = path[h].node => g = h
      BY <1>1 DEF PathIsDescent
    <3>4. QED
      BY <2>3, <3>2, <3>3, <1>f, <1>4
  <2>4. ASSUME NEW i \in 1..last
        PROVE  LET k == path'[i].next - 1
               IN  k \in DOMAIN schema[path'[i].node].keywords
                   /\ Leads(path'[i].node, k) /\ To(path'[i].node, k) = path'[i + 1].node
    <3>1. CASE i = last
      <4>1. path'[i].node = n /\ path'[i].next - 1 = path[last].next /\ path'[i + 1].node = m
        BY <3>1, <1>4, <1>b, <1>a, <1>7
      <4>2. QED
        BY <4>1, <1>7, <1>c, <1>b
    <3>2. CASE i # last
      <4>1. path'[i] = path[i] /\ path'[i + 1].node = path[i + 1].node /\ i \in 1..last - 1
        BY <3>2, <1>a, <1>4
      <4>2. QED
        BY <4>1, <1>1 DEF PathIsDescent
    <3>3. QED
      BY <3>1, <3>2
  <2>5. QED
    BY <2>1, <2>2, <2>3, <2>4, <1>4, <1>f, DescentNext
<1>10. BehindIsFinished'
  <2>0. ASSUME ReferencesDefinitions, errors' = {} PROVE
        /\ ClosedUnderDescent(Finished)
        /\ \A i \in 1..last + 1 : \A k \in 1..path'[i].next - 1 :
             Leads(path'[i].node, k) =>
               To(path'[i].node, k) \in Finished \/ (i < last + 1 /\ k = path'[i].next - 1)
        /\ \A S \in SUBSET Finished : ~Looping(S)
    <3>1. errors = {}
      BY <2>0
    <3>2. /\ ClosedUnderDescent(Finished)
          /\ \A i \in 1..last : \A k \in 1..path[i].next - 1 :
               Leads(path[i].node, k) =>
                 To(path[i].node, k) \in Finished \/ (i < last /\ k = path[i].next - 1)
          /\ \A S \in SUBSET Finished : ~Looping(S)
      BY <3>1, <2>0, <1>1 DEF BehindIsFinished
    <3>3. ASSUME NEW i \in 1..last + 1, NEW k \in 1..path'[i].next - 1, Leads(path'[i].node, k)
          PROVE  To(path'[i].node, k) \in Finished \/ (i < last + 1 /\ k = path'[i].next - 1)
      <4>1. CASE i = last + 1
        <5>1. path'[i].next = 1
          BY <4>1, <1>4
        <5>2. QED
          BY <5>1, <3>3
      <4>2. CASE i \in 1..last /\ i # last
        <5>1. path'[i] = path[i] /\ i < last + 1
          BY <4>2, <1>a, <1>f, <1>4
        <5>2. QED
          BY <5>1, <4>2, <3>2, <3>3
      <4>3. CASE i = last
        <5>1. path'[i].node = n /\ path'[i].next = path[last].next + 1
          BY <4>3, <1>4, <1>a, <1>b
        <5>2. k = path[last].next \/ k \in 1..path[last].next - 1
          BY <5>1, <3>3, <1>7, NextPosition
        <5>3. CASE k = path[last].next
          BY <5>1, <5>3, <4>3, <1>7, <1>f, <1>a
        <5>4. CASE k \in 1..path[last].next - 1
          <6>1. To(n, k) \in Finished \/ (last < last /\ k = path[last].next - 1)
            BY <5>1, <5>4, <3>2, <3>3, <1>a, <1>b
          <6>2. QED
            BY <6>1, <5>1, <1>a
        <5>5. QED
          BY <5>2, <5>3, <5>4
      <4>4. QED
        BY <4>1, <4>2, <4>3, <1>f
    <3>4. QED
      BY <3>2, <3>3
  <2>1. QED
    BY <2>0, <1>4, <1>6, BehindNext
<1>11. RecursionErrorIsReal'
  BY <1>1, SameDocument DEF RecursionErrorIsReal
<1>12. QED
  BY <1>8, <1>9, <1>10, <1>11, <1>4 DEF Inv, WalkInvariant

(* The walk leaves a node: it is finished, and all it leads to already is. *)
LEMMA LeaveKeeps ==
  ASSUME Inv, path # << >>, AtEnd, phase = "walk",
         path' = SubSeq(path, 1, Len(path) - 1), seen' = seen,
         schema' = schema, phase' = phase, errors' = errors
  PROVE  Inv'
<1> DEFINE last == Len(path)
           n == path[last].node
<1>1. /\ path \in Seq(Frames) /\ last = Len(path) /\ IsDocument(schema)
      /\ TypeOK /\ PathIsDescent /\ BehindIsFinished /\ RecursionErrorIsReal
  BY DEF Inv, WalkInvariant, TypeOK, Frames
<1>2. /\ last \in Nat \ {0} /\ DOMAIN path = 1..last
      /\ \A i \in 1..last : path[i].node \in Nodes /\ path[i].next \in Nat \ {0}
  BY <1>1, NonemptyPath
<1>3. /\ path' \in Seq(Frames) /\ Len(path') = last - 1
      /\ \A i \in 1..last - 1 : path'[i] = path[i]
  BY <1>1, PoppedPath
<1>4. DOMAIN path' = 1..last - 1
  BY <1>3, LenProperties
<1>b. n = path[last].node /\ Top = path[last] /\ n \in Nodes
  BY <1>2, Ends DEF Top
<1>c. Len(schema[n].keywords) \in Nat /\ DOMAIN schema[n].keywords = 1..Len(schema[n].keywords)
  BY <1>1, <1>b, KeywordDomain
<1>d. path[last].next > Len(schema[n].keywords)
  BY <1>b DEF AtEnd
<1> HIDE DEF last, n
<1>a. /\ last \in 1..last /\ 1 \in 1..last
      /\ \A i \in 1..last : i # last => i \in 1..last - 1
      /\ \A i \in 1..last - 1 : i \in 1..last /\ i + 1 \in 1..last /\ i # last /\ i < last
      /\ ~(last < last)
  BY <1>2, Ends
<1>e. /\ \A i \in 1..last - 1 : i < last - 1 \/ i + 1 = last
      /\ \A i \in 1..last - 1 - 1 : i \in 1..last - 1 /\ i + 1 \in 1..last - 1
  BY <1>2
<1>5. TypeOK'
  BY <1>1, <1>3 DEF TypeOK, Frames
<1>6. /\ \A i \in 1..last : path[i].node \in seen
      /\ \A i, j \in 1..last : path[i].node = path[j].node => i = j
  BY <1>1 DEF PathIsDescent
<1>7. Finished' = Finished \cup {n} /\ n \notin Finished /\ Finished \subseteq Nodes
  <2>1. Ancestors = {path[i].node : i \in 1..last}
    BY <1>2 DEF Ancestors
  <2>2. Ancestors' = {path[i].node : i \in 1..last - 1}
    BY <1>3, <1>4 DEF Ancestors
  <2>3. n \in Ancestors /\ n \notin Ancestors' /\ n \in seen
    BY <2>1, <2>2, <1>6, <1>a, <1>b
  <2>4. Ancestors = Ancestors' \cup {n}
    BY <2>1, <2>2, <1>a, <1>b
  <2>5. seen \subseteq Nodes
    BY <1>1 DEF TypeOK
  <2>6. QED
    BY <2>3, <2>4, <2>5 DEF Finished
<1>8. PathIsDescent'
  <2>1. path' # << >> => path'[1].node = Root
    <3>1. SUFFICES ASSUME path' # << >> PROVE path'[1].node = Root
      OBVIOUS
    <3>2. 1 \in 1..last - 1
      BY <3>1, <1>2, <1>3, EmptySeq, LenProperties
    <3>3. QED
      BY <3>2, <1>1, <1>3 DEF PathIsDescent
  <2>2. \A i \in 1..last - 1 :
          path'[i].node \in seen' /\ path'[i].next <= Len(schema[path'[i].node].keywords) + 1
    BY <1>1, <1>3, <1>a DEF PathIsDescent
  <2>3. \A i, j \in 1..last - 1 : path'[i].node = path'[j].node => i = j
    BY <1>6, <1>3, <1>a
  <2>4. ASSUME NEW i \in 1..last - 1 - 1
        PROVE  LET k == path'[i].next - 1
               IN  k \in DOMAIN schema[path'[i].node].keywords
                   /\ Leads(path'[i].node, k) /\ To(path'[i].node, k) = path'[i + 1].node
    <3>1. path'[i] = path[i] /\ path'[i + 1] = path[i + 1] /\ i \in 1..last - 1
      BY <1>e, <1>3
    <3>2. QED
      BY <3>1, <1>1 DEF PathIsDescent
  <2>5. QED
    BY <2>1, <2>2, <2>3, <2>4, <1>3, DescentNext
<1>9. BehindIsFinished'
  <2> DEFINE F == Finished \cup {n}
  <2>0. ASSUME ReferencesDefinitions, errors' = {} PROVE
        /\ ClosedUnderDescent(F)
        /\ \A i \in 1..last - 1 : \A k \in 1..path'[i].next - 1 :
             Leads(path'[i].node, k) =>
               To(path'[i].node, k) \in F \/ (i < last - 1 /\ k = path'[i].next - 1)
        /\ \A S \in SUBSET F : ~Looping(S)
    <3>2. /\ ClosedUnderDescent(Finished)
          /\ \A i \in 1..last : \A k \in 1..path[i].next - 1 :
               Leads(path[i].node, k) =>
                 To(path[i].node, k) \in Finished \/ (i < last /\ k = path[i].next - 1)
          /\ \A S \in SUBSET Finished : ~Looping(S)
      BY <2>0, <1>1 DEF BehindIsFinished
    <3>3. \A k \in DOMAIN schema[n].keywords : Leads(n, k) => To(n, k) \in Finished
      <4>1. TAKE k \in DOMAIN schema[n].keywords
      <4>2. k \in 1..path[last].next - 1
        BY <1>c, <1>d, <1>2, <1>a
      <4>3. Leads(path[last].node, k) =>
              To(path[last].node, k) \in Finished \/ (last < last /\ k = path[last].next - 1)
        BY <4>2, <3>2, <1>a
      <4>4. QED
        BY <4>3, <1>a, <1>b
    <3>4. ClosedUnderDescent(F) /\ \A S \in SUBSET F : ~Looping(S)
      BY <3>2, <3>3, <1>7, <1>b, FinishOne
    <3>5. ASSUME NEW i \in 1..last - 1, NEW k \in 1..path'[i].next - 1, Leads(path'[i].node, k)
          PROVE  To(path'[i].node, k) \in F \/ (i < last - 1 /\ k = path'[i].next - 1)
      <4>1. path'[i] = path[i] /\ i \in 1..last
        BY <1>3, <1>a
      <4>2. To(path[i].node, k) \in Finished \/ k = path[i].next - 1
        BY <4>1, <3>2, <3>5
      <4>3. CASE i + 1 = last /\ k = path[i].next - 1
        <5>1. To(path[i].node, path[i].next - 1) = path[i + 1].node
          BY <1>1 DEF PathIsDescent, last
        <5>2. QED
          BY <5>1, <4>3, <4>1, <1>b
      <4>4. QED
        BY <4>1, <4>2, <4>3, <1>e
    <3>6. QED
      BY <3>4, <3>5
  <2> HIDE DEF F
  <2>1. Finished' = F
    BY <1>7 DEF F
  <2>2. QED
    BY <2>0, <2>1, <1>3, BehindNext
<1>10. RecursionErrorIsReal'
  BY <1>1, SameDocument DEF RecursionErrorIsReal
<1>11. QED
  BY <1>5, <1>8, <1>9, <1>10 DEF Inv, WalkInvariant

-----------------------------------------------------------------------------
(* Where the walk is, in the document. *)
LEMMA KeywordOfTop ==
  ASSUME TypeOK, path # << >>, ~AtEnd
  PROVE  /\ Top.node \in Nodes /\ Top.next \in DOMAIN schema[Top.node].keywords
         /\ Keyword = schema[Top.node].keywords[Top.next]
         /\ Keyword.to = To(Top.node, Top.next)
         /\ Keyword.to \in Nodes \cup {Unresolved}
         /\ Keyword.name \in SubschemaKeywords => Keyword.to \in Nodes
<1>1. path \in Seq(Frames) /\ IsDocument(schema)
  BY DEF TypeOK, Frames
<1>2. Top.node \in Nodes /\ Top.next \in Nat \ {0}
  BY <1>1, NonemptyPath, Ends DEF Top
<1>3. /\ Len(schema[Top.node].keywords) \in Nat
      /\ DOMAIN schema[Top.node].keywords = 1..Len(schema[Top.node].keywords)
  BY <1>1, <1>2, KeywordDomain
<1>4. ~(Top.next > Len(schema[Top.node].keywords))
  BY DEF AtEnd
<1>5. Top.next \in DOMAIN schema[Top.node].keywords
  BY <1>2, <1>3, <1>4
<1>6. schema[Top.node].keywords[Top.next] \in
        [name : SubschemaKeywords \cup {"$ref", "assert", "unusable"},
         to : Nodes \cup {Unresolved}, accepts : SUBSET STRING]
  BY <1>1, <1>2, <1>3, <1>5, ElementOfSeq DEF IsDocument
<1>7. Keyword.name \in SubschemaKeywords => Keyword.to \in Nodes
  BY <1>1, <1>2, <1>5, HeldOnce DEF Keyword, To
<1>8. QED
  BY <1>2, <1>5, <1>6, <1>7 DEF Keyword, To

(* The keyword is passed or refused. *)
LEMMA VisitKeyword ==
  ASSUME Inv, path # << >>, ~AtEnd, phase = "walk", schema' = schema, phase' = phase,
         \/ /\ Pass
            /\ ReferencesDefinitions /\ Leads(Top.node, Top.next) => To(Top.node, Top.next) \in Finished
         \/ \E e \in {"wrong type", "unusable", "depth"} : Refuse(e)
         \/ Refuse("recursive") /\ \E S \in SUBSET Nodes : Looping(S)
  PROVE  Inv'
<1>1. errors \subseteq {"no schema", "wrong type", "unusable", "recursive", "depth"}
  BY DEF Inv, WalkInvariant, TypeOK
<1>2. path' = Advanced /\ seen' = seen /\ errors \subseteq errors'
  BY DEF Pass, Refuse
<1>3. /\ errors' \subseteq {"no schema", "wrong type", "unusable", "recursive", "depth"}
      /\ "recursive" \in errors' \ errors => \E S \in SUBSET Nodes : Looping(S)
  BY <1>1 DEF Pass, Refuse
<1>4. ReferencesDefinitions /\ errors' = {} /\ Leads(Top.node, Top.next)
        => To(Top.node, Top.next) \in Finished
  BY DEF Pass, Refuse
<1>5. QED
  BY <1>2, <1>3, <1>4, VisitKeeps

(* The keyword is a subschema or a reference that is no ancestor. *)
LEMMA SubschemaKeyword ==
  ASSUME Inv, path # << >>, ~AtEnd, phase = "walk", schema' = schema, phase' = phase,
         Keyword.name \in SubschemaKeywords \cup {"$ref"}, Keyword.to \in Nodes,
         ReferencesDefinitions => Keyword.to \notin Ancestors,
         WalkSubschema(Keyword.to)
  PROVE  Inv'
<1>1. TypeOK
  BY DEF Inv, WalkInvariant
<1>2. /\ Keyword = schema[Top.node].keywords[Top.next]
      /\ Keyword.to = To(Top.node, Top.next)
  BY <1>1, KeywordOfTop
<1>3. CASE schema[Keyword.to].kind = "other"
  <2>1. Refuse("wrong type")
    BY <1>3 DEF WalkSubschema
  <2>2. QED
    BY <2>1, VisitKeyword
<1>4. CASE schema[Keyword.to].kind = "object" /\ Keyword.to \notin seen
  <2>1. /\ path' = Append(Advanced, Frame(Keyword.to)) /\ seen' = seen \cup {Keyword.to}
        /\ errors' = errors
    BY <1>4 DEF WalkSubschema
  <2>2. Leads(Top.node, Top.next)
    BY <1>2, <1>4 DEF Leads
  <2>3. QED
    BY <1>2, <1>4, <2>1, <2>2, EnterKeeps
<1>5. CASE schema[Keyword.to].kind # "other" /\ ~(schema[Keyword.to].kind = "object" /\ Keyword.to \notin seen)
  <2>1. Pass
    BY <1>5 DEF WalkSubschema
  <2>2. ReferencesDefinitions /\ Leads(Top.node, Top.next) => To(Top.node, Top.next) \in Finished
    BY <1>2, <1>5 DEF Leads, Finished
  <2>3. QED
    BY <2>1, <2>2, VisitKeyword
<1>6. QED
  BY <1>3, <1>4, <1>5

LEMMA InitInv == Init => Inv
<1> SUFFICES ASSUME Init PROVE Inv
  OBVIOUS
<1>1. /\ schema \in Schemas /\ IsDocument(schema) /\ phase = "walk" /\ Root \in Nodes
      /\ errors \subseteq {"no schema"}
  BY SchemaAssumption DEF Init
<1>2. Len(schema[Root].keywords) \in Nat
  BY <1>1, KeywordDomain
<1>3. CASE schema[Root].kind = "object"
  <2>1. seen = {Root} /\ path = <<Frame(Root)>> /\ errors = {}
    BY <1>3 DEF Init
  <2>2. /\ path \in Seq(Frames) /\ Len(path) = 1 /\ DOMAIN path = {1}
        /\ path[1].node = Root /\ path[1].next = 1
    BY <2>1, <1>1 DEF Frame, Frames
  <2>3. TypeOK
    BY <2>1, <2>2, <1>1, <1>3 DEF TypeOK, Frames
  <2>4. PathIsDescent
    BY <2>1, <2>2, <1>2 DEF PathIsDescent
  <2>5. Finished = {}
    BY <2>1, <2>2 DEF Finished, Ancestors
  <2>6. BehindIsFinished
    BY <2>2, <2>5 DEF BehindIsFinished, ClosedUnderDescent, Looping
  <2>7. QED
    BY <2>1, <2>3, <2>4, <2>6, <1>1 DEF Inv, WalkInvariant, RecursionErrorIsReal
<1>4. CASE schema[Root].kind # "object"
  <2>1. seen = {} /\ path = << >>
    BY <1>4 DEF Init
  <2>2. TypeOK
    <3>1. path \in Seq([node : Nodes, next : Nat \ {0}])
      BY <2>1
    <3>2. seen \subseteq {n \in Nodes : schema[n].kind = "object"}
      BY <2>1
    <3>3. QED
      BY <3>1, <3>2, <1>1 DEF TypeOK
  <2>3. PathIsDescent
    BY <2>1 DEF PathIsDescent
  <2>5. Finished = {}
    BY <2>1 DEF Finished
  <2>6. BehindIsFinished
    BY <2>1, <2>5 DEF BehindIsFinished, ClosedUnderDescent, Looping
  <2>7. QED
    BY <2>1, <2>2, <2>3, <2>6, <1>1, <1>4 DEF Inv, WalkInvariant, RecursionErrorIsReal
<1>5. QED
  BY <1>3, <1>4

LEMMA StepKeepsInv == Inv /\ [Next]_walkVars => Inv'
<1> SUFFICES ASSUME Inv, [Next]_walkVars PROVE Inv'
  OBVIOUS
<1>0. TypeOK /\ PathIsDescent
  BY DEF Inv, WalkInvariant
<1>1. CASE VisitAssertion
  <2>1. /\ path # << >> /\ ~AtEnd /\ phase = "walk" /\ schema' = schema /\ phase' = phase
        /\ Keyword.name = "assert" /\ Pass
    BY <1>1 DEF VisitAssertion, Visiting, Walking
  <2>2. ~Leads(Top.node, Top.next)
    BY <2>1, <1>0, KeywordOfTop DEF Leads, SubschemaKeywords
  <2>3. QED
    BY <2>1, <2>2, VisitKeyword
<1>2. CASE RefuseKeyword
  <2>1. /\ path # << >> /\ ~AtEnd /\ phase = "walk" /\ schema' = schema /\ phase' = phase
        /\ Refuse("unusable")
    BY <1>2 DEF RefuseKeyword, Visiting, Walking
  <2>2. QED
    BY <2>1, VisitKeyword
<1>3. CASE VisitSubschema
  <2>1. /\ path # << >> /\ ~AtEnd /\ phase = "walk" /\ schema' = schema /\ phase' = phase
        /\ Keyword.name \in SubschemaKeywords /\ WalkSubschema(Keyword.to)
    BY <1>3 DEF VisitSubschema, Visiting, Walking
  <2>2. Keyword.to \in Nodes
    BY <2>1, <1>0, KeywordOfTop
  <2>3. ReferencesDefinitions => Keyword.to \notin Ancestors
    BY <2>1, <1>0, HeldIsNoAncestor
  <2>4. QED
    BY <2>1, <2>2, <2>3, SubschemaKeyword
<1>4. CASE VisitReference
  <2>1. /\ path # << >> /\ ~AtEnd /\ phase = "walk" /\ schema' = schema /\ phase' = phase
        /\ Keyword.name = "$ref"
    BY <1>4 DEF VisitReference, Visiting, Walking
  <2>2. Unresolved \notin Nodes
    BY SchemaAssumption
  <2>3. /\ Keyword.to \in Nodes \cup {Unresolved} /\ Keyword.to = To(Top.node, Top.next)
        /\ Keyword = schema[Top.node].keywords[Top.next]
    BY <2>1, <1>0, KeywordOfTop
  <2>a. Ancestors \subseteq Nodes
    BY <1>0, NonemptyPath, <2>1 DEF Ancestors, TypeOK, Frames
  <2>4. CASE Keyword.to = Unresolved
    <3>1. Pass
      BY <2>4, <1>4, <2>2, <2>a DEF VisitReference
    <3>2. ~Leads(Top.node, Top.next)
      BY <2>4, <2>2, <2>3 DEF Leads, To
    <3>3. QED
      BY <2>1, <3>1, <3>2, VisitKeyword
  <2>5. CASE Keyword.to \in Ancestors
    <3>1. Refuse("recursive")
      BY <2>5, <1>4, <2>2, <2>a DEF VisitReference
    <3>2. \E S \in SUBSET Nodes : Looping(S)
      BY <2>1, <2>5, <1>0, AncestorClosesLoop
    <3>3. QED
      BY <2>1, <3>1, <3>2, VisitKeyword
  <2>6. CASE Keyword.to \in Nodes \ Ancestors /\ Len(path) >= MaxSchemaDepth
    <3>1. Refuse("depth")
      BY <2>6, <1>4, <2>2 DEF VisitReference
    <3>2. QED
      BY <2>1, <3>1, VisitKeyword
  <2>7. CASE Keyword.to \in Nodes \ Ancestors /\ ~(Len(path) >= MaxSchemaDepth)
    <3>1. WalkSubschema(Keyword.to)
      BY <2>7, <1>4, <2>2 DEF VisitReference
    <3>2. QED
      BY <2>1, <2>7, <3>1, SubschemaKeyword
  <2>8. QED
    BY <2>3, <2>4, <2>5, <2>6, <2>7
<1>5. CASE LeaveNode
  BY <1>5, LeaveKeeps DEF LeaveNode, Walking
<1>6. CASE Classified
  <2>1. /\ schema' = schema /\ seen' = seen /\ path' = path /\ errors' = errors
        /\ path = << >> /\ phase' = "classified"
    BY <1>6 DEF Classified
  <2>2. TypeOK' /\ PathIsDescent'
    <3>1. TypeOK'
      BY <2>1, <1>0 DEF TypeOK
    <3>2. PathIsDescent'
      BY <2>1, <1>0, DescentNext DEF PathIsDescent
    <3>3. QED
      BY <3>1, <3>2
  <2>3. Finished' = Finished
    BY <2>1 DEF Finished, Ancestors
  <2>4. BehindIsFinished'
    BY <2>1, <2>3, BehindNext DEF Inv, WalkInvariant, BehindIsFinished
  <2>5. QED
    BY <2>1, <2>2, <2>4, SameDocument DEF Inv, WalkInvariant, RecursionErrorIsReal
<1>7. CASE UNCHANGED walkVars
  <2>1. /\ schema' = schema /\ seen' = seen /\ path' = path /\ errors' = errors /\ phase' = phase
    BY <1>7 DEF walkVars
  <2>2. TypeOK' /\ PathIsDescent'
    <3>1. TypeOK'
      BY <2>1, <1>0 DEF TypeOK
    <3>2. PathIsDescent'
      BY <2>1, <1>0, DescentNext DEF PathIsDescent
    <3>3. QED
      BY <3>1, <3>2
  <2>3. Finished' = Finished
    BY <2>1 DEF Finished, Ancestors
  <2>4. BehindIsFinished'
    BY <2>1, <2>3, BehindNext DEF Inv, WalkInvariant, BehindIsFinished
  <2>5. QED
    BY <2>1, <2>2, <2>4, SameDocument DEF Inv, WalkInvariant, RecursionErrorIsReal
<1>8. QED
  BY <1>1, <1>2, <1>3, <1>4, <1>5, <1>6, <1>7 DEF Next

(* The walk's state is well formed throughout: its path descends from the root *)
(* through keywords of the document, and what it has finished leads nowhere     *)
(* else and never back (schema/classify.rs, visit and walk_subschema).          *)
THEOREM WalkInvariantHolds == Spec => []WalkInvariant
<1>1. Inv => WalkInvariant
  BY DEF Inv
<1>2. QED
  BY InitInv, StepKeepsInv, <1>1, PTL DEF Spec

(* A document is called recursive only if it has a loop: a definition shared by *)
(* independent positions is no recursion (schema/classify.rs, visit's `$ref`).  *)
THEOREM RecursionErrorsAreReal == Spec => []RecursionErrorIsReal
<1>1. Inv => RecursionErrorIsReal
  BY DEF Inv
<1>2. QED
  BY InitInv, StepKeepsInv, <1>1, PTL DEF Spec

(* Where references name definitions, a document the walk accepts has no loop   *)
(* evaluation could enter (schema/classify.rs, ancestors and seen together).    *)
THEOREM LoopsOfDefinitionsRejected == Spec => []RecursionOfDefinitionsRejected
<1>1. Inv => RecursionOfDefinitionsRejected
  <2> SUFFICES ASSUME Inv, ReferencesDefinitions, phase = "classified", errors = {}
               PROVE  /\ schema[Root].kind = "object" => Root \in seen
                      /\ ClosedUnderDescent(seen)
                      /\ \A S \in SUBSET seen : ~Looping(S)
    BY DEF RecursionOfDefinitionsRejected, RecursionRejected
  <2>1. path = << >>
    BY DEF Inv, WalkInvariant
  <2>2. Finished = seen
    BY <2>1 DEF Finished, Ancestors
  <2>3. QED
    BY <2>2 DEF Inv, WalkInvariant, BehindIsFinished
<1>2. QED
  BY InitInv, StepKeepsInv, <1>1, PTL DEF Spec

-----------------------------------------------------------------------------
LEMMA SetInduction ==
  ASSUME NEW S \in SUBSET Nat, 0 \in S, \A n \in S : n + 1 \in S
  PROVE  S = Nat
<1> SUFFICES ASSUME Nat \ S # {} PROVE FALSE
  OBVIOUS
<1> DEFINE R == {ss \in Nat \X Nat : ss[1] < ss[2]}
<1>1. OpToRel(<, Nat) = R
  BY DEF OpToRel
<1>2. IsWellFoundedOn(R, Nat)
  BY <1>1, NatLessThanWellFounded, Zenon
<1>3. PICK m \in Nat \ S : \A n \in Nat \ S : <<n, m>> \notin R
  <2> HIDE DEF R
  <2> QED
    BY <1>2, WFMin, Zenon
<1>4. \A n \in Nat \ S : ~(n < m)
  BY <1>3
<1>5. m # 0 /\ m - 1 \in Nat /\ m - 1 < m
  OBVIOUS
<1>6. m - 1 \in S
  BY <1>4, <1>5
<1> QED
  BY <1>5, <1>6

(* A function that starts with `base` and goes on by `step`, up to N.           *)
Recursion(f, N, base, step) == f = [n \in 0..N |-> IF n = 0 THEN base ELSE step[n][f[n - 1]]]

(* There is one, as long as the steps stay in V.                                *)
LEMMA RecursionExists ==
  ASSUME NEW N \in Nat, NEW V, NEW base \in V,
         NEW step, \A n \in 1..N : \A v \in V : step[n][v] \in V
  PROVE  \E f \in [0..N -> V] : Recursion(f, N, base, step)
<1> DEFINE Good(f, m) == /\ f \in [0..m -> V]
                         /\ \A n \in 0..m : f[n] = IF n = 0 THEN base ELSE step[n][f[n - 1]]
           S == {m \in Nat : m <= N => \E f : Good(f, m)}
<1>1. 0 \in S
  <2>1. Good([n \in 0..0 |-> base], 0)
    OBVIOUS
  <2> QED
    BY <2>1
<1>2. ASSUME NEW m \in S PROVE m + 1 \in S
  <2> SUFFICES ASSUME m + 1 <= N PROVE \E f : Good(f, m + 1)
    OBVIOUS
  <2>1. m \in Nat /\ m <= N
    OBVIOUS
  <2>2. PICK f : Good(f, m)
    BY <2>1
  <2> DEFINE g == [n \in 0..m + 1 |-> IF n = m + 1 THEN step[m + 1][f[m]] ELSE f[n]]
  <2>3. g[m + 1] = step[m + 1][f[m]] /\ \A n \in 0..m : g[n] = f[n]
    BY <2>1
  <2>4. f[m] \in V /\ g[m + 1] \in V
    BY <2>1, <2>2, <2>3
  <2>5. g \in [0..m + 1 -> V]
    BY <2>1, <2>2, <2>4
  <2> HIDE DEF g
  <2>6. ASSUME NEW n \in 0..m + 1 PROVE g[n] = IF n = 0 THEN base ELSE step[n][g[n - 1]]
    <3>1. CASE n = m + 1
      <4>1. n # 0 /\ n - 1 = m /\ m \in 0..m
        BY <2>1, <3>1
      <4> QED
        BY <2>3, <3>1, <4>1
    <3>2. CASE n # m + 1
      <4>1. n \in 0..m /\ (n = 0 \/ n - 1 \in 0..m)
        BY <2>1, <3>2
      <4> QED
        BY <2>2, <2>3, <4>1
    <3> QED
      BY <3>1, <3>2
  <2>7. Good(g, m + 1)
    BY <2>5, <2>6
  <2> QED
    BY <2>7
<1>3. S = Nat
  <2> HIDE DEF S
  <2>1. S \in SUBSET Nat
    BY DEF S
  <2> QED
    BY <1>1, <1>2, <2>1, SetInduction
<1>4. PICK f : Good(f, N)
  BY <1>3
<1>5. f = [n \in 0..N |-> f[n]]
  BY <1>4
<1> QED
  BY <1>4, <1>5 DEF Recursion

(* What a loop goes through: values in V, the k-th in P[k].                      *)
LEMMA ThroughKeeps ==
  ASSUME NEW V, NEW start \in V, NEW steps, Len(steps) \in Nat,
         \A k \in 1..Len(steps) : \A v \in V : steps[k][v] \in V,
         NEW P, start \in P[0],
         \A k \in 1..Len(steps) : \A v \in V : v \in P[k - 1] => steps[k][v] \in P[k]
  PROVE  Through(steps, start) \in V /\ Through(steps, start) \in P[Len(steps)]
<1> DEFINE after == CHOOSE f : Recursion(f, Len(steps), start, steps)
<1>1. PICK f \in [0..Len(steps) -> V] : Recursion(f, Len(steps), start, steps)
  BY RecursionExists
<1>2. Recursion(after, Len(steps), start, steps)
  <2> HIDE DEF Recursion
  <2> QED
    BY <1>1
<1>3. Through(steps, start) = after[Len(steps)]
  BY DEF Through, Recursion
<1> HIDE DEF after
<1>4. \A k \in 0..Len(steps) : after[k] = IF k = 0 THEN start ELSE steps[k][after[k - 1]]
  BY <1>2 DEF Recursion
<1> DEFINE S == {k \in Nat : k <= Len(steps) => after[k] \in V /\ after[k] \in P[k]}
<1>5. 0 \in S
  BY <1>4
<1>6. ASSUME NEW k \in S PROVE k + 1 \in S
  <2> SUFFICES ASSUME k + 1 <= Len(steps) PROVE after[k + 1] \in V /\ after[k + 1] \in P[k + 1]
    OBVIOUS
  <2>1. k + 1 \in 1..Len(steps) /\ k + 1 \in 0..Len(steps) /\ (k + 1) - 1 = k /\ k + 1 # 0
    OBVIOUS
  <2>2. after[k] \in V /\ after[k] \in P[k]
    OBVIOUS
  <2>3. after[k + 1] = steps[k + 1][after[k]]
    BY <1>4, <2>1
  <2> QED
    BY <2>1, <2>2, <2>3
<1>7. S = Nat
  <2> HIDE DEF S
  <2>1. S \in SUBSET Nat
    BY DEF S
  <2> QED
    BY <1>5, <1>6, <2>1, SetInduction
<1> QED
  BY <1>3, <1>7

-----------------------------------------------------------------------------
(* Runs. *)

(* Runs at a depth whose stop, if any, is among their errors, within the cap.   *)
Ok(depth) ==
  {r \in Runs : /\ r.depth = depth /\ Len(r.errors) <= MaxCollectedErrors
                /\ Stopped(r) => \E k \in DOMAIN r.errors : r.errors[k] = r.stop}
Going(depth) == {r \in Ok(depth) : ~Stopped(r)}

(* r is what became of `run` when something was looked at that holds or not.     *)
Verdict(run, r, holds) ==
  /\ r \in Ok(run.depth)
  /\ ~Stopped(r) => ((r.errors = << >>) <=> run.errors = << >> /\ holds)

LEMMA PushTyped ==
  ASSUME NEW run \in Runs, NEW error \in Failures
  PROVE  Push(run, error) \in Runs
<1>1. run.errors \in Seq(Failures \cup Stops)
  BY DEF Runs
<1>2. Append(run.errors, error) \in Seq(Failures \cup Stops)
  BY <1>1
<1> QED
  BY <1>2 DEF Push, Runs

LEMMA PushVerdict ==
  ASSUME NEW depth, NEW run \in Going(depth), NEW error \in Failures
  PROVE  Verdict(run, Push(run, error), FALSE)
<1> DEFINE r == Push(run, error)
<1>1. run \in Runs /\ run.errors \in Seq(Failures \cup Stops) /\ run.depth = depth
      /\ Len(run.errors) <= MaxCollectedErrors /\ ~Stopped(run)
  BY DEF Going, Ok, Runs
<1>2. r \in Runs
  BY <1>1, PushTyped
<1>3. r.depth = depth /\ r.stop = run.stop
  BY <1>1 DEF Push, Runs
<1>4. /\ r.errors = IF Len(run.errors) < MaxCollectedErrors THEN Append(run.errors, error) ELSE run.errors
  BY <1>1 DEF Push, Runs
<1>5. Len(run.errors) \in Nat /\ MaxCollectedErrors \in Nat \ {0}
  BY <1>1, CheckAssumption
<1> HIDE DEF r
<1>6. Len(r.errors) <= MaxCollectedErrors /\ r.errors # << >>
  BY <1>1, <1>4, <1>5
<1>7. Verdict(run, r, FALSE)
  BY <1>1, <1>2, <1>3, <1>6 DEF Verdict, Ok, Stopped
<1> QED
  BY <1>7 DEF r

LEMMA PushStopTyped ==
  ASSUME NEW run \in Runs, Stopped(run)
  PROVE  PushStop(run) \in Runs
<1>1. run.errors \in Seq(Failures \cup Stops) /\ run.stop \in Failures \cup Stops
  BY DEF Runs, Stopped
<1> DEFINE m == IF Len(run.errors) < MaxCollectedErrors THEN Len(run.errors) ELSE MaxCollectedErrors - 1
<1>2. m \in 0..Len(run.errors)
  BY <1>1, CheckAssumption
<1> HIDE DEF m
<1>3. Append(SubSeq(run.errors, 1, m), run.stop) \in Seq(Failures \cup Stops)
  BY <1>1, <1>2
<1> QED
  BY <1>3 DEF PushStop, Runs, m

LEMMA PushStopOk ==
  ASSUME NEW run \in Runs, Stopped(run)
  PROVE  PushStop(run) \in Ok(run.depth) /\ Stopped(PushStop(run))
<1>1. run.errors \in Seq(Failures \cup Stops) /\ run.stop \in Failures \cup Stops
  BY DEF Runs, Stopped
<1> DEFINE m == IF Len(run.errors) < MaxCollectedErrors THEN Len(run.errors) ELSE MaxCollectedErrors - 1
           r == PushStop(run)
<1>2. m \in 0..Len(run.errors) /\ m + 1 <= MaxCollectedErrors
  BY <1>1, CheckAssumption
<1>3. r.errors = Append(SubSeq(run.errors, 1, m), run.stop) /\ r.depth = run.depth /\ r.stop = run.stop
  BY DEF PushStop, Runs
<1> HIDE DEF m
<1>4. r \in Runs
  BY PushStopTyped
<1> HIDE DEF r
<1>5. Len(r.errors) = m + 1 /\ r.errors[m + 1] = r.stop /\ m + 1 \in DOMAIN r.errors
  BY <1>1, <1>2, <1>3
<1>6. r \in Ok(run.depth) /\ Stopped(r)
  BY <1>2, <1>3, <1>4, <1>5 DEF Ok, Stopped
<1> QED
  BY <1>6 DEF r

(* One thing looked at after another.                                           *)
LEMMA VerdictThen ==
  ASSUME NEW run \in Runs, NEW r, NEW q, NEW first \in BOOLEAN, NEW then \in BOOLEAN,
         Verdict(run, r, first), ~Stopped(r), Verdict(r, q, then)
  PROVE  Verdict(run, q, first /\ then)
<1>1. r.depth = run.depth
  BY DEF Verdict, Ok
<1> QED
  BY <1>1 DEF Verdict

LEMMA VerdictStopped ==
  ASSUME NEW run \in Runs, NEW r, NEW first \in BOOLEAN, NEW then \in BOOLEAN,
         Verdict(run, r, first), Stopped(r)
  PROVE  Verdict(run, r, then)
BY DEF Verdict

LEMMA VerdictSame ==
  ASSUME NEW depth, NEW run \in Going(depth)
  PROVE  Verdict(run, run, TRUE) /\ run.depth = depth /\ run \in Runs
BY DEF Verdict, Going, Ok

LEMMA GoesOn ==
  ASSUME NEW depth, NEW run \in Going(depth), NEW r, NEW holds, Verdict(run, r, holds)
  PROVE  r \in Ok(depth) /\ r \in Runs /\ (~Stopped(r) => r \in Going(depth))
BY DEF Verdict, Going, Ok

(* Loops over runs. *)
IsList(s) == Len(s) \in Nat /\ DOMAIN s = 1..Len(s)

LEMMA StepsOfLoop ==
  ASSUME NEW steps, IsList(steps)
  PROVE  LET wrapped == [k \in DOMAIN steps |-> [r \in Runs |-> IF Stopped(r) THEN r ELSE steps[k][r]]]
         IN  /\ Len(wrapped) = Len(steps)
             /\ \A k \in 1..Len(steps) : \A r \in Runs :
                  wrapped[k][r] = IF Stopped(r) THEN r ELSE steps[k][r]
<1> DEFINE wrapped == [k \in DOMAIN steps |-> [r \in Runs |-> IF Stopped(r) THEN r ELSE steps[k][r]]]
<1>1. DOMAIN wrapped = 1..Len(steps) /\ Len(steps) \in Nat
  BY DEF IsList
<1>2. Len(wrapped) = Len(steps)
  <2> HIDE DEF wrapped
  <2> QED
    BY <1>1
<1> QED
  BY <1>1, <1>2

LEMMA LoopTyped ==
  ASSUME NEW steps, IsList(steps), NEW run \in Runs,
         \A k \in 1..Len(steps) : \A r \in Runs : steps[k][r] \in Runs
  PROVE  UntilStopped(steps, run) \in Runs
<1> DEFINE wrapped == [k \in DOMAIN steps |-> [r \in Runs |-> IF Stopped(r) THEN r ELSE steps[k][r]]]
           P == [k \in 0..Len(steps) |-> Runs]
<1>1. Len(wrapped) = Len(steps) /\ \A k \in 1..Len(steps) : \A r \in Runs : wrapped[k][r] \in Runs
  BY StepsOfLoop
<1>2. UntilStopped(steps, run) = Through(wrapped, run)
  BY DEF UntilStopped
<1>3. Len(steps) \in Nat
  BY DEF IsList
<1>4. run \in P[0] /\ \A k \in 1..Len(steps) : P[k] = Runs
  BY <1>3
<1> HIDE DEF wrapped, P
<1> QED
  BY <1>1, <1>2, <1>3, <1>4, ThroughKeeps

(* What a loop over runs says is what its steps say together.                   *)
LEMMA LoopVerdict ==
  ASSUME NEW depth, NEW steps, IsList(steps), NEW run \in Going(depth),
         NEW holds \in [1..Len(steps) -> BOOLEAN],
         NEW all \in BOOLEAN, all <=> \A k \in 1..Len(steps) : holds[k],
         \A k \in 1..Len(steps) : \A r \in Runs : steps[k][r] \in Runs,
         \A k \in 1..Len(steps) : \A r \in Going(depth) : Verdict(r, steps[k][r], holds[k])
  PROVE  Verdict(run, UntilStopped(steps, run), all)
<1> DEFINE wrapped == [k \in DOMAIN steps |-> [r \in Runs |-> IF Stopped(r) THEN r ELSE steps[k][r]]]
           before(k) == \A j \in 1..k : holds[j]
           P == [k \in 0..Len(steps) |-> {r \in Runs : Verdict(run, r, before(k))}]
<1>1. /\ Len(wrapped) = Len(steps)
      /\ \A k \in 1..Len(steps) : \A r \in Runs : wrapped[k][r] = IF Stopped(r) THEN r ELSE steps[k][r]
  BY StepsOfLoop
<1>2. UntilStopped(steps, run) = Through(wrapped, run)
  BY DEF UntilStopped
<1>3. Len(steps) \in Nat
  BY DEF IsList
<1>4. run \in Runs /\ run.depth = depth
  BY VerdictSame
<1> HIDE DEF wrapped
<1>5. run \in P[0]
  <2>1. before(0) = TRUE
    OBVIOUS
  <2> HIDE DEF before
  <2>2. Verdict(run, run, before(0))
    BY <2>1, VerdictSame DEF Verdict
  <2> QED
    BY <1>3, <1>4, <2>2
<1>6. ASSUME NEW k \in 1..Len(steps), NEW r \in Runs, r \in P[k - 1] PROVE wrapped[k][r] \in P[k]
  <2>1. k - 1 \in 0..Len(steps) /\ k \in 0..Len(steps)
    BY <1>3
  <2>2. /\ before(k) \in BOOLEAN /\ before(k - 1) \in BOOLEAN /\ holds[k] \in BOOLEAN
        /\ before(k) = (before(k - 1) /\ holds[k])
    <3>1. \A j \in 1..k : j \in 1..k - 1 \/ j = k
      BY <1>3
    <3>2. \A j \in 1..k - 1 : j \in 1..k
      BY <1>3
    <3>3. k \in 1..k /\ holds[k] \in BOOLEAN
      BY <1>3
    <3>4. before(k) <=> (before(k - 1) /\ holds[k])
      BY <3>1, <3>2, <3>3
    <3> QED
      BY <3>3, <3>4
  <2> HIDE DEF before
  <2>3. Verdict(run, r, before(k - 1))
    BY <2>1, <1>6
  <2>4. CASE Stopped(r)
    <3>1. wrapped[k][r] = r
      BY <1>1, <2>4
    <3>2. Verdict(run, r, before(k))
      BY <2>2, <2>3, <2>4, <1>4, VerdictStopped
    <3> QED
      BY <2>1, <3>1, <3>2
  <2>5. CASE ~Stopped(r)
    <3>1. wrapped[k][r] = steps[k][r] /\ wrapped[k][r] \in Runs
      BY <1>1, <2>5
    <3>2. r \in Going(depth)
      BY <2>3, <2>5, GoesOn
    <3>3. Verdict(r, steps[k][r], holds[k])
      BY <3>2
    <3>4. Verdict(run, steps[k][r], before(k - 1) /\ holds[k])
      BY <2>2, <2>3, <2>5, <3>3, <1>4, VerdictThen
    <3> QED
      BY <2>1, <2>2, <3>1, <3>4
  <2> QED
    BY <2>4, <2>5
<1>7. \A k \in 1..Len(steps) : \A r \in Runs : wrapped[k][r] \in Runs
  BY <1>1
<1>8. Through(wrapped, run) \in P[Len(steps)]
  <2> HIDE DEF P
  <2>1. Len(wrapped) = Len(steps) /\ Len(wrapped) \in Nat
    BY <1>1, <1>3
  <2>2. /\ \A k \in 1..Len(wrapped) : \A r \in Runs : wrapped[k][r] \in Runs
        /\ \A k \in 1..Len(wrapped) : \A r \in Runs : r \in P[k - 1] => wrapped[k][r] \in P[k]
    BY <1>6, <1>7, <2>1
  <2>3. Through(wrapped, run) \in P[Len(wrapped)]
    BY <1>4, <1>5, <2>1, <2>2, ThroughKeeps
  <2> QED
    BY <2>1, <2>3
<1>9. Len(steps) \in 0..Len(steps)
  BY <1>3
<1>10. before(Len(steps)) <=> all
  OBVIOUS
<1> HIDE DEF before
<1>11. Verdict(run, UntilStopped(steps, run), before(Len(steps)))
  BY <1>2, <1>8, <1>9
<1> QED
  BY <1>10, <1>11 DEF Verdict

LEMMA ListOf ==
  ASSUME NEW s, IsList(s), NEW t, DOMAIN t = DOMAIN s
  PROVE  IsList(t) /\ Len(t) = Len(s)
BY DEF IsList

-----------------------------------------------------------------------------
(* Documents and instances. *)

LEMMA KeywordsOf ==
  ASSUME NEW d, IsDocument(d), NEW n \in Nodes
  PROVE  /\ IsList(d[n].keywords)
         /\ d[n].kind # "object" => d[n].keywords = << >>
         /\ \A k \in DOMAIN d[n].keywords :
              /\ d[n].keywords[k].name \in SubschemaKeywords => d[n].keywords[k].to \in Nodes
              /\ d[n].keywords[k].name = "$ref" => d[n].keywords[k].to \in Nodes \cup {Unresolved}
<1> DEFINE K == [name : SubschemaKeywords \cup {"$ref", "assert", "unusable"},
                 to : Nodes \cup {Unresolved}, accepts : SUBSET STRING]
<1>1. d[n].keywords \in Seq(K) /\ (d[n].kind # "object" => d[n].keywords = << >>)
  BY DEF IsDocument
<1>2. IsList(d[n].keywords) /\ \A k \in DOMAIN d[n].keywords : d[n].keywords[k] \in K
  <2> HIDE DEF K
  <2> QED
    BY <1>1 DEF IsList
<1>3. \A k \in DOMAIN d[n].keywords : d[n].keywords[k].name \in SubschemaKeywords =>
        d[n].keywords[k].to \in Nodes
  BY DEF IsDocument
<1> QED
  BY <1>1, <1>2, <1>3

LEMMA SubschemaOf ==
  ASSUME NEW d, IsDocument(d), NEW n \in Nodes, NEW name, Has(d, n, name)
  PROVE  /\ name \in SubschemaKeywords => Subschema(d, n, name) \in Nodes
         /\ name = "$ref" => Subschema(d, n, name) \in Nodes \cup {Unresolved}
<1> DEFINE k == CHOOSE k \in Positions(d, n, name) : TRUE
<1>1. k \in Positions(d, n, name)
  BY DEF Has
<1>2. Subschema(d, n, name) = d[n].keywords[k].to
  BY DEF Subschema
<1> HIDE DEF k
<1>3. k \in DOMAIN d[n].keywords /\ d[n].keywords[k].name = name
  BY <1>1 DEF Positions
<1> QED
  BY <1>2, <1>3, KeywordsOf

LEMMA PartsOf ==
  ASSUME NEW i \in Instances
  PROVE  IsList(i.parts) /\ \A k \in DOMAIN i.parts : i.parts[k].value \in Instances
<1> DEFINE Parts == [name : {"p", "q", "item"}, value : Instances]
<1>1. i.parts \in Seq(Parts)
  BY InstancesAssumption
<1>2. IsList(i.parts) /\ \A k \in DOMAIN i.parts : i.parts[k] \in Parts
  <2> HIDE DEF Parts
  <2> QED
    BY <1>1 DEF IsList
<1> QED
  BY <1>2

-----------------------------------------------------------------------------
(* One keyword, given what is said one level down.                              *)

Maps(below) == \A n \in Nodes : \A i \in Instances : \A r \in Runs : below[n][i][r] \in Runs

(* At this depth `below` says of a node and an instance what `valid` does.       *)
Answers(below, valid, depth) ==
  \A n \in Nodes : \A i \in Instances :
    /\ valid[n][i] \in BOOLEAN
    /\ \A r \in Going(depth) : Verdict(r, below[n][i][r], valid[n][i])

LEMMA EachTyped ==
  ASSUME NEW d, IsDocument(d), NEW below, Maps(below), NEW name \in SubschemaKeywords,
         NEW n \in Nodes, NEW i \in Instances, NEW run \in Runs
  PROVE  CheckEach(d, below, name, n, i, run) \in Runs
<1> DEFINE steps == [k \in DOMAIN d[n].keywords |-> [r \in Runs |->
                       IF k \in Positions(d, n, name) THEN below[d[n].keywords[k].to][i][r] ELSE r]]
<1>1. IsList(steps) /\ Len(steps) = Len(d[n].keywords) /\ IsList(d[n].keywords)
  BY KeywordsOf, ListOf
<1>2. ASSUME NEW k \in 1..Len(steps), NEW r \in Runs PROVE steps[k][r] \in Runs
  <2>1. k \in DOMAIN d[n].keywords
    BY <1>1 DEF IsList
  <2>2. k \in Positions(d, n, name) => d[n].keywords[k].to \in Nodes
    BY <2>1, KeywordsOf DEF Positions
  <2> QED
    BY <2>1, <2>2 DEF Maps
<1>3. CheckEach(d, below, name, n, i, run) = UntilStopped(steps, run)
  BY DEF CheckEach
<1> HIDE DEF steps
<1> QED
  BY <1>1, <1>2, <1>3, LoopTyped

LEMMA EachVerdict ==
  ASSUME NEW d, IsDocument(d), NEW below, Maps(below), NEW name \in SubschemaKeywords,
         NEW n \in Nodes, NEW i \in Instances, NEW valid, NEW depth, Answers(below, valid, depth),
         NEW run \in Going(depth)
  PROVE  Verdict(run, CheckEach(d, below, name, n, i, run),
                 \A k \in Positions(d, n, name) : valid[d[n].keywords[k].to][i])
<1> DEFINE steps == [k \in DOMAIN d[n].keywords |-> [r \in Runs |->
                       IF k \in Positions(d, n, name) THEN below[d[n].keywords[k].to][i][r] ELSE r]]
           all == \A k \in Positions(d, n, name) : valid[d[n].keywords[k].to][i]
           holds == [k \in 1..Len(steps) |->
                       IF k \in Positions(d, n, name) THEN valid[d[n].keywords[k].to][i] ELSE TRUE]
<1>1. IsList(steps) /\ Len(steps) = Len(d[n].keywords) /\ IsList(d[n].keywords)
  BY KeywordsOf, ListOf
<1>2. \A k \in 1..Len(steps) : k \in DOMAIN d[n].keywords
        /\ (k \in Positions(d, n, name) => d[n].keywords[k].to \in Nodes)
  BY <1>1, KeywordsOf DEF IsList, Positions
<1>3. \A k \in 1..Len(steps) : \A r \in Runs : steps[k][r] \in Runs
  BY <1>2 DEF Maps
<1>4. holds \in [1..Len(steps) -> BOOLEAN]
  BY <1>2 DEF Answers
<1>5. ASSUME NEW k \in 1..Len(steps), NEW r \in Going(depth) PROVE Verdict(r, steps[k][r], holds[k])
  <2>1. r \in Runs
    BY VerdictSame
  <2>2. CASE k \in Positions(d, n, name)
    <3>1. steps[k][r] = below[d[n].keywords[k].to][i][r] /\ holds[k] = valid[d[n].keywords[k].to][i]
      BY <1>2, <2>1, <2>2
    <3> QED
      BY <1>2, <2>2, <3>1 DEF Answers
  <2>3. CASE k \notin Positions(d, n, name)
    <3>1. steps[k][r] = r /\ holds[k] = TRUE
      BY <1>2, <2>1, <2>3
    <3>2. Verdict(r, r, TRUE)
      BY VerdictSame
    <3> HIDE DEF steps, holds
    <3> QED
      BY <3>1, <3>2, Zenon
  <2> QED
    BY <2>2, <2>3
<1>6. CheckEach(d, below, name, n, i, run) = UntilStopped(steps, run)
  BY DEF CheckEach
<1>7. (\A k \in 1..Len(steps) : holds[k]) <=> all
  <2>1. \A k \in Positions(d, n, name) : k \in 1..Len(steps)
    BY <1>1 DEF Positions, IsList
  <2> QED
    BY <2>1
<1>8. all \in BOOLEAN
  OBVIOUS
<1> HIDE DEF steps, holds, all
<1>9. Verdict(run, CheckEach(d, below, name, n, i, run), all)
  BY <1>1, <1>3, <1>4, <1>5, <1>6, <1>7, <1>8, LoopVerdict
<1> QED
  BY <1>9 DEF all

LEMMA PartsTyped ==
  ASSUME NEW below, Maps(below), NEW n \in Nodes, NEW i \in Instances, NEW names, NEW run \in Runs
  PROVE  CheckParts(below, n, i, names, run) \in Runs
<1> DEFINE steps == [k \in DOMAIN i.parts |-> [r \in Runs |->
                       IF i.parts[k].name \in names THEN below[n][i.parts[k].value][r] ELSE r]]
<1>1. IsList(steps) /\ Len(steps) = Len(i.parts) /\ IsList(i.parts)
  BY PartsOf, ListOf
<1>2. ASSUME NEW k \in 1..Len(steps), NEW r \in Runs PROVE steps[k][r] \in Runs
  <2>1. k \in DOMAIN i.parts /\ i.parts[k].value \in Instances
    BY <1>1, PartsOf DEF IsList
  <2> QED
    BY <2>1 DEF Maps
<1>3. CheckParts(below, n, i, names, run) = UntilStopped(steps, run)
  BY DEF CheckParts
<1> HIDE DEF steps
<1> QED
  BY <1>1, <1>2, <1>3, LoopTyped

LEMMA PartsVerdict ==
  ASSUME NEW below, Maps(below), NEW n \in Nodes, NEW i \in Instances, NEW names,
         NEW valid, NEW depth, Answers(below, valid, depth), NEW run \in Going(depth)
  PROVE  Verdict(run, CheckParts(below, n, i, names, run),
                 \A k \in DOMAIN i.parts : i.parts[k].name \in names => valid[n][i.parts[k].value])
<1> DEFINE steps == [k \in DOMAIN i.parts |-> [r \in Runs |->
                       IF i.parts[k].name \in names THEN below[n][i.parts[k].value][r] ELSE r]]
           all == \A k \in DOMAIN i.parts : i.parts[k].name \in names => valid[n][i.parts[k].value]
           holds == [k \in 1..Len(steps) |->
                       IF i.parts[k].name \in names THEN valid[n][i.parts[k].value] ELSE TRUE]
<1>1. IsList(steps) /\ Len(steps) = Len(i.parts) /\ IsList(i.parts)
  BY PartsOf, ListOf
<1>2. \A k \in 1..Len(steps) : k \in DOMAIN i.parts /\ i.parts[k].value \in Instances
  BY <1>1, PartsOf DEF IsList
<1>3. \A k \in 1..Len(steps) : \A r \in Runs : steps[k][r] \in Runs
  BY <1>2 DEF Maps
<1>4. holds \in [1..Len(steps) -> BOOLEAN]
  BY <1>2 DEF Answers
<1>5. ASSUME NEW k \in 1..Len(steps), NEW r \in Going(depth) PROVE Verdict(r, steps[k][r], holds[k])
  <2>1. r \in Runs
    BY VerdictSame
  <2>2. CASE i.parts[k].name \in names
    <3>1. steps[k][r] = below[n][i.parts[k].value][r] /\ holds[k] = valid[n][i.parts[k].value]
      BY <1>2, <2>1, <2>2
    <3> QED
      BY <1>2, <3>1 DEF Answers
  <2>3. CASE i.parts[k].name \notin names
    <3>1. steps[k][r] = r /\ holds[k] = TRUE
      BY <1>2, <2>1, <2>3
    <3>2. Verdict(r, r, TRUE)
      BY VerdictSame
    <3> HIDE DEF steps, holds
    <3> QED
      BY <3>1, <3>2, Zenon
  <2> QED
    BY <2>2, <2>3
<1>6. CheckParts(below, n, i, names, run) = UntilStopped(steps, run)
  BY DEF CheckParts
<1>7. (\A k \in 1..Len(steps) : holds[k]) <=> all
  <2>1. \A k \in DOMAIN i.parts : k \in 1..Len(steps)
    BY <1>1 DEF IsList
  <2> QED
    BY <1>2, <2>1
<1>8. all \in BOOLEAN
  OBVIOUS
<1> HIDE DEF steps, holds, all
<1>9. Verdict(run, CheckParts(below, n, i, names, run), all)
  BY <1>1, <1>3, <1>4, <1>5, <1>6, <1>7, <1>8, LoopVerdict
<1> QED
  BY <1>9 DEF all

LEMMA OwnSink ==
  ASSUME NEW run \in Runs
  PROVE  LET own == [run EXCEPT !.errors = << >>]
         IN  own \in Runs /\ own.depth = run.depth /\ own.stop = run.stop /\ own.errors = << >>
<1>1. << >> \in Seq(Failures \cup Stops)
  OBVIOUS
<1> QED
  BY <1>1 DEF Runs

(* A probe has a sink of its own: it says what its node does, and `run` keeps     *)
(* its errors unless it was stopped.                                              *)
LEMMA BranchTyped ==
  ASSUME NEW below, Maps(below), NEW n \in Nodes, NEW i \in Instances, NEW run \in Runs
  PROVE  Branch(below, n, i, run).run \in Runs
<1> DEFINE own == [run EXCEPT !.errors = << >>]
           r == below[n][i][own]
           after == [r EXCEPT !.errors = run.errors]
<1>1. own \in Runs
  BY OwnSink
<1> HIDE DEF own
<1>2. r \in Runs
  BY <1>1 DEF Maps
<1> HIDE DEF r
<1>3. after \in Runs /\ (Stopped(r) => Stopped(after))
  BY <1>2 DEF Runs, Stopped
<1> HIDE DEF after
<1>4. (IF Stopped(r) THEN PushStop(after) ELSE after) \in Runs
  BY <1>3, PushStopTyped
<1>5. Branch(below, n, i, run).run = IF Stopped(r) THEN PushStop(after) ELSE after
  BY DEF Branch, after, r, own
<1> QED
  BY <1>4, <1>5

LEMMA BranchVerdict ==
  ASSUME NEW below, Maps(below), NEW n \in Nodes, NEW i \in Instances,
         NEW valid, NEW depth, Answers(below, valid, depth), NEW run \in Going(depth)
  PROVE  LET b == Branch(below, n, i, run)
         IN  /\ Verdict(run, b.run, TRUE)
             /\ b.passes \in BOOLEAN
             /\ ~Stopped(b.run) => (b.passes <=> valid[n][i])
<1> DEFINE own == [run EXCEPT !.errors = << >>]
           r == below[n][i][own]
           after == [r EXCEPT !.errors = run.errors]
           b == Branch(below, n, i, run)
<1>1. run \in Runs /\ run.depth = depth /\ ~Stopped(run) /\ Len(run.errors) <= MaxCollectedErrors
  BY DEF Going, Ok
<1>2. own \in Runs /\ own.depth = depth /\ ~Stopped(own) /\ own.errors = << >>
  BY <1>1, OwnSink DEF Stopped
<1> HIDE DEF own
<1>3. own \in Going(depth)
  BY <1>2, CheckAssumption DEF Going, Ok
<1>4. Verdict(own, r, valid[n][i])
  BY <1>3 DEF Answers
<1>5. r \in Runs /\ r.depth = depth /\ (~Stopped(r) => ((r.errors = << >>) <=> valid[n][i]))
  BY <1>2, <1>4 DEF Verdict, Ok
<1>6. b.passes = (r.errors = << >>) /\ b.run = IF Stopped(r) THEN PushStop(after) ELSE after
  BY DEF Branch, own
<1> HIDE DEF r, b
<1>7. after \in Runs /\ after.depth = depth /\ after.stop = r.stop /\ after.errors = run.errors
  BY <1>1, <1>5 DEF Runs
<1> HIDE DEF after
<1>8. CASE Stopped(r)
  <2>1. Stopped(after)
    BY <1>7, <1>8 DEF Stopped
  <2>2. b.run \in Ok(depth) /\ Stopped(b.run)
    BY <1>6, <1>7, <1>8, <2>1, PushStopOk
  <2> QED
    BY <1>1, <1>6, <2>2 DEF Verdict, b
<1>9. CASE ~Stopped(r)
  <2>1. ~Stopped(after) /\ b.run = after
    BY <1>6, <1>7, <1>9 DEF Stopped
  <2>2. after \in Ok(depth)
    BY <1>1, <1>7, <2>1 DEF Ok
  <2>3. Verdict(run, b.run, TRUE)
    BY <1>1, <1>7, <2>1, <2>2 DEF Verdict
  <2> QED
    BY <1>5, <1>6, <1>9, <2>3 DEF b
<1> QED
  BY <1>8, <1>9

Tallies == [run : Runs, count : Nat]

(* What one step of counting makes of a tally.                                  *)
Keeps(d, name, n, enough, k, s) == Stopped(s.run) \/ s.count = enough \/ k \notin Positions(d, n, name)
Counted(d, below, n, i, k, s) ==
  LET b == Branch(below, d[n].keywords[k].to, i, s.run)
  IN  [run |-> b.run, count |-> s.count + IF b.passes THEN 1 ELSE 0]
Counting(steps, d, below, name, n, i, enough) ==
  /\ Len(steps) = Len(d[n].keywords) /\ Len(steps) \in Nat
  /\ \A run : Passing(d, below, name, n, i, run, enough) = Through(steps, [run |-> run, count |-> 0])
  /\ \A k \in 1..Len(steps) : \A s \in Tallies :
       /\ steps[k][s] \in Tallies
       /\ Keeps(d, name, n, enough, k, s) => steps[k][s] = s
       /\ ~Keeps(d, name, n, enough, k, s) => steps[k][s] = Counted(d, below, n, i, k, s)

LEMMA PassingSteps ==
  ASSUME NEW d, IsDocument(d), NEW below, Maps(below), NEW name \in SubschemaKeywords,
         NEW n \in Nodes, NEW i \in Instances, NEW enough \in Nat
  PROVE  \E steps : Counting(steps, d, below, name, n, i, enough)
<1> DEFINE next(k, s) == Counted(d, below, n, i, k, s)
           same(k, s) == Keeps(d, name, n, enough, k, s)
           steps == [k \in DOMAIN d[n].keywords |-> [s \in Tallies |-> IF same(k, s) THEN s ELSE next(k, s)]]
<1>1. IsList(steps) /\ Len(steps) = Len(d[n].keywords) /\ DOMAIN d[n].keywords = 1..Len(steps)
  BY KeywordsOf, ListOf DEF IsList
<1>2. \A run : Passing(d, below, name, n, i, run, enough) = Through(steps, [run |-> run, count |-> 0])
  BY DEF Passing, Tallies, Keeps, Counted
<1>3. \A k \in 1..Len(steps) : \A s \in Tallies : steps[k][s] = IF same(k, s) THEN s ELSE next(k, s)
  BY <1>1
<1> HIDE DEF steps
<1>4. ASSUME NEW k \in 1..Len(steps), NEW s \in Tallies, ~same(k, s) PROVE next(k, s) \in Tallies
  <2>1. d[n].keywords[k].to \in Nodes
    BY <1>1, <1>4, KeywordsOf DEF Positions, Keeps
  <2>2. s.run \in Runs /\ s.count \in Nat
    BY DEF Tallies
  <2>3. Branch(below, d[n].keywords[k].to, i, s.run).run \in Runs
    BY <2>1, <2>2, BranchTyped
  <2> QED
    BY <2>2, <2>3 DEF Tallies, Counted
<1>5. \A k \in 1..Len(steps) : \A s \in Tallies :
        /\ steps[k][s] \in Tallies
        /\ same(k, s) => steps[k][s] = s
        /\ ~same(k, s) => steps[k][s] = next(k, s)
  BY <1>3, <1>4
<1>6. Len(steps) \in Nat
  BY <1>1 DEF IsList
<1>7. Counting(steps, d, below, name, n, i, enough)
  BY <1>1, <1>2, <1>5, <1>6 DEF Counting
<1> QED
  BY <1>7

LEMMA PassingTyped ==
  ASSUME NEW d, IsDocument(d), NEW below, Maps(below), NEW name \in SubschemaKeywords,
         NEW n \in Nodes, NEW i \in Instances, NEW enough \in Nat, NEW run \in Runs
  PROVE  Passing(d, below, name, n, i, run, enough) \in Tallies
<1>0. PICK steps : Counting(steps, d, below, name, n, i, enough)
  BY PassingSteps
<1>1. /\ Len(steps) \in Nat
      /\ Passing(d, below, name, n, i, run, enough) = Through(steps, [run |-> run, count |-> 0])
      /\ \A k \in 1..Len(steps) : \A s \in Tallies : steps[k][s] \in Tallies
  BY <1>0 DEF Counting
<1> DEFINE P == [k \in 0..Len(steps) |-> Tallies]
<1>2. [run |-> run, count |-> 0] \in Tallies
  BY DEF Tallies
<1>3. P[0] = Tallies /\ \A k \in 1..Len(steps) : P[k] = Tallies
  BY <1>1
<1> HIDE DEF P
<1> QED
  BY <1>1, <1>2, <1>3, ThroughKeeps

(* The positions up to k whose subschemas hold                                   *)
Holding(d, name, n, i, valid, k) ==
  {j \in Positions(d, n, name) : j <= k /\ valid[d[n].keywords[j].to][i]}
IsSingle(S) == \E j \in S : \A m \in S : m = j

(* What a tally of the first k says of them                                      *)
TallyOf(run, s, S, k, enough, all) ==
  /\ Verdict(run, s.run, TRUE)
  /\ ~Stopped(s.run) =>
       /\ s.count <= k /\ s.count <= enough
       /\ s.count = 0 <=> S = {}
       /\ enough > all => (s.count = 1 <=> IsSingle(S))

LEMMA CountOne ==
  ASSUME NEW S, NEW j, j \notin S, NEW count \in Nat,
         count = 0 <=> S = {}, count = 1 <=> IsSingle(S)
  PROVE  count + 1 = 1 <=> IsSingle(S \cup {j})
<1>1. CASE count = 0
  BY <1>1 DEF IsSingle
<1>2. CASE count # 0
  <2>1. PICK m : m \in S /\ m # j
    BY <1>2
  <2>2. ~IsSingle(S \cup {j})
    BY <2>1 DEF IsSingle
  <2> QED
    BY <1>2, <2>2
<1> QED
  BY <1>1, <1>2

LEMMA PassingCounts ==
  ASSUME NEW d, IsDocument(d), NEW below, Maps(below), NEW name \in SubschemaKeywords,
         NEW n \in Nodes, NEW i \in Instances, NEW enough \in Nat \ {0},
         NEW valid, NEW depth, Answers(below, valid, depth), NEW run \in Going(depth)
  PROVE  LET s == Passing(d, below, name, n, i, run, enough)
             all == Len(d[n].keywords)
         IN  TallyOf(run, s, Holding(d, name, n, i, valid, all), all, enough, all)
<1> DEFINE all == Len(d[n].keywords)
           H(k) == Holding(d, name, n, i, valid, k)
           start == [run |-> run, count |-> 0]
<1>1. PICK steps : Counting(steps, d, below, name, n, i, enough)
  BY PassingSteps
<1>2. /\ Len(steps) = all /\ all \in Nat
      /\ Passing(d, below, name, n, i, run, enough) = Through(steps, start)
      /\ \A k \in 1..all : \A s \in Tallies : steps[k][s] \in Tallies
  BY <1>1 DEF Counting
<1>3. run \in Runs /\ run.depth = depth /\ ~Stopped(run)
  BY DEF Going, Ok
<1>4. start \in Tallies
  BY <1>3 DEF Tallies
<1>5. DOMAIN d[n].keywords = 1..all
  BY KeywordsOf DEF IsList
<1> DEFINE P == [k \in 0..all |-> {s \in Tallies : TallyOf(run, s, H(k), k, enough, all)}]
<1>6. start \in P[0]
  <2>1. H(0) = {}
    BY <1>5 DEF Holding, Positions
  <2>2. Verdict(run, start.run, TRUE)
    BY VerdictSame
  <2>3. ~IsSingle({})
    BY DEF IsSingle
  <2>4. start.count = 0 /\ start.count <= 0 /\ start.count <= enough
    OBVIOUS
  <2> HIDE DEF start, all
  <2>5. start.count = 1 <=> IsSingle({})
    BY <2>3, <2>4
  <2>6. TallyOf(run, start, H(0), 0, enough, all)
    <3> HIDE DEF H
    <3> QED
      BY <2>1, <2>2, <2>4, <2>5 DEF TallyOf
  <2> HIDE DEF H
  <2> QED
    BY <1>2, <1>4, <2>6
<1>7. ASSUME NEW k \in 1..all, NEW s \in Tallies, s \in P[k - 1] PROVE steps[k][s] \in P[k]
  <2>1. k \in Nat /\ k - 1 \in 0..all /\ k \in 0..all /\ k \in DOMAIN d[n].keywords
    BY <1>2, <1>5
  <2>2. TallyOf(run, s, H(k - 1), k - 1, enough, all)
    BY <1>7, <2>1
  <2>3. s.run \in Runs /\ s.count \in Nat
    BY DEF Tallies
  <2> DEFINE q == steps[k][s]
             yes == k \in Positions(d, n, name) /\ valid[d[n].keywords[k].to][i]
  <2>4. H(k) = IF yes THEN H(k - 1) \cup {k} ELSE H(k - 1)
    <3>1. \A j \in Positions(d, n, name) : j \in Nat
      BY <1>2, <1>5 DEF Positions
    <3>2. \A j \in Nat : j <= k <=> j <= k - 1 \/ j = k
      BY <2>1
    <3> QED
      BY <2>1, <3>1, <3>2 DEF Holding
  <2>5. k \notin H(k - 1)
    BY <2>1 DEF Holding
  <2>6. q \in Tallies
    BY <1>2
  <2> HIDE DEF H, yes
  <2>7. CASE Stopped(s.run)
    <3>1. q = s
      BY <1>1, <1>2, <2>7 DEF Counting, Keeps
    <3>2. TallyOf(run, s, H(k), k, enough, all)
      BY <2>2, <2>7 DEF TallyOf
    <3> QED
      BY <2>1, <2>6, <3>1, <3>2
  <2>8. CASE ~Stopped(s.run) /\ s.count = enough
    <3>1. q = s
      BY <1>1, <1>2, <2>8 DEF Counting, Keeps
    <3>2. ~(enough > all) /\ s.count <= k /\ H(k) # {} /\ s.count # 0
      <4>1. s.count <= k - 1 /\ (s.count = 0 <=> H(k - 1) = {})
        BY <2>2, <2>8 DEF TallyOf
      <4>2. s.count <= k /\ ~(enough > all)
        BY <1>2, <2>1, <2>3, <2>8, <4>1
      <4> QED
        BY <2>4, <2>8, <4>1, <4>2
    <3>3. TallyOf(run, s, H(k), k, enough, all)
      BY <2>2, <2>8, <3>2 DEF TallyOf
    <3> QED
      BY <2>1, <2>6, <3>1, <3>3
  <2>9. CASE ~Stopped(s.run) /\ s.count # enough /\ k \notin Positions(d, n, name)
    <3>1. q = s
      BY <1>1, <1>2, <2>9 DEF Counting, Keeps
    <3>2. H(k) = H(k - 1)
      BY <2>4, <2>9 DEF yes
    <3>3. s.count <= k - 1 => s.count <= k
      BY <2>1, <2>3
    <3>4. TallyOf(run, s, H(k), k, enough, all)
      BY <2>2, <3>2, <3>3 DEF TallyOf
    <3> QED
      BY <2>1, <2>6, <3>1, <3>4
  <2>10. CASE ~Stopped(s.run) /\ s.count # enough /\ k \in Positions(d, n, name)
    <3> DEFINE b == Branch(below, d[n].keywords[k].to, i, s.run)
    <3>1. q = Counted(d, below, n, i, k, s)
      BY <1>1, <1>2, <2>10 DEF Counting, Keeps
    <3>2. d[n].keywords[k].to \in Nodes
      BY <2>1, <2>10, KeywordsOf DEF Positions
    <3>3. s.run \in Going(depth) /\ Verdict(run, s.run, TRUE)
      BY <1>3, <2>2, <2>10, GoesOn DEF TallyOf
    <3>4. /\ Verdict(s.run, b.run, TRUE) /\ b.passes \in BOOLEAN
          /\ ~Stopped(b.run) => (b.passes <=> valid[d[n].keywords[k].to][i])
      BY <3>2, <3>3, BranchVerdict
    <3>5. q.run = b.run /\ q.count = s.count + IF b.passes THEN 1 ELSE 0
      BY <3>1 DEF Counted
    <3> HIDE DEF b, q
    <3>6. Verdict(run, b.run, TRUE)
      BY <2>10, <3>3, <3>4 DEF Verdict, Ok
    <3>7. ASSUME ~Stopped(b.run)
          PROVE  /\ q.count <= k /\ q.count <= enough
                 /\ q.count = 0 <=> H(k) = {}
                 /\ enough > all => (q.count = 1 <=> IsSingle(H(k)))
      <4>1. /\ s.count <= k - 1 /\ s.count <= enough /\ (s.count = 0 <=> H(k - 1) = {})
            /\ enough > all => (s.count = 1 <=> IsSingle(H(k - 1)))
        BY <2>2, <2>10 DEF TallyOf
      <4>2. b.passes <=> yes
        BY <2>10, <3>4, <3>7 DEF yes
      <4>3. CASE b.passes
        <5>1. q.count = s.count + 1 /\ H(k) = H(k - 1) \cup {k}
          BY <2>4, <3>5, <4>2, <4>3
        <5>2. q.count <= k /\ q.count <= enough /\ q.count # 0 /\ H(k) # {}
          BY <2>1, <2>3, <2>10, <4>1, <5>1
        <5>3. ASSUME enough > all PROVE q.count = 1 <=> IsSingle(H(k))
          <6> DEFINE S == H(k - 1)
          <6>1. k \notin S /\ (s.count = 0 <=> S = {}) /\ (s.count = 1 <=> IsSingle(S))
            BY <2>5, <4>1, <5>3
          <6> HIDE DEF S
          <6>2. s.count + 1 = 1 <=> IsSingle(S \cup {k})
            BY <2>3, <6>1, CountOne
          <6> QED
            BY <5>1, <6>2 DEF S
        <5> QED
          BY <5>2, <5>3
      <4>4. CASE ~b.passes
        <5>1. q.count = s.count /\ H(k) = H(k - 1)
          BY <2>3, <2>4, <3>5, <4>2, <4>4
        <5>2. q.count <= k
          BY <2>1, <2>3, <4>1, <5>1
        <5> QED
          BY <4>1, <5>1, <5>2
      <4> QED
        BY <3>4, <4>3, <4>4
    <3>8. TallyOf(run, q, H(k), k, enough, all)
      BY <3>5, <3>6, <3>7 DEF TallyOf
    <3> QED
      BY <2>1, <2>6, <3>8 DEF q
  <2> QED
    BY <2>7, <2>8, <2>9, <2>10
<1>8. Through(steps, start) \in P[all]
  <2> HIDE DEF P, start, all
  <2>1. \A k \in 1..Len(steps) : \A s \in Tallies : s \in P[k - 1] => steps[k][s] \in P[k]
    BY <1>2, <1>7
  <2>2. Through(steps, start) \in P[Len(steps)]
    BY <1>2, <1>4, <1>6, <2>1, ThroughKeeps
  <2> QED
    BY <1>2, <2>2
<1>9. all \in 0..all
  BY <1>2
<1>10. TallyOf(run, Through(steps, start), H(all), all, enough, all)
  <2> HIDE DEF H, start, all
  <2> QED
    BY <1>8, <1>9
<1> QED
  BY <1>2, <1>10

(* A loop that finds fault with some of a list.                                  *)
LEMMA FaultsTyped ==
  ASSUME NEW s, IsList(s), NEW C, NEW error \in Failures, NEW run \in Runs,
         NEW steps, DOMAIN steps = DOMAIN s,
         \A k \in DOMAIN s : \A r \in Runs : steps[k][r] = IF k \in C THEN Push(r, error) ELSE r
  PROVE  UntilStopped(steps, run) \in Runs
<1>1. IsList(steps) /\ 1..Len(steps) = DOMAIN s
  BY ListOf DEF IsList
<1>2. \A k \in 1..Len(steps) : \A r \in Runs : steps[k][r] \in Runs
  BY <1>1, PushTyped
<1> QED
  BY <1>1, <1>2, LoopTyped

LEMMA FaultsVerdict ==
  ASSUME NEW s, IsList(s), NEW C, NEW error \in Failures, NEW depth, NEW run \in Going(depth),
         NEW all \in BOOLEAN, all <=> \A k \in DOMAIN s : k \notin C,
         NEW steps, DOMAIN steps = DOMAIN s,
         \A k \in DOMAIN s : \A r \in Runs : steps[k][r] = IF k \in C THEN Push(r, error) ELSE r
  PROVE  Verdict(run, UntilStopped(steps, run), all)
<1> DEFINE holds == [k \in 1..Len(steps) |-> k \notin C]
<1>1. IsList(steps) /\ 1..Len(steps) = DOMAIN s
  BY ListOf DEF IsList
<1>2. \A k \in 1..Len(steps) : \A r \in Runs : steps[k][r] \in Runs
  BY <1>1, PushTyped
<1>3. holds \in [1..Len(steps) -> BOOLEAN]
  OBVIOUS
<1>4. ASSUME NEW k \in 1..Len(steps), NEW r \in Going(depth) PROVE Verdict(r, steps[k][r], holds[k])
  <2>1. r \in Runs
    BY VerdictSame
  <2>2. CASE k \in C
    <3>1. steps[k][r] = Push(r, error) /\ ~holds[k]
      BY <1>1, <2>1, <2>2
    <3>2. Verdict(r, Push(r, error), FALSE)
      BY PushVerdict
    <3> QED
      BY <3>1, <3>2 DEF Verdict
  <2>3. CASE k \notin C
    <3>1. steps[k][r] = r /\ holds[k] = TRUE
      BY <1>1, <2>1, <2>3
    <3>2. Verdict(r, r, TRUE)
      BY VerdictSame
    <3> HIDE DEF holds
    <3> QED
      BY <3>1, <3>2, Zenon
  <2> QED
    BY <2>2, <2>3
<1>5. all <=> \A k \in 1..Len(steps) : holds[k]
  BY <1>1
<1> HIDE DEF holds
<1> QED
  BY <1>1, <1>2, <1>3, <1>4, <1>5, LoopVerdict

LEMMA ReferenceChecks ==
  ASSUME NEW d, IsDocument(d), NEW below, Maps(below), NEW n \in Nodes, NEW i \in Instances,
         NEW run \in Runs, Has(d, n, "$ref")
  PROVE  /\ CheckReference(d, below, n, i, run) \in Runs
         /\ \A valid, depth : Answers(below, valid, depth) /\ run \in Going(depth) =>
              Verdict(run, CheckReference(d, below, n, i, run),
                      Subschema(d, n, "$ref") # Unresolved /\ valid[Subschema(d, n, "$ref")][i])
<1> DEFINE target == Subschema(d, n, "$ref")
<1>1. target \in Nodes \cup {Unresolved}
  BY SubschemaOf
<1> HIDE DEF target
<1>2. CheckReference(d, below, n, i, run) =
        IF target = Unresolved THEN Push(run, "$ref") ELSE below[target][i][run]
  BY DEF CheckReference, target
<1>3. "$ref" \in Failures
  BY DEF Failures
<1>4. CheckReference(d, below, n, i, run) \in Runs
  BY <1>1, <1>2, <1>3, PushTyped DEF Maps
<1>5. ASSUME NEW valid, NEW depth, Answers(below, valid, depth), run \in Going(depth)
      PROVE  Verdict(run, CheckReference(d, below, n, i, run), target # Unresolved /\ valid[target][i])
  <2>1. CASE target = Unresolved
    <3>1. Verdict(run, Push(run, "$ref"), FALSE)
      BY <1>3, <1>5, PushVerdict
    <3> QED
      BY <1>2, <2>1, <3>1 DEF Verdict
  <2>2. CASE target # Unresolved
    <3>1. target \in Nodes
      BY <1>1, <2>2
    <3>2. Verdict(run, below[target][i][run], valid[target][i])
      BY <1>5, <3>1 DEF Answers
    <3> QED
      BY <1>2, <2>2, <3>2 DEF Verdict
  <2> QED
    BY <2>1, <2>2
<1> QED
  BY <1>4, <1>5 DEF target

LEMMA AssertionChecks ==
  ASSUME NEW d, IsDocument(d), NEW n \in Nodes, NEW i \in Instances, NEW run \in Runs
  PROVE  /\ CheckAssertions(d, n, i, run) \in Runs
         /\ \A depth : run \in Going(depth) =>
              Verdict(run, CheckAssertions(d, n, i, run),
                      \A k \in Positions(d, n, "assert") : i.label \in d[n].keywords[k].accepts)
<1> DEFINE C == {k \in Positions(d, n, "assert") : i.label \notin d[n].keywords[k].accepts}
           steps == [k \in DOMAIN d[n].keywords |-> [r \in Runs |->
                       IF k \in Positions(d, n, "assert") /\ i.label \notin d[n].keywords[k].accepts
                       THEN Push(r, "assert") ELSE r]]
<1>1. IsList(d[n].keywords) /\ "assert" \in Failures
  BY KeywordsOf DEF Failures
<1>2. CheckAssertions(d, n, i, run) = UntilStopped(steps, run)
  BY DEF CheckAssertions
<1>3. /\ DOMAIN steps = DOMAIN d[n].keywords
      /\ \A k \in DOMAIN d[n].keywords : \A r \in Runs :
           steps[k][r] = IF k \in C THEN Push(r, "assert") ELSE r
  OBVIOUS
<1>4. (\A k \in DOMAIN d[n].keywords : k \notin C) <=>
        \A k \in Positions(d, n, "assert") : i.label \in d[n].keywords[k].accepts
  BY DEF Positions
<1> HIDE DEF steps, C
<1>5. UntilStopped(steps, run) \in Runs
  BY <1>1, <1>3, FaultsTyped
<1>6. ASSUME NEW depth, run \in Going(depth)
      PROVE  Verdict(run, CheckAssertions(d, n, i, run),
                     \A k \in Positions(d, n, "assert") : i.label \in d[n].keywords[k].accepts)
  <2> DEFINE all == \A k \in Positions(d, n, "assert") : i.label \in d[n].keywords[k].accepts
  <2>1. all \in BOOLEAN /\ (all <=> \A k \in DOMAIN d[n].keywords : k \notin C)
    BY <1>4
  <2> HIDE DEF all
  <2>2. Verdict(run, UntilStopped(steps, run), all)
    BY <1>1, <1>3, <1>6, <2>1, FaultsVerdict
  <2> QED
    BY <1>2, <2>2 DEF all
<1> QED
  BY <1>2, <1>5, <1>6

(* What is pushed if it is not so. *)
LEMMA PushUnless ==
  ASSUME NEW depth, NEW run \in Going(depth), NEW r, Verdict(run, r, TRUE), NEW error \in Failures,
         NEW holds \in BOOLEAN, NEW q, Stopped(r) => q = r,
         ~Stopped(r) => q = IF holds THEN r ELSE Push(r, error)
  PROVE  Verdict(run, q, holds)
<1>1. CASE Stopped(r)
  <2>1. Verdict(run, r, holds)
    BY <1>1 DEF Verdict
  <2> QED
    BY <1>1, <2>1
<1>2. CASE ~Stopped(r) /\ holds
  BY <1>2 DEF Verdict
<1>3. CASE ~Stopped(r) /\ ~holds
  <2>1. r \in Going(depth) /\ run \in Runs
    BY <1>3, GoesOn, VerdictSame
  <2>2. Verdict(r, Push(r, error), FALSE)
    BY <2>1, PushVerdict
  <2>3. r.depth = run.depth /\ q = Push(r, error)
    BY <1>3 DEF Verdict, Ok
  <2> QED
    BY <1>3, <2>2, <2>3 DEF Verdict
<1> QED
  BY <1>1, <1>2, <1>3

LEMMA AnyOfChecks ==
  ASSUME NEW d, IsDocument(d), NEW below, Maps(below), NEW n \in Nodes, NEW i \in Instances,
         NEW run \in Runs
  PROVE  /\ CheckAnyOf(d, below, n, i, run) \in Runs
         /\ \A valid, depth : Answers(below, valid, depth) /\ run \in Going(depth) =>
              Verdict(run, CheckAnyOf(d, below, n, i, run),
                      \E k \in Positions(d, n, "anyOf") : valid[d[n].keywords[k].to][i])
<1> DEFINE s == Passing(d, below, "anyOf", n, i, run, 1)
           q == CheckAnyOf(d, below, n, i, run)
<1>1. "anyOf" \in SubschemaKeywords /\ "anyOf" \in Failures
  BY DEF SubschemaKeywords, Failures
<1>2. s \in Tallies
  BY <1>1, PassingTyped
<1>3. q = IF Stopped(s.run) \/ s.count = 1 THEN s.run ELSE Push(s.run, "anyOf")
  BY DEF CheckAnyOf
<1>4. q \in Runs
  <2> HIDE DEF s, q
  <2> QED
    BY <1>1, <1>2, <1>3, PushTyped DEF Tallies
<1>5. ASSUME NEW valid, NEW depth, Answers(below, valid, depth), run \in Going(depth)
      PROVE  Verdict(run, q, \E k \in Positions(d, n, "anyOf") : valid[d[n].keywords[k].to][i])
  <2> DEFINE all == Len(d[n].keywords)
             S == Holding(d, "anyOf", n, i, valid, all)
             some == \E k \in Positions(d, n, "anyOf") : valid[d[n].keywords[k].to][i]
  <2>1. TallyOf(run, s, S, all, 1, all)
    BY <1>1, <1>5, PassingCounts
  <2>2. some <=> S # {}
    <3>1. \A k \in Positions(d, n, "anyOf") : k <= all
      BY KeywordsOf DEF Positions, IsList
    <3> QED
      BY <3>1 DEF Holding
  <2>3. some \in BOOLEAN
    OBVIOUS
  <2> HIDE DEF s, q, S, some, all
  <2>4. s.count \in Nat /\ Verdict(run, s.run, TRUE)
    BY <1>2, <2>1 DEF Tallies, TallyOf
  <2>5. ~Stopped(s.run) => (s.count = 1 <=> some)
    BY <2>1, <2>2, <2>4 DEF TallyOf
  <2>6. Verdict(run, q, some)
    BY <1>1, <1>3, <1>5, <2>3, <2>4, <2>5, PushUnless
  <2> QED
    BY <2>6 DEF some
<1> QED
  BY <1>4, <1>5 DEF q

LEMMA OneOfChecks ==
  ASSUME NEW d, IsDocument(d), NEW below, Maps(below), NEW n \in Nodes, NEW i \in Instances,
         NEW run \in Runs
  PROVE  /\ CheckOneOf(d, below, n, i, run) \in Runs
         /\ \A valid, depth : Answers(below, valid, depth) /\ run \in Going(depth) =>
              Verdict(run, CheckOneOf(d, below, n, i, run),
                      \E k \in Positions(d, n, "oneOf") :
                        /\ valid[d[n].keywords[k].to][i]
                        /\ \A j \in Positions(d, n, "oneOf") : valid[d[n].keywords[j].to][i] => j = k)
<1> DEFINE all == Len(d[n].keywords)
           s == Passing(d, below, "oneOf", n, i, run, 1 + all)
           q == CheckOneOf(d, below, n, i, run)
<1>1. "oneOf" \in SubschemaKeywords /\ "oneOf" \in Failures
  BY DEF SubschemaKeywords, Failures
<1>2. all \in Nat
  BY KeywordsOf DEF IsList
<1>3. q = IF Stopped(s.run) \/ s.count = 1 THEN s.run ELSE Push(s.run, "oneOf")
  BY DEF CheckOneOf
<1> HIDE DEF all
<1>4. 1 + all \in Nat /\ 1 + all \in Nat \ {0} /\ 1 + all > all
  BY <1>2
<1>5. s \in Tallies
  BY <1>1, <1>4, PassingTyped
<1>6. q \in Runs
  <2> HIDE DEF s, q
  <2> QED
    BY <1>1, <1>3, <1>5, PushTyped DEF Tallies
<1>7. ASSUME NEW valid, NEW depth, Answers(below, valid, depth), run \in Going(depth)
      PROVE  Verdict(run, q,
               \E k \in Positions(d, n, "oneOf") :
                 /\ valid[d[n].keywords[k].to][i]
                 /\ \A j \in Positions(d, n, "oneOf") : valid[d[n].keywords[j].to][i] => j = k)
  <2> DEFINE S == Holding(d, "oneOf", n, i, valid, all)
             one == \E k \in Positions(d, n, "oneOf") :
                      /\ valid[d[n].keywords[k].to][i]
                      /\ \A j \in Positions(d, n, "oneOf") : valid[d[n].keywords[j].to][i] => j = k
  <2>1. TallyOf(run, s, S, all, 1 + all, all)
    BY <1>1, <1>4, <1>7, PassingCounts DEF all
  <2>2. one <=> IsSingle(S)
    <3>1. \A k \in Positions(d, n, "oneOf") : k <= all
      BY KeywordsOf DEF Positions, IsList, all
    <3>2. S = {k \in Positions(d, n, "oneOf") : valid[d[n].keywords[k].to][i]}
      BY <3>1 DEF Holding
    <3> HIDE DEF S
    <3> QED
      BY <3>2 DEF IsSingle
  <2>3. one \in BOOLEAN
    OBVIOUS
  <2> HIDE DEF s, q, S, one
  <2>4. s.count \in Nat /\ Verdict(run, s.run, TRUE)
    BY <1>5, <2>1 DEF Tallies, TallyOf
  <2>5. ~Stopped(s.run) => (s.count = 1 <=> one)
    BY <1>4, <2>1, <2>2 DEF TallyOf
  <2>6. Verdict(run, q, one)
    BY <1>1, <1>3, <1>7, <2>3, <2>4, <2>5, PushUnless
  <2> QED
    BY <2>6 DEF one
<1> QED
  BY <1>6, <1>7 DEF q

LEMMA NotChecks ==
  ASSUME NEW d, IsDocument(d), NEW below, Maps(below), NEW n \in Nodes, NEW i \in Instances,
         NEW run \in Runs, Has(d, n, "not")
  PROVE  /\ CheckNot(d, below, n, i, run) \in Runs
         /\ \A valid, depth : Answers(below, valid, depth) /\ run \in Going(depth) =>
              Verdict(run, CheckNot(d, below, n, i, run), ~valid[Subschema(d, n, "not")][i])
<1> DEFINE m == Subschema(d, n, "not")
           b == Branch(below, m, i, run)
           q == CheckNot(d, below, n, i, run)
<1>1. m \in Nodes /\ "not" \in Failures
  BY SubschemaOf DEF SubschemaKeywords, Failures
<1>2. q = IF Stopped(b.run) \/ ~b.passes THEN b.run ELSE Push(b.run, "not")
  BY DEF CheckNot
<1> HIDE DEF m
<1>3. b.run \in Runs
  BY <1>1, BranchTyped
<1>4. q \in Runs
  <2> HIDE DEF b, q
  <2> QED
    BY <1>1, <1>2, <1>3, PushTyped
<1>5. ASSUME NEW valid, NEW depth, Answers(below, valid, depth), run \in Going(depth)
      PROVE  Verdict(run, q, ~valid[m][i])
  <2>1. /\ Verdict(run, b.run, TRUE) /\ b.passes \in BOOLEAN
        /\ ~Stopped(b.run) => (b.passes <=> valid[m][i])
    BY <1>1, <1>5, BranchVerdict
  <2> DEFINE holds == ~valid[m][i]
  <2>2. holds \in BOOLEAN /\ (~Stopped(b.run) => (b.passes <=> ~holds))
    BY <2>1
  <2> HIDE DEF b, q, holds
  <2>3. Verdict(run, q, holds)
    BY <1>1, <1>2, <1>5, <2>1, <2>2, PushUnless
  <2> QED
    BY <2>3 DEF holds
<1> QED
  BY <1>4, <1>5 DEF q, m

LEMMA IfChecks ==
  ASSUME NEW d, IsDocument(d), NEW below, Maps(below), NEW n \in Nodes, NEW i \in Instances,
         NEW run \in Runs, Has(d, n, "if")
  PROVE  /\ CheckIf(d, below, n, i, run) \in Runs
         /\ \A valid, depth : Answers(below, valid, depth) /\ run \in Going(depth) =>
              Verdict(run, CheckIf(d, below, n, i, run),
                      \A k \in Positions(d, n, IF valid[Subschema(d, n, "if")][i] THEN "then" ELSE "else") :
                        valid[d[n].keywords[k].to][i])
<1> DEFINE m == Subschema(d, n, "if")
           b == Branch(below, m, i, run)
           q == CheckIf(d, below, n, i, run)
           chosen(holds) == IF holds THEN "then" ELSE "else"
<1>1. m \in Nodes /\ \A holds : chosen(holds) \in SubschemaKeywords
  BY SubschemaOf DEF SubschemaKeywords
<1>2. q = IF Stopped(b.run) THEN b.run ELSE CheckEach(d, below, chosen(b.passes), n, i, b.run)
  BY DEF CheckIf
<1> HIDE DEF m
<1>3. b.run \in Runs
  BY <1>1, BranchTyped
<1>4. q \in Runs
  <2> HIDE DEF b, q, chosen
  <2> QED
    BY <1>1, <1>2, <1>3, EachTyped
<1>5. ASSUME NEW valid, NEW depth, Answers(below, valid, depth), run \in Going(depth)
      PROVE  Verdict(run, q, \A k \in Positions(d, n, chosen(valid[m][i])) : valid[d[n].keywords[k].to][i])
  <2>1. /\ Verdict(run, b.run, TRUE) /\ b.passes \in BOOLEAN
        /\ ~Stopped(b.run) => (b.passes <=> valid[m][i])
    BY <1>1, <1>5, BranchVerdict
  <2> DEFINE all(name) == \A k \in Positions(d, n, name) : valid[d[n].keywords[k].to][i]
  <2>2. CASE Stopped(b.run)
    BY <1>2, <2>1, <2>2 DEF Verdict
  <2>3. CASE ~Stopped(b.run)
    <3>1. chosen(b.passes) = chosen(valid[m][i])
      BY <2>1, <2>3
    <3>2. b.run \in Going(depth)
      BY <1>5, <2>1, <2>3, GoesOn
    <3> DEFINE name == chosen(valid[m][i])
    <3>3. name \in SubschemaKeywords /\ q = CheckEach(d, below, name, n, i, b.run)
      BY <1>1, <1>2, <2>3, <3>1
    <3> HIDE DEF b, q, name
    <3>4. Verdict(b.run, q, all(name))
      BY <1>1, <1>5, <3>2, <3>3, EachVerdict
    <3>5. Verdict(run, q, all(name))
      BY <2>1, <2>3, <3>4 DEF Verdict, Ok
    <3> QED
      BY <3>5 DEF name
  <2> QED
    BY <2>2, <2>3
<1> QED
  BY <1>4, <1>5 DEF q, m, chosen

(* Boolean schemas are looked at without being entered. *)
Plain(d, valid) ==
  \A n \in Nodes : \A i \in Instances :
    d[n].kind # "object" => (valid[n][i] <=> d[n].kind # "false")

LEMMA AdditionalChecks ==
  ASSUME NEW d, IsDocument(d), NEW below, Maps(below), NEW n \in Nodes, NEW i \in Instances,
         NEW run \in Runs, Has(d, n, "additionalProperties")
  PROVE  /\ CheckAdditional(d, below, n, i, run) \in Runs
         /\ \A valid, depth :
              Answers(below, valid, depth) /\ Plain(d, valid) /\ run \in Going(depth) =>
                Verdict(run, CheckAdditional(d, below, n, i, run),
                        \A k \in DOMAIN i.parts : i.parts[k].name \in Additional(d, n) =>
                          valid[Subschema(d, n, "additionalProperties")][i.parts[k].value])
<1> DEFINE other == Subschema(d, n, "additionalProperties")
           q == CheckAdditional(d, below, n, i, run)
           C == {k \in DOMAIN i.parts : i.parts[k].name \in Additional(d, n)}
           steps == [k \in DOMAIN i.parts |-> [r \in Runs |->
                       IF i.parts[k].name \in Additional(d, n) THEN Push(r, "additional") ELSE r]]
<1>1. other \in Nodes /\ "additional" \in Failures
  BY SubschemaOf DEF SubschemaKeywords, Failures
<1> HIDE DEF other
<1>2. /\ d[other].kind = "false" => q = UntilStopped(steps, run)
      /\ d[other].kind = "object" => q = CheckParts(below, other, i, Additional(d, n), run)
      /\ d[other].kind \notin {"false", "object"} => q = run
  BY DEF CheckAdditional, other
<1>3. /\ IsList(i.parts) /\ \A k \in DOMAIN i.parts : i.parts[k].value \in Instances
      /\ DOMAIN steps = DOMAIN i.parts
      /\ \A k \in DOMAIN i.parts : \A r \in Runs :
           steps[k][r] = IF k \in C THEN Push(r, "additional") ELSE r
  BY PartsOf
<1> HIDE DEF q, steps
<1>4. q \in Runs
  <2> HIDE DEF C
  <2>1. CASE d[other].kind = "false"
    <3>1. IsList(steps) /\ 1..Len(steps) = DOMAIN i.parts
      BY <1>3, ListOf DEF IsList
    <3>2. \A k \in 1..Len(steps) : \A r \in Runs : steps[k][r] \in Runs
      BY <1>1, <1>3, <3>1, PushTyped
    <3>3. UntilStopped(steps, run) \in Runs
      BY <3>1, <3>2, LoopTyped
    <3> QED
      BY <1>2, <2>1, <3>3
  <2>2. CASE d[other].kind = "object"
    BY <1>1, <1>2, <2>2, PartsTyped
  <2>3. CASE d[other].kind \notin {"false", "object"}
    BY <1>2, <2>3
  <2> QED
    BY <2>1, <2>2, <2>3
<1>5. ASSUME NEW valid, NEW depth, Answers(below, valid, depth), Plain(d, valid), run \in Going(depth)
      PROVE  Verdict(run, q, \A k \in DOMAIN i.parts :
                               i.parts[k].name \in Additional(d, n) => valid[other][i.parts[k].value])
  <2> DEFINE all == \A k \in DOMAIN i.parts :
                      i.parts[k].name \in Additional(d, n) => valid[other][i.parts[k].value]
  <2>1. all \in BOOLEAN
    OBVIOUS
  <2>2. CASE d[other].kind = "false"
    <3>1. \A k \in DOMAIN i.parts : ~valid[other][i.parts[k].value]
      BY <1>1, <1>3, <1>5, <2>2 DEF Plain
    <3>2. all <=> \A k \in DOMAIN i.parts : k \notin C
      BY <3>1
    <3> HIDE DEF all, C
    <3>3. Verdict(run, UntilStopped(steps, run), all)
      BY <1>1, <1>3, <1>5, <2>1, <3>2, FaultsVerdict
    <3> QED
      BY <1>2, <2>2, <3>3 DEF all
  <2>3. CASE d[other].kind = "object"
    <3>1. Verdict(run, CheckParts(below, other, i, Additional(d, n), run), all)
      BY <1>1, <1>5, PartsVerdict
    <3> HIDE DEF all
    <3> QED
      BY <1>2, <2>3, <3>1 DEF all
  <2>4. CASE d[other].kind \notin {"false", "object"}
    <3>1. \A k \in DOMAIN i.parts : valid[other][i.parts[k].value]
      BY <1>1, <1>3, <1>5, <2>4 DEF Plain
    <3>2. all
      BY <3>1
    <3>3. q = run /\ Verdict(run, run, TRUE)
      BY <1>2, <1>5, <2>4, VerdictSame
    <3> HIDE DEF all
    <3>4. Verdict(run, q, all)
      BY <3>2, <3>3 DEF Verdict
    <3> QED
      BY <3>4 DEF all
  <2> QED
    BY <2>2, <2>3, <2>4
<1> QED
  BY <1>4, <1>5 DEF q, other

-----------------------------------------------------------------------------
(* A node: the keywords it has, each saying its part.                           *)

Clause(d, valid, name, n, i) ==
  LET holds(k) == valid[d[n].keywords[k].to][i]
      every(names) == \A k \in DOMAIN i.parts :
        i.parts[k].name \in names => valid[Subschema(d, n, name)][i.parts[k].value]
      single == valid[Subschema(d, n, name)][i]
  IN  /\ name = "$ref" => Subschema(d, n, "$ref") # Unresolved /\ single
      /\ name = "assert" => \A k \in Positions(d, n, "assert") : i.label \in d[n].keywords[k].accepts
      /\ name = "allOf" => \A k \in Positions(d, n, "allOf") : holds(k)
      /\ name = "anyOf" => \E k \in Positions(d, n, "anyOf") : holds(k)
      /\ name = "oneOf" => \E k \in Positions(d, n, "oneOf") :
           holds(k) /\ \A j \in Positions(d, n, "oneOf") : holds(j) => j = k
      /\ name = "not" => ~single
      /\ name = "if" => \A k \in Positions(d, n, IF single THEN "then" ELSE "else") : holds(k)
      /\ name = "properties" => every({"p"})
      /\ name = "additionalProperties" => every(Additional(d, n))
      /\ name = "items" => every({"item"})

Names == {"$ref", "assert", "allOf", "anyOf", "oneOf", "not", "if",
          "properties", "additionalProperties", "items"}

LEMMA SaysClauses ==
  ASSUME NEW d, NEW valid, NEW n, NEW i
  PROVE  Says(d, valid, n, i) <=>
           d[n].kind # "false" /\ \A name \in Names : Has(d, n, name) => Clause(d, valid, name, n, i)
BY DEF Says, Clause, Names, Has

LEMMA KeywordChecks ==
  ASSUME NEW d, IsDocument(d), NEW below, Maps(below), NEW n \in Nodes, NEW i \in Instances,
         NEW run \in Runs, NEW name \in Names, Has(d, n, name)
  PROVE  /\ CheckKeyword(d, below, name, n, i, run) \in Runs
         /\ \A valid, depth :
              Answers(below, valid, depth) /\ Plain(d, valid) /\ run \in Going(depth) =>
                Verdict(run, CheckKeyword(d, below, name, n, i, run), Clause(d, valid, name, n, i))
<1> DEFINE q == CheckKeyword(d, below, name, n, i, run)
<1>1. CASE name = "$ref"
  <2>1. q = CheckReference(d, below, n, i, run)
    BY <1>1 DEF CheckKeyword
  <2>2. \A valid : Clause(d, valid, name, n, i) <=>
          Subschema(d, n, "$ref") # Unresolved /\ valid[Subschema(d, n, "$ref")][i]
    BY <1>1 DEF Clause
  <2> QED
    BY <1>1, <2>1, <2>2, ReferenceChecks DEF Verdict
<1>2. CASE name = "assert"
  <2>1. q = CheckAssertions(d, n, i, run)
    BY <1>2 DEF CheckKeyword
  <2>2. \A valid : Clause(d, valid, name, n, i) <=>
          \A k \in Positions(d, n, "assert") : i.label \in d[n].keywords[k].accepts
    BY <1>2 DEF Clause
  <2> QED
    BY <1>2, <2>1, <2>2, AssertionChecks DEF Verdict
<1>3. CASE name = "allOf"
  <2>1. q = CheckEach(d, below, "allOf", n, i, run) /\ "allOf" \in SubschemaKeywords
    BY <1>3 DEF CheckKeyword, SubschemaKeywords
  <2>2. \A valid : Clause(d, valid, name, n, i) <=>
          \A k \in Positions(d, n, "allOf") : valid[d[n].keywords[k].to][i]
    BY <1>3 DEF Clause
  <2> QED
    BY <1>3, <2>1, <2>2, EachTyped, EachVerdict DEF Verdict
<1>4. CASE name = "anyOf"
  <2>1. q = CheckAnyOf(d, below, n, i, run)
    BY <1>4 DEF CheckKeyword
  <2>2. \A valid : Clause(d, valid, name, n, i) <=>
          \E k \in Positions(d, n, "anyOf") : valid[d[n].keywords[k].to][i]
    BY <1>4 DEF Clause
  <2> QED
    BY <1>4, <2>1, <2>2, AnyOfChecks DEF Verdict
<1>5. CASE name = "oneOf"
  <2>1. q = CheckOneOf(d, below, n, i, run)
    BY <1>5 DEF CheckKeyword
  <2>2. \A valid : Clause(d, valid, name, n, i) <=>
          \E k \in Positions(d, n, "oneOf") :
            /\ valid[d[n].keywords[k].to][i]
            /\ \A j \in Positions(d, n, "oneOf") : valid[d[n].keywords[j].to][i] => j = k
    BY <1>5 DEF Clause
  <2> QED
    BY <1>5, <2>1, <2>2, OneOfChecks DEF Verdict
<1>6. CASE name = "not"
  <2>1. q = CheckNot(d, below, n, i, run)
    BY <1>6 DEF CheckKeyword
  <2>2. \A valid : Clause(d, valid, name, n, i) <=> ~valid[Subschema(d, n, "not")][i]
    BY <1>6 DEF Clause
  <2> QED
    BY <1>6, <2>1, <2>2, NotChecks DEF Verdict
<1>7. CASE name = "if"
  <2>1. q = CheckIf(d, below, n, i, run)
    BY <1>7 DEF CheckKeyword
  <2>2. \A valid : Clause(d, valid, name, n, i) <=>
          \A k \in Positions(d, n, IF valid[Subschema(d, n, "if")][i] THEN "then" ELSE "else") :
            valid[d[n].keywords[k].to][i]
    BY <1>7 DEF Clause
  <2> QED
    BY <1>7, <2>1, <2>2, IfChecks DEF Verdict
<1>8. CASE name = "properties"
  <2>1. /\ q = CheckParts(below, Subschema(d, n, "properties"), i, {"p"}, run)
        /\ Subschema(d, n, "properties") \in Nodes
    BY <1>8, SubschemaOf DEF CheckKeyword, SubschemaKeywords
  <2>2. \A valid : Clause(d, valid, name, n, i) <=>
          \A k \in DOMAIN i.parts : i.parts[k].name \in {"p"} =>
            valid[Subschema(d, n, "properties")][i.parts[k].value]
    BY <1>8 DEF Clause
  <2> DEFINE names == {"p"}
             m == Subschema(d, n, "properties")
  <2>3. m \in Nodes /\ q = CheckParts(below, m, i, names, run)
    BY <2>1
  <2> HIDE DEF names, m, q
  <2>4. q \in Runs
    BY <2>3, PartsTyped
  <2>5. ASSUME NEW valid, NEW depth, Answers(below, valid, depth), run \in Going(depth)
        PROVE  Verdict(run, q, \A k \in DOMAIN i.parts : i.parts[k].name \in names => valid[m][i.parts[k].value])
    BY <2>3, <2>5, PartsVerdict
  <2> QED
    BY <2>2, <2>4, <2>5 DEF Verdict, q, names, m
<1>9. CASE name = "additionalProperties"
  <2>1. q = CheckAdditional(d, below, n, i, run)
    BY <1>9 DEF CheckKeyword
  <2>2. \A valid : Clause(d, valid, name, n, i) <=>
          \A k \in DOMAIN i.parts : i.parts[k].name \in Additional(d, n) =>
            valid[Subschema(d, n, "additionalProperties")][i.parts[k].value]
    BY <1>9 DEF Clause
  <2> QED
    BY <1>9, <2>1, <2>2, AdditionalChecks DEF Verdict
<1>10. CASE name = "items"
  <2>1. /\ q = CheckParts(below, Subschema(d, n, "items"), i, {"item"}, run)
        /\ Subschema(d, n, "items") \in Nodes
    BY <1>10, SubschemaOf DEF CheckKeyword, SubschemaKeywords
  <2>2. \A valid : Clause(d, valid, name, n, i) <=>
          \A k \in DOMAIN i.parts : i.parts[k].name \in {"item"} =>
            valid[Subschema(d, n, "items")][i.parts[k].value]
    BY <1>10 DEF Clause
  <2> DEFINE names == {"item"}
             m == Subschema(d, n, "items")
  <2>3. m \in Nodes /\ q = CheckParts(below, m, i, names, run)
    BY <2>1
  <2> HIDE DEF names, m, q
  <2>4. q \in Runs
    BY <2>3, PartsTyped
  <2>5. ASSUME NEW valid, NEW depth, Answers(below, valid, depth), run \in Going(depth)
        PROVE  Verdict(run, q, \A k \in DOMAIN i.parts : i.parts[k].name \in names => valid[m][i.parts[k].value])
    BY <2>3, <2>5, PartsVerdict
  <2> QED
    BY <2>2, <2>4, <2>5 DEF Verdict, q, names, m
<1> QED
  BY <1>1, <1>2, <1>3, <1>4, <1>5, <1>6, <1>7, <1>8, <1>9, <1>10 DEF Names

LEMMA OrderOfNames ==
  /\ IsList(KeywordOrder)
  /\ \A k \in DOMAIN KeywordOrder : KeywordOrder[k] \in Names
  /\ \A name \in Names : \E k \in DOMAIN KeywordOrder : KeywordOrder[k] = name
<1>1. Len(KeywordOrder) = 10 /\ DOMAIN KeywordOrder = 1..10
  BY DEF KeywordOrder
<1>2. /\ KeywordOrder[1] = "$ref" /\ KeywordOrder[2] = "assert" /\ KeywordOrder[3] = "allOf"
      /\ KeywordOrder[4] = "anyOf" /\ KeywordOrder[5] = "oneOf" /\ KeywordOrder[6] = "not"
      /\ KeywordOrder[7] = "if" /\ KeywordOrder[8] = "properties"
      /\ KeywordOrder[9] = "additionalProperties" /\ KeywordOrder[10] = "items"
  BY DEF KeywordOrder
<1>3. \A k \in 1..10 : KeywordOrder[k] \in Names
  <2>1. \A k \in 1..10 : \/ k = 1 \/ k = 2 \/ k = 3 \/ k = 4 \/ k = 5
                         \/ k = 6 \/ k = 7 \/ k = 8 \/ k = 9 \/ k = 10
    OBVIOUS
  <2> QED
    BY <1>2, <2>1 DEF Names
<1>4. \A name \in Names : \E k \in 1..10 : KeywordOrder[k] = name
  <2>1. 1 \in 1..10 /\ 2 \in 1..10 /\ 3 \in 1..10 /\ 4 \in 1..10 /\ 5 \in 1..10
        /\ 6 \in 1..10 /\ 7 \in 1..10 /\ 8 \in 1..10 /\ 9 \in 1..10 /\ 10 \in 1..10
    OBVIOUS
  <2> QED
    BY <1>2, <2>1 DEF Names
<1> QED
  BY <1>1, <1>3, <1>4 DEF IsList

LEMMA NodeChecks ==
  ASSUME NEW d, IsDocument(d), NEW below, Maps(below), NEW n \in Nodes, NEW i \in Instances,
         NEW run \in Runs
  PROVE  /\ CheckNode(d, below, n, i, run) \in Runs
         /\ \A valid, depth :
              Answers(below, valid, depth) /\ Plain(d, valid) /\ run \in Going(depth) =>
                Verdict(run, CheckNode(d, below, n, i, run), Says(d, valid, n, i))
<1> DEFINE q == CheckNode(d, below, n, i, run)
           steps == [k \in DOMAIN KeywordOrder |-> [r \in Runs |->
                       IF Has(d, n, KeywordOrder[k])
                       THEN CheckKeyword(d, below, KeywordOrder[k], n, i, r) ELSE r]]
<1>1. /\ d[n].kind = "false" => q = Push(run, "false")
      /\ d[n].kind = "object" => q = UntilStopped(steps, run)
      /\ d[n].kind \notin {"false", "object"} => q = run
  BY DEF CheckNode
<1>2. IsList(steps) /\ 1..Len(steps) = DOMAIN KeywordOrder /\ "false" \in Failures
  BY OrderOfNames, ListOf DEF IsList, Failures
<1>3. \A k \in 1..Len(steps) : \A r \in Runs :
        steps[k][r] = IF Has(d, n, KeywordOrder[k])
                      THEN CheckKeyword(d, below, KeywordOrder[k], n, i, r) ELSE r
  BY <1>2
<1> HIDE DEF q, steps
<1>4. \A k \in 1..Len(steps) : \A r \in Runs : steps[k][r] \in Runs
  BY <1>2, <1>3, OrderOfNames, KeywordChecks
<1>5. q \in Runs
  <2>1. CASE d[n].kind = "false"
    BY <1>1, <1>2, <2>1, PushTyped
  <2>2. CASE d[n].kind = "object"
    <3>1. UntilStopped(steps, run) \in Runs
      BY <1>2, <1>4, LoopTyped
    <3> QED
      BY <1>1, <2>2, <3>1
  <2>3. CASE d[n].kind \notin {"false", "object"}
    BY <1>1, <2>3
  <2> QED
    BY <2>1, <2>2, <2>3
<1>6. ASSUME NEW valid, NEW depth, Answers(below, valid, depth), Plain(d, valid), run \in Going(depth)
      PROVE  Verdict(run, q, Says(d, valid, n, i))
  <2> DEFINE all == \A name \in Names : Has(d, n, name) => Clause(d, valid, name, n, i)
             holds == [k \in 1..Len(steps) |->
                         IF Has(d, n, KeywordOrder[k]) THEN Clause(d, valid, KeywordOrder[k], n, i) ELSE TRUE]
  <2>1. Says(d, valid, n, i) <=> d[n].kind # "false" /\ all
    BY SaysClauses
  <2>2. CASE d[n].kind = "false"
    <3>1. Verdict(run, Push(run, "false"), FALSE) /\ ~Says(d, valid, n, i)
      BY <1>2, <1>6, <2>1, <2>2, PushVerdict
    <3> QED
      BY <1>1, <2>2, <3>1 DEF Verdict
  <2>3. CASE d[n].kind = "object"
    <3>1. holds \in [1..Len(steps) -> BOOLEAN] /\ all \in BOOLEAN
      BY DEF Clause
    <3>2. ASSUME NEW k \in 1..Len(steps), NEW r \in Going(depth) PROVE Verdict(r, steps[k][r], holds[k])
      <4>1. r \in Runs /\ KeywordOrder[k] \in Names
        BY <1>2, VerdictSame, OrderOfNames
      <4> DEFINE name == KeywordOrder[k]
      <4>2. CASE Has(d, n, name)
        <5>1. steps[k][r] = CheckKeyword(d, below, name, n, i, r)
          BY <1>3, <4>1, <4>2
        <5>2. holds[k] <=> Clause(d, valid, name, n, i)
          BY <4>2
        <5> HIDE DEF holds, name
        <5>3. Verdict(r, CheckKeyword(d, below, name, n, i, r), Clause(d, valid, name, n, i))
          BY <1>6, <4>1, <4>2, KeywordChecks DEF name
        <5> QED
          BY <5>1, <5>2, <5>3 DEF Verdict
      <4>3. CASE ~Has(d, n, name)
        <5>1. steps[k][r] = r /\ holds[k]
          BY <1>3, <4>1, <4>3
        <5>2. Verdict(r, r, TRUE)
          BY VerdictSame
        <5> HIDE DEF holds
        <5> QED
          BY <5>1, <5>2 DEF Verdict
      <4> QED
        BY <4>2, <4>3
    <3>3. all <=> \A k \in 1..Len(steps) : holds[k]
      <4>1. \A k \in 1..Len(steps) :
              holds[k] <=> (Has(d, n, KeywordOrder[k]) => Clause(d, valid, KeywordOrder[k], n, i))
        OBVIOUS
      <4> HIDE DEF holds
      <4> QED
        BY <1>2, <4>1, OrderOfNames
    <3> HIDE DEF holds, all
    <3>4. Verdict(run, UntilStopped(steps, run), all)
      BY <1>2, <1>4, <1>6, <3>1, <3>2, <3>3, LoopVerdict
    <3> QED
      BY <1>1, <2>1, <2>3, <3>4 DEF Verdict
  <2>4. CASE d[n].kind \notin {"false", "object"}
    <3>1. \A name \in Names : ~Has(d, n, name)
      <4>1. d[n].keywords = << >>
        BY <2>4, KeywordsOf
      <4>2. Positions(d, n, "x") \in SUBSET {} /\ \A name : Positions(d, n, name) = {}
        BY <4>1 DEF Positions
      <4> QED
        BY <4>2 DEF Has
    <3>2. Says(d, valid, n, i)
      BY <2>1, <2>4, <3>1
    <3>3. Verdict(run, run, TRUE) /\ q = run
      BY <1>1, <1>6, <2>4, VerdictSame
    <3> QED
      BY <3>2, <3>3 DEF Verdict
  <2> QED
    BY <2>2, <2>3, <2>4
<1> QED
  BY <1>5, <1>6 DEF q

-----------------------------------------------------------------------------
(* Entering a node and leaving it.                                              *)

Halted(run, stop) == [run EXCEPT !.stop = stop]
Entering(run) == [run EXCEPT !.remaining = @ - 1, !.depth = @ + 1]
Left(run) == [run EXCEPT !.depth = @ - 1]

LEMMA IntoCases ==
  ASSUME NEW d, NEW below, NEW n, NEW i, NEW run \in Runs
  PROVE  /\ run.depth >= MaxSchemaDepth =>
              CheckInto(d, below, n, i, run) = PushStop(Halted(run, "depth"))
         /\ run.depth < MaxSchemaDepth /\ run.remaining = 0 =>
              CheckInto(d, below, n, i, run) = PushStop(Halted(run, "steps"))
         /\ run.depth < MaxSchemaDepth /\ run.remaining # 0 =>
              CheckInto(d, below, n, i, run) = Left(CheckNode(d, below, n, i, Entering(run)))
         /\ run.depth >= MaxSchemaDepth \/ run.depth < MaxSchemaDepth
<1>1. run.depth \in Int /\ MaxSchemaDepth \in Nat
  BY SchemaAssumption DEF Runs
<1>2. run.depth < MaxSchemaDepth <=> ~(run.depth >= MaxSchemaDepth)
  BY <1>1
<1>3. CASE run.depth >= MaxSchemaDepth
  BY <1>2, <1>3, Zenon DEF CheckInto, Halted
<1>4. CASE run.depth < MaxSchemaDepth /\ run.remaining = 0
  BY <1>2, <1>4, Zenon DEF CheckInto, Halted
<1>5. CASE run.depth < MaxSchemaDepth /\ run.remaining # 0
  BY <1>2, <1>5, Zenon DEF CheckInto, Entering, Left
<1> QED
  BY <1>2, <1>3, <1>4, <1>5

LEMMA HaltedRun ==
  ASSUME NEW run \in Runs, NEW stop \in Stops
  PROVE  /\ PushStop(Halted(run, stop)) \in Runs
         /\ PushStop(Halted(run, stop)) \in Ok(run.depth) /\ Stopped(PushStop(Halted(run, stop)))
<1>1. Halted(run, stop) \in Runs /\ Stopped(Halted(run, stop)) /\ Halted(run, stop).depth = run.depth
  BY DEF Runs, Stops, Stopped, Halted
<1> QED
  BY <1>1, PushStopTyped, PushStopOk

LEMMA EnteringRun ==
  ASSUME NEW run \in Runs, run.remaining # 0
  PROVE  /\ Entering(run) \in Runs /\ Entering(run).depth = run.depth + 1
         /\ Entering(run).errors = run.errors /\ Entering(run).stop = run.stop
<1>1. run.remaining \in Nat /\ run.depth \in Int
  BY DEF Runs
<1>2. run.remaining - 1 \in Nat /\ run.depth + 1 \in Int
  BY <1>1
<1> QED
  BY <1>2 DEF Runs, Entering

LEMMA LeftRun ==
  ASSUME NEW run \in Runs
  PROVE  /\ Left(run) \in Runs /\ Left(run).depth = run.depth - 1
         /\ Left(run).errors = run.errors /\ Left(run).stop = run.stop
BY DEF Runs, Left

LEMMA IntoTyped ==
  ASSUME NEW d, IsDocument(d), NEW below, Maps(below), NEW n \in Nodes, NEW i \in Instances,
         NEW run \in Runs
  PROVE  CheckInto(d, below, n, i, run) \in Runs
<1>1. "depth" \in Stops /\ "steps" \in Stops
  BY DEF Stops
<1>2. CASE run.depth >= MaxSchemaDepth
  BY <1>1, <1>2, IntoCases, HaltedRun
<1>3. CASE run.depth < MaxSchemaDepth /\ run.remaining = 0
  BY <1>1, <1>3, IntoCases, HaltedRun
<1>4. CASE run.depth < MaxSchemaDepth /\ run.remaining # 0
  <2>1. CheckNode(d, below, n, i, Entering(run)) \in Runs
    BY <1>4, EnteringRun, NodeChecks
  <2> QED
    BY <1>4, <2>1, IntoCases, LeftRun
<1> QED
  BY <1>2, <1>3, <1>4, IntoCases

LEMMA IntoVerdict ==
  ASSUME NEW d, IsDocument(d), NEW below, Maps(below), NEW n \in Nodes, NEW i \in Instances,
         NEW depth \in Int, NEW run \in Going(depth), NEW valid,
         depth < MaxSchemaDepth => Answers(below, valid, depth + 1) /\ Plain(d, valid)
  PROVE  Verdict(run, CheckInto(d, below, n, i, run), Says(d, valid, n, i))
<1> DEFINE q == CheckInto(d, below, n, i, run)
<1>1. run \in Runs /\ run.depth = depth /\ ~Stopped(run) /\ Len(run.errors) <= MaxCollectedErrors
  BY DEF Going, Ok
<1>2. "depth" \in Stops /\ "steps" \in Stops
  BY DEF Stops
<1>3. CASE q \in Ok(run.depth) /\ Stopped(q)
  BY <1>3 DEF Verdict
<1>4. CASE run.depth >= MaxSchemaDepth
  BY <1>1, <1>2, <1>3, <1>4, IntoCases, HaltedRun
<1>5. CASE run.depth < MaxSchemaDepth /\ run.remaining = 0
  BY <1>1, <1>2, <1>3, <1>5, IntoCases, HaltedRun
<1>6. CASE run.depth < MaxSchemaDepth /\ run.remaining # 0
  <2> DEFINE inner == Entering(run)
             r == CheckNode(d, below, n, i, inner)
  <2>1. /\ inner \in Runs /\ inner.depth = depth + 1 /\ inner.errors = run.errors
        /\ inner.stop = run.stop
    BY <1>1, <1>6, EnteringRun
  <2>2. q = Left(r)
    BY <1>1, <1>6, IntoCases
  <2> HIDE DEF inner
  <2>3. inner \in Going(depth + 1)
    BY <1>1, <2>1 DEF Going, Ok, Stopped
  <2>4. Verdict(inner, r, Says(d, valid, n, i))
    BY <1>1, <1>6, <2>1, <2>3, NodeChecks
  <2> HIDE DEF r, q
  <2>5. r \in Runs /\ r.depth = depth + 1
    BY <2>1, <2>4 DEF Verdict, Ok
  <2>6. q \in Runs /\ q.depth = depth /\ q.errors = r.errors /\ q.stop = r.stop
    BY <2>2, <2>5, LeftRun
  <2>7. q \in Ok(depth)
    BY <2>4, <2>6 DEF Verdict, Ok, Stopped
  <2>8. Verdict(run, q, Says(d, valid, n, i))
    BY <1>1, <2>1, <2>4, <2>6, <2>7 DEF Verdict, Stopped
  <2> QED
    BY <2>8 DEF q
<1> QED
  BY <1>1, <1>4, <1>5, <1>6, IntoCases

-----------------------------------------------------------------------------
(* The levels of an evaluation, and those of a meaning.                         *)

LevelZero == [n \in Nodes |-> [i \in Instances |-> [run \in Runs |-> run]]]

LEMMA LevelMaps ==
  ASSUME NEW d, IsDocument(d), NEW below, Maps(below)
  PROVE  /\ Level(d, below) \in [Nodes -> [Instances -> [Runs -> Runs]]]
         /\ Maps(Level(d, below))
         /\ \A n \in Nodes : \A i \in Instances : \A run \in Runs :
              Level(d, below)[n][i][run] = CheckInto(d, below, n, i, run)
<1>1. \A n \in Nodes : \A i \in Instances : \A run \in Runs : CheckInto(d, below, n, i, run) \in Runs
  BY IntoTyped
<1>2. \A n \in Nodes : \A i \in Instances : \A run \in Runs :
        Level(d, below)[n][i][run] = CheckInto(d, below, n, i, run)
  BY DEF Level
<1>3. Level(d, below) \in [Nodes -> [Instances -> [Runs -> Runs]]]
  BY <1>1 DEF Level
<1> QED
  BY <1>1, <1>2, <1>3 DEF Maps

LEMMA EvaluationLevels ==
  ASSUME NEW d, IsDocument(d)
  PROVE  \E at : /\ Evaluation(d) = at[MaxSchemaDepth + 1]
                 /\ Maps(at[0])
                 /\ \A l \in 1..MaxSchemaDepth + 1 : at[l] = Level(d, at[l - 1])
<1> DEFINE N == MaxSchemaDepth + 1
           V == [Nodes -> [Instances -> [Runs -> Runs]]]
           step == [l \in 1..N |-> [b \in V |-> Level(d, b)]]
           Obeys(f) == f = [levels \in 0..MaxSchemaDepth + 1 |->
                              IF levels = 0 THEN [n \in Nodes |-> [i \in Instances |-> [run \in Runs |-> run]]]
                              ELSE Level(d, f[levels - 1])]
           at == CHOOSE f : Obeys(f)
<1>1. N \in Nat
  BY SchemaAssumption
<1>2. LevelZero \in V /\ Maps(LevelZero)
  BY DEF LevelZero, Maps
<1>3. \A b \in V : Level(d, b) \in V
  <2>1. \A b \in V : Maps(b)
    BY DEF Maps
  <2> QED
    BY <2>1, LevelMaps
<1>4. PICK f \in [0..N -> V] : Recursion(f, N, LevelZero, step)
  <2>1. \A l \in 1..N : \A b \in V : step[l][b] \in V
    BY <1>3
  <2> HIDE DEF V, step, N
  <2> QED
    BY <1>1, <1>2, <2>1, RecursionExists
<1>5. Obeys(f)
  <2>1. \A l \in 0..N : f[l] = IF l = 0 THEN LevelZero ELSE step[l][f[l - 1]]
    BY <1>4 DEF Recursion
  <2>2. ASSUME NEW l \in 0..N PROVE f[l] = IF l = 0 THEN LevelZero ELSE Level(d, f[l - 1])
    <3>1. CASE l = 0
      BY <2>1, <3>1
    <3>2. CASE l # 0
      <4>1. l \in 1..N /\ l - 1 \in 0..N
        BY <1>1, <3>2
      <4>2. f[l - 1] \in V
        BY <1>4, <4>1
      <4> QED
        BY <2>1, <3>2, <4>1, <4>2
    <3> QED
      BY <3>1, <3>2
  <2>3. f = [l \in 0..N |-> f[l]]
    BY <1>4
  <2> HIDE DEF V, step
  <2> QED
    BY <2>2, <2>3 DEF LevelZero
<1>6. Obeys(at)
  <2> HIDE DEF Obeys
  <2> QED
    BY <1>5
<1>7. Evaluation(d) = at[MaxSchemaDepth + 1]
  BY DEF Evaluation
<1> HIDE DEF at
<1>8. 0 \in 0..N /\ \A l \in 1..N : l \in 0..N /\ l # 0
  BY <1>1
<1>9. at[0] = LevelZero /\ \A l \in 1..N : at[l] = Level(d, at[l - 1])
  BY <1>6, <1>8 DEF LevelZero
<1> QED
  BY <1>2, <1>7, <1>9

(* What the nodes mean, level by level: each goes by what the one below says.   *)
Readings(d, means) ==
  /\ \A l \in 0..MaxSchemaDepth + 1 : \A n \in Nodes : \A i \in Instances : means[l][n][i] \in BOOLEAN
  /\ \A l \in 1..MaxSchemaDepth + 1 : \A n \in Nodes : \A i \in Instances :
       means[l][n][i] <=> Says(d, means[l - 1], n, i)

LEMMA NoClauses ==
  ASSUME NEW d, IsDocument(d), NEW n \in Nodes, d[n].kind # "object", NEW valid, NEW i
  PROVE  Says(d, valid, n, i) <=> d[n].kind # "false"
<1>1. d[n].keywords = << >>
  BY KeywordsOf
<1>2. \A name : Positions(d, n, name) = {}
  BY <1>1 DEF Positions
<1>3. \A name : ~Has(d, n, name)
  BY <1>2 DEF Has
<1> QED
  BY <1>3, SaysClauses

LEMMA PlainReadings ==
  ASSUME NEW d, IsDocument(d), NEW means, Readings(d, means), NEW l \in 1..MaxSchemaDepth + 1
  PROVE  Plain(d, means[l])
BY NoClauses DEF Plain, Readings

(* A level that evaluation enters at the depth that fits it says what is meant. *)
LEMMA LevelsAnswer ==
  ASSUME NEW d, IsDocument(d), NEW means, Readings(d, means)
  PROVE  \A n \in Nodes : \A i \in Instances : \A run \in Going(0) :
           Verdict(run, Evaluation(d)[n][i][run], means[MaxSchemaDepth + 1][n][i])
<1> DEFINE N == MaxSchemaDepth + 1
<1>1. PICK at : /\ Evaluation(d) = at[N] /\ Maps(at[0])
                /\ \A l \in 1..N : at[l] = Level(d, at[l - 1])
  BY EvaluationLevels
<1>2. MaxSchemaDepth \in Nat \ {0}
  BY SchemaAssumption
<1> DEFINE S == {l \in Nat : l <= N => Maps(at[l]) /\ (l # 0 => Answers(at[l], means[l], N - l))}
<1>3. 0 \in S
  BY <1>1
<1>4. ASSUME NEW l \in S PROVE l + 1 \in S
  <2> SUFFICES ASSUME l + 1 <= N PROVE Maps(at[l + 1]) /\ Answers(at[l + 1], means[l + 1], N - (l + 1))
    OBVIOUS
  <2> DEFINE depth == N - (l + 1)
  <2>1. l + 1 \in 1..N /\ l + 1 \in 0..N /\ (l + 1) - 1 = l /\ l <= N /\ l \in Nat
        /\ depth \in Int /\ (l # 0 => l \in 1..N /\ N - l = depth + 1) /\ (l = 0 => ~(depth < MaxSchemaDepth))
    BY <1>2
  <2>2. Maps(at[l]) /\ (l # 0 => Answers(at[l], means[l], N - l))
    BY <2>1
  <2>3. at[l + 1] = Level(d, at[l])
    BY <1>1, <2>1
  <2>4. depth < MaxSchemaDepth => Answers(at[l], means[l], depth + 1) /\ Plain(d, means[l])
    <3> HIDE DEF depth
    <3> QED
      BY <2>1, <2>2, PlainReadings
  <2>5. \A n \in Nodes : \A i \in Instances :
          means[l + 1][n][i] \in BOOLEAN /\ (means[l + 1][n][i] <=> Says(d, means[l], n, i))
    BY <2>1 DEF Readings
  <2> HIDE DEF depth, S
  <2>6. \A n \in Nodes : \A i \in Instances : \A run \in Going(depth) :
          /\ at[l + 1][n][i][run] = CheckInto(d, at[l], n, i, run)
          /\ Verdict(run, CheckInto(d, at[l], n, i, run), Says(d, means[l], n, i))
    <3>1. \A run \in Going(depth) : run \in Runs
      BY VerdictSame
    <3> QED
      BY <2>1, <2>2, <2>3, <2>4, <3>1, LevelMaps, IntoVerdict
  <2>7. Answers(at[l + 1], means[l + 1], depth)
    <3> SUFFICES ASSUME NEW n \in Nodes, NEW i \in Instances
                 PROVE  /\ means[l + 1][n][i] \in BOOLEAN
                        /\ \A run \in Going(depth) : Verdict(run, at[l + 1][n][i][run], means[l + 1][n][i])
      BY DEF Answers
    <3> QED
      BY <2>5, <2>6 DEF Verdict
  <2> QED
    BY <2>2, <2>3, <2>7, LevelMaps DEF depth
<1>5. S = Nat
  <2> HIDE DEF S
  <2>1. S \in SUBSET Nat
    BY DEF S
  <2> QED
    BY <1>3, <1>4, <2>1, SetInduction
<1>6. N \in S /\ N # 0 /\ N <= N /\ N - N = 0
  BY <1>2, <1>5
<1>7. Answers(at[N], means[N], 0)
  BY <1>6
<1> QED
  BY <1>1, <1>7 DEF Answers

LEMMA MeaningReadings ==
  ASSUME NEW d, NEW deeper \in BOOLEAN
  PROVE  \E means : Readings(d, means) /\ Meaning(d, deeper) = means[MaxSchemaDepth + 1]
<1> DEFINE N == MaxSchemaDepth + 1
           V == [Nodes -> [Instances -> BOOLEAN]]
           start == [n \in Nodes |-> [i \in Instances |-> deeper]]
           Said(v) == [n \in Nodes |-> [i \in Instances |-> Says(d, v, n, i)]]
           step == [l \in 1..N |-> [v \in V |-> Said(v)]]
           Obeys(f) == f = [levels \in 0..MaxSchemaDepth + 1 |->
                              IF levels = 0 THEN [n \in Nodes |-> [i \in Instances |-> deeper]]
                              ELSE [n \in Nodes |-> [i \in Instances |-> Says(d, f[levels - 1], n, i)]]]
           means == CHOOSE f : Obeys(f)
<1>1. N \in Nat
  BY SchemaAssumption
<1>2. start \in V
  OBVIOUS
<1>3. \A v : Said(v) \in V
  BY DEF Says
<1>4. PICK f \in [0..N -> V] : Recursion(f, N, start, step)
  <2>1. \A l \in 1..N : \A v \in V : step[l][v] \in V
    BY <1>3
  <2> HIDE DEF V, step, N, start
  <2> QED
    BY <1>1, <1>2, <2>1, RecursionExists
<1>5. Obeys(f)
  <2>1. \A l \in 0..N : f[l] = IF l = 0 THEN start ELSE step[l][f[l - 1]]
    BY <1>4 DEF Recursion
  <2>2. ASSUME NEW l \in 0..N PROVE f[l] = IF l = 0 THEN start ELSE Said(f[l - 1])
    <3> HIDE DEF Said, start
    <3>1. CASE l = 0
      BY <2>1, <3>1
    <3>2. CASE l # 0
      <4>1. l \in 1..N /\ l - 1 \in 0..N
        BY <1>1, <3>2
      <4>2. f[l - 1] \in V
        BY <1>4, <4>1
      <4> QED
        BY <2>1, <3>2, <4>1, <4>2
    <3> QED
      BY <3>1, <3>2
  <2>3. f = [l \in 0..N |-> f[l]]
    BY <1>4
  <2> HIDE DEF V, step
  <2> QED
    BY <2>2, <2>3
<1>6. Obeys(means)
  <2> HIDE DEF Obeys
  <2> QED
    BY <1>5
<1>7. Meaning(d, deeper) = means[MaxSchemaDepth + 1]
  BY DEF Meaning
<1> HIDE DEF means
<1>8. 0 \in 0..N /\ \A l \in 1..N : l \in 0..N /\ l # 0
  BY <1>1
<1>9. means[0] = start /\ \A l \in 1..N : means[l] = Said(means[l - 1])
  BY <1>6, <1>8
<1>10. \A l \in 0..N : l = 0 \/ l \in 1..N
  BY <1>1
<1>11. \A l \in 0..N : means[l] \in V
  <2> HIDE DEF Said, start, V
  <2> QED
    BY <1>2, <1>3, <1>9, <1>10
<1>12. \A l \in 0..N : \A n \in Nodes : \A i \in Instances : means[l][n][i] \in BOOLEAN
  BY <1>11
<1>13. \A l \in 1..N : \A n \in Nodes : \A i \in Instances :
         means[l][n][i] <=> Says(d, means[l - 1], n, i)
  <2>1. \A v : \A n \in Nodes : \A i \in Instances : Said(v)[n][i] = Says(d, v, n, i)
    OBVIOUS
  <2> HIDE DEF Said
  <2> QED
    BY <1>9, <2>1
<1> QED
  BY <1>7, <1>12, <1>13 DEF Readings

-----------------------------------------------------------------------------
(* The report. *)

LEMMA NewRunGoing ==
  ASSUME NEW i \in Instances
  PROVE  NewRun(i) \in Going(0) /\ NewRun(i).errors = << >>
<1>1. BaseSteps + StepsPerNode * NodeCount[i] \in Nat
  <2> DEFINE c == NodeCount[i]
  <2>1. c \in Nat
    BY InstancesAssumption
  <2> HIDE DEF c
  <2>2. StepsPerNode * c \in Nat
    BY <2>1, CheckAssumption
  <2> QED
    BY <2>2, CheckAssumption DEF c
<1>2. << >> \in Seq(Failures \cup Stops) /\ Len(<< >>) = 0 /\ 0 <= MaxCollectedErrors
  BY CheckAssumption
<1> QED
  BY <1>1, <1>2 DEF NewRun, Going, Ok, Runs, Stopped, Stops

LEMMA EvaluationVerdict ==
  ASSUME NEW d, IsDocument(d), NEW means, Readings(d, means), NEW i \in Instances,
         NEW run, run = Evaluation(d)[Root][i][NewRun(i)]
  PROVE  /\ run \in Ok(0)
         /\ ~Stopped(run) => ((run.errors = << >>) <=> means[MaxSchemaDepth + 1][Root][i])
<1>1. NewRun(i) \in Going(0) /\ NewRun(i).errors = << >> /\ Root \in Nodes
  BY NewRunGoing, SchemaAssumption
<1>2. Verdict(NewRun(i), run, means[MaxSchemaDepth + 1][Root][i])
  BY <1>1, LevelsAnswer
<1> QED
  BY <1>1, <1>2, VerdictSame DEF Verdict

LEMMA RenderedErrors ==
  ASSUME NEW list \in Seq(Failures \cup Stops)
  PROVE  /\ Len(FormatErrors(list)) <= MaxReportedErrors
         /\ (\E k \in DOMAIN list : list[k] = "steps") =>
              \E k \in DOMAIN FormatErrors(list) : FormatErrors(list)[k] = "steps"
<1> DEFINE V == Seq(Failures \cup Stops)
           told == \E k \in DOMAIN list : list[k] = "steps"
           start == IF told THEN <<"steps">> ELSE << >>
           Room(s) == Len(s) <= MaxReportedErrors /\ (told => s # << >> /\ s[1] = "steps")
           P == [k \in 0..Len(list) |-> {s \in V : Room(s)}]
           steps == [k \in DOMAIN list |-> [s \in V |->
                       IF list[k] = "steps" \/ Len(s) = MaxReportedErrors THEN s ELSE Append(s, list[k])]]
<1>1. FormatErrors(list) = Through(steps, start)
  BY DEF FormatErrors
<1>2. Len(list) \in Nat /\ DOMAIN list = 1..Len(list) /\ \A k \in 1..Len(list) : list[k] \in Failures \cup Stops
  OBVIOUS
<1>3. MaxReportedErrors \in Nat \ {0}
  BY CheckAssumption
<1>4. start \in V /\ Room(start)
  <2>1. CASE told
    <3>1. "steps" \in Failures \cup Stops
      BY DEF Stops
    <3>2. <<"steps">> \in V /\ Len(<<"steps">>) = 1 /\ <<"steps">>[1] = "steps" /\ <<"steps">> # << >>
      BY <3>1
    <3>3. start = <<"steps">>
      BY <2>1
    <3>4. Len(<<"steps">>) <= MaxReportedErrors
      BY <1>3, <3>2
    <3> HIDE DEF start, told, V
    <3> QED
      BY <3>2, <3>3, <3>4
  <2>2. CASE ~told
    BY <1>3, <2>2
  <2> QED
    BY <2>1, <2>2
<1> HIDE DEF told
<1>5. Len(steps) = Len(list)
  <2>1. DOMAIN steps = 1..Len(list)
    BY <1>2
  <2> HIDE DEF steps
  <2> QED
    BY <1>2, <2>1
<1>6. ASSUME NEW k \in 1..Len(list), NEW s \in V
      PROVE  steps[k][s] \in V /\ (Room(s) => Room(steps[k][s]))
  <2>1. steps[k][s] = IF list[k] = "steps" \/ Len(s) = MaxReportedErrors THEN s ELSE Append(s, list[k])
    BY <1>2
  <2>2. CASE list[k] = "steps" \/ Len(s) = MaxReportedErrors
    BY <2>1, <2>2
  <2>3. CASE ~(list[k] = "steps" \/ Len(s) = MaxReportedErrors)
    <3> DEFINE e == list[k]
    <3>1. e \in Failures \cup Stops /\ steps[k][s] = Append(s, e)
      BY <1>2, <2>1, <2>3
    <3> HIDE DEF e, steps
    <3>2. Append(s, e) \in V /\ Len(Append(s, e)) = Len(s) + 1 /\ Append(s, e) # << >>
      BY <3>1
    <3>3. s # << >> => Append(s, e)[1] = s[1]
      <4>1. s # << >> => 1 \in 1..Len(s)
        OBVIOUS
      <4> QED
        BY <4>1, <3>1
    <3>4. Len(s) <= MaxReportedErrors => Len(s) + 1 <= MaxReportedErrors
      BY <1>3, <2>3
    <3> QED
      BY <3>1, <3>2, <3>3, <3>4
  <2> QED
    BY <2>2, <2>3
<1>7. Through(steps, start) \in V /\ Room(Through(steps, start))
  <2> HIDE DEF V, Room, steps, start
  <2>1. start \in P[0] /\ \A k \in 0..Len(list) : P[k] = {s \in V : Room(s)}
    BY <1>2, <1>4
  <2>2. \A k \in 1..Len(list) : k \in 0..Len(list) /\ k - 1 \in 0..Len(list)
    BY <1>2
  <2>3. Len(list) \in 0..Len(list)
    BY <1>2
  <2>4. \A k \in 1..Len(steps) : \A s \in V : steps[k][s] \in V /\ (s \in P[k - 1] => steps[k][s] \in P[k])
    BY <1>5, <1>6, <2>1, <2>2
  <2> HIDE DEF P
  <2>5. Through(steps, start) \in V /\ Through(steps, start) \in P[Len(steps)]
    BY <1>2, <1>4, <1>5, <2>1, <2>4, ThroughKeeps
  <2> QED
    BY <1>5, <2>1, <2>3, <2>5
<1>8. told => 1 \in DOMAIN Through(steps, start) /\ Through(steps, start)[1] = "steps"
  <2> HIDE DEF steps, start
  <2> QED
    BY <1>7
<1> QED
  BY <1>1, <1>7, <1>8 DEF told

-----------------------------------------------------------------------------
(* What a call may report of a document: nothing, or what evaluation found.     *)

(* A reading of a document says of every node what the node says by it.         *)
Reading(d, reading) ==
  /\ reading \in [Nodes -> [Instances -> BOOLEAN]]
  /\ \A n \in Nodes : \A i \in Instances : reading[n][i] <=> Says(d, reading, n, i)

(* S-1: an evaluation that was not stopped accepts what every reading of the    *)
(* schema accepts: where the schema can be read, budget and order had no say.   *)
VerdictIsEveryReading ==
  Evaluated /\ report.run.stop = "none" =>
    \A reading : Reading(schema, reading) =>
      ((report.run.errors = << >>) <=> reading[Root][instance])

CheckInv == IsDocument(schema) /\ VerdictIsMeaning /\ StopIsReported /\ VerdictIsEveryReading

LEMMA EvaluateKeepsInv ==
  ASSUME CheckInv, Evaluate
  PROVE  CheckInv'
<1>1. IsDocument(schema) /\ schema' = schema /\ IsDocument(schema')
  BY DEF CheckInv, Evaluate, walkVars
<1>2. PICK i \in Instances :
        /\ instance' = i
        /\ report' = [kind |-> "evaluated",
                      run |-> Evaluation(schema)[Root][i][NewRun(i)],
                      rendered |-> FormatErrors(Evaluation(schema)[Root][i][NewRun(i)].errors)]
  BY DEF Evaluate
<1> DEFINE run == Evaluation(schema)[Root][i][NewRun(i)]
<1>3. report'.run = run /\ report'.rendered = FormatErrors(run.errors)
  BY <1>2
<1>4. \A means : Readings(schema, means) =>
        /\ run \in Ok(0)
        /\ ~Stopped(run) => ((run.errors = << >>) <=> means[MaxSchemaDepth + 1][Root][i])
  BY <1>1, EvaluationVerdict
<1> HIDE DEF run
<1>5. ASSUME NEW deeper \in BOOLEAN
      PROVE  /\ run \in Ok(0)
             /\ ~Stopped(run) => ((run.errors = << >>) <=> Meaning(schema, deeper)[Root][i])
  BY <1>4, MeaningReadings
<1>6. VerdictIsMeaning'
  BY <1>1, <1>2, <1>3, <1>5 DEF VerdictIsMeaning, Stopped
<1>7. StopIsReported'
  <2>1. run \in Ok(0)
    BY <1>5
  <2>2. /\ run.depth = 0 /\ Len(run.errors) <= MaxCollectedErrors
        /\ run.errors \in Seq(Failures \cup Stops)
        /\ Stopped(run) => \E k \in DOMAIN run.errors : run.errors[k] = run.stop
    BY <2>1 DEF Ok, Runs
  <2>3. Len(FormatErrors(run.errors)) <= MaxReportedErrors
    BY <2>2, RenderedErrors
  <2>4. run.stop = "steps" =>
          \E k \in DOMAIN FormatErrors(run.errors) : FormatErrors(run.errors)[k] = "steps"
    <3>1. run.stop = "steps" => \E k \in DOMAIN run.errors : run.errors[k] = "steps"
      BY <2>2 DEF Stopped
    <3> QED
      BY <2>2, <3>1, RenderedErrors
  <2> QED
    BY <1>3, <2>2, <2>3, <2>4 DEF StopIsReported, Stopped
<1>8. ASSUME NEW reading, Reading(schema, reading), ~Stopped(run)
      PROVE  (run.errors = << >>) <=> reading[Root][i]
  <2> DEFINE means == [l \in 0..MaxSchemaDepth + 1 |-> reading]
  <2>1. MaxSchemaDepth \in Nat
    BY SchemaAssumption
  <2>2. (\A l \in 0..MaxSchemaDepth + 1 : means[l] = reading)
        /\ MaxSchemaDepth + 1 \in 0..MaxSchemaDepth + 1
        /\ \A l \in 1..MaxSchemaDepth + 1 : l \in 0..MaxSchemaDepth + 1 /\ l - 1 \in 0..MaxSchemaDepth + 1
    BY <2>1
  <2> HIDE DEF means
  <2>3. Readings(schema, means)
    BY <1>8, <2>2 DEF Reading, Readings
  <2> QED
    BY <1>4, <1>8, <2>2, <2>3
<1>9. VerdictIsEveryReading'
  BY <1>1, <1>2, <1>3, <1>8 DEF VerdictIsEveryReading, Stopped
<1> QED
  BY <1>1, <1>6, <1>7, <1>9 DEF CheckInv

LEMMA WalkKeepsDocument ==
  ASSUME Next
  PROVE  schema' = schema
BY DEF Next, VisitAssertion, RefuseKeyword, VisitSubschema, VisitReference, LeaveNode, Classified

LEMMA CheckStepKeepsInv ==
  ASSUME CheckInv, [CheckNext]_vars
  PROVE  CheckInv'
<1> USE DEF CheckInv, VerdictIsMeaning, StopIsReported, VerdictIsEveryReading, Evaluated
<1>1. CASE Walk
  <2>1. schema' = schema
    BY <1>1, WalkKeepsDocument DEF Walk
  <2> QED
    BY <1>1, <2>1 DEF Walk
<1>2. CASE Refused
  BY <1>2 DEF Refused, walkVars
<1>3. CASE Evaluate
  BY <1>3, EvaluateKeepsInv
<1>4. CASE UNCHANGED vars
  BY <1>4 DEF vars, walkVars
<1> QED
  BY <1>1, <1>2, <1>3, <1>4 DEF CheckNext

THEOREM CheckInvHolds == CheckSpec => []CheckInv
<1>1. ASSUME CheckInit PROVE CheckInv
  <2>1. IsDocument(schema)
    BY <1>1, SchemaAssumption DEF CheckInit, Init
  <2>2. ~Evaluated
    BY <1>1 DEF CheckInit, Evaluated, Nothing
  <2> QED
    BY <2>1, <2>2 DEF CheckInv, VerdictIsMeaning, StopIsReported, VerdictIsEveryReading
<1>2. CheckInv /\ [CheckNext]_vars => CheckInv'
  BY CheckStepKeepsInv
<1> QED
  BY <1>1, <1>2, PTL DEF CheckSpec

(* S-1, S-11: for every set of documents and instances, depth bound, step        *)
(* budget and cap: an evaluation that was not stopped accepts exactly what the   *)
(* schema means.                                                                *)
THEOREM VerdictIsAlwaysMeaning == CheckSpec => []VerdictIsMeaning
BY CheckInvHolds, PTL DEF CheckInv

(* S-11, S-12: for all of these too, a stop in any probe ends in a report that   *)
(* names it, within the caps.                                                   *)
THEOREM StopIsAlwaysReported == CheckSpec => []StopIsReported
BY CheckInvHolds, PTL DEF CheckInv

(* S-1: where a schema can be read at all, the verdict is that reading's: no     *)
(* two of them differ on the root of an instance that was evaluated to its end. *)
THEOREM VerdictIsAlwaysEveryReading == CheckSpec => []VerdictIsEveryReading
BY CheckInvHolds, PTL DEF CheckInv

(* The call is the walk, then one report: what holds of every walk holds here.  *)
THEOREM CheckIsWalk == CheckSpec => Spec
<1>1. CheckInit => Init
  BY DEF CheckInit
<1>2. [CheckNext]_vars => [Next]_walkVars
  BY DEF CheckNext, Walk, Refused, Evaluate, vars, walkVars
<1> QED
  BY <1>1, <1>2, PTL DEF CheckSpec, Spec
=============================================================================
