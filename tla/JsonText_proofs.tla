--------------------------- MODULE JsonText_proofs ---------------------------
(***************************************************************************)
(* Proofs about JsonText: the flat list of hashed keys that ordered_stream   *)
(* searches for repeats is, in every text, the keys of the objects now open; *)
(* and what it has written is, container by container, the text of the value *)
(* that `parse` has built so far.                                            *)
(***************************************************************************)
EXTENDS JsonText, SequenceTheorems, WellFoundedInduction, TLAPS

-----------------------------------------------------------------------------
(* Sequences as functions on 1..n: what the stack operations do to them.      *)

(* A sequence, over whatever set.                                             *)
IsSeq(s) == s \in Seq(ToSet(s))

(* A sequence over any set is one over the set of its own elements.           *)
LEMMA OwnElements ==
  ASSUME NEW S, NEW s \in Seq(S)
  PROVE  IsSeq(s)
<1>1. Len(s) \in Nat /\ s \in [1..Len(s) -> S] /\ DOMAIN s = 1..Len(s)
  BY LenProperties
<1>2. \A k \in 1..Len(s) : s[k] \in ToSet(s)
  BY <1>1 DEF ToSet
<1>3. s \in [1..Len(s) -> ToSet(s)]
  BY <1>1, <1>2
<1> QED
  BY <1>1, <1>3, SeqDef DEF IsSeq

(* A sequence is a function on 1..Len(s).                                     *)
LEMMA Listed ==
  ASSUME NEW s, IsSeq(s)
  PROVE  /\ Len(s) \in Nat /\ DOMAIN s = 1..Len(s)
         /\ s # <<>> => Len(s) \in Nat \ {0}
BY EmptySeq, LenProperties DEF IsSeq

(* Append leaves what was there and adds one element at the end.              *)
LEMMA Pushed ==
  ASSUME NEW s, IsSeq(s), NEW e
  PROVE  /\ IsSeq(Append(s, e))
         /\ Len(Append(s, e)) = Len(s) + 1
         /\ Append(s, e)[Len(s) + 1] = e
         /\ \A k \in 1..Len(s) : Append(s, e)[k] = s[k]
<1> DEFINE S == ToSet(s) \cup {e}
<1>1. s \in Seq(S) /\ e \in S
  BY SeqMonotonic DEF IsSeq
<1> HIDE DEF S
<1>2. Append(s, e) \in Seq(S) /\ Len(Append(s, e)) = Len(s) + 1
      /\ \A k \in 1..Len(s) : Append(s, e)[k] = s[k]
      /\ Append(s, e)[Len(s) + 1] = e
  BY <1>1, AppendProperties
<1>3. IsSeq(Append(s, e))
  BY <1>2, OwnElements
<1> QED
  BY <1>2, <1>3

(* Front drops the last element and nothing else.                             *)
LEMMA Popped ==
  ASSUME NEW s, IsSeq(s), s # <<>>
  PROVE  /\ IsSeq(Front(s))
         /\ Len(Front(s)) = Len(s) - 1
         /\ \A k \in 1..Len(s) - 1 : Front(s)[k] = s[k]
<1> DEFINE S == ToSet(s)
<1>1. s \in Seq(S) /\ Len(s) \in Nat \ {0}
  BY EmptySeq DEF IsSeq
<1> HIDE DEF S
<1>2. PICK n \in Nat : n = Len(s) - 1
  BY <1>1
<1>3. \A k \in 1..n : s[k] \in S
  BY <1>1, <1>2, ElementOfSeq
<1>4. /\ SubSeq(s, 1, n) \in Seq(S)
      /\ Len(SubSeq(s, 1, n)) = IF 1 <= n THEN n - 1 + 1 ELSE 0
      /\ \A k \in 1..n - 1 + 1 : SubSeq(s, 1, n)[k] = s[1 + k - 1]
  <2>1. 1 \in Int /\ n \in Int
    OBVIOUS
  <2> QED
    BY <2>1, <1>3, SubSeqProperties, SMT
<1>5. Len(SubSeq(s, 1, n)) = n /\ \A k \in 1..n : SubSeq(s, 1, n)[k] = s[k]
  BY <1>4
<1>6. Front(s) = SubSeq(s, 1, n)
  BY <1>2 DEF Front
<1>7. IsSeq(SubSeq(s, 1, n))
  BY <1>4, OwnElements
<1> QED
  BY <1>2, <1>5, <1>6, <1>7

(* One element of s is another one in t.                                      *)
Differs(s, t, n) ==
  t = [k \in DOMAIN s |-> t[k]] /\ \A k \in DOMAIN s : k # n => t[k] = s[k]

(* EXCEPT at one index changes at most that element.                          *)
LEMMA Except ==
  ASSUME NEW s, NEW n, NEW e PROVE Differs(s, [s EXCEPT ![n] = e], n)
BY DEF Differs

(* A sequence with one element replaced is a sequence of the same length.     *)
LEMMA Replaced ==
  ASSUME NEW s, IsSeq(s), NEW n \in 1..Len(s), NEW t, Differs(s, t, n)
  PROVE  /\ IsSeq(t) /\ Len(t) = Len(s)
         /\ \A k \in 1..Len(s) : k # n => t[k] = s[k]
<1> DEFINE S == ToSet(s) \cup {t[n]}
<1>1. DOMAIN s = 1..Len(s) /\ Len(s) \in Nat /\ s \in Seq(S)
  BY SeqMonotonic, Listed DEF IsSeq
<1>2. \A k \in 1..Len(s) : t[k] \in S
  BY <1>1 DEF Differs, ToSet
<1>3. t = [k \in 1..Len(s) |-> t[k]]
  BY <1>1 DEF Differs
<1> HIDE DEF S
<1>4. t \in [1..Len(s) -> S]
  BY <1>2, <1>3
<1>5. t \in Seq(S)
  BY <1>1, <1>4, SeqDef
<1>6. DOMAIN t = 1..Len(t) /\ Len(t) \in Nat
  BY <1>5, LenProperties
<1>7. Len(t) = Len(s)
  BY <1>1, <1>4, <1>6
<1> QED
  BY <1>1, <1>5, <1>7, OwnElements DEF Differs

(* A function on 1..n is a sequence of length n.                              *)
LEMMA FunctionIsSeq ==
  ASSUME NEW n \in Nat, NEW t, t = [k \in 1..n |-> t[k]]
  PROVE  IsSeq(t) /\ Len(t) = n
<1> DEFINE S == {t[k] : k \in 1..n}
<1>1. t \in [1..n -> S]
  OBVIOUS
<1> HIDE DEF S
<1>2. t \in Seq(S)
  BY <1>1, SeqDef
<1>3. Len(t) = n
  BY <1>1, <1>2, LenProperties
<1> QED
  BY <1>2, <1>3, OwnElements

(* IndexMap::insert adds a key and no other.                                  *)
LEMMA InsertKeys ==
  ASSUME NEW m, IsSeq(m), NEW k, NEW v
  PROVE  IsSeq(Insert(m, k, v)) /\ KeysOf(Insert(m, k, v)) = KeysOf(m) \cup {k}
<1>1. Len(m) \in Nat /\ DOMAIN m = 1..Len(m)
  BY Listed
<1>2. CASE k \in KeysOf(m)
  <2> DEFINE t == [i \in DOMAIN m |-> IF m[i][1] = k THEN <<k, v>> ELSE m[i]]
  <2>1. Insert(m, k, v) = t
    BY <1>2 DEF Insert
  <2>2. IsSeq(t) /\ DOMAIN t = DOMAIN m
    <3>1. t = [i \in 1..Len(m) |-> t[i]]
      BY <1>1
    <3> HIDE DEF t
    <3> QED
      BY <1>1, <3>1, FunctionIsSeq
  <2>3. \A i \in DOMAIN m : t[i][1] = m[i][1]
    OBVIOUS
  <2> HIDE DEF t
  <2>4. KeysOf(t) = KeysOf(m)
    BY <2>2, <2>3 DEF KeysOf
  <2> QED
    BY <1>2, <2>1, <2>2, <2>4
<1>3. CASE k \notin KeysOf(m)
  <2> DEFINE e == <<k, v>>
  <2>1. e[1] = k
    OBVIOUS
  <2> HIDE DEF e
  <2>2. Insert(m, k, v) = Append(m, e)
    BY <1>3 DEF Insert, e
  <2>3. PICK t : t = Append(m, e)
    OBVIOUS
  <2>4. /\ IsSeq(t) /\ DOMAIN t = 1..Len(m) + 1
        /\ t[Len(m) + 1] = e /\ \A i \in 1..Len(m) : t[i] = m[i]
    <3>1. IsSeq(t) /\ Len(t) = Len(m) + 1 /\ t[Len(m) + 1] = e /\ \A i \in 1..Len(m) : t[i] = m[i]
      BY <2>3, Pushed
    <3>2. DOMAIN t = 1..Len(t)
      BY <3>1, Listed
    <3> QED
      BY <3>1, <3>2
  <2>5. KeysOf(t) = KeysOf(m) \cup {k}
    <3>1. \A i \in 1..Len(m) : i \in DOMAIN t /\ t[i][1] = m[i][1]
      BY <1>1, <2>4
    <3>2. Len(m) + 1 \in DOMAIN t /\ t[Len(m) + 1][1] = k
      BY <1>1, <2>1, <2>4
    <3>3. \A i \in DOMAIN t : i \in 1..Len(m) \/ i = Len(m) + 1
      BY <1>1, <2>4
    <3> QED
      BY <1>1, <3>1, <3>2, <3>3 DEF KeysOf
  <2> QED
    BY <2>2, <2>3, <2>4, <2>5
<1> QED
  BY <1>2, <1>3

-----------------------------------------------------------------------------
(* The invariant. *)

(* A frame of `parse`: an array, or an object whose entries are a map.        *)
IsFrame(f) ==
  /\ DOMAIN f = {"value", "key"}
  /\ f.value.kind \in {"object", "array"}
  /\ f.value.kind = "object" => IsSeq(f.value.entries)

(* The two readers have the same containers open.                             *)
SameContainers ==
  /\ DOMAIN dom = {"expects", "stack", "value"}
  /\ DOMAIN stream = {"expects", "stack", "out", "seen", "repeated"}
  /\ IsSeq(dom.stack) /\ IsSeq(stream.stack) /\ Len(dom.stack) = Len(stream.stack)
  /\ \A i \in 1..Len(dom.stack) :
       IsFrame(dom.stack[i]) /\ stream.stack[i].kind = dom.stack[i].value.kind

(* What a reader may expect, by the container it is in.                       *)
Expecting ==
  /\ stream.expects \in {"value", "first", "key", "after", End}
  /\ stream.expects \in {"first", "key", "after"} <=> dom.stack # <<>> /\ stream.expects # "value"
  /\ stream.expects = "key" => dom.stack[Len(dom.stack)].value.kind = "object"

(* Where the key of an object's frame is: nowhere before the first one, in    *)
(* the map as soon as its value is, and meanwhile in the frame alone.          *)
KeysInPlace ==
  \A i \in 1..Len(dom.stack) : dom.stack[i].value.kind = "object" =>
    /\ dom.stack[i].key = "" <=> i = Len(dom.stack) /\ stream.expects = "first"
    /\ i = Len(dom.stack) /\ stream.expects \in {"key", "after"} =>
         dom.stack[i].key \in KeysOf(dom.stack[i].value.entries)

(* The marks are positions of `seen`, in the order of the containers.         *)
MarksInOrder ==
  /\ IsSeq(stream.seen) /\ IsSeq(stream.out)
  /\ \A i \in 1..Len(stream.stack) : stream.stack[i].mark \in 0..Len(stream.seen)
  /\ \A i, j \in 1..Len(stream.stack) : i <= j => stream.stack[i].mark <= stream.stack[j].mark

(* An entry of `seen` is about a token written, later than the entries before. *)
SeenIsWritten ==
  /\ \A k \in 1..Len(stream.seen) :
       /\ stream.seen[k].at \in 1..Len(stream.out)
       /\ stream.seen[k].hash = Hash(SeenAt(k))
  /\ \A j, k \in 1..Len(stream.seen) : j < k => stream.seen[j].at < stream.seen[k].at

(* Where the part of `seen` that belongs to a container ends.                 *)
Upto(i) == IF i = Len(stream.stack) THEN Len(stream.seen) ELSE stream.stack[i + 1].mark

SeenByContainer ==
  \A i \in 1..Len(stream.stack) :
    /\ stream.stack[i].kind = "object" => SeenKeys(i) = OpenKeys(i)
    /\ stream.stack[i].kind = "array" => stream.stack[i].mark = Upto(i)

(* While the readers read.                                                    *)
Open ==
  /\ SameContainers /\ Expecting /\ KeysInPlace /\ MarksInOrder
  /\ stream.repeated \in BOOLEAN
  /\ ~stream.repeated => SeenIsWritten /\ SeenByContainer

TextInv ==
  /\ dom.expects = stream.expects
  /\ Reading(stream) => Open

-----------------------------------------------------------------------------
(* The steps both readers take together. *)

Kind == IF dom.stack = << >> THEN "text" ELSE dom.stack[Len(dom.stack)].value.kind

ExpectsValue == stream.expects = "value" \/ (stream.expects = "first" /\ Kind = "array")

Fails ==
  dom'.expects = "failed" /\ stream'.expects = "failed" /\ stream'.repeated = stream.repeated

Finishes ==
  /\ stream.expects = End
  /\ dom'.expects = "read" /\ dom'.value = dom.value
  /\ stream'.expects = "read" /\ stream'.repeated = stream.repeated /\ stream'.out = stream.out

Opens(kind, token) ==
  /\ ExpectsValue /\ ~(Len(dom.stack) > MaxDepth)
  /\ token = IF kind = "object" THEN "{" ELSE "["
  /\ dom' = DomOpen(dom, IF kind = "object" THEN Object(NoEntries) ELSE Array(<< >>))
  /\ stream' = StreamOpen(kind, token)

TakesScalar(token) ==
  /\ ExpectsValue /\ ~(Len(dom.stack) > MaxDepth) /\ token \in Scalars
  /\ dom' = DomReturn(dom, dom.stack, Scalar(token))
  /\ stream' = [stream EXCEPT !.expects = After(stream.stack), !.out = Append(@, token)]

Closes(token) ==
  /\ dom.stack # << >> /\ stream.expects \in {"first", "after"}
  /\ token = IF Kind = "object" THEN "}" ELSE "]"
  /\ dom' = DomClose(dom)
  /\ stream' = StreamClose(token)

TakesKey(token) ==
  /\ token \in KeyTokens /\ Kind = "object"
  /\ stream.expects \in {"first", "key"}
  /\ dom' = DomKey(dom, token)
  /\ stream' = StreamKey(token)

Separates(token) ==
  /\ stream.expects = "after" /\ token = ","
  /\ dom' = [dom EXCEPT !.expects = IF Kind = "object" THEN "key" ELSE "value"]
  /\ stream' = [stream EXCEPT !.expects = IF Kind = "object" THEN "key" ELSE "value",
                              !.out = Append(@, token)]

(* Readers that fail expect nothing more.                                     *)
LEMMA FailTogether ==
  ASSUME SameContainers, dom' = Fail(dom), stream' = Fail(stream)
  PROVE  Fails
BY DEF SameContainers, Fail, Fails

(* The kind of container is the same for both.                                *)
LEMMA KindIsShared ==
  ASSUME SameContainers
  PROVE  /\ Kind = IF stream.stack = << >> THEN "text" ELSE Last(stream.stack).kind
         /\ Kind = IF dom.stack = << >> THEN "text" ELSE Last(dom.stack).value.kind
         /\ dom.stack # << >> => Kind \in {"object", "array"} /\ stream.stack # << >>
         /\ dom.stack = << >> => stream.stack = << >>
<1>1. PICK n \in Nat : n = Len(dom.stack) /\ n = Len(stream.stack)
  BY Listed DEF SameContainers
<1>2. dom.stack = << >> <=> n = 0
  BY <1>1, Listed DEF SameContainers
<1>3. stream.stack = << >> <=> n = 0
  BY <1>1, Listed DEF SameContainers
<1>4. CASE n = 0
  BY <1>2, <1>3, <1>4 DEF Kind
<1>5. CASE n # 0
  <2>1. n \in 1..n
    BY <1>1, <1>5
  <2>2. stream.stack[n].kind = dom.stack[n].value.kind /\ IsFrame(dom.stack[n])
    BY <1>1, <2>1 DEF SameContainers
  <2> QED
    BY <1>1, <1>2, <1>3, <1>5, <2>2 DEF Kind, Last, IsFrame
<1> QED
  BY <1>4, <1>5

(* What `parse` does with a token, by what it expects.                        *)
LEMMA DomBy ==
  ASSUME NEW token
  PROVE  LET kind == IF dom.stack = << >> THEN "text" ELSE Last(dom.stack).value.kind
         IN  /\ dom.expects = "value" => DomReads(dom, token) = DomValue(dom, token)
             /\ dom.expects = "first" /\ kind = "object" =>
                  DomReads(dom, token) = IF token = "}" THEN DomClose(dom) ELSE DomKey(dom, token)
             /\ dom.expects = "first" /\ kind = "array" =>
                  DomReads(dom, token) = IF token = "]" THEN DomClose(dom) ELSE DomValue(dom, token)
             /\ dom.expects = "key" => DomReads(dom, token) = DomKey(dom, token)
             /\ dom.expects = "after" =>
                  DomReads(dom, token) =
                    IF token = "," THEN [dom EXCEPT !.expects = IF kind = "object" THEN "key" ELSE "value"]
                    ELSE IF token = (IF kind = "object" THEN "}" ELSE "]") THEN DomClose(dom)
                    ELSE Fail(dom)
             /\ dom.expects = End =>
                  DomReads(dom, token) =
                    IF token = End THEN [dom EXCEPT !.expects = "read"] ELSE Fail(dom)
<1> DEFINE kind == IF dom.stack = << >> THEN "text" ELSE Last(dom.stack).value.kind
<1> HIDE DEF kind
<1>1. DomReads(dom, token) =
        CASE dom.expects \in {"failed", "read"} -> dom
          [] dom.expects = "value" -> DomValue(dom, token)
          [] dom.expects = "first" /\ kind = "object" -> IF token = "}" THEN DomClose(dom) ELSE DomKey(dom, token)
          [] dom.expects = "first" /\ kind = "array" -> IF token = "]" THEN DomClose(dom) ELSE DomValue(dom, token)
          [] dom.expects = "key" -> DomKey(dom, token)
          [] dom.expects = "after" /\ token = "," ->
               [dom EXCEPT !.expects = IF kind = "object" THEN "key" ELSE "value"]
          [] dom.expects = "after" /\ token = (IF kind = "object" THEN "}" ELSE "]") -> DomClose(dom)
          [] dom.expects = End /\ token = End -> [dom EXCEPT !.expects = "read"]
          [] OTHER -> Fail(dom)
  BY Zenon DEF DomReads, kind
<1>2. PICK a, b, c, d, e, f :
        /\ a = DomValue(dom, token) /\ b = DomClose(dom) /\ c = DomKey(dom, token)
        /\ d = [dom EXCEPT !.expects = IF kind = "object" THEN "key" ELSE "value"]
        /\ e = [dom EXCEPT !.expects = "read"]
        /\ f = Fail(dom)
  OBVIOUS
<1>3. dom.expects = "value" => DomReads(dom, token) = a
  BY <1>1, <1>2 DEF End
<1>4. dom.expects = "first" /\ kind = "object" =>
        DomReads(dom, token) = IF token = "}" THEN b ELSE c
  BY <1>1, <1>2 DEF End
<1>5. dom.expects = "first" /\ kind = "array" =>
        DomReads(dom, token) = IF token = "]" THEN b ELSE a
  BY <1>1, <1>2 DEF End
<1>6. dom.expects = "key" => DomReads(dom, token) = c
  BY <1>1, <1>2 DEF End
<1>7. dom.expects = "after" =>
        DomReads(dom, token) = IF token = "," THEN d
                               ELSE IF token = (IF kind = "object" THEN "}" ELSE "]") THEN b ELSE f
  <2>1. CASE token = ","
    BY <1>1, <1>2, <2>1 DEF End
  <2>2. CASE token # "," /\ token = (IF kind = "object" THEN "}" ELSE "]")
    BY <1>1, <1>2, <2>2 DEF End
  <2>3. CASE token # "," /\ token # (IF kind = "object" THEN "}" ELSE "]")
    BY <1>1, <1>2, <2>3 DEF End
  <2> QED
    BY <2>1, <2>2, <2>3
<1>8. dom.expects = End => DomReads(dom, token) = IF token = End THEN e ELSE f
  BY <1>1, <1>2 DEF End
<1> QED
  BY <1>2, <1>3, <1>4, <1>5, <1>6, <1>7, <1>8 DEF kind

(* What `ordered_stream` does with a token, by what it expects.               *)
LEMMA StreamBy ==
  ASSUME NEW token
  PROVE  LET kind == IF stream.stack = << >> THEN "text" ELSE Last(stream.stack).kind
         IN  /\ stream.expects = "value" => StreamReads(token) = StreamValue(token)
             /\ stream.expects = "first" /\ kind = "object" =>
                  StreamReads(token) = IF token = "}" THEN StreamClose(token) ELSE StreamKey(token)
             /\ stream.expects = "first" /\ kind = "array" =>
                  StreamReads(token) = IF token = "]" THEN StreamClose(token) ELSE StreamValue(token)
             /\ stream.expects = "key" => StreamReads(token) = StreamKey(token)
             /\ stream.expects = "after" =>
                  StreamReads(token) =
                    IF token = "," THEN [stream EXCEPT !.expects = IF kind = "object" THEN "key" ELSE "value",
                                                       !.out = Append(@, ",")]
                    ELSE IF token = (IF kind = "object" THEN "}" ELSE "]") THEN StreamClose(token)
                    ELSE Fail(stream)
             /\ stream.expects = End =>
                  StreamReads(token) =
                    IF token = End THEN [stream EXCEPT !.expects = "read"] ELSE Fail(stream)
<1> DEFINE kind == IF stream.stack = << >> THEN "text" ELSE Last(stream.stack).kind
<1> HIDE DEF kind
<1>1. StreamReads(token) =
        CASE stream.expects = "failed" -> stream
          [] stream.expects = "value" -> StreamValue(token)
          [] stream.expects = "first" /\ kind = "object" ->
               IF token = "}" THEN StreamClose(token) ELSE StreamKey(token)
          [] stream.expects = "first" /\ kind = "array" ->
               IF token = "]" THEN StreamClose(token) ELSE StreamValue(token)
          [] stream.expects = "key" -> StreamKey(token)
          [] stream.expects = "after" /\ token = "," ->
               [stream EXCEPT !.expects = IF kind = "object" THEN "key" ELSE "value",
                              !.out = Append(@, ",")]
          [] stream.expects = "after" /\ token = (IF kind = "object" THEN "}" ELSE "]") ->
               StreamClose(token)
          [] stream.expects = End /\ token = End -> [stream EXCEPT !.expects = "read"]
          [] OTHER -> Fail(stream)
  BY Zenon DEF StreamReads, kind
<1>2. PICK a, b, c, d, e, f :
        /\ a = StreamValue(token) /\ b = StreamClose(token) /\ c = StreamKey(token)
        /\ d = [stream EXCEPT !.expects = IF kind = "object" THEN "key" ELSE "value",
                              !.out = Append(@, ",")]
        /\ e = [stream EXCEPT !.expects = "read"]
        /\ f = Fail(stream)
  OBVIOUS
<1>3. stream.expects = "value" => StreamReads(token) = a
  BY <1>1, <1>2 DEF End
<1>4. stream.expects = "first" /\ kind = "object" =>
        StreamReads(token) = IF token = "}" THEN b ELSE c
  BY <1>1, <1>2 DEF End
<1>5. stream.expects = "first" /\ kind = "array" =>
        StreamReads(token) = IF token = "]" THEN b ELSE a
  BY <1>1, <1>2 DEF End
<1>6. stream.expects = "key" => StreamReads(token) = c
  BY <1>1, <1>2 DEF End
<1>7. stream.expects = "after" =>
        StreamReads(token) = IF token = "," THEN d
                             ELSE IF token = (IF kind = "object" THEN "}" ELSE "]") THEN b ELSE f
  <2>1. CASE token = ","
    BY <1>1, <1>2, <2>1 DEF End
  <2>2. CASE token # "," /\ token = (IF kind = "object" THEN "}" ELSE "]")
    BY <1>1, <1>2, <2>2 DEF End
  <2>3. CASE token # "," /\ token # (IF kind = "object" THEN "}" ELSE "]")
    BY <1>1, <1>2, <2>3 DEF End
  <2> QED
    BY <2>1, <2>2, <2>3
<1>8. stream.expects = End => StreamReads(token) = IF token = End THEN e ELSE f
  BY <1>1, <1>2 DEF End
<1> QED
  BY <1>2, <1>3, <1>4, <1>5, <1>6, <1>7, <1>8 DEF kind

(* A value is opened, or a scalar taken, by both readers or by neither.       *)
LEMMA ValueSteps ==
  ASSUME SameContainers, ExpectsValue, NEW token,
         dom' = DomValue(dom, token), stream' = StreamValue(token)
  PROVE  Fails \/ Opens("object", token) \/ Opens("array", token) \/ TakesScalar(token)
<1>1. Len(dom.stack) = Len(stream.stack) /\ "expects" \in DOMAIN dom /\ "expects" \in DOMAIN stream /\ "repeated" \in DOMAIN stream
  BY DEF SameContainers
<1>2. token \in Scalars => token # "{" /\ token # "["
  BY TokensAssumption DEF Punctuation
<1>3. CASE Len(dom.stack) > MaxDepth
  BY <1>1, <1>3, FailTogether DEF DomValue, StreamValue
<1>4. CASE ~(Len(dom.stack) > MaxDepth)
  <2>1. CASE token = "{"
    BY <1>1, <1>4, <2>1 DEF DomValue, StreamValue, Opens
  <2>2. CASE token = "["
    BY <1>1, <1>4, <2>2 DEF DomValue, StreamValue, Opens
  <2>3. CASE token \in Scalars
    BY <1>1, <1>2, <1>4, <2>3 DEF DomValue, StreamValue, TakesScalar
  <2>4. CASE token # "{" /\ token # "[" /\ token \notin Scalars
    BY <1>1, <1>4, <2>4, FailTogether DEF DomValue, StreamValue
  <2> QED
    BY <2>1, <2>2, <2>3, <2>4
<1> QED
  BY <1>3, <1>4

(* A key is taken by both readers or by neither.                              *)
LEMMA KeySteps ==
  ASSUME SameContainers, Kind = "object", stream.expects \in {"first", "key"}, NEW token,
         dom' = DomKey(dom, token), stream' = StreamKey(token)
  PROVE  Fails \/ TakesKey(token)
<1>1. "expects" \in DOMAIN dom /\ "expects" \in DOMAIN stream /\ "repeated" \in DOMAIN stream
  BY DEF SameContainers
<1>2. CASE token \in KeyTokens
  BY <1>2 DEF TakesKey
<1>3. CASE token \notin KeyTokens
  BY <1>3, FailTogether DEF DomKey, StreamKey
<1> QED
  BY <1>2, <1>3

(* Every token is read by both readers in the same way.                       *)
LEMMA Steps ==
  ASSUME dom.expects = stream.expects, SameContainers, Expecting, NEW token, Read(token)
  PROVE  \/ Fails \/ Finishes
         \/ Opens("object", token) \/ Opens("array", token) \/ TakesScalar(token)
         \/ Closes(token) \/ TakesKey(token) \/ Separates(token)
<1>1. dom' = DomReads(dom, token) /\ stream' = StreamReads(token)
  BY DEF Read
<1>2. "expects" \in DOMAIN dom /\ "expects" \in DOMAIN stream /\ "repeated" \in DOMAIN stream
  BY DEF SameContainers
<1>3. CASE stream.expects = "value"
  <2>1. ExpectsValue
    BY <1>3 DEF ExpectsValue
  <2>2. dom' = DomValue(dom, token) /\ stream' = StreamValue(token)
    BY <1>1, <1>3, DomBy, StreamBy
  <2> QED
    BY <2>1, <2>2, ValueSteps
<1>4. CASE stream.expects = "first"
  <2>1. dom.stack # << >> /\ Kind \in {"object", "array"}
    BY <1>4, KindIsShared DEF Expecting
  <2>2. CASE Kind = "object"
    <3>1. /\ dom' = IF token = "}" THEN DomClose(dom) ELSE DomKey(dom, token)
          /\ stream' = IF token = "}" THEN StreamClose(token) ELSE StreamKey(token)
      BY <1>1, <1>4, <2>2, DomBy, StreamBy, KindIsShared
    <3>2. CASE token = "}"
      BY <1>4, <2>1, <2>2, <3>1, <3>2 DEF Closes
    <3>3. CASE token # "}"
      BY <1>4, <2>2, <3>1, <3>3, KeySteps
    <3> QED
      BY <3>2, <3>3
  <2>3. CASE Kind = "array"
    <3>1. /\ dom' = IF token = "]" THEN DomClose(dom) ELSE DomValue(dom, token)
          /\ stream' = IF token = "]" THEN StreamClose(token) ELSE StreamValue(token)
      BY <1>1, <1>4, <2>3, DomBy, StreamBy, KindIsShared
    <3>2. CASE token = "]"
      BY <1>4, <2>1, <2>3, <3>1, <3>2 DEF Closes
    <3>3. CASE token # "]"
      <4>1. ExpectsValue
        BY <1>4, <2>3 DEF ExpectsValue
      <4> QED
        BY <3>1, <3>3, <4>1, ValueSteps
    <3> QED
      BY <3>2, <3>3
  <2> QED
    BY <2>1, <2>2, <2>3
<1>5. CASE stream.expects = "key"
  <2>1. Kind = "object"
    BY <1>5 DEF Expecting, Kind
  <2>2. dom' = DomKey(dom, token) /\ stream' = StreamKey(token)
    BY <1>1, <1>5, DomBy, StreamBy
  <2> QED
    BY <1>5, <2>1, <2>2, KeySteps
<1>6. CASE stream.expects = "after"
  <2>1. dom.stack # << >>
    BY <1>6 DEF Expecting
  <2>2. /\ dom' = IF token = "," THEN [dom EXCEPT !.expects = IF Kind = "object" THEN "key" ELSE "value"]
                  ELSE IF token = (IF Kind = "object" THEN "}" ELSE "]") THEN DomClose(dom)
                  ELSE Fail(dom)
        /\ stream' = IF token = "," THEN [stream EXCEPT !.expects = IF Kind = "object" THEN "key" ELSE "value",
                                                        !.out = Append(@, ",")]
                     ELSE IF token = (IF Kind = "object" THEN "}" ELSE "]") THEN StreamClose(token)
                     ELSE Fail(stream)
    BY <1>1, <1>6, DomBy, StreamBy, KindIsShared
  <2>3. CASE token = ","
    BY <1>6, <2>2, <2>3 DEF Separates
  <2>4. CASE token # "," /\ token = (IF Kind = "object" THEN "}" ELSE "]")
    BY <1>6, <2>1, <2>2, <2>4 DEF Closes
  <2>5. CASE token # "," /\ token # (IF Kind = "object" THEN "}" ELSE "]")
    BY <2>2, <2>5, FailTogether
  <2> QED
    BY <2>3, <2>4, <2>5
<1>7. CASE stream.expects = End
  <2>1. /\ dom' = IF token = End THEN [dom EXCEPT !.expects = "read"] ELSE Fail(dom)
        /\ stream' = IF token = End THEN [stream EXCEPT !.expects = "read"] ELSE Fail(stream)
    BY <1>1, <1>7, DomBy, StreamBy
  <2>2. CASE token = End
    BY <1>2, <1>7, <2>1, <2>2 DEF Finishes, End, SameContainers
  <2>3. CASE token # End
    BY <2>1, <2>3, FailTogether
  <2> QED
    BY <2>2, <2>3
<1> QED
  BY <1>3, <1>4, <1>5, <1>6, <1>7 DEF Expecting

-----------------------------------------------------------------------------
(* What the steps keep. *)

(* The part of `seen` of an open container is inside `seen`.                  *)
LEMMA Bounds ==
  ASSUME SameContainers, MarksInOrder, NEW i \in 1..Len(stream.stack)
  PROVE  /\ Len(stream.stack) \in Nat /\ Len(stream.seen) \in Nat
         /\ stream.stack[i].mark \in Nat /\ Upto(i) \in Nat
         /\ stream.stack[i].mark <= Upto(i) /\ Upto(i) <= Len(stream.seen)
<1>1. Len(stream.stack) \in Nat /\ Len(stream.seen) \in Nat
  BY Listed DEF SameContainers, MarksInOrder
<1>2. stream.stack[i].mark \in 0..Len(stream.seen)
  BY DEF MarksInOrder
<1>3. CASE i = Len(stream.stack)
  BY <1>1, <1>2, <1>3 DEF Upto
<1>4. CASE i # Len(stream.stack)
  <2>1. i + 1 \in 1..Len(stream.stack)
    BY <1>1, <1>4
  <2>2. stream.stack[i + 1].mark \in 0..Len(stream.seen) /\ stream.stack[i].mark <= stream.stack[i + 1].mark
    BY <1>1, <2>1 DEF MarksInOrder
  <2> QED
    BY <1>1, <1>2, <1>4, <2>2 DEF Upto
<1> QED
  BY <1>3, <1>4

(* The keys found for a container stay while its part of `seen` stays.        *)
LEMMA SeenKept ==
  ASSUME NEW i, NEW lo \in Nat, NEW hi \in Nat,
         stream.stack[i].mark = lo, stream'.stack[i].mark = lo, Upto(i) = hi, Upto(i)' = hi,
         \A j \in (lo + 1)..hi : /\ stream'.seen[j] = stream.seen[j]
                                 /\ stream'.out[stream.seen[j].at] = stream.out[stream.seen[j].at]
  PROVE  SeenKeys(i)' = SeenKeys(i)
<1>1. SeenKeys(i) = {stream.out[stream.seen[j].at] : j \in (lo + 1)..hi}
  BY DEF SeenKeys, SeenAt, Upto
<1>2. SeenKeys(i)' = {stream'.out[stream'.seen[j].at] : j \in (lo + 1)..hi}
  BY DEF SeenKeys, SeenAt, Upto
<1>3. \A j \in (lo + 1)..hi : stream'.out[stream'.seen[j].at] = stream.out[stream.seen[j].at]
  OBVIOUS
<1> QED
  BY <1>1, <1>2, <1>3

(* So do the keys of an object while its frame stays.                         *)
LEMMA OpenKept ==
  ASSUME NEW i, dom'.stack[i] = dom.stack[i]
  PROVE  OpenKeys(i)' = OpenKeys(i)
BY DEF OpenKeys

(* An empty map has no keys.                                                  *)
LEMMA NoKeys == KeysOf(<< >>) = {}
BY EmptySeq DEF KeysOf

(* More text written does not change what was written.                        *)
LEMMA StillWritten ==
  ASSUME SeenIsWritten, IsSeq(stream.out), NEW token, stream'.out = Append(stream.out, token),
         NEW n \in Nat, n <= Len(stream.seen), Len(stream.seen) \in Nat, Len(stream'.seen) = n,
         \A j \in 1..n : stream'.seen[j] = stream.seen[j]
  PROVE  /\ SeenIsWritten'
         /\ \A j \in 1..Len(stream.seen) : stream'.out[stream.seen[j].at] = stream.out[stream.seen[j].at]
<1>1. PICK o, p : o = stream.out /\ p = stream'.out
  OBVIOUS
<1>2. Len(o) \in Nat /\ Len(p) = Len(o) + 1 /\ \A k \in 1..Len(o) : p[k] = o[k]
  BY <1>1, Pushed, Listed
<1>3. \A j \in 1..Len(stream.seen) : stream.seen[j].at \in 1..Len(o)
  BY <1>1 DEF SeenIsWritten
<1>4. \A j \in 1..Len(stream.seen) : p[stream.seen[j].at] = o[stream.seen[j].at]
  BY <1>2, <1>3
<1>5. ASSUME NEW j \in 1..n
      PROVE  stream'.seen[j].at \in 1..Len(p) /\ stream'.seen[j].hash = Hash(p[stream'.seen[j].at])
  <2>1. j \in 1..Len(stream.seen) /\ stream'.seen[j] = stream.seen[j]
    OBVIOUS
  <2>2. stream.seen[j].hash = Hash(o[stream.seen[j].at]) /\ stream.seen[j].at \in 1..Len(o)
    BY <1>1, <2>1 DEF SeenIsWritten, SeenAt
  <2> QED
    BY <1>2, <1>4, <2>1, <2>2
<1>6. ASSUME NEW j \in 1..n, NEW k \in 1..n, j < k PROVE stream'.seen[j].at < stream'.seen[k].at
  <2>1. j \in 1..Len(stream.seen) /\ k \in 1..Len(stream.seen)
    OBVIOUS
  <2>2. stream.seen[j].at < stream.seen[k].at
    BY <1>6, <2>1 DEF SeenIsWritten
  <2>3. stream'.seen[j] = stream.seen[j] /\ stream'.seen[k] = stream.seen[k]
    OBVIOUS
  <2> QED
    BY <2>2, <2>3
<1> QED
  BY <1>1, <1>4, <1>5, <1>6 DEF SeenIsWritten, SeenAt

-----------------------------------------------------------------------------
(* The steps, one by one. *)

(* A new container has no keys, and its part of `seen` starts at the end.     *)
LEMMA OpensKeeps ==
  ASSUME Open, NEW kind \in {"object", "array"}, NEW token, Opens(kind, token)
  PROVE  Open' /\ dom'.expects = stream'.expects
<1>1. /\ SameContainers /\ Expecting /\ KeysInPlace /\ MarksInOrder
      /\ stream.repeated \in BOOLEAN /\ (~stream.repeated => SeenIsWritten /\ SeenByContainer)
  BY DEF Open
<1>2. PICK n \in Nat : n = Len(dom.stack) /\ n = Len(stream.stack)
  BY <1>1, Listed DEF SameContainers
<1>3. PICK v : v = IF kind = "object" THEN Object(NoEntries) ELSE Array(<< >>)
  OBVIOUS
<1>4. v.kind = kind /\ (kind = "object" => v.entries = << >>)
  BY <1>3 DEF Object, Array, NoEntries
<1>5. PICK f : f = [value |-> v, key |-> ""]
  OBVIOUS
<1>6. f.value = v /\ f.key = "" /\ IsFrame(f)
  <2>1. IsSeq(<< >>)
    BY EmptySeq DEF IsSeq
  <2> QED
    BY <1>4, <1>5, <2>1 DEF IsFrame
<1>7. /\ DOMAIN dom' = {"expects", "stack", "value"} /\ dom'.expects = "first"
      /\ dom'.stack = Append(dom.stack, f)
  BY <1>1, <1>3, <1>5 DEF Opens, DomOpen, SameContainers
<1>8. PICK g : g = [kind |-> kind, mark |-> Len(stream.seen)]
  OBVIOUS
<1>9. /\ DOMAIN stream' = {"expects", "stack", "out", "seen", "repeated"} /\ stream'.expects = "first"
      /\ stream'.stack = Append(stream.stack, g) /\ stream'.out = Append(stream.out, token)
      /\ stream'.seen = stream.seen /\ stream'.repeated = stream.repeated
  BY <1>1, <1>8 DEF Opens, StreamOpen, SameContainers
<1>10. /\ IsSeq(dom'.stack) /\ Len(dom'.stack) = n + 1
       /\ dom'.stack[n + 1] = f /\ \A i \in 1..n : dom'.stack[i] = dom.stack[i]
  BY <1>1, <1>2, <1>7, Pushed DEF SameContainers
<1>11. /\ IsSeq(stream'.stack) /\ Len(stream'.stack) = n + 1
       /\ stream'.stack[n + 1] = g /\ \A i \in 1..n : stream'.stack[i] = stream.stack[i]
  BY <1>1, <1>2, <1>9, Pushed DEF SameContainers
<1>12. g.kind = kind /\ g.mark = Len(stream.seen)
  BY <1>8
<1>13. \A i \in 1..n + 1 : i \in 1..n \/ i = n + 1
  OBVIOUS
<1>14. SameContainers'
  BY <1>1, <1>2, <1>4, <1>6, <1>7, <1>9, <1>10, <1>11, <1>12, <1>13, ZenonT(30) DEF SameContainers
<1>15. Expecting'
  <2>1. dom'.stack # << >>
    BY <1>2, <1>10
  <2> QED
    BY <1>9, <2>1 DEF Expecting, End
<1>16. KeysInPlace'
  <2>1. ASSUME NEW i \in 1..n, dom.stack[i].value.kind = "object" PROVE dom.stack[i].key # ""
    <3>1. ~(i = n /\ stream.expects = "first")
      BY <1>2, <2>1 DEF Opens, ExpectsValue, Kind
    <3> QED
      BY <1>1, <1>2, <2>1, <3>1 DEF KeysInPlace
  <2>2. ASSUME NEW i \in 1..n PROVE i # n + 1
    OBVIOUS
  <2> QED
    <3>1. ASSUME NEW i \in 1..n + 1, dom'.stack[i].value.kind = "object"
          PROVE  /\ dom'.stack[i].key = "" <=> i = n + 1
                 /\ dom'.stack[i].key = "" => i = n + 1
      BY <1>6, <1>10, <1>13, <2>1, <2>2, <3>1
    <3> QED
      BY <1>9, <1>10, <3>1 DEF KeysInPlace
<1>17. Len(stream.seen) \in Nat
  BY <1>1, Listed DEF MarksInOrder
<1>18. MarksInOrder'
  <2>1. IsSeq(stream'.seen) /\ IsSeq(stream'.out)
    BY <1>1, <1>9, Pushed DEF MarksInOrder
  <2>2. \A i \in 1..n : stream.stack[i].mark \in 0..Len(stream.seen)
    BY <1>1, <1>2 DEF MarksInOrder
  <2>3. \A i \in 1..n + 1 : stream'.stack[i].mark \in 0..Len(stream.seen)
    BY <1>11, <1>12, <1>13, <1>17, <2>2
  <2>4. \A i, j \in 1..n + 1 : i <= j => stream'.stack[i].mark <= stream'.stack[j].mark
    <3>1. ASSUME NEW i \in 1..n + 1, NEW j \in 1..n + 1, i <= j
          PROVE  stream'.stack[i].mark <= stream'.stack[j].mark
      <4>1. CASE j = n + 1
        BY <1>11, <1>12, <1>17, <2>3, <4>1
      <4>2. CASE j # n + 1
        <5>1. i \in 1..n /\ j \in 1..n
          BY <3>1, <4>2
        <5> QED
          BY <1>1, <1>2, <1>11, <3>1, <5>1 DEF MarksInOrder
      <4> QED
        BY <4>1, <4>2
    <3> QED
      BY <3>1
  <2> QED
    BY <1>9, <1>11, <2>1, <2>3, <2>4 DEF MarksInOrder
<1>19. ASSUME ~stream.repeated PROVE SeenIsWritten' /\ SeenByContainer'
  <2>1. SeenIsWritten /\ SeenByContainer /\ IsSeq(stream.out)
    BY <1>1, <1>19 DEF MarksInOrder
  <2>2. /\ SeenIsWritten'
        /\ \A j \in 1..Len(stream.seen) : stream'.out[stream.seen[j].at] = stream.out[stream.seen[j].at]
    <3>1. PICK m \in Nat : m = Len(stream.seen)
      BY <1>17
    <3>2. /\ m <= Len(stream.seen) /\ Len(stream'.seen) = m
          /\ \A j \in 1..m : stream'.seen[j] = stream.seen[j]
      BY <1>9, <3>1
    <3> QED
      BY <1>9, <1>17, <2>1, <3>2, StillWritten
  <2>3. ASSUME NEW i \in 1..n
        PROVE  /\ stream'.stack[i].kind = "object" => SeenKeys(i)' = OpenKeys(i)'
               /\ stream'.stack[i].kind = "array" => stream'.stack[i].mark = Upto(i)'
    <3>1. PICK lo \in Nat, hi \in Nat : /\ lo = stream.stack[i].mark /\ hi = Upto(i)
                                        /\ hi <= Len(stream.seen)
      BY <1>1, <1>2, Bounds
    <3>2. Upto(i)' = hi
      <4>1. CASE i = n
        BY <1>2, <1>11, <1>12, <3>1, <4>1 DEF Upto
      <4>2. CASE i # n
        <5>1. i + 1 \in 1..n /\ i # n + 1
          BY <4>2
        <5> QED
          BY <1>2, <1>11, <3>1, <4>2, <5>1 DEF Upto
      <4> QED
        BY <4>1, <4>2
    <3>3. stream'.stack[i] = stream.stack[i] /\ dom'.stack[i] = dom.stack[i]
      BY <1>10, <1>11
    <3>4. \A j \in (lo + 1)..hi : j \in 1..Len(stream.seen)
      BY <1>17, <3>1
    <3>5. SeenKeys(i)' = SeenKeys(i)
      BY <1>9, <2>2, <3>1, <3>2, <3>3, <3>4, SeenKept, ZenonT(40)
    <3>6. OpenKeys(i)' = OpenKeys(i)
      BY <3>3, OpenKept
    <3> QED
      BY <1>2, <2>1, <3>1, <3>2, <3>3, <3>5, <3>6 DEF SeenByContainer
  <2>4. /\ stream'.stack[n + 1].kind = "object" => SeenKeys(n + 1)' = OpenKeys(n + 1)'
        /\ stream'.stack[n + 1].kind = "array" => stream'.stack[n + 1].mark = Upto(n + 1)'
    <3>1. Upto(n + 1)' = Len(stream.seen)
      BY <1>9, <1>11 DEF Upto
    <3>2. SeenKeys(n + 1)' = {}
      BY <1>9, <1>11, <1>12, <1>17, <3>1 DEF SeenKeys
    <3>3. kind = "object" => OpenKeys(n + 1)' = {}
      BY <1>4, <1>6, <1>10, NoKeys DEF OpenKeys
    <3> QED
      BY <1>11, <1>12, <3>1, <3>2, <3>3
  <2>5. SeenByContainer'
    BY <1>11, <1>13, <2>3, <2>4 DEF SeenByContainer
  <2> QED
    BY <2>2, <2>5
<1> QED
  BY <1>1, <1>7, <1>9, <1>14, <1>15, <1>16, <1>18, <1>19 DEF Open

(* A value returned to the container around it ends up under its key.         *)
TakesValue(r, t, n) ==
  /\ DOMAIN r = {"expects", "stack", "value"} /\ r.expects = "after"
  /\ IsSeq(r.stack) /\ Len(r.stack) = n
  /\ \A i \in 1..n : i # n => r.stack[i] = t[i]
  /\ IsFrame(r.stack[n]) /\ r.stack[n].value.kind = t[n].value.kind
  /\ r.stack[n].key = t[n].key
  /\ t[n].value.kind = "object" =>
       KeysOf(r.stack[n].value.entries) = KeysOf(t[n].value.entries) \cup {t[n].key}

(* DomReturn puts the value into the innermost container.                     *)
LEMMA Returned ==
  ASSUME DOMAIN dom = {"expects", "stack", "value"}, NEW n \in Nat \ {0},
         NEW t, IsSeq(t), Len(t) = n, \A i \in 1..n : IsFrame(t[i]),
         NEW w, NEW r, r = DomReturn(dom, t, w)
  PROVE  TakesValue(r, t, n)
<1>1. t # << >>
  BY EmptySeq
<1>2. IsFrame(t[n]) /\ DOMAIN t = 1..n
  BY Listed
<1>3. PICK v : v = IF t[n].value.kind = "object"
                   THEN Object(Insert(t[n].value.entries, t[n].key, w))
                   ELSE Array(Append(t[n].value.items, w))
  OBVIOUS
<1>4. PICK f : f = [t[n] EXCEPT !.value = v]
  OBVIOUS
<1>5. f.value = v /\ f.key = t[n].key /\ DOMAIN f = {"value", "key"}
  BY <1>2, <1>4 DEF IsFrame
<1>6. PICK s : s = [t EXCEPT ![n] = f]
  OBVIOUS
<1>7. r = [dom EXCEPT !.expects = "after", !.stack = s]
  BY <1>1, <1>3, <1>4, <1>6 DEF DomReturn
<1>8. DOMAIN r = {"expects", "stack", "value"} /\ r.expects = "after" /\ r.stack = s
  BY <1>7
<1>9. Differs(t, s, n) /\ s[n] = f
  <2>1. n \in DOMAIN t
    BY <1>2
  <2>2. s[n] = f
    BY <1>6, <2>1
  <2> QED
    BY <1>6, <2>2, Except
<1>10. IsSeq(s) /\ Len(s) = n /\ \A i \in 1..n : i # n => s[i] = t[i]
  BY <1>9, Replaced
<1>11. CASE t[n].value.kind = "object"
  <2>1. PICK m : m = Insert(t[n].value.entries, t[n].key, w)
    OBVIOUS
  <2>2. IsSeq(m) /\ KeysOf(m) = KeysOf(t[n].value.entries) \cup {t[n].key}
    BY <1>2, <1>11, <2>1, InsertKeys DEF IsFrame
  <2>3. v.kind = "object" /\ v.entries = m
    BY <1>3, <1>11, <2>1 DEF Object
  <2> QED
    BY <1>5, <1>8, <1>9, <1>10, <1>11, <2>2, <2>3 DEF IsFrame, TakesValue
<1>12. CASE t[n].value.kind # "object"
  <2>1. v.kind = "array" /\ t[n].value.kind = "array"
    BY <1>2, <1>3, <1>12 DEF Array, IsFrame
  <2> QED
    BY <1>5, <1>8, <1>9, <1>10, <1>12, <2>1 DEF IsFrame, TakesValue
<1> QED
  BY <1>11, <1>12

(* A container below the top keeps its keys.                                  *)
LEMMA BelowKept ==
  ASSUME SameContainers, MarksInOrder, SeenByContainer, NEW i \in 1..Len(stream.stack),
         stream'.stack[i] = stream.stack[i], Upto(i)' = Upto(i), OpenKeys(i)' = OpenKeys(i),
         \A j \in 1..Upto(i) : /\ stream'.seen[j] = stream.seen[j]
                               /\ stream'.out[stream.seen[j].at] = stream.out[stream.seen[j].at]
  PROVE  /\ stream'.stack[i].kind = "object" => SeenKeys(i)' = OpenKeys(i)'
         /\ stream'.stack[i].kind = "array" => stream'.stack[i].mark = Upto(i)'
<1>1. PICK lo \in Nat, hi \in Nat : lo = stream.stack[i].mark /\ hi = Upto(i)
  BY Bounds
<1>2. \A j \in (lo + 1)..hi : j \in 1..Upto(i)
  BY <1>1
<1>3. stream'.stack[i].mark = lo /\ Upto(i)' = hi
  BY <1>1
<1>4. SeenKeys(i)' = SeenKeys(i)
  BY <1>1, <1>2, <1>3, SeenKept, SMTT(30)
<1> QED
  BY <1>1, <1>3, <1>4 DEF SeenByContainer

(* A value that is complete returns to the m containers still open, and q     *)
(* entries of `seen` stay.                                                    *)
Prefix(s, t, m) == IsSeq(t) /\ Len(t) = m /\ \A i \in 1..m : t[i] = s[i]

ReturnsTo(m, t, u, w, q, token) ==
  /\ m <= Len(dom.stack) /\ Prefix(dom.stack, t, m) /\ Prefix(stream.stack, u, m)
  /\ \A i \in 1..m : dom.stack[i].value.kind = "object" => dom.stack[i].key # ""
  /\ q <= Len(stream.seen) /\ Prefix(stream.seen, stream'.seen, q)
  /\ \A i \in 1..m : stream.stack[i].mark <= q
  /\ ~stream.repeated /\ m # 0 => Upto(m) = q
  /\ dom' = DomReturn(dom, t, w)
  /\ DOMAIN stream' = {"expects", "stack", "out", "seen", "repeated"}
  /\ stream'.expects = After(u) /\ stream'.stack = u
  /\ stream'.out = Append(stream.out, token) /\ stream'.repeated = stream.repeated

(* Returning a value keeps the invariant, whatever was cut off `seen`.        *)
LEMMA ReturnKeeps ==
  ASSUME Open, NEW m \in Nat, NEW t, NEW u, NEW w, NEW q \in Nat, NEW token,
         ReturnsTo(m, t, u, w, q, token)
  PROVE  Open' /\ dom'.expects = stream'.expects
<1>1. /\ SameContainers /\ Expecting /\ KeysInPlace /\ MarksInOrder
      /\ stream.repeated \in BOOLEAN /\ (~stream.repeated => SeenIsWritten /\ SeenByContainer)
  BY DEF Open
<1>2. PICK n \in Nat : n = Len(dom.stack) /\ n = Len(stream.stack) /\ 1..m \subseteq 1..n
  <2>1. PICK n \in Nat : n = Len(dom.stack) /\ n = Len(stream.stack)
    BY <1>1, Listed DEF SameContainers
  <2>2. m <= n
    BY <2>1 DEF ReturnsTo
  <2>3. 1..m \subseteq 1..n
    BY <2>2
  <2> QED
    BY <2>1, <2>3
<1>3. /\ IsSeq(t) /\ Len(t) = m /\ \A i \in 1..m : t[i] = dom.stack[i]
      /\ IsSeq(u) /\ Len(u) = m /\ \A i \in 1..m : u[i] = stream.stack[i]
  BY DEF ReturnsTo, Prefix
<1>4. \A i \in 1..m : dom.stack[i].value.kind = "object" => dom.stack[i].key # ""
  BY DEF ReturnsTo
<1>5. /\ q <= Len(stream.seen) /\ IsSeq(stream'.seen) /\ Len(stream'.seen) = q
      /\ \A j \in 1..q : stream'.seen[j] = stream.seen[j]
  BY DEF ReturnsTo, Prefix
<1>6. \A i \in 1..m : stream.stack[i].mark <= q
  BY DEF ReturnsTo
<1>7. ~stream.repeated /\ m # 0 => Upto(m) = q
  BY DEF ReturnsTo
<1>8. dom' = DomReturn(dom, t, w)
  BY DEF ReturnsTo
<1>9. /\ DOMAIN stream' = {"expects", "stack", "out", "seen", "repeated"}
      /\ stream'.expects = After(u) /\ stream'.stack = u
      /\ stream'.out = Append(stream.out, token) /\ stream'.repeated = stream.repeated
  BY DEF ReturnsTo
<1>10. IsSeq(stream'.out) /\ IsSeq(stream.out) /\ Len(stream.seen) \in Nat
  BY <1>1, <1>9, Pushed, Listed DEF MarksInOrder
<1>11. ASSUME ~stream.repeated
      PROVE  /\ SeenIsWritten'
             /\ \A j \in 1..Len(stream.seen) : stream'.out[stream.seen[j].at] = stream.out[stream.seen[j].at]
  BY <1>1, <1>5, <1>9, <1>10, <1>11, StillWritten
<1>12. MarksInOrder'
  <2>1. \A i \in 1..m : u[i].mark \in 0..q
    <3>1. ASSUME NEW i \in 1..m PROVE u[i].mark \in 0..q
      <4>1. i \in 1..Len(stream.stack) /\ u[i] = stream.stack[i]
        BY <1>2, <1>3
      <4>2. stream.stack[i].mark \in 0..Len(stream.seen) /\ stream.stack[i].mark <= q
        BY <1>1, <1>6, <4>1 DEF MarksInOrder
      <4> QED
        BY <1>10, <4>1, <4>2
    <3> QED
      BY <3>1
  <2>2. \A i, j \in 1..m : i <= j => u[i].mark <= u[j].mark
    <3>1. \A i \in 1..m : i \in 1..Len(stream.stack)
      BY <1>2
    <3> QED
      BY <1>1, <1>3, <3>1 DEF MarksInOrder
  <2> QED
    BY <1>3, <1>5, <1>9, <1>10, <2>1, <2>2 DEF MarksInOrder
<1>13. CASE m = 0
  <2>1. t = << >> /\ u = << >>
    BY <1>3, <1>13, EmptySeq, Listed
  <2>2. dom'.expects = End /\ dom'.stack = << >> /\ DOMAIN dom' = {"expects", "stack", "value"}
    BY <1>8, <2>1 DEF DomReturn
  <2>3. stream'.expects = End
    BY <1>9, <2>1 DEF After
  <2>4. Len(dom'.stack) = 0 /\ IsSeq(dom'.stack) /\ Len(stream'.stack) = 0 /\ IsSeq(stream'.stack)
    BY <1>3, <1>9, <1>13, <2>1, <2>2
  <2>5. \A i \in 1..0 : FALSE
    OBVIOUS
  <2>6. SameContainers'
    BY <1>9, <2>2, <2>4, <2>5 DEF SameContainers
  <2>7. Expecting'
    BY <2>2, <2>3 DEF Expecting, End
  <2>8. KeysInPlace'
    BY <2>4, <2>5 DEF KeysInPlace
  <2>9. SeenByContainer'
    BY <2>4, <2>5 DEF SeenByContainer
  <2> QED
    BY <1>1, <1>9, <1>11, <1>12, <2>2, <2>3, <2>6, <2>7, <2>8, <2>9 DEF Open
<1>14. CASE m # 0
  <2>1. \A i \in 1..m : IsFrame(t[i]) /\ u[i].kind = t[i].value.kind
    BY <1>1, <1>2, <1>3 DEF SameContainers
  <2>2. /\ DOMAIN dom' = {"expects", "stack", "value"} /\ dom'.expects = "after"
        /\ IsSeq(dom'.stack) /\ Len(dom'.stack) = m
        /\ \A i \in 1..m : i # m => dom'.stack[i] = t[i]
        /\ IsFrame(dom'.stack[m]) /\ dom'.stack[m].value.kind = t[m].value.kind
        /\ dom'.stack[m].key = t[m].key
        /\ t[m].value.kind = "object" =>
             KeysOf(dom'.stack[m].value.entries) = KeysOf(t[m].value.entries) \cup {t[m].key}
    <3>1. m \in Nat \ {0} /\ DOMAIN dom = {"expects", "stack", "value"} /\ \A i \in 1..m : IsFrame(t[i])
      BY <1>1, <1>14, <2>1 DEF SameContainers
    <3>2. PICK r : r = dom' /\ r = DomReturn(dom, t, w)
      BY <1>8
    <3>3. IsSeq(t) /\ Len(t) = m
      BY <1>3
    <3>4. TakesValue(r, t, m)
      BY <3>1, <3>2, <3>3, Returned
    <3> QED
      BY <3>2, <3>4 DEF TakesValue
  <2>3. dom'.stack # << >> /\ u # << >>
    BY <1>3, <1>14, <2>2, EmptySeq
  <2>4. stream'.expects = "after"
    BY <1>9, <2>3 DEF After
  <2>5. ASSUME NEW i \in 1..m
        PROVE  /\ IsFrame(dom'.stack[i]) /\ dom'.stack[i].value.kind = t[i].value.kind
               /\ dom'.stack[i].key = t[i].key
    BY <2>1, <2>2, <2>5
  <2>6. ASSUME NEW i \in 1..m, t[i].value.kind = "object"
        PROVE  OpenKeys(i)' = OpenKeys(i)
    <3>1. t[i] = dom.stack[i]
      BY <1>3
    <3>2. CASE i # m
      BY <2>2, <3>1, <3>2, OpenKept
    <3>3. CASE i = m
      <4>1. t[i].key # "" /\ dom'.stack[i].key = t[i].key
        BY <1>4, <2>5, <2>6, <3>1
      <4>2. OpenKeys(i) = KeysOf(t[i].value.entries) \cup {t[i].key}
        BY <3>1, <4>1 DEF OpenKeys
      <4>3. OpenKeys(i)' = KeysOf(dom'.stack[i].value.entries) \cup {t[i].key}
        BY <4>1 DEF OpenKeys
      <4> QED
        BY <2>2, <2>6, <3>3, <4>2, <4>3
    <3> QED
      BY <3>2, <3>3
  <2>7. SameContainers'
    <3>1. \A i \in 1..m : IsFrame(dom'.stack[i]) /\ stream'.stack[i].kind = dom'.stack[i].value.kind
      BY <1>9, <2>1, <2>5
    <3> QED
      BY <1>3, <1>9, <2>2, <3>1 DEF SameContainers
  <2>8. Expecting'
    BY <2>3, <2>4 DEF Expecting, End
  <2>9. KeysInPlace'
    <3>1. ASSUME NEW i \in 1..m, dom'.stack[i].value.kind = "object"
          PROVE  /\ dom'.stack[i].key # ""
                 /\ i = m => dom'.stack[i].key \in KeysOf(dom'.stack[i].value.entries)
      <4>1. t[i].value.kind = "object" /\ dom'.stack[i].key = t[i].key /\ t[i] = dom.stack[i]
        BY <1>3, <2>5, <3>1
      <4>2. i = m => dom'.stack[i].key \in KeysOf(dom'.stack[i].value.entries)
        BY <2>2, <4>1
      <4> QED
        BY <1>4, <4>1, <4>2
    <3> QED
      BY <2>2, <2>4, <3>1 DEF KeysInPlace
  <2>10. ASSUME ~stream.repeated PROVE SeenByContainer'
    <3>1. ASSUME NEW i \in 1..m
          PROVE  /\ stream'.stack[i].kind = "object" => SeenKeys(i)' = OpenKeys(i)'
                 /\ stream'.stack[i].kind = "array" => stream'.stack[i].mark = Upto(i)'
      <4>1. i \in 1..Len(stream.stack) /\ stream'.stack[i] = stream.stack[i]
        BY <1>2, <1>3, <1>9
      <4>2. Upto(i) <= q /\ Upto(i) \in Nat
        <5>1. CASE i = m
          BY <1>7, <1>14, <2>10, <5>1
        <5>2. CASE i # m
          <6>1. i + 1 \in 1..m /\ i # n /\ i + 1 \in 1..n
            BY <1>2, <5>2
          <6>2. Upto(i) = stream.stack[i + 1].mark
            BY <1>2, <6>1 DEF Upto
          <6>3. stream.stack[i + 1].mark \in 0..Len(stream.seen)
            BY <1>1, <1>2, <6>1 DEF MarksInOrder
          <6> QED
            BY <1>6, <1>10, <6>1, <6>2, <6>3
        <5> QED
          BY <5>1, <5>2
      <4>3. Upto(i)' = Upto(i)
        <5>1. CASE i = m
          <6>1. Upto(i)' = Len(stream'.seen)
            BY <1>3, <1>9, <5>1 DEF Upto
          <6> QED
            BY <1>5, <1>7, <1>14, <2>10, <5>1, <6>1
        <5>2. CASE i # m
          <6>1. i + 1 \in 1..m /\ i # n
            BY <1>2, <5>2
          <6>2. Upto(i)' = u[i + 1].mark
            BY <1>3, <1>9, <5>2 DEF Upto
          <6>3. Upto(i) = stream.stack[i + 1].mark
            BY <1>2, <6>1 DEF Upto
          <6> QED
            BY <1>3, <6>1, <6>2, <6>3
        <5> QED
          BY <5>1, <5>2
      <4>4. \A j \in 1..Upto(i) : /\ stream'.seen[j] = stream.seen[j]
                                  /\ stream'.out[stream.seen[j].at] = stream.out[stream.seen[j].at]
        <5>1. \A j \in 1..Upto(i) : j \in 1..q /\ j \in 1..Len(stream.seen)
          BY <1>5, <1>10, <4>2
        <5> QED
          BY <1>5, <1>11, <2>10, <5>1
      <4>5. CASE stream.stack[i].kind = "object"
        <5>1. t[i].value.kind = "object"
          BY <1>3, <2>1, <4>5
        <5>2. OpenKeys(i)' = OpenKeys(i)
          BY <2>6, <5>1
        <5> QED
          BY <1>1, <2>10, <4>1, <4>3, <4>4, <5>2, BelowKept
      <4>6. CASE stream.stack[i].kind # "object"
        BY <1>1, <2>10, <4>1, <4>3, <4>6 DEF SeenByContainer
      <4> QED
        BY <4>5, <4>6
    <3> QED
      BY <1>3, <1>9, <3>1 DEF SeenByContainer
  <2> QED
    BY <1>1, <1>9, <1>11, <1>12, <2>2, <2>4, <2>7, <2>8, <2>9, <2>10 DEF Open
<1> QED
  BY <1>13, <1>14

(* A scalar returns at once; nothing is cut off.                              *)
LEMMA TakesScalarKeeps ==
  ASSUME Open, NEW token, TakesScalar(token)
  PROVE  Open' /\ dom'.expects = stream'.expects
<1>1. SameContainers /\ Expecting /\ KeysInPlace /\ MarksInOrder
  BY DEF Open
<1>2. PICK n \in Nat : n = Len(dom.stack) /\ n = Len(stream.stack)
  BY <1>1, Listed DEF SameContainers
<1>3. PICK q \in Nat : q = Len(stream.seen)
  BY <1>1, Listed DEF MarksInOrder
<1>4. /\ DOMAIN stream' = {"expects", "stack", "out", "seen", "repeated"}
      /\ stream'.expects = After(stream.stack) /\ stream'.stack = stream.stack
      /\ stream'.out = Append(stream.out, token) /\ stream'.repeated = stream.repeated
      /\ stream'.seen = stream.seen
  BY <1>1 DEF TakesScalar, SameContainers
<1>5. Prefix(dom.stack, dom.stack, n) /\ Prefix(stream.stack, stream.stack, n)
      /\ Prefix(stream.seen, stream'.seen, q)
  BY <1>1, <1>2, <1>3, <1>4 DEF Prefix, SameContainers, MarksInOrder
<1>6. ASSUME NEW i \in 1..n, dom.stack[i].value.kind = "object" PROVE dom.stack[i].key # ""
  <2>1. ~(i = n /\ stream.expects = "first")
    BY <1>2, <1>6 DEF TakesScalar, ExpectsValue, Kind
  <2> QED
    BY <1>1, <1>2, <1>6, <2>1 DEF KeysInPlace
<1>7. \A i \in 1..n : stream.stack[i].mark <= q
  BY <1>1, <1>2, <1>3 DEF MarksInOrder
<1>8. Upto(n) = q
  BY <1>2, <1>3 DEF Upto
<1>9. PICK w : w = Scalar(token)
  OBVIOUS
<1>10. dom' = DomReturn(dom, dom.stack, w)
  BY <1>9 DEF TakesScalar
<1>11. n <= Len(dom.stack) /\ q <= Len(stream.seen)
  BY <1>2, <1>3
<1>12. ReturnsTo(n, dom.stack, stream.stack, w, q, token)
  BY <1>4, <1>5, <1>6, <1>7, <1>8, <1>10, <1>11 DEF ReturnsTo
<1> QED
  BY <1>12, ReturnKeeps

(* SubSeq from the start is a prefix.                                         *)
LEMMA CutPrefix ==
  ASSUME NEW s, IsSeq(s), NEW q \in Nat, q <= Len(s)
  PROVE  Prefix(s, SubSeq(s, 1, q), q)
<1>1. PICK S : S = ToSet(s) /\ s \in Seq(S)
  BY DEF IsSeq
<1>2. Len(s) \in Nat
  BY Listed
<1>3. \A k \in 1..q : s[k] \in S
  BY <1>1, <1>2, ElementOfSeq
<1>4. /\ SubSeq(s, 1, q) \in Seq(S)
      /\ Len(SubSeq(s, 1, q)) = IF 1 <= q THEN q - 1 + 1 ELSE 0
      /\ \A k \in 1..q - 1 + 1 : SubSeq(s, 1, q)[k] = s[1 + k - 1]
  <2>1. 1 \in Int /\ q \in Int
    OBVIOUS
  <2> QED
    BY <2>1, <1>3, SubSeqProperties, SMT
<1>5. Len(SubSeq(s, 1, q)) = q /\ \A k \in 1..q : SubSeq(s, 1, q)[k] = s[k]
  BY <1>4
<1> QED
  BY <1>4, <1>5, OwnElements DEF Prefix

(* Closing an object cuts exactly its own keys off `seen`, an array none.     *)
LEMMA ClosesKeeps ==
  ASSUME Open, NEW token, Closes(token)
  PROVE  Open' /\ dom'.expects = stream'.expects
<1>1. /\ SameContainers /\ Expecting /\ KeysInPlace /\ MarksInOrder
      /\ (~stream.repeated => SeenByContainer)
  BY DEF Open
<1>2. PICK n \in Nat \ {0} : n = Len(dom.stack) /\ n = Len(stream.stack)
  BY <1>1, Listed DEF SameContainers, Closes
<1>3. PICK m \in Nat : m = n - 1
  BY <1>2
<1>4. PICK e \in Nat : e = Len(stream.seen)
  BY <1>1, Listed DEF MarksInOrder
<1>5. PICK top : top = stream.stack[n] /\ top = Last(stream.stack)
  BY <1>2 DEF Last
<1>6. top.mark \in 0..e /\ top.kind \in {"object", "array"}
  <2>1. n \in 1..n
    OBVIOUS
  <2> QED
    BY <1>1, <1>2, <1>4, <1>5, <2>1 DEF MarksInOrder, SameContainers, IsFrame
<1>7. PICK q \in Nat : q = (IF top.kind = "object" THEN top.mark ELSE e) /\ q <= e /\ top.mark <= q
  BY <1>6
<1>8. PICK t, u : t = Front(dom.stack) /\ u = Front(stream.stack)
  OBVIOUS
<1>9. Prefix(dom.stack, t, m) /\ Prefix(stream.stack, u, m)
  <2>1. dom.stack # << >> /\ stream.stack # << >>
    BY <1>2, EmptySeq
  <2> QED
    BY <1>1, <1>2, <1>3, <1>8, <2>1, Popped DEF Prefix, SameContainers
<1>10. /\ DOMAIN stream' = {"expects", "stack", "out", "seen", "repeated"}
       /\ stream'.expects = After(u) /\ stream'.stack = u
       /\ stream'.out = Append(stream.out, token) /\ stream'.repeated = stream.repeated
       /\ stream'.seen = IF top.kind = "object" THEN SubSeq(stream.seen, 1, top.mark) ELSE stream.seen
  BY <1>1, <1>5, <1>8 DEF Closes, StreamClose, SameContainers
<1>11. Prefix(stream.seen, stream'.seen, q)
  <2>1. CASE top.kind = "object"
    BY <1>1, <1>4, <1>7, <1>10, <2>1, CutPrefix DEF MarksInOrder
  <2>2. CASE top.kind # "object"
    BY <1>1, <1>4, <1>7, <1>10, <2>2 DEF MarksInOrder, Prefix
  <2> QED
    BY <2>1, <2>2
<1>12. \A i \in 1..m : i \in 1..n /\ i # n /\ i <= n
  BY <1>3
<1>13. ASSUME NEW i \in 1..m, dom.stack[i].value.kind = "object" PROVE dom.stack[i].key # ""
  BY <1>1, <1>2, <1>12, <1>13 DEF KeysInPlace
<1>14. ASSUME NEW i \in 1..m PROVE stream.stack[i].mark <= q
  <2>1. i \in 1..n /\ n \in 1..n /\ i <= n
    BY <1>12
  <2>2. stream.stack[i].mark <= top.mark /\ stream.stack[i].mark \in 0..e
    BY <1>1, <1>2, <1>4, <1>5, <2>1 DEF MarksInOrder
  <2> QED
    BY <1>6, <1>7, <2>2
<1>15. ASSUME ~stream.repeated, m # 0 PROVE Upto(m) = q
  <2>1. Upto(m) = top.mark
    <3>1. m + 1 = n /\ m # n
      BY <1>3
    <3> QED
      BY <1>2, <1>5, <3>1 DEF Upto
  <2>2. top.kind = "array" => top.mark = e
    <3>1. n \in 1..Len(stream.stack)
      BY <1>2
    <3>2. Upto(n) = e
      BY <1>2, <1>4 DEF Upto
    <3> QED
      BY <1>1, <1>5, <1>15, <3>1, <3>2 DEF SeenByContainer
  <2> QED
    BY <1>6, <1>7, <2>1, <2>2
<1>16. PICK w : w = Last(dom.stack).value
  OBVIOUS
<1>17. dom' = DomReturn(dom, t, w)
  BY <1>8, <1>16 DEF Closes, DomClose
<1>18. m <= Len(dom.stack) /\ q <= Len(stream.seen)
  BY <1>2, <1>3, <1>4, <1>7
<1>19. ReturnsTo(m, t, u, w, q, token)
  BY <1>9, <1>10, <1>11, <1>13, <1>14, <1>15, <1>17, <1>18 DEF ReturnsTo
<1> QED
  BY <1>19, ReturnKeeps

(* A comma changes no container.                                              *)
LEMMA SeparatesKeeps ==
  ASSUME Open, NEW token, Separates(token)
  PROVE  Open' /\ dom'.expects = stream'.expects
<1>1. /\ SameContainers /\ Expecting /\ KeysInPlace /\ MarksInOrder
      /\ stream.repeated \in BOOLEAN /\ (~stream.repeated => SeenIsWritten /\ SeenByContainer)
  BY DEF Open
<1>2. PICK e : e = IF Kind = "object" THEN "key" ELSE "value"
  OBVIOUS
<1>3. /\ DOMAIN dom' = {"expects", "stack", "value"} /\ dom'.expects = e /\ dom'.stack = dom.stack
  BY <1>1, <1>2 DEF Separates, SameContainers
<1>4. /\ DOMAIN stream' = {"expects", "stack", "out", "seen", "repeated"} /\ stream'.expects = e
      /\ stream'.stack = stream.stack /\ stream'.out = Append(stream.out, token)
      /\ stream'.seen = stream.seen /\ stream'.repeated = stream.repeated
  BY <1>1, <1>2 DEF Separates, SameContainers
<1>5. SameContainers'
  BY <1>1, <1>3, <1>4 DEF SameContainers
<1>6. dom.stack # << >> /\ stream.expects = "after"
  BY <1>1 DEF Expecting, Separates
<1>7. Expecting'
  <2>1. e = "key" => dom.stack[Len(dom.stack)].value.kind = "object"
    BY <1>2, <1>6 DEF Kind
  <2>2. e \in {"key", "value"}
    BY <1>2
  <2> QED
    BY <1>3, <1>4, <1>6, <2>1, <2>2 DEF Expecting, End
<1>8. KeysInPlace'
  <2>1. e \in {"key", "value"}
    BY <1>2
  <2>2. ASSUME NEW i \in 1..Len(dom.stack), dom.stack[i].value.kind = "object"
        PROVE  /\ dom.stack[i].key # ""
               /\ i = Len(dom.stack) => dom.stack[i].key \in KeysOf(dom.stack[i].value.entries)
    BY <1>1, <1>6, <2>2 DEF KeysInPlace
  <2> QED
    BY <1>3, <1>4, <2>1, <2>2 DEF KeysInPlace
<1>9. MarksInOrder'
  BY <1>1, <1>4, Pushed DEF MarksInOrder
<1>10. ASSUME ~stream.repeated PROVE SeenIsWritten' /\ SeenByContainer'
  <2>1. PICK q \in Nat : q = Len(stream.seen)
    BY <1>1, Listed DEF MarksInOrder
  <2>2. /\ SeenIsWritten'
        /\ \A j \in 1..q : stream'.out[stream.seen[j].at] = stream.out[stream.seen[j].at]
    <3>1. /\ IsSeq(stream.out) /\ SeenIsWritten /\ Len(stream.seen) \in Nat /\ q <= Len(stream.seen)
          /\ Len(stream'.seen) = q /\ \A j \in 1..q : stream'.seen[j] = stream.seen[j]
      BY <1>1, <1>4, <1>10, <2>1 DEF MarksInOrder
    <3> QED
      BY <1>4, <2>1, <3>1, StillWritten
  <2>3. ASSUME NEW i \in 1..Len(stream.stack)
        PROVE  /\ stream'.stack[i].kind = "object" => SeenKeys(i)' = OpenKeys(i)'
               /\ stream'.stack[i].kind = "array" => stream'.stack[i].mark = Upto(i)'
    <3>1. Upto(i)' = Upto(i)
      BY <1>4 DEF Upto
    <3>2. OpenKeys(i)' = OpenKeys(i)
      BY <1>3, OpenKept
    <3>3. Upto(i) \in Nat /\ Upto(i) <= q
      BY <1>1, <2>1, Bounds
    <3>4. \A j \in 1..Upto(i) : /\ stream'.seen[j] = stream.seen[j]
                                /\ stream'.out[stream.seen[j].at] = stream.out[stream.seen[j].at]
      <4>1. \A j \in 1..Upto(i) : j \in 1..q
        BY <2>1, <3>3
      <4> QED
        BY <1>4, <2>2, <4>1
    <3>5. SeenByContainer /\ stream'.stack[i] = stream.stack[i]
      BY <1>1, <1>4, <1>10
    <3> QED
      BY <1>1, <3>1, <3>2, <3>4, <3>5, BelowKept
  <2> QED
    BY <1>4, <2>2, <2>3 DEF SeenByContainer
<1> QED
  BY <1>1, <1>3, <1>4, <1>5, <1>7, <1>8, <1>9, <1>10 DEF Open

(* The lookup among the hashes finds the keys of the innermost object, and    *)
(* nothing else: those that `parse` has put into its value.                   *)
LEMMA LookupIsExact ==
  ASSUME Open, ~stream.repeated, Kind = "object", stream.expects \in {"first", "key"}, NEW key
  PROVE  /\ OpenKeys(Len(dom.stack)) = KeysOf(dom.stack[Len(dom.stack)].value.entries)
         /\ IsRepeated(key) <=> key \in KeysOf(dom.stack[Len(dom.stack)].value.entries)
<1>1. SameContainers /\ Expecting /\ KeysInPlace /\ MarksInOrder /\ SeenIsWritten /\ SeenByContainer
  BY DEF Open
<1>2. PICK n \in Nat \ {0} : n = Len(dom.stack) /\ n = Len(stream.stack)
  BY <1>1, Listed DEF SameContainers, Expecting
<1>3. n \in 1..n
  OBVIOUS
<1>4. PICK e \in Nat : e = Len(stream.seen)
  BY <1>1, Listed DEF MarksInOrder
<1>5. PICK f : f = dom.stack[n]
  OBVIOUS
<1>6. f.value.kind = "object" /\ stream.stack[n].kind = "object"
  <2>1. dom.stack # << >>
    BY <1>1 DEF Expecting
  <2> QED
    BY <1>1, <1>2, <1>3, <1>5, <2>1 DEF Kind, SameContainers
<1>7. OpenKeys(n) = KeysOf(f.value.entries)
  <2>1. f.key = "" \/ f.key \in KeysOf(f.value.entries)
    BY <1>1, <1>2, <1>3, <1>5, <1>6 DEF KeysInPlace
  <2> QED
    BY <1>5, <2>1 DEF OpenKeys
<1>8. SeenKeys(n) = KeysOf(f.value.entries)
  BY <1>1, <1>2, <1>3, <1>6, <1>7 DEF SeenByContainer
<1>9. PICK lo \in Nat : lo = stream.stack[n].mark
  BY <1>1, <1>2, <1>3, Bounds
<1>10. SeenKeys(n) = {SeenAt(j) : j \in (lo + 1)..e}
  BY <1>2, <1>4, <1>9 DEF SeenKeys
<1>11. IsRepeated(key) <=> \E j \in (lo + 1)..e : stream.seen[j].hash = Hash(key) /\ SeenAt(j) = key
  BY <1>2, <1>4, <1>9 DEF IsRepeated, Last
<1>12. ASSUME NEW j \in (lo + 1)..e PROVE stream.seen[j].hash = Hash(SeenAt(j))
  <2>1. j \in 1..Len(stream.seen)
    BY <1>4
  <2> QED
    BY <1>1, <2>1 DEF SeenIsWritten
<1>13. IsRepeated(key) <=> \E j \in (lo + 1)..e : SeenAt(j) = key
  BY <1>11, <1>12
<1>14. IsRepeated(key) <=> key \in KeysOf(f.value.entries)
  BY <1>8, <1>10, <1>13
<1> QED
  BY <1>2, <1>5, <1>7, <1>14

(* A key is noted in `seen` when the innermost object does not have it.       *)
LEMMA TakesKeyKeeps ==
  ASSUME Open, NEW token, TakesKey(token)
  PROVE  Open' /\ dom'.expects = stream'.expects
<1>1. /\ SameContainers /\ Expecting /\ KeysInPlace /\ MarksInOrder
      /\ stream.repeated \in BOOLEAN /\ (~stream.repeated => SeenIsWritten /\ SeenByContainer)
  BY DEF Open
<1>2. PICK n \in Nat \ {0} : n = Len(dom.stack) /\ n = Len(stream.stack)
  BY <1>1, Listed DEF SameContainers, Expecting, TakesKey
<1>3. n \in 1..n
  OBVIOUS
<1>4. PICK key : key = KeyOf[token] /\ key # ""
  BY TokensAssumption DEF TakesKey
<1>5. PICK f : f = [dom.stack[n] EXCEPT !.key = key]
  OBVIOUS
<1>6. f.key = key /\ f.value = dom.stack[n].value /\ IsFrame(f)
  <2>1. IsFrame(dom.stack[n])
    BY <1>1, <1>2, <1>3 DEF SameContainers
  <2>2. f.key = key /\ f.value = dom.stack[n].value /\ DOMAIN f = {"value", "key"}
    BY <1>5, <2>1 DEF IsFrame
  <2> QED
    BY <2>1, <2>2 DEF IsFrame
<1>7. PICK s : s = [dom.stack EXCEPT ![n] = f]
  OBVIOUS
<1>8. DOMAIN dom' = {"expects", "stack", "value"} /\ dom'.expects = "value" /\ dom'.stack = s
  <2>1. token \in KeyTokens /\ dom' = DomKey(dom, token)
    BY DEF TakesKey
  <2>2. DomKey(dom, token) = [dom EXCEPT !.expects = "value", !.stack = s]
    BY <1>2, <1>4, <1>5, <1>7, <2>1 DEF DomKey
  <2> QED
    BY <1>1, <2>1, <2>2 DEF SameContainers
<1>9. IsSeq(s) /\ Len(s) = n /\ s[n] = f /\ \A i \in 1..n : i # n => s[i] = dom.stack[i]
  <2>1. Differs(dom.stack, s, n)
    BY <1>7, Except
  <2>2. IsSeq(dom.stack) /\ DOMAIN dom.stack = 1..n
    BY <1>1, <1>2, Listed DEF SameContainers
  <2>3. s[n] = f
    BY <1>3, <1>7, <2>2
  <2> QED
    BY <1>2, <1>3, <2>1, <2>2, <2>3, Replaced
<1>10. PICK again \in BOOLEAN : again = (stream.repeated \/ IsRepeated(key))
  OBVIOUS
<1>11. PICK entry : entry = [hash |-> Hash(key), at |-> Len(stream.out) + 1]
  OBVIOUS
<1>12. /\ DOMAIN stream' = {"expects", "stack", "out", "seen", "repeated"} /\ stream'.expects = "value"
       /\ stream'.stack = stream.stack /\ stream'.out = Append(stream.out, key)
       /\ stream'.repeated = again
       /\ stream'.seen = IF again THEN stream.seen ELSE Append(stream.seen, entry)
  <2>1. token \in KeyTokens /\ stream' = StreamKey(token)
    BY DEF TakesKey
  <2> QED
    BY <1>1, <1>4, <1>10, <1>11, <2>1 DEF StreamKey, SameContainers
<1>13. PICK e \in Nat, o \in Nat : e = Len(stream.seen) /\ o = Len(stream.out)
  BY <1>1, Listed DEF MarksInOrder
<1>14. /\ IsSeq(stream'.out) /\ Len(stream'.out) = o + 1 /\ stream'.out[o + 1] = key
       /\ \A k \in 1..o : stream'.out[k] = stream.out[k]
  BY <1>1, <1>12, <1>13, Pushed DEF MarksInOrder
<1>15. /\ IsSeq(stream'.seen) /\ Len(stream'.seen) = IF again THEN e ELSE e + 1
       /\ \A k \in 1..e : stream'.seen[k] = stream.seen[k]
       /\ ~again => stream'.seen[e + 1] = entry
  <2>1. CASE again
    BY <1>1, <1>12, <1>13, <2>1 DEF MarksInOrder
  <2>2. CASE ~again
    BY <1>1, <1>12, <1>13, <2>2, Pushed DEF MarksInOrder
  <2> QED
    BY <2>1, <2>2
<1>16. SameContainers'
  <2>1. \A i \in 1..n : IsFrame(s[i]) /\ stream.stack[i].kind = s[i].value.kind
    BY <1>1, <1>2, <1>6, <1>9 DEF SameContainers
  <2> QED
    BY <1>1, <1>2, <1>8, <1>9, <1>12, <2>1 DEF SameContainers
<1>17. Expecting'
  BY <1>8, <1>12 DEF Expecting, End
<1>18. KeysInPlace'
  <2>1. ASSUME NEW i \in 1..n, s[i].value.kind = "object" PROVE s[i].key # ""
    BY <1>1, <1>2, <1>4, <1>6, <1>9, <2>1, ZenonT(30) DEF KeysInPlace
  <2> QED
    BY <1>8, <1>9, <1>12, <2>1 DEF KeysInPlace
<1>19. MarksInOrder'
  <2>1. ASSUME NEW i \in 1..n PROVE stream.stack[i].mark \in 0..Len(stream'.seen)
    <3>1. stream.stack[i].mark \in 0..e
      BY <1>1, <1>2, <1>13 DEF MarksInOrder
    <3> QED
      BY <1>15, <3>1
  <2> QED
    BY <1>1, <1>2, <1>12, <1>14, <1>15, <2>1 DEF MarksInOrder
<1>20. ASSUME ~again PROVE SeenIsWritten' /\ SeenByContainer'
  <2>1. ~stream.repeated /\ SeenIsWritten /\ SeenByContainer
    BY <1>1, <1>10, <1>20
  <2>2. \A j \in 1..e : stream.seen[j].at \in 1..o /\ stream'.out[stream.seen[j].at] = stream.out[stream.seen[j].at]
    <3>1. \A j \in 1..e : stream.seen[j].at \in 1..o
      BY <1>13, <2>1 DEF SeenIsWritten
    <3> QED
      BY <1>14, <3>1
  <2>3. entry.at = o + 1 /\ entry.hash = Hash(key)
    BY <1>11, <1>13
  <2>4. \A j \in 1..e + 1 : j \in 1..e \/ j = e + 1
    OBVIOUS
  <2>5. Len(stream'.seen) = e + 1 /\ stream'.seen[e + 1] = entry
    BY <1>15, <1>20
  <2>6. SeenIsWritten'
    <3>1. ASSUME NEW j \in 1..e + 1
          PROVE  /\ stream'.seen[j].at \in 1..o + 1
                 /\ stream'.seen[j].hash = Hash(stream'.out[stream'.seen[j].at])
      <4>1. CASE j \in 1..e
        <5>1. stream'.seen[j] = stream.seen[j] /\ stream.seen[j].at \in 1..o
          BY <1>15, <2>2, <4>1
        <5>2. stream.seen[j].hash = Hash(stream.out[stream.seen[j].at])
          BY <1>13, <2>1, <4>1 DEF SeenIsWritten, SeenAt
        <5> QED
          BY <2>2, <4>1, <5>1, <5>2
      <4>2. CASE j = e + 1
        BY <1>14, <2>3, <2>5, <4>2
      <4> QED
        BY <2>4, <4>1, <4>2
    <3>2. ASSUME NEW j \in 1..e + 1, NEW k \in 1..e + 1, j < k
          PROVE  stream'.seen[j].at < stream'.seen[k].at
      <4>1. j \in 1..e /\ stream'.seen[j] = stream.seen[j] /\ stream.seen[j].at \in 1..o
        <5>1. j \in 1..e
          BY <3>2
        <5> QED
          BY <1>15, <2>2, <5>1
      <4>2. CASE k \in 1..e
        BY <1>13, <1>15, <2>1, <3>2, <4>1, <4>2 DEF SeenIsWritten
      <4>3. CASE k = e + 1
        BY <2>3, <2>5, <4>1, <4>3
      <4> QED
        BY <2>4, <4>2, <4>3
    <3> QED
      BY <1>14, <2>5, <3>1, <3>2 DEF SeenIsWritten, SeenAt
  <2>7. ASSUME NEW i \in 1..n, i # n
        PROVE  /\ stream'.stack[i].kind = "object" => SeenKeys(i)' = OpenKeys(i)'
               /\ stream'.stack[i].kind = "array" => stream'.stack[i].mark = Upto(i)'
    <3>1. i \in 1..Len(stream.stack) /\ stream'.stack[i] = stream.stack[i]
      BY <1>2, <1>12
    <3>2. Upto(i)' = Upto(i)
      BY <1>2, <1>12, <2>7 DEF Upto
    <3>3. OpenKeys(i)' = OpenKeys(i)
      BY <1>8, <1>9, <2>7, OpenKept
    <3>4. Upto(i) \in Nat /\ Upto(i) <= e
      BY <1>1, <1>13, <3>1, Bounds
    <3>5. \A j \in 1..Upto(i) : /\ stream'.seen[j] = stream.seen[j]
                                /\ stream'.out[stream.seen[j].at] = stream.out[stream.seen[j].at]
      <4>1. \A j \in 1..Upto(i) : j \in 1..e
        BY <3>4
      <4> QED
        BY <1>15, <2>2, <4>1
    <3> QED
      BY <1>1, <2>1, <3>1, <3>2, <3>3, <3>5, BelowKept
  <2>8. stream.stack[n].kind = "object" /\ SeenKeys(n)' = OpenKeys(n)'
    <3>1. Kind = "object" /\ stream.expects \in {"first", "key"}
      BY DEF TakesKey
    <3>2. PICK K : K = KeysOf(dom.stack[n].value.entries) /\ OpenKeys(n) = K
      BY <1>2, <2>1, <3>1, LookupIsExact
    <3>3. OpenKeys(n)' = K \cup {key}
      BY <1>4, <1>6, <1>8, <1>9, <3>2 DEF OpenKeys
    <3>4. stream.stack[n].kind = "object"
      <4>1. dom.stack # << >>
        BY <1>1, <3>1 DEF Expecting
      <4> QED
        BY <1>1, <1>2, <1>3, <3>1, <4>1 DEF Kind, SameContainers
    <3>5. SeenKeys(n) = K
      BY <1>2, <1>3, <2>1, <3>2, <3>4 DEF SeenByContainer
    <3>6. PICK lo \in Nat : lo = stream.stack[n].mark /\ lo <= e
      <4>1. Upto(n) = e
        BY <1>2, <1>13 DEF Upto
      <4> QED
        BY <1>1, <1>2, <1>3, <4>1, Bounds
    <3>7. SeenKeys(n) = {stream.out[stream.seen[j].at] : j \in (lo + 1)..e}
      BY <1>2, <1>13, <3>6 DEF SeenKeys, SeenAt
    <3>8. SeenKeys(n)' = {stream'.out[stream'.seen[j].at] : j \in (lo + 1)..(e + 1)}
      BY <1>2, <1>12, <2>5, <3>6 DEF SeenKeys, SeenAt
    <3>9. \A j \in (lo + 1)..e : stream'.out[stream'.seen[j].at] = stream.out[stream.seen[j].at]
      <4>1. \A j \in (lo + 1)..e : j \in 1..e
        OBVIOUS
      <4> QED
        BY <1>15, <2>2, <4>1
    <3>10. stream'.out[stream'.seen[e + 1].at] = key
      BY <1>14, <2>3, <2>5
    <3>11. \A j : j \in (lo + 1)..(e + 1) <=> j \in (lo + 1)..e \/ j = e + 1
      BY <3>6
    <3>12. SeenKeys(n)' = SeenKeys(n) \cup {key}
      BY <3>7, <3>8, <3>9, <3>10, <3>11
    <3> QED
      BY <3>3, <3>4, <3>5, <3>12
  <2>9. SeenByContainer'
    BY <1>2, <1>12, <2>7, <2>8 DEF SeenByContainer
  <2> QED
    BY <2>6, <2>9
<1> QED
  BY <1>8, <1>12, <1>16, <1>17, <1>18, <1>19, <1>20 DEF Open

-----------------------------------------------------------------------------
(* The text. *)

(* Every token read keeps the invariant.                                      *)
LEMMA TextInvStep ==
  ASSUME TextInv, [Next]_vars PROVE TextInv'
<1>1. CASE UNCHANGED vars
  <2>1. dom' = dom /\ stream' = stream
    BY <1>1 DEF vars
  <2>2. Open => Open'
    <3>1. SameContainers => SameContainers'
      BY <2>1 DEF SameContainers
    <3>2. Expecting => Expecting'
      BY <2>1 DEF Expecting
    <3>3. KeysInPlace => KeysInPlace'
      BY <2>1 DEF KeysInPlace
    <3>4. MarksInOrder => MarksInOrder'
      BY <2>1 DEF MarksInOrder
    <3>5. SeenIsWritten => SeenIsWritten'
      BY <2>1 DEF SeenIsWritten, SeenAt
    <3>6. SeenByContainer => SeenByContainer'
      <4>1. ASSUME NEW i PROVE SeenKeys(i)' = SeenKeys(i) /\ OpenKeys(i)' = OpenKeys(i) /\ Upto(i)' = Upto(i)
        BY <2>1 DEF SeenKeys, SeenAt, OpenKeys, Upto
      <4> QED
        BY <2>1, <4>1 DEF SeenByContainer
    <3> QED
      BY <2>1, <3>1, <3>2, <3>3, <3>4, <3>5, <3>6 DEF Open
  <2> QED
    BY <2>1, <2>2 DEF TextInv, Reading
<1>2. ASSUME NEW token \in Tokens, Read(token) PROVE TextInv'
  <2>1. Reading(stream) /\ Open /\ dom.expects = stream.expects
    BY <1>2 DEF Read, TextInv, Reading
  <2>2. \/ Fails \/ Finishes
        \/ Opens("object", token) \/ Opens("array", token) \/ TakesScalar(token)
        \/ Closes(token) \/ TakesKey(token) \/ Separates(token)
    BY <1>2, <2>1, Steps DEF Open
  <2>3. CASE Fails \/ Finishes
    BY <2>3 DEF TextInv, Fails, Finishes, Reading
  <2>4. CASE Opens("object", token) \/ Opens("array", token)
    BY <2>1, <2>4, OpensKeeps DEF TextInv
  <2>5. CASE TakesScalar(token)
    BY <2>1, <2>5, TakesScalarKeeps DEF TextInv
  <2>6. CASE Closes(token)
    BY <2>1, <2>6, ClosesKeeps DEF TextInv
  <2>7. CASE TakesKey(token)
    BY <2>1, <2>7, TakesKeyKeeps DEF TextInv
  <2>8. CASE Separates(token)
    BY <2>1, <2>8, SeparatesKeeps DEF TextInv
  <2> QED
    BY <2>2, <2>3, <2>4, <2>5, <2>6, <2>7, <2>8
<1> QED
  BY <1>1, <1>2 DEF Next

(* The two readers fail, finish and nest together in every text.              *)
THEOREM ReadersAgree == Spec => []TextInv
<1>1. ASSUME Init PROVE TextInv
  <2>1. /\ DOMAIN dom = {"expects", "stack", "value"} /\ dom.expects = "value" /\ dom.stack = << >>
        /\ DOMAIN stream = {"expects", "stack", "out", "seen", "repeated"} /\ stream.expects = "value"
        /\ stream.stack = << >> /\ stream.out = << >> /\ stream.seen = << >> /\ stream.repeated = FALSE
    BY <1>1 DEF Init, NewDom, NewStream
  <2>2. IsSeq(<< >>) /\ Len(<< >>) = 0
    BY EmptySeq DEF IsSeq
  <2>3. \A i \in 1..0 : FALSE
    OBVIOUS
  <2>4. SameContainers /\ KeysInPlace /\ MarksInOrder /\ SeenIsWritten /\ SeenByContainer
    BY <2>1, <2>2, <2>3 DEF SameContainers, KeysInPlace, MarksInOrder, SeenIsWritten, SeenByContainer
  <2>5. Expecting
    BY <2>1 DEF Expecting, End
  <2> QED
    BY <2>1, <2>4, <2>5 DEF TextInv, Open
<1>2. TextInv /\ [Next]_vars => TextInv'
  BY TextInvStep
<1> QED
  BY <1>1, <1>2, PTL DEF Spec

(* SeenAreOpenKeys: `seen` above a mark is the keys of that open object.      *)
THEOREM SeenAreAlwaysOpenKeys == Spec => []SeenAreOpenKeys
<1>1. ASSUME TextInv PROVE SeenAreOpenKeys
  <2> SUFFICES ASSUME Reading(stream), ~stream.repeated
               PROVE  /\ Len(stream.stack) = Len(dom.stack)
                      /\ \A i \in DOMAIN stream.stack :
                           stream.stack[i].kind = "object" => SeenKeys(i) = OpenKeys(i)
                      /\ \A i, j \in DOMAIN stream.seen : stream.seen[i].at = stream.seen[j].at => i = j
    BY DEF SeenAreOpenKeys
  <2>1. SameContainers /\ MarksInOrder /\ SeenIsWritten /\ SeenByContainer
    BY <1>1 DEF TextInv, Open
  <2>2. Len(stream.stack) = Len(dom.stack) /\ DOMAIN stream.stack = 1..Len(stream.stack)
    BY <2>1, Listed DEF SameContainers
  <2>3. PICK e \in Nat : e = Len(stream.seen) /\ DOMAIN stream.seen = 1..e
    BY <2>1, Listed DEF MarksInOrder
  <2>4. ASSUME NEW i \in 1..e, NEW j \in 1..e, stream.seen[i].at = stream.seen[j].at PROVE i = j
    <3>1. stream.seen[i].at \in Int /\ stream.seen[j].at \in Int
      BY <2>1, <2>3 DEF SeenIsWritten
    <3>2. ~(i < j) /\ ~(j < i)
      BY <2>1, <2>3, <2>4, <3>1 DEF SeenIsWritten
    <3> QED
      BY <3>2
  <2> QED
    BY <2>1, <2>2, <2>3, <2>4 DEF SeenByContainer
<1> QED
  BY <1>1, ReadersAgree, PTL

(* The flag is set by reading a key that the innermost object already has,    *)
(* which is when `parse` will overwrite an entry, and by nothing else.         *)
RepeatsAreNoticed ==
  ~stream.repeated /\ Reading(stream) =>
    (stream'.repeated <=>
       \E token \in KeyTokens :
         TakesKey(token) /\ KeyOf[token] \in KeysOf(Last(dom.stack).value.entries))

(* parse_object_stream sets `repeated` exactly when `parse` overwrites.       *)
THEOREM RepeatsAreAlwaysNoticed == Spec => [][RepeatsAreNoticed]_vars
<1>1. ASSUME TextInv, Next PROVE RepeatsAreNoticed
  <2> SUFFICES ASSUME ~stream.repeated, Reading(stream)
               PROVE  stream'.repeated <=>
                        \E token \in KeyTokens :
                          TakesKey(token) /\ KeyOf[token] \in KeysOf(Last(dom.stack).value.entries)
    BY DEF RepeatsAreNoticed
  <2>1. PICK token \in Tokens : Read(token)
    BY <1>1 DEF Next
  <2>2. Open /\ dom.expects = stream.expects
    BY <1>1 DEF TextInv
  <2>3. PICK D : D = KeysOf(dom.stack[Len(dom.stack)].value.entries) /\ D = KeysOf(Last(dom.stack).value.entries)
    BY DEF Last
  <2>4. ASSUME NEW t \in KeyTokens, TakesKey(t)
        PROVE  stream'.repeated <=> KeyOf[t] \in D
    <3>1. stream' = StreamKey(t) /\ Kind = "object" /\ stream.expects \in {"first", "key"}
      BY <2>4 DEF TakesKey
    <3>2. PICK key : key = KeyOf[t]
      OBVIOUS
    <3>3. IsRepeated(key) <=> key \in D
      BY <2>2, <2>3, <3>1, LookupIsExact
    <3>4. stream'.repeated = (stream.repeated \/ IsRepeated(key))
      BY <2>2, <2>4, <3>1, <3>2 DEF StreamKey, Open, SameContainers
    <3> QED
      BY <3>2, <3>3, <3>4
  <2>5. CASE \E t \in KeyTokens : TakesKey(t)
    BY <2>3, <2>4, <2>5
  <2>6. CASE ~\E t \in KeyTokens : TakesKey(t)
    <3>1. stream'.repeated = stream.repeated
      <4>1. DOMAIN stream = {"expects", "stack", "out", "seen", "repeated"}
        BY <2>2 DEF Open, SameContainers
      <4>2. ~TakesKey(token)
        BY <2>6 DEF TakesKey
      <4>3. \/ Fails \/ Finishes
            \/ Opens("object", token) \/ Opens("array", token) \/ TakesScalar(token)
            \/ Closes(token) \/ Separates(token)
        BY <2>1, <2>2, <4>2, Steps DEF Open
      <4>4. CASE Fails \/ Finishes
        BY <4>4 DEF Fails, Finishes
      <4>5. CASE Opens("object", token) \/ Opens("array", token)
        BY <4>1, <4>5 DEF Opens, StreamOpen
      <4>6. CASE TakesScalar(token)
        BY <4>1, <4>6 DEF TakesScalar
      <4>7. CASE Closes(token)
        BY <4>1, <4>7 DEF Closes, StreamClose
      <4>8. CASE Separates(token)
        BY <4>1, <4>8 DEF Separates
      <4> QED
        BY <4>3, <4>4, <4>5, <4>6, <4>7, <4>8
    <3> QED
      BY <2>6, <3>1
  <2> QED
    BY <2>5, <2>6
<1>2. TextInv /\ [Next]_vars => [RepeatsAreNoticed]_vars
  BY <1>1
<1> QED
  BY <1>2, ReadersAgree, PTL DEF Spec

-----------------------------------------------------------------------------
(* Induction over the naturals, for a property given as a set: the least      *)
(* number without it would follow one that has it.                            *)
LEMMA SetInduction ==
  ASSUME NEW S \in SUBSET Nat, 0 \in S, \A n \in S : n + 1 \in S
  PROVE  S = Nat
<1> SUFFICES ASSUME Nat \ S # {} PROVE FALSE
  OBVIOUS
<1> DEFINE R == {ss \in Nat \X Nat : ss[1] < ss[2]}
<1>1. OpToRel(<, Nat) = R
  BY DEF OpToRel
<1>2. IsWellFoundedOn(R, Nat)
  BY <1>1, NatLessThanWellFounded, Zenon
<1>3. PICK m \in Nat \ S : \A n \in Nat \ S : <<n, m>> \notin R
  <2> HIDE DEF R
  <2> QED
    BY <1>2, WFMin, Zenon
<1>4. \A n \in Nat \ S : ~(n < m)
  BY <1>3
<1>5. m # 0 /\ m - 1 \in Nat /\ m - 1 < m
  OBVIOUS
<1>6. m - 1 \in S
  BY <1>4, <1>5
<1> QED
  BY <1>5, <1>6

-----------------------------------------------------------------------------
(* The texts. *)

(* The tokens of a written text, and the texts; "" is the token of a container. *)
Words == Tokens \cup {"null", ""}
Texts == Seq(Words)

(* Concatenation of texts: associative, and one token is appended.            *)
LEMMA Joined ==
  ASSUME NEW a \in Texts, NEW b \in Texts, NEW c \in Texts
  PROVE  /\ a \o b \in Texts /\ (a \o b) \o c = a \o (b \o c)
         /\ a \o << >> = a /\ << >> \o a = a /\ << >> \in Texts
<1>1. << >> \in Texts
  BY EmptySeq DEF Texts
<1> QED
  BY <1>1, ConcatProperties, ConcatAssociative, ConcatEmptySeq DEF Texts

LEMMA JoinedText ==
  ASSUME NEW a \in Texts, NEW b \in Texts PROVE a \o b \in Texts
BY ConcatProperties DEF Texts

LEMMA JoinedThree ==
  ASSUME NEW a \in Texts, NEW b \in Texts, NEW c \in Texts PROVE (a \o b) \o c = a \o (b \o c)
BY ConcatAssociative DEF Texts

LEMMA OneMoreToken ==
  ASSUME NEW a \in Texts, NEW token \in Words
  PROVE  <<token>> \in Texts /\ Append(a, token) = a \o <<token>>
<1>1. <<token>> \in Texts
  <2>1. <<token>> = Append(<< >>, token) /\ << >> \in Texts
    BY EmptySeq DEF Texts
  <2> QED
    BY <2>1, AppendProperties DEF Texts
<1> QED
  BY <1>1, AppendIsConcat DEF Texts

(* A sequence of texts.                                                       *)
Parts(s) == IsSeq(s) /\ \A i \in 1..Len(s) : s[i] \in Texts

(* What FlattenSeq puts together, part by part.                               *)
Flattens(f, s) == f = [i \in 1..Len(s) |-> IF i = 1 THEN s[i] ELSE f[i - 1] \o s[i]]

LEMMA FlattenJoins ==
  ASSUME NEW s, Parts(s), Len(s) # 0
  PROVE  \E f : Flattens(f, s) /\ FlattenSeq(s) = f[Len(s)]
<1>1. PICK N \in Nat : N = Len(s) /\ N # 0
  BY Listed DEF Parts
<1> DEFINE Good(f, m) == \A i \in 1..m : f[i] = IF i = 1 THEN s[i] ELSE f[i - 1] \o s[i]
           S == {m \in Nat : \E f : Good(f, m)}
<1>2. 0 \in S
  <2>1. \A i \in 1..0 : FALSE
    OBVIOUS
  <2>2. Good(0, 0)
    BY <2>1
  <2> QED
    BY <2>2
<1>3. ASSUME NEW m \in S PROVE m + 1 \in S
  <2>1. m \in Nat
    OBVIOUS
  <2>2. PICK f : Good(f, m)
    OBVIOUS
  <2> DEFINE g == [i \in 1..m + 1 |-> IF i = m + 1 /\ m # 0 THEN f[m] \o s[i] ELSE IF i = m + 1 THEN s[i] ELSE f[i]]
  <2>3. ASSUME NEW i \in 1..m + 1 PROVE g[i] = IF i = 1 THEN s[i] ELSE g[i - 1] \o s[i]
    <3>1. CASE i = m + 1 /\ m # 0
      <4>1. i # 1 /\ i - 1 = m /\ m \in 1..m + 1 /\ m # m + 1
        BY <2>1, <3>1
      <4>2. g[m] = f[m] /\ g[i] = f[m] \o s[i]
        BY <3>1, <4>1
      <4> HIDE DEF g
      <4> QED
        BY <4>1, <4>2
    <3>2. CASE i = m + 1 /\ m = 0
      BY <3>2
    <3>3. CASE i # m + 1
      <4>1. i \in 1..m /\ (i # 1 => i - 1 \in 1..m /\ i - 1 \in 1..m + 1 /\ i - 1 # m + 1)
        BY <2>1, <3>3
      <4>2. g[i] = f[i] /\ (i # 1 => g[i - 1] = f[i - 1])
        BY <3>3, <4>1
      <4> HIDE DEF g
      <4> QED
        BY <2>2, <4>1, <4>2
    <3> QED
      BY <3>1, <3>2, <3>3
  <2> HIDE DEF g
  <2>4. Good(g, m + 1)
    BY <2>3
  <2> QED
    BY <2>1, <2>4
<1>4. S = Nat
  <2> HIDE DEF S
  <2>1. S \in SUBSET Nat
    BY DEF S
  <2> QED
    BY <1>2, <1>3, <2>1, SetInduction
<1>5. PICK f : Good(f, N)
  BY <1>4
<1> DEFINE h == [i \in 1..N |-> f[i]]
<1>6. Flattens(h, s)
  <2>1. \A i \in 1..N : i # 1 => i - 1 \in 1..N
    OBVIOUS
  <2>2. \A i \in 1..N : h[i] = IF i = 1 THEN s[i] ELSE h[i - 1] \o s[i]
    BY <1>5, <2>1
  <2>3. h = [i \in 1..N |-> h[i]]
    OBVIOUS
  <2> HIDE DEF h
  <2>4. h = [i \in 1..N |-> IF i = 1 THEN s[i] ELSE h[i - 1] \o s[i]]
    BY <2>2, <2>3
  <2> QED
    BY <1>1, <2>4 DEF Flattens
<1>7. Flattens(CHOOSE g : Flattens(g, s), s)
  BY <1>6
<1>8. FlattenSeq(s) = (CHOOSE g : Flattens(g, s))[Len(s)]
  BY <1>1 DEF FlattenSeq, Flattens
<1> QED
  BY <1>7, <1>8

(* Nothing is flattened to nothing.                                           *)
LEMMA FlattenNone ==
  ASSUME NEW s, Parts(s), Len(s) = 0
  PROVE  FlattenSeq(s) = << >> /\ FlattenSeq(s) \in Texts
<1>1. s = << >> 
  BY Listed DEF Parts
<1> QED
  BY <1>1, EmptySeq DEF FlattenSeq, Texts

(* What has been flattened is a text.                                         *)
LEMMA FlattenedText ==
  ASSUME NEW s, Parts(s), NEW f, Flattens(f, s)
  PROVE  \A i \in 1..Len(s) : f[i] \in Texts
<1>1. PICK N \in Nat : N = Len(s)
  BY Listed DEF Parts
<1>2. \A i \in 1..N : s[i] \in Texts /\ f[i] = IF i = 1 THEN s[i] ELSE f[i - 1] \o s[i]
  BY <1>1 DEF Flattens, Parts
<1> DEFINE S == {m \in Nat : m \in 1..N => f[m] \in Texts}
<1>3. 0 \in S
  OBVIOUS
<1>4. ASSUME NEW m \in S PROVE m + 1 \in S
  <2>1. PICK i \in Nat : i = m + 1 /\ i - 1 = m
    OBVIOUS
  <2>2. ASSUME i \in 1..N PROVE f[i] \in Texts
    <3>1. CASE i = 1
      BY <1>2, <2>2, <3>1
    <3>2. CASE i # 1
      <4>1. f[i - 1] \in Texts
        BY <2>1, <2>2, <3>2
      <4>2. f[i] = f[i - 1] \o s[i] /\ s[i] \in Texts
        BY <1>2, <2>2, <3>2
      <4> QED
        BY <4>1, <4>2, Joined
    <3> QED
      BY <3>1, <3>2
  <2> QED
    BY <2>1, <2>2
<1>5. S = Nat
  <2> HIDE DEF S
  <2>1. S \in SUBSET Nat
    BY DEF S
  <2> QED
    BY <1>3, <1>4, <2>1, SetInduction
<1>6. ASSUME NEW i \in 1..N PROVE f[i] \in Texts
  <2>1. i \in Nat
    OBVIOUS
  <2> QED
    BY <1>5, <2>1
<1> QED
  BY <1>1, <1>6

LEMMA FlattenIsText ==
  ASSUME NEW s, Parts(s)
  PROVE  FlattenSeq(s) \in Texts
<1>1. CASE Len(s) = 0
  BY <1>1, FlattenNone
<1>2. CASE Len(s) # 0
  <2>1. PICK f : Flattens(f, s) /\ FlattenSeq(s) = f[Len(s)]
    BY <1>2, FlattenJoins
  <2>2. Len(s) \in 1..Len(s)
    BY <1>2, Listed DEF Parts
  <2> QED
    BY <2>1, <2>2, FlattenedText
<1> QED
  BY <1>1, <1>2

(* One more part is put at the end.                                           *)
LEMMA FlattenMore ==
  ASSUME NEW s, Parts(s), NEW t, Parts(t), Len(t) = Len(s) + 1,
         \A i \in 1..Len(s) : t[i] = s[i]
  PROVE  FlattenSeq(t) = FlattenSeq(s) \o t[Len(t)]
<1>1. PICK N \in Nat : N = Len(s) /\ Len(t) = N + 1
  BY Listed DEF Parts
<1>2. \A i \in 1..N : t[i] = s[i]
  BY <1>1
<1>3. PICK g : Flattens(g, t) /\ FlattenSeq(t) = g[N + 1]
  BY <1>1, FlattenJoins
<1>4. \A i \in 1..N + 1 : g[i] = IF i = 1 THEN t[i] ELSE g[i - 1] \o t[i]
  BY <1>1, <1>3 DEF Flattens
<1>5. t[N + 1] \in Texts
  BY <1>1 DEF Parts
<1>6. CASE N = 0
  <2>1. g[N + 1] = t[N + 1]
    BY <1>4, <1>6
  <2>2. FlattenSeq(s) = << >>
    BY <1>1, <1>6, FlattenNone
  <2> QED
    BY <1>1, <1>3, <1>5, <2>1, <2>2, Joined
<1>7. CASE N # 0
  <2>1. PICK f : Flattens(f, s) /\ FlattenSeq(s) = f[N]
    BY <1>1, <1>7, FlattenJoins
  <2>2. \A i \in 1..N : f[i] = IF i = 1 THEN s[i] ELSE f[i - 1] \o s[i]
    BY <1>1, <2>1 DEF Flattens
  <2> DEFINE S == {m \in Nat : m \in 1..N => f[m] = g[m]}
  <2>3. 0 \in S
    OBVIOUS
  <2>4. ASSUME NEW m \in S PROVE m + 1 \in S
    <3>1. PICK i \in Nat : i = m + 1 /\ i - 1 = m
      OBVIOUS
    <3>2. ASSUME i \in 1..N PROVE f[i] = g[i]
      <4>1. i \in 1..N + 1
        BY <3>2
      <4>2. f[i] = IF i = 1 THEN s[i] ELSE f[i - 1] \o s[i]
        BY <2>2, <3>2
      <4>3. g[i] = IF i = 1 THEN s[i] ELSE g[i - 1] \o s[i]
        BY <1>2, <1>4, <3>2, <4>1
      <4>4. i # 1 => f[i - 1] = g[i - 1]
        BY <3>1, <3>2
      <4> QED
        BY <4>2, <4>3, <4>4
    <3> QED
      BY <3>1, <3>2
  <2>5. S = Nat
    <3> HIDE DEF S
    <3>1. S \in SUBSET Nat
      BY DEF S
    <3> QED
      BY <2>3, <2>4, <3>1, SetInduction
  <2>6. f[N] = g[N]
    <3>1. N \in 1..N
      BY <1>7
    <3> QED
      BY <2>5, <3>1
  <2>7. g[N + 1] = g[N] \o t[N + 1]
    <3>1. PICK i \in 1..N + 1 : i = N + 1 /\ i # 1 /\ i - 1 = N
      BY <1>7
    <3>2. g[i] = g[i - 1] \o t[i]
      BY <1>4, <3>1
    <3> QED
      BY <3>1, <3>2
  <2> QED
    BY <1>1, <1>3, <2>1, <2>6, <2>7
<1> QED
  BY <1>6, <1>7

-----------------------------------------------------------------------------
(* The documents of each level, and their texts. *)

(* The values of one more level.                                              *)
Level(below) ==
  [kind : {"scalar", "object", "array"}, token : Scalars \cup {"", NonFinite},
   entries : Seq(KeyTokens \X below), items : Seq(below)]
Deepest == MaxDepth + 1

LEMMA DeepestIsNumber == Deepest \in Nat /\ MaxDepth \in Nat
<1>1. MaxDepth \in Nat
  BY TokensAssumption, Zenon
<1> QED
  BY <1>1 DEF Deepest

LEMMA DocumentsByLevel ==
  /\ Documents[0] = {}
  /\ \A n \in 1..Deepest : Documents[n] = Level(Documents[n - 1])
<1> DEFINE N == Deepest
           Good(f, m) == \A n \in 0..m : f[n] = IF n = 0 THEN {} ELSE Level(f[n - 1])
           Equation(f) == f = [n \in 0..N |-> IF n = 0 THEN {} ELSE Level(f[n - 1])]
           S == {m \in Nat : \E f : Good(f, m)}
<1>1. N \in Nat
  BY DeepestIsNumber
<1>2. 0 \in S
  <2>1. Good([n \in 0..0 |-> {}], 0)
    OBVIOUS
  <2> QED
    BY <2>1
<1>3. ASSUME NEW m \in S PROVE m + 1 \in S
  <2>1. m \in Nat
    OBVIOUS
  <2>2. PICK f : Good(f, m)
    OBVIOUS
  <2> DEFINE g == [n \in 0..m + 1 |-> IF n = m + 1 THEN Level(f[m]) ELSE f[n]]
  <2>3. g[m + 1] = Level(f[m]) /\ \A n \in 0..m : g[n] = f[n]
    BY <2>1
  <2> HIDE DEF g
  <2>4. ASSUME NEW n \in 0..m + 1 PROVE g[n] = IF n = 0 THEN {} ELSE Level(g[n - 1])
    <3>1. CASE n = m + 1
      <4>1. n # 0 /\ n - 1 = m /\ m \in 0..m
        BY <2>1, <3>1
      <4> QED
        BY <2>3, <3>1, <4>1
    <3>2. CASE n # m + 1
      <4>1. n \in 0..m /\ (n = 0 \/ n - 1 \in 0..m)
        BY <2>1, <3>2
      <4> QED
        BY <2>2, <2>3, <4>1
    <3> QED
      BY <3>1, <3>2
  <2>5. Good(g, m + 1)
    BY <2>4
  <2> QED
    BY <2>1, <2>5
<1>4. S = Nat
  <2> HIDE DEF S
  <2>1. S \in SUBSET Nat
    BY DEF S
  <2> QED
    BY <1>2, <1>3, <2>1, SetInduction
<1>5. PICK f : Good(f, N)
  BY <1>1, <1>4
<1> DEFINE h == [n \in 0..N |-> f[n]]
<1>6. Equation(h)
  <2>1. \A n \in 0..N : n # 0 => n - 1 \in 0..N
    BY <1>1
  <2>2. \A n \in 0..N : h[n] = IF n = 0 THEN {} ELSE Level(h[n - 1])
    BY <1>5, <2>1
  <2>3. h = [n \in 0..N |-> h[n]]
    OBVIOUS
  <2> HIDE DEF h
  <2> QED
    BY <2>2, <2>3
<1> DEFINE to == CHOOSE g : Equation(g)
<1>7. Documents = to
  BY DEF Documents, Level, N, Deepest
<1>8. Equation(to)
  <2> HIDE DEF Equation
  <2> QED
    BY <1>6
<1> HIDE DEF to
<1>9. \A n \in 0..N : to[n] = IF n = 0 THEN {} ELSE Level(to[n - 1])
  BY <1>8
<1>10. 0 \in 0..N /\ \A n \in 1..N : n \in 0..N /\ n # 0
  BY <1>1
<1> QED
  BY <1>7, <1>9, <1>10

(* The texts of a level, given those of the level below.                      *)
Spelled(n, below) == [value \in Documents[n] |-> Spelling(value, below)]

LEMMA WrittenByLevel ==
  \A n \in 0..Deepest : Written[n] = Spelled(n, Written[n - 1])
<1> DEFINE N == Deepest
           Good(f, m) == \A n \in 0..m : f[n] = Spelled(n, f[n - 1])
           Equation(f) == f = [n \in 0..N |-> Spelled(n, f[n - 1])]
           S == {m \in Nat : \E f : Good(f, m)}
<1>1. N \in Nat
  BY DeepestIsNumber
<1>2. \A a, b : Spelled(0, a) = Spelled(0, b)
  BY DocumentsByLevel DEF Spelled
<1>3. 0 \in S
  <2>1. PICK a : a = Spelled(0, 0)
    OBVIOUS
  <2> DEFINE f == [n \in 0..0 |-> a]
  <2>2. f[0] = Spelled(0, f[0 - 1])
    <3>1. f[0] = a
      OBVIOUS
    <3> HIDE DEF f
    <3> QED
      BY <1>2, <2>1, <3>1
  <2> HIDE DEF f
  <2>3. Good(f, 0)
    BY <2>2
  <2> QED
    BY <2>3
<1>4. ASSUME NEW m \in S PROVE m + 1 \in S
  <2>1. m \in Nat
    OBVIOUS
  <2>2. PICK f : Good(f, m)
    OBVIOUS
  <2> DEFINE g == [n \in 0..m + 1 |-> IF n = m + 1 THEN Spelled(n, f[m]) ELSE f[n]]
  <2>3. g[m + 1] = Spelled(m + 1, f[m]) /\ \A n \in 0..m : g[n] = f[n]
    BY <2>1
  <2> HIDE DEF g
  <2>4. ASSUME NEW n \in 0..m + 1 PROVE g[n] = Spelled(n, g[n - 1])
    <3>1. CASE n = m + 1
      <4>1. n - 1 = m /\ m \in 0..m
        BY <2>1, <3>1
      <4> QED
        BY <2>3, <3>1, <4>1
    <3>2. CASE n = 0
      <4>1. 0 \in 0..m
        BY <2>1
      <4>2. g[0] = Spelled(0, f[0 - 1])
        BY <2>2, <2>3, <4>1
      <4> QED
        BY <1>2, <3>2, <4>2
    <3>3. CASE n # m + 1 /\ n # 0
      <4>1. n \in 0..m /\ n - 1 \in 0..m
        BY <2>1, <3>3
      <4> QED
        BY <2>2, <2>3, <4>1
    <3> QED
      BY <3>1, <3>2, <3>3
  <2>5. Good(g, m + 1)
    BY <2>4
  <2> QED
    BY <2>1, <2>5
<1>5. S = Nat
  <2> HIDE DEF S
  <2>1. S \in SUBSET Nat
    BY DEF S
  <2> QED
    BY <1>3, <1>4, <2>1, SetInduction
<1>6. PICK f : Good(f, N)
  BY <1>1, <1>5
<1> DEFINE h == [n \in 0..N |-> f[n]]
<1>7. Equation(h)
  <2>1. \A n \in 0..N : n # 0 => n - 1 \in 0..N
    BY <1>1
  <2>2. \A n \in 0..N : h[n] = f[n]
    OBVIOUS
  <2>3. h = [n \in 0..N |-> h[n]]
    OBVIOUS
  <2> HIDE DEF h
  <2>4. ASSUME NEW n \in 0..N PROVE h[n] = Spelled(n, h[n - 1])
    <3>1. CASE n = 0
      BY <1>2, <1>6, <2>2, <3>1
    <3>2. CASE n # 0
      BY <1>6, <2>1, <2>2, <3>2
    <3> QED
      BY <3>1, <3>2
  <2> QED
    BY <2>3, <2>4
<1> DEFINE to == CHOOSE g : Equation(g)
<1>8. Written = to
  BY Zenon DEF Written, Spelled, N, Deepest
<1>9. Equation(to)
  <2> HIDE DEF Equation
  <2> QED
    BY <1>7
<1> HIDE DEF to
<1>10. \A n \in 0..N : to[n] = Spelled(n, to[n - 1])
  BY <1>9
<1> QED
  BY <1>8, <1>10

-----------------------------------------------------------------------------
(* The text of a container: a bracket, its pieces, and a bracket. *)

IsContainer(value) == value.kind \in {"object", "array"}
Count(value) == IF value.kind = "object" THEN Len(value.entries) ELSE Len(value.items)
Opening(value) == IF value.kind = "object" THEN "{" ELSE "["
Closing(value) == IF value.kind = "object" THEN "}" ELSE "]"

(* What comes before a value in a container of the kind, after n others.      *)
Lead(kind, n, key) == IF kind = "object" THEN Comma(n + 1) \o <<key>> ELSE Comma(n + 1)
Pieces(value, below) ==
  IF value.kind = "object"
  THEN [i \in DOMAIN value.entries |->
          Comma(i) \o <<value.entries[i][1]>> \o below[value.entries[i][2]]]
  ELSE [i \in DOMAIN value.items |-> Comma(i) \o below[value.items[i]]]

LEMMA ContainerSpelled ==
  ASSUME NEW value, IsContainer(value), NEW below
  PROVE  Spelling(value, below) =
           (<<Opening(value)>> \o FlattenSeq(Pieces(value, below))) \o <<Closing(value)>>
<1>1. CASE value.kind = "object"
  BY <1>1, Zenon DEF Spelling, Opening, Closing, Pieces
<1>2. CASE value.kind = "array"
  BY <1>2, Zenon DEF Spelling, Opening, Closing, Pieces
<1> QED
  BY <1>1, <1>2 DEF IsContainer

(* The tokens of a text.                                                      *)
LEMMA TokensAreWords ==
  /\ "{" \in Words /\ "}" \in Words /\ "[" \in Words /\ "]" \in Words /\ "," \in Words
  /\ "null" \in Words /\ "" \in Words
  /\ \A token \in Tokens : token \in Words
  /\ \A key \in KeyTokens : key \in Words /\ key \in Tokens
  /\ \A token \in Scalars : token \in Words /\ token \in Tokens
BY DEF Words, Tokens, Punctuation

(* Commas and keys are texts.                                                 *)
LEMMA LeadIsText ==
  ASSUME NEW i, NEW key \in KeyTokens
  PROVE  Comma(i) \in Texts /\ Comma(i) \o <<key>> \in Texts
<1>1. << >> \in Texts
  BY EmptySeq DEF Texts
<1>2. <<",">> \in Texts /\ <<key>> \in Texts
  BY <1>1, TokensAreWords, OneMoreToken
<1>3. Comma(i) \in Texts
  BY <1>1, <1>2 DEF Comma
<1> QED
  BY <1>2, <1>3, JoinedText

(* What a value of a level holds.                                             *)
LEMMA InLevel ==
  ASSUME NEW D, NEW value \in Level(D)
  PROVE  /\ value.kind \in {"scalar", "object", "array"}
         /\ value.token \in Scalars \cup {"", NonFinite}
         /\ IsSeq(value.entries) /\ IsSeq(value.items)
         /\ \A i \in 1..Len(value.entries) :
              value.entries[i][1] \in KeyTokens /\ value.entries[i][2] \in D
         /\ \A i \in 1..Len(value.items) : value.items[i] \in D
<1>1. /\ value.kind \in {"scalar", "object", "array"} /\ value.token \in Scalars \cup {"", NonFinite}
      /\ value.entries \in Seq(KeyTokens \X D) /\ value.items \in Seq(D)
  BY DEF Level
<1>2. PICK e, s : e = value.entries /\ s = value.items
  OBVIOUS
<1>3. \A i \in 1..Len(e) : e[i] \in KeyTokens \X D
  BY <1>1, <1>2, ElementOfSeq
<1>4. \A i \in 1..Len(s) : s[i] \in D
  BY <1>1, <1>2, ElementOfSeq
<1>5. IsSeq(e) /\ IsSeq(s)
  BY <1>1, <1>2, OwnElements
<1> QED
  BY <1>1, <1>2, <1>3, <1>4, <1>5

Writes(below, D) == \A v \in D : below[v] \in Texts

LEMMA PiecesAreParts ==
  ASSUME NEW D, NEW value \in Level(D), NEW below, Writes(below, D)
  PROVE  /\ Parts(Pieces(value, below)) /\ Len(Pieces(value, below)) = Count(value)
         /\ Count(value) \in Nat
<1> DEFINE p == Pieces(value, below)
<1>1. CASE value.kind = "object"
  <2>1. PICK n \in Nat : n = Len(value.entries) /\ DOMAIN value.entries = 1..n
    BY InLevel, Listed
  <2>2. p = [i \in 1..n |-> Comma(i) \o <<value.entries[i][1]>> \o below[value.entries[i][2]]]
    BY <1>1, <2>1 DEF Pieces
  <2>3. p = [i \in 1..n |-> p[i]] /\ \A i \in 1..n : p[i] = (Comma(i) \o <<value.entries[i][1]>>) \o below[value.entries[i][2]]
    BY <2>2
  <2> HIDE DEF p
  <2>4. IsSeq(p) /\ Len(p) = n
    BY <2>3, FunctionIsSeq
  <2>5. ASSUME NEW i \in 1..n PROVE p[i] \in Texts
    <3>1. value.entries[i][1] \in KeyTokens /\ value.entries[i][2] \in D
      BY <2>1, InLevel
    <3>2. Comma(i) \o <<value.entries[i][1]>> \in Texts
      BY <3>1, LeadIsText
    <3>3. below[value.entries[i][2]] \in Texts
      BY <3>1 DEF Writes
    <3> QED
      BY <2>3, <3>2, <3>3, JoinedText
  <2> QED
    BY <1>1, <2>1, <2>4, <2>5 DEF Parts, Count, p
<1>2. CASE value.kind # "object"
  <2>1. PICK n \in Nat : n = Len(value.items) /\ DOMAIN value.items = 1..n
    BY InLevel, Listed
  <2>2. p = [i \in 1..n |-> Comma(i) \o below[value.items[i]]]
    BY <1>2, <2>1 DEF Pieces
  <2>3. p = [i \in 1..n |-> p[i]] /\ \A i \in 1..n : p[i] = Comma(i) \o below[value.items[i]]
    BY <2>2
  <2> HIDE DEF p
  <2>4. IsSeq(p) /\ Len(p) = n
    BY <2>3, FunctionIsSeq
  <2>5. ASSUME NEW i \in 1..n PROVE p[i] \in Texts
    <3>1. value.items[i] \in D
      BY <2>1, InLevel
    <3>2. Comma(i) \in Texts
      <4>1. << >> \in Texts /\ <<",">> \in Texts
        BY TokensAreWords, OneMoreToken, EmptySeq DEF Texts
      <4> QED
        BY <4>1 DEF Comma
    <3>3. below[value.items[i]] \in Texts
      BY <3>1 DEF Writes
    <3> QED
      BY <2>3, <3>2, <3>3, JoinedText
  <2> QED
    BY <1>2, <2>1, <2>4, <2>5 DEF Parts, Count, p
<1> QED
  BY <1>1, <1>2

(* A container so far, before the bracket that closes it.                      *)
Body(value, below) == <<Opening(value)>> \o FlattenSeq(Pieces(value, below))

LEMMA BodyIsText ==
  ASSUME NEW D, NEW value \in Level(D), NEW below, Writes(below, D)
  PROVE  /\ Body(value, below) \in Texts /\ FlattenSeq(Pieces(value, below)) \in Texts
         /\ <<Opening(value)>> \in Texts /\ <<Closing(value)>> \in Texts
<1>1. FlattenSeq(Pieces(value, below)) \in Texts
  BY PiecesAreParts, FlattenIsText
<1>2. << >> \in Texts
  BY EmptySeq DEF Texts
<1>3. Opening(value) \in Words /\ Closing(value) \in Words
  BY TokensAreWords DEF Opening, Closing
<1>4. <<Opening(value)>> \in Texts /\ <<Closing(value)>> \in Texts
  BY <1>2, <1>3, OneMoreToken
<1> QED
  BY <1>1, <1>4, JoinedText DEF Body

LEMMA SpellingIsText ==
  ASSUME NEW D, NEW value \in Level(D), NEW below, Writes(below, D)
  PROVE  Spelling(value, below) \in Texts
<1>1. CASE value.kind = "scalar"
  <2>1. PICK token : token = IF value.token = NonFinite THEN "null" ELSE value.token
    OBVIOUS
  <2>2. token \in Words
    BY <2>1, InLevel, TokensAreWords
  <2>3. << >> \in Texts
    BY EmptySeq DEF Texts
  <2>4. Spelling(value, below) = <<token>>
    BY <1>1, <2>1, Zenon DEF Spelling
  <2> QED
    BY <2>2, <2>3, <2>4, OneMoreToken
<1>2. CASE value.kind # "scalar"
  <2>1. IsContainer(value)
    BY <1>2, InLevel DEF IsContainer
  <2> QED
    BY <2>1, ContainerSpelled, BodyIsText, JoinedText DEF Body
<1> QED
  BY <1>1, <1>2

(* The text of a document is a text.                                          *)
LEMMA WrittenIsText ==
  \A n \in 0..Deepest : Writes(Written[n], Documents[n])
<1> DEFINE S == {m \in Nat : m \in 0..Deepest => Writes(Written[m], Documents[m])}
<1>1. 0 \in S
  BY DocumentsByLevel DEF Writes
<1>2. ASSUME NEW m \in S PROVE m + 1 \in S
  <2>1. PICK n \in Nat : n = m + 1 /\ n - 1 = m
    OBVIOUS
  <2>2. ASSUME n \in 0..Deepest PROVE Writes(Written[n], Documents[n])
    <3>1. m \in 0..Deepest /\ n \in 1..Deepest
      BY <2>1, <2>2, DeepestIsNumber
    <3>2. Writes(Written[m], Documents[m])
      BY <3>1
    <3>3. Documents[n] = Level(Documents[m]) /\ Written[n] = Spelled(n, Written[m])
      BY <2>1, <2>2, <3>1, DocumentsByLevel, WrittenByLevel
    <3>4. ASSUME NEW v \in Documents[n] PROVE Written[n][v] \in Texts
      <4>1. Written[n][v] = Spelling(v, Written[m])
        BY <3>3 DEF Spelled
      <4> QED
        BY <3>2, <3>3, <4>1, SpellingIsText
    <3> QED
      BY <3>4 DEF Writes
  <2> QED
    BY <2>1, <2>2
<1>3. S = Nat
  <2> HIDE DEF S
  <2>1. S \in SUBSET Nat
    BY DEF S
  <2> QED
    BY <1>1, <1>2, <2>1, SetInduction
<1> QED
  <2>1. \A n \in 0..Deepest : n \in Nat
    BY DeepestIsNumber
  <2> QED
    BY <1>3, <2>1

(* A container is a document of a level when what it holds is of the level    *)
(* below, and its text is put together from theirs.                           *)
LEMMA DocumentOfLevel ==
  ASSUME NEW n \in 1..Deepest
  PROVE  /\ n - 1 \in 0..Deepest /\ Documents[n] = Level(Documents[n - 1])
         /\ Writes(Written[n - 1], Documents[n - 1])
         /\ \A v \in Documents[n] : /\ Written[n][v] = Spelling(v, Written[n - 1])
                                    /\ Written[n][v] \in Texts
<1>1. n - 1 \in 0..Deepest /\ n \in 0..Deepest
  BY DeepestIsNumber
<1>2. Written[n] = Spelled(n, Written[n - 1])
  BY <1>1, WrittenByLevel
<1>3. \A v \in Documents[n] : Written[n][v] = Spelling(v, Written[n - 1])
  BY <1>2 DEF Spelled
<1>4. \A v \in Documents[n] : Written[n][v] \in Texts
  BY <1>1, WrittenIsText DEF Writes
<1> QED
  BY <1>1, <1>3, <1>4, DocumentsByLevel, WrittenIsText

-----------------------------------------------------------------------------
(* What `ordered_stream` has written, container by container. *)

(* What it has written of a container beyond the values that are complete.    *)
Started(frame, expects) ==
  IF expects = "value" THEN Lead(frame.value.kind, Count(frame.value), frame.key)
  ELSE IF expects = "key" THEN <<",">> ELSE << >>

(* The values in the i-th container, the levels below it.                     *)
Within(i) == Documents[Deepest - i]
Below(i) == Written[Deepest - i]

FrameText(frame, i, expects) == Body(frame.value, Below(i)) \o Started(frame, expects)

FrameTold(frame, i, expects) ==
  /\ i \in 1..Deepest
  /\ IsContainer(frame.value) /\ frame.value \in Level(Within(i))
  /\ frame.value.kind = "object" /\ expects = "value" =>
       frame.key \in KeyTokens /\ frame.key \notin KeysOf(frame.value.entries)
  /\ expects = "first" => Count(frame.value) = 0
  /\ expects \in {"key", "after"} => Count(frame.value) # 0

(* A container around another one is in the middle of a value.                 *)
ExpectsAt(i, stack, expects) == IF i = Len(stack) THEN expects ELSE "value"
Frames(stack, expects) ==
  [i \in 1..Len(stack) |-> FrameText(stack[i], i, ExpectsAt(i, stack, expects))]

Tells(stack, expects, out) ==
  /\ IsSeq(stack)
  /\ \A i \in 1..Len(stack) : FrameTold(stack[i], i, ExpectsAt(i, stack, expects))
  /\ out = FlattenSeq(Frames(stack, expects))

(* The i-th container and what is in it.                                      *)
LEMMA Nesting ==
  ASSUME NEW i \in 1..Deepest
  PROVE  /\ Deepest + 1 - i \in 1..Deepest
         /\ Documents[Deepest + 1 - i] = Level(Within(i))
         /\ Writes(Below(i), Within(i))
         /\ \A v \in Level(Within(i)) : /\ Written[Deepest + 1 - i][v] = Spelling(v, Below(i))
                                        /\ Written[Deepest + 1 - i][v] \in Texts
<1>1. PICK n \in 1..Deepest : n = Deepest + 1 - i /\ n - 1 = Deepest - i
  BY DeepestIsNumber
<1> QED
  BY <1>1, DocumentOfLevel DEF Within, Below

LEMMA FrameTextIsText ==
  ASSUME NEW frame, NEW i, NEW expects, FrameTold(frame, i, expects)
  PROVE  /\ FrameText(frame, i, expects) \in Texts
         /\ Body(frame.value, Below(i)) \in Texts /\ Started(frame, expects) \in Texts
<1>1. i \in 1..Deepest /\ IsContainer(frame.value) /\ frame.value \in Level(Within(i))
  BY DEF FrameTold
<1>2. Body(frame.value, Below(i)) \in Texts
  BY <1>1, Nesting, BodyIsText
<1>3. << >> \in Texts /\ <<",">> \in Texts
  BY TokensAreWords, OneMoreToken, EmptySeq DEF Texts
<1>4. Started(frame, expects) \in Texts
  <2>1. CASE expects = "value" /\ frame.value.kind = "object"
    <3>1. frame.key \in KeyTokens
      BY <2>1 DEF FrameTold
    <3> QED
      BY <2>1, <3>1, LeadIsText DEF Started, Lead
  <2>2. CASE expects = "value" /\ frame.value.kind # "object"
    <3>1. Started(frame, expects) = Comma(Count(frame.value) + 1)
      BY <2>2 DEF Started, Lead
    <3> QED
      BY <1>3, <3>1 DEF Comma
  <2>3. CASE expects # "value"
    BY <1>3, <2>3 DEF Started
  <2> QED
    BY <2>1, <2>2, <2>3
<1> QED
  BY <1>2, <1>4, JoinedText DEF FrameText

(* The frames' texts are a sequence of texts.                                 *)
LEMMA FramesAreParts ==
  ASSUME NEW stack, NEW expects, NEW out, Tells(stack, expects, out)
  PROVE  /\ Parts(Frames(stack, expects)) /\ Len(Frames(stack, expects)) = Len(stack)
         /\ Len(stack) \in Nat /\ out \in Texts
         /\ \A i \in 1..Len(stack) :
              Frames(stack, expects)[i] = FrameText(stack[i], i, ExpectsAt(i, stack, expects))
<1> DEFINE F == Frames(stack, expects)
<1>1. PICK n \in Nat : n = Len(stack)
  BY Listed DEF Tells
<1>2. F = [i \in 1..n |-> F[i]]
      /\ \A i \in 1..n : F[i] = FrameText(stack[i], i, ExpectsAt(i, stack, expects))
  BY <1>1 DEF Frames
<1>3. out = FlattenSeq(F)
  BY DEF Tells
<1> HIDE DEF F
<1>4. IsSeq(F) /\ Len(F) = n
  BY <1>2, FunctionIsSeq
<1>5. \A i \in 1..n : F[i] \in Texts
  BY <1>1, <1>2, FrameTextIsText DEF Tells
<1>6. Parts(F)
  BY <1>4, <1>5 DEF Parts
<1> QED
  BY <1>1, <1>2, <1>3, <1>4, <1>6, FlattenIsText DEF F

(* What has been written before the innermost container.                      *)
Apart(rest, out, text) == \E before : Tells(rest, "value", before) /\ out = before \o text

LEMMA TopApart ==
  ASSUME NEW stack, NEW expects, NEW out, Tells(stack, expects, out),
         NEW m \in Nat, Len(stack) = m + 1,
         NEW rest, IsSeq(rest), Len(rest) = m, \A i \in 1..m : rest[i] = stack[i]
  PROVE  Apart(rest, out, FrameText(stack[m + 1], m + 1, expects))
<1>1. PICK n \in Nat : n = Len(stack) /\ n = m + 1
  OBVIOUS
<1>2. PICK F, G : F = Frames(stack, expects) /\ G = Frames(rest, "value")
  OBVIOUS
<1>3. PICK before : before = FlattenSeq(G)
  OBVIOUS
<1>4. ASSUME NEW i \in 1..m
      PROVE  i \in 1..n /\ ExpectsAt(i, stack, expects) = "value" /\ ExpectsAt(i, rest, "value") = "value"
  <2>1. i \in 1..n /\ i # n
    BY <1>1
  <2> QED
    BY <1>1, <2>1 DEF ExpectsAt
<1>5. Tells(rest, "value", before)
  <2>1. ASSUME NEW i \in 1..m PROVE FrameTold(rest[i], i, ExpectsAt(i, rest, "value"))
    <3>1. FrameTold(stack[i], i, ExpectsAt(i, stack, expects))
      BY <1>1, <1>4 DEF Tells
    <3> QED
      BY <1>4, <3>1
  <2> QED
    BY <1>2, <1>3, <2>1 DEF Tells
<1>6. /\ Parts(F) /\ Len(F) = n /\ out = FlattenSeq(F)
      /\ \A i \in 1..n : F[i] = FrameText(stack[i], i, ExpectsAt(i, stack, expects))
  BY <1>1, <1>2, FramesAreParts DEF Tells
<1>7. /\ Parts(G) /\ Len(G) = m
      /\ \A i \in 1..m : G[i] = FrameText(rest[i], i, ExpectsAt(i, rest, "value"))
  BY <1>2, <1>5, FramesAreParts
<1>8. \A i \in 1..m : F[i] = G[i]
  BY <1>4, <1>6, <1>7
<1>9. out = before \o F[n]
  <2>1. Len(F) = Len(G) + 1 /\ \A i \in 1..Len(G) : F[i] = G[i]
    BY <1>1, <1>6, <1>7, <1>8
  <2>2. FlattenSeq(F) = FlattenSeq(G) \o F[Len(F)]
    BY <1>6, <1>7, <2>1, FlattenMore
  <2> QED
    BY <1>3, <1>6, <2>2
<1>10. F[n] = FrameText(stack[m + 1], m + 1, expects)
  <2>1. n \in 1..n /\ ExpectsAt(n, stack, expects) = expects
    BY <1>1 DEF ExpectsAt
  <2> QED
    BY <1>1, <1>6, <2>1
<1> QED
  BY <1>5, <1>9, <1>10 DEF Apart

(* And put back, with another innermost container.                            *)
LEMMA TopBack ==
  ASSUME NEW rest, NEW before, Tells(rest, "value", before), NEW m \in Nat, Len(rest) = m,
         NEW stack, IsSeq(stack), Len(stack) = m + 1, \A i \in 1..m : stack[i] = rest[i],
         NEW expects, FrameTold(stack[m + 1], m + 1, expects)
  PROVE  Tells(stack, expects, before \o FrameText(stack[m + 1], m + 1, expects))
<1>1. PICK n \in Nat : n = Len(stack) /\ n = m + 1
  OBVIOUS
<1>2. PICK F, G : F = Frames(stack, expects) /\ G = Frames(rest, "value")
  OBVIOUS
<1>3. PICK out : out = FlattenSeq(F)
  OBVIOUS
<1>4. ASSUME NEW i \in 1..m
      PROVE  i \in 1..n /\ ExpectsAt(i, stack, expects) = "value" /\ ExpectsAt(i, rest, "value") = "value"
  <2>1. i \in 1..n /\ i # n
    BY <1>1
  <2> QED
    BY <1>1, <2>1 DEF ExpectsAt
<1>5. n \in 1..n /\ ExpectsAt(n, stack, expects) = expects
  BY <1>1 DEF ExpectsAt
<1>6. Tells(stack, expects, out)
  <2>1. ASSUME NEW i \in 1..n PROVE FrameTold(stack[i], i, ExpectsAt(i, stack, expects))
    <3>1. CASE i = n
      BY <1>1, <1>5, <3>1
    <3>2. CASE i # n
      <4>1. i \in 1..m
        BY <1>1, <3>2
      <4>2. FrameTold(rest[i], i, ExpectsAt(i, rest, "value"))
        BY <4>1 DEF Tells
      <4> QED
        BY <1>4, <4>1, <4>2
    <3> QED
      BY <3>1, <3>2
  <2> QED
    BY <1>1, <1>2, <1>3, <2>1 DEF Tells
<1>7. /\ Parts(F) /\ Len(F) = n /\ out = FlattenSeq(F)
      /\ \A i \in 1..n : F[i] = FrameText(stack[i], i, ExpectsAt(i, stack, expects))
  BY <1>1, <1>2, <1>6, FramesAreParts DEF Tells
<1>8. /\ Parts(G) /\ Len(G) = m /\ before = FlattenSeq(G)
      /\ \A i \in 1..m : G[i] = FrameText(rest[i], i, ExpectsAt(i, rest, "value"))
  BY <1>2, FramesAreParts DEF Tells
<1>9. \A i \in 1..m : F[i] = G[i]
  BY <1>4, <1>7, <1>8
<1>10. out = before \o F[n]
  <2>1. Len(F) = Len(G) + 1 /\ \A i \in 1..Len(G) : F[i] = G[i]
    BY <1>1, <1>7, <1>8, <1>9
  <2>2. FlattenSeq(F) = FlattenSeq(G) \o F[Len(F)]
    BY <1>7, <1>8, <2>1, FlattenMore
  <2> QED
    BY <1>7, <1>8, <2>2
<1>11. F[n] = FrameText(stack[m + 1], m + 1, expects)
  BY <1>1, <1>5, <1>7
<1> QED
  BY <1>6, <1>10, <1>11

-----------------------------------------------------------------------------
(* What a token adds. *)

(* More is written in the innermost container.                                *)
LEMMA TopGrows ==
  ASSUME NEW stack, NEW expects, NEW out, Tells(stack, expects, out),
         NEW m \in Nat, Len(stack) = m + 1,
         NEW grown, IsSeq(grown), Len(grown) = m + 1, \A i \in 1..m : grown[i] = stack[i],
         NEW next, FrameTold(grown[m + 1], m + 1, next),
         NEW more \in Texts,
         FrameText(grown[m + 1], m + 1, next) = FrameText(stack[m + 1], m + 1, expects) \o more
  PROVE  Tells(grown, next, out \o more)
<1>1. PICK rest : IsSeq(rest) /\ Len(rest) = m /\ \A i \in 1..m : rest[i] = stack[i]
  <2> DEFINE r == [i \in 1..m |-> stack[i]]
  <2>1. r = [i \in 1..m |-> r[i]] /\ \A i \in 1..m : r[i] = stack[i]
    OBVIOUS
  <2> HIDE DEF r
  <2> QED
    BY <2>1, FunctionIsSeq
<1>2. PICK was : was = FrameText(stack[m + 1], m + 1, expects)
  OBVIOUS
<1>3. PICK before : Tells(rest, "value", before) /\ out = before \o was
  <2>1. /\ m \in Nat /\ Len(stack) = m + 1 /\ IsSeq(rest) /\ Len(rest) = m
        /\ \A i \in 1..m : rest[i] = stack[i]
    BY <1>1
  <2>2. Apart(rest, out, FrameText(stack[m + 1], m + 1, expects))
    BY <2>1, TopApart
  <2> QED
    BY <1>2, <2>2 DEF Apart
<1>4. \A i \in 1..m : grown[i] = rest[i]
  BY <1>1
<1>5. PICK now : now = FrameText(grown[m + 1], m + 1, next)
  OBVIOUS
<1>6. Tells(grown, next, before \o now)
  BY <1>1, <1>3, <1>4, <1>5, TopBack
<1>7. before \in Texts /\ was \in Texts
  <2>1. m + 1 \in 1..Len(stack) /\ ExpectsAt(m + 1, stack, expects) = expects
    BY DEF ExpectsAt
  <2>2. FrameTold(stack[m + 1], m + 1, expects)
    BY <2>1 DEF Tells
  <2> QED
    BY <1>2, <1>3, <2>2, FrameTextIsText, FramesAreParts
<1>8. before \o now = out \o more
  <2>1. now = was \o more
    BY <1>2, <1>5
  <2>2. (before \o was) \o more = before \o (was \o more)
    BY <1>7, JoinedThree
  <2> QED
    BY <1>3, <2>1, <2>2
<1> QED
  BY <1>6, <1>8

(* The same, by the number of the container.                                  *)
LEMMA FrameGrows ==
  ASSUME NEW stack, NEW expects, NEW out, Tells(stack, expects, out),
         NEW n \in Nat \ {0}, Len(stack) = n,
         NEW grown, IsSeq(grown), Len(grown) = n, \A i \in 1..n - 1 : grown[i] = stack[i],
         NEW next, FrameTold(grown[n], n, next),
         NEW more \in Texts, FrameText(grown[n], n, next) = FrameText(stack[n], n, expects) \o more
  PROVE  Tells(grown, next, out \o more)
<1>1. PICK m \in Nat : m = n - 1 /\ n = m + 1
  OBVIOUS
<1>2. /\ Len(stack) = m + 1 /\ Len(grown) = m + 1 /\ \A i \in 1..m : grown[i] = stack[i]
      /\ FrameTold(grown[m + 1], m + 1, next)
      /\ FrameText(grown[m + 1], m + 1, next) = FrameText(stack[m + 1], m + 1, expects) \o more
  BY <1>1
<1> QED
  BY <1>2, TopGrows

(* The innermost container and its frame.                                     *)
LEMMA TopTold ==
  ASSUME NEW stack, NEW expects, NEW out, Tells(stack, expects, out), stack # << >>
  PROVE  /\ Len(stack) \in Nat \ {0} /\ Len(stack) \in 1..Deepest
         /\ FrameTold(stack[Len(stack)], Len(stack), expects)
         /\ Last(stack) = stack[Len(stack)]
<1>1. PICK n \in Nat \ {0} : n = Len(stack) /\ n \in 1..n
  BY Listed DEF Tells
<1>2. FrameTold(stack[n], n, expects)
  BY <1>1 DEF Tells, ExpectsAt
<1> QED
  BY <1>1, <1>2 DEF FrameTold, Last

(* Nothing has been written before the text's first token.                    *)
LEMMA NothingTold ==
  ASSUME NEW stack, IsSeq(stack), Len(stack) = 0, NEW expects, NEW out
  PROVE  Tells(stack, expects, out) <=> out = << >>
<1>1. PICK F : F = Frames(stack, expects)
  OBVIOUS
<1>2. Parts(F) /\ Len(F) = 0
  <2>1. F = [i \in 1..0 |-> F[i]] /\ 0 \in Nat
    BY <1>1 DEF Frames
  <2>2. IsSeq(F) /\ Len(F) = 0
    BY <2>1, FunctionIsSeq
  <2>3. \A i \in 1..0 : FALSE
    OBVIOUS
  <2> QED
    BY <2>2, <2>3 DEF Parts
<1>3. FlattenSeq(F) = << >>
  BY <1>2, FlattenNone
<1>4. \A i \in 1..0 : FALSE
  OBVIOUS
<1> QED
  BY <1>1, <1>3, <1>4 DEF Tells

(* An array expects its first value as it expects the others.                 *)
LEMMA FirstIsValue ==
  ASSUME NEW stack, NEW out, Tells(stack, "first", out), stack # << >>,
         stack[Len(stack)].value.kind # "object"
  PROVE  Tells(stack, "value", out)
<1>1. PICK n \in Nat \ {0}, m \in Nat : n = Len(stack) /\ m = n - 1 /\ n = m + 1 /\ FrameTold(stack[n], n, "first")
  BY TopTold
<1>2. PICK f : f = stack[n]
  OBVIOUS
<1>3. FrameTold(f, n, "value")
  BY <1>1, <1>2 DEF FrameTold
<1>4. Started(f, "first") = << >> /\ Started(f, "value") = << >>
  <2>1. Count(f.value) = 0 /\ f.value.kind # "object"
    BY <1>1, <1>2 DEF FrameTold
  <2> QED
    BY <2>1 DEF Started, Lead, Comma
<1>5. FrameText(f, n, "value") = FrameText(f, n, "first")
  BY <1>4 DEF FrameText
<1>6. FrameText(f, n, "first") \in Texts /\ << >> \in Texts /\ out \in Texts
  <2>1. out \in Texts /\ FrameText(f, n, "first") \in Texts
    BY <1>1, <1>2, FrameTextIsText, FramesAreParts
  <2> QED
    BY <2>1, Joined
<1>7. FrameText(f, n, "value") = FrameText(f, n, "first") \o << >> /\ out \o << >> = out
  BY <1>5, <1>6, Joined
<1>8. IsSeq(stack)
  BY DEF Tells
<1>9. Tells(stack, "value", out \o << >>)
  <2>1. \A i \in 1..m : stack[i] = stack[i]
    OBVIOUS
  <2> QED
    BY <1>1, <1>2, <1>3, <1>6, <1>7, <1>8, <2>1, TopGrows
<1> QED
  BY <1>7, <1>9

(* A comma.                                                                   *)
LEMMA TellsSeparator ==
  ASSUME NEW stack, NEW out, Tells(stack, "after", out), stack # << >>,
         NEW next, next = IF stack[Len(stack)].value.kind = "object" THEN "key" ELSE "value"
  PROVE  Tells(stack, next, Append(out, ","))
<1>1. PICK n \in Nat \ {0}, m \in Nat : n = Len(stack) /\ m = n - 1 /\ n = m + 1 /\ FrameTold(stack[n], n, "after")
  BY TopTold
<1>2. PICK f : f = stack[n]
  OBVIOUS
<1>3. FrameTold(f, n, next)
  BY <1>1, <1>2 DEF FrameTold
<1>4. Started(f, "after") = << >> /\ Started(f, next) = <<",">>
  <2>1. Count(f.value) # 0 /\ Count(f.value) \in Nat
    <3>1. f.value \in Level(Within(n)) /\ n \in 1..Deepest /\ Count(f.value) # 0
      BY <1>1, <1>2 DEF FrameTold
    <3> QED
      BY <3>1, Nesting, PiecesAreParts
  <2>2. Comma(Count(f.value) + 1) = <<",">>
    <3>1. Count(f.value) + 1 # 1
      BY <2>1
    <3> QED
      BY <3>1 DEF Comma
  <2>3. CASE f.value.kind = "object"
    BY <1>1, <1>2, <2>3 DEF Started
  <2>4. CASE f.value.kind # "object"
    BY <1>1, <1>2, <2>2, <2>4 DEF Started, Lead
  <2> QED
    BY <2>3, <2>4
<1>5. Body(f.value, Below(n)) \in Texts /\ out \in Texts /\ <<",">> \in Texts /\ Append(out, ",") = out \o <<",">>
  <2>1. Body(f.value, Below(n)) \in Texts /\ out \in Texts
    BY <1>1, <1>2, FrameTextIsText, FramesAreParts
  <2> QED
    BY <2>1, TokensAreWords, OneMoreToken
<1>6. FrameText(f, n, next) = FrameText(f, n, "after") \o <<",">>
  BY <1>4, <1>5, Joined DEF FrameText
<1>7. IsSeq(stack)
  BY DEF Tells
<1>8. Tells(stack, next, out \o <<",">>)
  <2>1. \A i \in 1..m : stack[i] = stack[i]
    OBVIOUS
  <2> QED
    BY <1>1, <1>2, <1>3, <1>5, <1>6, <1>7, <2>1, TopGrows
<1> QED
  BY <1>5, <1>8

(* A key that the object does not have.                                       *)
LEMMA TellsKey ==
  ASSUME NEW stack, NEW expects \in {"first", "key"}, NEW out, Tells(stack, expects, out), stack # << >>,
         NEW n, n = Len(stack), stack[n].value.kind = "object",
         NEW key \in KeyTokens, key \notin KeysOf(stack[n].value.entries),
         NEW keyed, IsSeq(keyed), Len(keyed) = n, \A i \in 1..n : i # n => keyed[i] = stack[i],
         keyed[n].value = stack[n].value, keyed[n].key = key
  PROVE  Tells(keyed, "value", Append(out, key))
<1>1. PICK m \in Nat : m = n - 1 /\ n = m + 1 /\ n \in Nat \ {0} /\ FrameTold(stack[n], n, expects)
  BY TopTold
<1>2. PICK f, g : f = stack[n] /\ g = keyed[n]
  OBVIOUS
<1>3. FrameTold(g, n, "value")
  BY <1>1, <1>2 DEF FrameTold
<1>4. Started(f, expects) \o <<key>> = Started(g, "value")
  <2>1. Count(f.value) \in Nat
    <3>1. f.value \in Level(Within(n)) /\ n \in 1..Deepest
      BY <1>1, <1>2 DEF FrameTold
    <3> QED
      BY <3>1, Nesting, PiecesAreParts
  <2>2. Count(f.value) = 0 <=> expects = "first"
    BY <1>1, <1>2 DEF FrameTold
  <2>3. Started(f, expects) = Comma(Count(f.value) + 1)
    <3>1. CASE expects = "first"
      <4>1. Count(f.value) + 1 = 1
        BY <2>2, <3>1
      <4>2. Started(f, expects) = << >>
        BY <3>1 DEF Started
      <4> QED
        BY <4>1, <4>2 DEF Comma
    <3>2. CASE expects = "key"
      <4>1. Count(f.value) + 1 # 1
        BY <2>1, <2>2, <3>2
      <4>2. Started(f, expects) = <<",">>
        BY <3>2 DEF Started
      <4> QED
        BY <4>1, <4>2 DEF Comma
    <3> QED
      BY <3>1, <3>2
  <2>4. Started(g, "value") = Comma(Count(f.value) + 1) \o <<key>>
    BY <1>2 DEF Started, Lead
  <2> QED
    BY <2>3, <2>4
<1>5. /\ Body(f.value, Below(n)) \in Texts /\ Started(f, expects) \in Texts /\ out \in Texts
      /\ <<key>> \in Texts /\ Append(out, key) = out \o <<key>>
  <2>1. Body(f.value, Below(n)) \in Texts /\ Started(f, expects) \in Texts /\ out \in Texts
    BY <1>1, <1>2, FrameTextIsText, FramesAreParts
  <2> QED
    BY <2>1, TokensAreWords, OneMoreToken
<1>6. FrameText(g, n, "value") = FrameText(f, n, expects) \o <<key>>
  <2>1. FrameText(g, n, "value") = Body(f.value, Below(n)) \o (Started(f, expects) \o <<key>>)
    BY <1>2, <1>4 DEF FrameText
  <2>2. FrameText(f, n, expects) = Body(f.value, Below(n)) \o Started(f, expects)
    BY DEF FrameText
  <2>3. (Body(f.value, Below(n)) \o Started(f, expects)) \o <<key>>
          = Body(f.value, Below(n)) \o (Started(f, expects) \o <<key>>)
    BY <1>5, JoinedThree
  <2> QED
    BY <2>1, <2>2, <2>3
<1>7. \A i \in 1..m : keyed[i] = stack[i]
  BY <1>1
<1>8. Tells(keyed, "value", out \o <<key>>)
  <2>1. PICK more : more = <<key>>
    OBVIOUS
  <2>2. n \in Nat \ {0} /\ Len(stack) = n /\ \A i \in 1..n - 1 : keyed[i] = stack[i]
    BY <1>1, <1>7
  <2>3. FrameTold(keyed[n], n, "value") /\ more \in Texts
    BY <1>2, <1>3, <1>5, <2>1
  <2>4. FrameText(keyed[n], n, "value") = FrameText(stack[n], n, expects) \o more
    BY <1>2, <1>6, <2>1
  <2>5. Tells(keyed, "value", out \o more)
    BY <2>2, <2>3, <2>4, FrameGrows
  <2> QED
    BY <2>1, <2>5
<1> QED
  BY <1>5, <1>8

-----------------------------------------------------------------------------
(* Values, where m containers are open. *)

LEMMA WithinLevel ==
  ASSUME NEW m \in 0..MaxDepth
  PROVE  /\ m \in Nat /\ m + 1 \in 1..Deepest /\ Within(m) = Level(Within(m + 1))
         /\ Writes(Below(m + 1), Within(m + 1))
         /\ \A v \in Within(m) : Below(m)[v] = Spelling(v, Below(m + 1)) /\ Below(m)[v] \in Texts
<1>1. m \in Nat /\ \E i \in 1..Deepest : i = m + 1 /\ Deepest + 1 - i = Deepest - m
  BY DeepestIsNumber DEF Deepest
<1>3. PICK i \in 1..Deepest : i = m + 1 /\ Deepest + 1 - i = Deepest - m
  BY <1>1
<1>2. Within(m) = Documents[Deepest + 1 - i] /\ Below(m) = Written[Deepest + 1 - i]
  BY <1>3 DEF Within, Below
<1> QED
  BY <1>1, <1>3, <1>2, Nesting

(* A scalar is the one token of its text.                                     *)
LEMMA ScalarTold ==
  ASSUME NEW m \in 0..MaxDepth, NEW token \in Scalars
  PROVE  Scalar(token) \in Within(m) /\ Below(m)[Scalar(token)] = <<token>>
<1>1. PICK v : v = Scalar(token)
  OBVIOUS
<1>2. /\ v = [kind |-> "scalar", token |-> token, entries |-> << >>, items |-> << >>]
      /\ v.kind = "scalar" /\ v.token = token
  BY <1>1 DEF Scalar, NoEntries
<1>3. v \in Level(Within(m + 1))
  BY <1>2, EmptySeq DEF Level
<1>4. token # NonFinite
  BY TokensAssumption, Zenon
<1>5. Spelling(v, Below(m + 1)) = <<token>>
  BY <1>2, <1>4, Zenon DEF Spelling
<1> QED
  BY <1>1, <1>3, <1>5, WithinLevel

(* Arrays and objects of a level.                                             *)
LEMMA ArrayOf ==
  ASSUME NEW D, NEW l \in Seq(D)
  PROVE  Array(l) \in Level(D) /\ Array(l).kind = "array" /\ Array(l).items = l
<1>1. << >> \in Seq(KeyTokens \X D)
  BY EmptySeq
<1> QED
  BY <1>1 DEF Array, NoEntries, Level

LEMMA ObjectOf ==
  ASSUME NEW D, NEW l \in Seq(KeyTokens \X D)
  PROVE  Object(l) \in Level(D) /\ Object(l).kind = "object" /\ Object(l).entries = l
<1>1. << >> \in Seq(D)
  BY EmptySeq
<1> QED
  BY <1>1 DEF Object, Level

(* A container without a value.                                               *)
Empty(kind) == IF kind = "object" THEN Object(NoEntries) ELSE Array(<< >>)

LEMMA EmptyContainer ==
  ASSUME NEW D, NEW kind \in {"object", "array"}
  PROVE  /\ Empty(kind) \in Level(D) /\ Count(Empty(kind)) = 0 /\ IsContainer(Empty(kind))
         /\ Empty(kind).kind = kind
<1>1. PICK none : none = << >> /\ none \in Seq(D) /\ none \in Seq(KeyTokens \X D) /\ Len(none) = 0
  BY EmptySeq
<1>2. CASE kind = "object"
  <2>1. PICK v : v = Empty(kind) /\ v = Object(none)
    BY <1>1, <1>2 DEF Empty, NoEntries
  <2>2. v \in Level(D) /\ v.kind = "object" /\ v.entries = none
    BY <1>1, <2>1, ObjectOf
  <2> QED
    BY <1>1, <1>2, <2>1, <2>2 DEF Count, IsContainer
<1>3. CASE kind = "array"
  <2>1. PICK v : v = Empty(kind) /\ v = Array(none)
    BY <1>1, <1>3 DEF Empty
  <2>2. v \in Level(D) /\ v.kind = "array" /\ v.items = none
    BY <1>1, <2>1, ArrayOf
  <2> QED
    BY <1>1, <1>3, <2>1, <2>2 DEF Count, IsContainer
<1> QED
  BY <1>2, <1>3

(* A container is opened.                                                     *)
LEMMA TellsOpening ==
  ASSUME NEW stack, NEW out, Tells(stack, "value", out), NEW m \in 0..MaxDepth, m = Len(stack),
         NEW kind \in {"object", "array"}, NEW frame, frame.key = "", frame.value = Empty(kind),
         NEW pushed, IsSeq(pushed), Len(pushed) = m + 1, pushed[m + 1] = frame,
         \A i \in 1..m : pushed[i] = stack[i]
  PROVE  Tells(pushed, "first", Append(out, IF kind = "object" THEN "{" ELSE "["))
<1>1. PICK v : v = frame.value
  OBVIOUS
<1>3. m \in Nat /\ m + 1 \in 1..Deepest /\ Writes(Below(m + 1), Within(m + 1))
  BY WithinLevel
<1>4. v \in Level(Within(m + 1)) /\ Count(v) = 0 /\ IsContainer(v) /\ v.kind = kind
  BY <1>1, EmptyContainer
<1>5. FrameTold(frame, m + 1, "first")
  BY <1>1, <1>3, <1>4 DEF FrameTold
<1>6. PICK text : text = FrameText(frame, m + 1, "first")
  OBVIOUS
<1>7. Tells(pushed, "first", out \o text)
  <2>1. m \in Nat /\ Len(stack) = m /\ pushed[m + 1] = frame
    BY <1>3, Zenon
  <2>2. FrameTold(pushed[m + 1], m + 1, "first") /\ text = FrameText(pushed[m + 1], m + 1, "first")
    BY <1>5, <1>6
  <2> QED
    BY <2>1, <2>2, TopBack
<1>8. PICK token : token = (IF kind = "object" THEN "{" ELSE "[") /\ token = Opening(v)
  BY <1>4 DEF Opening
<1>9. text = <<token>> /\ <<token>> \in Texts
  <2>1. FlattenSeq(Pieces(v, Below(m + 1))) = << >>
    BY <1>3, <1>4, PiecesAreParts, FlattenNone
  <2>2. << >> \in Texts /\ token \in Words
    BY <1>8, TokensAreWords, EmptySeq DEF Texts
  <2>3. <<token>> \in Texts
    BY <2>2, OneMoreToken
  <2>4. <<token>> \o << >> = <<token>>
    BY <2>3, Joined
  <2>5. Body(v, Below(m + 1)) = <<token>>
    BY <1>8, <2>1, <2>4 DEF Body
  <2>6. Started(frame, "first") = << >>
    BY DEF Started
  <2> QED
    BY <1>1, <1>6, <2>3, <2>4, <2>5, <2>6 DEF FrameText
<1>10. Append(out, token) = out \o <<token>>
  <2>1. out \in Texts /\ token \in Words
    BY <1>8, TokensAreWords, FramesAreParts
  <2> QED
    BY <2>1, OneMoreToken
<1> QED
  BY <1>7, <1>8, <1>9, <1>10

(* What a container has of pieces when one more value is in it.               *)
LEMMA OneMorePiece ==
  ASSUME NEW D, NEW was \in Level(D), NEW now \in Level(D), NEW below, Writes(below, D),
         NEW n, n = Count(was), Count(now) = n + 1,
         \A i \in 1..n : Pieces(now, below)[i] = Pieces(was, below)[i],
         NEW piece, Pieces(now, below)[n + 1] = piece
  PROVE  FlattenSeq(Pieces(now, below)) = FlattenSeq(Pieces(was, below)) \o piece
<1>1. PICK s, t : s = Pieces(was, below) /\ t = Pieces(now, below)
  OBVIOUS
<1>2. Parts(s) /\ Parts(t) /\ Len(s) = n /\ Len(t) = n + 1
  BY <1>1, PiecesAreParts
<1>3. \A i \in 1..Len(s) : t[i] = s[i]
  BY <1>1, <1>2
<1>4. FlattenSeq(t) = FlattenSeq(s) \o t[Len(t)]
  BY <1>2, <1>3, FlattenMore
<1> QED
  BY <1>1, <1>2, <1>4

(* The container has one value more, whose text is added.                     *)
OneMore(was, now, D, key, text, below) ==
  /\ now \in Level(D) /\ now.kind = was.kind /\ Count(now) # 0
  /\ FlattenSeq(Pieces(now, below)) =
       FlattenSeq(Pieces(was, below)) \o (Lead(was.kind, Count(was), key) \o text)

(* An entry is put at the end of an object.                                   *)
LEMMA EntryAppended ==
  ASSUME NEW D, NEW was \in Level(D), was.kind = "object", NEW key, NEW v,
         NEW e \in KeyTokens \X D, e[1] = key, e[2] = v, NEW below, Writes(below, D),
         NEW l, l = Append(was.entries, e), NEW now, now = Object(l)
  PROVE  OneMore(was, now, D, key, below[v], below)
<1>1. PICK m : m = was.entries
  OBVIOUS
<1>3. m \in Seq(KeyTokens \X D) /\ IsSeq(m)
  BY <1>1, OwnElements DEF Level
<1>4. PICK n \in Nat : n = Len(m) /\ DOMAIN m = 1..n
  BY <1>3, Listed
<1>6. /\ IsSeq(l) /\ Len(l) = n + 1 /\ l[n + 1] = e /\ \A i \in 1..n : l[i] = m[i]
      /\ l \in Seq(KeyTokens \X D)
  BY <1>1, <1>3, <1>4, Pushed, AppendProperties
<1>9. now.kind = "object" /\ now.entries = l
  BY <1>6, ObjectOf
<1>10. now \in Level(D)
  BY <1>6, ObjectOf
<1>11. Count(was) = n /\ Count(now) = n + 1
  BY <1>1, <1>4, <1>6, <1>9 DEF Count
<1>12. DOMAIN l = 1..n + 1
  BY <1>6, Listed
<1>13. \A i \in 1..n + 1 : Pieces(now, below)[i] = Comma(i) \o <<l[i][1]>> \o below[l[i][2]]
  BY <1>9, <1>12 DEF Pieces
<1>14. \A i \in 1..n : Pieces(was, below)[i] = Comma(i) \o <<m[i][1]>> \o below[m[i][2]]
  BY <1>1, <1>4 DEF Pieces
<1>15. \A i \in 1..n : Pieces(now, below)[i] = Pieces(was, below)[i]
  <2>1. \A i \in 1..n : i \in 1..n + 1 /\ l[i] = m[i]
    BY <1>6
  <2> QED
    BY <1>13, <1>14, <2>1
<1>16. Pieces(now, below)[n + 1] = Lead("object", n, key) \o below[v]
  <2>1. n + 1 \in 1..n + 1
    OBVIOUS
  <2>2. Pieces(now, below)[n + 1] = Comma(n + 1) \o <<key>> \o below[v]
    BY <1>6, <1>13, <2>1
  <2> QED
    BY <2>2 DEF Lead
<1>17. FlattenSeq(Pieces(now, below)) = FlattenSeq(Pieces(was, below)) \o (Lead("object", n, key) \o below[v])
  <2>1. PICK piece : piece = Lead("object", n, key) \o below[v]
    OBVIOUS
  <2>2. Pieces(now, below)[n + 1] = piece
    BY <1>16, <2>1
  <2>3. FlattenSeq(Pieces(now, below)) = FlattenSeq(Pieces(was, below)) \o piece
    <3>1. PICK a, b : a = Pieces(was, below) /\ b = Pieces(now, below)
      OBVIOUS
    <3>2. Parts(a) /\ Parts(b) /\ Len(a) = n /\ Len(b) = n + 1
      BY <1>10, <1>11, <3>1, PiecesAreParts
    <3>3. \A i \in 1..Len(a) : b[i] = a[i]
      BY <1>15, <3>1, <3>2
    <3>4. FlattenSeq(b) = FlattenSeq(a) \o b[Len(b)]
      BY <3>2, <3>3, FlattenMore
    <3>5. b[Len(b)] = piece
      BY <2>2, <3>1, <3>2
    <3> QED
      BY <3>1, <3>4, <3>5
  <2> QED
    BY <2>1, <2>3
<1> QED
  BY <1>9, <1>10, <1>11, <1>17 DEF OneMore

(* As is one whose key the object does not have.                              *)
LEMMA EntryAdded ==
  ASSUME NEW D, NEW was \in Level(D), was.kind = "object", NEW key \in KeyTokens, NEW v \in D,
         key \notin KeysOf(was.entries), NEW below, Writes(below, D),
         NEW now, now = Object(Insert(was.entries, key, v))
  PROVE  OneMore(was, now, D, key, below[v], below)
<1>1. PICK e : e = <<key, v>>
  OBVIOUS
<1>2. e[1] = key /\ e[2] = v /\ e \in KeyTokens \X D
  BY <1>1
<1>3. PICK l : l = Append(was.entries, e)
  OBVIOUS
<1>4. now = Object(l)
  BY <1>1, <1>3 DEF Insert
<1> QED
  BY <1>2, <1>3, <1>4, EntryAppended

(* So is an item.                                                             *)
LEMMA ItemAdded ==
  ASSUME NEW D, NEW was \in Level(D), was.kind = "array", NEW v \in D, NEW key,
         NEW below, Writes(below, D),
         NEW now, now = Array(Append(was.items, v))
  PROVE  OneMore(was, now, D, key, below[v], below)
<1>1. PICK m : m = was.items
  OBVIOUS
<1>3. m \in Seq(D) /\ IsSeq(m)
  BY <1>1, OwnElements DEF Level
<1>4. PICK n \in Nat : n = Len(m) /\ DOMAIN m = 1..n
  BY <1>3, Listed
<1>5. PICK l : l = Append(m, v)
  OBVIOUS
<1>6. /\ IsSeq(l) /\ Len(l) = n + 1 /\ l[n + 1] = v /\ \A i \in 1..n : l[i] = m[i]
      /\ l \in Seq(D)
  BY <1>3, <1>4, <1>5, Pushed, AppendProperties
<1>8. now = Array(l)
  BY <1>1, <1>5
<1>9. now.kind = "array" /\ now.items = l
  BY <1>6, <1>8, ArrayOf
<1>10. now \in Level(D)
  BY <1>6, <1>8, ArrayOf
<1>11. Count(was) = n /\ Count(now) = n + 1
  BY <1>1, <1>4, <1>6, <1>9 DEF Count
<1>12. DOMAIN l = 1..n + 1
  BY <1>6, Listed
<1>13. \A i \in 1..n + 1 : Pieces(now, below)[i] = Comma(i) \o below[l[i]]
  BY <1>9, <1>12 DEF Pieces
<1>14. \A i \in 1..n : Pieces(was, below)[i] = Comma(i) \o below[m[i]]
  BY <1>1, <1>4 DEF Pieces
<1>15. \A i \in 1..n : Pieces(now, below)[i] = Pieces(was, below)[i]
  <2>1. \A i \in 1..n : i \in 1..n + 1 /\ l[i] = m[i]
    BY <1>6
  <2> QED
    BY <1>13, <1>14, <2>1
<1>16. Pieces(now, below)[n + 1] = Lead("array", n, key) \o below[v]
  <2>1. n + 1 \in 1..n + 1
    OBVIOUS
  <2>2. Pieces(now, below)[n + 1] = Comma(n + 1) \o below[v]
    BY <1>6, <1>13, <2>1
  <2> QED
    BY <2>2 DEF Lead
<1>17. FlattenSeq(Pieces(now, below)) = FlattenSeq(Pieces(was, below)) \o (Lead("array", n, key) \o below[v])
  <2>1. PICK piece : piece = Lead("array", n, key) \o below[v]
    OBVIOUS
  <2>2. Pieces(now, below)[n + 1] = piece
    BY <1>16, <2>1
  <2>3. n = Count(was) /\ was \in Level(D)
    BY <1>11
  <2>4. FlattenSeq(Pieces(now, below)) = FlattenSeq(Pieces(was, below)) \o piece
    BY <1>10, <1>11, <1>15, <2>2, <2>3, OneMorePiece, SMTT(60)
  <2> QED
    BY <2>1, <2>4
<1> QED
  BY <1>9, <1>10, <1>11, <1>17 DEF OneMore

-----------------------------------------------------------------------------
(* Values that are complete. *)

LEMMA JoinedFour ==
  ASSUME NEW a \in Texts, NEW b \in Texts, NEW c \in Texts, NEW d \in Texts,
         NEW e, e = b \o (c \o d), NEW f, f = (a \o b) \o c
  PROVE  a \o e = f \o d
<1>1. PICK y : y = c \o d /\ y \in Texts
  BY JoinedText
<1>2. PICK x : x = a \o b /\ x \in Texts
  BY JoinedText
<1>3. (a \o b) \o y = a \o (b \o y)
  BY <1>1, JoinedThree, ZenonT(40)
<1>4. (x \o c) \o d = x \o (c \o d)
  BY <1>2, JoinedThree, Zenon
<1> QED
  BY <1>1, <1>2, <1>3, <1>4, Zenon

(* The innermost container gets one value more.                               *)
LEMMA ValueAdded ==
  ASSUME NEW stack, NEW out, Tells(stack, "value", out), NEW m \in Nat, Len(stack) = m + 1,
         NEW text \in Texts,
         NEW returned, IsSeq(returned), Len(returned) = m + 1, \A i \in 1..m : returned[i] = stack[i],
         OneMore(stack[m + 1].value, returned[m + 1].value, Within(m + 1), stack[m + 1].key, text, Below(m + 1))
  PROVE  Tells(returned, "after", out \o text)
<1>1. PICK i, f, g : i = m + 1 /\ f = stack[m + 1] /\ g = returned[m + 1]
  OBVIOUS
<1>2. FrameTold(f, i, "value")
  <2>1. m + 1 \in 1..Len(stack) /\ ExpectsAt(m + 1, stack, "value") = "value"
    BY DEF ExpectsAt
  <2> QED
    BY <1>1, <2>1 DEF Tells
<1>3. i \in 1..Deepest /\ IsContainer(f.value) /\ f.value \in Level(Within(i))
  BY <1>2 DEF FrameTold
<1>4. PICK D, below : D = Within(i) /\ below = Below(i) /\ Writes(below, D)
  BY <1>3, Nesting
<1>5. OneMore(f.value, g.value, D, f.key, text, below)
  BY <1>1, <1>4
<1>6. g.value \in Level(D) /\ g.value.kind = f.value.kind /\ Count(g.value) # 0
  BY <1>5 DEF OneMore
<1>7. FrameTold(g, i, "after")
  BY <1>3, <1>4, <1>6 DEF FrameTold, IsContainer
<1>8. PICK open, p, q, lead :
        /\ open = <<Opening(f.value)>> /\ open = <<Opening(g.value)>>
        /\ p = FlattenSeq(Pieces(f.value, below)) /\ q = FlattenSeq(Pieces(g.value, below))
        /\ lead = Lead(f.value.kind, Count(f.value), f.key)
  BY <1>6 DEF Opening
<1>9. open \in Texts /\ p \in Texts /\ q \in Texts /\ lead \in Texts
  <2>1. open \in Texts /\ p \in Texts /\ q \in Texts
    BY <1>3, <1>4, <1>6, <1>8, BodyIsText
  <2>2. lead = Started(f, "value")
    BY <1>8 DEF Started
  <2> QED
    BY <1>2, <2>1, <2>2, FrameTextIsText
<1>10. q = p \o (lead \o text)
  BY <1>5, <1>8 DEF OneMore
<1>11. FrameText(f, i, "value") = (open \o p) \o lead
  BY <1>4, <1>8 DEF FrameText, Body, Started
<1>12. FrameText(g, i, "after") = open \o q
  <2>1. Started(g, "after") = << >>
    BY DEF Started
  <2>2. open \o q \in Texts
    BY <1>9, JoinedText
  <2>3. (open \o q) \o << >> = open \o q
    BY <2>2, Joined
  <2> QED
    BY <1>4, <1>8, <2>1, <2>3 DEF FrameText, Body
<1>13. FrameText(g, i, "after") = FrameText(f, i, "value") \o text
  <2>1. open \o q = FrameText(f, i, "value") \o text
    <3>1. PICK was : was = FrameText(f, i, "value") /\ was = (open \o p) \o lead
      BY <1>11
    <3>2. /\ open \in Texts /\ p \in Texts /\ lead \in Texts /\ text \in Texts
          /\ q = p \o (lead \o text) /\ was = (open \o p) \o lead
      BY <1>9, <1>10, <3>1
    <3>3. open \o q = was \o text
      BY ONLY <3>2, JoinedFour, SMTT(30)
    <3> QED
      BY <3>1, <3>3
  <2> QED
    BY <1>12, <2>1
<1> QED
  BY <1>1, <1>7, <1>13, TopGrows

(* A container that is closed is a value of the container around it.          *)
LEMMA TellsClosed ==
  ASSUME NEW stack, NEW expects \in {"first", "after"}, NEW out, Tells(stack, expects, out),
         NEW m \in Nat, Len(stack) = m + 1,
         NEW rest, IsSeq(rest), Len(rest) = m, \A i \in 1..m : rest[i] = stack[i],
         NEW v, v = stack[m + 1].value
  PROVE  v \in Within(m) /\ Apart(rest, Append(out, Closing(v)), Below(m)[v])
<1>1. PICK f, i : f = stack[m + 1] /\ i = m + 1 /\ v = f.value
  OBVIOUS
<1>2. FrameTold(f, i, expects)
  <2>1. m + 1 \in 1..Len(stack) /\ ExpectsAt(m + 1, stack, expects) = expects
    BY DEF ExpectsAt
  <2> QED
    BY <1>1, <2>1 DEF Tells
<1>3. i \in 1..Deepest /\ IsContainer(v) /\ v \in Level(Within(i))
  BY <1>1, <1>2 DEF FrameTold
<1>4. m \in 0..MaxDepth
  BY <1>1, <1>3, DeepestIsNumber DEF Deepest
<1>5. /\ v \in Within(m) /\ Writes(Below(i), Within(i))
      /\ Below(m)[v] = Spelling(v, Below(i))
  BY <1>1, <1>3, <1>4, WithinLevel
<1>6. PICK body, end : body = Body(v, Below(i)) /\ end = <<Closing(v)>>
  OBVIOUS
<1>7. Below(m)[v] = body \o end
  BY <1>3, <1>5, <1>6, ContainerSpelled DEF Body
<1>8. body \in Texts /\ end \in Texts /\ out \in Texts
  BY <1>3, <1>5, <1>6, BodyIsText, FramesAreParts
<1>9. FrameText(f, i, expects) = body
  <2>1. Started(f, expects) = << >>
    BY DEF Started
  <2>2. body \o << >> = body
    BY <1>8, Joined
  <2> QED
    BY <1>1, <1>6, <2>1, <2>2 DEF FrameText
<1>10. PICK before : Tells(rest, "value", before) /\ out = before \o body
  <2>1. Apart(rest, out, FrameText(stack[m + 1], m + 1, expects))
    BY TopApart
  <2> QED
    BY <1>1, <1>9, <2>1 DEF Apart
<1>11. Append(out, Closing(v)) = out \o end
  <2>1. Closing(v) \in Words
    BY TokensAreWords DEF Closing
  <2> QED
    BY <1>6, <1>8, <2>1, OneMoreToken
<1>12. before \in Texts
  BY <1>10, FramesAreParts
<1>13. (before \o body) \o end = before \o (body \o end)
  BY <1>8, <1>12, JoinedThree
<1>14. Append(out, Closing(v)) = before \o Below(m)[v]
  BY <1>7, <1>10, <1>11, <1>13
<1> QED
  BY <1>5, <1>10, <1>14 DEF Apart

(* What a reader has of the text: the values so far, or the whole one.        *)
Told(r, out) ==
  /\ Reading(r) /\ r.expects # End => Tells(r.stack, r.expects, out)
  /\ r.expects \in {End, "read"} => r.value \in Documents[Deepest] /\ out = Ordered(r.value)

(* `parse` puts a value into the innermost container, whose key is new.       *)
LEMMA TellsReturned ==
  ASSUME DOMAIN dom = {"expects", "stack", "value"},
         NEW t, NEW before, Tells(t, "value", before), NEW m \in Nat, Len(t) = m + 1, IsFrame(t[m + 1]),
         NEW w \in Within(m + 1), NEW r, r = DomReturn(dom, t, w)
  PROVE  r.expects = "after" /\ Tells(r.stack, "after", before \o Below(m + 1)[w])
<1>1. IsSeq(t) /\ t # << >> /\ DOMAIN t = 1..m + 1
  <2>1. IsSeq(t)
    BY DEF Tells
  <2> QED
    BY <2>1, EmptySeq, Listed
<1>2. PICK n, f : n = m + 1 /\ n \in 1..n /\ f = t[n]
  OBVIOUS
<1>3. FrameTold(f, n, "value")
  <2>1. m + 1 \in 1..Len(t) /\ ExpectsAt(m + 1, t, "value") = "value"
    BY DEF ExpectsAt
  <2> QED
    BY <1>2, <2>1 DEF Tells
<1>4. n \in 1..Deepest /\ IsContainer(f.value) /\ f.value \in Level(Within(n))
  BY <1>3 DEF FrameTold
<1>5. PICK D, below : D = Within(n) /\ below = Below(n) /\ Writes(below, D)
  BY <1>4, Nesting
<1>6. below[w] \in Texts
  BY <1>2, <1>5 DEF Writes
<1>7. PICK v : v = IF f.value.kind = "object"
                   THEN Object(Insert(f.value.entries, f.key, w))
                   ELSE Array(Append(f.value.items, w))
  OBVIOUS
<1>8. OneMore(f.value, v, D, f.key, below[w], below)
  <2>1. CASE f.value.kind = "object"
    <3>1. f.key \in KeyTokens /\ f.key \notin KeysOf(f.value.entries)
      BY <1>3, <2>1 DEF FrameTold
    <3>2. v = Object(Insert(f.value.entries, f.key, w))
      BY <1>7, <2>1
    <3> QED
      BY <1>2, <1>4, <1>5, <2>1, <3>1, <3>2, EntryAdded
  <2>2. CASE f.value.kind # "object"
    <3>1. f.value.kind = "array"
      BY <1>4, <2>2 DEF IsContainer
    <3>2. v = Array(Append(f.value.items, w))
      BY <1>7, <2>2
    <3> QED
      BY <1>2, <1>4, <1>5, <3>1, <3>2, ItemAdded
  <2> QED
    BY <2>1, <2>2
<1>9. PICK g : g = [f EXCEPT !.value = v]
  OBVIOUS
<1>10. g.value = v
  BY <1>2, <1>9 DEF IsFrame
<1>11. PICK s : s = [t EXCEPT ![n] = g]
  OBVIOUS
<1>12. r = [dom EXCEPT !.expects = "after", !.stack = s]
  BY <1>1, <1>2, <1>7, <1>9, <1>11 DEF DomReturn
<1>13. r.expects = "after" /\ r.stack = s
  BY <1>12
<1>14. IsSeq(s) /\ Len(s) = n /\ s[n] = g /\ \A i \in 1..n : i # n => s[i] = t[i]
  <2>1. n \in DOMAIN t /\ n \in 1..Len(t) /\ Len(t) = n
    BY <1>1, <1>2
  <2>2. s[n] = g
    BY <1>11, <2>1
  <2>3. Differs(t, s, n)
    BY <1>11, Except
  <2> QED
    BY <1>1, <2>1, <2>2, <2>3, Replaced
<1>15. \A i \in 1..m : s[i] = t[i]
  BY <1>2, <1>14
<1>16. OneMore(t[m + 1].value, s[m + 1].value, Within(m + 1), t[m + 1].key, below[w], Below(m + 1))
  BY <1>2, <1>5, <1>8, <1>10, <1>14
<1>17. Tells(s, "after", before \o below[w])
  <2>1. Len(s) = m + 1 /\ IsSeq(s)
    BY <1>2, <1>14
  <2> QED
    BY <1>6, <1>15, <1>16, <2>1, ValueAdded
<1> QED
  BY <1>2, <1>5, <1>13, <1>17

(* Or has the value of the text.                                              *)
LEMMA ReturnTells ==
  ASSUME DOMAIN dom = {"expects", "stack", "value"},
         NEW t, NEW before, Tells(t, "value", before), NEW m \in Nat, Len(t) = m,
         \A i \in 1..m : IsFrame(t[i]),
         NEW w \in Within(m), NEW r, r = DomReturn(dom, t, w)
  PROVE  Told(r, before \o Below(m)[w])
<1>1. IsSeq(t)
  BY DEF Tells
<1>2. CASE m = 0
  <2>1. before = << >>
    BY <1>1, <1>2, NothingTold
  <2>2. t = << >>
    BY <1>1, <1>2, Listed
  <2>3. r.expects = End /\ r.value = w
    BY <2>2 DEF DomReturn
  <2>4. Within(m) = Documents[Deepest] /\ Below(m) = Written[Deepest]
    <3>1. Deepest - 0 = Deepest
      BY DeepestIsNumber
    <3> QED
      BY <1>2, <3>1 DEF Within, Below
  <2>5. Below(m)[w] = Ordered(w)
    BY <2>4 DEF Ordered, Deepest
  <2>6. Below(m)[w] \in Texts
    <3>1. m \in 0..MaxDepth
      BY <1>2, DeepestIsNumber
    <3> QED
      BY <3>1, WithinLevel
  <2>7. << >> \o Below(m)[w] = Below(m)[w]
    BY <2>6, Joined
  <2>8. before \o Below(m)[w] = Ordered(w)
    BY <2>1, <2>5, <2>7
  <2> QED
    BY <2>3, <2>4, <2>8 DEF Told
<1>3. CASE m # 0
  <2>1. PICK k \in Nat : m = k + 1
    BY <1>3
  <2>2. IsFrame(t[k + 1])
    BY <2>1
  <2>3. r.expects = "after" /\ Tells(r.stack, "after", before \o Below(k + 1)[w])
    BY <2>1, <2>2, TellsReturned
  <2> QED
    BY <2>1, <2>3 DEF Told, End
<1> QED
  BY <1>2, <1>3

-----------------------------------------------------------------------------
(* The canonical text. *)

(* As long as no key repeats, the text written is that of the value built.    *)
ToldInv == ~stream.repeated => Told(dom, stream.out)

(* In the place of a value, whatever the readers call it.                     *)
LEMMA PlaceOfValue ==
  ASSUME Open, dom.expects = stream.expects, ExpectsValue, Told(dom, stream.out)
  PROVE  Tells(dom.stack, "value", stream.out)
<1>1. Reading(dom) /\ dom.expects # End
  BY DEF ExpectsValue, Reading, End
<1>2. Tells(dom.stack, dom.expects, stream.out)
  BY <1>1 DEF Told
<1>3. CASE stream.expects = "value"
  BY <1>2, <1>3
<1>4. CASE stream.expects = "first" /\ Kind = "array"
  <2>1. dom.stack # << >> /\ dom.stack[Len(dom.stack)].value.kind # "object"
    BY <1>4 DEF Kind
  <2> QED
    BY <1>2, <1>4, <2>1, FirstIsValue
<1> QED
  BY <1>3, <1>4 DEF ExpectsValue

(* The containers open, and their number.                                     *)
LEMMA StackKnown ==
  ASSUME Open
  PROVE  /\ DOMAIN dom = {"expects", "stack", "value"} /\ IsSeq(dom.stack) /\ Len(dom.stack) \in Nat
         /\ DOMAIN stream = {"expects", "stack", "out", "seen", "repeated"}
         /\ \A i \in 1..Len(dom.stack) : IsFrame(dom.stack[i])
         /\ stream.expects \in {"first", "key", "after"} => dom.stack # << >>
<1>1. SameContainers /\ Expecting
  BY DEF Open
<1> QED
  BY <1>1, Listed DEF SameContainers, Expecting

LEMMA OpensTells ==
  ASSUME Open, dom.expects = stream.expects, Told(dom, stream.out),
         NEW kind \in {"object", "array"}, NEW token, Opens(kind, token)
  PROVE  Told(dom', stream'.out)
<1>1. /\ ExpectsValue /\ ~(Len(dom.stack) > MaxDepth)
      /\ IsSeq(dom.stack) /\ Len(dom.stack) \in Nat
  BY StackKnown DEF Opens
<1>2. PICK out, stack, m : /\ out = stream.out /\ stack = dom.stack /\ m = Len(stack) /\ IsSeq(stack)
                           /\ Tells(stack, "value", out) /\ m \in Nat /\ ~(m > MaxDepth)
  BY <1>1, PlaceOfValue
<1>3. m \in 0..MaxDepth
  BY <1>2, DeepestIsNumber
<1>4. PICK frame : frame = [value |-> Empty(kind), key |-> ""]
  OBVIOUS
<1>5. frame.value = Empty(kind) /\ frame.key = ""
  BY <1>4
<1>6. /\ dom'.expects = "first" /\ dom'.stack = Append(stack, frame)
      /\ stream'.out = Append(out, token) /\ token = IF kind = "object" THEN "{" ELSE "["
  <2>1. dom' = DomOpen(dom, Empty(kind)) /\ stream' = StreamOpen(kind, token)
        /\ token = IF kind = "object" THEN "{" ELSE "["
    BY DEF Opens, Empty
  <2>2. DomOpen(dom, Empty(kind)).expects = "first" /\ DomOpen(dom, Empty(kind)).stack = Append(stack, frame)
    BY <1>2, <1>4, StackKnown DEF DomOpen
  <2>3. StreamOpen(kind, token).out = Append(out, token)
    BY <1>2, StackKnown DEF StreamOpen
  <2> QED
    BY <2>1, <2>2, <2>3
<1>7. PICK pushed : pushed = dom'.stack /\ pushed = Append(stack, frame)
  BY <1>6
<1>8. IsSeq(pushed) /\ Len(pushed) = m + 1 /\ pushed[m + 1] = frame /\ \A i \in 1..m : pushed[i] = stack[i]
  BY <1>2, <1>7, Pushed
<1>9. Tells(pushed, "first", Append(out, IF kind = "object" THEN "{" ELSE "["))
  BY ONLY <1>2, <1>3, <1>5, <1>8, kind \in {"object", "array"}, TellsOpening
<1> QED
  BY <1>6, <1>7, <1>9 DEF Told, End

LEMMA ScalarTells ==
  ASSUME Open, dom.expects = stream.expects, Told(dom, stream.out), NEW token, TakesScalar(token)
  PROVE  Told(dom', stream'.out)
<1>1. /\ ExpectsValue /\ ~(Len(dom.stack) > MaxDepth) /\ token \in Scalars
      /\ Len(dom.stack) \in Nat
  BY StackKnown DEF TakesScalar
<1>2. PICK out, stack, m : /\ out = stream.out /\ stack = dom.stack /\ m = Len(stack)
                           /\ Tells(stack, "value", out) /\ m \in Nat /\ ~(m > MaxDepth)
  BY <1>1, PlaceOfValue
<1>3. m \in 0..MaxDepth
  BY <1>2, DeepestIsNumber
<1>4. Scalar(token) \in Within(m) /\ Below(m)[Scalar(token)] = <<token>>
  BY <1>1, <1>3, ScalarTold
<1>5. PICK w : w = Scalar(token) /\ w \in Within(m) /\ Below(m)[w] = <<token>>
  BY <1>4
<1>6. PICK r : r = dom' /\ r = DomReturn(dom, stack, w)
  BY <1>2, <1>5 DEF TakesScalar
<1>7. Told(r, out \o Below(m)[w])
  <2>1. DOMAIN dom = {"expects", "stack", "value"} /\ \A i \in 1..m : IsFrame(stack[i])
    BY <1>2, StackKnown
  <2> QED
    BY <1>2, <1>5, <1>6, <2>1, ReturnTells
<1>8. stream'.out = out \o <<token>>
  <2>1. stream'.out = Append(out, token)
    BY <1>2, StackKnown DEF TakesScalar
  <2>2. out \in Texts /\ token \in Words
    BY <1>1, <1>2, FramesAreParts, TokensAreWords
  <2> QED
    BY <2>1, <2>2, OneMoreToken
<1> QED
  BY <1>5, <1>6, <1>7, <1>8

LEMMA ClosesTells ==
  ASSUME Open, dom.expects = stream.expects, Told(dom, stream.out), NEW token, Closes(token)
  PROVE  Told(dom', stream'.out)
<1>1. PICK out, stack, expects :
        /\ out = stream.out /\ stack = dom.stack /\ expects = dom.expects
        /\ expects \in {"first", "after"} /\ Tells(stack, expects, out)
  BY DEF Closes, Told, Reading, End
<1>2. PICK m \in Nat : Len(stack) = m + 1 /\ stack # << >> /\ IsSeq(stack)
  <2>1. IsSeq(stack) /\ stack # << >>
    BY <1>1, StackKnown DEF Closes
  <2>2. PICK n \in Nat \ {0} : n = Len(stack)
    BY <2>1, Listed
  <2>3. n - 1 \in Nat /\ n = (n - 1) + 1
    OBVIOUS
  <2> QED
    BY <2>1, <2>2, <2>3
<1>3. PICK rest : rest = Front(stack) /\ IsSeq(rest) /\ Len(rest) = m /\ \A i \in 1..m : rest[i] = stack[i]
  <2>1. IsSeq(Front(stack)) /\ Len(Front(stack)) = Len(stack) - 1 /\ \A i \in 1..Len(stack) - 1 : Front(stack)[i] = stack[i]
    BY <1>2, Popped
  <2>2. Len(stack) - 1 = m
    BY <1>2
  <2> QED
    BY <2>1, <2>2
<1>4. PICK v : v = stack[m + 1].value
  OBVIOUS
<1>5. v \in Within(m) /\ Apart(rest, Append(out, Closing(v)), Below(m)[v])
  BY ONLY <1>1, <1>2, <1>3, <1>4, TellsClosed
<1>6. PICK before : Tells(rest, "value", before) /\ Append(out, Closing(v)) = before \o Below(m)[v]
  BY <1>5 DEF Apart
<1>7. PICK r : r = dom' /\ r = DomReturn(dom, rest, v)
  BY <1>1, <1>2, <1>3, <1>4 DEF Closes, DomClose, Last
<1>8. Told(r, before \o Below(m)[v])
  <2>1. DOMAIN dom = {"expects", "stack", "value"} /\ \A i \in 1..Len(stack) : IsFrame(stack[i])
    BY <1>1, StackKnown
  <2>2. \A i \in 1..m : IsFrame(rest[i])
    BY <1>2, <1>3, <2>1
  <2> QED
    BY <1>3, <1>5, <1>6, <1>7, <2>1, <2>2, ReturnTells
<1>9. stream'.out = Append(out, Closing(v))
  <2>1. stream' = StreamClose(token) /\ token = IF Kind = "object" THEN "}" ELSE "]"
    BY DEF Closes
  <2>2. token = Closing(v)
    BY <1>1, <1>2, <1>4, <2>1 DEF Kind, Closing
  <2> QED
    BY <1>1, <2>1, <2>2, StackKnown DEF StreamClose
<1> QED
  BY <1>6, <1>7, <1>8, <1>9

LEMMA KeyTells ==
  ASSUME Open, dom.expects = stream.expects, ~stream.repeated, Told(dom, stream.out),
         NEW token, TakesKey(token), ~stream'.repeated
  PROVE  Told(dom', stream'.out)
<1>1. PICK out, stack, expects, n :
        /\ out = stream.out /\ stack = dom.stack /\ expects = dom.expects /\ n = Len(stack)
        /\ expects \in {"first", "key"} /\ Tells(stack, expects, out)
        /\ IsSeq(stack) /\ stack # << >> /\ n \in Nat
  BY StackKnown DEF TakesKey, Told, Reading, End
<1>2. PICK key : key = KeyOf[token]
  OBVIOUS
<1>3. key \in KeyTokens
  <2>1. token \in KeyTokens
    BY DEF TakesKey
  <2>2. KeyOf \in [KeyTokens -> KeyTokens \ {""}]
    BY TokensAssumption, Zenon
  <2> QED
    BY <1>2, <2>1, <2>2
<1>4. stack[n].value.kind = "object" /\ IsFrame(stack[n]) /\ n \in 1..n
  BY <1>1, StackKnown, Listed DEF TakesKey, Kind
<1>5. stream' = StreamKey(token) /\ token \in KeyTokens
  BY DEF TakesKey
<1>6. stream'.out = Append(out, key) /\ stream'.repeated = (stream.repeated \/ IsRepeated(key))
  BY <1>1, <1>2, <1>5, StackKnown DEF StreamKey
<1>7. key \notin KeysOf(stack[n].value.entries)
  <2>1. Kind = "object" /\ stream.expects \in {"first", "key"}
    BY DEF TakesKey
  <2>2. IsRepeated(key) <=> key \in KeysOf(dom.stack[Len(dom.stack)].value.entries)
    BY <2>1, LookupIsExact
  <2> QED
    BY <1>1, <1>6, <2>2
<1>8. PICK f : f = [stack[n] EXCEPT !.key = key]
  OBVIOUS
<1>9. f.key = key /\ f.value = stack[n].value
  BY <1>4, <1>8 DEF IsFrame
<1>10. PICK s : s = [stack EXCEPT ![n] = f]
  OBVIOUS
<1>11. dom'.expects = "value" /\ dom'.stack = s
  <2>1. dom' = DomKey(dom, token)
    BY DEF TakesKey
  <2>2. DomKey(dom, token) = [dom EXCEPT !.expects = "value", !.stack = s]
    BY <1>1, <1>2, <1>5, <1>8, <1>10 DEF DomKey
  <2> QED
    BY <2>1, <2>2, StackKnown
<1>12. IsSeq(s) /\ Len(s) = n /\ s[n] = f /\ \A i \in 1..n : i # n => s[i] = stack[i]
  <2>1. DOMAIN stack = 1..n
    BY <1>1, Listed
  <2>2. s[n] = f
    BY <1>4, <1>10, <2>1
  <2>3. Differs(stack, s, n)
    BY <1>10, Except
  <2> QED
    BY <1>1, <1>4, <2>2, <2>3, Replaced
<1>13. Tells(s, "value", Append(out, key))
  BY ONLY <1>1, <1>3, <1>4, <1>7, <1>9, <1>12, TellsKey
<1> QED
  BY <1>6, <1>11, <1>13 DEF Told, End

LEMMA SeparatorTells ==
  ASSUME Open, dom.expects = stream.expects, Told(dom, stream.out), NEW token, Separates(token)
  PROVE  Told(dom', stream'.out)
<1>1. PICK out, stack :
        /\ out = stream.out /\ stack = dom.stack /\ stack # << >> /\ Tells(stack, "after", out)
  BY StackKnown DEF Separates, Told, Reading, End
<1>2. PICK next : next = IF stack[Len(stack)].value.kind = "object" THEN "key" ELSE "value"
  OBVIOUS
<1>3. Tells(stack, next, Append(out, ","))
  BY ONLY <1>1, <1>2, TellsSeparator
<1>4. dom'.expects = next /\ dom'.stack = stack /\ stream'.out = Append(out, ",")
  <2>1. next = IF Kind = "object" THEN "key" ELSE "value"
    BY <1>1, <1>2 DEF Kind
  <2> QED
    BY <1>1, <2>1, StackKnown DEF Separates
<1> QED
  BY <1>2, <1>3, <1>4 DEF Told, End

(* Every token read keeps both invariants.                                    *)
LEMMA ToldInvStep ==
  ASSUME TextInv, ToldInv, [Next]_vars PROVE ToldInv'
<1> SUFFICES ASSUME ~stream'.repeated PROVE Told(dom', stream'.out)
  BY DEF ToldInv
<1>1. CASE UNCHANGED vars
  <2>1. dom' = dom /\ stream' = stream
    BY <1>1 DEF vars
  <2> QED
    BY <2>1 DEF ToldInv
<1>2. ASSUME NEW token \in Tokens, Read(token) PROVE Told(dom', stream'.out)
  <2>1. Reading(stream) /\ Open /\ dom.expects = stream.expects
    BY <1>2 DEF Read, TextInv, Reading
  <2>2. \/ Fails \/ Finishes
        \/ Opens("object", token) \/ Opens("array", token) \/ TakesScalar(token)
        \/ Closes(token) \/ TakesKey(token) \/ Separates(token)
    BY <1>2, <2>1, Steps DEF Open
  <2>3. ~stream.repeated
    <3>1. DOMAIN stream = {"expects", "stack", "out", "seen", "repeated"}
      BY <2>1, StackKnown
    <3>2. CASE Fails \/ Finishes
      BY <3>2 DEF Fails, Finishes
    <3>3. CASE Opens("object", token) \/ Opens("array", token)
      BY <3>1, <3>3 DEF Opens, StreamOpen
    <3>4. CASE TakesScalar(token)
      BY <3>1, <3>4 DEF TakesScalar
    <3>5. CASE Closes(token)
      BY <3>1, <3>5 DEF Closes, StreamClose
    <3>6. CASE TakesKey(token)
      BY <3>1, <3>6 DEF TakesKey, StreamKey
    <3>7. CASE Separates(token)
      BY <3>1, <3>7 DEF Separates
    <3> QED
      BY <2>2, <3>2, <3>3, <3>4, <3>5, <3>6, <3>7
  <2>4. Told(dom, stream.out)
    BY <2>3 DEF ToldInv
  <2>5. CASE Fails
    BY <2>5 DEF Fails, Told, Reading, End
  <2>6. CASE Finishes
    <3>1. dom.value \in Documents[Deepest] /\ stream.out = Ordered(dom.value)
      BY <2>1, <2>4, <2>6 DEF Finishes, Told
    <3> QED
      BY <2>6, <3>1 DEF Finishes, Told, Reading
  <2>7. CASE Opens("object", token) \/ Opens("array", token)
    BY <2>1, <2>4, <2>7, OpensTells
  <2>8. CASE TakesScalar(token)
    BY <2>1, <2>4, <2>8, ScalarTells
  <2>9. CASE Closes(token)
    BY <2>1, <2>4, <2>9, ClosesTells
  <2>10. CASE TakesKey(token)
    BY <2>1, <2>3, <2>4, <2>10, KeyTells
  <2>11. CASE Separates(token)
    BY <2>1, <2>4, <2>11, SeparatorTells
  <2> QED
    BY <2>2, <2>5, <2>6, <2>7, <2>8, <2>9, <2>10, <2>11
<1> QED
  BY <1>1, <1>2 DEF Next

(* StreamIsOrderedParse: ordered_stream writes the ordered text of what       *)
(* `parse` builds.                                                            *)
THEOREM StreamIsAlwaysOrderedParse == Spec => []StreamIsOrderedParse
<1>1. ASSUME Init PROVE ToldInv
  <2>1. dom.expects = "value" /\ dom.stack = << >> /\ stream.out = << >>
    BY <1>1 DEF Init, NewDom, NewStream
  <2>2. IsSeq(<< >>) /\ Len(<< >>) = 0
    BY EmptySeq DEF IsSeq
  <2>3. Tells(dom.stack, "value", stream.out)
    BY <2>1, <2>2, NothingTold
  <2> QED
    BY <2>1, <2>3 DEF ToldInv, Told, End
<1>2. TextInv /\ ToldInv /\ [Next]_vars => ToldInv'
  BY ToldInvStep
<1>3. TextInv /\ ToldInv => StreamIsOrderedParse
  BY DEF TextInv, ToldInv, Told, StreamIsOrderedParse, CanonicalText
<1> QED
  BY <1>1, <1>2, <1>3, ReadersAgree, PTL DEF Spec

=============================================================================
