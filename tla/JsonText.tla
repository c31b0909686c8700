------------------------------ MODULE JsonText ------------------------------
(***************************************************************************)
(* json/parse.rs: the two readers of a JSON text. `parse` builds a value;  *)
(* `ordered_stream` writes the canonical text as it reads, and notes in    *)
(* `repeated` that an object repeats a key, which it cannot undo in what   *)
(* it has written. Here they read one text together, token by token, each  *)
(* with a state of its own: what the recursive calls hold is the stack.    *)
(*                                                                         *)
(* A token is a string: a bracket, a comma, a scalar, or a key with its    *)
(* colon. One key can be spelled in several ways (escapes); KeyOf gives    *)
(* the token the writer spells it with. White space has no token.          *)
(***************************************************************************)
EXTENDS Integers, Sequences, SequencesExt, IndexMaps

CONSTANTS
  KeyTokens,      \* the keys as a text may spell them
  KeyOf,          \* [KeyTokens -> the canonical spelling]
  Scalars,        \* strings, numbers, literals
  Hash(_),        \* hash_bytes of a canonical key token, which may collide
  MaxDepth,       \* MAX_DEPTH
  MaxTokens       \* bound on the length of a text

Bad == "bad"      \* a byte that starts no token, a literal misspelled, ...
End == "end"      \* the end of the text

(* The token of a Number without a finite value, which a wire may hold and  *)
(* no text spells.                                                           *)
NonFinite == "Infinity"

Punctuation == {"{", "}", "[", "]", ","}
Tokens == Punctuation \cup KeyTokens \cup Scalars \cup {Bad, End}

ASSUME TokensAssumption ==
  /\ KeyTokens \cap (Punctuation \cup Scalars \cup {Bad, End}) = {}
  /\ Scalars \cap (Punctuation \cup {Bad, End, NonFinite}) = {}
  /\ MaxDepth \in Nat /\ MaxTokens \in Nat
  /\ KeyOf \in [KeyTokens -> KeyTokens \ {""}]

VARIABLES
  position, \* tokens read so far
  dom,      \* the reader `parse`
  stream    \* the reader `ordered_stream`

vars == <<position, dom, stream>>

-----------------------------------------------------------------------------
(* A reader expects a value, the first entry of a container or its end, a   *)
(* key, what follows an entry, or the end of the text.                       *)

Fail(reader) == [reader EXCEPT !.expects = "failed"]

(* Json: the entries of an object, the items of an array, or a token. *)
Scalar(token) == [kind |-> "scalar", token |-> token, entries |-> NoEntries, items |-> << >>]
Object(entries) == [kind |-> "object", token |-> "", entries |-> entries, items |-> << >>]
Array(items) == [kind |-> "array", token |-> "", entries |-> NoEntries, items |-> items]

-----------------------------------------------------------------------------
(* parse_value, parse_object, parse_array. A frame is an open container:    *)
(* its value so far and, in an object, the key whose value is being read.    *)

NewDom == [expects |-> "value", stack |-> << >>, value |-> Scalar("")]

DomOpen(r, value) ==
  [r EXCEPT !.expects = "first", !.stack = Append(@, [value |-> value, key |-> ""])]

(* the value is returned to the loop of the container around it *)
DomReturn(r, stack, value) ==
  IF stack = << >>
  THEN [expects |-> End, stack |-> << >>, value |-> value]
  ELSE [r EXCEPT
          !.expects = "after",
          !.stack = [stack EXCEPT ![Len(stack)].value =
                       IF @.kind = "object"
                       THEN Object(Insert(@.entries, stack[Len(stack)].key, value))
                       ELSE Array(Append(@.items, value))]]

DomClose(r) == DomReturn(r, Front(r.stack), Last(r.stack).value)

DomValue(r, token) ==
  IF Len(r.stack) > MaxDepth THEN Fail(r)
  ELSE IF token = "{" THEN DomOpen(r, Object(NoEntries))
  ELSE IF token = "[" THEN DomOpen(r, Array(<< >>))
  ELSE IF token \in Scalars THEN DomReturn(r, r.stack, Scalar(token))
  ELSE Fail(r)

DomKey(r, token) ==
  IF token \in KeyTokens
  THEN [r EXCEPT !.expects = "value", !.stack[Len(r.stack)].key = KeyOf[token]]
  ELSE Fail(r)

DomReads(r, token) ==
  LET kind == IF r.stack = << >> THEN "text" ELSE Last(r.stack).value.kind
  IN  CASE r.expects \in {"failed", "read"} -> r
        [] r.expects = "value" -> DomValue(r, token)
        [] r.expects = "first" /\ kind = "object" -> IF token = "}" THEN DomClose(r) ELSE DomKey(r, token)
        [] r.expects = "first" /\ kind = "array" -> IF token = "]" THEN DomClose(r) ELSE DomValue(r, token)
        [] r.expects = "key" -> DomKey(r, token)
        [] r.expects = "after" /\ token = "," ->
             [r EXCEPT !.expects = IF kind = "object" THEN "key" ELSE "value"]
        [] r.expects = "after" /\ token = (IF kind = "object" THEN "}" ELSE "]") -> DomClose(r)
        [] r.expects = End /\ token = End -> [r EXCEPT !.expects = "read"]
        [] OTHER -> Fail(r)

-----------------------------------------------------------------------------
(* parse_value_stream, parse_object_stream, parse_array_stream. A frame     *)
(* holds the length `seen` had when its container was opened. An entry of    *)
(* `seen` has the hash of a key and the position of its token in `out`.      *)

NewStream ==
  [expects |-> "value", stack |-> << >>, out |-> << >>, seen |-> << >>, repeated |-> FALSE]

StreamOpen(kind, token) ==
  [stream EXCEPT !.expects = "first", !.out = Append(@, token),
                 !.stack = Append(@, [kind |-> kind, mark |-> Len(stream.seen)])]

After(stack) == IF stack = << >> THEN End ELSE "after"

(* Mutated: the keys of a nested object are left in `seen`. *)
StreamCloseWithoutTruncating(token) ==
  [stream EXCEPT !.expects = After(Front(stream.stack)), !.stack = Front(@),
                 !.out = Append(@, token)]

(* `seen` is cut back to its mark when an object is left; an array puts      *)
(* nothing into it.                                                           *)
StreamClose(token) ==
  LET top == Last(stream.stack)
  IN  [stream EXCEPT !.expects = After(Front(stream.stack)), !.stack = Front(@),
                     !.out = Append(@, token),
                     !.seen = IF top.kind = "object" THEN SubSeq(@, 1, top.mark) ELSE @]

StreamValue(token) ==
  IF Len(stream.stack) > MaxDepth THEN Fail(stream)
  ELSE IF token = "{" THEN StreamOpen("object", token)
  ELSE IF token = "[" THEN StreamOpen("array", token)
  ELSE IF token \in Scalars THEN
         [stream EXCEPT !.expects = After(stream.stack), !.out = Append(@, token)]
  ELSE Fail(stream)

SeenAt(i) == stream.out[stream.seen[i].at]

IsRepeated(key) ==
  \E i \in (Last(stream.stack).mark + 1)..Len(stream.seen) :
    stream.seen[i].hash = Hash(key) /\ SeenAt(i) = key

(* Mutated: the text as it was spelled is compared and written. *)
StreamKeyAsSpelled(token) ==
  IF token \in KeyTokens
  THEN [stream EXCEPT
          !.expects = "value",
          !.out = Append(@, token),
          !.repeated = @ \/ IsRepeated(token),
          !.seen = IF stream.repeated \/ IsRepeated(token)
                   THEN @ ELSE Append(@, [hash |-> Hash(token), at |-> Len(stream.out) + 1])]
  ELSE Fail(stream)

StreamKey(token) ==
  IF token \in KeyTokens
  THEN LET key == KeyOf[token]
       IN  [stream EXCEPT
              !.expects = "value",
              !.out = Append(@, key),
              !.repeated = @ \/ IsRepeated(key),
              !.seen = IF stream.repeated \/ IsRepeated(key)
                       THEN @ ELSE Append(@, [hash |-> Hash(key), at |-> Len(stream.out) + 1])]
  ELSE Fail(stream)

StreamReads(token) ==
  LET kind == IF stream.stack = << >> THEN "text" ELSE Last(stream.stack).kind
  IN  CASE stream.expects = "failed" -> stream
        [] stream.expects = "value" -> StreamValue(token)
        [] stream.expects = "first" /\ kind = "object" ->
             IF token = "}" THEN StreamClose(token) ELSE StreamKey(token)
        [] stream.expects = "first" /\ kind = "array" ->
             IF token = "]" THEN StreamClose(token) ELSE StreamValue(token)
        [] stream.expects = "key" -> StreamKey(token)
        [] stream.expects = "after" /\ token = "," ->
             [stream EXCEPT !.expects = IF kind = "object" THEN "key" ELSE "value",
                            !.out = Append(@, ",")]
        [] stream.expects = "after" /\ token = (IF kind = "object" THEN "}" ELSE "]") ->
             StreamClose(token)
        [] stream.expects = End /\ token = End -> [stream EXCEPT !.expects = "read"]
        [] OTHER -> Fail(stream)

-----------------------------------------------------------------------------
Init ==
  /\ position = 0
  /\ dom = NewDom
  /\ stream = NewStream

Reading(reader) == reader.expects \notin {"failed", "read"}

Read(token) ==
  /\ Reading(dom) \/ Reading(stream)
  /\ position < MaxTokens
  /\ position' = position + 1
  /\ dom' = DomReads(dom, token)
  /\ stream' = StreamReads(token)

Next == \E token \in Tokens : Read(token)

Spec == Init /\ [][Next]_vars

-----------------------------------------------------------------------------
(* The values of at most n levels. The readers of a text and of a wire stop  *)
(* at the same depth, so a document has no more than MaxDepth + 1.            *)
Documents[n \in 0..(MaxDepth + 1)] ==
  IF n = 0 THEN {}
  ELSE [kind : {"scalar", "object", "array"}, token : Scalars \cup {"", NonFinite},
        entries : Seq(KeyTokens \X Documents[n - 1]), items : Seq(Documents[n - 1])]

Comma(i) == IF i = 1 THEN << >> ELSE <<",">>

(* write_ordered: a value as the tokens of its text, given the texts of the   *)
(* values below it.                                                          *)
Spelling(value, below) ==
  CASE value.kind = "scalar" -> <<IF value.token = NonFinite THEN "null" ELSE value.token>>
    [] value.kind = "array" ->
         <<"[">>
         \o FlattenSeq([i \in DOMAIN value.items |-> Comma(i) \o below[value.items[i]]])
         \o <<"]">>
    [] value.kind = "object" ->
         <<"{">>
         \o FlattenSeq([i \in DOMAIN value.entries |->
              Comma(i) \o <<value.entries[i][1]>> \o below[value.entries[i][2]]])
         \o <<"}">>

Written[n \in 0..(MaxDepth + 1)] ==
  [value \in Documents[n] |-> Spelling(value, Written[n - 1])]

Ordered(value) == Written[MaxDepth + 1][value]

(* ordered_stream, when the text has been read *)
CanonicalText == IF stream.repeated THEN Ordered(dom.value) ELSE stream.out

(* The two readers of JSON agree on every text, byte by byte: they fail      *)
(* together, and the text ordered_stream writes is the ordered text of the    *)
(* value parse builds, which has each key once, at its first place and with   *)
(* its last value. The content hash is of the first, the documents compiled   *)
(* are of the second.                                                         *)
StreamIsOrderedParse ==
  /\ dom.expects = stream.expects
  /\ dom.expects = "read" => CanonicalText = Ordered(dom.value)

-----------------------------------------------------------------------------
(* The keys of the objects now open, object by object, are what `seen`       *)
(* holds above their marks: exactly the keys `parse` has put into the value  *)
(* it is building, and the one whose value is being read. So a lookup finds   *)
(* the repeats of the innermost object and never a key of an object around    *)
(* it, nor of one closed before, and `repeated` is set the moment `parse`      *)
(* overwrites an entry.                                                        *)
OpenKeys(i) ==
  KeysOf(dom.stack[i].value.entries)
  \cup (IF dom.stack[i].key = "" THEN {} ELSE {dom.stack[i].key})

SeenKeys(i) ==
  LET end == IF i = Len(stream.stack) THEN Len(stream.seen) ELSE stream.stack[i + 1].mark
  IN  {SeenAt(j) : j \in (stream.stack[i].mark + 1)..end}

SeenAreOpenKeys ==
  Reading(stream) /\ ~stream.repeated =>
    /\ Len(stream.stack) = Len(dom.stack)
    /\ \A i \in DOMAIN stream.stack :
         stream.stack[i].kind = "object" => SeenKeys(i) = OpenKeys(i)
    /\ \A i, j \in DOMAIN stream.seen : stream.seen[i].at = stream.seen[j].at => i = j

=============================================================================
