---------------------------- MODULE MessagePack ----------------------------
(***************************************************************************)
(* codec/messagepack.rs over scaled integers: a byte holds Base values, so  *)
(* the widths 1, 2, 4 and 8 hold what the signed and unsigned types of the *)
(* code hold, in proportion.                                               *)
(*                                                                         *)
(* A wire is a sequence of elements <<role, n>>: a tag (with the length or *)
(* the integer a fix tag carries), a byte of a number, or the n-th byte of *)
(* a text or of a float, whose role is its content. A value is a JSON      *)
(* value of JsonText; Meaning says what its scalar tokens are.             *)
(***************************************************************************)
EXTENDS JsonText, FiniteSetsExt, TLC

CONSTANTS
  Meaning,     \* [scalar token -> [class, n, text]]; an integer's value is
               \* n, a text's or float's content is text
  Size(_),     \* the length in bytes of a text
  KeyRank(_)   \* the UTF-8 byte order of the keys

Base == 4
ByteValues == 0..(Base - 1)
Capacity(width) == Base ^ width
SignedRange(width) == (-(Capacity(width) \div 2))..(Capacity(width) \div 2 - 1)

NegativeFix == {-1}         \* 0xE0..=0xFF
FixText == 1                \* the longest text, and the largest
FixCount == 1               \* container, of a fix tag
FloatWidth == 2             \* a float is its bytes, whatever their number

(* to_be_bytes, of a signed or an unsigned number *)
Bytes(n, width) ==
  [i \in 1..width |-> <<"byte", (n \div Capacity(width - i)) % Base>>]

Contents(text, length) == [i \in 1..length |-> <<text, i>>]

-----------------------------------------------------------------------------
(* The encoder.                                                             *)

(* Mutated: the ranges of two signed widths meet at the wrong number. *)
WriteIntOffByOne(n) ==
  IF n \in NegativeFix \cup {m \in SignedRange(1) : m >= 0} THEN <<<<"fixint", n>>>>
  ELSE IF n \in SignedRange(1) THEN <<<<"int8", 0>>>> \o Bytes(n, 1)
  ELSE IF n - 1 \in SignedRange(2) THEN <<<<"int16", 0>>>> \o Bytes(n, 2)
  ELSE IF n \in SignedRange(4) THEN <<<<"int32", 0>>>> \o Bytes(n, 4)
  ELSE <<<<"int64", 0>>>> \o Bytes(n, 8)

WriteInt(n) ==
  IF n \in NegativeFix \cup {m \in SignedRange(1) : m >= 0} THEN <<<<"fixint", n>>>>
  ELSE IF n \in SignedRange(1) THEN <<<<"int8", 0>>>> \o Bytes(n, 1)
  ELSE IF n \in SignedRange(2) THEN <<<<"int16", 0>>>> \o Bytes(n, 2)
  ELSE IF n \in SignedRange(4) THEN <<<<"int32", 0>>>> \o Bytes(n, 4)
  ELSE <<<<"int64", 0>>>> \o Bytes(n, 8)

(* The header of a text or a container, whose lengths of more than one byte *)
(* have tags for the widths given.                                           *)
Header(kind, fix, widths, length) ==
  IF length <= fix
  THEN <<<<"fix" \o kind, length>>>>
  ELSE LET width == Min({w \in widths : length < Capacity(w)})
       IN  <<<<kind \o ToString(width), 0>>>> \o Bytes(length, width)

WriteString(text) ==
  Header("str", FixText, {1, 2, 4}, Size(text)) \o Contents(text, Size(text))

WriteScalar(token) ==
  LET meaning == Meaning[token]
  IN  IF meaning.class = "string" THEN WriteString(meaning.text)
      ELSE IF meaning.class = "int" /\ meaning.n \in SignedRange(8) THEN WriteInt(meaning.n)
      ELSE IF meaning.class = "int" /\ meaning.n \in 0..(Capacity(8) - 1) THEN
             <<<<"uint64", 0>>>> \o Bytes(meaning.n, 8)
      ELSE IF meaning.class = "real" THEN <<<<"float64", 0>>>> \o Contents(meaning.text, FloatWidth)
      ELSE <<<<meaning.class, 0>>>>     \* nil, false, true

(* the entries of an object, by key *)
SortedEntries(entries) == SortSeq(entries, LAMBDA e, f : KeyRank(e[1]) < KeyRank(f[1]))

RECURSIVE WriteValue(_, _)
WriteValue(value, sorted) ==
  CASE value.kind = "scalar" -> WriteScalar(value.token)
    [] value.kind = "array" ->
         Header("array", FixCount, {2, 4}, Len(value.items))
         \o FlattenSeq([i \in DOMAIN value.items |-> WriteValue(value.items[i], sorted)])
    [] value.kind = "object" ->
         LET entries == IF sorted THEN SortedEntries(value.entries) ELSE value.entries
         IN  Header("map", FixCount, {2, 4}, Len(entries))
             \o FlattenSeq([i \in DOMAIN entries |->
                  WriteString(entries[i][1]) \o WriteValue(entries[i][2], sorted)])

-----------------------------------------------------------------------------
(* The decoder. A reading is a status, the value read, and the wire left.   *)

Result(value, rest) == [status |-> "ok", value |-> value, rest |-> rest]
Stopped(status) == [status |-> status, value |-> Scalar(""), rest |-> << >>]
Truncated == Stopped("truncated")
Invalid == Stopped("invalid")

(* a wire whose bytes are not in the role the decoder reads them in: the    *)
(* alphabet does not say what they would be                                   *)
Unnamed == Stopped("unnamed")

(* the ? of the code: an error is returned as it is *)
Then(read, Continue(_)) == IF read.status = "ok" THEN Continue(read) ELSE read

(* take, then what is made of the bytes *)
Take(wire, length, roles, Made(_)) ==
  LET taken == SubSeq(wire, 1, length)
  IN  IF length > Len(wire) THEN Truncated
      ELSE IF \E i \in 1..length : taken[i][1] \notin roles THEN Unnamed
      ELSE Result(Made(taken), SubSeq(wire, length + 1, Len(wire)))

Number(bytes) == FoldLeft(LAMBDA n, b : n * Base + b[2], 0, bytes)

AsSigned(n, width) == IF n \in SignedRange(width) THEN n ELSE n - Capacity(width)

ReadInt(wire, width, signed) ==
  Take(wire, width, {"byte"}, LAMBDA bytes :
    Scalar(ToString(IF signed THEN AsSigned(Number(bytes), width) ELSE Number(bytes))))

(* The texts and floats of the instance; no other bytes are valid UTF-8. A  *)
(* length no text of the instance has is one whose bytes have no name.        *)
Keys == {KeyOf[k] : k \in KeyTokens}
Texts == {Meaning[t].text : t \in {u \in DOMAIN Meaning : Meaning[u].class = "string"}}
Reals == {Meaning[t].text : t \in {u \in DOMAIN Meaning : Meaning[u].class = "real"}}

ReadContents(wire, length, roles) ==
  Then(Take(wire, length, roles, LAMBDA contents :
              {text \in roles : contents = Contents(text, length)}),
       LAMBDA read :
         IF roles = {} THEN Unnamed
         ELSE IF read.value = {} THEN Invalid
         ELSE Result(Scalar(CHOOSE text \in read.value : TRUE), read.rest))

(* The length a header gives: the count of a fix tag, or the number that    *)
(* follows. Len(rest) of a truncated number is of no use.                     *)
ReadLength(tag, rest) ==
  LET widths == [str1 |-> 1, str2 |-> 2, str4 |-> 4, array2 |-> 2, array4 |-> 4,
                 map2 |-> 2, map4 |-> 4]
      read == Take(rest, widths[tag[1]], {"byte"}, LAMBDA bytes : Number(bytes))
  IN  IF tag[1] \in {"fixstr", "fixarray", "fixmap"}
      THEN [status |-> "ok", value |-> tag[2], rest |-> rest]
      ELSE read

IsText(tag) == tag[1] \in {"fixstr", "str1", "str2", "str4"}
IsArray(tag) == tag[1] \in {"fixarray", "array2", "array4"}
IsMap(tag) == tag[1] \in {"fixmap", "map2", "map4"}

ReadText(tag, rest, texts) ==
  Then(ReadLength(tag, rest), LAMBDA length :
    ReadContents(length.rest, length.value, {text \in texts : Size(text) = length.value}))

ReadKey(wire) ==
  IF wire = << >> THEN Truncated
  ELSE IF IsText(Head(wire)) THEN ReadText(Head(wire), Tail(wire), Keys)
  ELSE Invalid

RECURSIVE ReadValue(_, _), ReadItems(_, _, _, _), ReadEntries(_, _, _, _)
ReadValue(wire, depth) ==
  LET tag == Head(wire)
      rest == Tail(wire)
  IN  IF depth > MaxDepth THEN Invalid
      ELSE IF wire = << >> THEN Truncated
      ELSE IF tag[1] = "fixint" THEN Result(Scalar(ToString(tag[2])), rest)
      ELSE IF tag[1] \in {"null", "false", "true"} THEN Result(Scalar(tag[1]), rest)
      ELSE IF tag[1] \in {"bin", "ext", "reserved"} THEN Invalid
      ELSE IF tag[1] \in {"int8", "int16", "int32", "int64"} THEN
             ReadInt(rest, [int8 |-> 1, int16 |-> 2, int32 |-> 4, int64 |-> 8][tag[1]], TRUE)
      ELSE IF tag[1] \in {"uint8", "uint16", "uint32", "uint64"} THEN
             ReadInt(rest, [uint8 |-> 1, uint16 |-> 2, uint32 |-> 4, uint64 |-> 8][tag[1]], FALSE)
      ELSE IF tag[1] = "float64" THEN ReadContents(rest, FloatWidth, Reals)
      ELSE IF IsText(tag) THEN ReadText(tag, rest, Texts)
      ELSE IF IsArray(tag) \/ IsMap(tag) THEN
             Then(ReadLength(tag, rest), LAMBDA length :
               IF IsArray(tag)
               THEN ReadItems(length.rest, length.value, depth, << >>)
               ELSE ReadEntries(length.rest, length.value, depth, NoEntries))
      ELSE Unnamed

ReadItems(wire, count, depth, items) ==
  IF count = 0
  THEN Result(Array(items), wire)
  ELSE Then(ReadValue(wire, depth + 1), LAMBDA item :
         ReadItems(item.rest, count - 1, depth, Append(items, item.value)))

ReadEntries(wire, count, depth, entries) ==
  IF count = 0
  THEN Result(Object(entries), wire)
  ELSE Then(ReadKey(wire), LAMBDA key :
         Then(ReadValue(key.rest, depth + 1), LAMBDA entry :
           ReadEntries(entry.rest, count - 1, depth,
                       Insert(entries, key.value.token, entry.value))))

(* Mutated: what follows the value is not looked at. *)
ReadDocumentOfAPrefix(wire) == ReadValue(wire, 0)

(* read_document *)
ReadDocument(wire) ==
  Then(ReadValue(wire, 0), LAMBDA read :
    IF read.rest = << >> THEN read ELSE Invalid)

=============================================================================
