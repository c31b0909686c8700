------------------------------- MODULE Codecs -------------------------------
(***************************************************************************)
(* The two codecs over one document model (codec.rs), with the canonical   *)
(* text of the content hash (hash.rs).                                     *)
(*                                                                         *)
(* A behaviour either reads a JSON text, token by token, or receives a     *)
(* MessagePack wire, element by element, each for as long as the decoder   *)
(* asks for more. In every state the documents at hand can be written out  *)
(* and read back.                                                          *)
(***************************************************************************)
EXTENDS MessagePack

CONSTANTS
  TextTokens,     \* the tokens of the texts
  WireElements,   \* the tags, bytes and contents of the wires
  MaxWire         \* bound on the length of a received wire

VARIABLE wire

allVars == <<position, dom, stream, wire>>

-----------------------------------------------------------------------------
(* write_canonical: what write_ordered writes, each object by its keys. *)
RECURSIVE Sorted(_)
Sorted(value) ==
  CASE value.kind = "scalar" -> value
    [] value.kind = "array" -> Array([i \in DOMAIN value.items |-> Sorted(value.items[i])])
    [] value.kind = "object" ->
         LET entries == SortedEntries(value.entries)
         IN  Object([i \in DOMAIN entries |-> <<entries[i][1], Sorted(entries[i][2])>>])

Canonical(value) == Ordered(Sorted(value))

(* parse, of a whole text *)
Parse(text) == FoldLeft(DomReads, NewDom, Append(text, End))

-----------------------------------------------------------------------------
Initial == Init /\ wire = << >>

ReadToken(token) ==
  /\ wire = << >>
  /\ Read(token)
  /\ UNCHANGED wire

Receive(element) ==
  /\ position = 0
  /\ Len(wire) < MaxWire
  /\ ReadDocument(wire).status = "truncated"
  /\ ReadDocument(Append(wire, element)).status # "unnamed"
  /\ wire' = Append(wire, element)
  /\ UNCHANGED vars

NextCodecs ==
  \/ \E token \in TextTokens : ReadToken(token)
  \/ \E element \in WireElements : Receive(element)

CodecsSpec == Initial /\ [][NextCodecs]_allVars

-----------------------------------------------------------------------------
(* The documents decoded in this state. *)
Decoded ==
  (IF dom.expects = "read" THEN {dom.value} ELSE {})
  \cup {r.value : r \in {s \in {ReadDocument(wire)} : s.status = "ok"}}

RECURSIVE Respelled(_, _)
Respelled(value, spelled) ==
  CASE value.kind = "scalar" -> Scalar(spelled[value.token])
    [] value.kind = "array" ->
         Array([i \in DOMAIN value.items |-> Respelled(value.items[i], spelled)])
    [] value.kind = "object" ->
         Object([i \in DOMAIN value.entries |->
                   <<value.entries[i][1], Respelled(value.entries[i][2], spelled)>>])

(* docs/codecs.md: the spelling of a number is lost, and nothing else. *)
DecodedSpelling ==
  [token \in DOMAIN Meaning |->
     CASE Meaning[token].class = "int" -> ToString(Meaning[token].n)
       [] Meaning[token].class \in {"real", "string"} -> Meaning[token].text
       [] OTHER -> Meaning[token].class]

WrittenSpelling ==
  [token \in DOMAIN Meaning |-> IF token = NonFinite THEN "null" ELSE token]

(* A document that one codec accepts is accepted by the other, and comes     *)
(* back as it was: written in order or canonically and parsed, or packed and  *)
(* unpacked, a decoded document loses only the spelling of its numbers, and a *)
(* number beyond doubles (`1e400`) that went through MessagePack reads back as *)
(* null: WrittenSpelling. The two readers have the same nesting limit, and the *)
(* two sorts the same order.                                                  *)
DecodedSurvivesBothCodecs ==
  \A value \in Decoded :
    /\ LET parsed == Parse(Ordered(value))
       IN  parsed.expects = "read" /\ parsed.value = Respelled(value, WrittenSpelling)
    /\ LET sorted == Parse(Canonical(value))
           unpacked == ReadDocument(WriteValue(value, TRUE))
       IN  /\ sorted.expects = "read" /\ unpacked.status = "ok"
           /\ unpacked.value = Respelled(sorted.value, DecodedSpelling)
    /\ LET unpacked == ReadDocument(WriteValue(value, FALSE))
       IN  unpacked.status = "ok" /\ unpacked.value = Respelled(value, DecodedSpelling)

(* A wire cut short is asked to be longer at every point, and a wire too     *)
(* long is refused: a document is never taken from a part of its bytes.       *)
PackedIsExact ==
  \A value \in Decoded :
    LET packed == WriteValue(value, FALSE)
    IN  /\ \A cut \in 0..(Len(packed) - 1) :
             ReadDocument(SubSeq(packed, 1, cut)).status = "truncated"
        /\ \A element \in WireElements :
             ReadDocument(Append(packed, element)).status = "invalid"

=============================================================================
