----------------------------- MODULE IndexMaps -----------------------------
(***************************************************************************)
(* indexmap::IndexMap, as the library uses it: a map that remembers the    *)
(* order in which its keys were first inserted. A map is the sequence of   *)
(* its entries <<key, value>>.                                             *)
(***************************************************************************)
EXTENDS Naturals, Sequences

NoEntries == << >>

KeysOf(m) == {m[i][1] : i \in DOMAIN m}

(* IndexMap::insert: a repeated key keeps its first position and takes the *)
(* last value.                                                              *)
Insert(m, k, v) ==
  IF k \in KeysOf(m)
  THEN [i \in DOMAIN m |-> IF m[i][1] = k THEN <<k, v>> ELSE m[i]]
  ELSE Append(m, <<k, v>>)

(* IndexMap::get, of a key that is there *)
Lookup(m, k) == m[CHOOSE i \in DOMAIN m : m[i][1] = k][2]

=============================================================================
