------------------------------ MODULE MCCodecs ------------------------------
(***************************************************************************)
(* Two keys, one of them spelled in two ways, whose hashes collide; a       *)
(* scalar of each kind that a codec treats in its own way: an integer of    *)
(* one byte, one that only an unsigned number of eight bytes holds, a       *)
(* number whose spelling is lost, one that becomes an integer when it is    *)
(* read back, and one too large for a float.                                *)
(***************************************************************************)
EXTENDS Codecs

MCKeyTokens == {"a:", "a':", "b:"}
MCKeyOf == [k \in MCKeyTokens |-> IF k = "b:" THEN "b:" ELSE "a:"]
MCHash(key) == 0
MCSize(text) == IF text = "a:" THEN 1 ELSE 2
MCKeyRank(key) == IF key = "a:" THEN 1 ELSE 2

Is(class, n, text) == [class |-> class, n |-> n, text |-> text]

Integers == (-9..16) \cup {100, 40000}

MCMeaning ==
  [token \in {ToString(n) : n \in Integers} |->
     Is("int", CHOOSE n \in Integers : ToString(n) = token, "")]
  @@ "null" :> Is("null", 0, "") @@ "true" :> Is("true", 0, "")
  @@ "1e1" :> Is("real", 0, "10") @@ "1e400" :> Is("real", 0, "Infinity")
  @@ "Infinity" :> Is("null", 0, "")
  @@ "text" :> Is("string", 0, "text")

MCScalars == DOMAIN MCMeaning \ {"Infinity"}
MCTextTokens == Punctuation \cup MCKeyTokens
                \cup {"-2", "40000", "1e1", "1e400", "text", Bad, End}

MCWireElements ==
  {<<"fixint", n>> : n \in {-1, 1}} \cup {<<"null", 0>>, <<"true", 0>>}
  \cup {<<tag, 0>> : tag \in {"bin", "reserved", "int8", "int16", "uint8", "uint16",
                             "float64", "array2", "map2", "str1"}}
  \cup {<<"fix" \o kind, n>> : kind \in {"array", "map", "str"}, n \in 0..1}
  \cup {<<"byte", n>> : n \in {0, 2, 3}}
  \cup {<<text, i>> : text \in {"a:", "b:", "Infinity"}, i \in 1..2}

=============================================================================
