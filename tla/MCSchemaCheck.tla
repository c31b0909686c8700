---------------------------- MODULE MCSchemaCheck ----------------------------
(* A root that uses every keyword with subschemas over two inner nodes, alone  *)
(* or beside a reference, and two definitions, one with an inner node of its    *)
(* own; references go to every node.                                            *)
EXTENDS SchemaCheck

Sub(name, n) == [name |-> name, to |-> n, accepts |-> {}]
Ref(n) == Sub("$ref", n)
Accept(labels) == [name |-> "assert", to |-> Unresolved, accepts |-> labels]
Unusable == [name |-> "unusable", to |-> Unresolved, accepts |-> {}]

Object(list) == [kind |-> "object", keywords |-> list]
Other(kind) == [kind |-> kind, keywords |-> << >>]

RootKeywords ==
  {<<Sub("allOf", "in"), Sub("allOf", "in2")>>, <<Sub("anyOf", "in"), Sub("anyOf", "in2")>>,
   <<Sub("oneOf", "in"), Sub("oneOf", "in2")>>, <<Sub("not", "in")>>,
   <<Sub("if", "in"), Sub("then", "in2")>>, <<Sub("if", "in"), Sub("else", "in2")>>,
   <<Sub("properties", "in"), Sub("additionalProperties", "in2")>>, <<Sub("items", "in")>>}
RootBodies ==
  RootKeywords \cup {r \o <<Ref("d")>> : r \in RootKeywords}
               \cup {<<Ref("din"), Sub("allOf", "in")>>, <<Sub("not", "in"), Ref("in")>>, <<Sub("items", "in"), Ref(Unresolved)>>}

InnerBodies == {Object(<<Accept({"a"})>>), Object(<<Ref("d")>>), Object(<<Ref("e"), Accept({"a", "b"})>>), Object(<<Ref("root")>>)}
SecondBodies == {Object(<<Accept({"b", "arr"})>>), Object(<<Ref("d")>>), Other("false"), Other("other")}
Definitions ==
  {[d |-> d, din |-> Object(<<Accept({"a"})>>)] : d \in {<<Accept({"a", "arr"})>>, <<Ref("e")>>}}
  \cup {[d |-> d, din |-> Object(din)] :
          d \in {<<Sub("allOf", "din")>>, <<Sub("not", "din"), Ref("e")>>},
          din \in {<<Ref("d")>>, <<Ref("e"), Accept({"a"})>>, <<Unusable>>}}

EndBodies == {<<Accept({"b"})>>, <<Ref("din")>>, <<Ref("d"), Accept({"a"})>>}

TheSchemas ==
  {[n \in {"root", "in", "in2", "d", "din", "e"} |->
     CASE n = "root" -> Object(r) [] n = "in" -> first [] n = "in2" -> second
       [] n = "d" -> Object(p.d) [] n = "din" -> p.din [] n = "e" -> Object(e)] :
   r \in RootBodies, first \in InnerBodies, second \in SecondBodies, p \in Definitions, e \in EndBodies}

Scalar(label) == [label |-> label, parts |-> << >>]
Part(name, value) == [name |-> name, value |-> value]
TheInstances ==
  {Scalar("a"), Scalar("b"),
   [label |-> "obj", parts |-> <<Part("p", Scalar("a")), Part("q", Scalar("b"))>>],
   [label |-> "arr", parts |-> <<Part("item", Scalar("a")), Part("item", Scalar("a"))>>]}
=============================================================================
