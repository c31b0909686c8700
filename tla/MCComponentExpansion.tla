------------------------ MODULE MCComponentExpansion ------------------------
(* Three components of at most two fields in every reference graph, cyclic and *)
(* incomplete ones included. Two components may use the same field id.         *)
EXTENDS ComponentExpansion

Reference(id, c) == [id |-> id, ref |-> c]
Text == <<[id |-> "text", ref |-> Plain]>>

Bodies == {Text} \cup {<<Reference("p", c)>> : c \in Components}
          \cup {<<Reference("p", c), Reference("q", d)>> : c \in Components, d \in Components}

Component(fields, pin) == [fields |-> fields, pin |-> pin, ui |-> TRUE]

TheBatches ==
  {[c \in {"x", "y", "z"} |-> CASE c = "x" -> Component(fx, px)
                                [] c = "y" -> Component(fy, "none")
                                [] c = "z" -> Component(fz, pz)] :
     fx \in Bodies, fy \in Bodies, fz \in Bodies,
     px \in {"none", "right", "wrong"}, pz \in {"none", "right", "wrong"}}
  \cup {[c \in {"x", "y"} |-> CASE c = "x" -> Component(fx, px)
                                [] c = "y" -> Component(fy, "none")] :
     fx \in Bodies, fy \in Bodies, px \in {"none", "right"}}

TheForms == {<<Reference("a", "x"), Reference("b", "y"), Reference("c", "x")>>,
             <<[id |-> "text", ref |-> Plain], Reference("a", "x"), Reference("b", Unversioned)>>}
=============================================================================
