-------------------------- MODULE MCRuleEvaluation --------------------------
(***************************************************************************)
(* A form with an outer input `a`, an outer total `t`, and a repeater with  *)
(* an input cell `q` and two calculated cells `x` and `y`. A value computed  *)
(* is the term that computed it, and values handed in beside the repeater    *)
(* differ from those in rows, so every stale or foreign read shows.          *)
(***************************************************************************)
EXTENDS RuleEvaluation, TLC

CONSTANTS a, t, q, x, y, inside, beside

Term(f, r, g) == <<f, r, g>>

(* One value for the keys of each set *)
Beside(S) == {[c \in keys |-> beside] : keys \in S}
Inside(S) == {[c \in keys |-> inside] : keys \in S}

(* Stale totals, child codes and calculated child codes beside the repeater *)
SmallSubmitted == Beside({{}, {a}, {q}, {a, t, x}})

OuterSubmitted == Beside({{}, {a}, {a, t}})

(* Rows with holes, stale calculated cells, and keys of outer fields *)
SmallRowMaps == Inside({{}, {q}, {x, q}, {y}, {a, q}, {t, Lines}})

(* Chains, diamonds, sums over calculated columns, counts, reads of the row *)
(* count, and cyclic documents, which the analyzer refuses.                  *)
SmallDocuments ==
  {[reads    |-> t :> rt @@ x :> rx @@ y :> ry,
    subjects |-> t :> st @@ x :> {} @@ y :> sy] :
     rt \in {{}, {a, Lines}},
     st \in SUBSET {q, x, y} \ {{q, x}},
     rx \in {{q}, {a, q, y}, {t}},
     ry \in {{q, x}, {Lines}, {t, q}},
     sy \in {{Lines}, {x}}}
=============================================================================
