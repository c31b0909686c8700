------------------------- MODULE MCExpressionValues -------------------------
(***************************************************************************)
(* Integers of 9 bits and doubles of 5 significant bits: 2^5 stands for     *)
(* 2^53, 2^8 for 2^63, 200 for 1e17. The operands straddle each of them.    *)
(***************************************************************************)
EXTENDS ExpressionValues

(* "", "-1", "2.5", "NaN", "x" *)
SmallTexts == <<Error, Double(-One), Double(5 * (One \div 2)), NaN, Error>>

SmallOperands ==
  {Integer(n) : n \in {-256, -33, -7, -1, 0, 1, 2, 3, 7, 31, 32, 33, 64, 129, 254, 255}}
    \cup {Double(t) : t \in {-2048, -60, -8, 0, 1, 8, 9, 12, 20, 56, 256, 272, 1024, 2048, 4096}}
    \cup {Inf(1), Inf(-1), NaN, Null, Raw, Bool(TRUE), Bool(FALSE)}
    \cup {Str(i) : i \in 1..Len(SmallTexts)}
=============================================================================
