---------------------------- MODULE MCExprParser ----------------------------
(* Expressions of at most MaxOperators operators with the precedences in   *)
(* Levels, with and without an operand that does not parse.                *)
EXTENDS ExprParser

CONSTANTS MaxOperators, Levels

Operators == UNION {[1..n -> Levels] : n \in 0..MaxOperators}

MCTexts ==
  {t \in [ops : Operators, bad : 0..(MaxOperators + 1)] : t.bad <= Len(t.ops) + 1}
=============================================================================
