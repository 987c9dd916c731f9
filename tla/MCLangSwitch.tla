---------------------------- MODULE MCLangSwitch ----------------------------
(* Files of at most MaxLines lines of the kinds in Kinds; those of at most *)
(* StringLines lines also with a string that runs from the middle of a     *)
(* line to the middle of a later one, or to the end of the file.  And one  *)
(* file that switches to SPICE and back, with a string that begins in the  *)
(* line of the switch back and ends with the line behind it.               *)
EXTENDS LangSwitch

CONSTANTS MaxLines, Kinds, Starts, StringLines

StringsOf(n) ==
  {{}} \cup
  (IF n <= StringLines
   THEN {{<<2 * a - 1, e>>} : a \in 1..n, e \in {2 * b - 1 : b \in 1..n} \cup {2 * n}}
   ELSE {})

Forward(n, S) == \A s \in S : s[1] + 1 < s[2]

TextsOf(n) ==
  {[start |-> l, lines |-> k, strings |-> S] :
     l \in Starts, k \in [1..n -> Kinds], S \in {T \in StringsOf(n) : Forward(n, T)}}

MCTexts == UNION {TextsOf(n) : n \in 0..MaxLines}

BackAgain ==
  {[start |-> "spectre",
    lines |-> <<"toSpice", "toSpectre", "plain", "plain", "plain">>,
    strings |-> {<<3, 6>>}]}
=============================================================================
