----------------------------- MODULE LexerTexts -----------------------------
(***************************************************************************)
(* The texts the lexers are run on: all short ones, and all sequences of   *)
(* a few pieces out of which lines, brackets, strings and comments arise.  *)
(***************************************************************************)
EXTENDS Cursor

TextOf(language, cs) ==
  [lang |-> language, chars |-> cs, dialect |-> "ngspice", julia |-> FALSE,
   implicit_title |-> FALSE]

Upto(n, S) == UNION {[1..k -> S] : k \in 0..n}

(* Two, three and four pieces.                                             *)
Twos(P) == {a \o b : a, b \in P}
Threes(P) == {a \o b : a \in Twos(P), b \in P}
Fours(P) == {a \o b : a, b \in Twos(P)}

SpicePieces ==
  {<<"NL">>, <<"SP">>, <<"+", "SP">>, <<"*", "SP">>, <<".", "I", "N", "C", "SP">>,
   <<".", "P", "A", "R", "A", "M", "SP">>, <<"X", "=", "lbrace">>, <<"X", "SP", "(">>, <<"=", "(">>,
   <<")">>, <<"rbrace">>, <<"'">>, <<"QUOTE">>, <<"BACKSLASH">>, <<"$", "(">>, <<"CR">>,
   <<".", "I", "F">>}

(* What lines and modes are made of.                                       *)
LinePieces ==
  {<<"NL">>, <<"SP">>, <<"+", "SP">>, <<"*", "SP">>, <<".", "I", "N", "C", "SP">>,
   <<"X", "=", "lbrace">>, <<"X", "SP", "(">>, <<"=", "(">>, <<")">>, <<"rbrace">>, <<"'">>}

SpectrePieces ==
  {<<"NL">>, <<"SP">>, <<"+", "SP">>, <<"*">>, <<"QUOTE">>, <<"BACKSLASH">>, <<"CR">>, <<"X">>, <<"(">>,
   <<"/", "/", "sealing">>, <<"/", "/", "unsealing">>, <<"0", "'", "D", "A">>}

(* Lines that open an encrypted block, close it, do both, or neither.       *)
BlockPieces ==
  {<<"/", "/", "sealing", "NL">>, <<"/", "/", "unsealing", "NL">>,
   <<"/", "/", "sealing", "unsealing", "NL">>, <<"*", "sealing", "NL">>,
   <<"/", "/", "X", "NL">>, <<"unsealing", "CR">>}

(* The first line is a title, or dialects and options differ.              *)
Variants ==
  {[TextOf("spice", cs) EXCEPT !.implicit_title = TRUE] : cs \in Twos(SpicePieces)}
    \cup {[TextOf("spice", cs) EXCEPT !.dialect = d, !.julia = TRUE] :
            cs \in Twos(SpicePieces), d \in {"ngspice", "pspice"}}
    \cup {[TextOf("spice", w) EXCEPT !.dialect = d] :
            w \in {<<"S", "I", "M", "U", "L", "A", "T", "O", "R">> \o t :
                     t \in {<< >>, <<"SP", "I", "N">>, <<"X", "SP", "I">>}}
                  \cup {<<"X", "A", "SP">> \o t :
                     t \in {<<"I", "N", "C">>, <<"I", "N", "T">>, <<"I">>, <<"P", "A", "R">>,
                            <<"P", "A", "R", "A", "M", "E">>, <<"I", "N", "X">>}},
            d \in {"ngspice", "hspice", "pspice", "xyce"}}
=============================================================================
