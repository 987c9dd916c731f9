---------------------------- MODULE MCStatements ----------------------------
(* Every statement of both languages, whole, without its last newline, cut *)
(* short and spoilt; blocks of at most MaxLines lines after the first; and *)
(* the first line of a block alone, without its newline.  And a file of    *)
(* two malformed lines, each followed by a good one.                       *)
EXTENDS Statements, StatementTexts

CONSTANT MaxLines

MCTexts ==
  AloneAndBroken("spice", SpiceStatements, SpiceProbe)
    \cup AloneAndBroken("spectre", SpectreStatements, SpectreProbe)
    \cup Nested("spice", SpiceOpeners, SpiceOthers, MaxLines)
    \cup Nested("spectre", SpectreOpeners, SpectreOthers, MaxLines)
    \cup {TextOf("spice", <<Unended(o)>>, FALSE) : o \in SpiceOpeners}
    \cup {TextOf("spectre", <<Unended(o)>>, FALSE) : o \in SpectreOpeners}

(* An .ic cut short and a .data without columns.                           *)
MalformedLines ==
  {TextOf("spice",
     <<Dot("", <<"IC", I, "LPAREN", I, "COLON">>), SpiceProbe,
       Dot("", <<"DATA", I, N, N>>), SpiceProbe>>, FALSE)}
=============================================================================
