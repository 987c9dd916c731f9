------------------------------ MODULE MCLexers ------------------------------
(* Every text of at most MaxChars characters, and all of three or, of the  *)
(* pieces that matter most, four pieces.                                   *)
EXTENDS Lexers, LexerTexts

CONSTANT MaxChars

MCTexts ==
  <<{TextOf(l, cs) : l \in {"spice", "spectre"}, cs \in Upto(MaxChars, Chars)},
    {TextOf("spice", cs) : cs \in Threes(SpicePieces)},
    {TextOf("spice", cs) : cs \in Fours(LinePieces)},
    {TextOf("spectre", cs) : cs \in Fours(SpectrePieces)},
    {TextOf("spectre", cs) : cs \in Fours(BlockPieces)},
    Variants>>
=============================================================================
