---------------------------- MODULE SpectreLexer ----------------------------
(***************************************************************************)
(* The Spectre lexer: no modes but one, inside an encrypted block, where   *)
(* every line is a comment.                                                *)
(***************************************************************************)
EXTENDS Cursor

IdentifierStart == Letters \cup {"underscore"}
IdentifierChars == Letters \cup Digits \cup {"underscore", "$", "!"}

(* A keyword is matched as a whole.                                        *)
Keywords ==
  {<< <<"I", "F">>, "IF">>, << <<"I", "N", "C", "L", "U", "D", "E">>, "INCLUDE">>}

Lookup(word) ==
  IF word \in Spellings(Keywords) THEN KindOf(Keywords, word) ELSE "IDENTIFIER"

-----------------------------------------------------------------------------
c == Char(i)

Emit(kind, to) == Emitted(kind, to) /\ UNCHANGED <<spice_vars, protected>>

Running == text.lang = "spectre" /\ ~Done

Sees(S) == Running /\ ~protected /\ c \in S

Holds(phrase, to) == \E p \in i..(to - 1) : Char(p) = phrase

EndMarker == Sees({"EOF"}) /\ Emit("ENDMARKER", i)

lex_newline ==
  /\ Sees({"NL", "CR"})
  /\ \/ c = "NL" /\ Emit("NEWLINE", i + 1)
     \/ Reads(i, <<"CR", "NL">>) /\ Emit("NEWLINE", i + 2)
     \/ c = "CR" /\ Char(i + 1) # "NL" /\ Emit("WHITESPACE", i + 1)

lex_whitespace == Sees({"SP"}) /\ Emit("WHITESPACE", Past(i + 1, Blanks))

lex_quote ==
  /\ Sees({"QUOTE"})
  /\ LET to == StringEnd(i + 1, {"QUOTE"})
     IN IF to = 0 THEN Emit("EOF_STRING", End) ELSE Emit("STRING", to)

(* A comment may open an encrypted block.                                  *)
lex_slash ==
  /\ Sees({"/"})
  /\ IF Char(i + 1) # "/" THEN Emit("SLASH", i + 1)
     ELSE /\ Emitted("COMMENT", BehindLine(i))
          /\ protected' = Holds("sealing", BehindLine(i))
          /\ UNCHANGED spice_vars

(* A line of the block, its newline included; the first of them is the     *)
(* newline of the comment that opened the block.                           *)
LineOfBlock ==
  LET q == Past(i, Chars \ {"NL", "CR"})
      r == IF Char(q) = "CR" THEN q + 1 ELSE q
  IN IF Char(r) = "NL" THEN r + 1 ELSE r

(* Mutant: the end of the text is a line like any other.                   *)
UnendingBlock ==
  /\ Running /\ protected
  /\ Emitted("COMMENT", LineOfBlock)
  /\ protected' = ~Holds("unsealing", LineOfBlock)
  /\ UNCHANGED spice_vars

lex_protected_line ==
  /\ Running /\ protected
  /\ IF c = "EOF" THEN Emitted("ENDMARKER", i) /\ protected' = FALSE
     ELSE /\ Emitted("COMMENT", LineOfBlock)
          /\ protected' = ~Holds("unsealing", LineOfBlock)
  /\ UNCHANGED spice_vars

(* The first line of a text is no line behind a newline, nor is the one    *)
(* behind an encrypted block.                                              *)
lex_star ==
  /\ Sees({"*"})
  /\ IF last_token = "NEWLINE" THEN Emit("COMMENT", BehindLine(i))
     ELSE IF Char(i + 1) = "*" THEN Emit("STAR_STAR", i + 2)
     ELSE Emit("STAR", i + 1)

(* An escaped newline; else the identifier the backslash escapes, which a  *)
(* newline does not end.  A lone "\r" is read with the backslash.          *)
lex_backslash ==
  /\ Sees({"BACKSLASH"})
  /\ IF Char(i + 1) = "NL" THEN Emit("ESCD_NEWLINE", i + 2)
     ELSE IF Reads(i + 1, <<"CR", "NL">>) THEN Emit("ESCD_NEWLINE", i + 3)
     ELSE Emit("IDENTIFIER",
               Past(IF Char(i + 1) = "CR" THEN i + 2 ELSE i + 1, Chars \ Blanks))

-----------------------------------------------------------------------------
lex_identifier ==
  /\ Sees(IdentifierStart \cup {"$"})
  /\ LET to == Past(i + 1, IdentifierChars)
     IN Emit(Lookup(SubSeq(text.chars, i, to - 1)), to)

Number == Emit("NUMBER", NumberEnd(i + 1, {}, IdentifierChars))

lex_number == Sees(Digits) /\ Number

lex_dot ==
  /\ Sees({"."})
  /\ IF Char(i + 1) \in Digits THEN Number ELSE Emit("DOT", i + 1)

Comparisons ==
  {<< <<">">>, "GREATER">>, << <<">", ">">>, "RBITSHIFT">>,
   << <<">", ">", ">">>, "RRBITSHIFT_A">>, << <<">", "=">>, "GREATER_EQ">>,
   << <<"<">>, "LESS">>, << <<"<", "<">>, "LBITSHIFT">>,
   << <<"<", "<", "<">>, "LBITSHIFT_A">>, << <<"<", "=">>, "LESS_EQ">>,
   << <<"<", "+">>, "CASSIGN">>}

Equals ==
  {<< <<"=">>, "EQ">>, << <<"=", "=">>, "EQEQ">>, << <<"=", "=", "=">>, "EQEQEQ">>,
   << <<"!">>, "NOT">>, << <<"!", "=">>, "NOT_EQ">>,
   << <<"!", "=", "=">>, "NOT_IS">>}

Xors ==
  {<< <<"^">>, "XOR">>, << <<"^", "~">>, "XOR_TILDE">>, << <<"~">>, "TILDE">>,
   << <<"~", "^">>, "TILDE_XOR">>, << <<"~", "&">>, "TILDE_AND">>,
   << <<"~", "|">>, "TILDE_OR">>}

Ands ==
  {<< <<"&">>, "AND">>, << <<"&", "&">>, "LAZY_AND">>, << <<"|">>, "OR">>,
   << <<"|", "|">>, "LAZY_OR">>}

Delimiters ==
  {<< <<"(">>, "LPAREN">>, << <<")">>, "RPAREN">>, << <<"[">>, "LSQUARE">>,
   << <<"]">>, "RSQUARE">>, << <<"lbrace">>, "LBRACE">>, << <<"rbrace">>, "RBRACE">>,
   << <<"semicolon">>, "SEMICOLON">>, << <<"comma">>, "COMMA">>}

Singles ==
  {<< <<"TICK">>, "BACKTICK">>, << <<"@">>, "AT_SIGN">>, << <<"?">>, "CONDITIONAL">>,
   << <<":">>, "COLON">>, << <<"'">>, "PRIME">>, << <<"%">>, "PERCENT">>,
   << <<"+">>, "PLUS">>, << <<"-">>, "MINUS">>, << <<"#">>, "UNKNOWN">>,
   << <<"weird">>, "UNKNOWN">>}

Operators == Comparisons \cup Equals \cup Xors \cup Ands \cup Delimiters \cup Singles

lex_operator ==
  /\ Sees({Head(s) : s \in Spellings(Operators)})
  /\ LET s == Longest(Spellings(Operators)) IN Emit(KindOf(Operators, s), i + Len(s))

Init ==
  /\ i = 1
  /\ toks = << >>
  /\ last_nontriv_token = "ERROR"
  /\ lexed_nontriv_token_line = FALSE
  /\ lexing_expression_stack = << >>
  /\ protected = FALSE
=============================================================================
