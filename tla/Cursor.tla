------------------------------- MODULE Cursor -------------------------------
(***************************************************************************)
(* What both lexers are built on: a text, a cursor in it, and the tokens   *)
(* emitted.  A symbol stands for one character or, as "sealing" does, for  *)
(* a whole phrase only a comment holds; letters stand for both cases, and  *)
(* "SP" for every blank but the carriage return CR; NL is the newline.      *)
(***************************************************************************)
EXTENDS Integers, Sequences, SequencesExt

CONSTANT Texts    \* the texts considered, a sequence of sets

(* Some characters have names; "umlaut" stands for the letters that are    *)
(* not ASCII, "weird" for what no class holds, "sealing" and "unsealing"   *)
(* for the phrases of the pragma comments that open and close an encrypted *)
(* block.                                                                  *)
Latin ==
  {"A", "B", "C", "D", "E", "F", "G", "H", "I", "J", "K", "L", "M",
   "N", "O", "P", "Q", "R", "S", "T", "U", "V", "W", "X", "Y", "Z"}
Letters == Latin \cup {"umlaut", "sealing", "unsealing"}
Digits == {"0", "1"}
Hex == Digits \cup {"A", "B", "C", "D", "E", "F"}
BaseChars == {"D", "H", "O", "B"}
Blanks == {"SP", "CR"}

Chars ==
  Letters \cup Digits \cup Blanks \cup
  {"NL", "~", "!", "@", "#", "%", "^", "&", "underscore", "<", ">", "?", "/", "|",
   "$", "*", "-", "+", "lbrace", "rbrace", "[", "]", "(", ")", "BACKSLASH",
   "semicolon", ":", "comma", ".", "=", "'", "QUOTE", "TICK", "weird"}

IsText(t) ==
  /\ t.lang \in {"spice", "spectre"}
  /\ t.chars \in Seq(Chars)

ASSUME TextsAssumption == \A k \in DOMAIN Texts : \A t \in Texts[k] : IsText(t)

VARIABLES
  text,
  i,          \* the next character
  toks,       \* the tokens emitted
  last_nontriv_token,
  lexed_nontriv_token_line,
  lexing_expression_stack,
  protected

vars ==
  <<text, i, toks, last_nontriv_token, lexed_nontriv_token_line,
    lexing_expression_stack, protected>>

spice_vars == <<last_nontriv_token, lexed_nontriv_token_line, lexing_expression_stack>>

End == Len(text.chars) + 1

Char(p) == IF p < End THEN text.chars[p] ELSE "EOF"

(* accept_batch: behind the characters of S from p on.                     *)
Past(p, S) ==
  CHOOSE q \in p..End : Char(q) \notin S /\ \A r \in p..(q - 1) : Char(r) \in S

(* The characters from p on are those of s.                                *)
Reads(p, s) == \A k \in DOMAIN s : Char(p + k - 1) = s[k]

(* The longest spelling in S of a token that begins at the cursor.         *)
Longest(S) ==
  CHOOSE s \in S : Reads(i, s) /\ \A t \in S : Reads(i, t) => Len(t) <= Len(s)

(* A table pairs spellings with the kinds they stand for.                  *)
Spellings(table) == {e[1] : e \in table}
KindOf(table, s) == (CHOOSE e \in table : e[1] = s)[2]

(* Mutant: a comment ends at a lone "\r", too.                             *)
BehindLineOrReturn(p) == Past(p, Chars \ {"NL", "CR"})

BehindLine(p) == Past(p, Chars \ {"NL"})

(* read_string: behind the quote that closes a string, 0 if none does.     *)
StringEnd(p, quotes) ==
  LET end[q \in p..(End + 1)] ==
        IF Char(q) = "EOF" THEN 0
        ELSE IF Char(q) = "BACKSLASH" THEN IF Char(q + 1) = "EOF" THEN 0 ELSE end[q + 2]
        ELSE IF Char(q) \in quotes THEN q + 1
        ELSE end[q + 1]
  IN end[p]

(* lex_number, its first character read: digits, a fraction, a base or an  *)
(* exponent, and the scale factor or whatever else the set more lets in.   *)
NumberEnd(p, logic, more) ==
  LET whole == Past(p, Digits)
      frac == IF Char(whole) = "." THEN Past(whole + 1, Digits) ELSE whole
      sign == IF Char(frac + 1) \in {"+", "-"} THEN frac + 2 ELSE frac + 1
  IN Past(IF Char(frac) = "'" /\ Char(frac + 1) \in BaseChars THEN Past(frac + 2, Hex)
          ELSE IF Char(frac) = "'" /\ Char(frac + 1) \in logic THEN frac + 2
          ELSE IF Char(frac) = "E" THEN Past(sign, Digits)
          ELSE frac,
          more)

last_token == IF toks = << >> THEN "ERROR" ELSE Last(toks).kind

Triv == {"COMMENT", "WHITESPACE", "NEWLINE"}

(* emit: a token from the end of the last one to the cursor.               *)
Emitted(kind, to) ==
  /\ toks' = Append(toks, [kind |-> kind, from |-> i, to |-> to])
  /\ i' = to
  /\ UNCHANGED text

Done == last_token = "ENDMARKER"
=============================================================================
