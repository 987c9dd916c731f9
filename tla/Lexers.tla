------------------------------- MODULE Lexers -------------------------------
(***************************************************************************)
(* Both lexers on a text, and what the parsers and their users rely on.    *)
(***************************************************************************)
EXTENDS Cursor, FiniteSets

Spice == INSTANCE SpiceLexer
Spectre == INSTANCE SpectreLexer

Init ==
  /\ \E k \in DOMAIN Texts : text \in Texts[k]
  /\ IF text.lang = "spice" THEN Spice!Init ELSE Spectre!Init

(* next_token of the one lexer and of the other.                           *)
SpiceToken ==
  \/ Spice!lex_title_line \/ Spice!EndMarker \/ Spice!lex_newline \/ Spice!lex_whitespace
  \/ Spice!lex_path \/ Spice!lex_instance \/ Spice!lex_slash \/ Spice!lex_semicolon
  \/ Spice!lex_dollar \/ Spice!lex_star \/ Spice!lex_backslash \/ Spice!lex_open
  \/ Spice!lex_rsquare \/ Spice!lex_rbrace \/ Spice!lex_rparen \/ Spice!lex_comma
  \/ Spice!lex_equal \/ Spice!lex_prime \/ Spice!lex_number \/ Spice!lex_dot
  \/ Spice!lex_identifier \/ Spice!lex_operator

SpectreToken ==
  \/ Spectre!EndMarker \/ Spectre!lex_newline \/ Spectre!lex_whitespace
  \/ Spectre!lex_quote \/ Spectre!lex_slash \/ Spectre!lex_protected_line
  \/ Spectre!lex_star \/ Spectre!lex_backslash \/ Spectre!lex_identifier
  \/ Spectre!lex_number \/ Spectre!lex_dot \/ Spectre!lex_operator

Next == SpiceToken \/ SpectreToken

Spec == Init /\ [][Next]_vars /\ WF_vars(Next)

-----------------------------------------------------------------------------
(* Properties                                                              *)

(* What the SPICE lexer keeps on its stack.                                *)
Delimiters ==
  {"LSQUARE", "LBRACE", "LPAREN", "JULIA_ESCAPE_BEGIN", "EQ", "PRIME", "PARAMETERS", "IC", "IF"}

(* The tokens tile the text up to the cursor, and only the ENDMARKER, at   *)
(* the end, and the line of a title are ever empty: the lexers get on.     *)
TypeOK ==
  /\ IsText(text)
  /\ i \in 1..End
  /\ \A k \in DOMAIN toks :
       /\ toks[k].from = IF k = 1 THEN 1 ELSE toks[k - 1].to
       /\ \/ toks[k].from < toks[k].to
          \/ toks[k].kind = "ENDMARKER" /\ toks[k].from = End /\ k = Len(toks)
          \/ toks[k].kind = "TITLE_LINE"
  /\ i = IF toks = << >> THEN 1 ELSE Last(toks).to
  /\ protected \in BOOLEAN /\ lexed_nontriv_token_line \in BOOLEAN
  /\ lexing_expression_stack \in Seq(Delimiters)

(* What the token layer assumes of a stream, both lexers guarantee of      *)
(* every text.  Whether an encrypted block is open behind each token, as   *)
(* the tokens tell it: the line comment that says so opens one, and the    *)
(* first line of it that says so closes it.  A line of a block is sealed.  *)
Mentions(k, phrase) == \E p \in toks[k].from..(toks[k].to - 1) : Char(p) = phrase

BlockOpen ==
  LET open[k \in 0..Len(toks)] ==
        IF k = 0 THEN FALSE
        ELSE IF open[k - 1] THEN ~Mentions(k, "unsealing")
        ELSE toks[k].kind = "COMMENT" /\ Char(toks[k].from) = "/" /\ Mentions(k, "sealing")
  IN open

IsSealed(k) ==
  text.lang = "spectre" /\ toks[k].kind = "COMMENT" /\ BlockOpen[k - 1]

Abstract(k) ==
  CASE toks[k].kind = "WHITESPACE" -> "ws"
    [] toks[k].kind = "ESCD_NEWLINE" -> "escd"
    [] toks[k].kind = "COMMENT" -> IF IsSealed(k) THEN "sealed" ELSE "comment"
    [] toks[k].kind = "NEWLINE" -> "nl"
    [] toks[k].kind = "PLUS" -> "plus"
    [] toks[k].kind = "ENDMARKER" -> "end"
    [] OTHER -> "word"

Parsers == INSTANCE Tokens WITH Streams <- {}

ParsersAssumption == Done => Parsers!Lexed([k \in DOMAIN toks |-> Abstract(k)])

(* A newline is a token of its own, or escaped, or in a string that is     *)
(* still open, or ends the line of an encrypted block: a statement cannot  *)
(* lose its end in any other way.  The identifier behind a backslash,      *)
(* which only a blank ends, is the exception.                              *)
Escaped(t) == t.kind = "IDENTIFIER" /\ Char(t.from) = "BACKSLASH"

NewlinesAreTokens ==
  \A k \in DOMAIN toks :
    (\E p \in toks[k].from..(toks[k].to - 1) : Char(p) = "NL") =>
      \/ toks[k].kind \in {"NEWLINE", "ESCD_NEWLINE", "STRING", "EOF_STRING"}
      \/ IsSealed(k)
      \/ Escaped(toks[k])

(* A closing parenthesis is a token only if it closes one that was opened  *)
(* in the same line or the lines it continues: what a malformed line left  *)
(* open decides nothing in the next one.                                   *)
BeginsLine(k) ==
  /\ toks[k].kind \notin Triv \cup {"PLUS"}
  /\ \A j \in 1..(k - 1) :
       toks[j].kind \notin Triv => \E n \in (j + 1)..(k - 1) : toks[n].kind = "NEWLINE"

Count(kinds, from, to) == Cardinality({k \in from..to : toks[k].kind \in kinds})

ParensMatchInLine ==
  text.lang = "spice" =>
    \A k \in DOMAIN toks : toks[k].kind = "RPAREN" =>
      \E s \in 1..k :
        /\ s = 1 \/ BeginsLine(s)
        /\ \A r \in (s + 1)..k : ~BeginsLine(r)
        /\ Count({"RPAREN"}, s, k) <= Count({"LPAREN", "JULIA_ESCAPE_BEGIN"}, s, k)

(* A line that begins with a star, in SPICE behind any blanks, is a        *)
(* comment; not where a token from the line before it goes on, a newline   *)
(* was escaped, the title stands or a command has not had its path.  In    *)
(* Spectre the first line is none, and neither is the one behind an        *)
(* encrypted block.                                                        *)
StarLine(p) ==
  /\ Char(p) = "*"
  /\ \E b \in 1..p :
       /\ \A q \in b..(p - 1) : text.lang = "spice" /\ Char(q) = "SP"
       /\ IF b = 1 THEN text.lang = "spice" ELSE Char(b - 1) = "NL"

Nontrivial(k) == toks[k].kind \notin Triv

Owes(k) ==
  \E j \in 1..(k - 1) :
    /\ toks[j].kind \in {"INCLUDE", "LIB", "HDL"}
    /\ \A l \in (j + 1)..(k - 1) : ~Nontrivial(l)

CommentLines ==
  \A k \in DOMAIN toks :
    StarLine(toks[k].from) =>
      \/ toks[k].kind \in {"COMMENT", "TITLE_LINE"}
      \/ text.lang = "spice" /\ Owes(k)
      \/ \E j \in 1..(k - 1) :
           /\ \/ Escaped(toks[j])
              \/ toks[j].kind \in {"ESCD_NEWLINE", "STRING"}
              \/ IsSealed(j)
           /\ \A l \in (j + 1)..(k - 1) : toks[l].kind = "WHITESPACE"

(* What the comment of next_token says: only the first token of a line     *)
(* that is neither trivia nor a "+" clears the stack.                      *)
StackOutlivesComments ==
  [][toks' # toks /\ Last(toks').kind = "COMMENT"
       => lexing_expression_stack' = lexing_expression_stack]_vars
=============================================================================
