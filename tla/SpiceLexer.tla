----------------------------- MODULE SpiceLexer -----------------------------
(***************************************************************************)
(* The SPICE lexer.  How far a token reaches and which characters separate *)
(* tokens depends on a stack of open delimiters; one action per lex_       *)
(* function.                                                               *)
(***************************************************************************)
EXTENDS Cursor

InstanceStart ==
  Letters \cup Digits \cup
  {"~", "!", "@", "#", "%", "^", "&", "underscore", "<", ">", "?", "/", "|"}
InstanceChars ==
  InstanceStart \cup
  {"$", "*", "-", "+", "lbrace", "rbrace", "[", "]", "BACKSLASH", "semicolon", ":"}
IdentifierStart == Letters \cup {"underscore"}
IdentifierChars == Letters \cup Digits \cup {"underscore", "$", "#"}
Separators == Blanks \cup {"comma", "(", ")"}
LogicChars == {"0", "1", "X", "Z"}

(* The reserved words whose prefixes the texts use: all that begin with I  *)
(* or P A, and some more.                                                  *)
Keywords ==
  {<< <<"I", "C">>, "IC">>, << <<"I", "F">>, "IF">>,
   << <<"I", "N", "C", "L", "U", "D", "E">>, "INCLUDE">>,
   << <<"I", "N", "T", "E", "G">>, "INTEG">>,
   << <<"P", "A", "R", "A", "M">>, "PARAMETERS">>,
   << <<"P", "A", "R", "A", "M", "S">>, "PARAMETERS">>,
   << <<"P", "A", "R", "A", "M", "E", "T", "E", "R", "S">>, "PARAMETERS">>,
   << <<"T", "I", "T", "L", "E">>, "TITLE">>, << <<"L", "I", "B">>, "LIB">>,
   << <<"H", "D", "L">>, "HDL">>}

(* A prefix stands for the one keyword all its completions run through.    *)
Lookup(word) ==
  LET all == {w \in Spellings(Keywords) : IsPrefix(word, w)}
      common == {w \in all : \A v \in all : IsPrefix(w, v)}
  IN IF common = {} THEN "IDENTIFIER" ELSE KindOf(Keywords, CHOOSE w \in common : TRUE)

Words == {e[2] : e \in Keywords}
IdentKinds == {"IDENTIFIER", "INSTANCE", "SIMULATOR"} \cup Words

-----------------------------------------------------------------------------
c == Char(i)

(* Mutant: the stack lives on in the next line.                            *)
StackUncleared == lexing_expression_stack

(* The first character of a line clears the stack, unless it is a blank or *)
(* a "+".                                                                  *)
Stack ==
  IF ~lexed_nontriv_token_line /\ c \notin Blanks \cup {"+"} THEN << >>
  ELSE lexing_expression_stack

TopIs(s, k) == s # << >> /\ Last(s) = k

Popped(s, k) == IF TopIs(s, k) THEN Front(s) ELSE s

Emit(kind, to, stack) ==
  /\ Emitted(kind, to)
  /\ last_nontriv_token' = IF kind \in Triv THEN last_nontriv_token ELSE kind
  /\ lexed_nontriv_token_line' =
       (kind # "NEWLINE" /\ (lexed_nontriv_token_line \/ kind \notin Triv))
  /\ lexing_expression_stack' = stack
  /\ UNCHANGED protected

Running == text.lang = "spice" /\ ~Done

TitleLine == last_nontriv_token = "TITLE"

Reading == Running /\ ~TitleLine

lex_title_line ==
  /\ Running /\ TitleLine
  /\ Emit("TITLE_LINE", Past(i, Chars \ {"NL", "CR"}), lexing_expression_stack)

EndMarker == Reading /\ c = "EOF" /\ Emit("ENDMARKER", i, Stack)

lex_newline ==
  /\ Reading /\ c \in {"NL", "CR"}
  /\ \/ c = "NL" /\ Emit("NEWLINE", i + 1, Popped(Stack, "EQ"))
     \/ Reads(i, <<"CR", "NL">>) /\ Emit("NEWLINE", i + 2, Popped(Stack, "EQ"))
     \/ c = "CR" /\ Char(i + 1) # "NL" /\ Emit("WHITESPACE", i + 1, Popped(Stack, "EQ"))

(* Without an open delimiter, parentheses and commas are whitespace.       *)
Whitespace(s) ==
  IF s = << >> THEN Emit("WHITESPACE", Past(i + 1, Separators), s)
  ELSE Emit("WHITESPACE", Past(i + 1, Blanks),
            IF last_nontriv_token # "EQ" THEN Popped(s, "EQ") ELSE s)

Separates == c \in (IF Stack = << >> THEN Separators ELSE Blanks) \cup {"NL", "CR", "EOF"}

lex_whitespace ==
  /\ Reading /\ Separates /\ c \notin {"NL", "CR", "EOF"}
  /\ Whitespace(Stack)

PathMode == last_nontriv_token \in {"INCLUDE", "LIB", "HDL"} /\ Stack = << >>

Quote ==
  LET to == StringEnd(i + 1, {"QUOTE", "'"})
  IN IF to = 0 THEN Emit("EOF_STRING", End, Stack) ELSE Emit("STRING", to, Stack)

lex_path ==
  /\ Reading /\ ~Separates /\ PathMode
  /\ IF c \in {"QUOTE", "'"} THEN Quote
     ELSE Emit("IDENTIFIER", Past(i + 1, Chars \ ({"NL"} \cup Blanks)), Stack)

Unread == Reading /\ ~Separates /\ ~PathMode

(* Only two dialects know the letter of a simulator line.                  *)
lex_instance ==
  /\ Unread /\ ~lexed_nontriv_token_line /\ c \in Latin
  /\ LET to == Past(i + 1, InstanceChars)
         simulator == <<"S", "I", "M", "U", "L", "A", "T", "O", "R">>
     IN IF Char(i + 1) \notin InstanceStart THEN Emit("ERROR", i + 1, Stack)
        ELSE IF /\ SubSeq(text.chars, i, to - 1) = simulator
                /\ text.dialect \in {"hspice", "ngspice"}
             THEN Emit("SIMULATOR", to, Stack)
             ELSE Emit("INSTANCE", to, Stack)

(* Everything that is not the first word of a line.                        *)
Sees(S) == Unread /\ c \in S /\ (lexed_nontriv_token_line \/ c \notin Latin)

(* Mutant: the comment takes its newline along.                            *)
CommentWithNewline == Emit("COMMENT", BehindLine(i) + 1, Stack)

Comment == Emit("COMMENT", BehindLine(i), Stack)

lex_slash ==
  /\ Sees({"/"})
  /\ IF Char(i + 1) = "/" THEN Comment ELSE Emit("SLASH", i + 1, Stack)

lex_semicolon == Sees({"semicolon"}) /\ Comment

lex_dollar ==
  /\ Sees({"$"})
  /\ IF text.julia /\ Char(i + 1) = "("
     THEN Emit("JULIA_ESCAPE_BEGIN", i + 2, Append(Stack, "JULIA_ESCAPE_BEGIN"))
     ELSE Comment

(* Mutant: a star is a comment only at the very beginning of a line.       *)
StarComment ==
  /\ Sees({"*"})
  /\ IF last_token \in {"ERROR", "NEWLINE"} THEN Comment
     ELSE IF Char(i + 1) = "*" THEN Emit("STAR_STAR", i + 2, Stack)
     ELSE Emit("STAR", i + 1, Stack)

lex_star ==
  /\ Sees({"*"})
  /\ IF ~lexed_nontriv_token_line THEN Comment
     ELSE IF Char(i + 1) = "*" THEN Emit("STAR_STAR", i + 2, Stack)
     ELSE Emit("STAR", i + 1, Stack)

(* A backslash, and perhaps blanks, before a newline; else the identifier  *)
(* it escapes, which a newline does not end.  A lone "\r" is read with the *)
(* backslash.                                                              *)
lex_backslash ==
  /\ Sees({"BACKSLASH"})
  /\ LET p == IF Char(i + 1) = "CR" /\ Char(i + 2) # "NL" THEN i + 2 ELSE i + 1
         b == Past(p, {"SP"})
         name == Chars \ (IF Stack = << >> THEN Separators ELSE Blanks)
     IN IF Char(b) = "NL" THEN Emit("ESCD_NEWLINE", b + 1, Stack)
        ELSE IF Reads(b, <<"CR", "NL">>) THEN Emit("ESCD_NEWLINE", b + 2, Stack)
        ELSE Emit("IDENTIFIER", Past(p, name), Stack)

-----------------------------------------------------------------------------
(* Delimiters and the stack.                                               *)

Openers == {<<"[", "LSQUARE">>, <<"lbrace", "LBRACE">>, <<"(", "LPAREN">>}

lex_open ==
  /\ Sees(Spellings(Openers))
  /\ LET kind == KindOf(Openers, c) IN Emit(kind, i + 1, Append(Stack, kind))

lex_rsquare == Sees({"]"}) /\ Emit("RSQUARE", i + 1, Popped(Stack, "LSQUARE"))

lex_rbrace == Sees({"rbrace"}) /\ Emit("RBRACE", i + 1, Popped(Popped(Stack, "LBRACE"), "EQ"))

lex_rparen ==
  /\ Sees({")"})
  /\ IF TopIs(Stack, "LPAREN") \/ TopIs(Stack, "JULIA_ESCAPE_BEGIN")
     THEN Emit("RPAREN", i + 1, Front(Stack))
     ELSE Whitespace(Stack)

lex_comma ==
  /\ Sees({"comma"})
  /\ IF TopIs(Stack, "EQ") THEN Whitespace(Front(Stack)) ELSE Emit("COMMA", i + 1, Stack)

lex_equal ==
  /\ Sees({"="})
  /\ IF Char(i + 1) # "="
     THEN Emit("EQ", i + 1, IF Stack = << >> THEN <<"EQ">> ELSE Stack)
     ELSE IF Char(i + 2) = "=" THEN Emit("EQEQEQ", i + 3, Stack)
     ELSE Emit("EQEQ", i + 2, Stack)

Number == Emit("NUMBER",
               NumberEnd(i + 1, LogicChars,
                         IF Stack = << >> THEN InstanceChars ELSE IdentifierChars),
               Stack)

lex_prime ==
  /\ Sees({"'", "QUOTE"})
  /\ IF c = "'" /\ text.dialect = "pspice" THEN Number
     ELSE IF last_nontriv_token \in {"LIB", "INCLUDE"} THEN Quote
     ELSE Emit("PRIME", i + 1,
               IF TopIs(Stack, "PRIME") THEN Popped(Front(Stack), "EQ")
               ELSE Append(Stack, "PRIME"))

-----------------------------------------------------------------------------
(* Words, numbers and operators.                                           *)

lex_number == Sees(Digits) /\ Number

lex_dot ==
  /\ Sees({"."})
  /\ IF last_token \notin IdentKinds /\ Char(i + 1) \in Digits THEN Number
     ELSE Emit("DOT", i + 1, Stack)

(* Some commands begin an expression that lasts to the end of the line.    *)
lex_identifier ==
  /\ Sees(IdentifierStart)
  /\ LET to == Past(i + 1, IF Stack = << >> THEN InstanceChars ELSE IdentifierChars)
         kind == Lookup(SubSeq(text.chars, i, to - 1))
     IN Emit(kind, to,
             IF last_nontriv_token = "DOT" /\ kind \in {"PARAMETERS", "IC", "IF"}
             THEN Append(Stack, kind) ELSE Stack)

Comparisons ==
  {<< <<">">>, "GREATER">>, << <<">", ">">>, "RBITSHIFT">>,
   << <<">", ">", ">">>, "RRBITSHIFT_A">>, << <<">", "=">>, "GREATER_EQ">>,
   << <<"<">>, "LESS">>, << <<"<", "<">>, "LBITSHIFT">>,
   << <<"<", "<", "<">>, "LBITSHIFT_A">>, << <<"<", "=">>, "LESS_EQ">>,
   << <<"<", "+">>, "CASSIGN">>}

Negations ==
  {<< <<"!">>, "NOT">>, << <<"!", "=">>, "NOT_EQ">>,
   << <<"!", "=", "=">>, "NOT_IS">>}

Xors ==
  {<< <<"^">>, "XOR">>, << <<"^", "~">>, "XOR_TILDE">>, << <<"~">>, "TILDE">>,
   << <<"~", "^">>, "TILDE_XOR">>, << <<"~", "&">>, "TILDE_AND">>,
   << <<"~", "|">>, "TILD_OR">>}

Ands ==
  {<< <<"&">>, "AND">>, << <<"&", "&">>, "LAZY_AND">>, << <<"|">>, "OR">>,
   << <<"|", "|">>, "LAZY_OR">>}

Singles ==
  {<< <<"TICK">>, "BACKTICK">>, << <<"@">>, "AT_SIGN">>,
   << <<"?">>, "CONDITIONAL">>, << <<":">>, "COLON">>, << <<"%">>, "PERCENT">>,
   << <<"+">>, "PLUS">>, << <<"-">>, "MINUS">>, << <<"#">>, "UNKNOWN">>,
   << <<"weird">>, "UNKNOWN">>}

Operators == Comparisons \cup Negations \cup Xors \cup Ands \cup Singles

lex_operator ==
  /\ Sees({Head(s) : s \in Spellings(Operators)})
  /\ LET s == Longest(Spellings(Operators)) IN Emit(KindOf(Operators, s), i + Len(s), Stack)

Init ==
  /\ i = 1
  /\ toks = << >>
  /\ last_nontriv_token = IF text.implicit_title THEN "TITLE" ELSE "ERROR"
  /\ lexed_nontriv_token_line = FALSE
  /\ lexing_expression_stack = << >>
  /\ protected = FALSE
=============================================================================
