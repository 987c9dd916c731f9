------------------------------- MODULE Tokens -------------------------------
(***************************************************************************)
(* The raw token streams both lexers hand to their parsers, abstracted to  *)
(* what the token layer tells apart.  A stream ends with the one ENDMARKER *)
(* and carries trivia (whitespace, comments, escaped newlines).            *)
(*                                                                         *)
(* "sealed" is the COMMENT the Spectre lexer emits for a line of an        *)
(* encrypted block: unlike every other comment it includes its own line    *)
(* terminator, so no NEWLINE token follows it.                             *)
(***************************************************************************)
EXTENDS Integers, Sequences

CONSTANT Streams    \* the token streams considered

Comment == {"comment", "sealed"}

Trivia == {"ws", "escd"} \cup Comment

Kind == Trivia \cup {"nl", "plus", "word", "end"}

(* What both lexers guarantee of a stream: the ENDMARKER is the last token *)
(* and only that; a comment runs to the end of its line; a line is sealed  *)
(* only after the comment that opened the block or another sealed line,    *)
(* and the first sealed token, the newline left by the opening comment,    *)
(* cannot hold the marker that closes the block.                           *)
Lexed(r) ==
  /\ r \in Seq(Kind)
  /\ r # << >>
  /\ \A i \in 1..Len(r) : r[i] = "end" <=> i = Len(r)
  /\ \A i \in 1..Len(r) :
       r[i] = "comment" => r[i + 1] \in {"nl", "sealed", "end"}
  /\ \A i \in 1..Len(r) :
       r[i] = "sealed" =>
         /\ i > 1
         /\ r[i - 1] \in Comment
         /\ r[i - 1] = "comment" => r[i + 1] \in {"sealed", "end"}

ASSUME StreamsAssumption == \A r \in Streams : Lexed(r)

-----------------------------------------------------------------------------
(* The reading of a stream as logical lines, from the token at origin o:   *)
(* what the parsers are meant to see.                                      *)

(* Something other than blank lines has been read before token i.          *)
Opened(r, o, i) == \E h \in o..(i - 1) : r[h] \notin Trivia \cup {"nl"}

(* The first token after i that is not whitespace has a kind in K.         *)
FollowedBy(r, i, K) ==
  \E j \in (i + 1)..Len(r) :
    /\ r[j] \in K
    /\ \A h \in (i + 1)..(j - 1) : r[h] = "ws"

(* Token i is a "+" that continues the line before it.                     *)
Continues(r, o, i) ==
  /\ r[i] = "plus"
  /\ \E h \in o..(i - 1) :
       /\ r[h] = "nl"
       /\ Opened(r, o, h)
       /\ \A g \in (h + 1)..(i - 1) : r[g] = "ws"

(* Token i ends a logical line: something was read before it, and what     *)
(* follows neither continues the line nor is itself blank or a comment.    *)
EndsLine(r, o, i) ==
  /\ r[i] = "nl"
  /\ Opened(r, o, i)
  /\ ~FollowedBy(r, i, {"plus", "nl"} \cup Comment)

Significant(r, o, i) ==
  /\ r[i] \notin Trivia
  /\ r[i] = "nl" => EndsLine(r, o, i)
  /\ ~Continues(r, o, i)

(* j is the first significant token at or after i.                         *)
IsNextSig(r, o, i, j) ==
  /\ j \in i..Len(r)
  /\ Significant(r, o, j)
  /\ \A h \in i..(j - 1) : ~Significant(r, o, h)

(* The token after i at which reading resumes: the ENDMARKER stays put.    *)
After(r, i) == IF i = Len(r) THEN i ELSE i + 1
=============================================================================
