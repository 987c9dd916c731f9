---------------------------- MODULE MCTokenLayer ----------------------------
(* Files of at most MaxLines lines: blank, comment, one word, two words    *)
(* joined by an escaped newline, a continuation, and a line without a      *)
(* newline, which ends a file or runs into the line after it.              *)
EXTENDS TokenLayer

CONSTANT MaxLines

FileLines ==
  { <<"nl">>, <<"comment", "nl">>, <<"word", "nl">>, <<"word">>,
    <<"word", "escd", "word", "nl">>, <<"ws", "plus", "word", "nl">> }

RECURSIVE Files(_)
Files(n) ==
  IF n = 0 THEN {<< >>}
  ELSE Files(n - 1) \cup {f \o l : f \in Files(n - 1), l \in FileLines}

MCStreams == {Append(f, "end") : f \in Files(MaxLines)}
=============================================================================
