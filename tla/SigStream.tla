------------------------------ MODULE SigStream ------------------------------
(***************************************************************************)
(* get_next_action, the loop of both parsers that turns raw tokens into    *)
(* significant ones: it skips trivia, folds "+" continuations and decides  *)
(* which newlines end a line.  One action per raw token examined, so that  *)
(* the early exits and the recursive calls of the loop are steps.          *)
(***************************************************************************)
EXTENDS Tokens

VARIABLES
  raw,      \* Parser.raw, kinds only
  origin,   \* the index Parser.p was last set to from outside the loop
  p,        \* Parser.p: the next raw token
  started,  \* Parser.started
  idx,      \* the newline held back while what follows it is examined
  last,     \* the token delivered last; origin - 1 before the first
  pc        \* where the loop is: "idle" between calls

vars == <<raw, origin, p, started, idx, last, pc>>

TypeOK ==
  /\ Lexed(raw)
  /\ origin \in 1..Len(raw)
  /\ p \in origin..Len(raw)
  /\ started \in BOOLEAN
  /\ idx \in 0..Len(raw)
  /\ last \in 0..Len(raw)
  /\ pc \in {"idle", "skip", "newline"}

Init ==
  /\ raw \in Streams
  /\ origin = 1
  /\ p = 1
  /\ started = FALSE
  /\ idx = 0
  /\ last = 0
  /\ pc = "idle"

(* next_sig is called.                                                     *)
Ask ==
  /\ pc = "idle"
  /\ pc' = "skip"
  /\ UNCHANGED <<raw, origin, p, started, idx, last>>

(* Mutant: newlines are passed over after something was read, too.         *)
SkippableNewlines(k) == k \in Trivia \cup {"nl"}

(* What the first loop passes over: trivia, and newlines until something   *)
(* has been read.                                                          *)
Skippable(k) == k \in Trivia \/ (k = "nl" /\ ~started)

SkipTrivia ==
  /\ pc = "skip"
  /\ Skippable(raw[p])
  /\ p' = After(raw, p)
  /\ UNCHANGED <<raw, origin, started, idx, last, pc>>

(* Mutant: the ENDMARKER does not stay put.                                *)
DeliverPastEnd ==
  /\ pc = "skip"
  /\ ~Skippable(raw[p])
  /\ raw[p] # "nl"
  /\ started' = TRUE
  /\ last' = p
  /\ p' = p + 1
  /\ pc' = "idle"
  /\ UNCHANGED <<raw, origin, idx>>

(* A token that is neither trivia nor a newline is delivered at once.      *)
Deliver ==
  /\ pc = "skip"
  /\ ~Skippable(raw[p])
  /\ raw[p] # "nl"
  /\ started' = TRUE
  /\ last' = p
  /\ p' = After(raw, p)
  /\ pc' = "idle"
  /\ UNCHANGED <<raw, origin, idx>>

(* A newline is held back until the token after it is known.               *)
HoldNewline ==
  /\ pc = "skip"
  /\ ~Skippable(raw[p])
  /\ raw[p] = "nl"
  /\ started' = TRUE
  /\ idx' = p
  /\ p' = After(raw, p)
  /\ pc' = "newline"
  /\ UNCHANGED <<raw, origin, last>>

(* Mutant: the indentation is looked at and not read.                      *)
SkipIndentPeeks ==
  /\ pc = "newline"
  /\ raw[p] = "ws"
  /\ UNCHANGED vars

(* Indentation of the next line.                                           *)
SkipIndent ==
  /\ pc = "newline"
  /\ raw[p] = "ws"
  /\ p' = After(raw, p)
  /\ UNCHANGED <<raw, origin, started, idx, last, pc>>

(* Mutant: the newline before a continuation is delivered.                 *)
FoldKeepsNewline ==
  /\ pc = "newline"
  /\ raw[p] = "plus"
  /\ p' = After(raw, p)
  /\ last' = idx
  /\ pc' = "idle"
  /\ UNCHANGED <<raw, origin, started, idx>>

(* The next line is a continuation: eat its "+" and start over.            *)
FoldContinuation ==
  /\ pc = "newline"
  /\ raw[p] = "plus"
  /\ p' = After(raw, p)
  /\ pc' = "skip"
  /\ UNCHANGED <<raw, origin, started, idx, last>>

(* The next line is blank or a comment: the newline is not significant.    *)
DropNewline ==
  /\ pc = "newline"
  /\ raw[p] \in {"nl"} \cup Comment
  /\ pc' = "skip"
  /\ UNCHANGED <<raw, origin, p, started, idx, last>>

KeepNewline ==
  /\ pc = "newline"
  /\ raw[p] \notin {"ws", "plus", "nl"} \cup Comment
  /\ last' = idx
  /\ pc' = "idle"
  /\ UNCHANGED <<raw, origin, p, started, idx>>

(* resync_at: the cursor is put on a token and nothing has been read yet.  *)
Resync(o) ==
  /\ pc = "idle"
  /\ origin' = o
  /\ p' = o
  /\ last' = o - 1
  /\ started' = FALSE
  /\ UNCHANGED <<raw, idx, pc>>

Scan ==
  \/ SkipTrivia \/ Deliver \/ HoldNewline
  \/ SkipIndent \/ FoldContinuation \/ DropNewline \/ KeepNewline

Next == Ask \/ Scan \/ \E o \in 1..Len(raw) : Resync(o)

(* A call runs to its end: the loop is sequential code that nothing        *)
(* interrupts.                                                             *)
Spec == Init /\ [][Next]_vars /\ WF_vars(Scan)

-----------------------------------------------------------------------------
(* The loop delivers exactly the significant tokens of the stream, in      *)
(* order, and the ENDMARKER for ever after (parser.rs and                  *)
(* spectre_parser.rs, get_next_action and next_sig).                       *)
Lines == INSTANCE LogicalLines
DeliversLogicalLines == Lines!Init /\ [][Lines!Next]_(Lines!vars)

(* Every call returns: at the ENDMARKER, which stays put, neither loop of  *)
(* get_next_action nor its recursion can go round for ever.                *)
CallReturns == pc # "idle" ~> pc = "idle"

(* Nothing the grammar has not seen lies behind the scan position, apart   *)
(* from the newline held back: what is delivered next is found ahead.      *)
Pending == IF pc = "newline" THEN {idx} ELSE {}
NothingSkipped ==
  \A h \in (last + 1)..(p - 1) : Significant(raw, origin, h) => h \in Pending

(* Two words on different lines of the file are in different logical       *)
(* lines unless a "+" joins them: a line end in the text between one       *)
(* delivered token and the next, none of them the end of a line, is always *)
(* followed by a continuation "+".  Only around an encrypted block are two *)
(* statements joined: the newline before its comments is dropped, and each *)
(* of them holds its own (get_next_action, lex_protected_line).            *)
LineEndAt(i) == raw[i] \in {"nl", "sealed"}
JoinedAt(i) == FollowedBy(raw, i, {"plus"})
LinesStayApart ==
  [][ ( /\ pc # "idle"
        /\ last \in origin..Len(raw)
        /\ {raw[last], raw[last']} \cap {"nl", "end"} = {} )
      => \/ \E i \in (last + 1)..(last' - 1) : raw[i] = "sealed"
         \/ \A i \in (last + 1)..(last' - 1) :
              LineEndAt(i) => \E j \in i..(last' - 1) : LineEndAt(j) /\ JoinedAt(j)
    ]_last
=============================================================================
