----------------------------- MODULE Statements -----------------------------
(***************************************************************************)
(* Both recursive-descent parsers at work on their significant tokens.     *)
(* What is left to do is a stack: the rest of every running production,    *)
(* the marks where a node closes, and the marks where a failure stops.  A  *)
(* step takes one token, makes one choice, or fails; a failure eats the    *)
(* rest of the line and unwinds to the nearest mark that stops it.         *)
(*                                                                         *)
(* A text is a sequence of chunks: one or more lines that are meant as one *)
(* statement.  The tree is kept to the kind of the node closed last.       *)
(***************************************************************************)
EXTENDS Integers, Sequences, FiniteSets

CONSTANTS Texts, Nothing

Spice == INSTANCE SpiceGrammar
Spectre == INSTANCE SpectreGrammar

Ops ==
  {"take", "error", "raise", "lenient", "if", "while", "call", "reset", "tally", "repeat",
   "units", "wrap", "close", "statement", "ended", "contain", "caught", "judge", "verdict"}

(* What a chunk does to the blocks it stands in.                           *)
Effect == {"none", "bad", "open", "shut", "else", "badelse"}

IsText(t) ==
  /\ t.lang \in {"spice", "spectre"}
  /\ t.toks \in Seq(STRING)
  /\ Len(t.toks) > 0
  /\ \A p \in 1..Len(t.toks) : t.toks[p] = "ENDMARKER" <=> p = Len(t.toks)
  /\ Len(t.starts) = Len(t.chunks) + 1
  /\ \A i \in DOMAIN t.chunks : t.chunks[i].does \in Effect

ASSUME TextsAssumption == \A t \in Texts : IsText(t)

VARIABLES
  text,
  pos,      \* the token nt
  todo,     \* what is left to do, the innermost first
  closed,   \* the kind of the node closed last
  n_rows,   \* parse_data's count of columns
  begun,    \* the statements begun: where, and in which blocks
  parsed,   \* the statements that succeeded: from where, to where, as what
  slips     \* the tokens at which a failure was dropped inside a statement

vars == <<text, pos, todo, closed, n_rows, begun, parsed, slips>>

End == Len(text.toks)

Tok(p) == text.toks[p]

Kinds(t) == IF text.lang = "spice" THEN Spice!Kinds(t) ELSE Spectre!Kinds(t)

Rules == IF text.lang = "spice" THEN Spice!Rules ELSE Spectre!Rules

(* Mutant: reading goes on behind the ENDMARKER.                           *)
BeyondEnd(p) == p + 1

(* The ENDMARKER stays.                                                    *)
Beyond(p) == IF p = End THEN p ELSE p + 1

IsIn(p, S) == Kinds(Tok(p)) \cap S # {}

Passes(test) ==
  \A i \in DOMAIN test :
    IsIn(IF test[i].ahead = 0 THEN pos ELSE Beyond(pos), test[i].of) = test[i].is

(* Where error() leaves the parser: behind the newline, or at the end.     *)
LineEnd(p) ==
  CHOOSE q \in p..End :
    /\ Tok(q) \in {"NEWLINE", "ENDMARKER"}
    /\ \A r \in p..(q - 1) : Tok(r) \notin {"NEWLINE", "ENDMARKER"}

AfterError(p) == Beyond(LineEnd(p))

-----------------------------------------------------------------------------
Busy == todo # << >>
Top == Head(todo)
Rest == Tail(todo)
Doing(op) == Busy /\ Top.op = op

First(S) == CHOOSE i \in S : \A j \in S : i <= j

Indexes(stack, ops) == {i \in DOMAIN stack : stack[i].op \in ops}

(* A body that notes a failure fails the nearest judge.                    *)
Condemn(stack) ==
  IF Indexes(stack, {"verdict"}) = {} THEN stack
  ELSE [stack EXCEPT ![First(Indexes(stack, {"verdict"}))].ok = FALSE]

(* Err: every production that is running fails, up to the one whose        *)
(* failure is not passed on.                                               *)
Unwind(p) ==
  LET k == First(Indexes(todo, {"caught"}))
      below == SubSeq(todo, k + 1, Len(todo))
  IN /\ todo' = IF todo[k].judged THEN Condemn(below) ELSE below
     /\ slips' = IF todo[k].as = "ignored" THEN slips \cup {p} ELSE slips
     /\ closed' = "Incomplete"
     /\ UNCHANGED <<text, n_rows, begun, parsed>>

(* error()                                                                 *)
Fail == pos' = AfterError(pos) /\ Unwind(pos)

Continue(t) == todo' = t /\ UNCHANGED <<text, pos, closed, n_rows, begun, parsed, slips>>

Init ==
  /\ text \in Texts
  /\ pos = 1
  /\ todo = IF text.lang = "spice" THEN Spice!parse_toplevel ELSE Spectre!parse_toplevel
  /\ closed = Nothing
  /\ n_rows = 0
  /\ begun = << >>
  /\ parsed = {}
  /\ slips = {}

-----------------------------------------------------------------------------
(* Tokens                                                                  *)

Take ==
  /\ Doing("take")
  /\ IsIn(pos, Top.of)
  /\ pos' = Beyond(pos)
  /\ todo' = Rest
  /\ UNCHANGED <<text, closed, n_rows, begun, parsed, slips>>

WrongToken == Doing("take") /\ ~IsIn(pos, Top.of) /\ Fail

Error == Doing("error") /\ Fail

Raise == Doing("raise") /\ UNCHANGED pos /\ Unwind(pos)

(* The identifier of the lenient take_identifier, on any token.            *)
Recovered == IF IsIn(pos, {"is_ident"}) THEN Beyond(pos) ELSE Beyond(AfterError(pos))

LenientIdentifier ==
  /\ Doing("lenient")
  /\ pos' = Recovered
  /\ slips' = IF IsIn(pos, {"is_ident"}) THEN slips ELSE slips \cup {pos}
  /\ todo' = Rest
  /\ UNCHANGED <<text, closed, n_rows, begun, parsed>>

-----------------------------------------------------------------------------
(* Choices and loops                                                       *)

Choose ==
  /\ Doing("if")
  /\ Continue((IF Passes(Top.test) THEN Top.yes ELSE Top.no) \o Rest)

(* The loop goes on while one of its tests holds, or until one does.       *)
GoesOn == (\E i \in DOMAIN Top.any : Passes(Top.any[i])) = Top.is

Iterate ==
  /\ Doing("while")
  /\ Continue(IF GoesOn THEN Top.body \o todo ELSE Rest)

(* The body of the first arm whose test holds.                             *)
ArmOf(name) ==
  LET arms == Rules[name]
  IN arms[First({i \in DOMAIN arms : Passes(arms[i].test)})].do

Call ==
  /\ Doing("call")
  /\ Continue(ArmOf(Top.name) \o Rest)

(* parse_data                                                              *)
Reset ==
  /\ Doing("reset")
  /\ n_rows' = 0
  /\ todo' = Rest
  /\ UNCHANGED <<text, pos, closed, begun, parsed, slips>>

Tally ==
  /\ Doing("tally")
  /\ n_rows' = n_rows + 1
  /\ todo' = Rest
  /\ UNCHANGED <<text, pos, closed, begun, parsed, slips>>

Copies(n, body) == [i \in 1..(n * Len(body)) |-> body[((i - 1) % Len(body)) + 1]]

Repeat ==
  /\ Doing("repeat")
  /\ Continue(Copies(n_rows, Top.body) \o Rest)

(* count_bare_units: connection nodes and master up to the first parameter *)
(* or the end of the line; Malformed if anything else stands among them.   *)
Malformed == -1

IsUnit(p) == IsIn(p, {"is_ident", "NUMBER"})

UnitsFrom(p0) ==
  LET last == LineEnd(p0)
      (* Behind the dotted name at p; 0 if there is none.                  *)
      beyond[p \in p0..End] ==
        IF ~IsUnit(p) THEN 0
        ELSE IF Tok(p + 1) = "DOT" THEN beyond[p + 2] ELSE p + 1
      units[p \in p0..last] ==
        IF p = last \/ (IsIn(p, {"is_ident"}) /\ Tok(p + 1) = "EQ") THEN 0
        ELSE IF beyond[p] = 0 \/ units[beyond[p]] = Malformed THEN Malformed
        ELSE units[beyond[p]] + 1
  IN units[p0]

(* There are no more units than tokens.                                    *)
Units ==
  /\ Doing("units")
  /\ IF UnitsFrom(pos) \in 1..End
     THEN Continue(Copies(UnitsFrom(pos) - 1, Top.body) \o Rest)
     ELSE Fail

-----------------------------------------------------------------------------
(* Nodes                                                                   *)

Wrap ==
  /\ Doing("wrap")
  /\ Continue(Top.body \o <<[op |-> "close", kind |-> Top.kind]>> \o Rest)

Close ==
  /\ Doing("close")
  /\ closed' = Top.kind
  /\ todo' = Rest
  /\ UNCHANGED <<text, pos, n_rows, begun, parsed, slips>>

-----------------------------------------------------------------------------
(* Statements, and where failures stop                                     *)

(* The blocks around the top of the stack, the outermost first.  A brace   *)
(* body knows whether an item of it has failed.                            *)
BlockKinds == {"Subckt", "LibStatement", "IfElseCase", "Library", "Section"}

Blocks(stack) ==
  LET frames ==
        SelectSeq(stack, LAMBDA f : \/ f.op = "close" /\ f.kind \in BlockKinds
                                    \/ f.op = "verdict" /\ f.kind # "tail")
      n == Len(frames)
  IN [i \in 1..n |->
        LET f == frames[n + 1 - i]
        IN [kind |-> f.kind, ok |-> IF f.op = "verdict" THEN f.ok ELSE TRUE]]

Begin ==
  /\ Doing("statement")
  /\ begun' = Append(begun, [at |-> pos, within |-> Blocks(Rest)])
  /\ todo' = ArmOf(Top.name) \o <<[op |-> "ended", from |-> pos]>> \o Rest
  /\ UNCHANGED <<text, pos, closed, n_rows, parsed, slips>>

Succeed ==
  /\ Doing("ended")
  /\ parsed' = parsed \cup {[from |-> Top.from, to |-> pos, as |-> closed]}
  /\ todo' = Rest
  /\ UNCHANGED <<text, pos, closed, n_rows, begun, slips>>

Contain ==
  /\ Doing("contain")
  /\ Continue(Top.body \o <<[op |-> "caught", as |-> Top.as, judged |-> Top.judged]>> \o Rest)

Contained == Doing("caught") /\ Continue(Rest)

Judge ==
  /\ Doing("judge")
  /\ Continue(Top.body \o <<[op |-> "verdict", kind |-> Top.kind, ok |-> TRUE]>> \o Rest)

Acquit == Doing("verdict") /\ Top.ok /\ Continue(Rest)

Convict == Doing("verdict") /\ ~Top.ok /\ UNCHANGED pos /\ Unwind(pos)

Next ==
  \/ Take \/ WrongToken \/ Error \/ Raise \/ LenientIdentifier
  \/ Choose \/ Iterate \/ Call \/ Reset \/ Tally \/ Repeat \/ Units
  \/ Wrap \/ Close
  \/ Begin \/ Succeed \/ Contain \/ Contained \/ Judge \/ Acquit \/ Convict

Spec == Init /\ [][Next]_vars /\ WF_vars(Next)

Done == todo = << >>

-----------------------------------------------------------------------------
(* Properties                                                              *)

TypeOK ==
  /\ IsText(text)
  /\ pos \in 1..End
  /\ \A i \in DOMAIN todo : todo[i].op \in Ops
  /\ n_rows \in Nat
  /\ \A i \in DOMAIN begun : begun[i].at \in 1..End
  /\ \A p \in parsed : p.from < p.to /\ p.to <= End
  /\ slips \subseteq 1..End

(* An error is local: a well-formed statement is parsed, from its first    *)
(* token to the end of its last line, whatever the line before it is, but  *)
(* in exactly these cases.  A table or a function that is whole as far as  *)
(* the line before reaches goes on in this one.  A failure was dropped in  *)
(* the line before (an .ic entry, a lenient identifier, the tail of an     *)
(* instance), and its statement goes on in this one.  Three Spectre        *)
(* statements also want the newline of the last line of the file.          *)
Starts(p, i) ==
  \/ p = text.starts[i]
  \/ p = text.starts[i] + 1 /\ Tok(text.starts[i]) = "DOT"

Whole(i) ==
  \E p \in parsed :
    /\ Starts(p.from, i)
    /\ p.as = text.chunks[i].as
    /\ p.to = text.starts[i + 1]

Stretch(i) == SubSeq(text.toks, text.starts[i], text.starts[i + 1] - 1)

Number(tok, line) == Cardinality({k \in DOMAIN line : line[k] = tok})

OpenTable(line) ==
  /\ Len(line) > 3 /\ SubSeq(line, 1, 3) = <<"DOT", "DATA", "IDENTIFIER">>
  /\ \A k \in 4..(Len(line) - 1) : line[k] \in {"IDENTIFIER", "NUMBER"}
  /\ \E n \in 0..Len(line) : Number("NUMBER", line) = n * (Number("IDENTIFIER", line) - 1)

OpenFunction(line) ==
  /\ line[1] = "REAL" /\ Number("UNKNOWN", line) = 0
  /\ \/ line[Len(line) - 1] \in {"LBRACE", "SEMICOLON"}
     \/ line[Len(line) - 1] = "IDENTIFIER" /\ Number("RETURN", line) = 1

Spilled(i) ==
  /\ i > 1
  /\ \/ OpenTable(Stretch(i - 1)) \/ OpenFunction(Stretch(i - 1))
     \/ \E p \in slips :
          /\ text.starts[i - 1] <= p /\ p < text.starts[i]
          /\ \A q \in p..(text.starts[i] - 2) : Tok(q) # "NEWLINE"

WantsNewline(i) ==
  /\ text.chunks[i].as \in {"Ic", "NodeSet", "FunctionDecl"}
  /\ Tok(text.starts[i + 1] - 1) # "NEWLINE"

ErrorsAreLocal ==
  Done =>
    \A i \in DOMAIN text.chunks :
      text.chunks[i].as # "" => (Whole(i) <=> ~Spilled(i) /\ ~WantsNewline(i))

(* What README.md:25-26 says of malformed lines: the rest of the tree      *)
(* stays intact.  Every well-formed statement of a text is parsed whole,   *)
(* sooner or later, whatever stands before it and even if the last line    *)
(* has no newline (error, recover_then_identifier, accept_newline and the  *)
(* loops of both grammars).                                                *)
RestStaysIntact == <>(\A i \in DOMAIN text.chunks : text.chunks[i].as # "" => Whole(i))

(* No statement begins in the middle of a line, where the rest of one that *)
(* ended too early would be taken for an instance; but for what stands     *)
(* behind a brace, and for the end of a file without its last newline.     *)
LineStart(p) == p = 1 \/ Tok(p - 1) = "NEWLINE"

BehindBrace(p) ==
  \E q \in 1..(p - 1) :
    /\ Tok(q) \in {"LBRACE", "RBRACE"}
    /\ \A r \in q..(p - 1) : Tok(r) # "NEWLINE"

StatementsStartLines ==
  \A i \in DOMAIN begun :
    LET p == begun[i].at
    IN \/ LineStart(p)
       \/ Tok(p - 1) = "DOT" /\ LineStart(p - 1)
       \/ BehindBrace(p)
       \/ p = End

(* Blocks can be told from the lines alone.  A SPICE block contains every  *)
(* bad line and ends at its own terminator, which is lost on any other     *)
(* block.  In Spectre a bad line, a terminator of another block included,  *)
(* ends every subcircuit, library and section around it up to the nearest  *)
(* brace body, and that body, if anything in it was bad, is bad when it    *)
(* ends: the else behind it is then no else.                               *)
Spoilt(s) ==
  LET braces == {i \in DOMAIN s : s[i].kind \in {"If", "Else"}}
      top == CHOOSE i \in braces \cup {0} : \A j \in braces : j <= i
  IN IF braces = {} THEN << >> ELSE [SubSeq(s, 1, top) EXCEPT ![top].ok = FALSE]

IsTop(s, K) == s # << >> /\ s[Len(s)].kind \in K

Popped(s) == SubSeq(s, 1, Len(s) - 1)

Opened(s, k) == Append(s, [kind |-> k, ok |-> TRUE])

AfterSpiceLine(s, c) ==
  IF c.does = "open" THEN Opened(s, c.block)
  ELSE IF \/ c.does = "shut" /\ IsTop(s, {c.block})
          \/ c.does = "badelse" /\ IsTop(s, {"IfElseCase"})
       THEN Popped(s)
  ELSE s

AfterSpectreLine(s, c) ==
  IF c.does = "open" THEN Opened(s, c.block)
  ELSE IF c.does = "none" THEN s
  ELSE IF c.does = "bad" THEN Spoilt(s)
  ELSE IF c.does = "else"
       THEN IF ~IsTop(s, {"If", "Else"}) THEN Spoilt(s)
            ELSE IF IsTop(s, {"If"}) /\ s[Len(s)].ok THEN Opened(Popped(s), "Else")
            ELSE Spoilt(Popped(s))
  ELSE IF IsTop(s, IF c.block = "If" THEN {"If", "Else"} ELSE {c.block})
       THEN IF s[Len(s)].ok THEN Popped(s) ELSE Spoilt(Popped(s))
       ELSE Spoilt(s)

OpenBehind(n) ==
  LET open[i \in 0..n] ==
        IF i = 0 THEN << >>
        ELSE IF text.lang = "spice" THEN AfterSpiceLine(open[i - 1], text.chunks[i])
        ELSE AfterSpectreLine(open[i - 1], text.chunks[i])
  IN open[n]

NestingIsByLine ==
  text.nesting =>
    \A i \in DOMAIN begun, c \in DOMAIN text.chunks :
      Starts(begun[i].at, c) => begun[i].within = OpenBehind(c - 1)

(* Every text is parsed to its end, but for a .data without columns and    *)
(* with values.                                                            *)
EndlessTable ==
  \E p \in 1..(End - 4) :
    /\ LineStart(p)
    /\ SubSeq(text.toks, p, p + 1) = <<"DOT", "DATA">>
    /\ IsIn(p + 2, {"is_ident"})
    /\ ~IsIn(p + 3, {"is_ident", "NEWLINE", "ENDMARKER"})

Terminates == <>(Done \/ EndlessTable)
=============================================================================
