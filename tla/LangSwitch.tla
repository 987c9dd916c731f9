------------------------------ MODULE LangSwitch ------------------------------
(***************************************************************************)
(* A file that changes language: the Spectre driver parses statements, and *)
(* hands the builder over to a SPICE parser for the region after           *)
(* "simulator lang=spice".  The driver has tokenized the whole file as     *)
(* Spectre before it starts; each region is tokenized again, as SPICE.     *)
(*                                                                         *)
(* The text is a sequence of logical lines.  Line i begins at place        *)
(* 2 * (i - 1), and the odd place after it stands for the middle of the    *)
(* line.  A Spectre token begins at every place but those inside a string, *)
(* the one token of either lexer that runs over line ends freely: a quote  *)
(* in a SPICE comment opens one for the Spectre lexer.  Spectre statements *)
(* are lines, or subcircuits with a body of lines; so are SPICE ones.      *)
(***************************************************************************)
EXTENDS Integers, Sequences

CONSTANT Texts

Lang == {"spectre", "spice"}

LineKind ==
  {"plain", "toSpice", "toSpectre",
   "subckt", "ends",         \* Spectre subcircuit
   ".subckt", ".ends"}       \* SPICE subcircuit

ASSUME TextsAssumption ==
  \A t \in Texts :
    /\ t.start \in Lang
    /\ t.lines \in Seq(LineKind)
    /\ t.strings \subseteq (0..(2 * Len(t.lines))) \X (0..(2 * Len(t.lines)))

VARIABLES
  text,         \* the file, and the language it starts in
  at,           \* next_emit_byte of the parser that runs: all before is done
  owner,        \* the parser that emitted each half of a line, "none" so far
  lang,         \* the parser that runs
  depth,        \* subcircuits its current statement is in
  pc,           \* "statement": about to parse one; "driver": one was parsed
  lang_swapped, \* Parser.lang_swapped of the Spectre parser
  swapped_back, \* Parser.lang_swapped of the SPICE parser of this region
  title         \* the next line is the implicit title of a SPICE file

vars ==
  <<text, at, owner, lang, depth, pc, lang_swapped, swapped_back, title>>

End == 2 * Len(text.lines)
Halves == 0..(End - 1)

(* The line at a place; what is left of a line begins no statement of note.*)
KindAt(q) == IF q % 2 = 0 THEN text.lines[q \div 2 + 1] ELSE "plain"

TokenBegins(q) == \A s \in text.strings : ~(s[1] < q /\ q < s[2])

(* The first place of a set.                                               *)
First(S) == CHOOSE q \in S : \A r \in S : q <= r

(* Where the Spectre statement at q ends: behind the next newline token.   *)
SpectreLineEnd(q) ==
  First({r \in (q + 1)..End : r % 2 = 0 /\ TokenBegins(r)})

(* Mutant: two lines at a time.                                            *)
SpiceTwoLines(q) == q + 4

SpiceLineEnd(q) == First({r \in (q + 1)..End : r % 2 = 0})

(* Mutant: the token the region stops in, not the one after it.            *)
ResyncBehind(q) ==
  CHOOSE r \in 0..q : TokenBegins(r) /\ \A s \in (r + 1)..q : ~TokenBegins(s)

(* Mutant: starts after, not at or after.                                  *)
ResyncPast(q) == First({r \in (q + 1)..End : TokenBegins(r)} \cup {End})

(* resync_at: the first Spectre token that starts at or after q.           *)
ResyncAt(q) == First({r \in q..End : TokenBegins(r)})

Emit(q) ==
  /\ owner' = [h \in Halves |-> IF at <= h /\ h < q THEN lang ELSE owner[h]]
  /\ at' = q

-----------------------------------------------------------------------------
(* The Spectre parser.                                                     *)

(* Mutant: the flag is never set.                                          *)
SetsSwappedNever(k) == FALSE

(* parse_simulator flags the driver, whatever comes of the statement.      *)
SetsSwapped(k) == k = "toSpice"

(* The subcircuits still open after a line of kind k, parsed well or not:  *)
(* an error in the body of a Spectre subcircuit ends it, and with it those *)
(* around it.                                                              *)
SpectreDepth(k, ok) ==
  CASE ~ok -> 0
    [] ok /\ k = "subckt" -> depth + 1
    [] ok /\ k = "ends" /\ depth > 0 -> depth - 1
    [] OTHER -> depth

ParseSpectreLine(ok) ==
  /\ lang = "spectre"
  /\ pc = "statement"
  /\ at < End
  /\ Emit(SpectreLineEnd(at))
  /\ depth' = SpectreDepth(KindAt(at), ok)
  /\ pc' = IF depth' = 0 THEN "driver" ELSE "statement"
  /\ lang_swapped' = (lang_swapped \/ SetsSwapped(KindAt(at)))
  /\ UNCHANGED <<text, lang, swapped_back, title>>

(* A subcircuit without its ends: an error at the end of the file.         *)
AbandonSpectreBlock ==
  /\ lang = "spectre"
  /\ pc = "statement"
  /\ at = End
  /\ depth > 0
  /\ depth' = 0
  /\ pc' = "driver"
  /\ UNCHANGED <<text, at, owner, lang, lang_swapped, swapped_back, title>>

(* parse_toplevel after a statement: handoff_to_spice if the flag is set.  *)
EnterRegion ==
  /\ lang' = "spice"
  /\ swapped_back' = FALSE
  /\ pc' = "statement"

HandOff ==
  /\ lang = "spectre"
  /\ pc = "driver"
  /\ lang_swapped
  /\ EnterRegion
  /\ UNCHANGED <<text, at, owner, depth, lang_swapped, title>>

StayInSpectre ==
  /\ lang = "spectre"
  /\ pc = "driver"
  /\ ~lang_swapped
  /\ pc' = "statement"
  /\ UNCHANGED <<text, at, owner, lang, depth, lang_swapped, swapped_back, title>>

Finish ==
  /\ lang = "spectre"
  /\ pc = "statement"
  /\ at = End
  /\ depth = 0
  /\ pc' = "done"
  /\ UNCHANGED <<text, at, owner, lang, depth, lang_swapped, swapped_back, title>>

-----------------------------------------------------------------------------
(* The SPICE parser of a region.                                           *)

(* The body of a SPICE subcircuit survives its bad lines.                  *)
SpiceDepth(k, ok) ==
  CASE k = ".subckt" /\ ok -> depth + 1
    [] k = ".ends" /\ depth > 0 -> depth - 1
    [] OTHER -> depth

(* The implicit title is no statement, whatever it says.                   *)
SpiceKind == IF title THEN "plain" ELSE KindAt(at)

ParseSpiceLine(ok) ==
  /\ lang = "spice"
  /\ pc = "statement"
  /\ at < End
  /\ Emit(SpiceLineEnd(at))
  /\ depth' = SpiceDepth(SpiceKind, ok)
  /\ pc' = IF depth' = 0 THEN "driver" ELSE "statement"
  /\ swapped_back' = (swapped_back \/ SpiceKind = "toSpectre")
  /\ title' = FALSE
  /\ UNCHANGED <<text, lang, lang_swapped>>

StayInRegion ==
  /\ lang = "spice"
  /\ pc = "driver"
  /\ ~swapped_back
  /\ pc' = "statement"
  /\ UNCHANGED <<text, at, owner, lang, depth, lang_swapped, swapped_back, title>>

(* Mutant: only a switch ends a region.                                    *)
ReturnOnSwitchOnly ==
  /\ lang = "spice"
  /\ pc = "driver" /\ swapped_back
  /\ lang' = "spectre"
  /\ at' = ResyncAt(at)
  /\ depth' = 0
  /\ pc' = "statement"
  /\ UNCHANGED <<text, owner, lang_swapped, swapped_back, title>>

(* parse_region returns after the switch back, or at the end of the file   *)
(* (where open subcircuits end in an error), and the driver resumes.       *)
ReturnToSpectre ==
  /\ lang = "spice"
  /\ \/ pc = "driver" /\ swapped_back
     \/ pc = "statement" /\ at = End
  /\ lang' = "spectre"
  /\ at' = ResyncAt(at)
  /\ depth' = 0
  /\ pc' = "statement"
  /\ UNCHANGED <<text, owner, lang_swapped, swapped_back, title>>

-----------------------------------------------------------------------------
(* A file that starts in SPICE enters its first region at once, without    *)
(* the flag.                                                               *)
Init ==
  /\ text \in Texts
  /\ at = 0
  /\ owner = [h \in Halves |-> "none"]
  /\ lang = text.start
  /\ depth = 0
  /\ pc = "statement"
  /\ lang_swapped = FALSE
  /\ swapped_back = FALSE
  /\ title = (text.start = "spice")

Finished == pc = "done" /\ UNCHANGED vars

Step ==
  \/ \E ok \in BOOLEAN : ParseSpectreLine(ok) \/ ParseSpiceLine(ok)
  \/ AbandonSpectreBlock \/ HandOff \/ StayInSpectre \/ Finish
  \/ StayInRegion \/ ReturnToSpectre

Next == Step \/ Finished

(* The driver is one sequential loop: it takes its next step.              *)
Spec == Init /\ [][Next]_vars /\ WF_vars(Step)

-----------------------------------------------------------------------------
TypeOK ==
  /\ at \in 0..End
  /\ owner \in [Halves -> Lang \cup {"none"}]
  /\ lang \in Lang
  /\ depth \in 0..Len(text.lines)
  /\ pc \in {"statement", "driver", "done"}
  /\ {lang_swapped, swapped_back, title} \subseteq BOOLEAN

(* The language the last switch above line i selects, as the file reads.   *)
Switches == {i \in 1..Len(text.lines) : text.lines[i] \in {"toSpice", "toSpectre"}}
                \ (IF text.start = "spice" THEN {1} ELSE {})
Selected(i) ==
  LET above == {j \in Switches : j < i}
  IN  IF above = {} THEN text.start
      ELSE LET last == CHOOSE j \in above : \A k \in above : k <= j
           IN  IF text.lines[last] = "toSpice" THEN "spice" ELSE "spectre"

RightAt(i) ==
  \A h \in {2 * i - 2, 2 * i - 1} : owner[h] \in {"none", Selected(i)}

(* In a file whose switches are statements of their own, every line is     *)
(* parsed in the language selected for it, up to the first statement after *)
(* the first return to Spectre (parse_toplevel, parse_region,              *)
(* parse_simulator).                                                       *)
Flat == \A i \in 1..Len(text.lines) : text.lines[i] \in {"plain", "toSpice", "toSpectre"}
Returned(i) ==
  \E j, k \in Switches :
    /\ j < k /\ k + 1 < i
    /\ text.lines[j] = "toSpice" /\ text.lines[k] = "toSpectre"
RightUntilReturn ==
  Flat /\ text.strings = {} =>
    \A i \in 1..Len(text.lines) : ~Returned(i) => RightAt(i)

(* What README.md:20-22 and tests/robustness.rs promise of every file: the *)
(* parsers hand over at the switches, and the tree is lossless.  When the  *)
(* parse has ended, each piece of a line has been emitted, by the parser   *)
(* of the language the switch above the line selects (parse_toplevel,      *)
(* handoff_to_spice, parse_region, resync_at).                             *)
AllToTheirParser ==
  pc = "done" =>
    \A i \in 1..Len(text.lines) : \A h \in {2 * i - 2, 2 * i - 1} : owner[h] = Selected(i)

(* No text is lost but inside a Spectre token that the end of a region     *)
(* cuts in two: every other piece is emitted, in files with such tokens    *)
(* too (resync_at, next_emit_byte); AllToTheirParser is the promise        *)
(* without the exception.                                                  *)
OnlyCutTokensAreLost ==
  pc = "done" =>
    \A h \in Halves : owner[h] = "none" => ~TokenBegins(h)

(* No text is emitted by two parsers, or twice (resync_at).                *)
EmittedOnce == [][\A h \in Halves : owner[h] \in {"none", owner'[h]} /\ at <= at']_vars

(* The parse ends, however often the languages alternate (parse_toplevel,  *)
(* parse_region).                                                          *)
Terminates == <>(pc = "done")
=============================================================================
