------------------------------ MODULE TokenLayer ------------------------------
(***************************************************************************)
(* The token layer both parsers are written on: two significant tokens of  *)
(* lookahead, the emission of every raw token into the tree builder, the   *)
(* checkpoints that wrap what was emitted into nodes, error recovery, and, *)
(* for Spectre, the dry runs and the hand-over of the cursor around a      *)
(* SPICE region.                                                           *)
(*                                                                         *)
(* The grammar is left free: any production may call any helper whenever   *)
(* the helper can be called, so what holds here holds whatever the         *)
(* productions do.  The SPICE parser is the client that never calls the    *)
(* Spectre additions.  A run of trivia is one piece of the tree.           *)
(***************************************************************************)
EXTENDS Tokens

CONSTANTS
  MaxOpen,    \* bound: checkpoints a call stack holds
  MaxPieces   \* bound: pieces in the tree when a node opens or is wrapped again

ASSUME ParserAssumption ==
  MaxOpen \in Nat /\ MaxPieces \in Nat

VARIABLES
  raw,      \* Parser.raw, kinds only
  origin,   \* where reading started: 1, or the token resync_at found
  p,        \* Parser.p
  nt, nnt,  \* Parser.nt.idx and Parser.nnt.idx
  emit,     \* Parser.emit_idx
  pieces,   \* the children of the open node, as spans of raw tokens
  cps,      \* the checkpoints the productions on the call stack hold
  mode,     \* which helper is in its loop; "parse" in the grammar
  from,     \* the token the running recovery began at; 0 outside recovery
  dry,      \* Parser.dry
  saved     \* what save_state returned

cursor == <<p, nt, nnt>>
vars == <<raw, origin, cursor, emit, pieces, cps, mode, from, dry, saved>>

Last == Len(raw)

(* Mutant: the end of the file is not the end of a line.                   *)
EolForgetsEnd(i) == raw[i] = "nl"

Eol(i) == raw[i] \in {"nl", "end"}

-----------------------------------------------------------------------------
(* Emission.                                                               *)

Piece(a, b, k) == [from |-> a, to |-> b, kind |-> k]

(* The tokens from a up to b join the tree; none when there are none.      *)
Put(s, a, b, k) == IF a < b THEN Append(s, Piece(a, b, k)) ELSE s

(* Mutant: the dry run emits the trivia.                                   *)
FlushedEvenDry(i) == Put(pieces, emit, i, "trivia")

(* flush_trivia: everything up to token i, as trivia.                      *)
Flushed(i) == IF dry THEN pieces ELSE Put(pieces, emit, i, "trivia")

Flush(i) ==
  /\ pieces' = Flushed(i)
  /\ emit' = IF emit < i THEN i ELSE emit

(* next_sig, on a cursor that reading started at token o.                  *)
NextToken(o, i, j, q) == IsNextSig(raw, o, i, j) /\ q = After(raw, j)

Advance ==
  /\ nt' = nnt
  /\ \E j \in p..Last : nnt' = j /\ NextToken(origin, p, j, p')

(* Mutant: the ENDMARKER is taken for a token of the text.                 *)
BumpEnd ==
  /\ pieces' = IF dry THEN pieces
               ELSE Append(Flushed(nt), Piece(nt, nt + 1, "token"))
  /\ emit' = nt + 1
  /\ Advance

(* bump, bump_skipped: nt becomes a leaf.  The ENDMARKER has no width and  *)
(* leaves nothing.                                                         *)
Bump ==
  /\ pieces' = IF dry \/ raw[nt] = "end"
                 THEN Flushed(nt)
                 ELSE Append(Flushed(nt), Piece(nt, nt + 1, "token"))
  /\ emit' = nt + 1
  /\ Advance

(* Both tokens of lookahead read afresh from token o.                      *)
Lookahead(o) ==
  \E i, j \in o..Last, q \in o..Last :
    /\ NextToken(o, o, i, q)
    /\ nt' = i
    /\ NextToken(o, q, j, p')
    /\ nnt' = j

-----------------------------------------------------------------------------
(* What the productions call.                                              *)

InGrammar == mode = "parse"

(* take, take_kw, take_identifier, accept_newline, ... with the token they *)
(* accept, and error on a newline, which takes the newline itself.         *)
Take ==
  /\ InGrammar
  /\ raw[nt] # "end"
  /\ Bump
  /\ UNCHANGED <<raw, origin, cps, mode, from, dry, saved>>

(* accept_newline and error at the end of the file: no token is left.      *)
AtEnd ==
  /\ InGrammar
  /\ raw[nt] = "end"
  /\ Flush(nt)
  /\ UNCHANGED <<raw, origin, cursor, cps, mode, from, dry, saved>>

(* error on a token of the line: the token, then the rest of its line.     *)
ErrorInLine ==
  /\ InGrammar
  /\ ~Eol(nt)
  /\ Bump
  /\ mode' = "error"
  /\ from' = nt
  /\ UNCHANGED <<raw, origin, cps, dry, saved>>

(* recover_then_identifier: the lenient take_identifier of Spectre.        *)
LenientIdentifier ==
  /\ InGrammar
  /\ mode' = "lenient"
  /\ from' = nt
  /\ UNCHANGED <<raw, origin, cursor, emit, pieces, cps, dry, saved>>

(* Mutant: the rest of the file, not of the line.                          *)
EatLineAndMore ==
  /\ mode \in {"error", "lenient"}
  /\ raw[nt] # "end"
  /\ Bump
  /\ UNCHANGED <<raw, origin, cps, mode, from, dry, saved>>

EatLine ==
  /\ mode \in {"error", "lenient"}
  /\ ~Eol(nt)
  /\ Bump
  /\ UNCHANGED <<raw, origin, cps, mode, from, dry, saved>>

EatNewline ==
  /\ mode \in {"error", "lenient"}
  /\ raw[nt] = "nl"
  /\ Bump
  /\ mode' = IF mode = "error" THEN "parse" ELSE "identifier"
  /\ from' = IF mode = "error" THEN 0 ELSE from
  /\ UNCHANGED <<raw, origin, cps, dry, saved>>

StopAtEnd ==
  /\ mode = "error"
  /\ Eol(nt) /\ raw[nt] # "nl"
  /\ Flush(nt)
  /\ mode' = "parse"
  /\ from' = 0
  /\ UNCHANGED <<raw, origin, cursor, cps, dry, saved>>

(* After its recovery the lenient take_identifier takes whatever is next.  *)
TakeAnything ==
  /\ \/ mode = "identifier"
     \/ mode = "lenient" /\ Eol(nt) /\ raw[nt] # "nl"
  /\ Bump
  /\ mode' = "parse"
  /\ from' = 0
  /\ UNCHANGED <<raw, origin, cps, dry, saved>>

(* Mutant: flushes up to the second token of lookahead.                    *)
TakeCheckpointLate ==
  /\ InGrammar
  /\ Len(cps) < MaxOpen
  /\ Len(pieces) < MaxPieces
  /\ Flush(nnt)
  /\ cps' = Append(cps, Len(pieces'))
  /\ UNCHANGED <<raw, origin, cursor, mode, from, dry, saved>>

TakeCheckpoint ==
  /\ InGrammar
  /\ Len(cps) < MaxOpen
  /\ Len(pieces) < MaxPieces
  /\ Flush(nt)
  /\ cps' = Append(cps, Len(pieces'))
  /\ UNCHANGED <<raw, origin, cursor, mode, from, dry, saved>>

(* A production closes its own nodes: those of the callers of a dry run    *)
(* stay open while it lasts.                                               *)
MayClose == InGrammar /\ cps # << >> /\ (dry => Len(cps) > saved.open)

(* The end of the tree: nothing that has been emitted lies beyond it.      *)
Upto(e) == IF e > Last THEN Last ELSE e

(* The tree with everything after checkpoint c in one node.                *)
Wrapped(c) ==
  Append(SubSeq(pieces, 1, c),
         Piece(IF c < Len(pieces) THEN pieces[c + 1].from ELSE Upto(emit),
               Upto(emit), "node"))

(* Mutant: the outermost node closes first.                                *)
CloseOutermost(again) ==
  /\ MayClose
  /\ again => Len(pieces) < MaxPieces
  /\ pieces' = IF dry THEN pieces ELSE Wrapped(cps[1])
  /\ cps' = IF again THEN cps ELSE SubSeq(cps, 2, Len(cps))
  /\ UNCHANGED <<raw, origin, cursor, emit, mode, from, dry, saved>>

(* wrap_at, wrapped, wrapped_on_err: the node closes.  Its production      *)
(* returns, or goes on to wrap the node once more from the same place.     *)
CloseNode(again) ==
  /\ MayClose
  /\ again => Len(pieces) < MaxPieces
  /\ pieces' = IF dry THEN pieces ELSE Wrapped(cps[Len(cps)])
  /\ cps' = IF again THEN cps ELSE SubSeq(cps, 1, Len(cps) - 1)
  /\ UNCHANGED <<raw, origin, cursor, emit, mode, from, dry, saved>>

(* wrapped_on_err without an error, and checkpoints an early return drops. *)
DropCheckpoint ==
  /\ MayClose
  /\ cps' = SubSeq(cps, 1, Len(cps) - 1)
  /\ UNCHANGED <<raw, origin, cursor, emit, pieces, mode, from, dry, saved>>

(* instance_tail_ok and count_bare_units look ahead without emitting.      *)
Nothing == [p |-> 0, nt |-> 0, nnt |-> 0, emit |-> 0, open |-> 0]

DryBegin ==
  /\ InGrammar
  /\ ~dry
  /\ dry' = TRUE
  /\ saved' = [p |-> p, nt |-> nt, nnt |-> nnt, emit |-> emit, open |-> Len(cps)]
  /\ UNCHANGED <<raw, origin, cursor, emit, pieces, cps, mode, from>>

(* Mutant: the scan position of the dry run is kept.                       *)
DryEndKeepsCursor ==
  /\ InGrammar
  /\ dry
  /\ Len(cps) = saved.open
  /\ dry' = FALSE
  /\ nt' = saved.nt
  /\ nnt' = saved.nnt
  /\ emit' = saved.emit
  /\ saved' = Nothing
  /\ UNCHANGED <<raw, origin, p, pieces, cps, mode, from>>

DryEnd ==
  /\ InGrammar
  /\ dry
  /\ Len(cps) = saved.open
  /\ dry' = FALSE
  /\ p' = saved.p
  /\ nt' = saved.nt
  /\ nnt' = saved.nnt
  /\ emit' = saved.emit
  /\ saved' = Nothing
  /\ UNCHANGED <<raw, origin, pieces, cps, mode, from>>

(* handoff_to_spice between two statements: the SPICE parser emits its     *)
(* region up to token o, resync_at puts the cursor there.  That the region *)
(* ends where a Spectre token begins is a matter of LangSwitch.            *)
Handoff(o) ==
  /\ InGrammar
  /\ ~dry
  /\ cps = << >>
  /\ Len(pieces) < MaxPieces
  /\ o >= Upto(emit)
  /\ pieces' = Append(pieces, Piece(Upto(emit), o, "region"))
  /\ emit' = o
  /\ origin' = o
  /\ Lookahead(o)
  /\ UNCHANGED <<raw, cps, mode, from, dry, saved>>

(* parse_toplevel: what is left at the end of the file is trivia.          *)
Finish ==
  /\ InGrammar
  /\ ~dry
  /\ cps = << >>
  /\ raw[nt] = "end"
  /\ pieces' = Put(pieces, emit, Last, "trivia")
  /\ emit' = Last + 1
  /\ mode' = "done"
  /\ UNCHANGED <<raw, origin, cursor, cps, from, dry, saved>>

(* SPICE only, parse_region: a switch back to Spectre leaves the region    *)
(* at once.                                                                *)
LeaveRegion ==
  /\ InGrammar
  /\ ~dry
  /\ cps = << >>
  /\ mode' = "done"
  /\ UNCHANGED <<raw, origin, cursor, emit, pieces, cps, from, dry, saved>>

Recovery == EatLine \/ EatNewline \/ StopAtEnd \/ TakeAnything

Finished == mode = "done" /\ UNCHANGED vars

Next ==
  \/ Take \/ AtEnd \/ ErrorInLine \/ LenientIdentifier
  \/ Recovery
  \/ TakeCheckpoint \/ CloseNode(TRUE) \/ CloseNode(FALSE) \/ DropCheckpoint
  \/ DryBegin \/ DryEnd
  \/ \E o \in 1..Last : Handoff(o)
  \/ Finish \/ LeaveRegion
  \/ Finished

Init ==
  /\ raw \in Streams
  /\ origin = 1
  /\ \E i, j \in 1..Last, q \in 1..Last :
       /\ NextToken(1, 1, i, q) /\ nt = i
       /\ NextToken(1, q, j, p) /\ nnt = j
  /\ emit = 1
  /\ pieces = << >>
  /\ cps = << >>
  /\ mode = "parse"
  /\ from = 0
  /\ dry = FALSE
  /\ saved = Nothing

(* Recovery is a loop of sequential code that nothing interrupts.          *)
Spec == Init /\ [][Next]_vars /\ WF_vars(Recovery)

-----------------------------------------------------------------------------
Modes == {"parse", "error", "lenient", "identifier", "done"}

TypeOK ==
  /\ Lexed(raw)
  /\ {origin, p, nt, nnt} \subseteq 1..Last
  /\ emit \in 1..(Last + 1)
  /\ pieces \in Seq([from : 1..Last, to : 1..Last,
                     kind : {"trivia", "token", "node", "region"}])
  /\ cps \in Seq(Nat)
  /\ mode \in Modes
  /\ from \in 0..Last
  /\ dry \in BOOLEAN
  /\ dry => saved \in [p : 1..Last, nt : 1..Last, nnt : 1..Last,
                       emit : 1..(Last + 1), open : 0..Len(cps)]

(* What has been emitted is exactly the text up to next_emit_byte: no raw  *)
(* token is left out, emitted twice or out of order, whatever the grammar  *)
(* does, and a dry run emits nothing (flush_trivia, bump, wrap_at,         *)
(* restore_state; "lossless CST tiles the source", README.md:22).          *)
Emitted == Upto(IF dry THEN saved.emit ELSE emit)
TreeTiles ==
  /\ pieces = << >> => Emitted = 1
  /\ pieces # << >> => pieces[1].from = 1 /\ pieces[Len(pieces)].to = Emitted
  /\ \A k \in 1..Len(pieces) : pieces[k].from <= pieces[k].to
  /\ \A k \in 1..(Len(pieces) - 1) : pieces[k].to = pieces[k + 1].from

(* The two tokens of lookahead are the next two significant tokens of the  *)
(* text not emitted yet, also right after a dry run, a recovery or a       *)
(* resync: no production decides on a stale token (advance, resync_at,     *)
(* restore_state).                                                         *)
LookaheadExact ==
  /\ IF emit > Last THEN nt = Last ELSE IsNextSig(raw, origin, emit, nt)
  /\ IsNextSig(raw, origin, After(raw, nt), nnt)
  /\ p = After(raw, nnt)

(* Every significant token becomes a leaf of its own, and none is ever     *)
(* flushed as trivia (flush_trivia, bump).                                 *)
LeavesAreSignificant ==
  \A k \in 1..Len(pieces) :
    LET a == pieces[k].from  b == pieces[k].to
    IN  a >= origin =>
          /\ pieces[k].kind = "token" => b = a + 1 /\ Significant(raw, origin, a)
          /\ pieces[k].kind = "trivia" =>
               \A h \in a..(b - 1) : ~Significant(raw, origin, h)

(* A checkpoint never points past the children of the open node, nor an    *)
(* outer one past an inner one: start_node_at would panic on it (wrap_at,  *)
(* wrapped, wrapped_on_err).                                               *)
CheckpointsValid ==
  /\ \A c \in 1..Len(cps) : cps[c] \in 0..Len(pieces)
  /\ \A c, d \in 1..Len(cps) : c <= d => cps[c] <= cps[d]

(* error eats what is left of one logical line: up to and including its    *)
(* newline, never a token of the next line, and never less (error).        *)
Recovered(m) == mode = m /\ mode' = "parse"
OneLine(a, b) ==
  /\ \A h \in a..(b - 2) : raw[h] = "nl" => ~Significant(raw, origin, h)
  /\ (raw[b - 1] = "nl" /\ Significant(raw, origin, b - 1)) \/ Upto(b) = Last
ErrorEatsOneLine == [][Recovered("error") => OneLine(from, emit')]_mode

(* Recovery ends: at the latest at the ENDMARKER (error,                   *)
(* recover_then_identifier).                                               *)
RecoveryEnds == mode \in {"error", "lenient", "identifier"} ~> mode = "parse"
=============================================================================
