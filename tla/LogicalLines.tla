---------------------------- MODULE LogicalLines ----------------------------
(***************************************************************************)
(* What the lookahead of a parser promises its grammar: the significant    *)
(* tokens of the stream, each once and in order, and the ENDMARKER for     *)
(* ever after.  Reading may restart at any token, as it does for Spectre   *)
(* after a SPICE region.                                                   *)
(***************************************************************************)
EXTENDS Tokens

VARIABLES
  raw,      \* the stream
  origin,   \* the token reading started at
  last      \* the token read last; origin - 1 before the first

vars == <<raw, origin, last>>

Init ==
  /\ raw \in Streams
  /\ origin = 1
  /\ last = 0

Read ==
  /\ IsNextSig(raw, origin, After(raw, last), last')
  /\ UNCHANGED <<raw, origin>>

Restart(o) ==
  /\ origin' = o
  /\ last' = o - 1
  /\ UNCHANGED raw

Next == Read \/ \E o \in 1..Len(raw) : Restart(o)

Spec == Init /\ [][Next]_vars
=============================================================================
