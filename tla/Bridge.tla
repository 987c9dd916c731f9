-------------------------------- MODULE Bridge --------------------------------
(***************************************************************************)
(* A call of the C++ bridge: it projects a deck (IncludeScope), and where  *)
(* a definition is about to return, its parameter list goes through        *)
(* param_order (ParamOrder).  The list of a clause never does, and neither *)
(* does that of a file included from a clause.  The deck has one list that *)
(* matters, in the first definition of its dialect that returns.           *)
(***************************************************************************)
EXTENDS ParamOrder, IncludeScope

bridgeVars == <<vars, scopeVars>>

(* The Spectre list is that of any definition, a SPICE one needs a block.  *)
ListHasDefinition ==
  spice => \E s \in Scopes : deck[s].kind = "spice_block" /\ deck[s].parent = 1

BridgeInit == Init /\ ScopeInit /\ ListHasDefinition

Ordering ==
  /\ pc # "done"
  /\ Collected /\ frame.inner = << >>
  /\ IsSpice(frame.scope) = spice
  /\ ~frame.clause_gated /\ deck[frame.scope].kind # "spice_clause"

Order == Ordering /\ Step /\ UNCHANGED scopeVars

CollectScope == ~Ordering /\ Project /\ UNCHANGED vars

BridgeStep == Order \/ CollectScope

Returned == Done /\ Finished /\ UNCHANGED scopeVars

BridgeNext == BridgeStep \/ Returned

(* One call runs to its end: nothing else takes its steps.                 *)
BridgeSpec == BridgeInit /\ [][BridgeNext]_bridgeVars /\ WF_bridgeVars(BridgeStep)
=============================================================================
