------------------------------ MODULE MCBridge ------------------------------
(***************************************************************************)
(* The calls Bridge is run on.  The projection and the ordering share no   *)
(* state, only the moment a definition returns: every deck is projected    *)
(* with an empty list, and every list ordered in a file with a SPICE block.*)
(***************************************************************************)
EXTENDS Bridge

CONSTANTS
  MaxParams,    \* parameters of a list
  MaxEdges,     \* include statements of a deck of two or four scopes
  MaxEdgesWide  \* and of one of five

(* Lists of at most MaxParams parameters named a, A or b, whose values     *)
(* refer to one of them, to one twice, to two, or to none.                 *)
MCNames == {"a", "A", "b"}

MCFold == [n \in MCNames |-> IF n = "A" THEN "a" ELSE n]

Values == {<< >>, <<"a">>, <<"A">>, <<"b">>, <<"b", "b">>, <<"b", "a">>}

Params == [name : MCNames, refs : Values]

MCLists == UNION {[1..n -> Params] : n \in 0..MaxParams}

-----------------------------------------------------------------------------
(* Decks of two, four or five scopes, of files that are included by an     *)
(* earlier one and may include any.                                        *)

\* What the scopes are and where they sit; the name they declare.
Skeletons == <<
    <<"temp", <<"netlist", 0>>, <<"subckt", 1>>, <<"clause", 2>>, <<"netlist", 0>>>>,
    <<"temp", <<"netlist", 0>>, <<"clause", 1>>, <<"netlist", 0>>, <<"netlist", 0>>>>,
    <<"temp", <<"netlist", 0>>, <<"subckt", 1>>, <<"section", 0>>, <<"subckt", 3>>>>,
    <<"temp", <<"netlist", 0>>, <<"clause", 1>>, <<"section", 0>>, <<"clause", 3>>>>,
    <<"temp", <<"netlist", 0>>, <<"function", 1>>, <<"clause", 1>>, <<"netlist", 0>>>>,
    <<"temp", <<"netlist", 0>>, <<"subckt", 1>>, <<"subckt", 1>>, <<"netlist", 0>>, <<"netlist", 0>>>>,
    <<"temp", <<"netlist", 0>>, <<"subckt", 1>>, <<"clause", 2>>, <<"clause", 3>>, <<"netlist", 0>>>>,
    <<"temp", <<"netlist", 0>>, <<"clause", 1>>, <<"subckt", 2>>, <<"clause", 3>>, <<"netlist", 0>>>>,
    <<"temp", <<"netlist", 0>>, <<"netlist", 0>>, <<"subckt", 2>>, <<"netlist", 0>>, <<"clause", 4>>>>,
    <<"temper", <<"netlist", 0>>, <<"spice_block", 1>>>>,
    <<"temper", <<"netlist", 0>>, <<"spice_block", 1>>, <<"spice_clause", 2>>, <<"netlist", 0>>>>,
    <<"temper", <<"netlist", 0>>, <<"spice_block", 1>>, <<"spice_subckt", 2>>, <<"spice_clause", 3>>, <<"netlist", 0>>>>,
    <<"temper", <<"netlist", 0>>, <<"clause", 1>>, <<"spice_block", 1>>, <<"subckt", 1>>, <<"spice_block", 4>>>>,
    <<"temper", <<"netlist", 0>>, <<"spice_block", 1>>, <<"spice_clause", 2>>, <<"spice_subckt", 3>>, <<"spice_clause", 2>>>> >>

DecksOf(skeleton) ==
    LET n == Len(skeleton) - 1
        Kind_(s) == skeleton[s + 1][1]
        Includers == {s \in 1..n : Kind_(s) \in {"netlist", "section", "subckt", "clause"}}
        Files == {s \in 1..n : skeleton[s + 1][2] = 0}
        max == IF n > 4 THEN MaxEdgesWide ELSE MaxEdges
        Graphs == {g \in UNION {kSubset(k, Includers \X Files) : k \in 0..max} :
                      \A t \in Files \ {1} : \E s \in 1..(t - 1) : <<s, t>> \in g}
    IN {[s \in 1..n |->
            [kind |-> Kind_(s), parent |-> skeleton[s + 1][2],
             declares |-> IF s \in d THEN {skeleton[1]} ELSE {},
             includes |-> {t \in Files : <<s, t>> \in g}]] : d \in SUBSET (1..n), g \in Graphs}

MCDecks == [k \in DOMAIN Skeletons |-> DecksOf(Skeletons[k])]

-----------------------------------------------------------------------------
Plain(kind, parent) ==
    [kind |-> kind, parent |-> parent, declares |-> {}, includes |-> {}]

BlockInFile == <<Plain("netlist", 0), Plain("spice_block", 1)>>

MCInit ==
    /\ ScopeInit
    /\ deck = BlockInFile \/ (list = << >> /\ spice = FALSE)
    /\ Init
    /\ ListHasDefinition

MCSpec == MCInit /\ [][BridgeNext]_bridgeVars /\ WF_bridgeVars(BridgeStep)
=============================================================================
