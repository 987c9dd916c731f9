--------------------------- MODULE DependencyOrder ---------------------------
(***************************************************************************)
(* What the ordering of a parameter list promises: one parameter after the *)
(* other is placed, each the first in the source of those whose references *)
(* have been placed, until all are or none can be.                         *)
(***************************************************************************)
EXTENDS Integers, Sequences

CONSTANTS
  Names,   \* parameter names, as spelt
  Fold,    \* Fold[n]: n in lower case
  Lists    \* the parameter lists considered

VARIABLES
  list,    \* the parameters, with the free identifiers of their values
  spice,   \* whether names are compared without regard to case
  order,   \* the indices placed so far
  outcome  \* "ordering", then "ordered" or "cycle"

N == Len(list)

Key(n) == IF spice THEN Fold[n] ELSE n

(* The definition a reference means: the last one with that name.          *)
LastDef(k) ==
  CHOOSE j \in 1..N :
    /\ Key(list[j].name) = k
    /\ \A h \in (j + 1)..N : Key(list[h].name) # k

Defined == {Key(list[j].name) : j \in 1..N}

(* A value that names its own parameter means the enclosing scope.         *)
Refers(i, k) == k # Key(list[i].name) /\ k \in Defined

(* The parameters that i must come after.                                  *)
Needs(i) ==
  {LastDef(Key(n)) : n \in {list[i].refs[r] : r \in
      {q \in 1..Len(list[i].refs) : Refers(i, Key(list[i].refs[q]))}}}

Placed == {order[k] : k \in 1..Len(order)}

Placeable == {i \in (1..N) \ Placed : Needs(i) \subseteq Placed}

(* Some parameters can only come after one another.                        *)
Cyclic ==
  \E S \in SUBSET (1..N) : S # {} /\ \A i \in S : Needs(i) \cap S # {}

vars == <<list, spice, order, outcome>>

Init ==
  /\ list \in Lists
  /\ spice \in BOOLEAN
  /\ order = << >>
  /\ outcome = "ordering"

Place(i) ==
  /\ outcome = "ordering"
  /\ i \in Placeable
  /\ \A j \in Placeable : i <= j
  /\ order' = Append(order, i)
  /\ UNCHANGED <<list, spice, outcome>>

Conclude ==
  /\ outcome = "ordering"
  /\ Placeable = {}
  /\ outcome' = IF Placed = 1..N THEN "ordered" ELSE "cycle"
  /\ UNCHANGED <<list, spice, order>>

Next == (\E i \in 1..N : Place(i)) \/ Conclude

Spec == Init /\ [][Next]_vars
=============================================================================
