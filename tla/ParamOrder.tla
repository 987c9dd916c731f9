------------------------------ MODULE ParamOrder ------------------------------
(***************************************************************************)
(* param_order of the C++ bridge, Kahn's algorithm over the references of  *)
(* a parameter list, and its two callers: ordered, which reorders a        *)
(* Spectre list, and checked_source_order, which only reports the cycle of *)
(* a SPICE one.  A value is the sequence of its free identifiers.          *)
(***************************************************************************)
EXTENDS Integers, Sequences, FiniteSetsExt

CONSTANTS
  Names,   \* parameter names, as spelt
  Fold,    \* Fold[n]: n in lower case
  Lists    \* the parameter lists considered

ASSUME NamesAssumption == Fold \in [Names -> Names]
ASSUME ListsAssumption ==
  \A l \in Lists : l \in Seq([name : Names, refs : Seq(Names)])

VARIABLES
  list, spice,
  pc,      \* "edges", "pop", "relax" or "done"
  i, r,    \* the parameter and the reference the edge loop is at
  succ,    \* succ[j]: the parameters that refer to j, once per reference
  indeg,   \* indeg[i]: the references of i not placed yet
  ready,   \* the heap
  left,    \* successors of the parameter popped last still to be relaxed
  order

vars == <<list, spice, pc, i, r, succ, indeg, ready, left, order>>

(* Mutant: the length of the order is not compared with the list.          *)
OutcomeUnchecked == IF pc = "done" THEN "ordered" ELSE "ordering"

(* param_order returns None when it could not place every parameter.       *)
Outcome ==
  CASE pc # "done" -> "ordering"
    [] pc = "done" /\ Len(order) = Len(list) -> "ordered"
    [] OTHER -> "cycle"

(* The names of this module's operators on lists come from the promise.    *)
Promise == INSTANCE DependencyOrder WITH outcome <- Outcome

N == Len(list)

(* The index built by inserting every parameter: the last one stays.       *)
Index(k) ==
  CHOOSE j \in 1..N :
    /\ Promise!Key(list[j].name) = k
    /\ \A h \in (j + 1)..N : Promise!Key(list[h].name) # k

Init ==
  /\ list \in Lists
  /\ spice \in BOOLEAN
  /\ pc = "edges"
  /\ i = 1
  /\ r = 1
  /\ succ = [k \in 1..N |-> << >>]
  /\ indeg = [k \in 1..N |-> 0]
  /\ ready = {}
  /\ left = << >>
  /\ order = << >>

Scanning == pc = "edges" /\ i <= N

RefKey == Promise!Key(list[i].refs[r])

(* Mutant: a value that names its own parameter gets an edge.              *)
SelfCounts(k) == k \in {Promise!Key(list[j].name) : j \in 1..N}

HasEdge(k) ==
  /\ k # Promise!Key(list[i].name)
  /\ k \in {Promise!Key(list[j].name) : j \in 1..N}

(* Mutant: an edge is counted once, however often the value refers.        *)
AddEdgeOnce ==
  /\ Scanning
  /\ r <= Len(list[i].refs)
  /\ HasEdge(RefKey)
  /\ succ' = [succ EXCEPT ![Index(RefKey)] = Append(@, i)]
  /\ indeg' = [indeg EXCEPT ![i] =
                 IF \E k \in 1..(r - 1) : list[i].refs[k] = list[i].refs[r]
                   THEN @ ELSE @ + 1]
  /\ r' = r + 1
  /\ UNCHANGED <<list, spice, pc, i, ready, left, order>>

AddEdge ==
  /\ Scanning
  /\ r <= Len(list[i].refs)
  /\ HasEdge(RefKey)
  /\ succ' = [succ EXCEPT ![Index(RefKey)] = Append(@, i)]
  /\ indeg' = [indeg EXCEPT ![i] = @ + 1]
  /\ r' = r + 1
  /\ UNCHANGED <<list, spice, pc, i, ready, left, order>>

SkipReference ==
  /\ Scanning
  /\ r <= Len(list[i].refs)
  /\ ~HasEdge(RefKey)
  /\ r' = r + 1
  /\ UNCHANGED <<list, spice, pc, i, succ, indeg, ready, left, order>>

NextParam ==
  /\ Scanning
  /\ r > Len(list[i].refs)
  /\ i' = i + 1
  /\ r' = 1
  /\ UNCHANGED <<list, spice, pc, succ, indeg, ready, left, order>>

Seed ==
  /\ pc = "edges"
  /\ i > N
  /\ ready' = {k \in 1..N : indeg[k] = 0}
  /\ pc' = "pop"
  /\ UNCHANGED <<list, spice, i, r, succ, indeg, left, order>>

(* Mutant: the heap gives the last in the source.                          *)
PopLast ==
  /\ pc = "pop"
  /\ ready # {}
  /\ order' = Append(order, Max(ready))
  /\ left' = succ[Max(ready)]
  /\ ready' = ready \ {Max(ready)}
  /\ pc' = "relax"
  /\ UNCHANGED <<list, spice, i, r, succ, indeg>>

Pop ==
  /\ pc = "pop"
  /\ ready # {}
  /\ order' = Append(order, Min(ready))
  /\ left' = succ[Min(ready)]
  /\ ready' = ready \ {Min(ready)}
  /\ pc' = "relax"
  /\ UNCHANGED <<list, spice, i, r, succ, indeg>>

Relax ==
  /\ pc = "relax"
  /\ left # << >>
  /\ indeg' = [indeg EXCEPT ![Head(left)] = @ - 1]
  /\ ready' = IF indeg'[Head(left)] = 0 THEN ready \cup {Head(left)} ELSE ready
  /\ left' = Tail(left)
  /\ UNCHANGED <<list, spice, pc, i, r, succ, order>>

Relaxed ==
  /\ pc = "relax"
  /\ left = << >>
  /\ pc' = "pop"
  /\ UNCHANGED <<list, spice, i, r, succ, indeg, ready, left, order>>

(* Mutant: the loop waits for every parameter to be placed.                *)
FinishAllPlaced ==
  /\ pc = "pop"
  /\ Len(order) = N
  /\ pc' = "done"
  /\ UNCHANGED <<list, spice, i, r, succ, indeg, ready, left, order>>

Finish ==
  /\ pc = "pop"
  /\ ready = {}
  /\ pc' = "done"
  /\ UNCHANGED <<list, spice, i, r, succ, indeg, ready, left, order>>

Finished == pc = "done" /\ UNCHANGED vars

Step ==
  \/ AddEdge \/ SkipReference \/ NextParam \/ Seed
  \/ Pop \/ Relax \/ Relaxed \/ Finish

Next == Step \/ Finished

(* param_order is sequential code that nothing interrupts.                 *)
Spec == Init /\ [][Next]_vars /\ WF_vars(Step)

-----------------------------------------------------------------------------
(* What the callers do with the outcome.                                   *)
SourceOrder == [k \in 1..N |-> k]

(* ordered, checked_source_order: the parameters in the order they leave.  *)
Emitted == IF spice \/ Outcome = "cycle" THEN SourceOrder ELSE order

(* An error is reported with them.                                         *)
Reported == Outcome = "cycle"

TypeOK ==
  /\ pc \in {"edges", "pop", "relax", "done"}
  /\ i \in 1..(N + 1)
  /\ r \in Nat \ {0}
  /\ succ \in [1..N -> Seq(1..N)]
  /\ indeg \in [1..N -> Nat]
  /\ ready \subseteq 1..N
  /\ left \in Seq(1..N)
  /\ order \in Seq(1..N)

(* Kahn's algorithm does what is promised: each step of the heap places    *)
(* the first parameter, in source order, all of whose references have been *)
(* placed, and it gives up only when there is none (param_order).          *)
KeepsPromise == Promise!Init /\ [][Promise!Next]_(Promise!vars)

(* In-degrees never underflow and never lie: between two pops every        *)
(* parameter counts exactly its references to parameters not placed yet,   *)
(* and those that count none are in the heap (param_order).                *)
Outstanding(k) ==
  {q \in 1..Len(list[k].refs) :
     LET key == Promise!Key(list[k].refs[q])
     IN  Promise!Refers(k, key) /\ Promise!LastDef(key) \notin Promise!Placed}
InDegreesExact ==
  pc = "pop" =>
    /\ \A k \in 1..N : indeg[k] = Cardinality(Outstanding(k))
    /\ ready = Promise!Placeable

(* An error is reported for a parameter list exactly when it is cyclic,    *)
(* and then no parameter is lost (ordered, checked_source_order;           *)
(* "surfacing a true cycle ... while keeping the parameters").             *)
CyclesReported == pc = "done" => (Reported <=> Promise!Cyclic)

(* No definition is lost.  Every parameter leaves exactly once, where      *)
(* slots[i].take() finds it, and the last definition of a name, which      *)
(* references mean ("later wins") and the order is computed for, is still  *)
(* the last when the list leaves: unless an earlier definition of the name *)
(* waits, directly or through others, for it or for one behind it, and is  *)
(* moved behind it (param_order, ordered).                                 *)
WaitsFor(k) ==
  {j \in 1..N : \A S \in SUBSET (1..N) :
     Promise!Needs(k) \subseteq S /\ (\A h \in S : Promise!Needs(h) \subseteq S) => j \in S}
Of(key) == {j \in 1..N : Promise!Key(list[j].name) = key}
At(j) == CHOOSE q \in 1..N : Emitted[q] = j
DefinitionsSurvive ==
  pc = "done" =>
    /\ Len(Emitted) = N
    /\ \A k \in 1..N : \E q \in 1..N : Emitted[q] = k
    /\ \A key \in Promise!Defined :
         LET last == Promise!LastDef(key)
         IN  (\A j \in Of(key) \ {last} : \A h \in WaitsFor(j) : h < last)
               => \A j \in Of(key) : At(j) <= At(last)

(* The ordering ends on every list.                                        *)
Terminates == <>(pc = "done")
=============================================================================
