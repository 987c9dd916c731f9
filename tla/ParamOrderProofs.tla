-------------------------- MODULE ParamOrderProofs --------------------------
(***************************************************************************)
(* For every parameter list: Kahn's algorithm as the bridge runs it keeps  *)
(* the promise of DependencyOrder, counts its in-degrees exactly, reports  *)
(* an error exactly for a cycle, and loses no definition.                  *)
(***************************************************************************)
EXTENDS ParamOrder, Counting

(* The references of parameter k that are edges, those the edge loop has   *)
(* seen, and the parameter a reference means.                              *)
Edges(k) ==
  {q \in 1..Len(list[k].refs) : Promise!Refers(k, Promise!Key(list[k].refs[q]))}
Seen(k) ==
  {q \in Edges(k) : pc # "edges" \/ k < i \/ (k = i /\ q < r)}
Target(k, q) == Promise!LastDef(Promise!Key(list[k].refs[q]))

(* The references of k to parameters that have not been placed.            *)
Open(k) == {q \in Seen(k) : Target(k, q) \notin Promise!Placed}

(* What was placed before the parameter at place p.                        *)
Before(p) == {order[q] : q \in 1..(p - 1)}

InputOK == list \in Lists /\ spice \in BOOLEAN

(* The edge loop begins with nothing and leaves the heap alone; only the   *)
(* relaxation has successors left; the loop ends with an empty heap.       *)
PhaseOK ==
  /\ pc = "edges" => order = << >> /\ ready = {}
  /\ pc # "relax" => left = << >>
  /\ pc = "done" => ready = {}
  /\ pc = "edges" /\ i <= N => r <= Len(list[i].refs) + 1

(* A parameter is a successor of another as often as it refers to it.      *)
SuccExact ==
  \A j, k \in 1..N :
    Times(succ[j], k) = Cardinality({q \in Seen(k) : Target(k, q) = j})

(* An in-degree counts the open references, and those to the parameter     *)
(* popped last that have not been relaxed yet.                             *)
CountExact ==
  \A k \in 1..N : indeg[k] = Cardinality(Open(k)) + Times(left, k)

HeapExact ==
  pc # "edges" => ready = {k \in (1..N) \ Promise!Placed : indeg[k] = 0}

PlacedCountNone == \A k \in Promise!Placed : indeg[k] = 0

(* At each place stands the first of the parameters that could stand there.*)
Greedy ==
  \A p \in 1..Len(order) :
    /\ order[p] \notin Before(p)
    /\ Promise!Needs(order[p]) \subseteq Before(p)
    /\ \A k \in (1..N) \ Before(p) :
         Promise!Needs(k) \subseteq Before(p) => order[p] <= k

(* No parameter of a cycle is ever placed.                                 *)
CyclesUnplaced ==
  \A S \in SUBSET (1..N) :
    (\A k \in S : Promise!Needs(k) \cap S # {}) => S \cap Promise!Placed = {}

IInv ==
  /\ TypeOK
  /\ InputOK
  /\ PhaseOK
  /\ SuccExact
  /\ CountExact
  /\ HeapExact
  /\ PlacedCountNone
  /\ Greedy
  /\ CyclesUnplaced

-----------------------------------------------------------------------------
(* The input, and what references mean.                                    *)
LEMMA ListShape ==
  ASSUME InputOK
  PROVE  /\ N \in Nat
         /\ N = Promise!N
         /\ \A k \in 1..N : /\ list[k].name \in Names
                            /\ list[k].refs \in Seq(Names)
                            /\ Len(list[k].refs) \in Nat
                            /\ \A q \in 1..Len(list[k].refs) : list[k].refs[q] \in Names
  <1>1. list \in Seq([name : Names, refs : Seq(Names)])
    BY ListsAssumption DEF InputOK
  <1>2. N \in Nat /\ \A k \in 1..N : list[k] \in [name : Names, refs : Seq(Names)]
    BY <1>1, LenProperties, ElementOfSeq DEF N
  <1>3. \A s \in Seq(Names) : Len(s) \in Nat /\ \A q \in 1..Len(s) : s[q] \in Names
    BY LenProperties, ElementOfSeq
  <1> QED
    BY <1>2, <1>3 DEF N, Promise!N

(* A name that is defined has a last definition (index.insert in           *)
(* param_order).                                                           *)
LEMMA LastDefOK ==
  ASSUME InputOK, NEW key \in Promise!Defined
  PROVE  /\ Promise!LastDef(key) \in 1..N
         /\ Promise!Key(list[Promise!LastDef(key)].name) = key
         /\ \A h \in 1..N :
              Promise!Key(list[h].name) = key => h <= Promise!LastDef(key)
  <1> DEFINE S == {h \in 1..N : Promise!Key(list[h].name) = key}
  <1>1. N \in Nat /\ N = Promise!N
    BY ListShape
  <1>2. S # {} /\ S \in SUBSET (0..N)
    BY <1>1 DEF Promise!Defined
  <1>3. PICK x \in S : \A y \in S : y <= x
    <2> HIDE DEF S
    <2> QED
      BY <1>1, <1>2, GreatestExists
  <1>4. /\ x \in 1..Promise!N
        /\ Promise!Key(list[x].name) = key
        /\ \A h \in (x + 1)..Promise!N : Promise!Key(list[h].name) # key
    BY <1>1, <1>3
  <1> DEFINE L == Promise!LastDef(key)
  <1>5. /\ L \in 1..Promise!N
        /\ Promise!Key(list[L].name) = key
        /\ \A h \in (L + 1)..Promise!N : Promise!Key(list[h].name) # key
    BY <1>4 DEF Promise!LastDef
  <1>6. \A h \in 1..N : Promise!Key(list[h].name) = key => h <= L
    <2> HIDE DEF L, S
    <2> QED
      BY <1>1, <1>5
  <1> QED
    BY <1>1, <1>5, <1>6

LEMMA IndexIsLastDef == \A key : Index(key) = Promise!LastDef(key)
  BY DEF Index, Promise!LastDef, N, Promise!N

(* An edge leads to another parameter of the list.                         *)
LEMMA EdgeOK ==
  ASSUME InputOK, NEW k \in 1..N, NEW q \in Edges(k)
  PROVE  Target(k, q) \in (1..N) \ {k}
  <1> DEFINE key == Promise!Key(list[k].refs[q])
  <1>1. key # Promise!Key(list[k].name) /\ key \in Promise!Defined
    BY DEF Edges, Promise!Refers
  <1>2. /\ Promise!LastDef(key) \in 1..N
        /\ Promise!Key(list[Promise!LastDef(key)].name) = key
    <2> HIDE DEF key
    <2> QED
      BY <1>1, LastDefOK
  <1> QED
    BY <1>1, <1>2 DEF Target

LEMMA NeedsAreTargets ==
  ASSUME InputOK, NEW k \in 1..N
  PROVE  /\ Promise!Needs(k) = {Target(k, q) : q \in Edges(k)}
         /\ Promise!Needs(k) \subseteq (1..N) \ {k}
  <1>1. Promise!Needs(k) = {Target(k, q) : q \in Edges(k)}
    BY DEF Promise!Needs, Target, Edges
  <1> QED
    BY <1>1, EdgeOK

LEMMA EdgesFinite ==
  ASSUME InputOK, NEW k \in 1..N
  PROVE  /\ IsFiniteSet(Edges(k))
         /\ \A S \in SUBSET Edges(k) :
              /\ IsFiniteSet(S)
              /\ Cardinality(S) \in Nat
              /\ Cardinality(S) = 0 <=> S = {}
  <1>1. IsFiniteSet(1..Len(list[k].refs))
    BY ListShape, RangeFinite
  <1>2. IsFiniteSet(Edges(k))
    BY <1>1, FS_Subset DEF Edges
  <1>3. \A S \in SUBSET Edges(k) : IsFiniteSet(S)
    BY <1>2, FS_Subset
  <1> QED
    BY <1>2, <1>3, FS_CardinalityType, FS_EmptySet

(* The guard of the edge loop is the promise's.                            *)
LEMMA HasEdgeIsEdge ==
  ASSUME InputOK, i \in 1..N, r \in 1..Len(list[i].refs)
  PROVE  HasEdge(RefKey) <=> r \in Edges(i)
  BY DEF HasEdge, RefKey, Edges, Promise!Refers, Promise!Defined, N, Promise!N

(* The input never changes, and what is said about it does not either.     *)
LEMMA SameInput ==
  ASSUME list' = list, spice' = spice
  PROVE  /\ N' = N
         /\ \A k : /\ Edges(k)' = Edges(k)
                   /\ Promise!Needs(k)' = Promise!Needs(k)
                   /\ \A q : Target(k, q)' = Target(k, q)
  <1>1. N' = N /\ Promise!N' = Promise!N
    BY DEF N, Promise!N
  <1>2. \A n : Promise!Key(n)' = Promise!Key(n)
    BY DEF Promise!Key
  <1>3. Promise!Defined' = Promise!Defined
    BY <1>1, <1>2 DEF Promise!Defined
  <1>4. \A k, key : Promise!Refers(k, key)' = Promise!Refers(k, key)
    BY <1>2, <1>3 DEF Promise!Refers
  <1>5. \A key : Promise!LastDef(key)' = Promise!LastDef(key)
    BY <1>1, <1>2 DEF Promise!LastDef
  <1>6. \A k, q : Target(k, q)' = Target(k, q)
    BY <1>2, <1>5 DEF Target
  <1>7. \A k : Edges(k)' = Edges(k)
    BY <1>2, <1>4 DEF Edges
  <1>8. \A k : Promise!Needs(k)' = Promise!Needs(k)
    BY <1>2, <1>4, <1>5 DEF Promise!Needs
  <1> QED
    BY <1>1, <1>6, <1>7, <1>8

-----------------------------------------------------------------------------
LEMMA InitInv == Init => IInv
  <1> SUFFICES ASSUME Init PROVE IInv
    OBVIOUS
  <1>1. InputOK
    BY DEF Init, InputOK
  <1>2. N \in Nat /\ \A k \in 1..N : Len(list[k].refs) \in Nat
    BY <1>1, ListShape
  <1>3. \A S : << >> \in Seq(S) /\ Len(<< >>) = 0
    BY EmptySeq
  <1>4. TypeOK
    BY <1>2, <1>3 DEF Init, TypeOK
  <1>5. PhaseOK
    BY <1>2 DEF Init, PhaseOK
  <1>6. \A k \in 1..N : Seen(k) = {} /\ Open(k) = {}
    <2> SUFFICES ASSUME NEW k \in 1..N PROVE Seen(k) = {}
      BY DEF Open
    <2>1. \A q \in Edges(k) : q \in 1..Len(list[k].refs)
      BY DEF Edges
    <2>2. pc = "edges" /\ i = 1 /\ r = 1
      BY DEF Init
    <2> QED
      BY <1>2, <2>1, <2>2 DEF Seen
  <1>7. \A e : Times(<< >>, e) = 0
    BY TimesEmpty
  <1>8. Cardinality({}) = 0
    BY FS_EmptySet
  <1>9. SuccExact
    <2> SUFFICES ASSUME NEW j \in 1..N, NEW k \in 1..N
                 PROVE  Times(succ[j], k) = Cardinality({q \in Seen(k) : Target(k, q) = j})
      BY DEF SuccExact
    <2>1. succ[j] = << >>
      BY DEF Init
    <2>2. {q \in Seen(k) : Target(k, q) = j} = {}
      BY <1>6
    <2> QED
      BY <2>1, <2>2, <1>7, <1>8
  <1>10. CountExact
    <2> SUFFICES ASSUME NEW k \in 1..N
                 PROVE  indeg[k] = Cardinality(Open(k)) + Times(left, k)
      BY DEF CountExact
    <2>1. indeg[k] = 0 /\ left = << >>
      BY DEF Init
    <2>2. Open(k) = {}
      BY <1>6
    <2>3. Times(left, k) = 0
      BY <1>7, <2>1
    <2>4. Cardinality(Open(k)) = 0
      BY <1>8, <2>2
    <2> QED
      BY <2>1, <2>3, <2>4
  <1>11. Promise!Placed = {}
    BY <1>3 DEF Init, Promise!Placed
  <1>12. HeapExact /\ PlacedCountNone /\ CyclesUnplaced
    BY <1>11 DEF HeapExact, PlacedCountNone, CyclesUnplaced, Init
  <1>13. Greedy
    BY <1>3 DEF Greedy, Init
  <1> QED
    BY <1>1, <1>4, <1>5, <1>9, <1>10, <1>12, <1>13 DEF IInv

(* An edge is entered in both tables at once.                              *)
LEMMA AddEdgeInv == IInv /\ AddEdge => IInv'
  <1> SUFFICES ASSUME IInv, AddEdge PROVE IInv'
    OBVIOUS
  <1> DEFINE J == Target(i, r)
  <1>1. /\ TypeOK /\ InputOK /\ PhaseOK /\ SuccExact /\ CountExact
        /\ pc = "edges" /\ i \in 1..N /\ r \in 1..Len(list[i].refs)
        /\ order = << >> /\ left = << >> /\ ready = {}
    BY DEF IInv, AddEdge, Scanning, PhaseOK, TypeOK
  <1>2. /\ list' = list /\ spice' = spice /\ pc' = pc /\ i' = i /\ r' = r + 1
        /\ ready' = ready /\ left' = left /\ order' = order
        /\ succ' = [succ EXCEPT ![J] = Append(@, i)]
        /\ indeg' = [indeg EXCEPT ![i] = @ + 1]
    BY IndexIsLastDef DEF AddEdge, RefKey, Target
  <1>3. r \in Edges(i)
    BY <1>1, HasEdgeIsEdge DEF AddEdge
  <1>4. J \in (1..N) \ {i}
    BY <1>1, <1>3, EdgeOK
  <1>5. /\ N' = N
        /\ \A k : Edges(k)' = Edges(k) /\ Promise!Needs(k)' = Promise!Needs(k)
        /\ \A k, q : Target(k, q)' = Target(k, q)
    BY <1>2, SameInput
  <1>6. N \in Nat /\ \A k \in 1..N : Len(list[k].refs) \in Nat
    BY <1>1, ListShape
  <1>7. Promise!Placed = {} /\ Promise!Placed' = {}
    BY <1>1, <1>2, EmptySeq DEF Promise!Placed
  <1>8. /\ r \notin Seen(i)
        /\ \A k \in 1..N : k = i => Seen(k)' = Seen(k) \cup {r}
        /\ \A k \in 1..N : k # i => Seen(k)' = Seen(k)
    <2>1. \A k \in 1..N : Edges(k) \subseteq 1..Len(list[k].refs)
      BY DEF Edges
    <2>2. r \notin Seen(i)
      BY <1>1 DEF Seen
    <2>3. ASSUME NEW k \in 1..N, k = i
          PROVE  Seen(k)' = Seen(k) \cup {r}
      BY <1>1, <1>2, <1>3, <1>5, <1>6, <2>1, <2>3 DEF Seen
    <2>4. ASSUME NEW k \in 1..N, k # i
          PROVE  Seen(k)' = Seen(k)
      BY <2>4, <1>1, <1>2, <1>5, <1>6, <2>1 DEF Seen
    <2> QED
      BY <2>2, <2>3, <2>4
  <1>9. \A k \in 1..N : Open(k) = Seen(k) /\ Open(k)' = Seen(k)'
    BY <1>7 DEF Open
  <1>10. TypeOK'
    <2>1. succ[J] \in Seq(1..N)
      BY <1>1, <1>4 DEF TypeOK
    <2>2. Append(succ[J], i) \in Seq(1..N)
      BY <1>1, <2>1, AppendProperties
    <2>3. succ' \in [1..N -> Seq(1..N)]
      BY <1>1, <1>2, <1>4, <2>2 DEF TypeOK
    <2>4. indeg' \in [1..N -> Nat]
      BY <1>1, <1>2 DEF TypeOK
    <2> QED
      BY <1>1, <1>2, <1>5, <2>3, <2>4 DEF TypeOK
  <1>11. InputOK' /\ PhaseOK'
    BY <1>1, <1>2, <1>5, <1>6 DEF InputOK, PhaseOK
  <1>12. SuccExact'
    <2> SUFFICES ASSUME NEW j \in 1..N, NEW k \in 1..N
                 PROVE  Times(succ'[j], k)
                          = Cardinality({q \in Seen(k)' : Target(k, q) = j})
      BY <1>5 DEF SuccExact
    <2> DEFINE A == {q \in Seen(k) : Target(k, q) = j}
    <2>1. succ[j] \in Seq(1..N) /\ Times(succ[j], k) = Cardinality(A)
      BY <1>1 DEF TypeOK, SuccExact
    <2>2. IsFiniteSet(A)
      <3>1. A \in SUBSET Edges(k)
        BY DEF Seen
      <3> QED
        BY <1>1, <3>1, EdgesFinite
    <2>a. /\ k = i => Times(Append(succ[j], i), k) = Times(succ[j], k) + 1
          /\ k # i => Times(Append(succ[j], i), k) = Times(succ[j], k)
      <3>1. succ[j] \in Seq(1..N) /\ i \in 1..N
        BY <1>1, <2>1
      <3> HIDE DEF A
      <3> QED
        BY ONLY <3>1, TimesAppend
    <2>b. Times(succ[j], k) \in Nat
      BY <2>1, OccurrencesFinite
    <2>3. CASE j = J /\ k = i
      <3>1. succ'[j] = Append(succ[j], i)
        BY <1>1, <1>2, <2>3 DEF TypeOK
      <3>2. Times(succ'[j], k) = Times(succ[j], k) + 1
        BY <2>3, <2>a, <3>1
      <3>3. {q \in Seen(k)' : Target(k, q) = j} = A \cup {r} /\ r \notin A
        BY <1>8, <2>3
      <3>4. Cardinality(A \cup {r}) = Cardinality(A) + 1
        BY <2>2, <3>3, FS_AddElement
      <3> QED
        BY <2>1, <3>2, <3>3, <3>4
    <2>4. CASE j = J /\ k # i
      <3>1. succ'[j] = Append(succ[j], i)
        BY <1>1, <1>2, <2>4 DEF TypeOK
      <3>2. Times(succ'[j], k) = Times(succ[j], k)
        BY <2>4, <2>a, <2>b, <3>1
      <3>3. {q \in Seen(k)' : Target(k, q) = j} = A
        BY <1>8, <2>4
      <3> QED
        BY <2>1, <3>2, <3>3
    <2>5. CASE j # J
      <3>1. succ'[j] = succ[j]
        BY <1>1, <1>2, <2>5 DEF TypeOK
      <3>2. {q \in Seen(k)' : Target(k, q) = j} = A
        BY <1>8, <2>5
      <3> QED
        BY <2>1, <3>1, <3>2
    <2> QED
      BY <2>3, <2>4, <2>5
  <1>13. CountExact'
    <2> SUFFICES ASSUME NEW k \in 1..N
                 PROVE  indeg'[k] = Cardinality(Seen(k)') + Times(left, k)
      BY <1>2, <1>5, <1>9 DEF CountExact
    <2>1. indeg[k] = Cardinality(Seen(k)) + Times(left, k)
      BY <1>1, <1>9 DEF CountExact
    <2>2. Times(left, k) \in Nat
      BY <1>1, OccurrencesFinite DEF TypeOK
    <2>3. CASE k = i
      <3>1. IsFiniteSet(Seen(i)) /\ Cardinality(Seen(i)) \in Nat
        <4>1. Seen(i) \in SUBSET Edges(i)
          BY DEF Seen
        <4> QED
          BY <1>1, <4>1, EdgesFinite
      <3>2. Cardinality(Seen(i) \cup {r}) = Cardinality(Seen(i)) + 1
        BY <1>8, <3>1, FS_AddElement
      <3>3. indeg'[i] = indeg[i] + 1
        BY <1>1, <1>2 DEF TypeOK
      <3> QED
        BY <1>8, <2>1, <2>2, <2>3, <3>1, <3>2, <3>3
    <2>4. CASE k # i
      BY <1>1, <1>2, <1>8, <2>1, <2>4 DEF TypeOK
    <2> QED
      BY <2>3, <2>4
  <1>14. HeapExact' /\ PlacedCountNone' /\ CyclesUnplaced' /\ Greedy'
    <2>1. HeapExact' /\ PlacedCountNone'
      BY <1>1, <1>2, <1>7 DEF HeapExact, PlacedCountNone
    <2>2. CyclesUnplaced'
      BY <1>7 DEF CyclesUnplaced
    <2>3. Greedy'
      BY <1>1, <1>2, EmptySeq DEF Greedy
    <2> QED
      BY <2>1, <2>2, <2>3
  <1> QED
    BY <1>10, <1>11, <1>12, <1>13, <1>14 DEF IInv

(* Steps that leave the tables, the order and the edges seen as they are.  *)
LEMMA SameTables ==
  ASSUME IInv,
         list' = list, spice' = spice, succ' = succ, indeg' = indeg,
         left' = left, order' = order,
         \A k \in 1..N : Seen(k)' = Seen(k)
  PROVE  /\ InputOK' /\ SuccExact' /\ CountExact'
         /\ PlacedCountNone' /\ Greedy' /\ CyclesUnplaced'
         /\ Promise!Placed' = Promise!Placed
         /\ N' = N
  <1>1. /\ N' = N
        /\ \A k : Edges(k)' = Edges(k) /\ Promise!Needs(k)' = Promise!Needs(k)
        /\ \A k, q : Target(k, q)' = Target(k, q)
    BY SameInput
  <1>2. Promise!Placed' = Promise!Placed
    BY DEF Promise!Placed
  <1>3. \A p : Before(p)' = Before(p)
    BY DEF Before
  <1>4. \A k \in 1..N : Open(k)' = Open(k)
    BY <1>1, <1>2 DEF Open
  <1>5. InputOK'
    BY DEF IInv, InputOK
  <1>6. SuccExact'
    <2> SUFFICES ASSUME NEW j \in 1..N, NEW k \in 1..N
                 PROVE  Times(succ[j], k)
                          = Cardinality({q \in Seen(k)' : Target(k, q) = j})
      BY <1>1 DEF SuccExact
    <2>1. Times(succ[j], k) = Cardinality({q \in Seen(k) : Target(k, q) = j})
      BY DEF IInv, SuccExact
    <2> QED
      BY <2>1
  <1>7. CountExact'
    BY <1>1, <1>4 DEF IInv, CountExact
  <1>8. PlacedCountNone'
    BY <1>2 DEF IInv, PlacedCountNone
  <1>9. Greedy'
    BY <1>1, <1>3 DEF IInv, Greedy
  <1>10. CyclesUnplaced'
    BY <1>1, <1>2 DEF IInv, CyclesUnplaced
  <1> QED
    BY <1>1, <1>2, <1>5, <1>6, <1>7, <1>8, <1>9, <1>10

LEMMA SkipReferenceInv == IInv /\ SkipReference => IInv'
  <1> SUFFICES ASSUME IInv, SkipReference PROVE IInv'
    OBVIOUS
  <1>1. /\ TypeOK /\ InputOK /\ PhaseOK /\ HeapExact
        /\ pc = "edges" /\ i \in 1..N /\ r \in 1..Len(list[i].refs)
    BY DEF IInv, SkipReference, Scanning, TypeOK
  <1>2. /\ r' = r + 1 /\ list' = list /\ spice' = spice /\ pc' = pc /\ i' = i
        /\ succ' = succ /\ indeg' = indeg /\ ready' = ready /\ left' = left
        /\ order' = order
    BY DEF SkipReference
  <1>3. r \notin Edges(i)
    BY <1>1, HasEdgeIsEdge DEF SkipReference
  <1>4. N \in Nat /\ \A k \in 1..N : Len(list[k].refs) \in Nat
    BY <1>1, ListShape
  <1>5. ASSUME NEW k \in 1..N PROVE Seen(k)' = Seen(k)
    <2>1. Edges(k)' = Edges(k) /\ \A q \in Edges(k) : q \in 1..Len(list[k].refs)
      BY <1>2, SameInput DEF Edges
    <2> QED
      BY <1>1, <1>2, <1>3, <1>4, <2>1 DEF Seen
  <1>6. /\ InputOK' /\ SuccExact' /\ CountExact'
        /\ PlacedCountNone' /\ Greedy' /\ CyclesUnplaced'
        /\ N' = N
    BY <1>2, <1>5, SameTables
  <1>7. TypeOK'
    BY <1>1, <1>2, <1>6 DEF TypeOK
  <1>8. PhaseOK' /\ HeapExact'
    BY <1>1, <1>2, <1>4, <1>6 DEF PhaseOK, HeapExact
  <1> QED
    BY <1>6, <1>7, <1>8 DEF IInv

LEMMA NextParamInv == IInv /\ NextParam => IInv'
  <1> SUFFICES ASSUME IInv, NextParam PROVE IInv'
    OBVIOUS
  <1>1. /\ TypeOK /\ InputOK /\ PhaseOK /\ HeapExact
        /\ pc = "edges" /\ i \in 1..N /\ r > Len(list[i].refs)
    BY DEF IInv, NextParam, Scanning, TypeOK
  <1>2. /\ i' = i + 1 /\ r' = 1 /\ list' = list /\ spice' = spice /\ pc' = pc
        /\ succ' = succ /\ indeg' = indeg /\ ready' = ready /\ left' = left
        /\ order' = order
    BY DEF NextParam
  <1>3. N \in Nat /\ \A k \in 1..N : Len(list[k].refs) \in Nat
    BY <1>1, ListShape
  <1>4. ASSUME NEW k \in 1..N PROVE Seen(k)' = Seen(k)
    <2>1. Edges(k)' = Edges(k) /\ \A q \in Edges(k) : q \in 1..Len(list[k].refs)
      BY <1>2, SameInput DEF Edges
    <2>2. r \in Nat
      BY <1>1 DEF TypeOK
    <2>3. CASE k = i
      BY <1>1, <1>2, <1>3, <2>1, <2>2, <2>3 DEF Seen
    <2>4. CASE k # i
      BY <1>1, <1>2, <1>3, <2>1, <2>2, <2>4 DEF Seen
    <2> QED
      BY <2>3, <2>4
  <1>5. /\ InputOK' /\ SuccExact' /\ CountExact'
        /\ PlacedCountNone' /\ Greedy' /\ CyclesUnplaced'
        /\ N' = N
    BY <1>2, <1>4, SameTables
  <1>6. TypeOK'
    BY <1>1, <1>2, <1>3, <1>5 DEF TypeOK
  <1>7. PhaseOK' /\ HeapExact'
    BY <1>1, <1>2, <1>3, <1>5 DEF PhaseOK, HeapExact
  <1> QED
    BY <1>5, <1>6, <1>7 DEF IInv

(* The heap begins with every parameter that has no reference.             *)
LEMMA SeedInv == IInv /\ Seed => IInv'
  <1> SUFFICES ASSUME IInv, Seed PROVE IInv'
    OBVIOUS
  <1>1. /\ TypeOK /\ InputOK /\ PhaseOK /\ pc = "edges" /\ i > N
        /\ order = << >> /\ left = << >>
    BY DEF IInv, Seed, PhaseOK
  <1>2. /\ ready' = {k \in 1..N : indeg[k] = 0} /\ pc' = "pop"
        /\ list' = list /\ spice' = spice /\ i' = i /\ r' = r
        /\ succ' = succ /\ indeg' = indeg /\ left' = left /\ order' = order
    BY DEF Seed
  <1>3. N \in Nat
    BY <1>1, ListShape
  <1>4. ASSUME NEW k \in 1..N PROVE Seen(k)' = Seen(k)
    <2>1. Edges(k)' = Edges(k)
      BY <1>2, SameInput
    <2>2. k < i
      BY <1>1, <1>3 DEF TypeOK
    <2> QED
      BY <1>1, <1>2, <2>1, <2>2 DEF Seen
  <1>5. /\ InputOK' /\ SuccExact' /\ CountExact'
        /\ PlacedCountNone' /\ Greedy' /\ CyclesUnplaced'
        /\ N' = N /\ Promise!Placed' = Promise!Placed
    BY <1>2, <1>4, SameTables
  <1>6. Promise!Placed = {}
    BY <1>1, EmptySeq DEF Promise!Placed
  <1>7. TypeOK'
    BY <1>1, <1>2, <1>5 DEF TypeOK
  <1>8. PhaseOK'
    BY <1>1, <1>2 DEF PhaseOK
  <1>9. HeapExact'
    BY <1>2, <1>5, <1>6 DEF HeapExact
  <1> QED
    BY <1>5, <1>7, <1>8, <1>9 DEF IInv

LEMMA RelaxedInv == IInv /\ Relaxed => IInv'
  <1> SUFFICES ASSUME IInv, Relaxed PROVE IInv'
    OBVIOUS
  <1>1. /\ TypeOK /\ PhaseOK /\ HeapExact /\ pc = "relax" /\ left = << >>
    BY DEF IInv, Relaxed
  <1>2. /\ pc' = "pop" /\ list' = list /\ spice' = spice /\ i' = i /\ r' = r
        /\ succ' = succ /\ indeg' = indeg /\ ready' = ready /\ left' = left
        /\ order' = order
    BY DEF Relaxed
  <1>3. ASSUME NEW k \in 1..N PROVE Seen(k)' = Seen(k)
    BY <1>1, <1>2, SameInput DEF Seen
  <1>4. /\ InputOK' /\ SuccExact' /\ CountExact'
        /\ PlacedCountNone' /\ Greedy' /\ CyclesUnplaced'
        /\ N' = N /\ Promise!Placed' = Promise!Placed
    BY <1>2, <1>3, SameTables
  <1>5. TypeOK' /\ PhaseOK' /\ HeapExact'
    BY <1>1, <1>2, <1>4 DEF TypeOK, PhaseOK, HeapExact
  <1> QED
    BY <1>4, <1>5 DEF IInv

LEMMA FinishInv == IInv /\ Finish => IInv'
  <1> SUFFICES ASSUME IInv, Finish PROVE IInv'
    OBVIOUS
  <1>1. /\ TypeOK /\ PhaseOK /\ HeapExact /\ pc = "pop" /\ ready = {}
    BY DEF IInv, Finish
  <1>2. /\ pc' = "done" /\ list' = list /\ spice' = spice /\ i' = i /\ r' = r
        /\ succ' = succ /\ indeg' = indeg /\ ready' = ready /\ left' = left
        /\ order' = order
    BY DEF Finish
  <1>3. ASSUME NEW k \in 1..N PROVE Seen(k)' = Seen(k)
    BY <1>1, <1>2, SameInput DEF Seen
  <1>4. /\ InputOK' /\ SuccExact' /\ CountExact'
        /\ PlacedCountNone' /\ Greedy' /\ CyclesUnplaced'
        /\ N' = N /\ Promise!Placed' = Promise!Placed
    BY <1>2, <1>3, SameTables
  <1>5. TypeOK' /\ PhaseOK' /\ HeapExact'
    BY <1>1, <1>2, <1>4 DEF TypeOK, PhaseOK, HeapExact
  <1> QED
    BY <1>4, <1>5 DEF IInv

(* While nothing is left to relax, the heap holds exactly the parameters   *)
(* that can be placed.                                                     *)
LEMMA HeapIsPlaceable ==
  ASSUME IInv, pc \in {"pop", "done"}
  PROVE  /\ \A k \in 1..N : /\ indeg[k] = Cardinality(Open(k))
                            /\ Open(k) = {q \in Edges(k) : Target(k, q) \notin Promise!Placed}
                            /\ indeg[k] = 0 <=> Promise!Needs(k) \subseteq Promise!Placed
         /\ ready = Promise!Placeable
  <1>1. left = << >> /\ InputOK
    BY DEF IInv, PhaseOK
  <1>2. ASSUME NEW k \in 1..N
        PROVE  /\ indeg[k] = Cardinality(Open(k))
               /\ Open(k) = {q \in Edges(k) : Target(k, q) \notin Promise!Placed}
               /\ indeg[k] = 0 <=> Promise!Needs(k) \subseteq Promise!Placed
    <2>1. Open(k) = {q \in Edges(k) : Target(k, q) \notin Promise!Placed}
      BY DEF Open, Seen
    <2>2. Cardinality(Open(k)) \in Nat /\ (Cardinality(Open(k)) = 0 <=> Open(k) = {})
      BY <1>1, <2>1, EdgesFinite
    <2>3. indeg[k] = Cardinality(Open(k))
      <3>1. indeg[k] = Cardinality(Open(k)) + Times(left, k)
        BY DEF IInv, CountExact
      <3>2. Times(left, k) = 0
        BY <1>1, TimesEmpty
      <3> QED
        BY <2>2, <3>1, <3>2
    <2>4. Promise!Needs(k) = {Target(k, q) : q \in Edges(k)}
      BY <1>1, NeedsAreTargets
    <2>5. Open(k) = {} <=> Promise!Needs(k) \subseteq Promise!Placed
      BY <2>1, <2>4
    <2> QED
      BY <2>1, <2>2, <2>3, <2>5
  <1>3. ready = {k \in (1..N) \ Promise!Placed : indeg[k] = 0}
    BY DEF IInv, HeapExact
  <1>4. N = Promise!N
    BY DEF N, Promise!N
  <1> QED
    BY <1>2, <1>3, <1>4 DEF Promise!Placeable

(* The heap gives its least element.                                       *)
LEMMA MinOfHeap ==
  ASSUME TypeOK, InputOK, ready # {}
  PROVE  Min(ready) \in ready /\ \A k \in ready : Min(ready) <= k
  <1>1. ready \in SUBSET Nat
    BY ListShape DEF TypeOK
  <1>2. \E x \in ready : \A y \in ready : x <= y
    BY <1>1, LeastExists
  <1> QED
    BY <1>2 DEF Min

LEMMA AppendPlaced ==
  ASSUME order \in Seq(1..N), NEW m \in 1..N, order' = Append(order, m)
  PROVE  /\ Promise!Placed' = Promise!Placed \cup {m}
         /\ Len(order') = Len(order) + 1 /\ Len(order) \in Nat
         /\ order'[Len(order) + 1] = m
         /\ \A p \in 1..Len(order) : order'[p] = order[p]
         /\ \A p \in 1..(Len(order) + 1) : Before(p)' = Before(p)
         /\ Before(Len(order) + 1) = Promise!Placed
  <1>1. /\ Len(order') = Len(order) + 1 /\ Len(order) \in Nat
        /\ order'[Len(order) + 1] = m
        /\ \A p \in 1..Len(order) : order'[p] = order[p]
    BY AppendProperties, LenProperties
  <1>2. Promise!Placed' = {order'[p] : p \in 1..(Len(order) + 1)}
    BY <1>1 DEF Promise!Placed
  <1>3. Promise!Placed' = Promise!Placed \cup {m}
    BY <1>1, <1>2 DEF Promise!Placed
  <1>4. ASSUME NEW p \in 1..(Len(order) + 1) PROVE Before(p)' = Before(p)
    <2>1. \A q \in 1..(p - 1) : order'[q] = order[q]
      BY <1>1
    <2> QED
      BY <2>1 DEF Before
  <1>5. Before(Len(order) + 1) = Promise!Placed
    <2>1. (Len(order) + 1) - 1 = Len(order)
      BY <1>1
    <2> QED
      BY <2>1 DEF Before, Promise!Placed
  <1> QED
    BY <1>1, <1>3, <1>4, <1>5

(* The next parameter is the first that can be placed.                     *)
LEMMA PopInv == IInv /\ Pop => IInv'
  <1> SUFFICES ASSUME IInv, Pop PROVE IInv'
    OBVIOUS
  <1>1. PICK m : m = Min(ready)
    OBVIOUS
  <1>2. /\ TypeOK /\ InputOK /\ PhaseOK /\ HeapExact /\ pc = "pop" /\ left = << >>
        /\ ready # {}
    BY DEF IInv, PhaseOK, Pop
  <1>3. /\ order' = Append(order, m) /\ left' = succ[m] /\ ready' = ready \ {m}
        /\ pc' = "relax" /\ list' = list /\ spice' = spice /\ i' = i /\ r' = r
        /\ succ' = succ /\ indeg' = indeg
    BY <1>1 DEF Pop
  <1>4. m \in ready /\ m \in 1..N /\ \A k \in ready : m <= k
    BY <1>1, <1>2, MinOfHeap DEF TypeOK
  <1>5. /\ m \notin Promise!Placed /\ indeg[m] = 0
        /\ Promise!Needs(m) \subseteq Promise!Placed
        /\ \A k \in (1..N) \ Promise!Placed :
             Promise!Needs(k) \subseteq Promise!Placed => k \in ready
    BY <1>2, <1>4, HeapIsPlaceable DEF HeapExact
  <1>6. /\ N' = N
        /\ \A k : Edges(k)' = Edges(k) /\ Promise!Needs(k)' = Promise!Needs(k)
        /\ \A k, q : Target(k, q)' = Target(k, q)
    BY <1>3, SameInput
  <1>7. /\ Promise!Placed' = Promise!Placed \cup {m}
        /\ Len(order') = Len(order) + 1 /\ Len(order) \in Nat
        /\ order'[Len(order) + 1] = m
        /\ \A p \in 1..Len(order) : order'[p] = order[p]
        /\ \A p \in 1..(Len(order) + 1) : Before(p)' = Before(p)
        /\ Before(Len(order) + 1) = Promise!Placed
    BY <1>2, <1>3, <1>4, AppendPlaced DEF TypeOK
  <1>8. \A k \in 1..N : Seen(k)' = Seen(k) /\ Seen(k) = Edges(k)
    BY <1>2, <1>3, <1>6 DEF Seen
  <1>9. TypeOK'
    <2>1. order' \in Seq(1..N)
      BY <1>2, <1>3, <1>4, AppendProperties DEF TypeOK
    <2>2. left' \in Seq(1..N)
      BY <1>2, <1>3, <1>4 DEF TypeOK
    <2> QED
      BY <1>2, <1>3, <1>6, <2>1, <2>2 DEF TypeOK
  <1>10. InputOK' /\ PhaseOK'
    BY <1>2, <1>3 DEF InputOK, PhaseOK
  <1>11. SuccExact'
    <2> SUFFICES ASSUME NEW j \in 1..N, NEW k \in 1..N
                 PROVE  Times(succ[j], k)
                          = Cardinality({q \in Seen(k) : Target(k, q) = j})
      BY <1>3, <1>6, <1>8 DEF SuccExact
    <2> QED
      BY DEF IInv, SuccExact
  <1>12. CountExact'
    <2> SUFFICES ASSUME NEW k \in 1..N
                 PROVE  indeg[k] = Cardinality(Open(k)') + Times(succ[m], k)
      BY <1>3, <1>6 DEF CountExact
    <2>1. PICK A : A = Open(k)
      OBVIOUS
    <2>2. PICK B : B = Open(k)'
      OBVIOUS
    <2>3. PICK C : C = {q \in Seen(k) : Target(k, q) = m}
      OBVIOUS
    <2>4. A = {q \in Edges(k) : Target(k, q) \notin Promise!Placed}
      BY <1>2, <2>1, HeapIsPlaceable
    <2>5. B = {q \in Edges(k) : Target(k, q) \notin Promise!Placed \cup {m}}
      BY <1>6, <1>7, <1>8, <2>2 DEF Open
    <2>6. A = B \cup C /\ B \cap C = {}
      BY <1>5, <1>8, <2>3, <2>4, <2>5
    <2>7. IsFiniteSet(A) /\ indeg[k] = Cardinality(A)
      <3>1. A \in SUBSET Edges(k)
        BY <2>4
      <3> QED
        BY <1>2, <2>1, <3>1, EdgesFinite, HeapIsPlaceable
    <2>8. Cardinality(A) = Cardinality(B) + Cardinality(C)
      BY ONLY <2>6, <2>7, SplitCount
    <2>9. Times(succ[m], k) = Cardinality(C)
      BY <1>4, <2>3 DEF IInv, SuccExact
    <2> QED
      BY <2>2, <2>7, <2>8, <2>9
  <1>13. HeapExact'
    BY <1>2, <1>3, <1>6, <1>7 DEF HeapExact
  <1>14. PlacedCountNone'
    BY <1>3, <1>5, <1>7 DEF IInv, PlacedCountNone
  <1>15. Greedy'
    <2> SUFFICES ASSUME NEW p \in 1..(Len(order) + 1)
                 PROVE  /\ order'[p] \notin Before(p)
                        /\ Promise!Needs(order'[p]) \subseteq Before(p)
                        /\ \A k \in (1..N) \ Before(p) :
                             Promise!Needs(k) \subseteq Before(p) => order'[p] <= k
      BY <1>6, <1>7 DEF Greedy
    <2>1. CASE p = Len(order) + 1
      BY <1>4, <1>5, <1>7, <2>1
    <2>2. CASE p \in 1..Len(order)
      BY <1>7, <2>2 DEF IInv, Greedy
    <2> QED
      BY <1>7, <2>1, <2>2
  <1>16. CyclesUnplaced'
    <2> SUFFICES ASSUME NEW S \in SUBSET (1..N),
                        \A k \in S : Promise!Needs(k) \cap S # {}
                 PROVE  S \cap (Promise!Placed \cup {m}) = {}
      BY <1>6, <1>7 DEF CyclesUnplaced
    <2>1. S \cap Promise!Placed = {}
      BY DEF IInv, CyclesUnplaced
    <2> QED
      BY <1>5, <2>1
  <1> QED
    BY <1>9, <1>10, <1>11, <1>12, <1>13, <1>14, <1>15, <1>16 DEF IInv

(* A successor loses one reference, and joins the heap with its last one.  *)
LEMMA RelaxInv == IInv /\ Relax => IInv'
  <1> SUFFICES ASSUME IInv, Relax PROVE IInv'
    OBVIOUS
  <1>1. PICK h : h = Head(left)
    OBVIOUS
  <1>2. /\ TypeOK /\ InputOK /\ PhaseOK /\ HeapExact /\ CountExact
        /\ PlacedCountNone /\ pc = "relax" /\ left # << >>
    BY DEF IInv, Relax
  <1>3. /\ indeg' = [indeg EXCEPT ![h] = @ - 1]
        /\ ready' = IF indeg'[h] = 0 THEN ready \cup {h} ELSE ready
        /\ left' = Tail(left) /\ pc' = pc /\ list' = list /\ spice' = spice
        /\ i' = i /\ r' = r /\ succ' = succ /\ order' = order
    BY <1>1 DEF Relax
  <1>4. h \in 1..N /\ left \in Seq(1..N) /\ Tail(left) \in Seq(1..N)
    BY <1>1, <1>2, HeadTailProperties DEF TypeOK
  <1>5. /\ N' = N
        /\ \A k : Edges(k)' = Edges(k) /\ Promise!Needs(k)' = Promise!Needs(k)
        /\ \A k, q : Target(k, q)' = Target(k, q)
    BY <1>3, SameInput
  <1>6. Promise!Placed' = Promise!Placed /\ \A p : Before(p)' = Before(p)
    BY <1>3 DEF Promise!Placed, Before
  <1>7. \A k \in 1..N : /\ Seen(k)' = Seen(k) /\ Open(k)' = Open(k)
                        /\ Cardinality(Open(k)) \in Nat
    <2> SUFFICES ASSUME NEW k \in 1..N
                 PROVE  /\ Seen(k)' = Seen(k) /\ Open(k)' = Open(k)
                        /\ Cardinality(Open(k)) \in Nat
      OBVIOUS
    <2>1. Seen(k)' = Seen(k)
      BY <1>2, <1>3, <1>5 DEF Seen
    <2>2. Open(k)' = Open(k)
      BY <1>5, <1>6, <2>1 DEF Open
    <2>3. Open(k) \in SUBSET Edges(k)
      BY DEF Open, Seen
    <2> QED
      BY <1>2, <2>1, <2>2, <2>3, EdgesFinite
  <1>8. \A k \in 1..N : /\ Times(left, k) \in Nat
                        /\ k = h => Times(Tail(left), k) = Times(left, k) - 1
                        /\ k # h => Times(Tail(left), k) = Times(left, k)
                        /\ Times(Tail(left), k) \in Nat
    <2> TAKE k \in 1..N
    <2>1. Times(left, k) \in Nat /\ Times(Tail(left), k) \in Nat
      BY <1>4, OccurrencesFinite
    <2>2. /\ k = h => Times(Tail(left), k) = Times(left, k) - 1
          /\ k # h => Times(Tail(left), k) = Times(left, k)
      BY <1>1, <1>2, <1>4, TimesTail
    <2> QED
      BY <2>1, <2>2
  <1>9. indeg[h] \in Nat \ {0} /\ h \notin Promise!Placed /\ h \notin ready
    <2>1. indeg[h] = Cardinality(Open(h)) + Times(left, h)
      BY <1>2, <1>4 DEF CountExact
    <2>2. indeg[h] \in Nat \ {0}
      BY <1>4, <1>7, <1>8, <2>1
    <2> QED
      BY <1>2, <2>2 DEF PlacedCountNone, HeapExact
  <1>10. /\ indeg'[h] = indeg[h] - 1
         /\ \A k \in (1..N) \ {h} : indeg'[k] = indeg[k]
         /\ indeg' \in [1..N -> Nat]
    BY <1>2, <1>3, <1>4, <1>9 DEF TypeOK
  <1>11. TypeOK'
    BY <1>2, <1>3, <1>4, <1>5, <1>10 DEF TypeOK
  <1>12. InputOK' /\ PhaseOK'
    BY <1>2, <1>3 DEF InputOK, PhaseOK
  <1>13. SuccExact'
    <2> SUFFICES ASSUME NEW j \in 1..N, NEW k \in 1..N
                 PROVE  Times(succ[j], k)
                          = Cardinality({q \in Seen(k) : Target(k, q) = j})
      BY <1>3, <1>5, <1>7 DEF SuccExact
    <2> QED
      BY DEF IInv, SuccExact
  <1>14. CountExact'
    <2> SUFFICES ASSUME NEW k \in 1..N
                 PROVE  indeg'[k] = Cardinality(Open(k)) + Times(Tail(left), k)
      BY <1>3, <1>5, <1>7 DEF CountExact
    <2>1. indeg[k] = Cardinality(Open(k)) + Times(left, k)
      BY <1>2 DEF CountExact
    <2> QED
      BY <1>7, <1>8, <1>10, <2>1
  <1>15. HeapExact'
    <2>1. ready = {k \in (1..N) \ Promise!Placed : indeg[k] = 0}
      BY <1>2 DEF HeapExact
    <2>2. ready' = {k \in (1..N) \ Promise!Placed : indeg'[k] = 0}
      <3>1. CASE indeg'[h] = 0
        BY <1>3, <1>4, <1>9, <1>10, <2>1, <3>1
      <3>2. CASE indeg'[h] # 0
        BY <1>3, <1>4, <1>9, <1>10, <2>1, <3>2
      <3> QED
        BY <3>1, <3>2
    <2> QED
      BY <1>5, <1>6, <2>2 DEF HeapExact
  <1>16. PlacedCountNone'
    <2>1. \A k \in Promise!Placed : k \in 1..N /\ k # h
      BY <1>2, <1>9, ElementOfSeq DEF TypeOK, Promise!Placed
    <2> QED
      BY <1>2, <1>6, <1>10, <2>1 DEF PlacedCountNone
  <1>17. Greedy'
    BY <1>3, <1>5, <1>6 DEF IInv, Greedy
  <1>18. CyclesUnplaced'
    BY <1>5, <1>6 DEF IInv, CyclesUnplaced
  <1> QED
    BY <1>11, <1>12, <1>13, <1>14, <1>15, <1>16, <1>17, <1>18 DEF IInv

LEMMA StepInv == IInv /\ [Next]_vars => IInv'
  <1> SUFFICES ASSUME IInv, [Next]_vars PROVE IInv'
    OBVIOUS
  <1>1. CASE UNCHANGED vars
    <2>1. /\ list' = list /\ spice' = spice /\ pc' = pc /\ i' = i /\ r' = r
          /\ succ' = succ /\ indeg' = indeg /\ ready' = ready /\ left' = left
          /\ order' = order
      BY <1>1 DEF vars
    <2>2. ASSUME NEW k \in 1..N PROVE Seen(k)' = Seen(k)
      BY <2>1, SameInput DEF Seen
    <2>3. /\ InputOK' /\ SuccExact' /\ CountExact'
          /\ PlacedCountNone' /\ Greedy' /\ CyclesUnplaced'
          /\ N' = N /\ Promise!Placed' = Promise!Placed
      BY <2>1, <2>2, SameTables
    <2>4. TypeOK' /\ PhaseOK' /\ HeapExact'
      BY <2>1, <2>3 DEF IInv, TypeOK, PhaseOK, HeapExact
    <2> QED
      BY <2>3, <2>4 DEF IInv
  <1>2. CASE AddEdge
    BY <1>2, AddEdgeInv
  <1>3. CASE SkipReference
    BY <1>3, SkipReferenceInv
  <1>4. CASE NextParam
    BY <1>4, NextParamInv
  <1>5. CASE Seed
    BY <1>5, SeedInv
  <1>6. CASE Pop
    BY <1>6, PopInv
  <1>7. CASE Relax
    BY <1>7, RelaxInv
  <1>8. CASE Relaxed
    BY <1>8, RelaxedInv
  <1>9. CASE Finish
    BY <1>9, FinishInv
  <1> QED
    BY <1>1, <1>2, <1>3, <1>4, <1>5, <1>6, <1>7, <1>8, <1>9
       DEF Next, Step, Finished

(* The inductive invariant holds for every set of parameter lists          *)
(* (param_order).                                                          *)
THEOREM OrderInvariant == Spec => []IInv
  <1>1. Init => IInv
    BY InitInv
  <1>2. IInv /\ [Next]_vars => IInv'
    BY StepInv
  <1> QED
    BY <1>1, <1>2, PTL DEF Spec

(* The ordering keeps its type on every list: no in-degree underflows      *)
(* (param_order).                                                          *)
THEOREM TypeCorrect == Spec => []TypeOK
  <1>1. IInv => TypeOK
    BY DEF IInv
  <1> QED
    BY <1>1, OrderInvariant, PTL

(* Between two pops every in-degree is exact and the heap holds what can   *)
(* be placed, on every list (param_order).                                 *)
THEOREM InDegreesAlwaysExact == Spec => []InDegreesExact
  <1>1. IInv => InDegreesExact
    <2> SUFFICES ASSUME IInv, pc = "pop"
                 PROVE  /\ \A k \in 1..N : indeg[k] = Cardinality(Outstanding(k))
                        /\ ready = Promise!Placeable
      BY DEF InDegreesExact
    <2>1. /\ \A k \in 1..N : indeg[k] = Cardinality(Open(k))
          /\ \A k \in 1..N :
               Open(k) = {q \in Edges(k) : Target(k, q) \notin Promise!Placed}
          /\ ready = Promise!Placeable
      BY HeapIsPlaceable
    <2>2. \A k : Outstanding(k) = {q \in Edges(k) : Target(k, q) \notin Promise!Placed}
      BY DEF Outstanding, Edges, Target
    <2> QED
      BY <2>1, <2>2
  <1> QED
    BY <1>1, OrderInvariant, PTL

-----------------------------------------------------------------------------
(* No parameter is placed twice, so the order is complete when it is as    *)
(* long as the list.                                                       *)
LEMMA CompleteByLength ==
  ASSUME IInv
  PROVE  /\ \A p, q \in 1..Len(order) : order[p] = order[q] => p = q
         /\ Len(order) = Len(list) <=> Promise!Placed = 1..N
         /\ Promise!Placed \subseteq 1..N
  <1>1. /\ order \in Seq(1..N) /\ Len(order) \in Nat
        /\ order \in [1..Len(order) -> 1..N] /\ N \in Nat /\ N = Len(list)
    BY LenProperties, ListShape DEF IInv, TypeOK, N
  <1>2. \A p, q \in 1..Len(order) : order[p] = order[q] => p = q
    <2>1. \A p, q \in 1..Len(order) : q < p => order[p] # order[q]
      <3> SUFFICES ASSUME NEW p \in 1..Len(order), NEW q \in 1..Len(order), q < p
                   PROVE  order[p] # order[q]
        OBVIOUS
      <3>1. order[p] \notin Before(p)
        BY DEF IInv, Greedy
      <3>2. order[q] \in Before(p)
        BY <1>1 DEF Before
      <3> QED
        BY <3>1, <3>2
    <2> QED
      BY <1>1, <2>1
  <1>3. order \in Injection(1..Len(order), 1..N)
    BY <1>1, <1>2 DEF Injection, IsInjective
  <1>4. Cardinality(1..Len(order)) = Len(order) /\ Cardinality(1..N) = N
        /\ IsFiniteSet(1..N)
    BY <1>1, RangeFinite
  <1>5. Len(order) = N <=> order \in Surjection(1..Len(order), 1..N)
    BY <1>3, <1>4, FS_Injection
  <1>6. order \in Surjection(1..Len(order), 1..N) <=> Promise!Placed = 1..N
    BY <1>1 DEF Surjection, Promise!Placed
  <1>7. Promise!Placed \subseteq 1..N
    BY <1>1 DEF Promise!Placed
  <1> QED
    BY <1>1, <1>2, <1>5, <1>6, <1>7

(* When the loop ends, what is not placed is a cycle.                      *)
LEMMA DoneCyclic ==
  ASSUME IInv, pc = "done"
  PROVE  Promise!Cyclic <=> Promise!Placed # 1..N
  <1>1. /\ InputOK /\ Promise!Placed \subseteq 1..N /\ N = Promise!N
        /\ Promise!Placeable = {}
    BY CompleteByLength, HeapIsPlaceable DEF IInv, PhaseOK, N, Promise!N
  <1>2. ASSUME Promise!Cyclic PROVE Promise!Placed # 1..N
    <2>1. PICK S \in SUBSET (1..N) :
            S # {} /\ \A k \in S : Promise!Needs(k) \cap S # {}
      BY <1>1, <1>2 DEF Promise!Cyclic
    <2>2. S \cap Promise!Placed = {}
      BY <2>1 DEF IInv, CyclesUnplaced
    <2> QED
      BY <2>1, <2>2
  <1>3. ASSUME Promise!Placed # 1..N PROVE Promise!Cyclic
    <2> DEFINE S == (1..N) \ Promise!Placed
    <2>1. S \in SUBSET (1..N) /\ S # {}
      BY <1>1, <1>3
    <2>2. ASSUME NEW k \in S PROVE Promise!Needs(k) \cap S # {}
      <3>1. ~(Promise!Needs(k) \subseteq Promise!Placed)
        BY <1>1 DEF Promise!Placeable
      <3>2. Promise!Needs(k) \subseteq 1..N
        BY <1>1, NeedsAreTargets
      <3> QED
        BY <3>1, <3>2
    <2> QED
      BY <1>1, <2>1, <2>2 DEF Promise!Cyclic
  <1> QED
    BY <1>2, <1>3

(* An error is reported exactly for a cyclic list, whatever the list       *)
(* (ordered, checked_source_order).                                        *)
THEOREM CyclesAlwaysReported == Spec => []CyclesReported
  <1>1. IInv => CyclesReported
    <2> SUFFICES ASSUME IInv, pc = "done" PROVE Reported <=> Promise!Cyclic
      BY DEF CyclesReported
    <2>1. Reported <=> Len(order) # Len(list)
      BY DEF Reported, Outcome
    <2> QED
      BY <2>1, CompleteByLength, DoneCyclic
  <1> QED
    BY <1>1, OrderInvariant, PTL

-----------------------------------------------------------------------------
(* Kahn's algorithm implements the promise: a pop places the first of the  *)
(* parameters that can be placed, the end of the loop concludes, and every *)
(* other step is a stutter, for every list (param_order).                  *)
THEOREM ImplementsPromise == Spec => KeepsPromise
  <1>1. Init => Promise!Init
    BY DEF Init, Promise!Init, Outcome
  <1>2. IInv /\ [Next]_vars => [Promise!Next]_(Promise!vars)
    <2> SUFFICES ASSUME IInv, [Next]_vars PROVE [Promise!Next]_(Promise!vars)
      OBVIOUS
    <2> DEFINE Stutter ==
          list' = list /\ spice' = spice /\ order' = order /\ pc # "done" /\ pc' # "done"
    <2>1. ASSUME Stutter PROVE UNCHANGED Promise!vars
      BY <2>1 DEF Promise!vars, Outcome
    <2>2. CASE AddEdge \/ SkipReference \/ NextParam \/ Seed \/ Relax \/ Relaxed
      <3>1. Stutter
        BY <2>2 DEF AddEdge, SkipReference, NextParam, Seed, Relax, Relaxed, Scanning
      <3> QED
        BY <2>1, <3>1
    <2>3. CASE Pop
      <3>1. PICK m : m = Min(ready)
        OBVIOUS
      <3>2. /\ pc = "pop" /\ pc' = "relax" /\ ready # {}
            /\ list' = list /\ spice' = spice /\ order' = Append(order, m)
        BY <2>3, <3>1 DEF Pop
      <3>3. ready = Promise!Placeable
        BY <3>2, HeapIsPlaceable
      <3>4. m \in ready /\ \A k \in ready : m <= k
        BY <3>1, <3>2, MinOfHeap DEF IInv
      <3>5. m \in 1..Promise!N
        BY <3>3, <3>4 DEF Promise!Placeable
      <3>6. Outcome = "ordering" /\ Outcome' = "ordering"
        BY <3>2 DEF Outcome
      <3>7. Promise!Place(m)
        BY <3>2, <3>3, <3>4, <3>6 DEF Promise!Place
      <3> QED
        BY <3>5, <3>7 DEF Promise!Next
    <2>4. CASE Finish
      <3>1. /\ pc = "pop" /\ pc' = "done" /\ ready = {}
            /\ list' = list /\ spice' = spice /\ order' = order
        BY <2>4 DEF Finish
      <3>2. Promise!Placeable = {}
        BY <3>1, HeapIsPlaceable
      <3>3. Len(order) = Len(list) <=> Promise!Placed = 1..Promise!N
        BY CompleteByLength DEF N, Promise!N
      <3>4. /\ Outcome = "ordering"
            /\ Outcome' = IF Len(order) = Len(list) THEN "ordered" ELSE "cycle"
        BY <3>1 DEF Outcome
      <3>5. Promise!Conclude
        BY <3>1, <3>2, <3>3, <3>4 DEF Promise!Conclude
      <3> QED
        BY <3>5 DEF Promise!Next
    <2>5. CASE Finished \/ UNCHANGED vars
      BY <2>5 DEF Finished, vars, Promise!vars, Outcome
    <2> QED
      BY <2>2, <2>3, <2>4, <2>5 DEF Next, Step
  <1> QED
    BY <1>1, <1>2, OrderInvariant, PTL DEF Spec, KeepsPromise

-----------------------------------------------------------------------------
(* What a parameter waits for is closed under what is needed.              *)
LEMMA WaitsForClosed ==
  ASSUME InputOK, NEW j \in 1..N
  PROVE  /\ WaitsFor(j) \subseteq 1..N
         /\ Promise!Needs(j) \subseteq WaitsFor(j)
         /\ \A h \in WaitsFor(j) : Promise!Needs(h) \subseteq WaitsFor(j)
  <1>1. \A h \in 1..N : Promise!Needs(h) \subseteq 1..N
    BY NeedsAreTargets
  <1>2. Promise!Needs(j) \subseteq WaitsFor(j)
    BY <1>1 DEF WaitsFor
  <1>3. ASSUME NEW h \in WaitsFor(j), NEW g \in Promise!Needs(h)
        PROVE  g \in WaitsFor(j)
    <2>1. h \in 1..N /\ g \in 1..N
      BY <1>1, <1>3 DEF WaitsFor
    <2>2. ASSUME NEW S \in SUBSET (1..N), Promise!Needs(j) \subseteq S,
                 \A f \in S : Promise!Needs(f) \subseteq S
          PROVE  g \in S
      <3>1. h \in S
        BY <2>2 DEF WaitsFor
      <3> QED
        BY <2>2, <3>1
    <2> QED
      BY <2>1, <2>2 DEF WaitsFor
  <1> QED
    BY <1>2, <1>3 DEF WaitsFor

(* Where a complete order has its parameters.                              *)
LEMMA PlaceInOrder ==
  ASSUME IInv, Promise!Placed = 1..N, Emitted = order, Len(order) = N, NEW j \in 1..N
  PROVE  At(j) \in 1..N /\ order[At(j)] = j
  <1>1. \E q \in 1..N : Emitted[q] = j
    BY DEF Promise!Placed
  <1> QED
    BY <1>1 DEF At

(* In a complete order a definition stays before the last one of its name, *)
(* unless it waits for something behind that.                              *)
LEMMA StaysBefore ==
  ASSUME IInv, Promise!Placed = 1..N, Emitted = order, Len(order) = N,
         NEW last \in 1..N, NEW j \in 1..N, j < last,
         \A h \in WaitsFor(j) : h < last
  PROVE  At(j) <= At(last)
  <1> DEFINE p == At(last)
             S == ({j} \cup WaitsFor(j)) \ Before(p)
  <1>1. /\ p \in 1..N /\ order[p] = last /\ At(j) \in 1..N /\ order[At(j)] = j
        /\ InputOK /\ N \in Nat
    BY PlaceInOrder, ListShape DEF IInv
  <1> SUFFICES ASSUME p < At(j) PROVE FALSE
    BY <1>1
  <1>2. j \notin Before(p)
    <2> SUFFICES ASSUME NEW q \in 1..(p - 1), order[q] = j PROVE FALSE
      BY DEF Before
    <2>1. q = At(j)
      BY <1>1, CompleteByLength
    <2> QED
      BY <1>1, <2>1
  <1>3. /\ WaitsFor(j) \subseteq 1..N
        /\ Promise!Needs(j) \subseteq WaitsFor(j)
        /\ \A h \in WaitsFor(j) : Promise!Needs(h) \subseteq WaitsFor(j)
    BY <1>1, WaitsForClosed
  <1>4. S \in SUBSET (1..N) /\ S # {} /\ S \cap Promise!Placed # {}
    BY <1>2, <1>3
  <1>5. PICK k \in S : Promise!Needs(k) \cap S = {}
    <2> HIDE DEF S
    <2> QED
      BY <1>4 DEF IInv, CyclesUnplaced
  <1>6. k \in (1..N) \ Before(p) /\ Promise!Needs(k) \subseteq Before(p)
    BY <1>3, <1>5
  <1>7. order[p] <= k
    BY <1>1, <1>6 DEF IInv, Greedy
  <1>8. k < last
    BY <1>5
  <1> QED
    BY <1>1, <1>3, <1>5, <1>7, <1>8

(* No definition is lost and the last one of a name stays the last, unless *)
(* an earlier one waits for something behind it, for every list            *)
(* (param_order, ordered).                                                 *)
THEOREM DefinitionsAlwaysSurvive == Spec => []DefinitionsSurvive
  <1>1. IInv => DefinitionsSurvive
    <2> SUFFICES ASSUME IInv, pc = "done"
                 PROVE  /\ Len(Emitted) = N
                        /\ \A k \in 1..N : \E q \in 1..N : Emitted[q] = k
                        /\ \A key \in Promise!Defined :
                             (\A j \in Of(key) \ {Promise!LastDef(key)} :
                                \A h \in WaitsFor(j) : h < Promise!LastDef(key))
                               => \A j \in Of(key) : At(j) <= At(Promise!LastDef(key))
      BY DEF DefinitionsSurvive
    <2>1. InputOK /\ N \in Nat /\ N = Len(list)
      BY ListShape DEF IInv, N
    <2>2. \A key \in Promise!Defined :
            /\ Promise!LastDef(key) \in 1..N
            /\ \A j \in Of(key) : j \in 1..N /\ j <= Promise!LastDef(key)
      BY <2>1, LastDefOK DEF Of
    <2>3. CASE spice \/ Outcome = "cycle"
      <3>1. Emitted = [k \in 1..N |-> k]
        BY <2>3 DEF Emitted, SourceOrder
      <3>2. Len(Emitted) = N /\ \A k \in 1..N : Emitted[k] = k
        BY <2>1, <3>1
      <3>3. \A j \in 1..N : At(j) = j
        BY <3>2 DEF At
      <3>4. ASSUME NEW key \in Promise!Defined, NEW j \in Of(key)
            PROVE  At(j) <= At(Promise!LastDef(key))
        BY <2>2, <3>3, <3>4
      <3> QED
        BY <3>2, <3>4
    <2>4. CASE ~(spice \/ Outcome = "cycle")
      <3>1. Emitted = order /\ Len(order) = N
        BY <2>1, <2>4 DEF Emitted, Outcome
      <3>2. Promise!Placed = 1..N
        BY <2>1, <3>1, CompleteByLength
      <3>3. \A k \in 1..N : \E q \in 1..N : Emitted[q] = k
        BY <3>1, <3>2 DEF Promise!Placed
      <3>4. ASSUME NEW key \in Promise!Defined,
                   \A j \in Of(key) \ {Promise!LastDef(key)} :
                     \A h \in WaitsFor(j) : h < Promise!LastDef(key),
                   NEW j \in Of(key)
            PROVE  At(j) <= At(Promise!LastDef(key))
        <4>1. PICK last \in 1..N : last = Promise!LastDef(key)
          BY <2>2
        <4>2. j \in 1..N /\ j <= last
          BY <2>2, <4>1
        <4>3. CASE j = last
          BY <3>1, <3>2, <4>1, <4>3, PlaceInOrder
        <4>4. CASE j # last
          <5>1. j < last /\ \A h \in WaitsFor(j) : h < last
            BY <2>1, <3>4, <4>1, <4>2, <4>4
          <5> QED
            BY <3>1, <3>2, <4>1, <4>2, <5>1, StaysBefore
        <4> QED
          BY <4>3, <4>4
      <3> QED
        BY <3>1, <3>3, <3>4
    <2> QED
      BY <2>3, <2>4
  <1> QED
    BY <1>1, OrderInvariant, PTL
=============================================================================
