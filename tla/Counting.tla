------------------------------ MODULE Counting ------------------------------
(***************************************************************************)
(* Facts about numbers, sets of them and occurrences in sequences that the *)
(* proofs of several components need.                                      *)
(***************************************************************************)
EXTENDS Integers, Sequences, FiniteSets, SequenceTheorems, FunctionTheorems,
        FiniteSetTheorems, TLAPS

(* How often e occurs in the sequence s.                                   *)
Occurrences(s, e) == {p \in 1..Len(s) : s[p] = e}
Times(s, e) == Cardinality(Occurrences(s, e))

-----------------------------------------------------------------------------
(* A non-empty set of naturals has a least element.                        *)
LEMMA LeastExists ==
  ASSUME NEW S \in SUBSET Nat, S # {}
  PROVE  \E x \in S : \A y \in S : x <= y
  <1> DEFINE R == OpToRel(<, Nat)
  <1>1. \E x \in S : \A y \in S : <<y, x>> \notin R
    <2>1. IsWellFoundedOn(R, Nat)
      BY NatLessThanWellFounded
    <2> HIDE DEF R
    <2> QED
      BY <2>1, WFMin
  <1>2. \A x, y \in S : <<y, x>> \notin R => x <= y
    BY DEF OpToRel
  <1> HIDE DEF R
  <1> QED
    BY <1>1, <1>2

(* A non-empty set of naturals with a bound has a greatest element.        *)
LEMMA GreatestExists ==
  ASSUME NEW n \in Nat, NEW S \in SUBSET (0..n), S # {}
  PROVE  \E x \in S : \A y \in S : y <= x
  <1> DEFINE T == {z \in 0..n : n - z \in S}
  <1>1. T \in SUBSET Nat /\ T # {}
    <2>1. PICK x \in S : TRUE
      OBVIOUS
    <2>2. n - x \in 0..n /\ n - (n - x) = x
      OBVIOUS
    <2>3. n - x \in T
      BY <2>1, <2>2
    <2>4. T \in SUBSET Nat
      OBVIOUS
    <2> HIDE DEF T
    <2> QED
      BY <2>3, <2>4
  <1>2. PICK x \in T : \A y \in T : x <= y
    BY <1>1, LeastExists
  <1>3. n - x \in S
    BY <1>2
  <1>4. ASSUME NEW y \in S PROVE y <= n - x
    <2>1. n - y \in T
      OBVIOUS
    <2> QED
      BY <1>2, <2>1
  <1> QED
    BY <1>3, <1>4

-----------------------------------------------------------------------------
LEMMA RangeFinite == \A n \in Nat : IsFiniteSet(1..n) /\ Cardinality(1..n) = n
  BY FS_Interval

(* The occurrences in a sequence are finitely many.                        *)
LEMMA OccurrencesFinite ==
  ASSUME NEW S, NEW s \in Seq(S), NEW e
  PROVE  /\ IsFiniteSet(Occurrences(s, e))
         /\ Times(s, e) \in Nat
         /\ Times(s, e) = 0 <=> \A p \in 1..Len(s) : s[p] # e
  <1>1. IsFiniteSet(1..Len(s))
    BY FS_Interval, LenProperties
  <1>2. IsFiniteSet(Occurrences(s, e))
    BY <1>1, FS_Subset DEF Occurrences
  <1>3. Times(s, e) \in Nat
    BY <1>2, FS_CardinalityType DEF Times
  <1>4. Times(s, e) = 0 <=> Occurrences(s, e) = {}
    BY <1>2, FS_EmptySet DEF Times
  <1> QED
    BY <1>2, <1>3, <1>4 DEF Occurrences

LEMMA TimesEmpty == \A e : Times(<< >>, e) = 0
  <1> TAKE e
  <1>1. Occurrences(<< >>, e) = {}
    <2>1. Len(<< >>) = 0
      OBVIOUS
    <2>2. 1..Len(<< >>) = {}
      BY <2>1
    <2> QED
      BY <2>2, Zenon DEF Occurrences
  <1> QED
    BY <1>1, FS_EmptySet DEF Times

(* Appending an element adds one to its own occurrences only.              *)
LEMMA TimesAppend ==
  ASSUME NEW S, NEW s \in Seq(S), NEW f \in S, NEW e
  PROVE  /\ f = e => Times(Append(s, f), e) = Times(s, e) + 1
         /\ f # e => Times(Append(s, f), e) = Times(s, e)
  <1> DEFINE t == Append(s, f)
             n == Len(s) + 1
  <1>1. /\ Len(s) \in Nat
        /\ Len(t) = n
        /\ \A p \in 1..Len(s) : t[p] = s[p]
        /\ t[n] = f
    BY AppendProperties, LenProperties
  <1>2. IsFiniteSet(Occurrences(s, e)) /\ Times(s, e) \in Nat
    BY OccurrencesFinite
  <1>3. CASE f = e
    <2>1. Occurrences(t, e) = Occurrences(s, e) \cup {n}
      BY <1>1, <1>3 DEF Occurrences
    <2>2. n \notin Occurrences(s, e)
      BY <1>1 DEF Occurrences
    <2> HIDE DEF t, n
    <2>3. Times(t, e) = Times(s, e) + 1
      BY <1>2, <2>1, <2>2, FS_AddElement DEF Times
    <2> QED
      BY <1>3, <2>3 DEF t
  <1>4. CASE f # e
    <2>1. Occurrences(t, e) = Occurrences(s, e)
      BY <1>1, <1>4 DEF Occurrences
    <2>2. Times(t, e) = Times(s, e)
      BY <2>1 DEF Times
    <2> QED
      BY <1>2, <1>4, <2>2
  <1> QED
    BY <1>3, <1>4

(* Taking the first element away takes one from its own occurrences only.  *)
LEMMA TimesTail ==
  ASSUME NEW S, NEW s \in Seq(S), s # << >>, NEW e
  PROVE  /\ Head(s) = e => Times(Tail(s), e) = Times(s, e) - 1
         /\ Head(s) # e => Times(Tail(s), e) = Times(s, e)
  <1> DEFINE t == Tail(s)
             A == Occurrences(t, e)
             B == Occurrences(s, e) \ {1}
             f == [p \in A |-> p + 1]
  <1>1. /\ Len(s) \in Nat \ {0}
        /\ Len(t) = Len(s) - 1
        /\ \A p \in 1..Len(t) : t[p] = s[p + 1]
        /\ t \in Seq(S)
        /\ Head(s) = s[1]
    BY HeadTailProperties, LenProperties, EmptySeq
  <1>2. /\ IsFiniteSet(Occurrences(s, e)) /\ Times(s, e) \in Nat
        /\ IsFiniteSet(A)
    BY <1>1, OccurrencesFinite
  <1>3. f \in Bijection(A, B)
    <2>1. \A p \in A : p + 1 \in B
      BY <1>1 DEF Occurrences
    <2>2. \A p, q \in A : p + 1 = q + 1 => p = q
      BY DEF Occurrences
    <2>3. \A b \in B : \E p \in A : p + 1 = b
      <3> SUFFICES ASSUME NEW b \in B PROVE \E p \in A : p + 1 = b
        OBVIOUS
      <3>1. b - 1 \in A
        BY <1>1 DEF Occurrences
      <3>2. (b - 1) + 1 = b
        BY DEF Occurrences
      <3> QED
        BY <3>1, <3>2
    <2> HIDE DEF A, B
    <2> QED
      BY <2>1, <2>2, <2>3, Fun_IsBij, Zenon
  <1>4. Cardinality(B) = Times(t, e)
    <2> HIDE DEF A, B, f
    <2>1. Cardinality(B) = Cardinality(A)
      BY <1>2, <1>3, FS_Bijection DEF ExistsBijection
    <2> QED
      BY <2>1 DEF A, Times
  <1>5. 1 \in Occurrences(s, e) <=> Head(s) = e
    BY <1>1 DEF Occurrences
  <1>6. Cardinality(B) =
          IF 1 \in Occurrences(s, e) THEN Times(s, e) - 1 ELSE Times(s, e)
    BY <1>2, FS_RemoveElement DEF Times
  <1> QED
    BY <1>2, <1>4, <1>5, <1>6

(* A set and a part of it split by a condition count up.                   *)
LEMMA SplitCount ==
  ASSUME NEW A, IsFiniteSet(A), NEW B, NEW C, A = B \cup C, B \cap C = {}
  PROVE  /\ Cardinality(A) = Cardinality(B) + Cardinality(C)
         /\ Cardinality(A) \in Nat /\ Cardinality(B) \in Nat
         /\ Cardinality(C) \in Nat
  <1>1. IsFiniteSet(B) /\ IsFiniteSet(C)
    BY FS_Subset
  <1>2. Cardinality(A) = Cardinality(B) + Cardinality(C) - Cardinality(B \cap C)
    BY <1>1, FS_Union
  <1>3. Cardinality(B \cap C) = 0
    BY FS_EmptySet
  <1>4. /\ Cardinality(A) \in Nat /\ Cardinality(B) \in Nat
        /\ Cardinality(C) \in Nat
    BY <1>1, FS_CardinalityType
  <1> QED
    BY <1>2, <1>3, <1>4
=============================================================================
