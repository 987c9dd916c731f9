-------------------------- MODULE LangSwitchProofs --------------------------
(***************************************************************************)
(* For every file: no text is emitted twice, text is lost only inside a    *)
(* token that the end of a region cuts, and up to the first return to      *)
(* Spectre every line is parsed in the language selected for it.           *)
(***************************************************************************)
EXTENDS LangSwitch, Counting

(* A subcircuit takes a line to open.                                      *)
NestingOK == 2 * depth <= at

(* Nothing behind the cursor is missing but the middle of a token, and     *)
(* nothing before it has been emitted.                                     *)
EmissionOK ==
  \A h \in Halves :
    /\ h >= at => owner[h] = "none"
    /\ h < at /\ owner[h] = "none" => ~TokenBegins(h)

DoneOK == pc = "done" => at = End

(* What follows is about files of lines that are whole statements.         *)
Whole == Flat /\ text.strings = {}

LinesDone == at \div 2

Cursor == at % 2 = 0 /\ depth = 0

(* The parser of the next line, once the driver has had its say.           *)
NextLang ==
  IF pc # "driver" THEN lang
  ELSE IF lang = "spectre"
       THEN IF lang_swapped THEN "spice" ELSE "spectre"
       ELSE IF swapped_back THEN "spectre" ELSE "spice"

(* The switches to a language among the lines done.                        *)
Past(kind) == {j \in Switches : j <= LinesDone /\ text.lines[j] = kind}

(* What the flags remember of the lines done: lang_swapped a switch to     *)
(* SPICE that Spectre has parsed, swapped_back the switch just parsed, and *)
(* title that nothing is done yet.                                         *)
FlagsOK ==
  /\ lang_swapped => Past("toSpice") # {}
  /\ lang = "spice" /\ pc = "statement" => ~swapped_back
  /\ lang = "spice" /\ pc = "driver" /\ swapped_back => LinesDone \in Past("toSpectre")
  /\ lang = "spectre" /\ text.start = "spice" => at > 0 \/ at = End
  /\ title <=> (text.start = "spice" /\ at = 0)

(* A Spectre parser that still has the flag set is one that was returned   *)
(* to.                                                                     *)
ReturnedOK ==
  lang = "spectre" /\ pc = "statement" /\ lang_swapped /\ at < End =>
    \E j \in Past("toSpice"), k \in Past("toSpectre") : j < k

(* Up to the first return the driver selects what the file does.           *)
SelectionOK ==
  at < End /\ ~Returned(LinesDone + 1) => NextLang = Selected(LinesDone + 1)

LinesOK == \A k \in 1..Len(text.lines) : ~Returned(k) => RightAt(k)

WholeInv ==
  Whole => Cursor /\ FlagsOK /\ ReturnedOK /\ SelectionOK /\ LinesOK

BaseInv == TypeOK /\ text \in Texts /\ NestingOK /\ EmissionOK /\ DoneOK

IInv == BaseInv /\ WholeInv

-----------------------------------------------------------------------------
(* Even places are the beginnings of lines.                                *)
LEMMA Evenness ==
  /\ \A n \in Nat : (2 * n) % 2 = 0 /\ (2 * n) \div 2 = n
  /\ \A n \in Nat : n % 2 = 0 => n \div 2 \in Nat /\ n = 2 * (n \div 2)
  /\ \A m, n \in Nat : m % 2 = 0 /\ n % 2 = 0 /\ m < n => m + 2 <= n
  OBVIOUS

LEMMA TextShape ==
  ASSUME text \in Texts
  PROVE  /\ Len(text.lines) \in Nat /\ End \in Nat /\ End = 2 * Len(text.lines)
         /\ End % 2 = 0
         /\ text.start \in Lang
         /\ \A k \in 1..Len(text.lines) : text.lines[k] \in LineKind
         /\ TokenBegins(End)
  <1>1. /\ text.start \in Lang
        /\ text.lines \in Seq(LineKind)
        /\ text.strings \subseteq (0..(2 * Len(text.lines))) \X (0..(2 * Len(text.lines)))
    BY TextsAssumption
  <1>2. /\ Len(text.lines) \in Nat
        /\ \A k \in 1..Len(text.lines) : text.lines[k] \in LineKind
    BY <1>1, LenProperties, ElementOfSeq
  <1>3. End \in Nat /\ End = 2 * Len(text.lines) /\ End % 2 = 0
    <2>1. PICK n \in Nat : n = Len(text.lines)
      BY <1>2
    <2>2. End = 2 * n
      BY <2>1 DEF End
    <2>3. 2 * n \in Nat /\ (2 * n) % 2 = 0
      OBVIOUS
    <2> QED
      BY <2>1, <2>2, <2>3
  <1>4. TokenBegins(End)
    <2> SUFFICES ASSUME NEW s \in text.strings PROVE ~(End < s[2])
      BY DEF TokenBegins
    <2>1. s[2] \in 0..End
      BY <1>1, <1>3
    <2> QED
      BY <1>3, <2>1
  <1> QED
    BY <1>1, <1>2, <1>3, <1>4

LEMMA FirstOK ==
  ASSUME NEW S \in SUBSET Nat, S # {}
  PROVE  First(S) \in S /\ \A x \in S : First(S) <= x
  BY LeastExists DEF First

(* A statement of one line ends at the beginning of a later one.           *)
LEMMA LineEnds ==
  ASSUME text \in Texts, NEW q \in 0..(End - 1)
  PROVE  /\ SpectreLineEnd(q) \in (q + 1)..End /\ SpectreLineEnd(q) % 2 = 0
         /\ SpiceLineEnd(q) \in (q + 1)..End /\ SpiceLineEnd(q) % 2 = 0
         /\ q % 2 = 0 => SpiceLineEnd(q) = q + 2
         /\ q % 2 = 0 /\ text.strings = {} => SpectreLineEnd(q) = q + 2
  <1> DEFINE A == {h \in (q + 1)..End : h % 2 = 0 /\ TokenBegins(h)}
             B == {h \in (q + 1)..End : h % 2 = 0}
  <1>1. End \in Nat /\ End % 2 = 0 /\ TokenBegins(End)
    BY TextShape
  <1>2. /\ A \in SUBSET Nat /\ B \in SUBSET Nat
        /\ End \in A /\ End \in B
    BY <1>1
  <1>3. /\ First(A) \in A /\ First(B) \in B
        /\ \A h \in A : First(A) <= h
        /\ \A h \in B : First(B) <= h
    <2> HIDE DEF A, B
    <2> QED
      BY <1>2, FirstOK
  <1>4. ASSUME q % 2 = 0 PROVE (q + 2) \in B /\ \A h \in B : q + 2 <= h
    <2>1. (q + 2) % 2 = 0
      BY <1>4
    <2>2. q + 2 <= End
      BY <1>1, <1>4, Evenness
    <2>3. \A h \in B : q + 2 <= h
      BY <1>1, <1>4, Evenness
    <2> QED
      BY <1>1, <2>1, <2>2, <2>3
  <1>5. text.strings = {} => A = B
    BY DEF TokenBegins
  <1>6. q % 2 = 0 => First(B) = q + 2
    BY <1>3, <1>4
  <1> QED
    BY <1>3, <1>5, <1>6 DEF SpectreLineEnd, SpiceLineEnd

(* The resynchronisation goes on at a token and skips only the rest of one.*)
LEMMA ResyncOK ==
  ASSUME text \in Texts, NEW q \in 0..End
  PROVE  /\ ResyncAt(q) \in q..End
         /\ \A h \in q..(ResyncAt(q) - 1) : ~TokenBegins(h)
         /\ text.strings = {} => ResyncAt(q) = q
  <1> DEFINE A == {h \in q..End : TokenBegins(h)}
  <1>1. End \in Nat /\ TokenBegins(End)
    BY TextShape
  <1>2. A \in SUBSET Nat /\ End \in A
    BY <1>1
  <1>3. First(A) \in A /\ \A h \in A : First(A) <= h
    <2> HIDE DEF A
    <2> QED
      BY <1>2, FirstOK
  <1>4. ASSUME NEW h \in q..(First(A) - 1) PROVE ~TokenBegins(h)
    BY <1>1, <1>3
  <1>5. text.strings = {} => q \in A
    BY <1>1 DEF TokenBegins
  <1>6. text.strings = {} => First(A) = q
    BY <1>1, <1>3, <1>5
  <1> QED
    BY <1>3, <1>4, <1>6 DEF ResyncAt

-----------------------------------------------------------------------------
LEMMA InitBase == Init => BaseInv
  <1> SUFFICES ASSUME Init PROVE BaseInv
    OBVIOUS
  <1>1. text \in Texts /\ End \in Nat /\ Len(text.lines) \in Nat /\ text.start \in Lang
    BY TextShape DEF Init
  <1>2. TypeOK
    <2>1. /\ at \in 0..End /\ lang \in Lang /\ depth \in 0..Len(text.lines)
          /\ pc \in {"statement", "driver", "done"}
          /\ owner \in [Halves -> Lang \cup {"none"}]
      BY <1>1 DEF Init
    <2>2. {lang_swapped, swapped_back, title} \subseteq BOOLEAN
      BY DEF Init
    <2> QED
      BY <2>1, <2>2 DEF TypeOK
  <1> QED
    BY <1>1, <1>2 DEF Init, BaseInv, NestingOK, EmissionOK, DoneOK, Halves

(* What a parser emits is its own, and was nobody's.                       *)
LEMMA EmitOK ==
  ASSUME BaseInv, text' = text, NEW q \in at..End, Emit(q)
  PROVE  /\ at' = q
         /\ owner' \in [Halves -> Lang \cup {"none"}]
         /\ EmissionOK'
         /\ \A h \in Halves : owner[h] \in {"none", owner'[h]}
  <1>1. /\ at' = q /\ owner' = [h \in Halves |-> IF at <= h /\ h < q THEN lang ELSE owner[h]]
        /\ lang \in Lang /\ owner \in [Halves -> Lang \cup {"none"}]
        /\ at \in 0..End /\ End \in Nat
    BY TextShape DEF Emit, BaseInv, TypeOK
  <1>2. \A h \in Halves : owner'[h] = IF at <= h /\ h < q THEN lang ELSE owner[h]
    BY <1>1
  <1>3. \A h \in Halves : /\ h >= at => owner[h] = "none"
                          /\ h < at /\ owner[h] = "none" => ~TokenBegins(h)
    BY DEF BaseInv, EmissionOK
  <1>4. Halves' = Halves /\ \A h : TokenBegins(h)' = TokenBegins(h)
    BY DEF Halves, End, TokenBegins
  <1>5. Halves \subseteq Nat
    BY <1>1 DEF Halves
  <1>6. EmissionOK'
    <2> SUFFICES ASSUME NEW h \in Halves
                 PROVE  /\ h >= q => owner'[h] = "none"
                        /\ h < q /\ owner'[h] = "none" => ~TokenBegins(h)
      BY <1>1, <1>4 DEF EmissionOK
    <2>1. lang # "none"
      BY <1>1 DEF Lang
    <2> QED
      BY <1>1, <1>2, <1>3, <1>5, <2>1
  <1>7. owner' \in [Halves -> Lang \cup {"none"}]
    BY <1>1
  <1> QED
    BY <1>1, <1>2, <1>3, <1>5, <1>6, <1>7

(* A line opens or closes at most one subcircuit.                          *)
LEMMA SpectreDepths ==
  ASSUME NEW k, NEW ok \in BOOLEAN
  PROVE  \/ SpectreDepth(k, ok) = 0
         \/ SpectreDepth(k, ok) = depth + 1 /\ k = "subckt"
         \/ SpectreDepth(k, ok) = depth - 1 /\ k = "ends" /\ depth > 0
         \/ SpectreDepth(k, ok) = depth
  BY Zenon DEF SpectreDepth

LEMMA SpiceDepths ==
  ASSUME NEW k, NEW ok \in BOOLEAN
  PROVE  \/ SpiceDepth(k, ok) = depth + 1 /\ k = ".subckt"
         \/ SpiceDepth(k, ok) = depth - 1 /\ k = ".ends" /\ depth > 0
         \/ SpiceDepth(k, ok) = depth
  BY Zenon DEF SpiceDepth

LEMMA SpectreLineBase ==
  ASSUME BaseInv, NEW ok \in BOOLEAN, ParseSpectreLine(ok)
  PROVE  BaseInv' /\ at <= at' /\ \A h \in Halves : owner[h] \in {"none", owner'[h]}
  <1>1. PICK q : q = SpectreLineEnd(at)
    OBVIOUS
  <1>2. /\ text \in Texts /\ text' = text /\ at \in 0..(End - 1) /\ lang' = lang
        /\ lang \in Lang /\ depth \in Nat /\ 2 * depth <= at
        /\ Emit(q) /\ depth' = SpectreDepth(KindAt(at), ok)
        /\ pc' \in {"driver", "statement"}
        /\ lang_swapped' = (lang_swapped \/ SetsSwapped(KindAt(at)))
        /\ {lang_swapped, swapped_back, title} \subseteq BOOLEAN
        /\ swapped_back' = swapped_back /\ title' = title
    BY <1>1, TextShape DEF ParseSpectreLine, BaseInv, TypeOK, NestingOK
  <1>3. q \in (at + 1)..End /\ q % 2 = 0
    BY <1>1, <1>2, LineEnds
  <1>4. /\ at' = q
        /\ owner' \in [Halves -> Lang \cup {"none"}]
        /\ EmissionOK'
        /\ \A h \in Halves : owner[h] \in {"none", owner'[h]}
    <2>1. q \in at..End
      BY <1>2, <1>3
    <2> QED
      BY <1>2, <2>1, EmitOK
  <1>5. End' = End /\ Halves' = Halves /\ End \in Nat /\ End = 2 * Len(text.lines)
    BY <1>2, TextShape DEF End, Halves
  <1>6. depth' \in Nat /\ 2 * depth' <= q
    <2>1. CASE depth' = depth + 1 /\ KindAt(at) = "subckt"
      <3>1. at % 2 = 0
        BY <2>1 DEF KindAt
      <3>2. at + 2 <= q
        BY <1>2, <1>3, <1>5, <3>1, Evenness
      <3> QED
        BY <1>2, <1>5, <1>3, <2>1, <3>2
    <2>2. CASE depth' \in Nat /\ depth' <= depth
      BY <1>2, <1>3, <1>5, <2>2
    <2>3. \/ depth' = depth + 1 /\ KindAt(at) = "subckt"
          \/ depth' = depth - 1 /\ depth > 0
          \/ depth' = 0 \/ depth' = depth
      BY <1>2, SpectreDepths
    <2> QED
      BY <1>2, <2>1, <2>2, <2>3
  <1>7. TypeOK'
    <2>1. depth' \in 0..Len(text.lines)
      <3>1. Len(text.lines) \in Nat
        BY <1>2, TextShape
      <3>2. 2 * depth' <= 2 * Len(text.lines)
        <4>1. q \in Nat /\ q <= End
          <5>1. at \in Nat /\ q \in (at + 1)..End
            BY <1>2, <1>3, <1>5
          <5> QED
            BY <1>5, <5>1
        <4>2. \A x, y, z \in Nat : x <= y /\ y <= z => x <= z
          OBVIOUS
        <4>3. 2 * depth' \in Nat
          <5>1. \A d \in Nat : 2 * d \in Nat
            OBVIOUS
          <5> QED
            BY <1>6, <5>1, Zenon
        <4> QED
          BY <1>5, <1>6, <4>1, <4>2, <4>3, Zenon
      <3>3. \A d, n \in Nat : 2 * d <= 2 * n => d \in 0..n
        OBVIOUS
      <3> QED
        BY <1>6, <3>1, <3>2, <3>3
    <2> QED
      BY <1>2, <1>3, <1>4, <1>5, <2>1 DEF TypeOK, SetsSwapped
  <1>8. NestingOK' /\ DoneOK'
    BY <1>2, <1>4, <1>6 DEF NestingOK, DoneOK
  <1> QED
    BY <1>2, <1>3, <1>4, <1>5, <1>7, <1>8 DEF BaseInv

LEMMA SpiceLineBase ==
  ASSUME BaseInv, NEW ok \in BOOLEAN, ParseSpiceLine(ok)
  PROVE  BaseInv' /\ at <= at' /\ \A h \in Halves : owner[h] \in {"none", owner'[h]}
  <1>1. PICK q : q = SpiceLineEnd(at)
    OBVIOUS
  <1>2. /\ text \in Texts /\ text' = text /\ at \in 0..(End - 1) /\ lang' = lang
        /\ lang \in Lang /\ depth \in Nat /\ 2 * depth <= at
        /\ Emit(q) /\ depth' = SpiceDepth(SpiceKind, ok)
        /\ pc' \in {"driver", "statement"}
        /\ swapped_back' = (swapped_back \/ SpiceKind = "toSpectre")
        /\ {lang_swapped, swapped_back, title} \subseteq BOOLEAN
        /\ lang_swapped' = lang_swapped /\ title' = FALSE
    BY <1>1, TextShape DEF ParseSpiceLine, BaseInv, TypeOK, NestingOK
  <1>3. q \in (at + 1)..End /\ q % 2 = 0
    BY <1>1, <1>2, LineEnds
  <1>4. /\ at' = q
        /\ owner' \in [Halves -> Lang \cup {"none"}]
        /\ EmissionOK'
        /\ \A h \in Halves : owner[h] \in {"none", owner'[h]}
    <2>1. q \in at..End
      BY <1>2, <1>3
    <2> QED
      BY <1>2, <2>1, EmitOK
  <1>5. End' = End /\ Halves' = Halves /\ End \in Nat /\ End = 2 * Len(text.lines)
    BY <1>2, TextShape DEF End, Halves
  <1>6. depth' \in Nat /\ 2 * depth' <= q
    <2>1. CASE depth' = depth + 1 /\ SpiceKind = ".subckt"
      <3>1. at % 2 = 0
        BY <2>1 DEF SpiceKind, KindAt
      <3>2. at + 2 <= q
        BY <1>2, <1>3, <1>5, <3>1, Evenness
      <3> QED
        BY <1>2, <1>5, <1>3, <2>1, <3>2
    <2>2. CASE depth' \in Nat /\ depth' <= depth
      BY <1>2, <1>3, <1>5, <2>2
    <2>3. \/ depth' = depth + 1 /\ SpiceKind = ".subckt"
          \/ depth' = depth - 1 /\ depth > 0
          \/ depth' = depth
      BY <1>2, SpiceDepths
    <2> QED
      BY <1>2, <2>1, <2>2, <2>3
  <1>7. TypeOK'
    <2>1. depth' \in 0..Len(text.lines)
      <3>1. Len(text.lines) \in Nat
        BY <1>2, TextShape
      <3>2. 2 * depth' <= 2 * Len(text.lines)
        <4>1. q \in Nat /\ q <= End
          <5>1. at \in Nat /\ q \in (at + 1)..End
            BY <1>2, <1>3, <1>5
          <5> QED
            BY <1>5, <5>1
        <4>2. \A x, y, z \in Nat : x <= y /\ y <= z => x <= z
          OBVIOUS
        <4>3. 2 * depth' \in Nat
          <5>1. \A d \in Nat : 2 * d \in Nat
            OBVIOUS
          <5> QED
            BY <1>6, <5>1, Zenon
        <4> QED
          BY <1>5, <1>6, <4>1, <4>2, <4>3, Zenon
      <3>3. \A d, n \in Nat : 2 * d <= 2 * n => d \in 0..n
        OBVIOUS
      <3> QED
        BY <1>6, <3>1, <3>2, <3>3
    <2>2. swapped_back' \in BOOLEAN
      BY <1>2, Zenon
    <2>4. title' \in BOOLEAN /\ lang_swapped' \in BOOLEAN
      BY <1>2, Zenon
    <2>3. /\ at' \in 0..End' /\ owner' \in [Halves' -> Lang \cup {"none"}]
          /\ lang' \in Lang /\ pc' \in {"statement", "driver", "done"}
          /\ depth' \in 0..Len(text'.lines)
      BY <1>2, <1>3, <1>4, <1>5, <2>1
    <2> QED
      BY <2>2, <2>4, <2>3 DEF TypeOK
  <1>8. NestingOK' /\ DoneOK'
    BY <1>2, <1>4, <1>6 DEF NestingOK, DoneOK
  <1> QED
    BY <1>2, <1>3, <1>4, <1>5, <1>7, <1>8 DEF BaseInv

(* The return to Spectre loses what is left of the token it lands in.      *)
LEMMA ReturnBase ==
  ASSUME BaseInv, ReturnToSpectre
  PROVE  BaseInv' /\ at <= at' /\ owner' = owner
  <1>1. PICK q : q = ResyncAt(at)
    OBVIOUS
  <1>2. /\ text \in Texts /\ text' = text /\ at \in 0..End /\ at' = q /\ owner' = owner
        /\ lang' = "spectre" /\ depth' = 0 /\ pc' = "statement"
        /\ lang_swapped' = lang_swapped /\ swapped_back' = swapped_back /\ title' = title
    BY <1>1 DEF ReturnToSpectre, BaseInv, TypeOK
  <1>3. q \in at..End /\ \A h \in at..(q - 1) : ~TokenBegins(h)
    BY <1>1, <1>2, ResyncOK
  <1>4. /\ End' = End /\ Halves' = Halves /\ End \in Nat /\ Len(text.lines) \in Nat
        /\ Halves \subseteq Nat /\ \A h : TokenBegins(h)' = TokenBegins(h)
    BY <1>2, TextShape DEF End, Halves, TokenBegins
  <1>5. TypeOK'
    BY <1>2, <1>3, <1>4 DEF BaseInv, TypeOK, Lang
  <1>6. EmissionOK'
    <2> SUFFICES ASSUME NEW h \in Halves
                 PROVE  /\ h >= q => owner[h] = "none"
                        /\ h < q /\ owner[h] = "none" => ~TokenBegins(h)
      BY <1>2, <1>4 DEF EmissionOK
    <2>1. /\ h >= at => owner[h] = "none"
          /\ h < at /\ owner[h] = "none" => ~TokenBegins(h)
      BY DEF BaseInv, EmissionOK
    <2> QED
      BY <1>2, <1>3, <1>4, <2>1
  <1>7. NestingOK' /\ DoneOK'
    BY <1>2, <1>3, <1>4 DEF NestingOK, DoneOK
  <1> QED
    BY <1>2, <1>3, <1>4, <1>5, <1>6, <1>7 DEF BaseInv

(* The other steps do not touch the text.                                  *)
LEMMA DriverBase ==
  ASSUME BaseInv,
         \/ AbandonSpectreBlock \/ HandOff \/ StayInSpectre \/ Finish
         \/ StayInRegion \/ UNCHANGED vars
  PROVE  BaseInv' /\ at' = at /\ owner' = owner
  <1>1. /\ text' = text /\ at' = at /\ owner' = owner
        /\ depth' \in {0, depth} /\ pc' \in {"statement", "driver", "done"}
        /\ lang' \in Lang /\ title' = title
        /\ lang_swapped' = lang_swapped /\ swapped_back' \in BOOLEAN
        /\ pc' = "done" => at = End
    BY DEF BaseInv, TypeOK, DoneOK, Lang, AbandonSpectreBlock, HandOff, EnterRegion,
           StayInSpectre, Finish, StayInRegion, vars
  <1>2. /\ End' = End /\ Halves' = Halves
        /\ \A h : TokenBegins(h)' = TokenBegins(h)
    BY <1>1 DEF End, Halves, TokenBegins
  <1>3. End \in Nat /\ Len(text.lines) \in Nat
    BY TextShape DEF BaseInv
  <1>4. TypeOK'
    BY <1>1, <1>2, <1>3 DEF BaseInv, TypeOK
  <1>5. EmissionOK'
    BY <1>1, <1>2 DEF BaseInv, EmissionOK
  <1>6. 2 * depth' <= at
    <2>1. depth \in Nat /\ 2 * depth <= at /\ at \in Nat
      BY <1>3 DEF BaseInv, TypeOK, NestingOK
    <2>2. CASE depth' = 0
      BY <2>1, <2>2
    <2>3. CASE depth' = depth
      BY <2>1, <2>3
    <2> QED
      BY <1>1, <2>2, <2>3
  <1>7. NestingOK' /\ DoneOK'
    BY <1>1, <1>2, <1>6 DEF NestingOK, DoneOK
  <1> QED
    BY <1>1, <1>4, <1>5, <1>7 DEF BaseInv

LEMMA StepBase ==
  ASSUME BaseInv, [Next]_vars
  PROVE  BaseInv' /\ at <= at' /\ \A h \in Halves : owner[h] \in {"none", owner'[h]}
  <1>1. at \in Nat
    BY TextShape DEF BaseInv, TypeOK
  <1>2. ASSUME NEW ok \in BOOLEAN, ParseSpectreLine(ok)
        PROVE  BaseInv' /\ at <= at' /\ \A h \in Halves : owner[h] \in {"none", owner'[h]}
    BY <1>2, SpectreLineBase
  <1>3. ASSUME NEW ok \in BOOLEAN, ParseSpiceLine(ok)
        PROVE  BaseInv' /\ at <= at' /\ \A h \in Halves : owner[h] \in {"none", owner'[h]}
    BY <1>3, SpiceLineBase
  <1>4. CASE ReturnToSpectre
    BY <1>4, ReturnBase
  <1>5. CASE \/ AbandonSpectreBlock \/ HandOff \/ StayInSpectre \/ Finish
             \/ StayInRegion \/ UNCHANGED vars
    BY <1>1, <1>5, DriverBase
  <1> QED
    BY <1>2, <1>3, <1>4, <1>5 DEF Next, Step, Finished

LEMMA BaseInvariant == Spec => []BaseInv
  <1>1. Init => BaseInv
    BY InitBase
  <1>2. BaseInv /\ [Next]_vars => BaseInv'
    BY StepBase
  <1> QED
    BY <1>1, <1>2, PTL DEF Spec

(* The driver keeps its type: in particular no more subcircuits are open   *)
(* than lines were read (parse_toplevel, parse_region).                    *)
THEOREM TypeCorrect == Spec => []TypeOK
  <1>1. BaseInv => TypeOK
    BY DEF BaseInv
  <1> QED
    BY <1>1, BaseInvariant, PTL

(* Whatever the file, no text is emitted by two parsers or twice, and the  *)
(* cursor never goes back (resync_at, next_emit_byte).                     *)
THEOREM NothingEmittedTwice == Spec => EmittedOnce
  <1>1. BaseInv /\ [Next]_vars
          => [\A h \in Halves : owner[h] \in {"none", owner'[h]} /\ at <= at']_vars
    <2> SUFFICES ASSUME BaseInv, [Next]_vars
                 PROVE  \A h \in Halves : owner[h] \in {"none", owner'[h]} /\ at <= at'
      OBVIOUS
    <2> QED
      BY StepBase
  <1> QED
    BY <1>1, BaseInvariant, PTL DEF Spec, EmittedOnce

(* Whatever the file, text is lost only inside a Spectre token that the    *)
(* end of a region cuts in two (resync_at).                                *)
THEOREM OnlyCutTokensEverLost == Spec => []OnlyCutTokensAreLost
  <1>1. BaseInv => OnlyCutTokensAreLost
    <2> SUFFICES ASSUME BaseInv, pc = "done", NEW h \in Halves, owner[h] = "none"
                 PROVE  ~TokenBegins(h)
      BY DEF OnlyCutTokensAreLost
    <2>1. at = End /\ End \in Nat
      BY TextShape DEF BaseInv, DoneOK
    <2>2. h < at
      BY <2>1 DEF Halves
    <2> QED
      BY <2>2 DEF BaseInv, EmissionOK
  <1> QED
    BY <1>1, BaseInvariant, PTL

-----------------------------------------------------------------------------
(* What a line selects for the next one: a switch its language, any other  *)
(* line what was selected for it.                                          *)
LEMMA SelectedNext ==
  ASSUME text \in Texts, NEW n \in 1..Len(text.lines)
  PROVE  /\ n \in Switches /\ text.lines[n] = "toSpice" => Selected(n + 1) = "spice"
         /\ n \in Switches /\ text.lines[n] = "toSpectre" => Selected(n + 1) = "spectre"
         /\ n \notin Switches => Selected(n + 1) = Selected(n)
  <1> DEFINE A(k) == {j \in Switches : j < k}
  <1>1. Switches \subseteq 1..Len(text.lines) /\ Len(text.lines) \in Nat
    BY TextShape DEF Switches
  <1>2. CASE n \in Switches
    <2>1. n \in A(n + 1) /\ \A j \in A(n + 1) : j <= n
      BY <1>1, <1>2
    <2>2. PICK last : last = CHOOSE j \in A(n + 1) : \A k \in A(n + 1) : k <= j
      OBVIOUS
    <2>3. last \in A(n + 1) /\ \A k \in A(n + 1) : k <= last
      BY <2>1, <2>2
    <2>4. last = n
      BY <1>1, <2>1, <2>3
    <2>5. A(n + 1) # {}
      BY <2>1
    <2>6. Selected(n + 1) = IF text.lines[n] = "toSpice" THEN "spice" ELSE "spectre"
      BY <2>2, <2>4, <2>5 DEF Selected
    <2> QED
      BY <1>2, <2>6
  <1>3. CASE n \notin Switches
    <2>1. A(n + 1) = A(n)
      <3>1. \A j \in Switches : j < n + 1 <=> j < n
        BY <1>1, <1>3
      <3> QED
        BY <3>1
    <2> QED
      BY <1>3, <2>1 DEF Selected
  <1> QED
    BY <1>2, <1>3

LEMMA SelectedFirst == text \in Texts => Selected(1) = text.start
  <1> SUFFICES ASSUME text \in Texts PROVE Selected(1) = text.start
    OBVIOUS
  <1>1. {j \in Switches : j < 1} = {}
    BY TextShape DEF Switches
  <1> QED
    BY <1>1 DEF Selected

(* What was returned from stays so.                                        *)
LEMMA ReturnedLater ==
  ASSUME text \in Texts, NEW n \in Nat
  PROVE  /\ Returned(n) => Returned(n + 1)
         /\ \A j, k \in Switches :
              j < k /\ k <= n /\ text.lines[j] = "toSpice" /\ text.lines[k] = "toSpectre"
                => Returned(n + 2)
  <1>1. Switches \subseteq Nat
    BY TextShape DEF Switches
  <1> QED
    BY <1>1 DEF Returned

(* All of this is about the text.                                          *)
LEMMA SameText ==
  ASSUME text' = text
  PROVE  /\ End' = End /\ Halves' = Halves /\ Whole' = Whole /\ Switches' = Switches
         /\ \A k : Selected(k)' = Selected(k)
         /\ \A k : Returned(k)' = Returned(k)
         /\ LinesDone' = at' \div 2
  <1>1. Switches' = Switches
    BY DEF Switches
  <1> QED
    BY <1>1 DEF End, Halves, Whole, Flat, Selected, Returned, LinesDone

(* A line that is done is the business of the parser that did it.          *)
LEMMA LineDone ==
  ASSUME BaseInv, Whole, WholeInv, text' = text, at < End, Emit(at + 2),
         NextLang = lang
  PROVE  /\ LinesDone \in Nat /\ LinesDone + 1 \in 1..Len(text.lines)
         /\ at = 2 * LinesDone
         /\ at' = at + 2 /\ at' % 2 = 0 /\ LinesDone' = LinesDone + 1
         /\ KindAt(at) = text.lines[LinesDone + 1]
         /\ KindAt(at) \in {"plain", "toSpice", "toSpectre"}
         /\ LinesOK'
  <1>1. /\ text \in Texts /\ at \in 0..End /\ at % 2 = 0
        /\ lang \in Lang /\ owner \in [Halves -> Lang \cup {"none"}]
    BY DEF BaseInv, TypeOK, WholeInv, Cursor
  <1>2. End \in Nat /\ End = 2 * Len(text.lines) /\ Len(text.lines) \in Nat
    BY <1>1, TextShape
  <1>3. LinesDone \in Nat /\ at = 2 * LinesDone
    BY <1>1, <1>2, Evenness DEF LinesDone
  <1>4. LinesDone + 1 \in 1..Len(text.lines)
    BY <1>2, <1>3
  <1>5. /\ at' = at + 2
        /\ owner' = [h \in Halves |-> IF at <= h /\ h < at + 2 THEN lang ELSE owner[h]]
    BY DEF Emit
  <1>6. at' % 2 = 0 /\ LinesDone' = LinesDone + 1
    <2>1. at' = 2 * (LinesDone + 1) /\ LinesDone + 1 \in Nat
      BY <1>3, <1>5
    <2>2. PICK n \in Nat : n = LinesDone + 1
      BY <2>1
    <2>3. at' = 2 * n
      BY <2>1, <2>2
    <2>4. at' % 2 = 0 /\ at' \div 2 = n
      BY <2>3, Evenness
    <2> QED
      BY <2>2, <2>4, SameText
  <1>7. KindAt(at) = text.lines[LinesDone + 1]
    BY <1>1 DEF KindAt, LinesDone
  <1>8. KindAt(at) \in {"plain", "toSpice", "toSpectre"}
    BY <1>4, <1>7 DEF Whole, Flat
  <1>9. LinesOK'
    <2> SUFFICES ASSUME NEW k \in 1..Len(text.lines), ~Returned(k),
                        NEW h \in {2 * k - 2, 2 * k - 1}
                 PROVE  owner'[h] \in {"none", Selected(k)}
      BY SameText DEF LinesOK, RightAt
    <2>1. owner[h] \in {"none", Selected(k)}
      BY DEF WholeInv, LinesOK, RightAt
    <2>2. h \in Halves
      BY <1>2 DEF Halves
    <2>3. CASE k = LinesDone + 1
      <3>1. lang = Selected(k)
        BY <2>3 DEF WholeInv, SelectionOK
      <3> QED
        BY <1>5, <2>1, <2>2, <3>1
    <2>4. CASE k # LinesDone + 1
      <3>1. ~(at <= h /\ h < at + 2)
        BY <1>2, <1>3, <2>4
      <3> QED
        BY <1>5, <2>1, <2>2, <3>1
    <2> QED
      BY <2>3, <2>4
  <1> QED
    BY <1>3, <1>4, <1>5, <1>6, <1>7, <1>8, <1>9

(* The lines that count as switches.                                       *)
LEMMA SwitchLines ==
  ASSUME text \in Texts, NEW n \in 1..Len(text.lines)
  PROVE  /\ n \in Switches <=> /\ text.lines[n] \in {"toSpice", "toSpectre"}
                               /\ ~(text.start = "spice" /\ n = 1)
         /\ Switches \subseteq 1..Len(text.lines)
  BY TextShape DEF Switches

LEMMA InitWhole == Init => WholeInv
  <1> SUFFICES ASSUME Init, Whole PROVE Cursor /\ FlagsOK /\ ReturnedOK /\ SelectionOK /\ LinesOK
    BY DEF WholeInv
  <1>1. /\ text \in Texts /\ at = 0 /\ depth = 0 /\ pc = "statement" /\ lang = text.start
        /\ lang_swapped = FALSE /\ swapped_back = FALSE
        /\ title <=> text.start = "spice"
        /\ owner = [h \in Halves |-> "none"]
    BY DEF Init
  <1>2. /\ End \in Nat /\ End = 2 * Len(text.lines) /\ Len(text.lines) \in Nat
        /\ text.start \in Lang
    BY <1>1, TextShape
  <1>3. LinesDone = 0 /\ Cursor
    BY <1>1 DEF LinesDone, Cursor
  <1>4. FlagsOK /\ ReturnedOK
    <2>1. lang = "spectre" /\ text.start = "spice" => FALSE
      BY <1>1
    <2> QED
      BY <1>1, <2>1 DEF FlagsOK, ReturnedOK
  <1>5. SelectionOK
    BY <1>1, <1>3, SelectedFirst DEF SelectionOK, NextLang
  <1>6. LinesOK
    <2> SUFFICES ASSUME NEW k \in 1..Len(text.lines), NEW h \in {2 * k - 2, 2 * k - 1}
                 PROVE  owner[h] = "none"
      BY DEF LinesOK, RightAt
    <2> QED
      BY <1>1, <1>2 DEF Halves
  <1> QED
    BY <1>3, <1>4, <1>5, <1>6

(* The place of a switch among the lines done.                             *)
LEMMA PastGrows ==
  ASSUME text \in Texts, text' = text, LinesDone \in Nat, LinesDone' = LinesDone + 1,
         NEW kind
  PROVE  /\ Past(kind) \subseteq Past(kind)'
         /\ \A n \in Switches : n = LinesDone + 1 /\ text.lines[n] = kind => n \in Past(kind)'
  <1>1. Switches \subseteq Nat
    BY TextShape DEF Switches
  <1>2. Switches' = Switches
    BY SameText
  <1>3. Past(kind)' = {j \in Switches : j <= LinesDone + 1 /\ text.lines[j] = kind}
    BY <1>2 DEF Past
  <1>4. Past(kind) \subseteq Past(kind)'
    <2>1. \A j \in Switches : j <= LinesDone => j <= LinesDone + 1
      BY <1>1
    <2> QED
      BY <1>3, <2>1, Zenon DEF Past
  <1>5. ASSUME NEW n \in Switches, n = LinesDone + 1, text.lines[n] = kind
        PROVE  n \in Past(kind)'
    <2>1. n <= LinesDone + 1
      BY <1>1, <1>5
    <2> QED
      BY <1>3, <1>5, <2>1, Zenon
  <1> QED
    BY <1>4, <1>5, Zenon

LEMMA SpectreLineWhole ==
  ASSUME BaseInv, WholeInv, Whole, NEW ok \in BOOLEAN, ParseSpectreLine(ok)
  PROVE  Cursor' /\ FlagsOK' /\ ReturnedOK' /\ SelectionOK' /\ LinesOK'
  <1>1. /\ text \in Texts /\ text.strings = {} /\ at \in Nat /\ at < End /\ End \in Nat
        /\ Cursor /\ FlagsOK /\ ReturnedOK /\ SelectionOK /\ LinesOK
        /\ at % 2 = 0 /\ depth = 0
        /\ {lang_swapped, swapped_back, title} \subseteq BOOLEAN
    BY TextShape DEF BaseInv, TypeOK, Whole, WholeInv, Cursor, ParseSpectreLine
  <1>2. SpectreLineEnd(at) = at + 2
    BY <1>1, LineEnds
  <1>3. /\ text' = text /\ lang = "spectre" /\ lang' = lang /\ pc = "statement"
        /\ Emit(at + 2) /\ depth' = SpectreDepth(KindAt(at), ok)
        /\ pc' = IF depth' = 0 THEN "driver" ELSE "statement"
        /\ lang_swapped' = (lang_swapped \/ SetsSwapped(KindAt(at)))
        /\ title' = title /\ swapped_back' = swapped_back
    BY <1>2 DEF ParseSpectreLine
  <1>4. PICK n : n = LinesDone
    OBVIOUS
  <1>5. /\ n \in Nat /\ n + 1 \in 1..Len(text.lines) /\ at = 2 * n
        /\ at' = at + 2 /\ at' % 2 = 0 /\ LinesDone' = n + 1
        /\ KindAt(at) = text.lines[n + 1]
        /\ KindAt(at) \in {"plain", "toSpice", "toSpectre"}
        /\ LinesOK'
    BY <1>1, <1>3, <1>4, LineDone DEF NextLang
  <1>6. depth' = 0 /\ pc' = "driver" /\ Cursor'
    <2>1. depth' = 0
      BY <1>1, <1>3, <1>5, SpectreDepths
    <2> QED
      BY <1>3, <1>5, <2>1 DEF Cursor
  <1>7. ~(text.start = "spice" /\ n + 1 = 1)
    <2>1. text.start = "spice" => at > 0
      BY <1>1, <1>3 DEF FlagsOK
    <2> QED
      BY <1>5, <2>1
  <1>8. n + 1 \in Switches <=> text.lines[n + 1] \in {"toSpice", "toSpectre"}
    BY <1>1, <1>5, <1>7, SwitchLines
  <1>9. FlagsOK'
    <2>1. lang_swapped' => Past("toSpice")' # {}
      <3>1. CASE lang_swapped
        <4>1. Past("toSpice") # {}
          BY <1>1, <3>1 DEF FlagsOK
        <4> QED
          BY <1>1, <1>3, <1>4, <1>5, <4>1, PastGrows
      <3>2. CASE KindAt(at) = "toSpice"
        BY <1>1, <1>3, <1>4, <1>5, <1>8, <3>2, PastGrows
      <3> QED
        BY <1>3, <3>1, <3>2 DEF SetsSwapped
    <2>2. title' <=> (text'.start = "spice" /\ at' = 0)
      BY <1>1, <1>3, <1>5, <1>7 DEF FlagsOK
    <2> QED
      BY <1>3, <1>5, <1>6, <2>1, <2>2 DEF FlagsOK
  <1>10. ReturnedOK'
    BY <1>6 DEF ReturnedOK
  <1>11. SelectionOK'
    <2> SUFFICES ASSUME ~Returned(n + 2)
                 PROVE  NextLang' = Selected(n + 2)
      <3>1. (n + 1) + 1 = n + 2
        BY <1>5
      <3> QED
        BY <1>3, <1>5, <3>1, SameText DEF SelectionOK
    <2>1. ~lang_swapped
      <3> SUFFICES ASSUME lang_swapped PROVE FALSE
        OBVIOUS
      <3>1. \E j \in Past("toSpice"), k \in Past("toSpectre") : j < k
        BY <1>1, <1>3 DEF ReturnedOK
      <3> QED
        BY <1>1, <1>4, <1>5, <3>1, ReturnedLater DEF Past
    <2>2. ~Returned(n + 1)
      <3>1. (n + 1) + 1 = n + 2 /\ n + 1 \in Nat
        BY <1>5
      <3> QED
        BY <1>1, <3>1, ReturnedLater
    <2>3. Selected(n + 1) = "spectre"
      BY <1>1, <1>3, <1>4, <2>2 DEF SelectionOK, NextLang
    <2>4. NextLang' = IF KindAt(at) = "toSpice" THEN "spice" ELSE "spectre"
      BY <1>3, <1>6, <2>1 DEF NextLang, SetsSwapped
    <2>5. /\ n + 1 \in Switches /\ text.lines[n + 1] = "toSpice" => Selected(n + 2) = "spice"
          /\ n + 1 \in Switches /\ text.lines[n + 1] = "toSpectre" => Selected(n + 2) = "spectre"
          /\ n + 1 \notin Switches => Selected(n + 2) = Selected(n + 1)
      <3>1. (n + 1) + 1 = n + 2
        BY <1>5
      <3> QED
        BY <1>1, <1>5, <3>1, SelectedNext
    <2> QED
      BY <1>5, <1>8, <2>3, <2>4, <2>5
  <1> QED
    BY <1>5, <1>6, <1>9, <1>10, <1>11

LEMMA SpiceLineWhole ==
  ASSUME BaseInv, WholeInv, Whole, NEW ok \in BOOLEAN, ParseSpiceLine(ok)
  PROVE  Cursor' /\ FlagsOK' /\ ReturnedOK' /\ SelectionOK' /\ LinesOK'
  <1>1. /\ text \in Texts /\ text.strings = {} /\ at \in Nat /\ at < End /\ End \in Nat
        /\ Cursor /\ FlagsOK /\ ReturnedOK /\ SelectionOK /\ LinesOK
        /\ at % 2 = 0 /\ depth = 0
    BY TextShape DEF BaseInv, TypeOK, Whole, WholeInv, Cursor, ParseSpiceLine
  <1>2. SpiceLineEnd(at) = at + 2
    BY <1>1, LineEnds
  <1>3. /\ text' = text /\ lang = "spice" /\ lang' = lang /\ pc = "statement"
        /\ Emit(at + 2) /\ depth' = SpiceDepth(SpiceKind, ok)
        /\ pc' = IF depth' = 0 THEN "driver" ELSE "statement"
        /\ swapped_back' = (swapped_back \/ SpiceKind = "toSpectre")
        /\ title' = FALSE /\ lang_swapped' = lang_swapped
    BY <1>2 DEF ParseSpiceLine
  <1>4. PICK n : n = LinesDone
    OBVIOUS
  <1>5. /\ n \in Nat /\ n + 1 \in 1..Len(text.lines) /\ at = 2 * n
        /\ at' = at + 2 /\ at' % 2 = 0 /\ LinesDone' = n + 1
        /\ KindAt(at) = text.lines[n + 1]
        /\ KindAt(at) \in {"plain", "toSpice", "toSpectre"}
        /\ LinesOK'
    BY <1>1, <1>3, <1>4, LineDone DEF NextLang
  <1>6. PICK kind : kind = SpiceKind
    OBVIOUS
  <1>7. /\ kind \in {"plain", "toSpice", "toSpectre"}
        /\ n + 1 \in Switches <=> kind \in {"toSpice", "toSpectre"}
        /\ n + 1 \in Switches => text.lines[n + 1] = kind
    <2>1. title <=> (text.start = "spice" /\ n + 1 = 1)
      BY <1>1, <1>5 DEF FlagsOK
    <2>2. n + 1 \in Switches <=> /\ text.lines[n + 1] \in {"toSpice", "toSpectre"}
                                 /\ ~(text.start = "spice" /\ n + 1 = 1)
      BY <1>1, <1>5, SwitchLines
    <2>3. CASE title
      BY <1>6, <2>1, <2>2, <2>3 DEF SpiceKind
    <2>4. CASE ~title
      <3>1. kind = text.lines[n + 1]
        BY <1>5, <1>6, <2>4 DEF SpiceKind
      <3> QED
        BY <1>5, <2>1, <2>2, <2>4, <3>1
    <2> QED
      BY <2>3, <2>4
  <1>8. depth' = 0 /\ pc' = "driver" /\ Cursor'
    <2>1. depth' = 0
      BY <1>1, <1>3, <1>6, <1>7, SpiceDepths
    <2> QED
      BY <1>3, <1>5, <2>1 DEF Cursor
  <1>9. swapped_back' <=> kind = "toSpectre"
    BY <1>1, <1>3, <1>6 DEF FlagsOK
  <1>10. FlagsOK'
    <2>1. lang_swapped' => Past("toSpice")' # {}
      <3> SUFFICES ASSUME lang_swapped PROVE Past("toSpice")' # {}
        BY <1>3
      <3>1. Past("toSpice") # {}
        BY <1>1 DEF FlagsOK
      <3> QED
        BY <1>1, <1>3, <1>4, <1>5, <3>1, PastGrows
    <2>2. swapped_back' => LinesDone' \in Past("toSpectre")'
      <3> SUFFICES ASSUME kind = "toSpectre" PROVE n + 1 \in Past("toSpectre")'
        BY <1>5, <1>9
      <3> QED
        BY <1>1, <1>3, <1>4, <1>5, <1>7, PastGrows
    <2> QED
      BY <1>3, <1>5, <1>8, <2>1, <2>2 DEF FlagsOK
  <1>11. ReturnedOK'
    BY <1>8 DEF ReturnedOK
  <1>12. SelectionOK'
    <2> SUFFICES ASSUME ~Returned(n + 2)
                 PROVE  NextLang' = Selected(n + 2)
      <3>1. (n + 1) + 1 = n + 2
        BY <1>5
      <3> QED
        BY <1>3, <1>5, <3>1, SameText DEF SelectionOK
    <2>1. ~Returned(n + 1)
      <3>1. (n + 1) + 1 = n + 2 /\ n + 1 \in Nat
        BY <1>5
      <3> QED
        BY <1>1, <3>1, ReturnedLater
    <2>2. Selected(n + 1) = "spice"
      BY <1>1, <1>3, <1>4, <2>1 DEF SelectionOK, NextLang
    <2>3. NextLang' = IF kind = "toSpectre" THEN "spectre" ELSE "spice"
      BY <1>3, <1>8, <1>9 DEF NextLang
    <2>4. /\ n + 1 \in Switches /\ text.lines[n + 1] = "toSpice" => Selected(n + 2) = "spice"
          /\ n + 1 \in Switches /\ text.lines[n + 1] = "toSpectre" => Selected(n + 2) = "spectre"
          /\ n + 1 \notin Switches => Selected(n + 2) = Selected(n + 1)
      <3>1. (n + 1) + 1 = n + 2
        BY <1>5
      <3> QED
        BY <1>1, <1>5, <3>1, SelectedNext
    <2> QED
      BY <1>7, <2>2, <2>3, <2>4
  <1> QED
    BY <1>5, <1>8, <1>10, <1>11, <1>12

(* The driver between two statements.                                      *)
LEMMA DriverWhole ==
  ASSUME BaseInv, WholeInv, Whole,
         \/ AbandonSpectreBlock \/ HandOff \/ StayInSpectre \/ Finish
         \/ StayInRegion \/ ReturnToSpectre \/ UNCHANGED vars
  PROVE  Cursor' /\ FlagsOK' /\ ReturnedOK' /\ SelectionOK' /\ LinesOK'
  <1>1. /\ text \in Texts /\ text.strings = {} /\ at \in 0..End /\ End \in Nat
        /\ Cursor /\ FlagsOK /\ ReturnedOK /\ SelectionOK /\ LinesOK
        /\ at % 2 = 0 /\ depth = 0
        /\ lang \in Lang /\ pc \in {"statement", "driver", "done"}
    BY TextShape DEF BaseInv, TypeOK, Whole, WholeInv, Cursor
  <1>2. /\ text' = text /\ at' = at /\ owner' = owner /\ depth' = 0 /\ title' = title
        /\ lang_swapped' = lang_swapped
    <2>1. ResyncAt(at) = at
      BY <1>1, ResyncOK
    <2> QED
      BY <1>1, <2>1 DEF AbandonSpectreBlock, HandOff, EnterRegion, StayInSpectre, Finish,
                        StayInRegion, ReturnToSpectre, vars
  <1>3. /\ End' = End /\ LinesDone' = LinesDone /\ Switches' = Switches
        /\ \A k : Selected(k)' = Selected(k) /\ Returned(k)' = Returned(k)
        /\ \A kind : Past(kind)' = Past(kind)
    <2>1. LinesDone' = LinesDone /\ Switches' = Switches
      BY <1>2, SameText DEF LinesDone
    <2> QED
      BY <1>2, <2>1, SameText DEF Past
  <1>4. Cursor' /\ LinesOK'
    BY <1>1, <1>2, <1>3 DEF Cursor, LinesOK, RightAt
  <1>5. NextLang' = NextLang \/ at = End
    <2>1. CASE HandOff
      BY <2>1 DEF HandOff, EnterRegion, NextLang
    <2>2. CASE StayInSpectre
      BY <2>2 DEF StayInSpectre, NextLang
    <2>3. CASE StayInRegion
      BY <2>3 DEF StayInRegion, NextLang
    <2>4. CASE ReturnToSpectre
      BY <2>4 DEF ReturnToSpectre, NextLang
    <2>5. CASE AbandonSpectreBlock \/ Finish
      BY <2>5 DEF AbandonSpectreBlock, Finish
    <2>6. CASE UNCHANGED vars
      BY <2>6 DEF vars, NextLang
    <2> QED
      BY <2>1, <2>2, <2>3, <2>4, <2>5, <2>6
  <1>6. SelectionOK'
    BY <1>1, <1>2, <1>3, <1>5 DEF SelectionOK
  <1>7. FlagsOK' /\ ReturnedOK'
    <2>1. /\ lang_swapped' => Past("toSpice")' # {}
          /\ title' <=> (text'.start = "spice" /\ at' = 0)
      BY <1>1, <1>2, <1>3 DEF FlagsOK
    <2>2. CASE HandOff
      BY <1>2, <2>1, <2>2 DEF HandOff, EnterRegion, FlagsOK, ReturnedOK
    <2>3. CASE StayInSpectre
      <3>1. lang' = "spectre" /\ lang = "spectre" /\ ~lang_swapped'
        BY <1>2, <2>3 DEF StayInSpectre
      <3> QED
        BY <1>1, <1>2, <1>3, <2>1, <3>1 DEF FlagsOK, ReturnedOK
    <2>4. CASE StayInRegion
      <3>1. lang' = "spice" /\ pc' = "statement" /\ ~swapped_back'
        BY <2>4 DEF StayInRegion
      <3> QED
        BY <2>1, <3>1 DEF FlagsOK, ReturnedOK
    <2>5. CASE ReturnToSpectre
      <3>1. lang' = "spectre" /\ pc' = "statement" /\ lang = "spice"
        BY <2>5 DEF ReturnToSpectre
      <3>2. LinesDone \in Past("toSpectre") \/ at = End
        BY <1>1, <2>5, <3>1 DEF ReturnToSpectre, FlagsOK
      <3>3. Switches \subseteq Nat \ {0}
        BY <1>1, TextShape DEF Switches
      <3>4. at > 0 \/ at = End
        <4>1. LinesDone \in Past("toSpectre") => LinesDone \in Nat \ {0}
          BY <3>3 DEF Past
        <4>2. at = 2 * LinesDone
          BY <1>1, Evenness DEF LinesDone
        <4> QED
          BY <1>1, <3>2, <4>1, <4>2
      <3>5. FlagsOK'
        BY <1>2, <1>3, <2>1, <3>1, <3>4 DEF FlagsOK
      <3>6. ReturnedOK'
        <4> SUFFICES ASSUME lang_swapped, at < End
                     PROVE  \E j \in Past("toSpice"), k \in Past("toSpectre") : j < k
          BY <1>2, <1>3 DEF ReturnedOK
        <4>1. LinesDone \in Past("toSpectre")
          BY <1>1, <3>2
        <4>2. PICK j : j \in Past("toSpice")
          BY <1>1 DEF FlagsOK
        <4>3. /\ j \in Nat /\ j <= LinesDone /\ LinesDone \in Nat
              /\ text.lines[j] = "toSpice" /\ text.lines[LinesDone] = "toSpectre"
          BY <3>3, <4>1, <4>2 DEF Past
        <4>4. j < LinesDone
          BY <4>3
        <4> QED
          BY <4>1, <4>2, <4>4
      <3> QED
        BY <3>5, <3>6
    <2>6. CASE AbandonSpectreBlock
      BY <1>1, <2>6 DEF AbandonSpectreBlock
    <2>7. CASE Finish
      <3>1. lang' = lang /\ lang = "spectre" /\ pc' = "done" /\ at = End
        BY <2>7 DEF Finish
      <3> QED
        BY <1>2, <1>3, <2>1, <3>1 DEF FlagsOK, ReturnedOK
    <2>8. CASE UNCHANGED vars
      <3>1. /\ lang' = lang /\ pc' = pc /\ swapped_back' = swapped_back
        BY <2>8 DEF vars
      <3> QED
        BY <1>1, <1>2, <1>3, <2>1, <3>1 DEF FlagsOK, ReturnedOK
    <2> QED
      BY <2>2, <2>3, <2>4, <2>5, <2>6, <2>7, <2>8
  <1> QED
    BY <1>4, <1>6, <1>7

LEMMA StepWhole == BaseInv /\ WholeInv /\ [Next]_vars => WholeInv'
  <1> SUFFICES ASSUME BaseInv, WholeInv, [Next]_vars PROVE WholeInv'
    OBVIOUS
  <1>1. text' = text
    BY DEF Next, Step, Finished, vars, ParseSpectreLine, ParseSpiceLine, AbandonSpectreBlock,
           HandOff, StayInSpectre, Finish, StayInRegion, ReturnToSpectre
  <1>2. Whole' = Whole
    BY <1>1, SameText
  <1> SUFFICES ASSUME Whole
               PROVE  Cursor' /\ FlagsOK' /\ ReturnedOK' /\ SelectionOK' /\ LinesOK'
    BY <1>2 DEF WholeInv
  <1>3. ASSUME NEW ok \in BOOLEAN, ParseSpectreLine(ok)
        PROVE  Cursor' /\ FlagsOK' /\ ReturnedOK' /\ SelectionOK' /\ LinesOK'
    BY <1>3, SpectreLineWhole
  <1>4. ASSUME NEW ok \in BOOLEAN, ParseSpiceLine(ok)
        PROVE  Cursor' /\ FlagsOK' /\ ReturnedOK' /\ SelectionOK' /\ LinesOK'
    BY <1>4, SpiceLineWhole
  <1>5. CASE \/ AbandonSpectreBlock \/ HandOff \/ StayInSpectre \/ Finish
             \/ StayInRegion \/ ReturnToSpectre \/ UNCHANGED vars
    BY <1>5, DriverWhole
  <1> QED
    BY <1>3, <1>4, <1>5 DEF Next, Step, Finished

(* The inductive invariant of the driver.                                  *)
LEMMA Invariant == Spec => []IInv
  <1>1. Init => WholeInv
    BY InitWhole
  <1>2. BaseInv /\ WholeInv /\ [Next]_vars => WholeInv'
    BY StepWhole
  <1>3. BaseInv /\ WholeInv => IInv
    BY DEF IInv
  <1> QED
    BY <1>1, <1>2, <1>3, BaseInvariant, PTL DEF Spec

(* In every file whose switches are statements of their own, every line up *)
(* to the first statement after the first return to Spectre is parsed in   *)
(* the language selected for it (parse_toplevel, parse_region,             *)
(* parse_simulator).                                                       *)
THEOREM AlwaysRightUntilReturn == Spec => []RightUntilReturn
  <1>1. IInv => RightUntilReturn
    BY DEF IInv, WholeInv, Whole, RightUntilReturn, LinesOK
  <1> QED
    BY <1>1, Invariant, PTL
=============================================================================
