-------------------------- MODULE StatementsProofs --------------------------
(***************************************************************************)
(* For every text: both parsers stay inside it, and begin statements only  *)
(* where lines do.  The productions are mutually recursive, so what they   *)
(* do is not shown by induction over them.  Each command is given a type,  *)
(* what must hold of the position before it and what holds behind it, and  *)
(* a set of typed commands is consistent if every one holds its type as    *)
(* long as the others hold theirs.  The productions are shown to be in     *)
(* such a set, and so every stack the parsers can have is typed.           *)
(***************************************************************************)
EXTENDS Statements, Counting, SequenceTheorems

-----------------------------------------------------------------------------
(* What is known of the position between two commands: at which kind of    *)
(* place it is (2: behind a line or a brace, or at the end; 1: or behind   *)
(* the dot such a line begins with; 0: anywhere), the least it can be, and *)
(* whether it is before the end.                                           *)
Label == [place : 0..2, least : Nat, inside : 0..1]

Anywhere(n) == [place |-> 0, least |-> n, inside |-> 0]
Inside(n)   == [place |-> 0, least |-> n, inside |-> 1]
AtLine(n)   == [place |-> 2, least |-> n, inside |-> 0]

(* a tells at least what b does.                                           *)
Above(a, b) == b.place <= a.place /\ b.least <= a.least /\ b.inside <= a.inside

IsSeq(s) == \E S : s \in Seq(S)

(* The rules whose productions are statements, and those that end one.     *)
StatementRules(g) ==
  IF g = "spice" THEN {"toplevel", "dot_body", "instance"} ELSE {"source", "stat_statement"}

TailRules(g) == IF g = "spice" THEN {} ELSE {"named", "keyword_named"}

RuleNames(g) == {"expression", "primary"} \cup StatementRules(g) \cup TailRules(g)

Result(g, name, n) ==
  IF name \in StatementRules(g) THEN AtLine(n + 1)
  ELSE IF name \in TailRules(g) THEN AtLine(n)
  ELSE Anywhere(n)

(* Taking a token of S where a holds leads to where b does.                *)
Taken(S, a, b) ==
  /\ b.inside = 0
  /\ b.least <= a.least + (IF "ENDMARKER" \in S THEN 0 ELSE 1)
  /\ \/ b.place = 0
     \/ b.place = 1 /\ a.place = 2 /\ S = {"DOT"}
     \/ S \subseteq {"NEWLINE", "ENDMARKER"}
     \/ S \subseteq {"LBRACE", "RBRACE"}

(* T is a set of typed commands <<c, a, b>>: c, begun where a holds, comes *)
(* to its end where b does.  A sequence is typed by the labels between its *)
(* commands.                                                               *)
Does(T, c, a, b) == \E x, y \in Label : Above(a, x) /\ <<c, x, y>> \in T /\ Above(y, b)

Laid(T, s, a, b) ==
  /\ IsSeq(s)
  /\ \E lab \in [1..(Len(s) + 1) -> Label] :
       /\ Above(a, lab[1])
       /\ Above(lab[Len(s) + 1], b)
       /\ \A i \in 1..Len(s) : Does(T, s[i], lab[i], lab[i + 1])

Step(g, T, c, a, b) ==
  \/ c.op = "take" /\ Taken(c.of, a, b)
  \/ c.op = "error"
  \/ c.op = "raise" /\ a.place = 2
  \/ c.op = "lenient" /\ b.place = 0 /\ b.inside = 0 /\ b.least <= a.least + a.inside
  \/ c.op = "if" /\ Laid(T, c.yes, a, b) /\ Laid(T, c.no, a, b)
  \/ c.op = "while" /\ Above(a, b) /\ b.inside = 0 /\ Laid(T, c.body, b, b)
  \/ c.op = "call" /\ c.name \in RuleNames(g) /\ Above(Result(g, c.name, a.least), b)
  \/ c.op \in {"reset", "tally"} /\ Above(a, b)
  \/ /\ c.op \in {"repeat", "units"}
     /\ Above(Anywhere(a.least), b)
     /\ IsSeq(c.body)
     /\ \A i \in 1..Len(c.body) : Does(T, c.body[i], Anywhere(a.least), Anywhere(a.least))
  \/ c.op = "wrap" /\ Laid(T, c.body, a, b)
  \/ /\ c.op = "statement" /\ c.name \in StatementRules(g)
     /\ a.place >= 1 /\ Above(AtLine(a.least + 1), b)
  \/ c.op = "contain" /\ b.least <= a.least /\ b.inside = 0 /\ Laid(T, c.body, a, b)
  \/ c.op = "judge" /\ b.place = 2 /\ Laid(T, c.body, a, b)

Consistent(g, T) ==
  \A c, a, b : <<c, a, b>> \in T => a \in Label /\ b \in Label /\ Step(g, T, c, a, b)

Fits(g, c, a, b) == \E T : Consistent(g, T) /\ Step(g, T, c, a, b)

Fit(g, c, a, b) == \E x, y \in Label : Above(a, x) /\ Fits(g, c, x, y) /\ Above(y, b)

Good(g, s, a, b) == \E T : Consistent(g, T) /\ Laid(T, s, a, b)

(* What tells enough tells enough of what is told by less.                 *)
LEMMA AboveTransitive ==
  ASSUME NEW a \in Label, NEW b \in Label, NEW c \in Label, Above(a, b), Above(b, c)
  PROVE  Above(a, c)
  BY DEF Above, Label

(* The labels that are used, and what they tell.                           *)
LEMMA LabelFacts ==
  /\ \A a \in Label : Above(a, a) /\ Above(a, Anywhere(a.least))
  /\ \A n \in Nat : /\ Anywhere(n) \in Label /\ AtLine(n) \in Label /\ Inside(n) \in Label
                    /\ Anywhere(n).least = n /\ AtLine(n).least = n /\ Inside(n).least = n
                    /\ Anywhere(n).place = 0 /\ AtLine(n).place = 2 /\ Inside(n).place = 0
                    /\ Anywhere(n).inside = 0 /\ AtLine(n).inside = 0 /\ Inside(n).inside = 1
                    /\ Above(AtLine(n), Anywhere(n)) /\ Above(Inside(n), Anywhere(n))
                    /\ Above(AtLine(n + 1), AtLine(n)) /\ Above(Anywhere(n + 1), Anywhere(n))
  BY DEF Above, Label, Anywhere, AtLine, Inside

(* Sequences whose elements have no set that is known.                     *)
LEMMA SeqFacts ==
  /\ IsSeq(<< >>) /\ Len(<< >>) = 0
  /\ \A c : IsSeq(<<c>>) /\ Len(<<c>>) = 1 /\ <<c>>[1] = c
  /\ \A s, t : IsSeq(s) /\ IsSeq(t) =>
       /\ IsSeq(s \o t)
       /\ Len(s \o t) = Len(s) + Len(t)
       /\ \A i \in 1..Len(s) : (s \o t)[i] = s[i]
       /\ \A i \in 1..Len(t) : (s \o t)[Len(s) + i] = t[i]
  /\ \A s : IsSeq(s) => Len(s) \in Nat
  <1>1. IsSeq(<< >>)
    BY DEF IsSeq
  <1>2. ASSUME NEW c PROVE IsSeq(<<c>>)
    <2>1. <<c>> \in Seq({c})
      OBVIOUS
    <2> QED
      BY <2>1 DEF IsSeq
  <1>3. ASSUME NEW s, NEW t, IsSeq(s), IsSeq(t)
        PROVE  /\ IsSeq(s \o t)
               /\ Len(s \o t) = Len(s) + Len(t)
               /\ \A i \in 1..Len(s) : (s \o t)[i] = s[i]
               /\ \A i \in 1..Len(t) : (s \o t)[Len(s) + i] = t[i]
    <2>1. PICK S, R : s \in Seq(S) /\ t \in Seq(R)
      BY <1>3 DEF IsSeq
    <2>2. s \in Seq(S \cup R) /\ t \in Seq(S \cup R)
      BY <2>1
    <2>3. s \o t \in Seq(S \cup R)
      BY <2>2
    <2> QED
      BY <2>2, <2>3, ConcatProperties DEF IsSeq
  <1>4. \A s : IsSeq(s) => Len(s) \in Nat
    BY LenProperties DEF IsSeq
  <1> QED
    BY <1>1, <1>2, <1>3, <1>4

(* More typed commands type no sequence less.                              *)
LEMMA LaidGrows ==
  ASSUME NEW T, NEW U, T \subseteq U, NEW s, NEW a, NEW b, Laid(T, s, a, b)
  PROVE  Laid(U, s, a, b)
  BY DEF Laid, Does

(* More typed commands type no command less.                               *)
LEMMA StepGrows ==
  ASSUME NEW g, NEW T, NEW U, T \subseteq U, NEW c, NEW a, NEW b, Step(g, T, c, a, b)
  PROVE  Step(g, U, c, a, b)
  BY LaidGrows DEF Step, Does

(* Two sets of typed commands may be joined.                               *)
LEMMA ConsistentUnion ==
  ASSUME NEW g, NEW T, NEW U, Consistent(g, T), Consistent(g, U)
  PROVE  Consistent(g, T \cup U)
  <1>1. T \subseteq T \cup U /\ U \subseteq T \cup U
    OBVIOUS
  <1> QED
    BY <1>1, StepGrows DEF Consistent

(* A command fits if and only if it is in a consistent set.                *)
LEMMA MembersFit ==
  ASSUME NEW g, NEW T, Consistent(g, T), NEW c, NEW a, NEW b, <<c, a, b>> \in T
  PROVE  a \in Label /\ b \in Label /\ Fits(g, c, a, b)
  BY DEF Consistent, Fits

(* A command that fits is in a consistent set.                             *)
LEMMA FittingJoins ==
  ASSUME NEW g, NEW c, NEW a \in Label, NEW b \in Label, Fits(g, c, a, b)
  PROVE  \E T : Consistent(g, T) /\ Does(T, c, a, b)
  <1>1. PICK T : Consistent(g, T) /\ Step(g, T, c, a, b)
    BY DEF Fits
  <1> DEFINE U == T \cup {<<c, a, b>>}
  <1>2. T \subseteq U /\ <<c, a, b>> \in U
    OBVIOUS
  <1>3. ASSUME NEW d, NEW x, NEW y, <<d, x, y>> \in U
        PROVE  x \in Label /\ y \in Label /\ Step(g, U, d, x, y)
    <2>1. CASE <<d, x, y>> \in T
      BY <1>1, <1>2, <2>1, StepGrows DEF Consistent
    <2>2. CASE d = c /\ x = a /\ y = b
      BY <1>1, <1>2, <2>2, StepGrows
    <2> QED
      BY <1>3, <2>1, <2>2
  <1>4. Consistent(g, U)
    BY <1>3 DEF Consistent
  <1> QED
    BY <1>2, <1>4, LabelFacts DEF Does

(* The same, for sequences of commands.                                    *)
LEMMA GoodLabels ==
  ASSUME NEW g, NEW s, NEW a, NEW b, Good(g, s, a, b)
  PROVE  /\ IsSeq(s)
         /\ \E lab \in [1..(Len(s) + 1) -> Label] :
              /\ Above(a, lab[1])
              /\ Above(lab[Len(s) + 1], b)
              /\ \A i \in 1..Len(s) : Fit(g, s[i], lab[i], lab[i + 1])
  <1>1. PICK T : Consistent(g, T) /\ Laid(T, s, a, b)
    BY DEF Good
  <1>2. IsSeq(s)
    BY <1>1 DEF Laid
  <1>3. PICK lab \in [1..(Len(s) + 1) -> Label] :
             /\ Above(a, lab[1])
             /\ Above(lab[Len(s) + 1], b)
             /\ \A i \in 1..Len(s) : Does(T, s[i], lab[i], lab[i + 1])
    BY <1>1 DEF Laid
  <1>4. \A i \in 1..Len(s) : Fit(g, s[i], lab[i], lab[i + 1])
    BY <1>1, <1>3, MembersFit DEF Does, Fit
  <1> QED
    BY <1>2, <1>3, <1>4

(* The sequence of no commands.                                            *)
LEMMA GoodEmpty ==
  ASSUME NEW g, NEW a \in Label, NEW b \in Label, Above(a, b)
  PROVE  Good(g, << >>, a, b)
  <1> DEFINE lab == [i \in 1..1 |-> a]
  <1>1. lab \in [1..(Len(<< >>) + 1) -> Label] /\ lab[1] = a
    BY SeqFacts
  <1>2. Above(a, lab[1]) /\ Above(lab[Len(<< >>) + 1], b)
    BY <1>1, SeqFacts, LabelFacts
  <1>3. \A i \in 1..Len(<< >>) : Does({}, << >>[i], lab[i], lab[i + 1])
    BY SeqFacts
  <1>4. Laid({}, << >>, a, b)
    <2> HIDE DEF lab
    <2> QED
      BY <1>1, <1>2, <1>3, SeqFacts DEF Laid
  <1>5. Consistent(g, {})
    BY DEF Consistent
  <1> QED
    BY <1>4, <1>5 DEF Good

(* A sequence of one command.                                              *)
LEMMA GoodOne ==
  ASSUME NEW g, NEW c, NEW a \in Label, NEW b \in Label, Fits(g, c, a, b)
  PROVE  Good(g, <<c>>, a, b)
  <1>1. PICK T : Consistent(g, T) /\ Does(T, c, a, b)
    BY FittingJoins
  <1> DEFINE lab == [i \in 1..2 |-> IF i = 1 THEN a ELSE b]
  <1>2. lab \in [1..2 -> Label] /\ lab[1] = a /\ lab[2] = b
    OBVIOUS
  <1>3. IsSeq(<<c>>) /\ Len(<<c>>) = 1 /\ <<c>>[1] = c
    BY SeqFacts
  <1>4. Above(a, lab[1]) /\ Above(lab[2], b)
    BY <1>2, LabelFacts
  <1>5. Laid(T, <<c>>, a, b)
    <2> HIDE DEF lab
    <2>1. lab \in [1..(Len(<<c>>) + 1) -> Label] /\ Above(lab[Len(<<c>>) + 1], b)
      BY <1>2, <1>3, <1>4
    <2>2. \A i \in 1..Len(<<c>>) : Does(T, <<c>>[i], lab[i], lab[i + 1])
      BY <1>1, <1>2, <1>3
    <2> QED
      BY <1>3, <1>4, <2>1, <2>2 DEF Laid
  <1> QED
    BY <1>1, <1>5 DEF Good

(* More may be known before a sequence, and less behind it.                *)
LEMMA GoodWeaker ==
  ASSUME NEW g, NEW s, NEW a \in Label, NEW b \in Label, NEW c \in Label, NEW d \in Label,
         Above(a, b), Good(g, s, b, c), Above(c, d)
  PROVE  Good(g, s, a, d)
  <1>1. PICK T : Consistent(g, T) /\ Laid(T, s, b, c)
    BY DEF Good
  <1>2. IsSeq(s) /\ Len(s) \in Nat
    BY <1>1, SeqFacts DEF Laid
  <1>3. PICK lab \in [1..(Len(s) + 1) -> Label] :
             /\ Above(b, lab[1])
             /\ Above(lab[Len(s) + 1], c)
             /\ \A i \in 1..Len(s) : Does(T, s[i], lab[i], lab[i + 1])
    BY <1>1 DEF Laid
  <1>4. lab[1] \in Label /\ lab[Len(s) + 1] \in Label
    BY <1>2
  <1>5. Above(a, lab[1]) /\ Above(lab[Len(s) + 1], d)
    BY <1>3, <1>4, AboveTransitive
  <1>6. Laid(T, s, a, d)
    BY <1>2, <1>3, <1>5 DEF Laid
  <1> QED
    BY <1>1, <1>6 DEF Good

(* One sequence behind the other: this is how a production calls the next. *)
LEMMA GoodConcat ==
  ASSUME NEW g, NEW s, NEW t, NEW a \in Label, NEW b \in Label, NEW c \in Label,
         Good(g, s, a, b), Good(g, t, b, c)
  PROVE  Good(g, s \o t, a, c)
  <1>1. PICK T : Consistent(g, T) /\ Laid(T, s, a, b)
    BY DEF Good
  <1>2. PICK U : Consistent(g, U) /\ Laid(U, t, b, c)
    BY DEF Good
  <1>3. /\ IsSeq(s) /\ IsSeq(t) /\ Len(s) \in Nat /\ Len(t) \in Nat
        /\ IsSeq(s \o t) /\ Len(s \o t) = Len(s) + Len(t)
    BY <1>1, <1>2, SeqFacts DEF Laid
  <1>4. PICK m \in [1..(Len(s) + 1) -> Label] :
             /\ Above(a, m[1])
             /\ Above(m[Len(s) + 1], b)
             /\ \A i \in 1..Len(s) : Does(T, s[i], m[i], m[i + 1])
    BY <1>1 DEF Laid
  <1>5. PICK n \in [1..(Len(t) + 1) -> Label] :
             /\ Above(b, n[1])
             /\ Above(n[Len(t) + 1], c)
             /\ \A i \in 1..Len(t) : Does(U, t[i], n[i], n[i + 1])
    BY <1>2 DEF Laid
  <1> DEFINE lab == [i \in 1..(Len(s) + Len(t) + 1) |-> IF i <= Len(s) THEN m[i] ELSE n[i - Len(s)]]
  <1>6. /\ m[1] \in Label /\ m[Len(s) + 1] \in Label
        /\ n[1] \in Label /\ n[Len(t) + 1] \in Label
        /\ Above(m[Len(s) + 1], n[1])
    <2>1. m[1] \in Label /\ m[Len(s) + 1] \in Label /\ n[1] \in Label /\ n[Len(t) + 1] \in Label
      BY <1>3
    <2> QED
      BY <2>1, <1>4, <1>5, AboveTransitive
  <1>7. /\ \A i \in 1..Len(s) : lab[i] = m[i]
        /\ \A i \in 1..(Len(t) + 1) : lab[Len(s) + i] = n[i]
        /\ lab \in [1..(Len(s \o t) + 1) -> Label]
    BY <1>3
  <1> HIDE DEF lab
  <1>8. Above(a, lab[1])
    <2>1. CASE Len(s) = 0
      <3>1. Above(a, n[1])
        BY <2>1, <1>4, <1>6, AboveTransitive
      <3> QED
        BY <3>1, <2>1, <1>3, <1>7
    <2>2. CASE Len(s) > 0
      BY <2>2, <1>3, <1>4, <1>7
    <2> QED
      BY <2>1, <2>2, <1>3
  <1>9. Above(lab[Len(s \o t) + 1], c)
    <2>1. Len(s \o t) + 1 = Len(s) + (Len(t) + 1) /\ Len(t) + 1 \in 1..(Len(t) + 1)
      BY <1>3
    <2> QED
      BY <2>1, <1>5, <1>7
  <1>10. ASSUME NEW i \in 1..Len(s \o t)
         PROVE  Does(T \cup U, (s \o t)[i], lab[i], lab[i + 1])
    <2>1. CASE i \in 1..(Len(s) - 1)
      <3>1. i \in 1..Len(s) /\ i + 1 \in 1..Len(s)
        BY <2>1, <1>3
      <3>2. (s \o t)[i] = s[i] /\ lab[i] = m[i] /\ lab[i + 1] = m[i + 1]
        BY <3>1, <1>3, <1>7, SeqFacts
      <3> QED
        BY <3>1, <3>2, <1>4 DEF Does
    <2>2. CASE i = Len(s)
      <3>1. i \in 1..Len(s) /\ i + 1 = Len(s) + 1 /\ 1 \in 1..(Len(t) + 1)
        BY <2>2, <1>3
      <3>2. (s \o t)[i] = s[i] /\ lab[i] = m[i] /\ lab[i + 1] = n[1]
        BY <3>1, <1>3, <1>7, SeqFacts
      <3>3. PICK x, y \in Label : Above(m[i], x) /\ <<s[i], x, y>> \in T /\ Above(y, m[Len(s) + 1])
        BY <3>1, <1>4 DEF Does
      <3>4. Above(y, n[1])
        BY <3>3, <1>6, AboveTransitive
      <3> QED
        BY <3>2, <3>3, <3>4 DEF Does
    <2>3. CASE i \in (Len(s) + 1)..(Len(s) + Len(t))
      <3>1. PICK j \in 1..Len(t) : i = Len(s) + j
        <4>1. i - Len(s) \in 1..Len(t) /\ i = Len(s) + (i - Len(s))
          BY <2>3, <1>3
        <4> QED
          BY <4>1
      <3>2. j \in 1..(Len(t) + 1) /\ j + 1 \in 1..(Len(t) + 1) /\ i + 1 = Len(s) + (j + 1)
        BY <3>1, <1>3
      <3>3. (s \o t)[i] = t[j] /\ lab[i] = n[j] /\ lab[i + 1] = n[j + 1]
        BY <3>1, <3>2, <1>3, <1>7, SeqFacts
      <3> QED
        BY <3>1, <3>3, <1>5 DEF Does
    <2>4. i \in 1..(Len(s) - 1) \/ i = Len(s) \/ i \in (Len(s) + 1)..(Len(s) + Len(t))
      BY <1>3
    <2> QED
      BY <2>1, <2>2, <2>3, <2>4
  <1>11. Laid(T \cup U, s \o t, a, c)
    BY <1>3, <1>7, <1>8, <1>9, <1>10 DEF Laid
  <1>12. Consistent(g, T \cup U)
    BY <1>1, <1>2, ConsistentUnion
  <1> QED
    BY <1>11, <1>12 DEF Good

(* One lemma for each kind of command.                                     *)
LEMMA GoodNode ==
  ASSUME NEW g, NEW a \in Label, NEW b \in Label, NEW p, NEW kind, Good(g, p, a, b)
  PROVE  Good(g, <<[op |-> "wrap", kind |-> kind, body |-> p]>>, a, b)
  <1> DEFINE c == [op |-> "wrap", kind |-> kind, body |-> p]
  <1>1. PICK T : Consistent(g, T) /\ Laid(T, p, a, b)
    BY DEF Good
  <1>2. Step(g, T, c, a, b)
    BY <1>1 DEF Step
  <1>3. Fits(g, c, a, b)
    BY <1>1, <1>2 DEF Fits
  <1> QED
    BY <1>3, GoodOne

(* A Judged production must leave the position behind a line: its verdict  *)
(* fails without an error().                                               *)
LEMMA GoodJudged ==
  ASSUME NEW g, NEW a \in Label, NEW b \in Label, NEW p, NEW kind, Good(g, p, a, b), b.place = 2
  PROVE  Good(g, <<[op |-> "judge", kind |-> kind, body |-> p]>>, a, b)
  <1> DEFINE c == [op |-> "judge", kind |-> kind, body |-> p]
  <1>1. PICK T : Consistent(g, T) /\ Laid(T, p, a, b)
    BY DEF Good
  <1>2. Step(g, T, c, a, b)
    BY <1>1 DEF Step
  <1>3. Fits(g, c, a, b)
    BY <1>1, <1>2 DEF Fits
  <1> QED
    BY <1>3, GoodOne

(* What holds behind a contained body must hold before it, too, for the    *)
(* body may fail at once.                                                  *)
LEMMA GoodContained ==
  ASSUME NEW g, NEW a \in Label, NEW b \in Label, NEW p, NEW as, NEW judged, Good(g, p, a, b),
         b.least <= a.least, b.inside = 0
  PROVE  Good(g, <<[op |-> "contain", as |-> as, judged |-> judged, body |-> p]>>, a, b)
  <1> DEFINE c == [op |-> "contain", as |-> as, judged |-> judged, body |-> p]
  <1>1. PICK T : Consistent(g, T) /\ Laid(T, p, a, b)
    BY DEF Good
  <1>2. Step(g, T, c, a, b)
    BY <1>1 DEF Step
  <1>3. Fits(g, c, a, b)
    BY <1>1, <1>2 DEF Fits
  <1> QED
    BY <1>3, GoodOne

(* Both branches of a choice lead to the same.                             *)
LEMMA GoodChoice ==
  ASSUME NEW g, NEW a \in Label, NEW b \in Label, NEW p, NEW q, NEW test,
         Good(g, p, a, b), Good(g, q, a, b)
  PROVE  Good(g, <<[op |-> "if", test |-> test, yes |-> p, no |-> q]>>, a, b)
  <1> DEFINE c == [op |-> "if", test |-> test, yes |-> p, no |-> q]
  <1>1. PICK T : Consistent(g, T) /\ Laid(T, p, a, b)
    BY DEF Good
  <1>2. PICK U : Consistent(g, U) /\ Laid(U, q, a, b)
    BY DEF Good
  <1>3. Laid(T \cup U, p, a, b) /\ Laid(T \cup U, q, a, b)
    <2>1. T \subseteq T \cup U /\ U \subseteq T \cup U
      OBVIOUS
    <2> QED
      BY <1>1, <1>2, <2>1, LaidGrows
  <1>4. Step(g, T \cup U, c, a, b)
    BY <1>3 DEF Step
  <1>5. Consistent(g, T \cup U)
    BY <1>1, <1>2, ConsistentUnion
  <1>6. Fits(g, c, a, b)
    BY <1>4, <1>5 DEF Fits
  <1> QED
    BY <1>6, GoodOne

(* What the body of a loop keeps, the loop keeps.                          *)
LEMMA GoodLoop ==
  ASSUME NEW g, NEW b \in Label, NEW p, NEW any, NEW is, Good(g, p, b, b), b.inside = 0
  PROVE  Good(g, <<[op |-> "while", any |-> any, is |-> is, body |-> p]>>, b, b)
  <1> DEFINE c == [op |-> "while", any |-> any, is |-> is, body |-> p]
  <1>1. PICK T : Consistent(g, T) /\ Laid(T, p, b, b)
    BY DEF Good
  <1>2. Step(g, T, c, b, b)
    BY <1>1, LabelFacts DEF Step
  <1>3. Fits(g, c, b, b)
    BY <1>1, <1>2 DEF Fits
  <1> QED
    BY <1>3, GoodOne

(* Commands without a body need no others.                                 *)
LEMMA NothingConsistent == \A g : Consistent(g, {})
  BY DEF Consistent

(* take                                                                    *)
LEMMA GoodTaken ==
  ASSUME NEW g, NEW a \in Label, NEW b \in Label, NEW S, Taken(S, a, b)
  PROVE  Good(g, <<[op |-> "take", of |-> S]>>, a, b)
  <1>1. Step(g, {}, [op |-> "take", of |-> S], a, b)
    BY DEF Step
  <1>2. Fits(g, [op |-> "take", of |-> S], a, b)
    BY <1>1, NothingConsistent DEF Fits
  <1> QED
    BY <1>2, GoodOne

(* error and raise: control does not come behind them. An Err without an   *)
(* error() must be raised behind a line.                                   *)
LEMMA GoodFailures ==
  ASSUME NEW g, NEW a \in Label, NEW b \in Label
  PROVE  /\ Good(g, <<[op |-> "error"]>>, a, b)
         /\ a.place = 2 => Good(g, <<[op |-> "raise"]>>, a, b)
  <1>1. /\ Step(g, {}, [op |-> "error"], a, b)
        /\ a.place = 2 => Step(g, {}, [op |-> "raise"], a, b)
    BY DEF Step
  <1>2. /\ Fits(g, [op |-> "error"], a, b)
        /\ a.place = 2 => Fits(g, [op |-> "raise"], a, b)
    BY <1>1, NothingConsistent DEF Fits
  <1> QED
    BY <1>2, GoodOne

(* The lenient identifier is sure to come forward only before the end.     *)
LEMMA GoodLenient ==
  ASSUME NEW g, NEW n \in Nat
  PROVE  /\ Good(g, <<[op |-> "lenient"]>>, Anywhere(n), Anywhere(n))
         /\ Good(g, <<[op |-> "lenient"]>>, Inside(n), Anywhere(n + 1))
  <1>1. /\ Step(g, {}, [op |-> "lenient"], Anywhere(n), Anywhere(n))
        /\ Step(g, {}, [op |-> "lenient"], Inside(n), Anywhere(n + 1))
    BY DEF Step, Anywhere, Inside
  <1>2. /\ Fits(g, [op |-> "lenient"], Anywhere(n), Anywhere(n))
        /\ Fits(g, [op |-> "lenient"], Inside(n), Anywhere(n + 1))
    BY <1>1, NothingConsistent DEF Fits
  <1> QED
    BY <1>2, GoodOne, LabelFacts

(* reset and tally, the count of the columns of .data                      *)
LEMMA GoodCounting ==
  ASSUME NEW g, NEW n \in Nat
  PROVE  /\ Good(g, <<[op |-> "reset"]>>, Anywhere(n), Anywhere(n))
         /\ Good(g, <<[op |-> "tally"]>>, Anywhere(n), Anywhere(n))
  <1>1. /\ Step(g, {}, [op |-> "reset"], Anywhere(n), Anywhere(n))
        /\ Step(g, {}, [op |-> "tally"], Anywhere(n), Anywhere(n))
    BY LabelFacts DEF Step
  <1>2. /\ Fits(g, [op |-> "reset"], Anywhere(n), Anywhere(n))
        /\ Fits(g, [op |-> "tally"], Anywhere(n), Anywhere(n))
    BY <1>1, NothingConsistent DEF Fits
  <1> QED
    BY <1>2, GoodOne, LabelFacts

(* What a rule promises is a label.                                        *)
LEMMA ResultIsLabel == \A g, name : \A n \in Nat : Result(g, name, n) \in Label
  BY LabelFacts DEF Result

(* A call leads to what the rule promises.                                 *)
LEMMA GoodCall ==
  ASSUME NEW g, NEW name \in RuleNames(g), NEW n \in Nat
  PROVE  Good(g, <<[op |-> "call", name |-> name]>>, Anywhere(n), Result(g, name, n))
  <1>1. Step(g, {}, [op |-> "call", name |-> name], Anywhere(n), Result(g, name, n))
    BY LabelFacts, ResultIsLabel DEF Step
  <1>2. Fits(g, [op |-> "call", name |-> name], Anywhere(n), Result(g, name, n))
    BY <1>1, NothingConsistent DEF Fits
  <1> QED
    BY <1>2, GoodOne, LabelFacts, ResultIsLabel

(* A statement begins at the start of a line, or behind the dot there.     *)
LEMMA GoodStatement ==
  ASSUME NEW g, NEW name \in StatementRules(g), NEW a \in Label, NEW n \in Nat,
         a.least = n, a.place >= 1
  PROVE  Good(g, <<[op |-> "statement", name |-> name]>>, a, AtLine(n + 1))
  <1>1. AtLine(n + 1) \in Label /\ Above(AtLine(n + 1), AtLine(n + 1))
    BY LabelFacts
  <1>2. Step(g, {}, [op |-> "statement", name |-> name], a, AtLine(n + 1))
    BY <1>1 DEF Step
  <1>3. Fits(g, [op |-> "statement", name |-> name], a, AtLine(n + 1))
    BY <1>2, NothingConsistent DEF Fits
  <1> QED
    BY <1>1, <1>3, GoodOne

(* A body that is repeated is one command.                                 *)
LEMMA GoodRepeated ==
  ASSUME NEW g, NEW n \in Nat, NEW c, NEW op \in {"repeat", "units"},
         Good(g, <<c>>, Anywhere(n), Anywhere(n))
  PROVE  Good(g, <<[op |-> op, body |-> <<c>>]>>, Anywhere(n), Anywhere(n))
  <1> DEFINE d == [op |-> op, body |-> <<c>>]
             A == Anywhere(n)
  <1>1. PICK T : Consistent(g, T) /\ Laid(T, <<c>>, A, A)
    BY DEF Good
  <1>2. IsSeq(<<c>>) /\ Len(<<c>>) = 1 /\ <<c>>[1] = c
    BY SeqFacts
  <1>3. PICK lab \in [1..2 -> Label] :
          Above(A, lab[1]) /\ Above(lab[2], A) /\ Does(T, c, lab[1], lab[2])
    <2>1. PICK lab \in [1..(Len(<<c>>) + 1) -> Label] :
               /\ Above(A, lab[1])
               /\ Above(lab[Len(<<c>>) + 1], A)
               /\ \A i \in 1..Len(<<c>>) : Does(T, <<c>>[i], lab[i], lab[i + 1])
      BY <1>1 DEF Laid
    <2> QED
      BY <2>1, <1>2
  <1>4. PICK x, y \in Label : Above(lab[1], x) /\ <<c, x, y>> \in T /\ Above(y, lab[2])
    BY <1>3 DEF Does
  <1>5. A \in Label /\ A.least = n /\ Above(A, A) /\ lab[1] \in Label /\ lab[2] \in Label
    BY LabelFacts
  <1>6. Above(A, x) /\ Above(y, A)
    BY <1>3, <1>4, <1>5, AboveTransitive
  <1>7. Does(T, c, A, A)
    BY <1>4, <1>6 DEF Does
  <1>8. Step(g, T, d, A, A)
    <2>1. d.op \in {"repeat", "units"} /\ d.body = <<c>>
      OBVIOUS
    <2>2. \A i \in 1..Len(d.body) : Does(T, d.body[i], A, A)
      BY <1>2, <1>7, <2>1
    <2> HIDE DEF d, A
    <2> QED
      BY <2>1, <2>2, <1>2, <1>5 DEF Step, A
  <1>9. Fits(g, d, A, A)
    BY <1>1, <1>8 DEF Fits
  <1> QED
    BY <1>5, <1>9, GoodOne

-----------------------------------------------------------------------------
(* The kinds of productions: those that end no line, those that take a     *)
(* token, those that end a line, statements, and what stands between lines.*)
Keeps(g, p)       == \A n \in Nat : Good(g, p, Anywhere(n), Anywhere(n))
Moves(g, p)       == \A n \in Nat : Good(g, p, Anywhere(n), Anywhere(n + 1))
EndsLine(g, p)    == \A n \in Nat : Good(g, p, Anywhere(n), AtLine(n))
IsStatement(g, p) == \A n \in Nat : Good(g, p, Anywhere(n), AtLine(n + 1))
KeepsLine(g, p)   == \A n \in Nat : Good(g, p, AtLine(n), AtLine(n))

(* A statement takes a token and ends a line; what ends a line keeps one.  *)
LEMMA KindsWeaken ==
  ASSUME NEW g, NEW p
  PROVE  /\ IsStatement(g, p) => Moves(g, p) /\ EndsLine(g, p)
         /\ Moves(g, p) => Keeps(g, p)
         /\ EndsLine(g, p) => Keeps(g, p) /\ KeepsLine(g, p)
  <1> USE LabelFacts
  <1>1. \A n \in Nat : n + 1 \in Nat
    OBVIOUS
  <1>2. ASSUME NEW n \in Nat, Good(g, p, Anywhere(n), AtLine(n + 1))
        PROVE  Good(g, p, Anywhere(n), Anywhere(n + 1)) /\ Good(g, p, Anywhere(n), AtLine(n))
    BY <1>1, <1>2, GoodWeaker
  <1>3. ASSUME NEW n \in Nat, Good(g, p, Anywhere(n), Anywhere(n + 1))
        PROVE  Good(g, p, Anywhere(n), Anywhere(n))
    BY <1>1, <1>3, GoodWeaker
  <1>4. ASSUME NEW n \in Nat, Good(g, p, Anywhere(n), AtLine(n))
        PROVE  Good(g, p, Anywhere(n), Anywhere(n)) /\ Good(g, p, AtLine(n), AtLine(n))
    BY <1>1, <1>4, GoodWeaker
  <1> QED
    BY <1>2, <1>3, <1>4 DEF IsStatement, Moves, EndsLine, Keeps, KeepsLine

(* The production that does nothing.                                       *)
LEMMA KindsOfNothing ==
  ASSUME NEW g
  PROVE  Keeps(g, << >>) /\ KeepsLine(g, << >>)
  BY GoodEmpty, LabelFacts DEF Keeps, KeepsLine

(* The kinds of two productions, one behind the other.                     *)
LEMMA KindsOfConcat ==
  ASSUME NEW g, NEW p, NEW q
  PROVE  /\ Keeps(g, p) /\ Keeps(g, q) => Keeps(g, p \o q)
         /\ Moves(g, p) /\ Keeps(g, q) => Moves(g, p \o q)
         /\ Keeps(g, p) /\ Moves(g, q) => Moves(g, p \o q)
         /\ Keeps(g, p) /\ EndsLine(g, q) => EndsLine(g, p \o q)
         /\ EndsLine(g, p) /\ KeepsLine(g, q) => EndsLine(g, p \o q)
         /\ Moves(g, p) /\ EndsLine(g, q) => IsStatement(g, p \o q)
         /\ Keeps(g, p) /\ IsStatement(g, q) => IsStatement(g, p \o q)
         /\ IsStatement(g, p) /\ KeepsLine(g, q) => IsStatement(g, p \o q)
         /\ KeepsLine(g, p) /\ KeepsLine(g, q) => KeepsLine(g, p \o q)
  <1>1. \A n \in Nat : /\ n + 1 \in Nat
                       /\ Anywhere(n) \in Label /\ AtLine(n) \in Label
                       /\ Anywhere(n + 1) \in Label /\ AtLine(n + 1) \in Label
    BY LabelFacts
  <1> QED
    BY <1>1, GoodConcat DEF Keeps, Moves, EndsLine, IsStatement, KeepsLine

(* The vocabulary of the productions, as each grammar has it.              *)
LEMMA SpiceTakes ==
  ASSUME NEW g, NEW S
  PROVE  /\ Keeps(g, Spice!Take(S))
         /\ "ENDMARKER" \notin S => Moves(g, Spice!Take(S))
         /\ S \subseteq {"NEWLINE", "ENDMARKER"} => EndsLine(g, Spice!Take(S))
         /\ S \subseteq {"LBRACE", "RBRACE"} => IsStatement(g, Spice!Take(S))
  <1>1. ASSUME NEW n \in Nat
        PROVE  /\ Taken(S, Anywhere(n), Anywhere(n))
               /\ "ENDMARKER" \notin S => Taken(S, Anywhere(n), Anywhere(n + 1))
               /\ S \subseteq {"NEWLINE", "ENDMARKER"} => Taken(S, Anywhere(n), AtLine(n))
               /\ S \subseteq {"LBRACE", "RBRACE"} => Taken(S, Anywhere(n), AtLine(n + 1))
    BY DEF Taken, Anywhere, AtLine
  <1> QED
    BY <1>1, GoodTaken, LabelFacts DEF Keeps, Moves, EndsLine, IsStatement, Spice!Take

LEMMA SpiceFailures ==
  ASSUME NEW g
  PROVE  /\ Keeps(g, Spice!Error) /\ KeepsLine(g, Spice!Error)
         /\ EndsLine(g, Spice!Error) /\ IsStatement(g, Spice!Error)
         /\ KeepsLine(g, Spice!Raise)
  BY GoodFailures, LabelFacts DEF Keeps, KeepsLine, EndsLine, IsStatement, Spice!Error, Spice!Raise

LEMMA SpiceNodes ==
  ASSUME NEW g, NEW k, NEW p
  PROVE  /\ Keeps(g, p) => Keeps(g, Spice!Wrap(k, p)) /\ Keeps(g, Spice!WrapOnErr(p))
         /\ Moves(g, p) => Moves(g, Spice!Wrap(k, p)) /\ Moves(g, Spice!WrapOnErr(p))
         /\ EndsLine(g, p) => EndsLine(g, Spice!Wrap(k, p)) /\ EndsLine(g, Spice!Judged(k, p))
         /\ IsStatement(g, p) => /\ IsStatement(g, Spice!Wrap(k, p))
                                 /\ IsStatement(g, Spice!Judged(k, p))
  <1>1. \A n \in Nat : n + 1 \in Nat
    OBVIOUS
  <1>2. /\ Keeps(g, p) => Keeps(g, Spice!Wrap(k, p)) /\ Keeps(g, Spice!WrapOnErr(p))
        /\ Moves(g, p) => Moves(g, Spice!Wrap(k, p)) /\ Moves(g, Spice!WrapOnErr(p))
    BY <1>1, GoodNode, LabelFacts DEF Keeps, Moves, Spice!Wrap, Spice!WrapOnErr
  <1>3. /\ EndsLine(g, p) => EndsLine(g, Spice!Wrap(k, p))
        /\ IsStatement(g, p) => IsStatement(g, Spice!Wrap(k, p))
    BY <1>1, GoodNode, LabelFacts DEF EndsLine, IsStatement, Spice!Wrap
  <1>4. /\ EndsLine(g, p) => EndsLine(g, Spice!Judged(k, p))
        /\ IsStatement(g, p) => IsStatement(g, Spice!Judged(k, p))
    BY <1>1, GoodJudged, LabelFacts DEF EndsLine, IsStatement, Spice!Judged
  <1> QED
    BY <1>2, <1>3, <1>4

LEMMA SpiceChoices ==
  ASSUME NEW g, NEW test, NEW p, NEW q
  PROVE  /\ Keeps(g, p) /\ Keeps(g, q) => Keeps(g, Spice!IfElse(test, p, q))
         /\ Moves(g, p) /\ Moves(g, q) => Moves(g, Spice!IfElse(test, p, q))
         /\ EndsLine(g, p) /\ EndsLine(g, q) => EndsLine(g, Spice!IfElse(test, p, q))
         /\ KeepsLine(g, p) /\ KeepsLine(g, q) => KeepsLine(g, Spice!IfElse(test, p, q))
         /\ Keeps(g, p) => Keeps(g, Spice!If(test, p))
         /\ KeepsLine(g, p) => KeepsLine(g, Spice!If(test, p))
  <1>1. /\ Keeps(g, p) /\ Keeps(g, q) => Keeps(g, Spice!IfElse(test, p, q))
        /\ Moves(g, p) /\ Moves(g, q) => Moves(g, Spice!IfElse(test, p, q))
    <2>1. \A n \in Nat : n + 1 \in Nat
      OBVIOUS
    <2> QED
      BY <2>1, GoodChoice, LabelFacts DEF Keeps, Moves, Spice!IfElse
  <1>2. /\ EndsLine(g, p) /\ EndsLine(g, q) => EndsLine(g, Spice!IfElse(test, p, q))
        /\ KeepsLine(g, p) /\ KeepsLine(g, q) => KeepsLine(g, Spice!IfElse(test, p, q))
    BY GoodChoice, LabelFacts DEF EndsLine, KeepsLine, Spice!IfElse
  <1>3. /\ Keeps(g, p) => Keeps(g, Spice!If(test, p))
        /\ KeepsLine(g, p) => KeepsLine(g, Spice!If(test, p))
    BY GoodChoice, KindsOfNothing, LabelFacts DEF Keeps, KeepsLine, Spice!If, Spice!IfElse
  <1> QED
    BY <1>1, <1>2, <1>3

LEMMA SpiceLoops ==
  ASSUME NEW g, NEW test, NEW test2, NEW p
  PROVE  /\ Keeps(g, p) => /\ Keeps(g, Spice!While(test, p))
                           /\ Keeps(g, Spice!Until(test, p))
         /\ KeepsLine(g, p) => /\ KeepsLine(g, Spice!While(test, p))
                               /\ KeepsLine(g, Spice!Until(test, p))
                               /\ KeepsLine(g, Spice!UntilEither(test, test2, p))
  BY GoodLoop, LabelFacts DEF Keeps, KeepsLine, Spice!While, Spice!Until, Spice!UntilEither

LEMMA SpiceCalls ==
  ASSUME NEW g, NEW name \in RuleNames(g)
  PROVE  /\ Keeps(g, Spice!Call(name))
         /\ name \in StatementRules(g) => IsStatement(g, Spice!Call(name))
         /\ name \in TailRules(g) => EndsLine(g, Spice!Call(name))
  <1>1. \A n \in Nat : Good(g, Spice!Call(name), Anywhere(n), Result(g, name, n))
    BY GoodCall DEF Spice!Call
  <1>2. /\ name \in StatementRules(g) => IsStatement(g, Spice!Call(name))
        /\ name \in TailRules(g) => \/ IsStatement(g, Spice!Call(name))
                                    \/ EndsLine(g, Spice!Call(name))
        /\ \/ IsStatement(g, Spice!Call(name))
           \/ EndsLine(g, Spice!Call(name))
           \/ Keeps(g, Spice!Call(name))
    BY <1>1 DEF Result, IsStatement, EndsLine, Keeps
  <1> QED
    BY <1>2, KindsWeaken

LEMMA SpiceBegins ==
  ASSUME NEW g, NEW name \in StatementRules(g)
  PROVE  KeepsLine(g, Spice!Statement(name))
  <1>1. ASSUME NEW n \in Nat
        PROVE  Good(g, Spice!Statement(name), AtLine(n), AtLine(n))
    <2>1. n + 1 \in Nat
      OBVIOUS
    <2>2. Good(g, Spice!Statement(name), AtLine(n), AtLine(n + 1))
      BY GoodStatement, LabelFacts DEF Spice!Statement
    <2> QED
      BY <2>1, <2>2, GoodWeaker, LabelFacts
  <1> QED
    BY <1>1 DEF KeepsLine

LEMMA SpiceContainers ==
  ASSUME NEW g, NEW as, NEW p, NEW judged
  PROVE  /\ Keeps(g, p) => Keeps(g, Spice!Contained(as, p, judged))
         /\ EndsLine(g, p) => EndsLine(g, Spice!Contained(as, p, judged))
         /\ KeepsLine(g, p) => KeepsLine(g, Spice!Contained(as, p, judged))
  BY GoodContained, LabelFacts DEF Keeps, EndsLine, KeepsLine, Spice!Contained

LEMMA SpectreTakes ==
  ASSUME NEW g, NEW S
  PROVE  /\ Keeps(g, Spectre!Take(S))
         /\ "ENDMARKER" \notin S => Moves(g, Spectre!Take(S))
         /\ S \subseteq {"NEWLINE", "ENDMARKER"} => EndsLine(g, Spectre!Take(S))
         /\ S \subseteq {"LBRACE", "RBRACE"} => IsStatement(g, Spectre!Take(S))
  <1>1. ASSUME NEW n \in Nat
        PROVE  /\ Taken(S, Anywhere(n), Anywhere(n))
               /\ "ENDMARKER" \notin S => Taken(S, Anywhere(n), Anywhere(n + 1))
               /\ S \subseteq {"NEWLINE", "ENDMARKER"} => Taken(S, Anywhere(n), AtLine(n))
               /\ S \subseteq {"LBRACE", "RBRACE"} => Taken(S, Anywhere(n), AtLine(n + 1))
    BY DEF Taken, Anywhere, AtLine
  <1> QED
    BY <1>1, GoodTaken, LabelFacts DEF Keeps, Moves, EndsLine, IsStatement, Spectre!Take

LEMMA SpectreFailures ==
  ASSUME NEW g
  PROVE  /\ Keeps(g, Spectre!Error) /\ KeepsLine(g, Spectre!Error)
         /\ EndsLine(g, Spectre!Error) /\ IsStatement(g, Spectre!Error)
         /\ KeepsLine(g, Spectre!Raise)
  BY GoodFailures, LabelFacts
     DEF Keeps, KeepsLine, EndsLine, IsStatement, Spectre!Error, Spectre!Raise

LEMMA SpectreNodes ==
  ASSUME NEW g, NEW k, NEW p
  PROVE  /\ Keeps(g, p) => Keeps(g, Spectre!Wrap(k, p)) /\ Keeps(g, Spectre!WrapOnErr(p))
         /\ Moves(g, p) => Moves(g, Spectre!Wrap(k, p)) /\ Moves(g, Spectre!WrapOnErr(p))
         /\ EndsLine(g, p) => EndsLine(g, Spectre!Wrap(k, p)) /\ EndsLine(g, Spectre!Judged(k, p))
         /\ IsStatement(g, p) => /\ IsStatement(g, Spectre!Wrap(k, p))
                                 /\ IsStatement(g, Spectre!Judged(k, p))
  <1>1. \A n \in Nat : n + 1 \in Nat
    OBVIOUS
  <1>2. /\ Keeps(g, p) => Keeps(g, Spectre!Wrap(k, p)) /\ Keeps(g, Spectre!WrapOnErr(p))
        /\ Moves(g, p) => Moves(g, Spectre!Wrap(k, p)) /\ Moves(g, Spectre!WrapOnErr(p))
    BY <1>1, GoodNode, LabelFacts DEF Keeps, Moves, Spectre!Wrap, Spectre!WrapOnErr
  <1>3. /\ EndsLine(g, p) => EndsLine(g, Spectre!Wrap(k, p))
        /\ IsStatement(g, p) => IsStatement(g, Spectre!Wrap(k, p))
    BY <1>1, GoodNode, LabelFacts DEF EndsLine, IsStatement, Spectre!Wrap
  <1>4. /\ EndsLine(g, p) => EndsLine(g, Spectre!Judged(k, p))
        /\ IsStatement(g, p) => IsStatement(g, Spectre!Judged(k, p))
    BY <1>1, GoodJudged, LabelFacts DEF EndsLine, IsStatement, Spectre!Judged
  <1> QED
    BY <1>2, <1>3, <1>4

LEMMA SpectreChoices ==
  ASSUME NEW g, NEW test, NEW p, NEW q
  PROVE  /\ Keeps(g, p) /\ Keeps(g, q) => Keeps(g, Spectre!IfElse(test, p, q))
         /\ Moves(g, p) /\ Moves(g, q) => Moves(g, Spectre!IfElse(test, p, q))
         /\ EndsLine(g, p) /\ EndsLine(g, q) => EndsLine(g, Spectre!IfElse(test, p, q))
         /\ KeepsLine(g, p) /\ KeepsLine(g, q) => KeepsLine(g, Spectre!IfElse(test, p, q))
         /\ Keeps(g, p) => Keeps(g, Spectre!If(test, p))
         /\ KeepsLine(g, p) => KeepsLine(g, Spectre!If(test, p))
  <1>1. /\ Keeps(g, p) /\ Keeps(g, q) => Keeps(g, Spectre!IfElse(test, p, q))
        /\ Moves(g, p) /\ Moves(g, q) => Moves(g, Spectre!IfElse(test, p, q))
    <2>1. \A n \in Nat : n + 1 \in Nat
      OBVIOUS
    <2> QED
      BY <2>1, GoodChoice, LabelFacts DEF Keeps, Moves, Spectre!IfElse
  <1>2. /\ EndsLine(g, p) /\ EndsLine(g, q) => EndsLine(g, Spectre!IfElse(test, p, q))
        /\ KeepsLine(g, p) /\ KeepsLine(g, q) => KeepsLine(g, Spectre!IfElse(test, p, q))
    BY GoodChoice, LabelFacts DEF EndsLine, KeepsLine, Spectre!IfElse
  <1>3. /\ Keeps(g, p) => Keeps(g, Spectre!If(test, p))
        /\ KeepsLine(g, p) => KeepsLine(g, Spectre!If(test, p))
    BY GoodChoice, KindsOfNothing, LabelFacts DEF Keeps, KeepsLine, Spectre!If, Spectre!IfElse
  <1> QED
    BY <1>1, <1>2, <1>3

LEMMA SpectreLoops ==
  ASSUME NEW g, NEW test, NEW test2, NEW p
  PROVE  /\ Keeps(g, p) => /\ Keeps(g, Spectre!While(test, p))
                           /\ Keeps(g, Spectre!Until(test, p))
         /\ KeepsLine(g, p) => /\ KeepsLine(g, Spectre!While(test, p))
                               /\ KeepsLine(g, Spectre!Until(test, p))
                               /\ KeepsLine(g, Spectre!UntilEither(test, test2, p))
  BY GoodLoop, LabelFacts DEF Keeps, KeepsLine, Spectre!While, Spectre!Until, Spectre!UntilEither

LEMMA SpectreCalls ==
  ASSUME NEW g, NEW name \in RuleNames(g)
  PROVE  /\ Keeps(g, Spectre!Call(name))
         /\ name \in StatementRules(g) => IsStatement(g, Spectre!Call(name))
         /\ name \in TailRules(g) => EndsLine(g, Spectre!Call(name))
  <1>1. \A n \in Nat : Good(g, Spectre!Call(name), Anywhere(n), Result(g, name, n))
    BY GoodCall DEF Spectre!Call
  <1>2. /\ name \in StatementRules(g) => IsStatement(g, Spectre!Call(name))
        /\ name \in TailRules(g) => \/ IsStatement(g, Spectre!Call(name))
                                    \/ EndsLine(g, Spectre!Call(name))
        /\ \/ IsStatement(g, Spectre!Call(name))
           \/ EndsLine(g, Spectre!Call(name))
           \/ Keeps(g, Spectre!Call(name))
    BY <1>1 DEF Result, IsStatement, EndsLine, Keeps
  <1> QED
    BY <1>2, KindsWeaken

LEMMA SpectreBegins ==
  ASSUME NEW g, NEW name \in StatementRules(g)
  PROVE  KeepsLine(g, Spectre!Statement(name))
  <1>1. ASSUME NEW n \in Nat
        PROVE  Good(g, Spectre!Statement(name), AtLine(n), AtLine(n))
    <2>1. n + 1 \in Nat
      OBVIOUS
    <2>2. Good(g, Spectre!Statement(name), AtLine(n), AtLine(n + 1))
      BY GoodStatement, LabelFacts DEF Spectre!Statement
    <2> QED
      BY <2>1, <2>2, GoodWeaker, LabelFacts
  <1> QED
    BY <1>1 DEF KeepsLine

LEMMA SpectreContainers ==
  ASSUME NEW g, NEW as, NEW p, NEW judged
  PROVE  /\ Keeps(g, p) => Keeps(g, Spectre!Contained(as, p, judged))
         /\ EndsLine(g, p) => EndsLine(g, Spectre!Contained(as, p, judged))
         /\ KeepsLine(g, p) => KeepsLine(g, Spectre!Contained(as, p, judged))
  BY GoodContained, LabelFacts DEF Keeps, EndsLine, KeepsLine, Spectre!Contained

-----------------------------------------------------------------------------
(* A dispatch holds what its name promises: whatever the tokens, there is  *)
(* an arm, and no arm ends before its result.  A test for tokens that are  *)
(* not the ENDMARKER tells its arm that the end is not reached.            *)
Fenced(test) ==
  \E j \in DOMAIN test : test[j].ahead = 0 /\ test[j].is = TRUE /\ "ENDMARKER" \notin test[j].of

ArmHolds(g, arm, name) ==
  \A n \in Nat :
    \/ Good(g, arm.do, Anywhere(n), Result(g, name, n))
    \/ Fenced(arm.test) /\ Good(g, arm.do, Inside(n), Result(g, name, n))

RuleHolds(g, arms, name) ==
  /\ DOMAIN arms \subseteq Nat
  /\ \E i \in DOMAIN arms : arms[i].test = << >>
  /\ \A i \in DOMAIN arms : ArmHolds(g, arms[i], name)

(* The kind of an arm is all its rule asks of it.                          *)
LEMMA KindsHold ==
  ASSUME NEW g, NEW arm, NEW name
  PROVE  /\ name \in StatementRules(g) /\ IsStatement(g, arm.do) => ArmHolds(g, arm, name)
         /\ name \in TailRules(g) \ StatementRules(g) /\ EndsLine(g, arm.do) =>
              ArmHolds(g, arm, name)
         /\ name \in {"expression", "primary"} /\ Keeps(g, arm.do) => ArmHolds(g, arm, name)
  <1>1. name \in {"expression", "primary"} => name \notin StatementRules(g) \cup TailRules(g)
    BY DEF StatementRules, TailRules
  <1> QED
    BY <1>1 DEF ArmHolds, Result, IsStatement, EndsLine, Keeps

-----------------------------------------------------------------------------
(* The productions of SPICE, section by section.                           *)

(* The rules of SPICE.                                                     *)
LEMMA SpiceNames ==
  /\ {"expression", "primary", "dot_body", "instance"} \subseteq RuleNames("spice")
  /\ StatementRules("spice") = {"toplevel", "dot_body", "instance"}
  /\ TailRules("spice") = {}
  BY DEF RuleNames, StatementRules, TailRules

(* Expressions and nodes.                                                  *)
LEMMA SpiceExpressions ==
  /\ Keeps("spice", Spice!parse_expression)
  /\ Keeps("spice", Spice!Call("primary"))
  /\ Moves("spice", Spice!parse_node)
  /\ Moves("spice", Spice!parse_hierarchial_node)
  /\ \A k, open, close : Keeps("spice", Spice!Enclosed(k, open, close))
  /\ Keeps("spice", Spice!parse_function_call)
  /\ Keeps("spice", Spice!parse_array)
  /\ Keeps("spice", Spice!parse_subnodes)
  /\ Keeps("spice", Spice!parse_primary_or_unary)
  /\ Keeps("spice", Spice!parse_binop)
  <1> USE KindsOfNothing, KindsOfConcat, KindsWeaken, SpiceTakes, SpiceFailures, SpiceNodes,
          SpiceChoices, SpiceLoops
  <1>1. Keeps("spice", Spice!parse_expression) /\ Keeps("spice", Spice!Call("primary"))
    BY SpiceNames, SpiceCalls DEF Spice!parse_expression
  <1>2. Moves("spice", Spice!parse_node)
    BY DEF Spice!parse_node
  <1>3. Keeps("spice", Spice!parse_subnodes)
    BY <1>2 DEF Spice!parse_subnodes
  <1>4. Moves("spice", Spice!parse_hierarchial_node)
    BY <1>2, <1>3 DEF Spice!parse_hierarchial_node
  <1>5. \A k, open, close : Keeps("spice", Spice!Enclosed(k, open, close))
    BY <1>1 DEF Spice!Enclosed
  <1>6. Keeps("spice", Spice!parse_function_call)
    BY <1>1 DEF Spice!parse_function_call
  <1>7. Keeps("spice", Spice!parse_array)
    BY <1>1 DEF Spice!parse_array
  <1>8. Keeps("spice", Spice!parse_primary_or_unary)
    BY <1>1 DEF Spice!parse_primary_or_unary, Spice!take_operator
  <1>9. Keeps("spice", Spice!parse_binop)
    BY <1>8 DEF Spice!parse_binop, Spice!take_operator
  <1> QED
    BY <1>1, <1>2, <1>3, <1>4, <1>5, <1>6, <1>7, <1>8, <1>9

(* Parameters, and the end of a line.                                      *)
LEMMA SpiceParameters ==
  /\ Keeps("spice", Spice!Parameter)
  /\ Keeps("spice", Spice!parse_parameter_list)
  /\ EndsLine("spice", Spice!Params)
  /\ EndsLine("spice", Spice!accept_newline)
  <1> USE KindsOfNothing, KindsOfConcat, KindsWeaken, SpiceTakes, SpiceNodes, SpiceChoices,
          SpiceLoops, SpiceExpressions
  <1>1. Keeps("spice", Spice!parse_parameter_mod)
    BY DEF Spice!parse_parameter_mod, Spice!take_identifier
  <1>2. Keeps("spice", Spice!Parameter)
    BY <1>1 DEF Spice!Parameter, Spice!take_identifier
  <1>3. Keeps("spice", Spice!parse_parameter_list)
    BY <1>2 DEF Spice!parse_parameter_list
  <1>4. EndsLine("spice", Spice!accept_newline)
    BY DEF Spice!accept_newline, Spice!Eol
  <1>5. EndsLine("spice", Spice!Params)
    BY <1>3, <1>4 DEF Spice!Params
  <1> QED
    BY <1>2, <1>3, <1>4, <1>5

(* The dot commands that are one line.                                     *)
LEMMA SpiceCommands ==
  /\ IsStatement("spice", Spice!parse_simulator)
  /\ IsStatement("spice", Spice!parse_title_implicit)
  /\ \A k : IsStatement("spice", Spice!parse_named_param_list(k))
  /\ IsStatement("spice", Spice!parse_nodeset)
  /\ \A k : IsStatement("spice", Spice!parse_named_expr_list(k))
  /\ IsStatement("spice", Spice!parse_title_dot)
  /\ IsStatement("spice", Spice!parse_end)
  /\ IsStatement("spice", Spice!parse_param)
  /\ IsStatement("spice", Spice!parse_model)
  /\ IsStatement("spice", Spice!parse_dc)
  /\ IsStatement("spice", Spice!parse_ac)
  /\ IsStatement("spice", Spice!parse_tran)
  /\ IsStatement("spice", Spice!parse_global)
  /\ IsStatement("spice", Spice!parse_temp)
  /\ IsStatement("spice", Spice!parse_width)
  /\ IsStatement("spice", Spice!parse_options)
  /\ IsStatement("spice", Spice!parse_convert_port)
  /\ IsStatement("spice", Spice!parse_include)
  /\ IsStatement("spice", Spice!parse_hdl)
  /\ IsStatement("spice", Spice!parse_print)
  /\ IsStatement("spice", Spice!parse_endl)
  <1> USE KindsOfNothing, KindsOfConcat, KindsWeaken, SpiceTakes, SpiceNodes, SpiceChoices,
          SpiceLoops, SpiceExpressions, SpiceParameters
  <1>1. IsStatement("spice", Spice!parse_simulator)
    BY DEF Spice!parse_simulator
  <1>2. IsStatement("spice", Spice!parse_title_implicit)
    BY DEF Spice!parse_title_implicit
  <1>3. \A k : IsStatement("spice", Spice!parse_named_param_list(k))
    BY DEF Spice!parse_named_param_list, Spice!take_identifier
  <1>4. IsStatement("spice", Spice!parse_nodeset)
    BY DEF Spice!parse_nodeset, Spice!take_identifier
  <1>5. \A k : IsStatement("spice", Spice!parse_named_expr_list(k))
    BY DEF Spice!parse_named_expr_list, Spice!take_identifier
  <1>6. IsStatement("spice", Spice!parse_title_dot)
    BY DEF Spice!parse_title_dot
  <1>7. IsStatement("spice", Spice!parse_end)
    BY DEF Spice!parse_end
  <1>8. IsStatement("spice", Spice!parse_param)
    BY DEF Spice!parse_param, Spice!take_kw_any
  <1>9. IsStatement("spice", Spice!parse_model)
    BY DEF Spice!parse_model, Spice!take_identifier_or_number
  <1>10. IsStatement("spice", Spice!parse_dc)
    BY DEF Spice!parse_dc, Spice!take_identifier
  <1>11. IsStatement("spice", Spice!parse_ac)
    BY DEF Spice!parse_ac, Spice!take_identifier
  <1>12. IsStatement("spice", Spice!parse_tran)
    BY DEF Spice!parse_tran, Spice!take_literal, Spice!take_identifier
  <1>13. IsStatement("spice", Spice!parse_global)
    BY DEF Spice!parse_global
  <1>14. IsStatement("spice", Spice!parse_temp)
    BY DEF Spice!parse_temp, Spice!take_kw_any
  <1>15. IsStatement("spice", Spice!parse_width)
    BY DEF Spice!parse_width
  <1>16. IsStatement("spice", Spice!parse_options)
    BY DEF Spice!parse_options
  <1>17. IsStatement("spice", Spice!parse_convert_port)
    BY DEF Spice!parse_convert_port, Spice!take_identifier
  <1>18. IsStatement("spice", Spice!parse_include)
    BY DEF Spice!parse_include, Spice!take_path
  <1>19. IsStatement("spice", Spice!parse_hdl)
    BY DEF Spice!parse_hdl, Spice!take_path
  <1>20. IsStatement("spice", Spice!parse_print)
    BY DEF Spice!parse_print
  <1>21. IsStatement("spice", Spice!parse_endl)
    BY DEF Spice!parse_endl, Spice!take_identifier
  <1> QED
    BY <1>1, <1>2, <1>3, <1>4, <1>5, <1>6, <1>7, <1>8, <1>9, <1>10, <1>11, <1>12,
       <1>13, <1>14, <1>15, <1>16, <1>17, <1>18, <1>19, <1>20, <1>21

(* The columns and the rows of .data, whose count is the number of         *)
(* columns.                                                                *)
LEMMA SpiceRows ==
  Keeps("spice", Spice!Columns) /\ Keeps("spice", Spice!Rows)
  <1>1. /\ Keeps("spice", <<[op |-> "reset"]>>)
        /\ Keeps("spice", <<[op |-> "tally"]>>)
    BY GoodCounting DEF Keeps
  <1>2. Keeps("spice", Spice!Columns)
    BY <1>1, KindsOfConcat, SpiceTakes, SpiceLoops DEF Spice!Columns, Spice!take_identifier
  <1>3. ASSUME NEW n \in Nat
        PROVE  Good("spice", <<[op |-> "repeat", body |-> Spice!take_literal]>>,
                    Anywhere(n), Anywhere(n))
    <2>1. Good("spice", Spice!take_literal, Anywhere(n), Anywhere(n))
      BY SpiceTakes DEF Keeps, Spice!take_literal
    <2> QED
      BY <2>1, GoodRepeated DEF Spice!take_literal, Spice!Take
  <1>4. Keeps("spice", <<[op |-> "repeat", body |-> Spice!take_literal]>>)
    BY <1>3 DEF Keeps
  <1>5. Keeps("spice", Spice!Rows)
    BY <1>4, SpiceLoops DEF Spice!Rows
  <1> QED
    BY <1>2, <1>5

(* .data and .ic                                                           *)
LEMMA SpiceTables ==
  /\ IsStatement("spice", Spice!parse_data)
  /\ IsStatement("spice", Spice!parse_ic)
  <1> USE KindsOfNothing, KindsOfConcat, KindsWeaken, SpiceTakes, SpiceFailures, SpiceNodes,
          SpiceChoices, SpiceLoops, SpiceExpressions, SpiceParameters
  <1>1. IsStatement("spice", Spice!parse_data)
    BY SpiceRows DEF Spice!parse_data, Spice!take_identifier
  <1>2. Keeps("spice", Spice!parse_ic_statement)
    BY SpiceContainers DEF Spice!parse_ic_statement, Spice!take_identifier, Spice!take_literal,
           Spice!Ignore
  <1>3. IsStatement("spice", Spice!parse_ic)
    BY <1>2 DEF Spice!parse_ic, Spice!take_identifier
  <1> QED
    BY <1>1, <1>3

(* .measure                                                                *)
LEMMA SpiceMeasures ==
  /\ IsStatement("spice", Spice!parse_measure)
  <1> USE KindsOfNothing, KindsOfConcat, KindsWeaken, SpiceTakes, SpiceFailures, SpiceNodes,
          SpiceChoices, SpiceLoops, SpiceExpressions, SpiceParameters
  <1>1. \A k, kws : Keeps("spice", Spice!Valued(k, kws))
    BY DEF Spice!Valued
  <1>2. Keeps("spice", Spice!parse_td)
    BY <1>1 DEF Spice!parse_td
  <1>3. Keeps("spice", Spice!parse_risefallcross)
    BY DEF Spice!parse_risefallcross, Spice!take_kw_any, Spice!take_literal
  <1>4. Keeps("spice", Spice!parse_trig_targ)
    BY <1>1, <1>2, <1>3 DEF Spice!parse_trig_targ
  <1>5. EndsLine("spice", Spice!parse_measure_point)
    BY <1>1, <1>2, <1>3 DEF Spice!parse_measure_point
  <1>6. EndsLine("spice", Spice!parse_measure_range)
    BY <1>4 DEF Spice!parse_measure_range, Spice!take_kw_any
  <1>7. IsStatement("spice", Spice!parse_measure)
    BY <1>5, <1>6 DEF Spice!parse_measure, Spice!parse_measure_name
  <1> QED
    BY <1>7

(* The instances.                                                          *)
LEMMA SpiceInstances ==
  /\ \A k : IsStatement("spice", Spice!parse_rcl(k))
  /\ \A k : IsStatement("spice", Spice!parse_v_or_i(k))
  /\ \A k : IsStatement("spice", Spice!parse_subckt_call(k))
  /\ \A v : IsStatement("spice", Spice!parse_controlled(v))
  /\ IsStatement("spice", Spice!parse_switch)
  /\ IsStatement("spice", Spice!parse_diode)
  /\ IsStatement("spice", Spice!parse_mosfet)
  /\ IsStatement("spice", Spice!parse_behavioral)
  /\ IsStatement("spice", Spice!parse_bipolar_transistor)
  /\ IsStatement("spice", Spice!parse_mutual_inductor)
  /\ \A k : IsStatement("spice", Spice!parse_fet(k))
  /\ \A k : IsStatement("spice", Spice!parse_generic_device(k))
  <1> USE KindsOfNothing, KindsOfConcat, KindsWeaken, SpiceTakes, SpiceFailures, SpiceNodes,
          SpiceChoices, SpiceLoops, SpiceExpressions, SpiceParameters
  <1>1. Moves("spice", Spice!Hier)
    BY DEF Spice!Hier
  <1>2. Moves("spice", Spice!Hier3)
    BY <1>1 DEF Spice!Hier3
  <1>3. \A k : IsStatement("spice", Spice!parse_rcl(k))
    BY <1>2 DEF Spice!parse_rcl
  <1>4. \A k : IsStatement("spice", Spice!parse_v_or_i(k))
    BY <1>2 DEF Spice!parse_v_or_i, Spice!take_kw_any
  <1>5. \A k : IsStatement("spice", Spice!parse_subckt_call(k))
    BY <1>1 DEF Spice!parse_subckt_call, Spice!take_identifier
  <1>6. \A v : IsStatement("spice", Spice!parse_controlled(v))
    BY ZenonT(40), <1>1, <1>2 DEF Spice!parse_controlled, Spice!take_literal
  <1>7. IsStatement("spice", Spice!parse_switch)
    BY <1>2 DEF Spice!parse_switch, Spice!take_kw_any
  <1>8. IsStatement("spice", Spice!parse_diode)
    BY <1>1, <1>2 DEF Spice!parse_diode
  <1>9. IsStatement("spice", Spice!parse_mosfet)
    BY <1>1, <1>2 DEF Spice!parse_mosfet
  <1>10. IsStatement("spice", Spice!parse_behavioral)
    BY <1>1, <1>2 DEF Spice!parse_behavioral
  <1>11. IsStatement("spice", Spice!parse_bipolar_transistor)
    BY <1>1, <1>2 DEF Spice!parse_bipolar_transistor
  <1>12. IsStatement("spice", Spice!parse_mutual_inductor)
    BY <1>1, <1>2 DEF Spice!parse_mutual_inductor
  <1>13. \A k : IsStatement("spice", Spice!parse_fet(k))
    BY <1>1, <1>2 DEF Spice!parse_fet
  <1>14. \A k : IsStatement("spice", Spice!parse_generic_device(k))
    BY <1>1 DEF Spice!parse_generic_device
  <1> QED
    BY <1>3, <1>4, <1>5, <1>6, <1>7, <1>8, <1>9, <1>10, <1>11, <1>12, <1>13, <1>14

(* Behind the dot a line begins with a statement may begin, too.           *)
LEMMA SpiceBodies ==
  /\ KeepsLine("spice", Spice!BodyStatement)
  /\ KeepsLine("spice", Spice!Contain(Spice!Statement("toplevel")))
  <1>1. KeepsLine("spice", Spice!Contain(Spice!Statement("toplevel")))
    BY SpiceNames, SpiceBegins, SpiceContainers DEF Spice!Contain
  <1>2. ASSUME NEW n \in Nat
        PROVE  Good("spice", Spice!Take({"DOT"}) \o Spice!Contain(Spice!Statement("dot_body")),
                    AtLine(n), AtLine(n))
    <2> DEFINE d == [place |-> 1, least |-> n, inside |-> 0]
    <2>1. d \in Label /\ d.least = n /\ d.place = 1 /\ d.inside = 0
      BY DEF Label
    <2>2. Taken({"DOT"}, AtLine(n), d)
      BY DEF Taken, AtLine
    <2>3. /\ AtLine(n) \in Label /\ AtLine(n + 1) \in Label
          /\ AtLine(n).least = n /\ AtLine(n).inside = 0
      <3>1. n + 1 \in Nat
        OBVIOUS
      <3> QED
        BY <3>1, LabelFacts
    <2> HIDE DEF d
    <2>4. Good("spice", Spice!Take({"DOT"}), AtLine(n), d)
      BY <2>1, <2>2, <2>3, GoodTaken DEF Spice!Take
    <2>5. Good("spice", Spice!Statement("dot_body"), d, AtLine(n + 1))
      BY <2>1, SpiceNames, GoodStatement DEF Spice!Statement
    <2>6. Above(d, d) /\ Above(AtLine(n + 1), AtLine(n))
      BY <2>1, LabelFacts
    <2>7. Good("spice", Spice!Statement("dot_body"), d, AtLine(n))
      BY <2>1, <2>3, <2>5, <2>6, GoodWeaker
    <2>8. Good("spice", Spice!Contain(Spice!Statement("dot_body")), d, AtLine(n))
      BY <2>1, <2>3, <2>7, GoodContained DEF Spice!Contain, Spice!Contained
    <2> QED
      BY <2>1, <2>3, <2>4, <2>8, GoodConcat
  <1>3. KeepsLine("spice", Spice!Take({"DOT"}) \o Spice!Contain(Spice!Statement("dot_body")))
    BY <1>2 DEF KeepsLine
  <1> QED
    BY <1>1, <1>3, SpiceChoices DEF Spice!BodyStatement

(* The blocks: .subckt, .lib and .if                                       *)
LEMMA SpiceBlocks ==
  /\ IsStatement("spice", Spice!parse_subckt)
  /\ IsStatement("spice", Spice!parse_lib)
  /\ IsStatement("spice", Spice!parse_if)
  <1> USE KindsOfNothing, KindsOfConcat, KindsWeaken, SpiceTakes, SpiceFailures, SpiceNodes,
          SpiceChoices, SpiceLoops, SpiceExpressions, SpiceParameters
  <1>1. IsStatement("spice", Spice!parse_subckt)
    BY SpiceBodies, SpiceCommands DEF Spice!parse_subckt, Spice!take_identifier_or_number,
           Spice!Hier
  <1>2. IsStatement("spice", Spice!parse_lib)
    BY SpiceBodies, SpiceCommands DEF Spice!parse_lib, Spice!take_identifier, Spice!take_path
  <1>3. Keeps("spice", Spice!parse_condition)
    BY DEF Spice!parse_condition
  <1>4. \A kws : "ENDMARKER" \notin kws => IsStatement("spice", Spice!parse_ifelse_block(kws))
    BY <1>3, SpiceBodies DEF Spice!parse_ifelse_block
  <1>5. IsStatement("spice", Spice!parse_if)
    BY <1>4 DEF Spice!parse_if
  <1> QED
    BY <1>1, <1>2, <1>5

(* Every rule of parser.rs has a production for tokens of any kind, and if *)
(* that succeeds: a statement has taken a token and ends behind a newline or*)
(* a brace or at the end, and an expression or a primary is not behind the *)
(* position it began at.  The callers and their loops rely on it.          *)
THEOREM SpiceRulesHold ==
  \A name \in RuleNames("spice") : RuleHolds("spice", Spice!Rules[name], name)
  <1>1. RuleHolds("spice", Spice!parse_dot_body, "dot_body")
    <2>1. DOMAIN Spice!parse_dot_body = 1..27 /\ Spice!parse_dot_body[27].test = << >>
      BY DEF Spice!parse_dot_body, Spice!Arm, Spice!Always
    <2>2. /\ IsStatement("spice", Spice!parse_dot_body[1].do)
          /\ IsStatement("spice", Spice!parse_dot_body[2].do)
          /\ IsStatement("spice", Spice!parse_dot_body[3].do)
          /\ IsStatement("spice", Spice!parse_dot_body[4].do)
          /\ IsStatement("spice", Spice!parse_dot_body[5].do)
          /\ IsStatement("spice", Spice!parse_dot_body[6].do)
          /\ IsStatement("spice", Spice!parse_dot_body[7].do)
          /\ IsStatement("spice", Spice!parse_dot_body[8].do)
          /\ IsStatement("spice", Spice!parse_dot_body[9].do)
          /\ IsStatement("spice", Spice!parse_dot_body[10].do)
          /\ IsStatement("spice", Spice!parse_dot_body[11].do)
          /\ IsStatement("spice", Spice!parse_dot_body[12].do)
          /\ IsStatement("spice", Spice!parse_dot_body[13].do)
          /\ IsStatement("spice", Spice!parse_dot_body[14].do)
          /\ IsStatement("spice", Spice!parse_dot_body[15].do)
          /\ IsStatement("spice", Spice!parse_dot_body[16].do)
          /\ IsStatement("spice", Spice!parse_dot_body[17].do)
          /\ IsStatement("spice", Spice!parse_dot_body[18].do)
          /\ IsStatement("spice", Spice!parse_dot_body[19].do)
          /\ IsStatement("spice", Spice!parse_dot_body[20].do)
          /\ IsStatement("spice", Spice!parse_dot_body[21].do)
          /\ IsStatement("spice", Spice!parse_dot_body[22].do)
          /\ IsStatement("spice", Spice!parse_dot_body[23].do)
          /\ IsStatement("spice", Spice!parse_dot_body[24].do)
          /\ IsStatement("spice", Spice!parse_dot_body[25].do)
          /\ IsStatement("spice", Spice!parse_dot_body[26].do)
          /\ IsStatement("spice", Spice!parse_dot_body[27].do)
      BY SpiceCommands, SpiceTables, SpiceMeasures, SpiceBlocks, SpiceFailures DEF
         Spice!parse_dot_body, Spice!Arm
    <2>3. \A i \in 1..27 : IsStatement("spice", Spice!parse_dot_body[i].do)
      BY <2>2
    <2> QED
      BY SMTT(30), <2>1, <2>3, KindsHold, SpiceNames DEF RuleHolds
  <1>2. RuleHolds("spice", Spice!parse_instance, "instance")
    <2>1. DOMAIN Spice!parse_instance = 1..20 /\ Spice!parse_instance[20].test = << >>
      BY DEF Spice!parse_instance, Spice!Arm, Spice!Always
    <2>2. /\ IsStatement("spice", Spice!parse_instance[1].do)
          /\ IsStatement("spice", Spice!parse_instance[2].do)
          /\ IsStatement("spice", Spice!parse_instance[3].do)
          /\ IsStatement("spice", Spice!parse_instance[4].do)
          /\ IsStatement("spice", Spice!parse_instance[5].do)
          /\ IsStatement("spice", Spice!parse_instance[6].do)
          /\ IsStatement("spice", Spice!parse_instance[7].do)
          /\ IsStatement("spice", Spice!parse_instance[8].do)
          /\ IsStatement("spice", Spice!parse_instance[9].do)
          /\ IsStatement("spice", Spice!parse_instance[10].do)
          /\ IsStatement("spice", Spice!parse_instance[11].do)
          /\ IsStatement("spice", Spice!parse_instance[12].do)
          /\ IsStatement("spice", Spice!parse_instance[13].do)
          /\ IsStatement("spice", Spice!parse_instance[14].do)
          /\ IsStatement("spice", Spice!parse_instance[15].do)
          /\ IsStatement("spice", Spice!parse_instance[16].do)
          /\ IsStatement("spice", Spice!parse_instance[17].do)
          /\ IsStatement("spice", Spice!parse_instance[18].do)
          /\ IsStatement("spice", Spice!parse_instance[19].do)
          /\ IsStatement("spice", Spice!parse_instance[20].do)
      BY SpiceInstances, SpiceFailures DEF Spice!parse_instance, Spice!Arm
    <2>3. \A i \in 1..20 : IsStatement("spice", Spice!parse_instance[i].do)
      BY <2>2
    <2> QED
      BY <2>1, <2>3, KindsHold, SpiceNames DEF RuleHolds
  <1>3. IsStatement("spice", Spice!parse_dot) /\ IsStatement("spice", Spice!Call("instance"))
    BY SpiceNames, SpiceTakes, SpiceCalls, KindsOfConcat, KindsWeaken DEF Spice!parse_dot
  <1>4. RuleHolds("spice", Spice!parse_spice_toplevel, "toplevel")
    <2>1. DOMAIN Spice!parse_spice_toplevel = 1..6 /\ Spice!parse_spice_toplevel[6].test = << >>
      BY DEF Spice!parse_spice_toplevel, Spice!Arm, Spice!Always
    <2>2. /\ IsStatement("spice", Spice!parse_spice_toplevel[1].do)
          /\ IsStatement("spice", Spice!parse_spice_toplevel[2].do)
          /\ IsStatement("spice", Spice!parse_spice_toplevel[3].do)
          /\ IsStatement("spice", Spice!parse_spice_toplevel[4].do)
          /\ IsStatement("spice", Spice!parse_spice_toplevel[5].do)
          /\ IsStatement("spice", Spice!parse_spice_toplevel[6].do)
      BY <1>3, SpiceCommands, SpiceFailures DEF Spice!parse_spice_toplevel, Spice!Arm
    <2>3. \A i \in 1..6 : IsStatement("spice", Spice!parse_spice_toplevel[i].do)
      BY <2>2
    <2> QED
      BY <2>1, <2>3, KindsHold, SpiceNames DEF RuleHolds
  <1>5. Keeps("spice", Spice!take_literal)
    BY SpiceTakes DEF Spice!take_literal
  <1>6. Keeps("spice",
          Spice!take_identifier
          \o Spice!IfElse(Spice!nt_in({"LPAREN"}), Spice!parse_function_call,
               Spice!If(Spice!nt_in({"DOT"}), Spice!Wrap("HierarchialNode", Spice!parse_subnodes))))
    BY KindsOfConcat, SpiceTakes, SpiceChoices, SpiceNodes, SpiceExpressions
       DEF Spice!take_identifier
  <1>7. RuleHolds("spice", Spice!parse_primary, "primary")
    <2>1. DOMAIN Spice!parse_primary = 1..7 /\ Spice!parse_primary[7].test = << >>
      BY DEF Spice!parse_primary, Spice!Arm, Spice!Always
    <2>2. /\ Keeps("spice", Spice!parse_primary[1].do)
          /\ Keeps("spice", Spice!parse_primary[2].do)
          /\ Keeps("spice", Spice!parse_primary[3].do)
          /\ Keeps("spice", Spice!parse_primary[4].do)
          /\ Keeps("spice", Spice!parse_primary[5].do)
          /\ Keeps("spice", Spice!parse_primary[6].do)
          /\ Keeps("spice", Spice!parse_primary[7].do)
      BY <1>5, <1>6, SpiceExpressions, SpiceFailures DEF Spice!parse_primary, Spice!Arm
    <2>3. \A i \in 1..7 : Keeps("spice", Spice!parse_primary[i].do)
      BY <2>2
    <2> QED
      BY <2>1, <2>3, KindsHold, SpiceNames DEF RuleHolds
  <1>8. Keeps("spice",
          Spice!parse_primary_or_unary
          \o Spice!WrapOnErr(Spice!parse_binop)
          \o Spice!If(Spice!nt_in({"CONDITIONAL"}),
               Spice!Wrap("TernaryExpr",
                 Spice!Take({"CONDITIONAL"}) \o Spice!parse_expression
                 \o Spice!Take({"COLON"}) \o Spice!parse_expression)))
    BY KindsOfConcat, SpiceTakes, SpiceChoices, SpiceNodes, SpiceExpressions
  <1>9. RuleHolds("spice", Spice!Expression, "expression")
    <2>1. DOMAIN Spice!Expression = 1..2 /\ Spice!Expression[2].test = << >>
      BY DEF Spice!Expression, Spice!Arm, Spice!Always
    <2>2. /\ Keeps("spice", Spice!Expression[1].do)
          /\ Keeps("spice", Spice!Expression[2].do)
      BY <1>8, SpiceExpressions DEF Spice!Expression, Spice!Arm
    <2>3. \A i \in 1..2 : Keeps("spice", Spice!Expression[i].do)
      BY <2>2
    <2> QED
      BY <2>1, <2>3, KindsHold, SpiceNames DEF RuleHolds
  <1>10. RuleNames("spice") = {"toplevel", "dot_body", "instance", "expression", "primary"}
    BY DEF RuleNames, StatementRules, TailRules
  <1> QED
    BY <1>1, <1>2, <1>4, <1>7, <1>9, <1>10 DEF Spice!Rules

-----------------------------------------------------------------------------
(* The productions of Spectre, section by section.                         *)

(* The rules of Spectre.                                                   *)
LEMMA SpectreNames ==
  /\ {"expression", "primary", "source", "named", "keyword_named"} \subseteq RuleNames("spectre")
  /\ StatementRules("spectre") = {"source", "stat_statement"}
  /\ TailRules("spectre") = {"named", "keyword_named"}
  BY DEF RuleNames, StatementRules, TailRules

(* The lenient identifier of Spectre.                                      *)
LEMMA SpectreIdentifier ==
  /\ Keeps("spectre", Spectre!take_identifier)
  /\ \A n \in Nat : Good("spectre", Spectre!take_identifier, Inside(n), Anywhere(n + 1))
  BY GoodLenient DEF Keeps, Spectre!take_identifier

(* A body in braces ends behind its brace, where a line may go on with a   *)
(* statement.                                                              *)
LEMMA SpectreBraceBodies ==
  ASSUME NEW kind, NEW item \in StatementRules("spectre")
  PROVE  IsStatement("spectre", Spectre!parse_brace_body(kind, item))
  <1> USE KindsOfNothing, KindsOfConcat, KindsWeaken, SpectreTakes
  <1>1. KeepsLine("spectre", Spectre!accept_newline_opt)
    BY SpectreChoices DEF Spectre!accept_newline_opt
  <1>2. KeepsLine("spectre", Spectre!Note("statement", Spectre!Statement(item)))
    BY SpectreBegins, SpectreContainers DEF Spectre!Note
  <1>3. /\ IsStatement("spectre", Spectre!Take({"LBRACE"}))
        /\ EndsLine("spectre", Spectre!Take({"RBRACE"}))
    OBVIOUS
  <1> QED
    BY <1>1, <1>2, <1>3, SpectreLoops, SpectreNodes DEF Spectre!parse_brace_body

(* Expressions.                                                            *)
LEMMA SpectreExpressions ==
  /\ Keeps("spectre", Spectre!parse_expression)
  /\ Keeps("spectre", Spectre!Call("primary"))
  /\ \A p : Keeps("spectre", p) => Keeps("spectre", Spectre!parse_comma_list(p))
  /\ Keeps("spectre", Spectre!parse_function_call)
  /\ Keeps("spectre", Spectre!parse_paren)
  /\ Keeps("spectre", Spectre!parse_unary_op)
  /\ Keeps("spectre", Spectre!parse_array)
  /\ Keeps("spectre",
          Spectre!parse_primary_or_unary
          \o Spectre!WrapOnErr(Spectre!parse_binop)
          \o Spectre!If(Spectre!nt_in({"CONDITIONAL"}),
               Spectre!Wrap("TernaryExpr",
                 Spectre!Take({"CONDITIONAL"}) \o Spectre!parse_expression
                 \o Spectre!Take({"COLON"}) \o Spectre!parse_expression)))
  <1> USE KindsOfNothing, KindsOfConcat, KindsWeaken, SpectreTakes, SpectreFailures,
          SpectreNodes, SpectreChoices, SpectreLoops
  <1>1. Keeps("spectre", Spectre!parse_expression)
    BY SpectreNames, SpectreCalls DEF Spectre!parse_expression
  <1>2. Keeps("spectre", Spectre!Call("primary"))
    BY SpectreNames, SpectreCalls
  <1>3. \A p : Keeps("spectre", p) => Keeps("spectre", Spectre!parse_comma_list(p))
    BY DEF Spectre!parse_comma_list
  <1>4. Keeps("spectre", Spectre!parse_function_call)
    BY <1>1, <1>3 DEF Spectre!parse_function_call
  <1>5. Keeps("spectre", Spectre!parse_paren)
    BY <1>1 DEF Spectre!parse_paren
  <1>6. Keeps("spectre", Spectre!parse_unary_op)
    BY <1>2 DEF Spectre!parse_unary_op, Spectre!take_operator
  <1>7. Keeps("spectre", Spectre!parse_array)
    BY <1>5, <1>6, SpectreIdentifier DEF Spectre!parse_array, Spectre!take_literal
  <1>8. Keeps("spectre", Spectre!parse_primary_or_unary)
    BY <1>2, <1>6 DEF Spectre!parse_primary_or_unary
  <1>9. Keeps("spectre", Spectre!parse_binop)
    BY <1>8 DEF Spectre!parse_binop, Spectre!take_operator
  <1>10. Keeps("spectre",
          Spectre!parse_primary_or_unary
          \o Spectre!WrapOnErr(Spectre!parse_binop)
          \o Spectre!If(Spectre!nt_in({"CONDITIONAL"}),
               Spectre!Wrap("TernaryExpr",
                 Spectre!Take({"CONDITIONAL"}) \o Spectre!parse_expression
                 \o Spectre!Take({"COLON"}) \o Spectre!parse_expression)))
    BY <1>1, <1>8, <1>9
  <1> QED
    BY <1>1, <1>2, <1>3, <1>4, <1>5, <1>6, <1>7, <1>10

(* Parameters and nodes, and the end of a line.                            *)
LEMMA SpectreParameters ==
  /\ Keeps("spectre", Spectre!parse_parameter_list)
  /\ EndsLine("spectre", Spectre!accept_newline)
  /\ EndsLine("spectre", Spectre!Params)
  /\ Moves("spectre", Spectre!parse_node)
  /\ Keeps("spectre", Spectre!parse_nodes)
  <1> USE KindsOfNothing, KindsOfConcat, KindsWeaken, SpectreTakes, SpectreFailures,
          SpectreNodes, SpectreChoices, SpectreLoops,
          SpectreExpressions, SpectreIdentifier
  <1>1. Keeps("spectre", Spectre!parse_parameter)
    BY DEF Spectre!parse_parameter
  <1>2. Keeps("spectre", Spectre!parse_parameter_list)
    BY <1>1 DEF Spectre!parse_parameter_list
  <1>3. EndsLine("spectre", Spectre!accept_newline)
    BY DEF Spectre!accept_newline, Spectre!Eol
  <1>4. EndsLine("spectre", Spectre!Params)
    BY <1>2, <1>3 DEF Spectre!Params
  <1>5. Moves("spectre", Spectre!parse_node)
    BY DEF Spectre!parse_node, Spectre!take_node
  <1>6. Keeps("spectre", Spectre!parse_nodes)
    BY <1>5 DEF Spectre!parse_nodes
  <1> QED
    BY <1>2, <1>3, <1>4, <1>5, <1>6

(* The statements that begin with their keyword.                           *)
LEMMA SpectreCommands ==
  /\ IsStatement("spectre", Spectre!parse_simulator)
  /\ IsStatement("spectre", Spectre!parse_model)
  /\ IsStatement("spectre", Spectre!parse_parameters)
  /\ IsStatement("spectre", Spectre!parse_vary)
  /\ IsStatement("spectre", Spectre!parse_save)
  /\ IsStatement("spectre", Spectre!parse_ic)
  /\ IsStatement("spectre", Spectre!parse_nodeset)
  /\ IsStatement("spectre", Spectre!parse_global)
  /\ IsStatement("spectre", Spectre!parse_include)
  /\ IsStatement("spectre", Spectre!parse_ahdl_include)
  /\ IsStatement("spectre", Spectre!parse_function_decl)
  <1> USE KindsOfNothing, KindsOfConcat, KindsWeaken, SpectreTakes, SpectreFailures,
          SpectreNodes, SpectreChoices, SpectreLoops,
          SpectreExpressions, SpectreIdentifier, SpectreParameters
  <1>1. IsStatement("spectre", Spectre!parse_simulator)
    BY DEF Spectre!parse_simulator
  <1>2. IsStatement("spectre", Spectre!parse_model)
    BY DEF Spectre!parse_model
  <1>3. IsStatement("spectre", Spectre!parse_parameters)
    BY DEF Spectre!parse_parameters
  <1>4. IsStatement("spectre", Spectre!parse_vary)
    BY DEF Spectre!parse_vary
  <1>5. Keeps("spectre", Spectre!parse_save_signal)
    BY DEF Spectre!parse_save_signal, Spectre!take_kw_any, Spectre!take_literal
  <1>6. Keeps("spectre", Spectre!parse_save_list)
    BY <1>5 DEF Spectre!parse_save_list
  <1>7. IsStatement("spectre", Spectre!parse_save)
    BY <1>6 DEF Spectre!parse_save, Spectre!take_kw_any
  <1>8. Keeps("spectre", Spectre!parse_ic_parameter)
    BY DEF Spectre!parse_ic_parameter
  <1>9. Keeps("spectre", Spectre!parse_ic_parameter_list)
    BY <1>8 DEF Spectre!parse_ic_parameter_list
  <1>10. IsStatement("spectre", Spectre!parse_ic)
    BY <1>9 DEF Spectre!parse_ic
  <1>11. IsStatement("spectre", Spectre!parse_nodeset)
    BY DEF Spectre!parse_nodeset
  <1>12. IsStatement("spectre", Spectre!parse_global)
    BY DEF Spectre!parse_global
  <1>13. Keeps("spectre", Spectre!parse_include_section)
    BY DEF Spectre!parse_include_section
  <1>14. IsStatement("spectre", Spectre!parse_include)
    BY <1>13 DEF Spectre!parse_include, Spectre!take_string
  <1>15. IsStatement("spectre", Spectre!parse_ahdl_include)
    BY DEF Spectre!parse_ahdl_include, Spectre!take_string
  <1>16. Keeps("spectre", Spectre!parse_function_decl_arg)
    BY DEF Spectre!parse_function_decl_arg
  <1>17. IsStatement("spectre", Spectre!parse_function_decl)
    BY <1>16 DEF Spectre!parse_function_decl
  <1> QED
    BY <1>1, <1>2, <1>3, <1>4, <1>7, <1>10, <1>11, <1>12, <1>14, <1>15, <1>17

(* The nodes that count_bare_units has counted.                            *)
LEMMA SpectreUnits ==
  Keeps("spectre", <<[op |-> "units", body |-> Spectre!parse_node]>>)
  <1>1. ASSUME NEW n \in Nat
        PROVE  Good("spectre", <<[op |-> "units", body |-> Spectre!parse_node]>>,
                    Anywhere(n), Anywhere(n))
    <2>1. Good("spectre", Spectre!parse_node, Anywhere(n), Anywhere(n))
      BY SpectreParameters, KindsWeaken DEF Keeps
    <2> QED
      BY <2>1, GoodRepeated DEF Spectre!parse_node, Spectre!Wrap
  <1> QED
    BY <1>1 DEF Keeps

(* What follows the name of an analysis, a control or an instance.         *)
LEMMA SpectreTails ==
  /\ IsStatement("spectre", Spectre!parse_analysis_tail)
  /\ \A k : IsStatement("spectre", Spectre!parse_named_control(k))
  /\ IsStatement("spectre", Spectre!parse_instance)
  /\ EndsLine("spectre", Spectre!parse_bare_instance)
  /\ IsStatement("spectre", Spectre!parse_altergroup)
  <1> USE KindsOfNothing, KindsOfConcat, KindsWeaken, SpectreTakes, SpectreFailures,
          SpectreNodes, SpectreChoices, SpectreLoops,
          SpectreExpressions, SpectreIdentifier, SpectreParameters
  <1>1. IsStatement("spectre", Spectre!parse_analysis_tail)
    BY DEF Spectre!parse_analysis_tail, Spectre!take_kw_any
  <1>2. \A k : IsStatement("spectre", Spectre!parse_named_control(k))
    BY DEF Spectre!parse_named_control, Spectre!Controls
  <1>3. IsStatement("spectre", Spectre!parse_instance)
    BY <1>1, SpectreContainers DEF Spectre!parse_instance, Spectre!Note
  <1>4. EndsLine("spectre", Spectre!parse_bare_instance)
    BY SpectreUnits DEF Spectre!parse_bare_instance
  <1>5. IsStatement("spectre", Spectre!parse_altergroup)
    BY SpectreBraceBodies, SpectreNames DEF Spectre!parse_altergroup
  <1> QED
    BY <1>1, <1>2, <1>3, <1>4, <1>5

(* The blocks: subcircuits, libraries, sections, statistics and            *)
(* conditions.                                                             *)
LEMMA SpectreBlocks ==
  /\ \A inline : IsStatement("spectre", Spectre!parse_subckt(inline))
  /\ IsStatement("spectre", Spectre!parse_library)
  /\ IsStatement("spectre", Spectre!parse_section)
  /\ IsStatement("spectre", Spectre!parse_statistics)
  /\ IsStatement("spectre", Spectre!parse_stat_group)
  /\ IsStatement("spectre", Spectre!parse_conditional_block)
  <1> USE KindsOfNothing, KindsOfConcat, KindsWeaken, SpectreTakes, SpectreFailures,
          SpectreNodes, SpectreChoices, SpectreLoops,
          SpectreExpressions, SpectreIdentifier, SpectreParameters
  <1>1. KeepsLine("spectre", Spectre!Statement("source"))
    BY SpectreNames, SpectreBegins
  <1>2. \A inline : IsStatement("spectre", Spectre!parse_subckt(inline))
    BY ZenonT(40), <1>1 DEF Spectre!parse_subckt, Spectre!accept_identifier
  <1>3. \A k, open, close :
          open # "ENDMARKER" => IsStatement("spectre", Spectre!Block(k, open, close))
    BY <1>1 DEF Spectre!Block
  <1>4. IsStatement("spectre", Spectre!parse_library)
    BY <1>3 DEF Spectre!parse_library
  <1>5. IsStatement("spectre", Spectre!parse_section)
    BY <1>3 DEF Spectre!parse_section
  <1>6. IsStatement("spectre", Spectre!parse_statistics)
    BY SpectreBraceBodies, SpectreNames DEF Spectre!parse_statistics
  <1>7. IsStatement("spectre", Spectre!parse_stat_group)
    BY SpectreBraceBodies, SpectreNames DEF Spectre!parse_stat_group
  <1>8. \A form : EndsLine("spectre", Spectre!parse_conditional_body(form))
    BY SpectreBraceBodies, SpectreNames DEF Spectre!parse_conditional_body
  <1>9. Moves("spectre", Spectre!Condition)
    BY DEF Spectre!Condition
  <1>10. IsStatement("spectre", Spectre!parse_if)
    BY <1>8, <1>9 DEF Spectre!parse_if
  <1>11. EndsLine("spectre", Spectre!parse_elseif)
    BY <1>8, <1>9 DEF Spectre!parse_elseif
  <1>12. EndsLine("spectre", Spectre!parse_else)
    BY <1>8 DEF Spectre!parse_else
  <1>13. IsStatement("spectre", Spectre!parse_conditional_block)
    BY <1>10, <1>11, <1>12 DEF Spectre!parse_conditional_block
  <1> QED
    BY <1>2, <1>4, <1>5, <1>6, <1>7, <1>13

(* The same of spectre_parser.rs, where also the tail of a named statement,*)
(* whose first token another function took, ends behind a newline or a brace*)
(* or at the end.                                                          *)
THEOREM SpectreRulesHold ==
  \A name \in RuleNames("spectre") : RuleHolds("spectre", Spectre!Rules[name], name)
  <1>1. ASSUME NEW name \in {"named", "keyword_named"}, NEW kinds,
               kinds = {"IDENTIFIER"} \/ kinds = {"is_ident"}
        PROVE  ArmHolds("spectre",
                 Spectre!Arm(Spectre!nt_in(kinds),
                             Spectre!take_identifier \o Spectre!Call(name)),
                 "source")
    <2> DEFINE p == Spectre!take_identifier \o Spectre!Call(name)
               test == Spectre!nt_in(kinds)
    <2>1. EndsLine("spectre", Spectre!Call(name))
      BY SpectreNames, SpectreCalls DEF RuleNames
    <2>2. ASSUME NEW n \in Nat
          PROVE  Good("spectre", p, Inside(n), AtLine(n + 1))
      <3>1. /\ Good("spectre", Spectre!take_identifier, Inside(n), Anywhere(n + 1))
            /\ Good("spectre", Spectre!Call(name), Anywhere(n + 1), AtLine(n + 1))
            /\ n + 1 \in Nat
        BY <2>1, SpectreIdentifier DEF EndsLine
      <3>2. Inside(n) \in Label /\ Anywhere(n + 1) \in Label /\ AtLine(n + 1) \in Label
        BY <3>1, LabelFacts
      <3> QED
        BY <3>1, <3>2, GoodConcat
    <2>3. Fenced(test)
      <3>1. 1 \in DOMAIN test /\ test[1] = [ahead |-> 0, is |-> TRUE, of |-> kinds]
        BY DEF Spectre!nt_in
      <3>2. "ENDMARKER" \notin kinds
        BY <1>1
      <3> HIDE DEF test
      <3> QED
        BY <3>1, <3>2 DEF Fenced
    <2>4. \A n \in Nat : Result("spectre", "source", n) = AtLine(n + 1)
      BY SpectreNames DEF Result
    <2>5. Spectre!Arm(test, p).test = test /\ Spectre!Arm(test, p).do = p
      BY DEF Spectre!Arm
    <2>6. ArmHolds("spectre", Spectre!Arm(test, p), "source")
      <3> HIDE DEF p, test
      <3> QED
        BY <2>2, <2>3, <2>4, <2>5 DEF ArmHolds
    <2> QED
      BY <2>6
  <1>2. RuleHolds("spectre", Spectre!parse_source, "source")
    <2>1. DOMAIN Spectre!parse_source = 1..20 /\ Spectre!parse_source[20].test = << >>
      BY DEF Spectre!parse_source, Spectre!Arm, Spectre!Always
    <2>2. /\ IsStatement("spectre", Spectre!parse_source[1].do)
          /\ IsStatement("spectre", Spectre!parse_source[2].do)
          /\ IsStatement("spectre", Spectre!parse_source[3].do)
          /\ IsStatement("spectre", Spectre!parse_source[4].do)
          /\ IsStatement("spectre", Spectre!parse_source[5].do)
          /\ IsStatement("spectre", Spectre!parse_source[6].do)
          /\ IsStatement("spectre", Spectre!parse_source[7].do)
          /\ IsStatement("spectre", Spectre!parse_source[8].do)
          /\ IsStatement("spectre", Spectre!parse_source[9].do)
          /\ IsStatement("spectre", Spectre!parse_source[10].do)
          /\ IsStatement("spectre", Spectre!parse_source[11].do)
          /\ IsStatement("spectre", Spectre!parse_source[12].do)
          /\ IsStatement("spectre", Spectre!parse_source[13].do)
          /\ IsStatement("spectre", Spectre!parse_source[14].do)
          /\ IsStatement("spectre", Spectre!parse_source[15].do)
          /\ IsStatement("spectre", Spectre!parse_source[16].do)
          /\ IsStatement("spectre", Spectre!parse_source[17].do)
          /\ IsStatement("spectre", Spectre!parse_source[20].do)
      BY SpectreCommands, SpectreBlocks, SpectreFailures DEF Spectre!parse_source, Spectre!Arm
    <2>3. /\ ArmHolds("spectre", Spectre!parse_source[18], "source")
          /\ ArmHolds("spectre", Spectre!parse_source[19], "source")
      BY <1>1 DEF Spectre!parse_source
    <2>4. \A i \in 1..20 \ {18, 19} : IsStatement("spectre", Spectre!parse_source[i].do)
      BY <2>2
    <2>5. \A i \in 1..20 \ {18, 19} : ArmHolds("spectre", Spectre!parse_source[i], "source")
      BY <2>4, KindsHold, SpectreNames
    <2>6. \A i \in 1..20 : ArmHolds("spectre", Spectre!parse_source[i], "source")
      BY <2>3, <2>5
    <2> QED
      BY <2>1, <2>6 DEF RuleHolds
  <1>3. IsStatement("spectre", Spectre!Call("source"))
    BY SpectreNames, SpectreCalls
  <1>4. RuleHolds("spectre", Spectre!parse_stat_statement, "stat_statement")
    <2>1. DOMAIN Spectre!parse_stat_statement = 1..3 /\ Spectre!parse_stat_statement[3].test = << >>
      BY DEF Spectre!parse_stat_statement, Spectre!Arm, Spectre!Always
    <2>2. /\ IsStatement("spectre", Spectre!parse_stat_statement[1].do)
          /\ IsStatement("spectre", Spectre!parse_stat_statement[2].do)
          /\ IsStatement("spectre", Spectre!parse_stat_statement[3].do)
      BY <1>3, SpectreCommands, SpectreBlocks DEF Spectre!parse_stat_statement, Spectre!Arm
    <2>3. \A i \in 1..3 : IsStatement("spectre", Spectre!parse_stat_statement[i].do)
      BY <2>2
    <2> QED
      BY <2>1, <2>3, KindsHold, SpectreNames DEF RuleHolds
  <1>5. RuleHolds("spectre", Spectre!parse_other(TRUE), "named")
    <2> DEFINE arms == Spectre!parse_other(TRUE)
    <2>1. DOMAIN arms = 1..15 /\ arms[15].test = << >>
      BY DEF Spectre!parse_other, Spectre!Arm, Spectre!Always
    <2>2. /\ EndsLine("spectre", arms[1].do)
          /\ EndsLine("spectre", arms[2].do)
          /\ EndsLine("spectre", arms[3].do)
          /\ EndsLine("spectre", arms[4].do)
          /\ EndsLine("spectre", arms[5].do)
          /\ EndsLine("spectre", arms[6].do)
          /\ EndsLine("spectre", arms[7].do)
          /\ EndsLine("spectre", arms[8].do)
          /\ EndsLine("spectre", arms[9].do)
          /\ EndsLine("spectre", arms[10].do)
          /\ EndsLine("spectre", arms[11].do)
          /\ EndsLine("spectre", arms[12].do)
          /\ EndsLine("spectre", arms[13].do)
          /\ EndsLine("spectre", arms[14].do)
          /\ EndsLine("spectre", arms[15].do)
      BY SpectreTails, SpectreFailures, KindsWeaken DEF Spectre!parse_other, Spectre!Arm
    <2> HIDE DEF arms
    <2>3. \A i \in 1..15 : EndsLine("spectre", arms[i].do)
      BY <2>2
    <2>4. RuleHolds("spectre", arms, "named")
      BY <2>1, <2>3, KindsHold, SpectreNames DEF RuleHolds
    <2> QED
      BY <2>4 DEF arms
  <1>6. RuleHolds("spectre", Spectre!parse_other(FALSE), "keyword_named")
    <2> DEFINE arms == Spectre!parse_other(FALSE)
    <2>1. DOMAIN arms = 1..14 /\ arms[14].test = << >>
      BY DEF Spectre!parse_other, Spectre!Arm, Spectre!Always
    <2>2. /\ EndsLine("spectre", arms[1].do)
          /\ EndsLine("spectre", arms[2].do)
          /\ EndsLine("spectre", arms[3].do)
          /\ EndsLine("spectre", arms[4].do)
          /\ EndsLine("spectre", arms[5].do)
          /\ EndsLine("spectre", arms[6].do)
          /\ EndsLine("spectre", arms[7].do)
          /\ EndsLine("spectre", arms[8].do)
          /\ EndsLine("spectre", arms[9].do)
          /\ EndsLine("spectre", arms[10].do)
          /\ EndsLine("spectre", arms[11].do)
          /\ EndsLine("spectre", arms[12].do)
          /\ EndsLine("spectre", arms[13].do)
          /\ EndsLine("spectre", arms[14].do)
      BY SpectreTails, SpectreFailures, KindsWeaken DEF Spectre!parse_other, Spectre!Arm
    <2> HIDE DEF arms
    <2>3. \A i \in 1..14 : EndsLine("spectre", arms[i].do)
      BY <2>2
    <2>4. RuleHolds("spectre", arms, "keyword_named")
      BY <2>1, <2>3, KindsHold, SpectreNames DEF RuleHolds
    <2> QED
      BY <2>4 DEF arms
  <1>7. /\ Keeps("spectre", Spectre!take_literal)
        /\ Keeps("spectre", Spectre!take_builtin_const)
        /\ Keeps("spectre",
                 Spectre!take_identifier
                   \o Spectre!If(Spectre!nt_in({"LPAREN"}), Spectre!parse_function_call))
    BY KindsOfConcat, SpectreTakes, SpectreChoices, SpectreExpressions, SpectreIdentifier
       DEF Spectre!take_literal, Spectre!take_builtin_const
  <1>8. RuleHolds("spectre", Spectre!parse_primary, "primary")
    <2>1. DOMAIN Spectre!parse_primary = 1..6 /\ Spectre!parse_primary[6].test = << >>
      BY DEF Spectre!parse_primary, Spectre!Arm, Spectre!Always
    <2>2. /\ Keeps("spectre", Spectre!parse_primary[1].do)
          /\ Keeps("spectre", Spectre!parse_primary[2].do)
          /\ Keeps("spectre", Spectre!parse_primary[3].do)
          /\ Keeps("spectre", Spectre!parse_primary[4].do)
          /\ Keeps("spectre", Spectre!parse_primary[5].do)
          /\ Keeps("spectre", Spectre!parse_primary[6].do)
      BY <1>7, SpectreExpressions, SpectreFailures DEF Spectre!parse_primary, Spectre!Arm
    <2>3. \A i \in 1..6 : Keeps("spectre", Spectre!parse_primary[i].do)
      BY <2>2
    <2> QED
      BY <2>1, <2>3, KindsHold, SpectreNames DEF RuleHolds
  <1>9. RuleHolds("spectre", Spectre!Expression, "expression")
    <2>1. DOMAIN Spectre!Expression = 1..1 /\ Spectre!Expression[1].test = << >>
      BY DEF Spectre!Expression, Spectre!Arm, Spectre!Always
    <2>2. /\ Keeps("spectre", Spectre!Expression[1].do)
      BY SpectreExpressions DEF Spectre!Expression, Spectre!Arm
    <2>3. \A i \in 1..1 : Keeps("spectre", Spectre!Expression[i].do)
      BY <2>2
    <2> QED
      BY <2>1, <2>3, KindsHold, SpectreNames DEF RuleHolds
  <1>10. RuleNames("spectre") =
           {"source", "stat_statement", "named", "keyword_named", "expression", "primary"}
    BY DEF RuleNames, StatementRules, TailRules
  <1>11. /\ Spectre!Rules["source"] = Spectre!parse_source
         /\ Spectre!Rules["stat_statement"] = Spectre!parse_stat_statement
         /\ Spectre!Rules["named"] = Spectre!parse_other(TRUE)
         /\ Spectre!Rules["keyword_named"] = Spectre!parse_other(FALSE)
         /\ Spectre!Rules["expression"] = Spectre!Expression
         /\ Spectre!Rules["primary"] = Spectre!parse_primary
    BY DEF Spectre!Rules
  <1>12. /\ RuleHolds("spectre", Spectre!Rules["source"], "source")
         /\ RuleHolds("spectre", Spectre!Rules["stat_statement"], "stat_statement")
         /\ RuleHolds("spectre", Spectre!Rules["named"], "named")
         /\ RuleHolds("spectre", Spectre!Rules["keyword_named"], "keyword_named")
         /\ RuleHolds("spectre", Spectre!Rules["expression"], "expression")
         /\ RuleHolds("spectre", Spectre!Rules["primary"], "primary")
    BY <1>2, <1>4, <1>5, <1>6, <1>8, <1>9, <1>11, Zenon
  <1> QED
    BY <1>10, <1>12

-----------------------------------------------------------------------------
(* The stack.  The marks of running productions fit, too: a statement ends *)
(* behind where it began, and where a failure stops the position is known  *)
(* to be far enough already.                                               *)
Mark(p, c, a, b) ==
  \/ c.op = "close" /\ Above(a, b)
  \/ c.op = "ended" /\ c.from \in Nat /\ c.from < a.least /\ Above(a, b)
  \/ c.op = "caught" /\ b.least <= p /\ b.inside = 0 /\ Above(a, b)
  \/ c.op = "verdict" /\ "op" \in DOMAIN c /\ a.place = 2 /\ Above(a, b)

Frame(g, p, c, a, b) == Fit(g, c, a, b) \/ Mark(p, c, a, b)

Chain(g, p, s, a, b) ==
  /\ IsSeq(s)
  /\ \E lab \in [1..(Len(s) + 1) -> Label] :
       /\ Above(a, lab[1])
       /\ Above(lab[Len(s) + 1], b)
       /\ \A i \in 1..Len(s) : Frame(g, p, s[i], lab[i], lab[i + 1])

(* The stack s does what it promises from every position not before p of   *)
(* which a holds.                                                          *)
Runs(g, p, s, a) == \E b \in Label : Chain(g, p, s, a, b)

(* More may be known before a frame, and less behind it.                   *)
LEMMA FrameWeaker ==
  ASSUME NEW g, NEW p, NEW c, NEW a \in Label, NEW b \in Label, NEW x \in Label, NEW y \in Label,
         Above(x, a), Frame(g, p, c, a, b), Above(b, y), p \in Nat
  PROVE  Frame(g, p, c, x, y)
  <1>1. CASE Fit(g, c, a, b)
    <2>1. PICK u, v \in Label : Above(a, u) /\ Fits(g, c, u, v) /\ Above(v, b)
      BY <1>1 DEF Fit
    <2>2. Above(x, u) /\ Above(v, y)
      BY <2>1, AboveTransitive
    <2> QED
      BY <2>1, <2>2 DEF Fit, Frame
  <1>2. CASE Mark(p, c, a, b)
    <2>1. Above(a, b) /\ Above(x, b)
      BY <1>2, AboveTransitive DEF Mark
    <2>2. Above(x, y)
      BY <2>1, AboveTransitive
    <2>3. Mark(p, c, x, y)
      BY <1>2, <2>2 DEF Mark, Above, Label
    <2> QED
      BY <2>3 DEF Frame
  <1> QED
    BY <1>1, <1>2 DEF Frame

(* What the position has passed it has passed for good.                    *)
LEMMA FrameLater ==
  ASSUME NEW g, NEW p \in Nat, NEW q \in Nat, p <= q, NEW c, NEW a \in Label, NEW b \in Label,
         Frame(g, p, c, a, b)
  PROVE  Frame(g, q, c, a, b)
  BY DEF Frame, Mark, Label

(* More may be known before a stack, and less behind it.                   *)
LEMMA ChainWeaker ==
  ASSUME NEW g, NEW p \in Nat, NEW s, NEW a \in Label, NEW b \in Label, NEW c \in Label,
         NEW d \in Label, Above(a, b), Chain(g, p, s, b, c), Above(c, d)
  PROVE  Chain(g, p, s, a, d)
  <1>1. IsSeq(s) /\ Len(s) \in Nat
    BY SeqFacts DEF Chain
  <1>2. PICK lab \in [1..(Len(s) + 1) -> Label] :
             /\ Above(b, lab[1])
             /\ Above(lab[Len(s) + 1], c)
             /\ \A i \in 1..Len(s) : Frame(g, p, s[i], lab[i], lab[i + 1])
    BY DEF Chain
  <1>3. lab[1] \in Label /\ lab[Len(s) + 1] \in Label
    BY <1>1
  <1>4. Above(a, lab[1]) /\ Above(lab[Len(s) + 1], d)
    BY <1>2, <1>3, AboveTransitive
  <1> QED
    BY <1>1, <1>2, <1>4 DEF Chain

(* A stack that runs from a position runs from every later one.            *)
LEMMA ChainLater ==
  ASSUME NEW g, NEW p \in Nat, NEW q \in Nat, p <= q, NEW s, NEW a, NEW b, Chain(g, p, s, a, b)
  PROVE  Chain(g, q, s, a, b)
  <1>1. IsSeq(s) /\ Len(s) \in Nat
    BY SeqFacts DEF Chain
  <1>2. PICK lab \in [1..(Len(s) + 1) -> Label] :
             /\ Above(a, lab[1])
             /\ Above(lab[Len(s) + 1], b)
             /\ \A i \in 1..Len(s) : Frame(g, p, s[i], lab[i], lab[i + 1])
    BY DEF Chain
  <1>3. ASSUME NEW i \in 1..Len(s)
        PROVE  Frame(g, q, s[i], lab[i], lab[i + 1])
    <2>1. lab[i] \in Label /\ lab[i + 1] \in Label
      BY <1>1
    <2> QED
      BY <2>1, <1>2, FrameLater
  <1> QED
    BY <1>1, <1>2, <1>3 DEF Chain

(* A stack of one frame.                                                   *)
LEMMA ChainOne ==
  ASSUME NEW g, NEW p, NEW c, NEW a \in Label, NEW b \in Label, Frame(g, p, c, a, b)
  PROVE  Chain(g, p, <<c>>, a, b)
  <1> DEFINE lab == [i \in 1..2 |-> IF i = 1 THEN a ELSE b]
  <1>1. lab \in [1..2 -> Label] /\ lab[1] = a /\ lab[2] = b
    OBVIOUS
  <1>2. IsSeq(<<c>>) /\ Len(<<c>>) = 1 /\ <<c>>[1] = c
    BY SeqFacts
  <1> HIDE DEF lab
  <1>3. /\ lab \in [1..(Len(<<c>>) + 1) -> Label]
        /\ Above(a, lab[1]) /\ Above(lab[Len(<<c>>) + 1], b)
    BY <1>1, <1>2, LabelFacts
  <1>4. \A i \in 1..Len(<<c>>) : Frame(g, p, <<c>>[i], lab[i], lab[i + 1])
    BY <1>1, <1>2
  <1> QED
    BY <1>2, <1>3, <1>4 DEF Chain

(* A production may be a stack.                                            *)
LEMMA GoodChains ==
  ASSUME NEW g, NEW p, NEW s, NEW a, NEW b, Good(g, s, a, b)
  PROVE  Chain(g, p, s, a, b)
  BY GoodLabels DEF Chain, Frame

(* A production or a mark is put on a stack that goes on with what it      *)
(* leads to.                                                               *)
LEMMA ChainConcat ==
  ASSUME NEW g, NEW s, NEW t, NEW a \in Label, NEW b \in Label, NEW c \in Label,
         NEW p \in Nat, Chain(g, p, s, a, b), Chain(g, p, t, b, c)
  PROVE  Chain(g, p, s \o t, a, c)
  <1>1. /\ IsSeq(s) /\ IsSeq(t) /\ Len(s) \in Nat /\ Len(t) \in Nat
        /\ IsSeq(s \o t) /\ Len(s \o t) = Len(s) + Len(t)
    BY SeqFacts DEF Chain
  <1>2. PICK m \in [1..(Len(s) + 1) -> Label] :
             /\ Above(a, m[1])
             /\ Above(m[Len(s) + 1], b)
             /\ \A i \in 1..Len(s) : Frame(g, p, s[i], m[i], m[i + 1])
    BY DEF Chain
  <1>3. PICK n \in [1..(Len(t) + 1) -> Label] :
             /\ Above(b, n[1])
             /\ Above(n[Len(t) + 1], c)
             /\ \A i \in 1..Len(t) : Frame(g, p, t[i], n[i], n[i + 1])
    BY DEF Chain
  <1> DEFINE lab == [i \in 1..(Len(s) + Len(t) + 1) |-> IF i <= Len(s) THEN m[i] ELSE n[i - Len(s)]]
  <1>4. /\ m[1] \in Label /\ m[Len(s) + 1] \in Label
        /\ n[1] \in Label /\ n[Len(t) + 1] \in Label
        /\ Above(m[Len(s) + 1], n[1])
    <2>1. m[1] \in Label /\ m[Len(s) + 1] \in Label /\ n[1] \in Label /\ n[Len(t) + 1] \in Label
      BY <1>1
    <2> QED
      BY <2>1, <1>2, <1>3, AboveTransitive
  <1>5. /\ \A i \in 1..Len(s) : lab[i] = m[i]
        /\ \A i \in 1..(Len(t) + 1) : lab[Len(s) + i] = n[i]
        /\ lab \in [1..(Len(s \o t) + 1) -> Label]
    BY <1>1
  <1> HIDE DEF lab
  <1>6. Above(a, lab[1])
    <2>1. CASE Len(s) = 0
      <3>1. Above(a, n[1])
        BY <2>1, <1>2, <1>4, AboveTransitive
      <3> QED
        BY <3>1, <2>1, <1>1, <1>5
    <2>2. CASE Len(s) > 0
      BY <2>2, <1>1, <1>2, <1>5
    <2> QED
      BY <2>1, <2>2, <1>1
  <1>7. Above(lab[Len(s \o t) + 1], c)
    <2>1. Len(s \o t) + 1 = Len(s) + (Len(t) + 1) /\ Len(t) + 1 \in 1..(Len(t) + 1)
      BY <1>1
    <2> QED
      BY <2>1, <1>3, <1>5
  <1>8. ASSUME NEW i \in 1..Len(s \o t)
         PROVE  Frame(g, p, (s \o t)[i], lab[i], lab[i + 1])
    <2>1. CASE i \in 1..(Len(s) - 1)
      <3>1. i \in 1..Len(s) /\ i + 1 \in 1..Len(s)
        BY <2>1, <1>1
      <3>2. (s \o t)[i] = s[i] /\ lab[i] = m[i] /\ lab[i + 1] = m[i + 1]
        BY <3>1, <1>1, <1>5, SeqFacts
      <3> QED
        BY <3>1, <3>2, <1>2
    <2>2. CASE i = Len(s)
      <3>1. i \in 1..Len(s) /\ i + 1 = Len(s) + 1 /\ 1 \in 1..(Len(t) + 1)
        BY <2>2, <1>1
      <3>2. (s \o t)[i] = s[i] /\ lab[i] = m[i] /\ lab[i + 1] = n[1]
        BY <3>1, <1>1, <1>5, SeqFacts
      <3>3. Frame(g, p, s[i], m[i], m[i + 1])
        BY <3>1, <1>2
      <3>4. m[i] \in Label
        BY <3>1, <1>1
      <3>5. Above(m[i], m[i])
        BY <3>4, LabelFacts
      <3> QED
        BY <3>1, <3>2, <3>3, <3>4, <3>5, <1>4, FrameWeaker
    <2>3. CASE i \in (Len(s) + 1)..(Len(s) + Len(t))
      <3>1. PICK j \in 1..Len(t) : i = Len(s) + j
        <4>1. i - Len(s) \in 1..Len(t) /\ i = Len(s) + (i - Len(s))
          BY <2>3, <1>1
        <4> QED
          BY <4>1
      <3>2. j \in 1..(Len(t) + 1) /\ j + 1 \in 1..(Len(t) + 1) /\ i + 1 = Len(s) + (j + 1)
        BY <3>1, <1>1
      <3>3. (s \o t)[i] = t[j] /\ lab[i] = n[j] /\ lab[i + 1] = n[j + 1]
        BY <3>1, <3>2, <1>1, <1>5, SeqFacts
      <3> QED
        BY <3>1, <3>3, <1>3
    <2>4. i \in 1..(Len(s) - 1) \/ i = Len(s) \/ i \in (Len(s) + 1)..(Len(s) + Len(t))
      BY <1>1
    <2> QED
      BY <2>1, <2>2, <2>3, <2>4
  <1> QED
    BY <1>1, <1>5, <1>6, <1>7, <1>8 DEF Chain

(* The top of a stack, and what is below it.                               *)
LEMMA ChainTail ==
  ASSUME NEW g, NEW p \in Nat, NEW s, NEW a \in Label, NEW b \in Label, Chain(g, p, s, a, b),
         s # << >>
  PROVE  /\ IsSeq(s) /\ Len(s) \in Nat \ {0} /\ Head(s) = s[1] /\ s = <<Head(s)>> \o Tail(s)
         /\ \E c \in Label : Frame(g, p, Head(s), a, c) /\ Chain(g, p, Tail(s), c, b)
  <1>1. IsSeq(s)
    BY DEF Chain
  <1>2. PICK S : s \in Seq(S)
    BY <1>1 DEF IsSeq
  <1>3. /\ Len(s) \in Nat \ {0} /\ Head(s) = s[1]
        /\ Tail(s) \in Seq(S) /\ Len(Tail(s)) = Len(s) - 1
        /\ \A i \in 1..(Len(s) - 1) : Tail(s)[i] = s[i + 1]
    BY <1>2, HeadTailProperties, EmptySeq, LenProperties
  <1>4. s = <<Head(s)>> \o Tail(s)
    <2>1. <<Head(s)>> \in Seq(S) /\ Len(<<Head(s)>>) = 1 /\ <<Head(s)>>[1] = s[1]
      BY <1>2, <1>3, ElementOfSeq
    <2>2. <<Head(s)>> \o Tail(s) \in Seq(S) /\ Len(<<Head(s)>> \o Tail(s)) = Len(s)
      BY <2>1, <1>3, ConcatProperties
    <2>3. ASSUME NEW i \in 1..Len(s)
          PROVE  (<<Head(s)>> \o Tail(s))[i] = s[i]
      <3>1. CASE i = 1
        BY <3>1, <2>1, <1>3, ConcatProperties
      <3>2. CASE i # 1
        <4>1. i - 1 \in 1..(Len(s) - 1) /\ i > Len(<<Head(s)>>) /\ (i - 1) + 1 = i
          BY <3>2, <2>1, <1>3
        <4>2. (<<Head(s)>> \o Tail(s))[i] = Tail(s)[i - 1]
          BY <4>1, <2>1, <1>3, ConcatProperties
        <4> QED
          BY <4>1, <4>2, <1>3
      <3> QED
        BY <3>1, <3>2
    <2> QED
      BY <2>2, <2>3, <1>2, SeqEqual
  <1>5. PICK lab \in [1..(Len(s) + 1) -> Label] :
             /\ Above(a, lab[1])
             /\ Above(lab[Len(s) + 1], b)
             /\ \A i \in 1..Len(s) : Frame(g, p, s[i], lab[i], lab[i + 1])
    BY DEF Chain
  <1> DEFINE rest == [i \in 1..Len(s) |-> lab[i + 1]]
  <1>6. lab[1] \in Label /\ lab[2] \in Label /\ Above(lab[2], lab[2]) /\ lab[Len(s) + 1] \in Label
    <2>1. 1 \in 1..(Len(s) + 1) /\ 2 \in 1..(Len(s) + 1) /\ Len(s) + 1 \in 1..(Len(s) + 1)
      BY <1>3
    <2>2. lab[1] \in Label /\ lab[2] \in Label /\ lab[Len(s) + 1] \in Label
      BY <2>1
    <2> QED
      BY <2>2, LabelFacts
  <1>7. Frame(g, p, Head(s), a, lab[2])
    <2>1. 1 \in 1..Len(s) /\ 1 + 1 = 2
      BY <1>3
    <2>2. Frame(g, p, s[1], lab[1], lab[2])
      BY <2>1, <1>5
    <2> QED
      BY <2>2, <1>3, <1>5, <1>6, FrameWeaker
  <1>8. Chain(g, p, Tail(s), lab[2], b)
    <2>1. rest \in [1..(Len(Tail(s)) + 1) -> Label]
      BY <1>3
    <2>2. rest[1] = lab[2] /\ rest[Len(Tail(s)) + 1] = lab[Len(s) + 1]
      BY <1>3
    <2>3. ASSUME NEW i \in 1..Len(Tail(s))
          PROVE  Frame(g, p, Tail(s)[i], rest[i], rest[i + 1])
      <3>1. i \in 1..(Len(s) - 1) /\ i + 1 \in 1..Len(s) /\ i \in 1..Len(s)
        BY <1>3
      <3>2. Tail(s)[i] = s[i + 1] /\ rest[i] = lab[i + 1] /\ rest[i + 1] = lab[(i + 1) + 1]
        BY <3>1, <1>3
      <3> HIDE DEF rest
      <3> QED
        BY <3>1, <3>2, <1>5
    <2>4. IsSeq(Tail(s))
      BY <1>3 DEF IsSeq
    <2> HIDE DEF rest
    <2> QED
      BY <2>1, <2>2, <2>3, <2>4, <1>5, <1>6 DEF Chain
  <1> QED
    BY <1>1, <1>3, <1>4, <1>6, <1>7, <1>8

(* What is below the mark k of a stack.                                    *)
LEMMA ChainBelow ==
  ASSUME NEW g, NEW p \in Nat, NEW s, NEW a \in Label, NEW b \in Label, Chain(g, p, s, a, b),
         NEW k \in 1..Len(s), s[k].op = "caught"
  PROVE  \E c \in Label :
           /\ c.least <= p /\ c.inside = 0
           /\ Chain(g, p, SubSeq(s, k + 1, Len(s)), c, b)
  <1> DEFINE r == SubSeq(s, k + 1, Len(s))
  <1>1. PICK S : s \in Seq(S)
    BY DEF Chain, IsSeq
  <1>2. /\ Len(s) \in Nat /\ k \in Nat
        /\ r \in Seq(S) /\ Len(r) = Len(s) - k
        /\ \A i \in 1..(Len(s) - k) : r[i] = s[k + i]
    <2>1. Len(s) \in Nat /\ k \in Nat
      BY <1>1, LenProperties
    <2>2. r \in Seq(S)
      BY <1>1, <2>1, SubSeqProperties
    <2>3. Len(r) = Len(s) - k
      BY <1>1, <2>1, SubSeqProperties
    <2>4. \A i \in 1..(Len(s) - k) : r[i] = s[k + i]
      BY <1>1, <2>1, <2>3, SubSeqProperties
    <2> QED
      BY <2>1, <2>2, <2>3, <2>4
  <1>3. PICK lab \in [1..(Len(s) + 1) -> Label] :
             /\ Above(a, lab[1])
             /\ Above(lab[Len(s) + 1], b)
             /\ \A i \in 1..Len(s) : Frame(g, p, s[i], lab[i], lab[i + 1])
    BY DEF Chain
  <1> DEFINE rest == [i \in 1..(Len(s) - k + 1) |-> lab[k + i]]
  <1>4. /\ k + 1 \in 1..(Len(s) + 1) /\ Len(s) + 1 \in 1..(Len(s) + 1)
        /\ lab[k + 1] \in Label /\ Above(lab[k + 1], lab[k + 1])
    <2>1. k + 1 \in 1..(Len(s) + 1) /\ Len(s) + 1 \in 1..(Len(s) + 1)
      BY <1>2
    <2>2. lab[k + 1] \in Label
      BY <2>1
    <2> QED
      BY <2>1, <2>2, LabelFacts
  <1>5. lab[k + 1].least <= p /\ lab[k + 1].inside = 0
    <2>1. Frame(g, p, s[k], lab[k], lab[k + 1])
      BY <1>3
    <2>2. ~Fit(g, s[k], lab[k], lab[k + 1])
      BY DEF Fit, Fits, Step
    <2> QED
      BY <2>1, <2>2 DEF Frame, Mark
  <1>6. /\ rest \in [1..(Len(r) + 1) -> Label]
        /\ rest[1] = lab[k + 1] /\ rest[Len(r) + 1] = lab[Len(s) + 1]
    <2> HIDE DEF r
    <2>1. rest \in [1..(Len(r) + 1) -> Label]
      BY <1>2
    <2>2. /\ Len(r) + 1 \in 1..(Len(s) - k + 1) /\ 1 \in 1..(Len(s) - k + 1)
          /\ k + (Len(r) + 1) = Len(s) + 1
      BY <1>2
    <2> QED
      BY <2>1, <2>2
  <1>7. ASSUME NEW i \in 1..Len(r)
        PROVE  Frame(g, p, r[i], rest[i], rest[i + 1])
    <2> HIDE DEF r
    <2>1. /\ i \in 1..(Len(s) - k) /\ k + i \in 1..Len(s)
          /\ i \in 1..(Len(s) - k + 1) /\ i + 1 \in 1..(Len(s) - k + 1)
          /\ k + (i + 1) = (k + i) + 1
      BY SMTT(30), <1>2
    <2>2. r[i] = s[k + i] /\ rest[i] = lab[k + i] /\ rest[i + 1] = lab[(k + i) + 1]
      BY <2>1, <1>2
    <2> HIDE DEF rest
    <2> QED
      BY <2>1, <2>2, <1>3
  <1>8. Chain(g, p, r, lab[k + 1], b)
    <2>1. IsSeq(r)
      BY <1>2 DEF IsSeq
    <2> HIDE DEF r, rest
    <2> QED
      BY <2>1, <1>3, <1>4, <1>6, <1>7 DEF Chain
  <1> QED
    BY <1>4, <1>5, <1>8

-----------------------------------------------------------------------------
(* Positions.  The places a label speaks of, as StatementsStartLines has   *)
(* them, of a text t.                                                      *)
StartsLine(t, p) == p = 1 \/ t.toks[p - 1] = "NEWLINE"

InBraces(t, p) ==
  \E q \in 1..(p - 1) :
    /\ t.toks[q] \in {"LBRACE", "RBRACE"}
    /\ \A r \in q..(p - 1) : t.toks[r] # "NEWLINE"

AtALine(t, p) == StartsLine(t, p) \/ InBraces(t, p) \/ p = Len(t.toks)

Ready(t, p) ==
  \/ AtALine(t, p)
  \/ t.toks[p - 1] = "DOT" /\ StartsLine(t, p - 1)

Holds(t, p, a) ==
  /\ a.least <= p
  /\ a.place >= 1 => Ready(t, p)
  /\ a.place = 2 => AtALine(t, p)
  /\ a.inside = 1 => p # Len(t.toks)

(* What holds of a position holds in fewer words, too.                     *)
LEMMA HoldsWeaker ==
  ASSUME NEW t, NEW p \in Nat, NEW a \in Label, NEW b \in Label, Holds(t, p, a), Above(a, b)
  PROVE  Holds(t, p, b)
  BY DEF Holds, Above, Label

(* The last token of a text, and no other, is the ENDMARKER.               *)
LEMMA TextFacts ==
  ASSUME text \in Texts
  PROVE  /\ text.lang \in {"spice", "spectre"}
         /\ End = Len(text.toks) /\ End \in Nat \ {0}
         /\ \A p \in 1..End : Tok(p) = text.toks[p]
         /\ \A p \in 1..End : Tok(p) = "ENDMARKER" <=> p = End
  <1>1. IsText(text)
    BY TextsAssumption
  <1>2. Len(text.toks) \in Nat
    BY <1>1, LenProperties DEF IsText
  <1> QED
    BY <1>1, <1>2 DEF IsText, End, Tok

(* At the end only the ENDMARKER is taken: no predicate of either grammar  *)
(* holds of it.                                                            *)
LEMMA EndTaken ==
  ASSUME text \in Texts, NEW S
  PROVE  IsIn(End, S) <=> "ENDMARKER" \in S
  <1>1. Tok(End) = "ENDMARKER"
    BY TextFacts
  <1>2. Spice!Kinds("ENDMARKER") = {"ENDMARKER"}
    BY DEF Spice!Kinds, Spice!Keywords, Spice!Identifiers, Spice!Operators, Spice!Sources,
           Spice!Devices, Spice!Analyses, Spice!Commands
  <1>3. Spectre!Kinds("ENDMARKER") = {"ENDMARKER"}
    BY DEF Spectre!Kinds, Spectre!Keywords, Spectre!Operators, Spectre!Analyses,
           Spectre!Constants, Spectre!Functions_, Spectre!SaveKeywords, Spectre!Controls
  <1> QED
    BY <1>1, <1>2, <1>3 DEF IsIn, Kinds

(* Of the words that are no predicates only the token itself is one.       *)
LEMMA PlainTaken ==
  ASSUME NEW p, NEW S, IsIn(p, S), S \subseteq {"NEWLINE", "ENDMARKER", "LBRACE", "RBRACE", "DOT"}
  PROVE  Tok(p) \in S
  BY DEF IsIn, Kinds, Spice!Kinds, Spectre!Kinds

(* The next token; behind the ENDMARKER it is the ENDMARKER again.         *)
LEMMA BeyondFacts ==
  ASSUME text \in Texts, NEW p \in 1..End
  PROVE  /\ Beyond(p) \in 1..End /\ p <= Beyond(p)
         /\ p = End => Beyond(p) = End
         /\ p # End => Beyond(p) = p + 1
  BY TextFacts DEF Beyond

(* Every line ends, the last one at the ENDMARKER.                         *)
LEMMA LineEndFacts ==
  ASSUME text \in Texts, NEW p \in 1..End
  PROVE  LineEnd(p) \in p..End /\ Tok(LineEnd(p)) \in {"NEWLINE", "ENDMARKER"}
  <1>1. End \in Nat /\ Tok(End) = "ENDMARKER"
    BY TextFacts
  <1> DEFINE S == {q \in p..End : Tok(q) \in {"NEWLINE", "ENDMARKER"}}
  <1>2. S \in SUBSET Nat /\ End \in S
    BY <1>1
  <1>3. PICK q \in S : \A r \in S : q <= r
    BY <1>2, LeastExists
  <1>4. q \in p..End /\ Tok(q) \in {"NEWLINE", "ENDMARKER"}
    OBVIOUS
  <1>5. \A r \in p..(q - 1) : Tok(r) \notin {"NEWLINE", "ENDMARKER"}
    <2>1. \A r \in p..(q - 1) : r \in p..End /\ ~(q <= r)
      BY <1>1, <1>4
    <2> QED
      BY <2>1, <1>3
  <1> HIDE DEF S
  <1>6. \E x \in p..End :
          /\ Tok(x) \in {"NEWLINE", "ENDMARKER"}
          /\ \A r \in p..(x - 1) : Tok(r) \notin {"NEWLINE", "ENDMARKER"}
    BY <1>4, <1>5
  <1> QED
    BY <1>6, Zenon DEF LineEnd

(* Behind a token of the text: where a line, a brace, a dot end.           *)
LEMMA Behind ==
  ASSUME text \in Texts, NEW p \in 1..End
  PROVE  /\ Tok(p) \in {"NEWLINE", "ENDMARKER", "LBRACE", "RBRACE"} => AtALine(text, Beyond(p))
         /\ Tok(p) = "DOT" /\ AtALine(text, p) => Ready(text, Beyond(p))
  <1>1. /\ End \in Nat \ {0} /\ End = Len(text.toks) /\ Tok(p) = text.toks[p]
        /\ Tok(p) = "ENDMARKER" <=> p = End
    BY TextFacts
  <1>2. CASE Tok(p) = "ENDMARKER"
    BY <1>1, <1>2, BeyondFacts DEF AtALine
  <1>3. CASE Tok(p) # "ENDMARKER"
    <2>1. Beyond(p) = p + 1 /\ (p + 1) - 1 = p
      BY <1>1, <1>3, BeyondFacts
    <2>2. CASE Tok(p) = "NEWLINE"
      BY <2>1, <2>2, <1>1 DEF AtALine, StartsLine
    <2>3. CASE Tok(p) \in {"LBRACE", "RBRACE"}
      BY <2>1, <2>3, <1>1 DEF AtALine, InBraces
    <2>4. CASE Tok(p) = "DOT" /\ AtALine(text, p)
      <3>1. CASE StartsLine(text, p)
        BY <2>1, <2>4, <3>1, <1>1 DEF Ready
      <3>2. CASE InBraces(text, p)
        <4>1. PICK q \in 1..(p - 1) :
                /\ text.toks[q] \in {"LBRACE", "RBRACE"}
                /\ \A r \in q..(p - 1) : text.toks[r] # "NEWLINE"
          BY <3>2 DEF InBraces
        <4>2. q \in 1..((p + 1) - 1) /\ \A r \in q..((p + 1) - 1) : r \in q..(p - 1) \/ r = p
          BY <1>1
        <4>3. \A r \in q..((p + 1) - 1) : text.toks[r] # "NEWLINE"
          BY <4>1, <4>2, <2>4, <1>1
        <4>4. InBraces(text, p + 1)
          BY <4>1, <4>2, <4>3 DEF InBraces
        <4> QED
          BY <4>4, <2>1, <2>4 DEF AtALine, Ready
      <3> QED
        BY <2>4, <3>1, <3>2, <1>1, <1>3 DEF AtALine
    <2> QED
      BY <2>2, <2>3, <2>4, <1>3
  <1> QED
    BY <1>2, <1>3

(* error() leaves the parser behind a line, and before the end it comes    *)
(* forward.                                                                *)
LEMMA AfterErrorFacts ==
  ASSUME text \in Texts, NEW p \in 1..End
  PROVE  /\ AfterError(p) \in 1..End /\ p <= AfterError(p)
         /\ p # End => p < AfterError(p)
         /\ AtALine(text, AfterError(p))
  <1>1. End \in Nat \ {0}
    BY TextFacts
  <1>2. LineEnd(p) \in p..End /\ Tok(LineEnd(p)) \in {"NEWLINE", "ENDMARKER"}
    BY LineEndFacts
  <1>3. LineEnd(p) \in 1..End
    BY <1>1, <1>2
  <1>4. AtALine(text, Beyond(LineEnd(p)))
    BY <1>2, <1>3, Behind
  <1>5. /\ Beyond(LineEnd(p)) \in 1..End /\ LineEnd(p) <= Beyond(LineEnd(p))
        /\ LineEnd(p) # End => Beyond(LineEnd(p)) = LineEnd(p) + 1
        /\ LineEnd(p) = End => Beyond(LineEnd(p)) = End
    BY <1>3, BeyondFacts
  <1> QED
    BY <1>1, <1>2, <1>3, <1>4, <1>5 DEF AfterError

(* What holds behind a token that was taken.                               *)
LEMMA TakingHolds ==
  ASSUME text \in Texts, pos \in 1..End, NEW S, IsIn(pos, S), NEW a \in Label, NEW b \in Label,
         Holds(text, pos, a), Taken(S, a, b)
  PROVE  Holds(text, Beyond(pos), b)
  <1>1. pos \in Nat /\ End = Len(text.toks) /\ End \in Nat \ {0}
    BY TextFacts
  <1>2. b.least <= Beyond(pos)
    <2>1. a.least <= pos /\ a.least \in Nat /\ b.least \in Nat
      BY DEF Holds, Label
    <2>2. CASE "ENDMARKER" \in S
      <3>1. pos <= Beyond(pos) /\ Beyond(pos) \in Nat /\ b.least <= a.least
        BY <2>1, <2>2, <1>1, BeyondFacts DEF Taken
      <3> QED
        BY <3>1, <2>1, <1>1
    <2>3. CASE "ENDMARKER" \notin S
      <3>1. pos # End
        BY <2>3, EndTaken
      <3> QED
        BY <3>1, <2>1, <2>3, <1>1, BeyondFacts DEF Taken
    <2> QED
      BY <2>2, <2>3
  <1>3. b.inside = 0
    BY DEF Taken
  <1>4. CASE b.place = 0
    BY <1>2, <1>3, <1>4 DEF Holds
  <1>5. CASE b.place = 1 /\ a.place = 2 /\ S = {"DOT"}
    <2>1. Tok(pos) = "DOT" /\ AtALine(text, pos)
      BY <1>5, PlainTaken DEF Holds
    <2> QED
      BY <2>1, <1>2, <1>3, <1>5, Behind DEF Holds
  <1>6. CASE S \subseteq {"NEWLINE", "ENDMARKER"} \/ S \subseteq {"LBRACE", "RBRACE"}
    <2>1. Tok(pos) \in S
      BY <1>6, PlainTaken
    <2>2. AtALine(text, Beyond(pos))
      BY <2>1, <1>6, Behind
    <2> QED
      BY <2>2, <1>2, <1>3 DEF Holds, Ready
  <1> QED
    BY <1>4, <1>5, <1>6 DEF Taken

(* The lenient identifier comes forward before the end, whatever it finds. *)
LEMMA RecoveredFacts ==
  ASSUME text \in Texts, pos \in 1..End
  PROVE  /\ Recovered \in 1..End /\ pos <= Recovered
         /\ pos # End => pos < Recovered
  <1>1. End \in Nat \ {0}
    BY TextFacts
  <1>2. /\ AfterError(pos) \in 1..End /\ pos <= AfterError(pos)
        /\ pos # End => pos < AfterError(pos)
    BY AfterErrorFacts
  <1>3. Beyond(AfterError(pos)) \in 1..End /\ AfterError(pos) <= Beyond(AfterError(pos))
    BY <1>2, BeyondFacts
  <1>4. /\ Beyond(pos) \in 1..End /\ pos <= Beyond(pos)
        /\ pos # End => pos < Beyond(pos)
    BY <1>1, BeyondFacts
  <1> QED
    BY <1>1, <1>2, <1>3, <1>4 DEF Recovered

-----------------------------------------------------------------------------
(* What may be pushed.                                                     *)
LEMMA RunsWeaker ==
  ASSUME NEW g, NEW p \in Nat, NEW s, NEW a \in Label, NEW b \in Label,
         Above(a, b), Runs(g, p, s, b)
  PROVE  Runs(g, p, s, a)
  BY ChainWeaker, LabelFacts DEF Runs

(* A stack that runs from a position runs from every later one.            *)
LEMMA RunsLater ==
  ASSUME NEW g, NEW p \in Nat, NEW q \in Nat, p <= q, NEW s, NEW a \in Label, Runs(g, p, s, a)
  PROVE  Runs(g, q, s, a)
  BY ChainLater DEF Runs

(* A production on top of a stack.                                         *)
LEMMA RunsBefore ==
  ASSUME NEW g, NEW p \in Nat, NEW s, NEW t, NEW a \in Label, NEW b \in Label,
         Good(g, s, a, b), Runs(g, p, t, b)
  PROVE  Runs(g, p, s \o t, a)
  BY GoodChains, ChainConcat DEF Runs

(* A production and the mark behind it on top of a stack.                  *)
LEMMA RunsMarked ==
  ASSUME NEW g, NEW p \in Nat, NEW c, NEW s, NEW t,
         NEW a \in Label, NEW b \in Label, NEW d \in Label,
         Good(g, s, a, b), Mark(p, c, b, d), Runs(g, p, t, d)
  PROVE  Runs(g, p, s \o <<c>> \o t, a)
  <1>1. Chain(g, p, s, a, b) /\ Chain(g, p, <<c>>, b, d)
    BY GoodChains, ChainOne DEF Frame
  <1>2. Chain(g, p, s \o <<c>>, a, d)
    BY <1>1, ChainConcat
  <1> QED
    BY <1>2, ChainConcat DEF Runs

(* At the bottom of the stack is the loop over the statements of the file, *)
(* and above it the mark that stops every failure, from the moment the     *)
(* first statement of the loop begins until it has ended.                  *)
Outermost(c) == c.op = "while" /\ Len(c.body) = 1 /\ c.body[1].op = "contain"

Held(s) == Len(s) >= 2 /\ Outermost(s[Len(s)]) /\ s[Len(s) - 1].op = "caught"

Based(s) ==
  \/ s = << >>
  \/ Len(s) = 1 /\ Outermost(s[1])
  \/ Len(s) = 2 /\ s[1].op = "contain" /\ Outermost(s[2])
  \/ Held(s)

(* What is pushed leaves the bottom of the stack as it is.                 *)
LEMMA HeldConcat ==
  ASSUME NEW s, NEW t, IsSeq(s), IsSeq(t), Held(t)
  PROVE  Held(s \o t)
  <1>1. /\ Len(s) \in Nat /\ Len(t) \in Nat /\ Len(s \o t) = Len(s) + Len(t)
        /\ \A i \in 1..Len(t) : (s \o t)[Len(s) + i] = t[i]
    BY SeqFacts
  <1>2. Len(t) \in 1..Len(t) /\ Len(t) - 1 \in 1..Len(t) /\ Len(s) + (Len(t) - 1) = Len(s \o t) - 1
    BY <1>1 DEF Held
  <1>3. (s \o t)[Len(s \o t)] = t[Len(t)] /\ (s \o t)[Len(s \o t) - 1] = t[Len(t) - 1]
    BY <1>1, <1>2
  <1>4. Len(s \o t) >= 2
    BY <1>1 DEF Held
  <1> QED
    BY <1>3, <1>4 DEF Held

(* What is popped above the mark leaves it, too.                           *)
LEMMA HeldTail ==
  ASSUME NEW c, NEW t, IsSeq(t), Held(<<c>> \o t), Len(t) # 1
  PROVE  Held(t)
  <1>1. /\ Len(t) \in Nat /\ Len(<<c>> \o t) = 1 + Len(t)
        /\ \A i \in 1..Len(t) : (<<c>> \o t)[1 + i] = t[i]
    BY SeqFacts
  <1>2. /\ Len(t) >= 2 /\ Len(t) \in 1..Len(t) /\ Len(t) - 1 \in 1..Len(t)
        /\ 1 + (Len(t) - 1) = Len(<<c>> \o t) - 1
    BY <1>1 DEF Held
  <1>3. /\ (<<c>> \o t)[Len(<<c>> \o t)] = t[Len(t)]
        /\ (<<c>> \o t)[Len(<<c>> \o t) - 1] = t[Len(t) - 1]
    BY <1>1, <1>2
  <1> QED
    BY <1>2, <1>3 DEF Held

(* Whatever begins no statement and ends none works above the mark.        *)
LEMMA BasedTop ==
  ASSUME NEW c, NEW t, IsSeq(t), Based(<<c>> \o t), c.op \notin {"while", "contain", "caught"}
  PROVE  Held(<<c>> \o t) /\ Held(t)
  <1>1. /\ Len(t) \in Nat /\ Len(<<c>> \o t) = 1 + Len(t) /\ (<<c>> \o t)[1] = c
        /\ Len(<< >>) = 0
    BY SeqFacts
  <1>2. Held(<<c>> \o t)
    BY <1>1 DEF Based, Outermost
  <1>3. Len(t) # 1
    BY <1>1, <1>2 DEF Held
  <1> QED
    BY <1>2, <1>3, HeldTail

-----------------------------------------------------------------------------
(* The commands on top of the stack.                                       *)
LEMMA Fitting ==
  ASSUME NEW g, NEW c, NEW a \in Label, NEW b \in Label, Fits(g, c, a, b)
  PROVE  /\ c.op \in Ops \ {"close", "ended", "caught", "verdict"}
         /\ c.op = "take" => Taken(c.of, a, b)
         /\ c.op = "raise" => a.place = 2
         /\ c.op = "lenient" => b.place = 0 /\ b.inside = 0 /\ b.least <= a.least + a.inside
         /\ c.op = "if" => Good(g, c.yes, a, b) /\ Good(g, c.no, a, b)
         /\ c.op = "while" =>
              Above(a, b) /\ b.inside = 0 /\ Good(g, c.body, b, b) /\ Fits(g, c, b, b)
         /\ c.op = "call" => c.name \in RuleNames(g) /\ Above(Result(g, c.name, a.least), b)
         /\ c.op \in {"reset", "tally"} => Above(a, b)
         /\ c.op \in {"repeat", "units"} => Above(Anywhere(a.least), b)
         /\ c.op = "wrap" => Good(g, c.body, a, b)
         /\ c.op = "statement" =>
              c.name \in StatementRules(g) /\ a.place >= 1 /\ Above(AtLine(a.least + 1), b)
         /\ c.op = "contain" => b.least <= a.least /\ b.inside = 0 /\ Good(g, c.body, a, b)
         /\ c.op = "judge" => b.place = 2 /\ Good(g, c.body, a, b)
  <1>1. PICK T : Consistent(g, T) /\ Step(g, T, c, a, b)
    BY DEF Fits
  <1>2. \A s, x, y : Laid(T, s, x, y) => Good(g, s, x, y)
    BY <1>1 DEF Good
  <1>3. CASE c.op = "while"
    <2>1. Above(a, b) /\ b.inside = 0 /\ Laid(T, c.body, b, b)
      BY <1>1, <1>3 DEF Step
    <2>2. Step(g, T, c, b, b)
      BY <2>1, <1>3, LabelFacts DEF Step
    <2>3. Fits(g, c, b, b)
      BY <2>2, <1>1 DEF Fits
    <2> QED
      BY <2>1, <2>3, <1>2, <1>3 DEF Ops
  <1>4. CASE c.op # "while"
    BY <1>1, <1>2, <1>4 DEF Step, Ops
  <1> QED
    BY <1>3, <1>4

(* A body that is repeated any number of times.                            *)
LEMMA CopiesGood ==
  ASSUME NEW g, NEW c, NEW a \in Label, NEW b \in Label, Fits(g, c, a, b),
         c.op \in {"repeat", "units"}, NEW n \in Nat
  PROVE  Good(g, Copies(n, c.body), Anywhere(a.least), Anywhere(a.least))
  <1>1. PICK T : Consistent(g, T) /\ Step(g, T, c, a, b)
    BY DEF Fits
  <1> DEFINE A == Anywhere(a.least)
             s == Copies(n, c.body)
             m == n * Len(c.body)
             lab == [i \in 1..(m + 1) |-> A]
  <1>2. IsSeq(c.body) /\ \A i \in 1..Len(c.body) : Does(T, c.body[i], A, A)
    BY <1>1 DEF Step
  <1>3. A \in Label /\ Above(A, A)
    <2>1. a.least \in Nat
      BY DEF Label
    <2> QED
      BY <2>1, LabelFacts
  <1>4. Len(c.body) \in Nat
    BY <1>2, SeqFacts
  <1> HIDE DEF A
  <1>5. m \in Nat
    BY <1>4
  <1>6. ASSUME NEW i \in 1..m
        PROVE  ((i - 1) % Len(c.body)) + 1 \in 1..Len(c.body)
    <2>1. Len(c.body) # 0
      <3>1. CASE Len(c.body) = 0
        <4>1. m = 0
          BY <3>1
        <4> HIDE DEF m
        <4> QED
          BY <4>1
      <3> QED
        BY <3>1
    <2>2. i - 1 \in Nat
      OBVIOUS
    <2> HIDE DEF m
    <2>3. \A x \in Nat, y \in Nat \ {0} : (x % y) + 1 \in 1..y
      OBVIOUS
    <2> QED
      BY <2>1, <2>2, <2>3, <1>4
  <1> HIDE DEF m
  <1>7. s = [i \in 1..m |-> c.body[((i - 1) % Len(c.body)) + 1]]
    BY DEF Copies, m
  <1> HIDE DEF s
  <1>8. IsSeq(s) /\ Len(s) = m
    <2> DEFINE S == {c.body[j] : j \in 1..Len(c.body)}
    <2>1. \A i \in 1..m : c.body[((i - 1) % Len(c.body)) + 1] \in S
      BY <1>6
    <2> HIDE DEF S
    <2>2. s \in [1..m -> S]
      BY <1>7, <2>1
    <2>3. s \in Seq(S)
      BY <1>5, <2>2
    <2>4. Len(s) = m
      BY <1>5, <1>7
    <2> QED
      BY <2>3, <2>4 DEF IsSeq
  <1>9. lab \in [1..(Len(s) + 1) -> Label]
    BY <1>3, <1>8
  <1>10. Above(A, lab[1]) /\ Above(lab[Len(s) + 1], A)
    BY <1>3, <1>5, <1>8
  <1>11. \A i \in 1..Len(s) : Does(T, s[i], lab[i], lab[i + 1])
    <2>1. ASSUME NEW i \in 1..m
          PROVE  Does(T, s[i], lab[i], lab[i + 1])
      <3>1. lab[i] = A /\ lab[i + 1] = A
        BY <1>5
      <3>2. s[i] = c.body[((i - 1) % Len(c.body)) + 1]
        BY <1>7
      <3> HIDE DEF lab
      <3> QED
        BY <3>1, <3>2, <1>2, <1>6
    <2> QED
      BY <2>1, <1>8
  <1>12. Laid(T, s, A, A)
    <2> HIDE DEF lab
    <2> QED
      BY <1>8, <1>9, <1>10, <1>11 DEF Laid
  <1>13. Good(g, s, A, A)
    BY <1>1, <1>12 DEF Good
  <1> QED
    BY <1>13 DEF s, A

Stack(t, p, s) ==
  /\ p \in 1..Len(t.toks)
  /\ \E a \in Label : Holds(t, p, a) /\ Runs(t.lang, p, s, a)
  /\ Based(s)

(* The command on top: what holds before it, and that the rest of the      *)
(* stack runs from what it leads to.                                       *)
LEMMA TopOf ==
  ASSUME text \in Texts, Stack(text, pos, todo), Busy
  PROVE  /\ pos \in 1..End /\ pos \in Nat
         /\ IsSeq(todo) /\ IsSeq(Rest) /\ todo = <<Top>> \o Rest
         /\ \E a \in Label, b \in Label :
              /\ Holds(text, pos, a)
              /\ Fits(text.lang, Top, a, b) \/ Mark(pos, Top, a, b)
              /\ Runs(text.lang, pos, Rest, b)
  <1>1. pos \in 1..End /\ pos \in Nat
    BY TextFacts DEF Stack
  <1>2. PICK a \in Label, d \in Label : Holds(text, pos, a) /\ Chain(text.lang, pos, todo, a, d)
    BY DEF Stack, Runs
  <1>3. /\ IsSeq(todo) /\ todo = <<Top>> \o Rest
        /\ \E c \in Label : Frame(text.lang, pos, Top, a, c) /\ Chain(text.lang, pos, Rest, c, d)
    BY <1>1, <1>2, ChainTail DEF Busy, Top, Rest
  <1>4. PICK c \in Label : Frame(text.lang, pos, Top, a, c) /\ Chain(text.lang, pos, Rest, c, d)
    BY <1>3
  <1>5. IsSeq(Rest) /\ Runs(text.lang, pos, Rest, c)
    BY <1>4 DEF Chain, Runs
  <1>6. CASE Fit(text.lang, Top, a, c)
    <2>1. PICK x \in Label, y \in Label :
            Above(a, x) /\ Fits(text.lang, Top, x, y) /\ Above(y, c)
      BY <1>6 DEF Fit
    <2>2. Holds(text, pos, x)
      BY <2>1, <1>1, <1>2, HoldsWeaker
    <2>3. Runs(text.lang, pos, Rest, y)
      BY <2>1, <1>1, <1>5, RunsWeaker
    <2> QED
      BY <2>1, <2>2, <2>3, <1>1, <1>3, <1>5
  <1>7. CASE Mark(pos, Top, a, c)
    BY <1>1, <1>2, <1>3, <1>5, <1>7
  <1> QED
    BY <1>4, <1>6, <1>7 DEF Frame

(* The stack behind a command that has come to its end, and behind one     *)
(* that is replaced.                                                       *)
LEMMA Onward ==
  ASSUME text \in Texts, Stack(text, pos, todo), Busy,
         Top.op \notin {"while", "contain", "caught"},
         NEW q \in pos..End, NEW a \in Label, Holds(text, q, a)
  PROVE  /\ Runs(text.lang, q, Rest, a) => Stack(text, q, Rest)
         /\ \A s : IsSeq(s) /\ Runs(text.lang, q, s \o Rest, a) => Stack(text, q, s \o Rest)
  <1>1. pos \in 1..End /\ IsSeq(Rest) /\ todo = <<Top>> \o Rest
    BY TopOf
  <1>2. Based(<<Top>> \o Rest)
    BY <1>1 DEF Stack
  <1>3. Held(Rest)
    BY <1>1, <1>2, BasedTop
  <1>4. \A s : IsSeq(s) => Held(s \o Rest)
    BY <1>1, <1>3, HeldConcat
  <1>5. q \in 1..Len(text.toks)
    BY <1>1, TextFacts
  <1> QED
    BY <1>3, <1>4, <1>5 DEF Stack, Based

(* A failure.                                                              *)
LEMMA FirstFacts ==
  ASSUME NEW S \in SUBSET Nat, S # {}
  PROVE  First(S) \in S /\ \A i \in S : First(S) <= i
  <1>1. \E i \in S : \A j \in S : i <= j
    BY LeastExists
  <1> QED
    BY <1>1 DEF First

(* A verdict that is turned changes nothing but what it says.              *)
LEMMA Condemned ==
  ASSUME NEW g, NEW p \in Nat, NEW s, NEW a \in Label, Runs(g, p, s, a)
  PROVE  /\ Runs(g, p, Condemn(s), a)
         /\ IsSeq(s) /\ Len(Condemn(s)) = Len(s)
         /\ \A i \in 1..Len(s) : s[i].op # "verdict" => Condemn(s)[i] = s[i]
  <1>1. PICK b \in Label : Chain(g, p, s, a, b)
    BY DEF Runs
  <1>2. PICK S : s \in Seq(S)
    BY <1>1 DEF Chain, IsSeq
  <1>3. Len(s) \in Nat /\ DOMAIN s = 1..Len(s) /\ IsSeq(s)
    BY <1>2, LenProperties DEF IsSeq
  <1>4. CASE Indexes(s, {"verdict"}) = {}
    BY <1>3, <1>4 DEF Condemn
  <1>5. CASE Indexes(s, {"verdict"}) # {}
    <2> DEFINE k == First(Indexes(s, {"verdict"}))
               r == [s EXCEPT ![k].ok = FALSE]
    <2>1. Indexes(s, {"verdict"}) \in SUBSET Nat
      BY <1>3 DEF Indexes
    <2>2. k \in Indexes(s, {"verdict"})
      BY <2>1, <1>5, FirstFacts
    <2>3. k \in 1..Len(s) /\ s[k].op = "verdict"
      BY <2>2, <1>3 DEF Indexes
    <2>4. Condemn(s) = r
      BY <1>5 DEF Condemn
    <2> HIDE DEF k
    <2>5. r = [s EXCEPT ![k] = [s[k] EXCEPT !.ok = FALSE]]
      BY <1>3, <2>3
    <2> DEFINE v == [s[k] EXCEPT !.ok = FALSE]
    <2>6. r = [i \in 1..Len(s) |-> IF i = k THEN v ELSE s[i]]
      <3> HIDE DEF r
      <3> QED
        BY <2>5, <1>3
    <2> HIDE DEF r
    <2>7. r[k] = v /\ \A i \in 1..Len(s) : i # k => r[i] = s[i]
      BY <2>3, <2>6
    <2>8. IsSeq(r) /\ Len(r) = Len(s)
      <3>1. r \in Seq(S \cup {v})
        <4>1. \A i \in 1..Len(s) : s[i] \in S
          BY <1>2
        <4>2. r \in [1..Len(s) -> S \cup {v}]
          <5> HIDE DEF v
          <5> QED
            BY <4>1, <2>6
        <4> QED
          BY <4>2, <1>3
      <3>2. Len(r) = Len(s)
        BY <2>6, <1>3
      <3> QED
        BY <3>1, <3>2 DEF IsSeq
    <2>9. PICK lab \in [1..(Len(s) + 1) -> Label] :
               /\ Above(a, lab[1])
               /\ Above(lab[Len(s) + 1], b)
               /\ \A i \in 1..Len(s) : Frame(g, p, s[i], lab[i], lab[i + 1])
      BY <1>1 DEF Chain
    <2>10. Frame(g, p, v, lab[k], lab[k + 1])
      <3>1. Frame(g, p, s[k], lab[k], lab[k + 1])
        BY <2>3, <2>9
      <3>2. ~Fit(g, s[k], lab[k], lab[k + 1])
        BY <2>3, Fitting DEF Fit
      <3>3. Mark(p, s[k], lab[k], lab[k + 1])
        BY <3>1, <3>2 DEF Frame
      <3>4. "op" \in DOMAIN s[k] /\ lab[k].place = 2 /\ Above(lab[k], lab[k + 1])
        BY <3>3, <2>3 DEF Mark
      <3>5. v.op = "verdict" /\ "op" \in DOMAIN v
        BY <3>4, <2>3
      <3> HIDE DEF v
      <3> QED
        BY <3>4, <3>5 DEF Frame, Mark
    <2>11. \A i \in 1..Len(r) : Frame(g, p, r[i], lab[i], lab[i + 1])
      <3> HIDE DEF v
      <3> QED
        BY <2>7, <2>8, <2>9, <2>10
    <2>12. Chain(g, p, r, a, b)
      BY <2>8, <2>9, <2>11 DEF Chain
    <2> HIDE DEF v
    <2>13. \A i \in 1..Len(s) : s[i].op # "verdict" => r[i] = s[i]
      BY <2>3, <2>7
    <2> QED
      BY <2>4, <2>8, <2>12, <2>13, <1>3 DEF Runs
  <1> QED
    BY <1>4, <1>5

(* A failure that has left the position behind a line leaves a stack that  *)
(* runs from there: there is always a mark that stops it, and below a mark *)
(* little is asked of the position.                                        *)
LEMMA Unwound ==
  ASSUME text \in Texts, Stack(text, pos, todo), Held(todo),
         NEW q \in pos..End, AtALine(text, q), NEW p, Unwind(p)
  PROVE  Stack(text, q, todo')
  <1> DEFINE k == First(Indexes(todo, {"caught"}))
             below == SubSeq(todo, k + 1, Len(todo))
             n == Len(todo)
  <1>1. PICK a \in Label, b \in Label : Holds(text, pos, a) /\ Chain(text.lang, pos, todo, a, b)
    BY DEF Stack, Runs
  <1>2. PICK S : todo \in Seq(S)
    BY <1>1 DEF Chain, IsSeq
  <1>3. /\ n \in Nat /\ DOMAIN todo = 1..n
        /\ pos \in 1..End /\ pos \in Nat /\ q \in 1..End /\ q \in Nat /\ pos <= q
        /\ End = Len(text.toks)
    BY <1>2, LenProperties, TextFacts DEF Stack
  <1>4. n >= 2 /\ Outermost(todo[n]) /\ todo[n - 1].op = "caught"
    BY DEF Held
  <1>5. k \in 1..(n - 1) /\ todo[k].op = "caught"
    <2>1. Indexes(todo, {"caught"}) \in SUBSET Nat /\ n - 1 \in Indexes(todo, {"caught"})
      BY <1>3, <1>4 DEF Indexes
    <2>2. k \in Indexes(todo, {"caught"}) /\ k <= n - 1
      BY <2>1, FirstFacts
    <2>3. k \in 1..n /\ todo[k].op = "caught"
      BY <2>2, <1>3 DEF Indexes
    <2> QED
      BY <2>2, <2>3, <1>3
  <1>6. todo' = IF todo[k].judged THEN Condemn(below) ELSE below
    BY DEF Unwind
  <1> HIDE DEF k
  <1>7. PICK c \in Label : /\ c.least <= pos /\ c.inside = 0
                           /\ Chain(text.lang, pos, below, c, b)
    <2>1. k \in 1..Len(todo)
      BY <1>3, <1>5
    <2> QED
      BY <2>1, <1>1, <1>3, <1>5, ChainBelow
  <1>8. Holds(text, q, c)
    BY <1>3, <1>7 DEF Holds, Ready, Label
  <1>9. Runs(text.lang, pos, below, c) /\ Runs(text.lang, q, below, c)
    <2>1. Runs(text.lang, pos, below, c)
      BY <1>7 DEF Runs
    <2> HIDE DEF below
    <2> QED
      BY <2>1, <1>3, RunsLater
  <1>10. /\ IsSeq(below) /\ Len(below) = n - k
         /\ \A i \in 1..(n - k) : below[i] = todo[k + i]
    <2>1. k + 1 \in 1..(n + 1) /\ n \in (k + 1 - 1)..n
      BY <1>3, <1>5
    <2>2. below \in Seq(S)
      BY <1>2, <1>3, <2>1, SubSeqProperties
    <2>3. Len(below) = n - k
      BY <1>2, <1>3, <1>5, <2>1, SubSeqProperties
    <2>4. \A i \in 1..(n - k) : below[i] = todo[k + i]
      BY <1>2, <1>3, <1>5, <2>1, <2>3, SubSeqProperties
    <2> QED
      BY <2>2, <2>3, <2>4 DEF IsSeq
  <1> HIDE DEF below, n
  (* What is left is the loop of the file, or ends with the mark and it.   *)
  <1>11. ASSUME NEW s, Len(s) = n - k, s[n - k] = todo[n],
                n - k >= 2 => s[n - k - 1] = todo[n - 1]
         PROVE  Based(s)
    <2>1. CASE k = n - 1
      <3>1. n - k = 1
        BY <2>1, <1>3, <1>5
      <3> QED
        BY <3>1, <1>4, <1>11 DEF Based
    <2>2. CASE k # n - 1
      <3>1. n - k >= 2
        BY <2>2, <1>3, <1>5
      <3> QED
        BY <3>1, <1>4, <1>11 DEF Based, Held
    <2> QED
      BY <2>1, <2>2
  <1>12. /\ below[n - k] = todo[n]
         /\ n - k >= 2 => below[n - k - 1] = todo[n - 1]
    <2>1. n - k \in 1..(n - k) /\ k + (n - k) = n
      BY <1>3, <1>5
    <2>2. n - k >= 2 => n - k - 1 \in 1..(n - k) /\ k + (n - k - 1) = n - 1
      BY <1>3, <1>5
    <2> QED
      BY <2>1, <2>2, <1>10
  <1>13. Stack(text, q, below)
    BY <1>3, <1>8, <1>9, <1>10, <1>11, <1>12 DEF Stack
  <1>14. Stack(text, q, Condemn(below))
    <2>1. Runs(text.lang, q, Condemn(below), c)
      BY <1>3, <1>9, Condemned
    <2>2. /\ Len(Condemn(below)) = n - k
          /\ \A i \in 1..(n - k) : below[i].op # "verdict" => Condemn(below)[i] = below[i]
      BY ZenonT(40), <1>3, <1>9, <1>10, Condemned
    <2>3. n - k \in 1..(n - k) /\ (n - k >= 2 => n - k - 1 \in 1..(n - k))
      BY <1>3, <1>5
    <2>4. todo[n].op # "verdict" /\ todo[n - 1].op # "verdict"
      BY <1>4 DEF Outermost
    <2>5. /\ Condemn(below)[n - k] = todo[n]
          /\ n - k >= 2 => Condemn(below)[n - k - 1] = todo[n - 1]
      BY <2>2, <2>3, <2>4, <1>12
    <2>6. Based(Condemn(below))
      BY <2>2, <2>5, <1>11
    <2> QED
      BY <2>1, <2>6, <1>3, <1>8 DEF Stack
  <1> QED
    BY <1>6, <1>13, <1>14

(* error() and the failure it begins.                                      *)
LEMMA Failing ==
  ASSUME text \in Texts, Stack(text, pos, todo), Held(todo), Fail
  PROVE  pos' \in 1..End /\ Stack(text, pos', todo') /\ Unwind(pos)
  <1>1. pos \in 1..End /\ pos' = AfterError(pos)
    BY TextFacts DEF Stack, Fail
  <1>2. AfterError(pos) \in pos..End /\ AtALine(text, AfterError(pos))
    BY <1>1, TextFacts, AfterErrorFacts
  <1>3. Unwind(pos)
    BY DEF Fail
  <1>4. \A q \in pos..End : AtALine(text, q) => Stack(text, q, todo')
    BY <1>3, Unwound
  <1> QED
    BY <1>1, <1>2, <1>3, <1>4, TextFacts

(* The production called does what its name promises.                      *)
LEMMA ArmGood ==
  ASSUME text \in Texts, pos \in 1..End, NEW name \in RuleNames(text.lang), NEW n \in Nat, n <= pos
  PROVE  \E a \in Label :
           Holds(text, pos, a) /\ Good(text.lang, ArmOf(name), a, Result(text.lang, name, n))
  <1> DEFINE arms == Rules[name]
             I == {i \in DOMAIN arms : Passes(arms[i].test)}
             k == First(I)
  <1>1. RuleHolds(text.lang, arms, name)
    <2>1. CASE text.lang = "spice"
      BY <2>1, SpiceRulesHold DEF Rules
    <2>2. CASE text.lang = "spectre"
      BY <2>2, SpectreRulesHold DEF Rules
    <2> QED
      BY <2>1, <2>2, TextFacts
  <1>2. ArmOf(name) = arms[k].do
    BY DEF ArmOf
  <1> HIDE DEF arms
  <1>3. k \in DOMAIN arms /\ Passes(arms[k].test)
    <2>1. PICK i \in DOMAIN arms : arms[i].test = << >>
      BY <1>1 DEF RuleHolds
    <2>2. Passes(<< >>)
      BY DEF Passes
    <2>3. I \in SUBSET Nat /\ i \in I
      BY <2>1, <2>2, <1>1 DEF RuleHolds
    <2>4. k \in I
      BY <2>3, FirstFacts
    <2> QED
      BY <2>4
  <1> HIDE DEF k
  <1>4. ArmHolds(text.lang, arms[k], name)
    BY <1>1, <1>3 DEF RuleHolds
  <1>5. Anywhere(n) \in Label /\ Inside(n) \in Label /\ Holds(text, pos, Anywhere(n))
    <2>1. /\ Anywhere(n) \in Label /\ Inside(n) \in Label
          /\ Anywhere(n).least = n /\ Anywhere(n).place = 0 /\ Anywhere(n).inside = 0
      BY LabelFacts
    <2> QED
      BY <2>1 DEF Holds
  <1>6. CASE /\ Fenced(arms[k].test)
             /\ Good(text.lang, arms[k].do, Inside(n), Result(text.lang, name, n))
    <2>1. PICK j \in DOMAIN arms[k].test :
            /\ arms[k].test[j].ahead = 0 /\ arms[k].test[j].is = TRUE
            /\ "ENDMARKER" \notin arms[k].test[j].of
      BY <1>6 DEF Fenced
    <2>2. IsIn(pos, arms[k].test[j].of)
      BY <2>1, <1>3 DEF Passes
    <2>3. pos # End
      BY <2>1, <2>2, EndTaken
    <2>4. Holds(text, pos, Inside(n))
      BY <2>3, TextFacts DEF Holds, Inside
    <2> QED
      BY <2>4, <1>2, <1>5, <1>6
  <1> QED
    BY <1>2, <1>4, <1>5, <1>6 DEF ArmHolds

-----------------------------------------------------------------------------
(* The invariant.  What is recorded of a text t: where statements began,   *)
(* the statements that succeeded and the failures that were dropped.       *)
Recorded(t, b, d, s) ==
  /\ IsSeq(b)
  /\ \A i \in 1..Len(b) : b[i].at \in 1..Len(t.toks) /\ Ready(t, b[i].at)
  /\ \A p \in d : p.from < p.to /\ p.to <= Len(t.toks)
  /\ s \subseteq 1..Len(t.toks)

Inv ==
  /\ text \in Texts
  /\ Stack(text, pos, todo)
  /\ n_rows \in Nat
  /\ Recorded(text, begun, parsed, slips)

(* The loop of parse_toplevel over a whole text.                           *)
LEMMA InitInv == Init => Inv
  <1> SUFFICES ASSUME Init PROVE Inv
    OBVIOUS
  <1>1. text \in Texts /\ pos = 1 /\ 1 \in 1..Len(text.toks)
    BY TextFacts DEF Init
  <1>2. AtLine(0) \in Label /\ Holds(text, 1, AtLine(0))
    <2>1. /\ AtLine(0) \in Label
          /\ AtLine(0).least = 0 /\ AtLine(0).place = 2 /\ AtLine(0).inside = 0
      BY LabelFacts
    <2>2. AtALine(text, 1) /\ Ready(text, 1)
      BY DEF AtALine, Ready, StartsLine
    <2> QED
      BY <2>1, <2>2 DEF Holds
  <1>3. KeepsLine(text.lang, todo) /\ Based(todo)
    <2>1. CASE text.lang = "spice"
      <3>1. todo = Spice!parse_toplevel
        BY <2>1 DEF Init
      <3>2. KeepsLine("spice", Spice!parse_toplevel)
        BY SpiceNames, SpiceBegins, SpiceContainers, SpiceLoops
           DEF Spice!parse_toplevel, Spice!Contain
      <3>3. Based(Spice!parse_toplevel)
        BY DEF Based, Outermost, Spice!parse_toplevel, Spice!While, Spice!Contain, Spice!Contained
      <3> QED
        BY <2>1, <3>1, <3>2, <3>3
    <2>2. CASE text.lang = "spectre"
      <3>1. todo = Spectre!parse_toplevel
        BY <2>2 DEF Init
      <3>2. KeepsLine("spectre", Spectre!parse_toplevel)
        BY SpectreNames, SpectreBegins, SpectreContainers, SpectreLoops
           DEF Spectre!parse_toplevel, Spectre!Contain
      <3>3. Based(Spectre!parse_toplevel)
        BY DEF Based, Outermost, Spectre!parse_toplevel, Spectre!While, Spectre!Contain,
               Spectre!Contained
      <3> QED
        BY <2>2, <3>1, <3>2, <3>3
    <2> QED
      BY <1>1, <2>1, <2>2, TextFacts
  <1>4. Runs(text.lang, 1, todo, AtLine(0))
    <2>1. Good(text.lang, todo, AtLine(0), AtLine(0))
      BY <1>3 DEF KeepsLine
    <2> QED
      BY <2>1, <1>2, GoodChains DEF Runs
  <1>5. Stack(text, pos, todo)
    BY <1>1, <1>2, <1>3, <1>4 DEF Stack
  <1>6. Recorded(text, begun, parsed, slips)
    BY SeqFacts DEF Init, Recorded
  <1> QED
    BY <1>1, <1>5, <1>6 DEF Init, Inv

(* A command that is replaced by a production.                             *)
LEMMA Pushed ==
  ASSUME text \in Texts, Stack(text, pos, todo), Busy,
         Top.op \notin {"while", "contain", "caught"},
         NEW s, NEW a \in Label, NEW b \in Label,
         Holds(text, pos, a), Good(text.lang, s, a, b), Runs(text.lang, pos, Rest, b)
  PROVE  Stack(text, pos, s \o Rest)
  <1>1. pos \in Nat /\ pos \in pos..End
    BY TopOf, TextFacts
  <1>2. IsSeq(s)
    BY GoodLabels
  <1>3. Runs(text.lang, pos, s \o Rest, a)
    BY <1>1, RunsBefore
  <1> QED
    BY <1>1, <1>2, <1>3, Onward

(* A command that is replaced by a production and the mark behind it.      *)
LEMMA PushedMarked ==
  ASSUME text \in Texts, Stack(text, pos, todo), Busy,
         Top.op \notin {"while", "contain", "caught"},
         NEW s, NEW c, NEW a \in Label, NEW b \in Label, NEW d \in Label,
         Holds(text, pos, a), Good(text.lang, s, a, b), Mark(pos, c, b, d),
         Runs(text.lang, pos, Rest, d)
  PROVE  Stack(text, pos, s \o <<c>> \o Rest)
  <1>1. pos \in Nat /\ pos \in pos..End
    BY TopOf, TextFacts
  <1>2. IsSeq(s \o <<c>>)
    BY GoodLabels, SeqFacts
  <1>3. Runs(text.lang, pos, s \o <<c>> \o Rest, a)
    BY <1>1, RunsMarked
  <1> QED
    BY <1>1, <1>2, <1>3, Onward

(* The loops, and the bodies whose failures stop.                          *)
LEMMA BasedLoop ==
  ASSUME NEW c, NEW t, IsSeq(t), Based(<<c>> \o t), c.op = "while"
  PROVE  /\ Based(t)
         /\ IsSeq(c.body) => Based(c.body \o (<<c>> \o t))
  <1> DEFINE s == <<c>> \o t
  <1>1. /\ Len(t) \in Nat /\ IsSeq(s) /\ Len(s) = 1 + Len(t) /\ s[1] = c
        /\ Len(<< >>) = 0
    BY SeqFacts
  <1> HIDE DEF s
  <1>2. CASE Len(s) = 1 /\ Outermost(c)
    <2>1. t = << >>
      BY <1>1, <1>2, EmptySeq DEF IsSeq
    <2>2. ASSUME IsSeq(c.body)
          PROVE  Based(c.body \o s)
      <3>1. Len(c.body) = 1 /\ c.body[1].op = "contain"
        BY <1>2 DEF Outermost
      <3>2. /\ Len(c.body \o s) = 2 /\ (c.body \o s)[1] = c.body[1]
            /\ (c.body \o s)[2] = s[1]
        <4>1. 1 \in 1..Len(c.body) /\ 1 \in 1..Len(s) /\ Len(c.body) + 1 = 2
          BY <3>1, <1>2
        <4>2. (c.body \o s)[1] = c.body[1]
          BY <4>1, <2>2, <1>1, SeqFacts
        <4>3. (c.body \o s)[Len(c.body) + 1] = s[1]
          BY <4>1, <2>2, <1>1, SeqFacts
        <4>4. Len(c.body \o s) = Len(c.body) + Len(s)
          BY <2>2, <1>1, SeqFacts
        <4> QED
          BY <4>1, <4>2, <4>3, <4>4, <3>1, <1>2
      <3> QED
        BY <3>1, <3>2, <1>1, <1>2 DEF Based
    <2> QED
      BY <2>1, <2>2 DEF Based, s
  <1>3. CASE Held(s)
    <2>1. Len(t) # 1
      <3>1. Len(t) = 1 => Len(s) - 1 = 1
        BY <1>1
      <3> QED
        BY <3>1, <1>1, <1>3 DEF Held
    <2>2. Held(t)
      BY <2>1, <1>3, HeldTail DEF s
    <2>3. IsSeq(c.body) => Held(c.body \o s)
      BY <1>1, <1>3, HeldConcat
    <2> QED
      BY <2>2, <2>3 DEF Based, s
  <1>4. Based(s) /\ s # << >>
    BY <1>1 DEF s
  <1>5. (Len(s) = 1 /\ Outermost(c)) \/ Held(s)
    BY <1>1, <1>4 DEF Based
  <1> QED
    BY <1>2, <1>3, <1>5

(* The body of a container, and the mark that stops its failures.          *)
LEMMA BasedContained ==
  ASSUME NEW c, NEW t, IsSeq(t), Based(<<c>> \o t), c.op = "contain", NEW s, IsSeq(s),
         NEW d, d.op = "caught"
  PROVE  Based(s \o <<d>> \o t)
  <1> DEFINE r == s \o <<d>>
             u == <<c>> \o t
  <1>1. /\ Len(t) \in Nat /\ Len(s) \in Nat /\ IsSeq(u) /\ Len(u) = 1 + Len(t) /\ u[1] = c
        /\ \A i \in 1..Len(t) : u[1 + i] = t[i]
        /\ IsSeq(r) /\ Len(r) = Len(s) + 1 /\ r[Len(s) + 1] = d
        /\ Len(r \o t) = Len(r) + Len(t)
    <2>1. 1 \in 1..Len(<<d>>)
      BY SeqFacts
    <2> QED
      BY <2>1, SeqFacts
  <1> HIDE DEF u, r
  <1>2. CASE Len(u) = 2 /\ Outermost(u[2])
    <2>1. Len(t) = 1 /\ u[1 + 1] = t[1]
      <3>1. Len(t) \in Nat /\ 1 + Len(t) = 2
        BY <1>1, <1>2
      <3>2. Len(t) = 1 /\ 1 \in 1..Len(t)
        <4>1. \A n \in Nat : 1 + n = 2 => n = 1 /\ 1 \in 1..n
          OBVIOUS
        <4> QED
          BY <3>1, <4>1
      <3> QED
        BY <3>2, <1>1
    <2>2. Outermost(t[1])
      BY <2>1, <1>2
    <2>3. (r \o t)[Len(r) + 1] = t[1]
      <3>1. 1 \in 1..Len(t)
        BY <2>1
      <3> QED
        BY <3>1, <1>1, SeqFacts
    <2>4. (r \o t)[Len(r)] = d
      <3>1. Len(r) \in 1..Len(r)
        BY <1>1
      <3> QED
        BY <3>1, <1>1, SeqFacts
    <2>5. Len(r \o t) = Len(r) + 1 /\ Len(r \o t) >= 2 /\ Len(r \o t) - 1 = Len(r)
      BY <2>1, <1>1
    <2>6. Held(r \o t)
      BY <2>2, <2>3, <2>4, <2>5 DEF Held
    <2> QED
      BY <2>6 DEF Based, r
  <1>3. CASE Held(u)
    <2>1. Len(t) # 1
      <3>1. Len(t) = 1 => Len(u) - 1 = 1
        BY <1>1
      <3> QED
        BY <3>1, <1>1, <1>3 DEF Held
    <2>2. Held(t)
      BY <2>1, <1>3, HeldTail DEF u
    <2>3. Held(r \o t)
      BY <2>2, <1>1, HeldConcat
    <2> QED
      BY <2>3 DEF Based, r
  <1>4. Based(u) /\ u # << >>
    <2>1. Len(u) # Len(<< >>)
      BY <1>1, SeqFacts
    <2> QED
      BY <2>1 DEF u
  <1>5. (Len(u) = 2 /\ Outermost(u[2])) \/ Held(u)
    BY <1>1, <1>4 DEF Based, Outermost
  <1> QED
    BY <1>2, <1>3, <1>5

(* A container that has come to its end.                                   *)
LEMMA BasedCaught ==
  ASSUME NEW c, NEW t, IsSeq(t), Based(<<c>> \o t), c.op = "caught"
  PROVE  Based(t)
  <1> DEFINE u == <<c>> \o t
  <1>1. /\ Len(t) \in Nat /\ IsSeq(u) /\ Len(u) = 1 + Len(t) /\ u[1] = c
        /\ \A i \in 1..Len(t) : u[1 + i] = t[i]
    BY SeqFacts
  <1>2. Len(u) # Len(<< >>)
    BY <1>1, SeqFacts
  <1> HIDE DEF u
  <1>3. Based(u) /\ u # << >>
    BY <1>2 DEF u
  <1>4. Held(u)
    BY <1>1, <1>3 DEF Based, Outermost
  <1>5. CASE Len(t) = 1
    <2>1. 1 \in 1..Len(t) /\ 1 + 1 = Len(u)
      BY <1>1, <1>5
    <2>2. Outermost(t[1])
      BY <2>1, <1>1, <1>4 DEF Held
    <2> QED
      BY <2>2, <1>5 DEF Based
  <1>6. CASE Len(t) # 1
    <2>1. Held(t)
      BY <1>4, <1>6, HeldTail DEF u
    <2> QED
      BY <2>1 DEF Based
  <1> QED
    BY <1>5, <1>6

(* A failure is recorded where it was dropped, and nothing else is.        *)
LEMMA FailureKeeps ==
  ASSUME Inv, NEW q \in 1..End, NEW p, p \in 1..End, Unwind(p), pos' = q, Stack(text, q, todo')
  PROVE  Inv'
  <1>1. /\ text' = text /\ n_rows' = n_rows /\ begun' = begun /\ parsed' = parsed
        /\ slips' = slips \/ slips' = slips \cup {p}
    BY DEF Unwind
  <1>2. Stack(text', pos', todo')
    BY <1>1
  <1>3. Recorded(text', begun', parsed', slips')
    <2>1. p \in 1..Len(text.toks)
      BY DEF End
    <2>2. Recorded(text, begun, parsed, slips) => Recorded(text, begun, parsed, slips \cup {p})
      BY <2>1 DEF Recorded
    <2> QED
      BY <2>2, <1>1 DEF Inv
  <1> QED
    BY <1>1, <1>2, <1>3 DEF Inv

(* Tokens: taken, or wrong.                                                *)
LEMMA TokenStep ==
  ASSUME Inv, Take \/ WrongToken \/ Error \/ Raise \/ LenientIdentifier
  PROVE  Inv'
  <1>1. text \in Texts /\ Stack(text, pos, todo) /\ Busy
    BY DEF Inv, Take, WrongToken, Error, Raise, LenientIdentifier, Doing
  <1>2. /\ pos \in 1..End /\ pos \in Nat /\ IsSeq(Rest) /\ todo = <<Top>> \o Rest
        /\ End \in Nat /\ End = Len(text.toks)
    BY <1>1, TopOf, TextFacts
  <1>3. PICK a \in Label, b \in Label :
          /\ Holds(text, pos, a)
          /\ Fits(text.lang, Top, a, b) \/ Mark(pos, Top, a, b)
          /\ Runs(text.lang, pos, Rest, b)
    BY <1>1, TopOf
  <1>4. Top.op \in {"take", "error", "raise", "lenient"}
    BY DEF Take, WrongToken, Error, Raise, LenientIdentifier, Doing
  <1>5. Fits(text.lang, Top, a, b)
    BY <1>3, <1>4 DEF Mark
  <1>6. Held(todo)
    BY <1>1, <1>2, <1>4, BasedTop DEF Stack
  <1>7. CASE Fail
    <2>1. pos' \in 1..End /\ Stack(text, pos', todo') /\ Unwind(pos)
      BY <1>1, <1>6, <1>7, Failing
    <2> QED
      BY <2>1, <1>2, FailureKeeps
  <1>8. CASE Take
    <2>1. Beyond(pos) \in pos..End
      BY <1>1, <1>2, BeyondFacts
    <2>2. Holds(text, Beyond(pos), b)
      BY <1>1, <1>2, <1>3, <1>5, <1>8, Fitting, TakingHolds DEF Take, Doing
    <2>3. Runs(text.lang, Beyond(pos), Rest, b)
      BY <2>1, <1>2, <1>3, RunsLater
    <2>4. Stack(text, Beyond(pos), Rest)
      BY <2>1, <2>2, <2>3, <1>1, <1>4, Onward
    <2> QED
      BY <2>4, <1>8 DEF Take, Inv
  <1>9. CASE WrongToken \/ Error
    BY <1>7, <1>9 DEF WrongToken, Error
  <1>10. CASE Raise
    <2>1. a.place = 2 /\ Unwind(pos) /\ pos' = pos
      BY <1>5, <1>10, Fitting DEF Raise, Doing
    <2>2. AtALine(text, pos) /\ pos \in pos..End
      BY <2>1, <1>2, <1>3 DEF Holds
    <2>3. Stack(text, pos, todo')
      BY <2>1, <2>2, <1>1, <1>6, Unwound
    <2> QED
      BY <2>1, <2>3, <1>2, FailureKeeps
  <1>11. CASE LenientIdentifier
    <2>1. /\ Recovered \in pos..End /\ Recovered \in Nat
          /\ pos # End => pos < Recovered
      BY <1>1, <1>2, RecoveredFacts
    <2>2. b.place = 0 /\ b.inside = 0 /\ b.least <= a.least + a.inside
      BY <1>5, <1>11, Fitting DEF LenientIdentifier, Doing
    <2>3. b.least <= Recovered
      <3>1. /\ a.least \in Nat /\ b.least \in Nat /\ a.inside \in 0..1 /\ a.least <= pos
            /\ a.inside = 1 => pos # End
        BY <1>2, <1>3 DEF Holds, Label
      <3> QED
        BY <2>1, <2>2, <3>1, <1>2
    <2>4. Holds(text, Recovered, b)
      BY <2>2, <2>3 DEF Holds
    <2>5. Runs(text.lang, Recovered, Rest, b)
      BY <2>1, <1>2, <1>3, RunsLater
    <2>6. Stack(text, Recovered, Rest)
      BY <2>1, <2>4, <2>5, <1>1, <1>4, Onward
    <2>7. Recorded(text, begun, parsed, slips')
      <3>1. slips' = slips \/ slips' = slips \cup {pos}
        BY <1>11 DEF LenientIdentifier
      <3>2. pos \in 1..Len(text.toks)
        BY <1>2
      <3> QED
        BY <3>1, <3>2 DEF Inv, Recorded
    <2> QED
      BY <2>6, <2>7, <1>11 DEF LenientIdentifier, Inv
  <1> QED
    BY <1>8, <1>9, <1>10, <1>11

(* A step that changes nothing but the stack.                              *)
LEMMA ContinueKeeps ==
  ASSUME Inv, NEW t, Stack(text, pos, t), Continue(t)
  PROVE  Inv'
  <1>1. /\ text' = text /\ pos' = pos /\ todo' = t /\ n_rows' = n_rows
        /\ begun' = begun /\ parsed' = parsed /\ slips' = slips
    BY DEF Continue
  <1>2. Stack(text', pos', todo')
    BY <1>1
  <1> QED
    BY <1>1, <1>2 DEF Inv

(* Choices, loops, calls and counts.                                       *)
LEMMA ChoiceStep ==
  ASSUME Inv, Choose \/ Iterate \/ Call \/ Reset \/ Tally \/ Repeat \/ Units
  PROVE  Inv'
  <1>1. text \in Texts /\ Stack(text, pos, todo) /\ Busy
    BY DEF Inv, Choose, Iterate, Call, Reset, Tally, Repeat, Units, Doing
  <1>2. /\ pos \in 1..End /\ pos \in Nat /\ IsSeq(Rest) /\ todo = <<Top>> \o Rest
        /\ End \in Nat /\ pos \in pos..End
    BY <1>1, TopOf, TextFacts
  <1>3. PICK a \in Label, b \in Label :
          /\ Holds(text, pos, a)
          /\ Fits(text.lang, Top, a, b) \/ Mark(pos, Top, a, b)
          /\ Runs(text.lang, pos, Rest, b)
    BY <1>1, TopOf
  <1>4. Top.op \in {"if", "while", "call", "reset", "tally", "repeat", "units"}
    BY DEF Choose, Iterate, Call, Reset, Tally, Repeat, Units, Doing
  <1>5. Fits(text.lang, Top, a, b)
    BY <1>3, <1>4 DEF Mark
  <1>6. a.least \in Nat /\ a.least <= pos
    BY <1>3 DEF Holds, Label
  <1>7. CASE Choose
    <2>1. Top.op = "if" /\ Good(text.lang, Top.yes, a, b) /\ Good(text.lang, Top.no, a, b)
      BY <1>5, <1>7, Fitting DEF Choose, Doing
    <2>2. Stack(text, pos, Top.yes \o Rest) /\ Stack(text, pos, Top.no \o Rest)
      BY <2>1, <1>1, <1>3, Pushed
    <2>3. Continue((IF Passes(Top.test) THEN Top.yes ELSE Top.no) \o Rest)
      BY <1>7 DEF Choose
    <2>4. CASE Passes(Top.test)
      BY <2>2, <2>3, <2>4, ContinueKeeps
    <2>5. CASE ~Passes(Top.test)
      BY <2>2, <2>3, <2>5, ContinueKeeps
    <2> QED
      BY <2>4, <2>5
  <1>8. CASE Iterate
    <2>1. /\ Top.op = "while" /\ Above(a, b) /\ Good(text.lang, Top.body, b, b)
          /\ Fits(text.lang, Top, b, b)
      BY <1>5, <1>8, Fitting DEF Iterate, Doing
    <2>2. Holds(text, pos, b)
      BY <2>1, <1>2, <1>3, HoldsWeaker
    <2>3. IsSeq(Top.body)
      BY <2>1, GoodLabels
    <2>4. Based(Rest) /\ Based(Top.body \o todo)
      BY <2>1, <2>3, <1>1, <1>2, BasedLoop DEF Stack
    <2>5. Runs(text.lang, pos, <<Top>> \o Rest, b)
      BY <2>1, <1>2, <1>3, GoodOne, RunsBefore
    <2>6. Runs(text.lang, pos, Top.body \o todo, b)
      BY <2>1, <2>5, <1>2, RunsBefore
    <2>7. Stack(text, pos, Rest) /\ Stack(text, pos, Top.body \o todo)
      BY <2>2, <2>4, <2>6, <1>1, <1>3 DEF Stack
    <2>8. Continue(IF GoesOn THEN Top.body \o todo ELSE Rest)
      BY <1>8 DEF Iterate
    <2>9. CASE GoesOn
      BY <2>7, <2>8, <2>9, ContinueKeeps
    <2>10. CASE ~GoesOn
      BY <2>7, <2>8, <2>10, ContinueKeeps
    <2> QED
      BY <2>9, <2>10
  <1>9. CASE Call
    <2>1. /\ Top.op = "call" /\ Top.name \in RuleNames(text.lang)
          /\ Above(Result(text.lang, Top.name, a.least), b)
      BY <1>5, <1>9, Fitting DEF Call, Doing
    <2>2. PICK x \in Label :
            /\ Holds(text, pos, x)
            /\ Good(text.lang, ArmOf(Top.name), x, Result(text.lang, Top.name, a.least))
      BY <2>1, <1>1, <1>2, <1>6, ArmGood
    <2>3. Result(text.lang, Top.name, a.least) \in Label
      BY <1>6, ResultIsLabel
    <2>4. Runs(text.lang, pos, Rest, Result(text.lang, Top.name, a.least))
      BY <2>1, <2>3, <1>2, <1>3, RunsWeaker
    <2>5. Stack(text, pos, ArmOf(Top.name) \o Rest)
      BY <2>1, <2>2, <2>3, <2>4, <1>1, Pushed
    <2> QED
      BY <2>5, <1>9, ContinueKeeps DEF Call
  <1>10. CASE Reset \/ Tally
    <2>1. Top.op \in {"reset", "tally"} /\ Above(a, b)
      BY <1>5, <1>10, Fitting DEF Reset, Tally, Doing
    <2>2. Holds(text, pos, b)
      BY <2>1, <1>2, <1>3, HoldsWeaker
    <2>3. Stack(text, pos, Rest)
      BY <2>1, <2>2, <1>1, <1>2, <1>3, Onward
    <2>4. n_rows' \in Nat
      BY <1>10 DEF Reset, Tally, Inv
    <2> QED
      BY <2>3, <2>4, <1>10 DEF Reset, Tally, Inv
  <1>11. ASSUME Top.op \in {"repeat", "units"}, NEW n \in Nat
         PROVE  Stack(text, pos, Copies(n, Top.body) \o Rest)
    <2>1. Above(Anywhere(a.least), b)
      BY <1>5, <1>11, Fitting
    <2>2. Good(text.lang, Copies(n, Top.body), Anywhere(a.least), Anywhere(a.least))
      BY <1>5, <1>11, CopiesGood
    <2>3. Anywhere(a.least) \in Label /\ Above(a, Anywhere(a.least))
      BY <1>6, LabelFacts
    <2>4. Holds(text, pos, Anywhere(a.least))
      BY <2>3, <1>2, <1>3, HoldsWeaker
    <2>5. Runs(text.lang, pos, Rest, Anywhere(a.least))
      BY <2>1, <2>3, <1>2, <1>3, RunsWeaker
    <2> QED
      BY <2>2, <2>3, <2>4, <2>5, <1>1, <1>11, Pushed
  <1>12. CASE Repeat
    <2>1. n_rows \in Nat /\ Top.op = "repeat"
      BY <1>12 DEF Inv, Repeat, Doing
    <2>2. Stack(text, pos, Copies(n_rows, Top.body) \o Rest)
      BY <2>1, <1>11
    <2> QED
      BY <2>2, <1>12, ContinueKeeps DEF Repeat
  <1>13. CASE Units
    <2>1. Top.op = "units"
      BY <1>13 DEF Units, Doing
    <2>2. CASE UnitsFrom(pos) \in 1..End
      <3>1. UnitsFrom(pos) - 1 \in Nat
        BY <2>2, <1>2
      <3>2. Stack(text, pos, Copies(UnitsFrom(pos) - 1, Top.body) \o Rest)
        BY <2>1, <3>1, <1>11
      <3>3. Continue(Copies(UnitsFrom(pos) - 1, Top.body) \o Rest)
        BY <2>2, <1>13 DEF Units
      <3> QED
        BY <3>2, <3>3, ContinueKeeps
    <2>3. CASE UnitsFrom(pos) \notin 1..End
      <3>1. Fail
        BY <2>3, <1>13 DEF Units
      <3>2. Held(todo)
        BY <2>1, <1>1, <1>2, BasedTop DEF Stack
      <3>3. pos' \in 1..End /\ Stack(text, pos', todo') /\ Unwind(pos)
        BY <1>1, <3>1, <3>2, Failing
      <3> QED
        BY <3>3, <1>2, FailureKeeps
    <2> QED
      BY <2>2, <2>3
  <1> QED
    BY <1>7, <1>8, <1>9, <1>10, <1>12, <1>13

(* Nodes, and verdicts.                                                    *)
LEMMA NodeStep ==
  ASSUME Inv, Wrap \/ Close \/ Judge \/ Acquit \/ Convict
  PROVE  Inv'
  <1>1. text \in Texts /\ Stack(text, pos, todo) /\ Busy
    BY DEF Inv, Wrap, Close, Judge, Acquit, Convict, Doing
  <1>2. /\ pos \in 1..End /\ pos \in Nat /\ IsSeq(Rest) /\ todo = <<Top>> \o Rest
        /\ End \in Nat /\ pos \in pos..End
    BY <1>1, TopOf, TextFacts
  <1>3. PICK a \in Label, b \in Label :
          /\ Holds(text, pos, a)
          /\ Fits(text.lang, Top, a, b) \/ Mark(pos, Top, a, b)
          /\ Runs(text.lang, pos, Rest, b)
    BY <1>1, TopOf
  <1>4. Top.op \in {"wrap", "close", "judge", "verdict"}
    BY DEF Wrap, Close, Judge, Acquit, Convict, Doing
  <1>5. Above(b, b)
    BY LabelFacts
  <1>6. CASE Wrap
    <2>1. Top.op = "wrap" /\ Good(text.lang, Top.body, a, b)
      BY <1>3, <1>6, Fitting DEF Wrap, Doing, Mark
    <2>2. Mark(pos, [op |-> "close", kind |-> Top.kind], b, b)
      BY <1>5 DEF Mark
    <2>3. Stack(text, pos, Top.body \o <<[op |-> "close", kind |-> Top.kind]>> \o Rest)
      BY <2>1, <2>2, <1>1, <1>3, PushedMarked
    <2> QED
      BY <2>3, <1>6, ContinueKeeps DEF Wrap
  <1>7. CASE Judge
    <2> DEFINE mark == [op |-> "verdict", kind |-> Top.kind, ok |-> TRUE]
    <2>1. Top.op = "judge" /\ b.place = 2 /\ Good(text.lang, Top.body, a, b)
      BY <1>3, <1>7, Fitting DEF Judge, Doing, Mark
    <2>2. Mark(pos, mark, b, b)
      BY <2>1, <1>5 DEF Mark
    <2>3. Continue(Top.body \o <<mark>> \o Rest)
      BY <1>7 DEF Judge
    <2> HIDE DEF mark
    <2>4. Stack(text, pos, Top.body \o <<mark>> \o Rest)
      BY <2>1, <2>2, <1>1, <1>3, PushedMarked
    <2> QED
      BY <2>3, <2>4, ContinueKeeps
  <1>8. ASSUME Top.op \in {"close", "verdict"}
        PROVE  Mark(pos, Top, a, b) /\ Stack(text, pos, Rest)
    <2>1. Mark(pos, Top, a, b)
      BY <1>3, <1>8, Fitting
    <2>2. Above(a, b)
      BY <2>1, <1>8 DEF Mark
    <2>3. Holds(text, pos, b)
      BY <2>2, <1>2, <1>3, HoldsWeaker
    <2> QED
      BY <2>1, <2>3, <1>1, <1>2, <1>3, <1>8, Onward
  <1>9. CASE Close
    BY <1>8, <1>9 DEF Close, Doing, Inv
  <1>10. CASE Acquit
    BY <1>8, <1>10, ContinueKeeps DEF Acquit, Doing
  <1>11. CASE Convict
    <2>1. Top.op = "verdict" /\ Unwind(pos) /\ pos' = pos
      BY <1>11 DEF Convict, Doing
    <2>2. a.place = 2
      BY <2>1, <1>8 DEF Mark
    <2>3. AtALine(text, pos)
      BY <2>2, <1>3 DEF Holds
    <2>4. Held(todo)
      BY <2>1, <1>1, <1>2, BasedTop DEF Stack
    <2>5. Stack(text, pos, todo')
      BY <2>1, <2>3, <2>4, <1>1, <1>2, Unwound
    <2> QED
      BY <2>1, <2>5, <1>2, FailureKeeps
  <1> QED
    BY <1>6, <1>7, <1>9, <1>10, <1>11

(* Statements, and where failures stop.                                    *)
LEMMA StatementStep ==
  ASSUME Inv, Begin \/ Succeed \/ Contain \/ Contained
  PROVE  Inv'
  <1>1. text \in Texts /\ Stack(text, pos, todo) /\ Busy
    BY DEF Inv, Begin, Succeed, Contain, Contained, Doing
  <1>2. /\ pos \in 1..End /\ pos \in Nat /\ IsSeq(Rest) /\ todo = <<Top>> \o Rest
        /\ End \in Nat /\ End = Len(text.toks) /\ pos \in pos..End
    BY <1>1, TopOf, TextFacts
  <1>3. PICK a \in Label, b \in Label :
          /\ Holds(text, pos, a)
          /\ Fits(text.lang, Top, a, b) \/ Mark(pos, Top, a, b)
          /\ Runs(text.lang, pos, Rest, b)
    BY <1>1, TopOf
  <1>4. a.least \in Nat /\ a.least <= pos /\ b.least \in Nat
    BY <1>3 DEF Holds, Label
  <1>5. CASE Begin
    <2> DEFINE ended == [op |-> "ended", from |-> pos]
    <2>1. /\ Top.op = "statement" /\ Top.name \in StatementRules(text.lang)
          /\ a.place >= 1 /\ Above(AtLine(a.least + 1), b)
      BY <1>3, <1>5, Fitting DEF Begin, Doing, Mark
    <2>2. Top.name \in RuleNames(text.lang) /\ Result(text.lang, Top.name, pos) = AtLine(pos + 1)
      BY <2>1 DEF RuleNames, Result
    <2>3. PICK x \in Label :
            Holds(text, pos, x) /\ Good(text.lang, ArmOf(Top.name), x, AtLine(pos + 1))
      BY <2>2, <1>1, <1>2, ArmGood
    <2>4. AtLine(pos + 1) \in Label /\ AtLine(pos + 1).least = pos + 1
      <3>1. pos + 1 \in Nat
        BY <1>2
      <3> QED
        BY <3>1, LabelFacts
    <2>5. Above(AtLine(pos + 1), b)
      BY <2>1, <1>2, <1>4 DEF Above, AtLine
    <2>6. Mark(pos, ended, AtLine(pos + 1), b)
      BY <2>4, <2>5, <1>2 DEF Mark
    <2>7. Stack(text, pos, ArmOf(Top.name) \o <<ended>> \o Rest)
      <3> HIDE DEF ended
      <3> QED
        BY <2>1, <2>3, <2>4, <2>6, <1>1, <1>3, PushedMarked
    <2>8. Recorded(text, begun', parsed, slips)
      <3> DEFINE new == [at |-> pos, within |-> Blocks(Rest)]
      <3>1. begun' = Append(begun, new)
        BY <1>5 DEF Begin
      <3>2. Ready(text, pos)
        BY <2>1, <1>3 DEF Holds
      <3>3. PICK S : begun \in Seq(S)
        BY DEF Inv, Recorded, IsSeq
      <3>4. new.at = pos
        OBVIOUS
      <3> HIDE DEF new
      <3>5. begun \in Seq(S \cup {new}) /\ new \in S \cup {new}
        BY <3>3
      <3>6. /\ Append(begun, new) \in Seq(S \cup {new})
            /\ Len(Append(begun, new)) = Len(begun) + 1
            /\ \A i \in 1..Len(begun) : Append(begun, new)[i] = begun[i]
            /\ Append(begun, new)[Len(begun) + 1] = new
            /\ Len(begun) \in Nat
        BY <3>5, AppendProperties, LenProperties
      <3>7. ASSUME NEW i \in 1..Len(begun')
            PROVE  begun'[i].at \in 1..Len(text.toks) /\ Ready(text, begun'[i].at)
        <4>1. i \in 1..Len(begun) \/ i = Len(begun) + 1
          BY <3>1, <3>6
        <4>2. CASE i \in 1..Len(begun)
          BY <4>2, <3>1, <3>6 DEF Inv, Recorded
        <4>3. CASE i = Len(begun) + 1
          BY <4>3, <3>1, <3>2, <3>4, <3>6, <1>2
        <4> QED
          BY <4>1, <4>2, <4>3
      <3>8. IsSeq(begun')
        BY <3>1, <3>6 DEF IsSeq
      <3> QED
        BY <3>7, <3>8 DEF Inv, Recorded
    <2> QED
      BY <2>7, <2>8, <1>5 DEF Begin, Inv
  <1>6. CASE Succeed
    <2>1. Top.op = "ended"
      BY <1>6 DEF Succeed, Doing
    <2>2. Mark(pos, Top, a, b)
      BY <2>1, <1>3, Fitting
    <2>3. Top.from \in Nat /\ Top.from < pos /\ Above(a, b)
      BY <2>1, <2>2, <1>2, <1>4 DEF Mark
    <2>4. Holds(text, pos, b)
      BY <2>3, <1>2, <1>3, HoldsWeaker
    <2>5. Stack(text, pos, Rest)
      BY <2>1, <2>4, <1>1, <1>2, <1>3, Onward
    <2>6. Recorded(text, begun, parsed', slips)
      <3>1. parsed' = parsed \cup {[from |-> Top.from, to |-> pos, as |-> closed]}
        BY <1>6 DEF Succeed
      <3>2. pos <= Len(text.toks)
        BY <1>2
      <3> QED
        BY <2>3, <3>1, <3>2 DEF Inv, Recorded
    <2> QED
      BY <2>5, <2>6, <1>6 DEF Succeed, Inv
  <1>7. CASE Contain
    <2> DEFINE mark == [op |-> "caught", as |-> Top.as, judged |-> Top.judged]
    <2>1. /\ Top.op = "contain" /\ b.least <= a.least /\ b.inside = 0
          /\ Good(text.lang, Top.body, a, b)
      BY <1>3, <1>7, Fitting DEF Contain, Doing, Mark
    <2>2. mark.op = "caught"
      OBVIOUS
    <2>3. Continue(Top.body \o <<mark>> \o Rest)
      BY <1>7 DEF Contain
    <2> HIDE DEF mark
    <2>4. Mark(pos, mark, b, b)
      <3>1. b.least <= pos
        BY <2>1, <1>2, <1>4
      <3>2. Above(b, b)
        BY LabelFacts
      <3> QED
        BY <3>1, <3>2, <2>1, <2>2 DEF Mark
    <2>5. Runs(text.lang, pos, Top.body \o <<mark>> \o Rest, a)
      BY <2>1, <2>4, <1>2, <1>3, RunsMarked
    <2>6. Based(Top.body \o <<mark>> \o Rest)
      BY <2>1, <2>2, <1>1, <1>2, GoodLabels, BasedContained DEF Stack
    <2>7. Stack(text, pos, Top.body \o <<mark>> \o Rest)
      BY <2>5, <2>6, <1>1, <1>3 DEF Stack
    <2> QED
      BY <2>3, <2>7, ContinueKeeps
  <1>8. CASE Contained
    <2>1. Top.op = "caught" /\ Continue(Rest)
      BY <1>8 DEF Contained, Doing
    <2>2. Mark(pos, Top, a, b)
      BY <2>1, <1>3, Fitting
    <2>3. Above(a, b)
      BY <2>1, <2>2 DEF Mark
    <2>4. Holds(text, pos, b)
      BY <2>3, <1>2, <1>3, HoldsWeaker
    <2>5. Based(Rest)
      BY <2>1, <1>1, <1>2, BasedCaught DEF Stack
    <2>6. Stack(text, pos, Rest)
      BY <2>4, <2>5, <1>1, <1>3 DEF Stack
    <2> QED
      BY <2>1, <2>6, ContinueKeeps
  <1> QED
    BY <1>5, <1>6, <1>7, <1>8

(* The invariant holds at every step of every text: whatever is left to do *)
(* keeps what its commands promise, from where the parser is.              *)
THEOREM Invariant == Spec => []Inv
  <1>1. Inv /\ [Next]_vars => Inv'
    <2> SUFFICES ASSUME Inv, [Next]_vars PROVE Inv'
      OBVIOUS
    <2>1. CASE Next
      BY <2>1, TokenStep, ChoiceStep, NodeStep, StatementStep DEF Next
    <2>2. CASE UNCHANGED vars
      BY <2>2 DEF vars, Inv
    <2> QED
      BY <2>1, <2>2
  <1> QED
    BY <1>1, InitInv, PTL DEF Spec

(* Type correctness: whatever the texts, the parsers stay inside their     *)
(* text, the stack holds nothing but the commands the productions are made *)
(* of, and a statement that succeeds has taken a token: the loops over the *)
(* statements of parse_toplevel and of the bodies always come forward.     *)
THEOREM TypeCorrect == Spec => []TypeOK
  <1>1. Inv => TypeOK
    <2> SUFFICES ASSUME Inv PROVE TypeOK
      OBVIOUS
    <2>1. text \in Texts /\ IsText(text) /\ End = Len(text.toks)
      BY TextsAssumption, TextFacts DEF Inv
    <2>2. pos \in 1..End /\ pos \in Nat
      BY <2>1 DEF Inv, Stack
    <2>3. \A i \in DOMAIN todo : todo[i].op \in Ops
      <3>1. PICK a \in Label, b \in Label : Chain(text.lang, pos, todo, a, b)
        BY DEF Inv, Stack, Runs
      <3>2. PICK S : todo \in Seq(S)
        BY <3>1 DEF Chain, IsSeq
      <3>3. DOMAIN todo = 1..Len(todo) /\ Len(todo) \in Nat
        BY <3>2, LenProperties
      <3>4. PICK lab \in [1..(Len(todo) + 1) -> Label] :
              \A i \in 1..Len(todo) : Frame(text.lang, pos, todo[i], lab[i], lab[i + 1])
        BY <3>1 DEF Chain
      <3>5. \A c, x, y : Frame(text.lang, pos, c, x, y) => c.op \in Ops
        <4>1. \A c, x, y : Fit(text.lang, c, x, y) => c.op \in Ops
          BY Fitting DEF Fit
        <4> QED
          BY <4>1 DEF Frame, Mark, Ops
      <3> QED
        BY <3>3, <3>4, <3>5
    <2>4. \A i \in DOMAIN begun : begun[i].at \in 1..End
      <3>1. IsSeq(begun) /\ \A i \in 1..Len(begun) : begun[i].at \in 1..End
        BY <2>1 DEF Inv, Recorded
      <3>2. DOMAIN begun = 1..Len(begun)
        BY <3>1, LenProperties DEF IsSeq
      <3> QED
        BY <3>1, <3>2
    <2> QED
      BY <2>1, <2>2, <2>3, <2>4 DEF Inv, Recorded, TypeOK
  <1> QED
    BY <1>1, Invariant, PTL

(* No statement begins in the middle of a line: whatever the text, and     *)
(* whatever has failed before, parse_toplevel and the loops over the       *)
(* statements of a block call for the next one only behind a newline, or   *)
(* behind the dot of a line's first token, behind a brace, or at the end.  *)
THEOREM StatementsAlwaysStartLines == Spec => []StatementsStartLines
  <1>1. Inv => StatementsStartLines
    <2> SUFFICES ASSUME Inv, NEW i \in DOMAIN begun
                 PROVE  LET p == begun[i].at
                        IN \/ LineStart(p)
                           \/ Tok(p - 1) = "DOT" /\ LineStart(p - 1)
                           \/ BehindBrace(p)
                           \/ p = End
      BY DEF StatementsStartLines
    <2>1. IsSeq(begun) /\ \A j \in 1..Len(begun) : Ready(text, begun[j].at)
      BY DEF Inv, Recorded
    <2>2. DOMAIN begun = 1..Len(begun)
      BY <2>1, LenProperties DEF IsSeq
    <2>3. Ready(text, begun[i].at)
      BY <2>1, <2>2
    <2> QED
      BY <2>3 DEF Ready, AtALine, StartsLine, InBraces, LineStart, BehindBrace, Tok, End
  <1> QED
    BY <1>1, Invariant, PTL
=============================================================================
