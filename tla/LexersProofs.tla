---------------------------- MODULE LexersProofs ----------------------------
(***************************************************************************)
(* For every text: the tokens of either lexer tile it, and they are what   *)
(* the token layer assumes and the users of the parsers rely on.           *)
(***************************************************************************)
EXTENDS Lexers, Counting

-----------------------------------------------------------------------------
(* Texts and how far the cursor reads in them.                             *)

LEMMA CharFacts ==
  ASSUME IsText(text)
  PROVE  /\ End \in Nat \ {0}
         /\ \A q \in 1..(End - 1) : Char(q) \in Chars
         /\ \A q \in 1..(End - 1) : Char(q) # "EOF"
         /\ \A q \in Nat : q >= End => Char(q) = "EOF"
  <1>1. text.chars \in Seq(Chars)
    BY DEF IsText
  <1>2. Len(text.chars) \in Nat /\ \A q \in 1..Len(text.chars) : text.chars[q] \in Chars
    BY <1>1, LenProperties, ElementOfSeq
  <1>3. "EOF" \notin Chars
    BY DEF Chars, Letters, Latin, Digits, Blanks
  <1> QED
    BY <1>2, <1>3 DEF End, Char

(* Past stops at the first character that is not of the set.               *)
LEMMA PastOK ==
  ASSUME IsText(text), NEW q \in 1..End, NEW S, "EOF" \notin S
  PROVE  /\ Past(q, S) \in q..End
         /\ Char(Past(q, S)) \notin S
         /\ \A r \in q..(Past(q, S) - 1) : Char(r) \in S
  <1> DEFINE T == {r \in q..End : Char(r) \notin S}
  <1>1. End \in Nat \ {0} /\ Char(End) = "EOF"
    BY CharFacts
  <1>2. T \in SUBSET Nat /\ End \in T
    BY <1>1
  <1>3. PICK x \in T : \A y \in T : x <= y
    <2> HIDE DEF T
    <2> QED
      BY <1>2, LeastExists
  <1>4. x \in q..End /\ Char(x) \notin S /\ \A r \in q..(x - 1) : Char(r) \in S
    BY <1>1, <1>3
  <1> QED
    BY <1>4 DEF Past

(* A string ends behind its opening quote, or it does not end.  The        *)
(* function that says where is defined from the end of the text backwards: *)
(* the least part of the text it were not defined on would contradict the  *)
(* next smaller one.                                                       *)
StringFrom(f, p, quotes) ==
  f = [q \in p..(End + 1) |->
         IF Char(q) = "EOF" THEN 0
         ELSE IF Char(q) = "BACKSLASH" THEN IF Char(q + 1) = "EOF" THEN 0 ELSE f[q + 2]
         ELSE IF Char(q) \in quotes THEN q + 1
         ELSE f[q + 1]]

LEMMA StringFunctionExists ==
  ASSUME IsText(text), NEW p \in 1..End, NEW quotes
  PROVE  \E f : StringFrom(f, p, quotes)
  <1> DEFINE Bad == {m \in Nat : End + 1 - m >= 1 /\ ~\E f : StringFrom(f, End + 1 - m, quotes)}
  <1>1. /\ End \in Nat \ {0} /\ Char(End) = "EOF" /\ Char(End + 1) = "EOF"
        /\ \A q \in 1..(End - 1) : Char(q) # "EOF"
    BY CharFacts
  <1>2. Bad = {}
    <2>1. SUFFICES ASSUME Bad # {} PROVE FALSE
      OBVIOUS
    <2>2. PICK m \in Bad : \A n \in Bad : m <= n
      <3>1. Bad \in SUBSET Nat
        OBVIOUS
      <3> HIDE DEF Bad
      <3> QED
        BY <2>1, <3>1, LeastExists
    <2>3. PICK b \in Nat : b = End + 1 - m
      BY <1>1
    <2>4. m \in Nat /\ b >= 1 /\ b <= End + 1 /\ ~\E f : StringFrom(f, b, quotes)
      BY <1>1, <2>2, <2>3
    <2>5. CASE m = 0
      <3> DEFINE g == [q \in b..(End + 1) |-> 0]
      <3>1. b = End + 1
        BY <1>1, <2>3, <2>5
      <3>2. \A q \in b..(End + 1) : Char(q) = "EOF"
        BY <1>1, <3>1
      <3>3. StringFrom(g, b, quotes)
        BY <3>2 DEF StringFrom
      <3> QED
        BY <2>4, <3>3
    <2>6. CASE m # 0
      <3>1. m - 1 \notin Bad /\ m - 1 \in Nat
        BY <2>2, <2>4, <2>6
      <3>2. PICK f : StringFrom(f, b + 1, quotes)
        <4>1. End + 1 - (m - 1) = b + 1
          BY <1>1, <2>3, <2>4
        <4> QED
          BY <1>1, <2>4, <3>1, <4>1
      <3> DEFINE value == IF Char(b) = "EOF" THEN 0
                          ELSE IF Char(b) = "BACKSLASH"
                               THEN IF Char(b + 1) = "EOF" THEN 0 ELSE f[b + 2]
                          ELSE IF Char(b) \in quotes THEN b + 1
                          ELSE f[b + 1]
                 g == [q \in b..(End + 1) |-> IF q = b THEN value ELSE f[q]]
      <3>3. \A q \in (b + 1)..(End + 1) :
              f[q] = IF Char(q) = "EOF" THEN 0
                     ELSE IF Char(q) = "BACKSLASH"
                          THEN IF Char(q + 1) = "EOF" THEN 0 ELSE f[q + 2]
                     ELSE IF Char(q) \in quotes THEN q + 1
                     ELSE f[q + 1]
        BY <3>2 DEF StringFrom
      <3>4. /\ \A q \in b..(End + 1) : Char(q) # "EOF" => q + 1 <= End + 1
            /\ \A q \in b..(End + 1) :
                 (Char(q) # "EOF" /\ Char(q + 1) # "EOF") => q + 2 <= End + 1
        BY <1>1, <2>4
      <3>5. \A q \in (b + 1)..(End + 1) : g[q] = f[q]
        <4> HIDE DEF value
        <4> QED
          BY <2>4
      <3>6. g[b] = value
        <4> HIDE DEF value
        <4> QED
          BY <1>1, <2>4
      <3>7. \A q \in b..(End + 1) :
              g[q] = IF Char(q) = "EOF" THEN 0
                     ELSE IF Char(q) = "BACKSLASH"
                          THEN IF Char(q + 1) = "EOF" THEN 0 ELSE g[q + 2]
                     ELSE IF Char(q) \in quotes THEN q + 1
                     ELSE g[q + 1]
        <4> TAKE q \in b..(End + 1)
        <4>1. /\ Char(q) # "EOF" => q + 1 \in (b + 1)..(End + 1)
              /\ (Char(q) # "EOF" /\ Char(q + 1) # "EOF") => q + 2 \in (b + 1)..(End + 1)
          BY <1>1, <2>4, <3>4
        <4>2. /\ Char(q) # "EOF" => g[q + 1] = f[q + 1]
              /\ (Char(q) # "EOF" /\ Char(q + 1) # "EOF") => g[q + 2] = f[q + 2]
          <5> HIDE DEF g
          <5> QED
            BY <3>5, <4>1
        <4>3. q = b \/ q \in (b + 1)..(End + 1)
          BY <1>1, <2>4
        <4> HIDE DEF g
        <4> QED
          BY <3>3, <3>5, <3>6, <4>2, <4>3
      <3>8. StringFrom(g, b, quotes)
        <4>1. DOMAIN g = b..(End + 1) /\ g = [q \in b..(End + 1) |-> g[q]]
          <5> HIDE DEF value
          <5> QED
            OBVIOUS
        <4> HIDE DEF g
        <4> QED
          BY <3>7, <4>1 DEF StringFrom
      <3> QED
        BY <2>4, <3>8
    <2> QED
      BY <2>5, <2>6
  <1>3. End + 1 - p \in Nat /\ End + 1 - (End + 1 - p) = p /\ p >= 1
    BY <1>1
  <1>4. End + 1 - p \notin Bad
    BY <1>2
  <1> QED
    BY <1>3, <1>4

LEMMA StringEndOK ==
  ASSUME IsText(text), NEW p \in 1..End, NEW quotes
  PROVE  StringEnd(p, quotes) = 0 \/ StringEnd(p, quotes) \in (p + 1)..End
  <1>1. PICK f : StringFrom(f, p, quotes) /\ StringEnd(p, quotes) = f[p]
    <2> DEFINE f == CHOOSE g : StringFrom(g, p, quotes)
    <2>1. StringFrom(f, p, quotes)
      BY StringFunctionExists
    <2>2. StringEnd(p, quotes) = f[p]
      BY DEF StringEnd, StringFrom
    <2> QED
      BY <2>1, <2>2
  <1>2. /\ End \in Nat \ {0} /\ Char(End) = "EOF" /\ Char(End + 1) = "EOF"
        /\ \A q \in 1..(End - 1) : Char(q) # "EOF"
    BY CharFacts
  <1> DEFINE Bad == {m \in Nat : /\ End + 1 - m >= p
                                 /\ f[End + 1 - m] # 0
                                 /\ f[End + 1 - m] \notin (p + 1)..End}
  <1>3. Bad = {}
    <2>1. SUFFICES ASSUME Bad # {} PROVE FALSE
      OBVIOUS
    <2>2. PICK m \in Bad : \A n \in Bad : m <= n
      <3>1. Bad \in SUBSET Nat
        OBVIOUS
      <3> HIDE DEF Bad
      <3> QED
        BY <2>1, <3>1, LeastExists
    <2>3. PICK b \in Nat : b = End + 1 - m
      BY <1>2
    <2>4. /\ m \in Nat /\ b \in p..(End + 1) /\ f[b] # 0 /\ f[b] \notin (p + 1)..End
          /\ m = End + 1 - b
      BY <1>2, <2>2, <2>3
    <2>5. \A q \in (b + 1)..(End + 1) : f[q] = 0 \/ f[q] \in (p + 1)..End
      <3> TAKE q \in (b + 1)..(End + 1)
      <3>1. End + 1 - q \in Nat /\ End + 1 - q < m /\ End + 1 - (End + 1 - q) = q /\ q >= p
        BY <1>2, <2>4
      <3>2. End + 1 - q \notin Bad
        BY <2>2, <2>4, <3>1
      <3> QED
        BY <3>1, <3>2
    <2>6. f[b] = IF Char(b) = "EOF" THEN 0
                 ELSE IF Char(b) = "BACKSLASH"
                      THEN IF Char(b + 1) = "EOF" THEN 0 ELSE f[b + 2]
                 ELSE IF Char(b) \in quotes THEN b + 1
                 ELSE f[b + 1]
      BY <1>1, <2>4 DEF StringFrom
    <2>7. /\ Char(b) # "EOF" => b + 1 <= End /\ b + 1 \in (b + 1)..(End + 1)
          /\ (Char(b) # "EOF" /\ Char(b + 1) # "EOF") => b + 2 \in (b + 1)..(End + 1)
      BY <1>2, <2>4
    <2> HIDE DEF Bad
    <2>8. /\ Char(b) # "EOF" => f[b + 1] = 0 \/ f[b + 1] \in (p + 1)..End
          /\ (Char(b) # "EOF" /\ Char(b + 1) # "EOF") => f[b + 2] = 0 \/ f[b + 2] \in (p + 1)..End
      BY <2>5, <2>7
    <2>9. Char(b) # "EOF" => b + 1 \in (p + 1)..End
      BY <1>2, <2>4, <2>7
    <2> QED
      BY <2>4, <2>6, <2>8, <2>9
  <1>4. End + 1 - p \in Nat /\ End + 1 - (End + 1 - p) = p
    BY <1>2
  <1>5. End + 1 - p \notin Bad
    BY <1>3
  <1> QED
    BY <1>1, <1>4, <1>5

(* The operators of the cursor mean the same in both lexers.               *)
LEMMA SameCursor ==
  /\ Spice!End = End /\ Spectre!End = End
  /\ \A p : Spice!Char(p) = Char(p) /\ Spectre!Char(p) = Char(p)
  /\ \A p, S : Spice!Past(p, S) = Past(p, S) /\ Spectre!Past(p, S) = Past(p, S)
  /\ \A p : Spice!BehindLine(p) = BehindLine(p) /\ Spectre!BehindLine(p) = BehindLine(p)
  /\ \A p, s : (Spice!Reads(p, s) <=> Reads(p, s)) /\ (Spectre!Reads(p, s) <=> Reads(p, s))
  /\ \A S : Spice!Longest(S) = Longest(S) /\ Spectre!Longest(S) = Longest(S)
  /\ \A S : Spice!Spellings(S) = Spellings(S) /\ Spectre!Spellings(S) = Spellings(S)
  /\ \A S, s : Spice!KindOf(S, s) = KindOf(S, s) /\ Spectre!KindOf(S, s) = KindOf(S, s)
  /\ Spice!Chars = Chars /\ Spectre!Chars = Chars
  /\ (Spice!Done <=> Done) /\ (Spectre!Done <=> Done)
  /\ Spice!Triv = Triv /\ Spectre!Triv = Triv
  /\ Spice!last_token = last_token /\ Spectre!last_token = last_token
  /\ \A k, t : (Spice!Emitted(k, t) <=> Emitted(k, t)) /\ (Spectre!Emitted(k, t) <=> Emitted(k, t))
  <1>1. Spice!End = End /\ Spectre!End = End
    BY DEF End, Spice!End, Spectre!End
  <1>2. \A p : Spice!Char(p) = Char(p) /\ Spectre!Char(p) = Char(p)
    BY <1>1 DEF Char, Spice!Char, Spectre!Char
  <1>3. Spice!Chars = Chars /\ Spectre!Chars = Chars
    BY Zenon DEF Chars, Letters, Latin, Digits, Blanks, Spice!Chars, Spice!Letters,
       Spice!Latin, Spice!Digits, Spice!Blanks, Spectre!Chars, Spectre!Letters,
       Spectre!Latin, Spectre!Digits, Spectre!Blanks
  <1>4. \A p, S : Spice!Past(p, S) = Past(p, S) /\ Spectre!Past(p, S) = Past(p, S)
    BY Zenon DEF Past, Spice!Past, Spectre!Past, Char, Spice!Char, Spectre!Char,
       End, Spice!End, Spectre!End
  <1>5. \A p : Spice!BehindLine(p) = BehindLine(p) /\ Spectre!BehindLine(p) = BehindLine(p)
    BY <1>3, <1>4 DEF BehindLine, Spice!BehindLine, Spectre!BehindLine
  <1>6. \A p, s : (Spice!Reads(p, s) <=> Reads(p, s)) /\ (Spectre!Reads(p, s) <=> Reads(p, s))
    BY <1>2 DEF Reads, Spice!Reads, Spectre!Reads
  <1>7. \A S : Spice!Longest(S) = Longest(S) /\ Spectre!Longest(S) = Longest(S)
    BY Zenon DEF Longest, Spice!Longest, Spectre!Longest, Reads, Spice!Reads, Spectre!Reads,
       Char, Spice!Char, Spectre!Char, End, Spice!End, Spectre!End
  <1>8. \A S : Spice!Spellings(S) = Spellings(S) /\ Spectre!Spellings(S) = Spellings(S)
    BY DEF Spellings, Spice!Spellings, Spectre!Spellings
  <1>9. \A S, s : Spice!KindOf(S, s) = KindOf(S, s) /\ Spectre!KindOf(S, s) = KindOf(S, s)
    BY DEF KindOf, Spice!KindOf, Spectre!KindOf
  <1>10. Spice!last_token = last_token /\ Spectre!last_token = last_token
    BY DEF last_token, Spice!last_token, Spectre!last_token, Last, Spice!Last, Spectre!Last
  <1>11. (Spice!Done <=> Done) /\ (Spectre!Done <=> Done)
    BY <1>10 DEF Done, Spice!Done, Spectre!Done
  <1>12. Spice!Triv = Triv /\ Spectre!Triv = Triv
    BY DEF Triv, Spice!Triv, Spectre!Triv
  <1>13. \A k, t : (Spice!Emitted(k, t) <=> Emitted(k, t)) /\ (Spectre!Emitted(k, t) <=> Emitted(k, t))
    BY DEF Emitted, Spice!Emitted, Spectre!Emitted
  <1> QED
    BY <1>1, <1>2, <1>3, <1>4, <1>5, <1>6, <1>7, <1>8, <1>9, <1>10, <1>11, <1>12, <1>13

LEMMA SameEnds ==
  /\ \A p, Q : Spice!StringEnd(p, Q) = StringEnd(p, Q)
  /\ \A p, Q : Spectre!StringEnd(p, Q) = StringEnd(p, Q)
  /\ \A p, L, M : Spice!NumberEnd(p, L, M) = NumberEnd(p, L, M)
  /\ \A p, L, M : Spectre!NumberEnd(p, L, M) = NumberEnd(p, L, M)
  <1>1. \A p, Q : Spice!StringEnd(p, Q) = StringEnd(p, Q)
    BY Zenon DEF StringEnd, Spice!StringEnd, Char, Spice!Char, End, Spice!End
  <1>2. \A p, Q : Spectre!StringEnd(p, Q) = StringEnd(p, Q)
    BY Zenon DEF StringEnd, Spectre!StringEnd, Char, Spectre!Char, End, Spectre!End
  <1>3. \A p, L, M : Spice!NumberEnd(p, L, M) = NumberEnd(p, L, M)
    <2>1. Spice!Digits = Digits /\ Spice!Hex = Hex /\ Spice!BaseChars = BaseChars
      BY DEF Digits, Spice!Digits, Hex, Spice!Hex, BaseChars, Spice!BaseChars
    <2> QED
      BY <2>1, SameCursor DEF NumberEnd, Spice!NumberEnd
  <1>4. \A p, L, M : Spectre!NumberEnd(p, L, M) = NumberEnd(p, L, M)
    <2>1. Spectre!Digits = Digits /\ Spectre!Hex = Hex /\ Spectre!BaseChars = BaseChars
      BY DEF Digits, Spectre!Digits, Hex, Spectre!Hex, BaseChars, Spectre!BaseChars
    <2> QED
      BY <2>1, SameCursor DEF NumberEnd, Spectre!NumberEnd
  <1> QED
    BY <1>1, <1>2, <1>3, <1>4

(* Token text without a newline in it.                                     *)
OneLine(p, to) == \A q \in p..(to - 1) : Char(q) # "NL"

(* A character that is read is not the end of the text.                    *)
LEMMA ReadOn ==
  ASSUME IsText(text), NEW q \in 1..End, Char(q) # "EOF"
  PROVE  q + 1 \in 1..End
  BY CharFacts

LEMMA PastOneLine ==
  ASSUME IsText(text), NEW q \in 1..End, NEW S, "EOF" \notin S, "NL" \notin S
  PROVE  Past(q, S) \in q..End /\ OneLine(q, Past(q, S))
  BY PastOK DEF OneLine

(* A number reaches as far as it likes, but not behind a newline.          *)
LEMMA NumberEndOK ==
  ASSUME IsText(text), NEW p \in 1..End, NEW logic, NEW more,
         "EOF" \notin logic, "NL" \notin logic, "EOF" \notin more, "NL" \notin more
  PROVE  NumberEnd(p, logic, more) \in p..End /\ OneLine(p, NumberEnd(p, logic, more))
  <1> DEFINE whole == Past(p, Digits)
             frac == IF Char(whole) = "." THEN Past(whole + 1, Digits) ELSE whole
             sign == IF Char(frac + 1) \in {"+", "-"} THEN frac + 2 ELSE frac + 1
             last == IF Char(frac) = "'" /\ Char(frac + 1) \in BaseChars
                     THEN Past(frac + 2, Hex)
                     ELSE IF Char(frac) = "'" /\ Char(frac + 1) \in logic THEN frac + 2
                     ELSE IF Char(frac) = "E" THEN Past(sign, Digits)
                     ELSE frac
  <1>1. End \in Nat
    BY CharFacts
  <1>2. /\ "EOF" \notin Digits /\ "NL" \notin Digits /\ "EOF" \notin Hex /\ "NL" \notin Hex
        /\ "EOF" \notin BaseChars /\ "NL" \notin BaseChars
    BY DEF Digits, Hex, BaseChars
  <1>3. whole \in p..End /\ OneLine(p, whole)
    BY <1>2, PastOneLine
  <1>4. frac \in p..End /\ OneLine(p, frac)
    <2> HIDE DEF whole
    <2>1. CASE Char(whole) = "."
      <3>1. whole + 1 \in 1..End
        BY <1>1, <1>3, <2>1, ReadOn
      <3>2. Past(whole + 1, Digits) \in (whole + 1)..End
            /\ OneLine(whole + 1, Past(whole + 1, Digits))
        BY <1>2, <3>1, PastOneLine
      <3>3. frac = Past(whole + 1, Digits)
        BY <2>1
      <3> HIDE DEF frac
      <3> QED
        BY <1>1, <1>3, <2>1, <3>2, <3>3 DEF OneLine
    <2>2. CASE Char(whole) # "."
      BY <1>3, <2>2
    <2> QED
      BY <2>1, <2>2
  <1>5. last \in p..End /\ OneLine(p, last)
    <2> HIDE DEF frac
    <2>1. CASE Char(frac) = "'" /\ Char(frac + 1) \in BaseChars
      <3>1. frac + 1 \in 1..End
        BY <1>1, <1>4, <2>1, ReadOn
      <3>2. frac + 2 \in 1..End
        BY <1>1, <1>2, <1>4, <2>1, <3>1, ReadOn
      <3>3. Past(frac + 2, Hex) \in (frac + 2)..End /\ OneLine(frac + 2, Past(frac + 2, Hex))
        BY <1>2, <3>2, PastOneLine
      <3>4. last = Past(frac + 2, Hex)
        BY <2>1
      <3>5. Char(frac) # "NL" /\ Char(frac + 1) # "NL"
        BY <1>2, <2>1
      <3> HIDE DEF last
      <3> QED
        BY <1>1, <1>4, <3>3, <3>4, <3>5 DEF OneLine
    <2>2. CASE Char(frac) = "'" /\ Char(frac + 1) \notin BaseChars /\ Char(frac + 1) \in logic
      <3>1. frac + 1 \in 1..End
        BY <1>1, <1>4, <2>2, ReadOn
      <3>2. frac + 2 \in 1..End
        BY <1>1, <1>4, <2>2, <3>1, ReadOn
      <3>3. last = frac + 2 /\ Char(frac) # "NL" /\ Char(frac + 1) # "NL"
        BY <2>2
      <3> HIDE DEF last
      <3> QED
        BY <1>1, <1>4, <3>2, <3>3 DEF OneLine
    <2>3. CASE Char(frac) = "E"
      <3>1. frac + 1 \in 1..End
        BY <1>1, <1>4, <2>3, ReadOn
      <3>2. sign \in (frac + 1)..End /\ OneLine(frac, sign)
        <4>1. CASE Char(frac + 1) \in {"+", "-"}
          <5>1. frac + 2 \in 1..End
            BY <1>1, <1>4, <3>1, <4>1, ReadOn
          <5> QED
            BY <1>1, <1>4, <2>3, <4>1, <5>1 DEF OneLine
        <4>2. CASE Char(frac + 1) \notin {"+", "-"}
          BY <1>1, <1>4, <2>3, <3>1, <4>2 DEF OneLine
        <4> QED
          BY <4>1, <4>2
      <3> HIDE DEF sign
      <3>3. Past(sign, Digits) \in sign..End /\ OneLine(sign, Past(sign, Digits))
        BY <1>1, <1>2, <1>4, <3>2, PastOneLine
      <3>4. last = Past(sign, Digits)
        BY <2>3
      <3> HIDE DEF last
      <3> QED
        BY <1>1, <1>4, <3>2, <3>3, <3>4 DEF OneLine
    <2>4. CASE /\ ~(Char(frac) = "'" /\ Char(frac + 1) \in BaseChars)
               /\ ~(Char(frac) = "'" /\ Char(frac + 1) \in logic)
               /\ Char(frac) # "E"
      <3>1. last = frac
        BY <2>4
      <3> QED
        BY <1>4, <3>1
    <2> QED
      BY <2>1, <2>2, <2>3, <2>4
  <1>6. NumberEnd(p, logic, more) = Past(last, more)
    BY DEF NumberEnd
  <1> HIDE DEF last
  <1>7. Past(last, more) \in last..End /\ OneLine(last, Past(last, more))
    BY <1>1, <1>5, PastOneLine
  <1> QED
    BY <1>1, <1>5, <1>6, <1>7 DEF OneLine

-----------------------------------------------------------------------------
(* The operator tables: what a longest match finds in them.                *)
Ordinary(kind) ==
  kind \notin {"ENDMARKER", "TITLE_LINE", "COMMENT", "NEWLINE", "STRING", "EOF_STRING"}

SpelledOut(e) ==
  /\ Len(e[1]) \in 1..3
  /\ DOMAIN e[1] = 1..Len(e[1])
  /\ Head(e[1]) = e[1][1]
  /\ \A k \in 1..Len(e[1]) : e[1][k] \notin {"NL", "EOF", "SP", "*"}
  /\ Ordinary(e[2])
  /\ e[1][1] = "+" => e[2] = "PLUS"

(* Every operator is longer than one that is a single character.           *)
Rooted(table) == \A e \in table : \E f \in table : f[1] = <<e[1][1]>>

LEMMA SpiceOperators ==
  /\ \A e \in Spice!Operators :
       SpelledOut(e) /\ e[2] \notin {"LPAREN", "RPAREN", "JULIA_ESCAPE_BEGIN"}
  /\ Rooted(Spice!Operators)
  <1> DEFINE OK(e) == SpelledOut(e) /\ e[2] \notin {"LPAREN", "RPAREN", "JULIA_ESCAPE_BEGIN"}
  <1>1. \A e \in Spice!Comparisons : OK(e)
    BY DEF Spice!Comparisons, SpelledOut, Ordinary
  <1>2. \A e \in Spice!Negations : OK(e)
    BY DEF Spice!Negations, SpelledOut, Ordinary
  <1>3. \A e \in Spice!Xors : OK(e)
    BY DEF Spice!Xors, SpelledOut, Ordinary
  <1>4. \A e \in Spice!Ands : OK(e)
    BY DEF Spice!Ands, SpelledOut, Ordinary
  <1>5. \A e \in Spice!Singles : OK(e)
    BY DEF Spice!Singles, SpelledOut, Ordinary
  <1>6. Rooted(Spice!Comparisons)
    BY DEF Spice!Comparisons, Rooted
  <1>7. Rooted(Spice!Negations)
    BY DEF Spice!Negations, Rooted
  <1>8. Rooted(Spice!Xors)
    BY DEF Spice!Xors, Rooted
  <1>9. Rooted(Spice!Ands)
    BY DEF Spice!Ands, Rooted
  <1>10. Rooted(Spice!Singles)
    <2>1. \A e \in Spice!Singles : e[1] = <<e[1][1]>>
      BY DEF Spice!Singles
    <2> QED
      BY <2>1 DEF Rooted
  <1> HIDE DEF OK
  <1>11. \A e \in Spice!Operators : OK(e)
    BY <1>1, <1>2, <1>3, <1>4, <1>5 DEF Spice!Operators
  <1>12. Rooted(Spice!Operators)
    BY <1>6, <1>7, <1>8, <1>9, <1>10 DEF Spice!Operators, Rooted
  <1> QED
    BY <1>11, <1>12 DEF OK

LEMMA SpectreOperators ==
  (\A e \in Spectre!Operators : SpelledOut(e)) /\ Rooted(Spectre!Operators)
  <1>1. \A e \in Spectre!Comparisons : SpelledOut(e)
    BY DEF Spectre!Comparisons, SpelledOut, Ordinary
  <1>2. \A e \in Spectre!Equals : SpelledOut(e)
    BY DEF Spectre!Equals, SpelledOut, Ordinary
  <1>3. \A e \in Spectre!Xors : SpelledOut(e)
    BY DEF Spectre!Xors, SpelledOut, Ordinary
  <1>4. \A e \in Spectre!Ands : SpelledOut(e)
    BY DEF Spectre!Ands, SpelledOut, Ordinary
  <1>5. \A e \in Spectre!Singles : SpelledOut(e)
    BY DEF Spectre!Singles, SpelledOut, Ordinary
  <1>13. \A e \in Spectre!Delimiters : SpelledOut(e)
    BY DEF Spectre!Delimiters, SpelledOut, Ordinary
  <1>6. Rooted(Spectre!Comparisons)
    BY DEF Spectre!Comparisons, Rooted
  <1>7. Rooted(Spectre!Equals)
    BY DEF Spectre!Equals, Rooted
  <1>8. Rooted(Spectre!Xors)
    BY DEF Spectre!Xors, Rooted
  <1>9. Rooted(Spectre!Ands)
    BY DEF Spectre!Ands, Rooted
  <1>10. Rooted(Spectre!Singles)
    <2>1. \A e \in Spectre!Singles : e[1] = <<e[1][1]>>
      BY DEF Spectre!Singles
    <2> QED
      BY <2>1 DEF Rooted
  <1>14. Rooted(Spectre!Delimiters)
    <2>1. \A e \in Spectre!Delimiters : e[1] = <<e[1][1]>>
      BY DEF Spectre!Delimiters
    <2> QED
      BY <2>1 DEF Rooted
  <1>11. \A e \in Spectre!Operators : SpelledOut(e)
    BY <1>1, <1>2, <1>3, <1>4, <1>5, <1>13 DEF Spectre!Operators
  <1>12. Rooted(Spectre!Operators)
    BY <1>6, <1>7, <1>8, <1>9, <1>10, <1>14 DEF Spectre!Operators, Rooted
  <1> QED
    BY <1>11, <1>12

(* The longest match is read, is not empty, and has a kind of the table.   *)
LEMMA LongestOK ==
  ASSUME IsText(text), i \in 1..End, NEW table,
         \A e \in table : SpelledOut(e), Rooted(table),
         NEW s, s = Longest(Spellings(table)),
         Char(i) \in {Head(t) : t \in Spellings(table)}
  PROVE  /\ i + Len(s) \in (i + 1)..End
         /\ OneLine(i, i + Len(s))
         /\ \E e \in table : KindOf(table, s) = e[2] /\ e[1][1] = Char(i)
  <1> DEFINE Matches == {t \in Spellings(table) : Reads(i, t)}
             Lens == {Len(t) : t \in Matches}
  <1>1. \A t \in Spellings(table) : Len(t) \in 1..3 /\ DOMAIN t = 1..Len(t)
    BY DEF Spellings, SpelledOut
  <1>2. Matches # {}
    <2>1. PICK e \in table : Head(e[1]) = Char(i)
      BY DEF Spellings
    <2>2. e[1][1] = Char(i)
      BY <2>1 DEF SpelledOut
    <2>3. PICK f \in table : f[1] = <<e[1][1]>>
      BY DEF Rooted
    <2>4. Reads(i, <<Char(i)>>)
      BY DEF Reads
    <2>5. f[1] \in Spellings(table) /\ Reads(i, f[1])
      BY <2>2, <2>3, <2>4 DEF Spellings
    <2> QED
      BY <2>5
  <1>3. Lens \in SUBSET (0..3) /\ Lens # {}
    <2>1. PICK t \in Matches : TRUE
      BY <1>2
    <2>2. Len(t) \in Lens
      BY <2>1
    <2>3. \A x \in Lens : x \in 0..3
      <3> TAKE x \in Lens
      <3>1. PICK u \in Spellings(table) : x = Len(u)
        OBVIOUS
      <3>2. Len(u) \in 1..3
        BY <1>1
      <3> QED
        BY <3>1, <3>2
    <2> HIDE DEF Lens
    <2> QED
      BY <2>2, <2>3
  <1>4. PICK n \in Lens : \A m \in Lens : m <= n
    <2> HIDE DEF Lens
    <2> QED
      BY <1>3, GreatestExists
  <1>5. \E t \in Spellings(table) :
          Reads(i, t) /\ \A u \in Spellings(table) : Reads(i, u) => Len(u) <= Len(t)
    BY <1>4
  <1>6. s \in Spellings(table) /\ Reads(i, s)
    BY <1>5 DEF Longest
  <1>7. PICK e \in table : e[1] = s /\ KindOf(table, s) = e[2]
    BY <1>6 DEF Spellings, KindOf
  <1>8. Len(s) \in 1..3 /\ \A k \in 1..Len(s) : Char(i + k - 1) = s[k] /\ s[k] \notin {"NL", "EOF"}
    BY <1>1, <1>6, <1>7 DEF Reads, SpelledOut
  <1>9. End \in Nat /\ \A q \in Nat : q >= End => Char(q) = "EOF"
    BY CharFacts
  <1>10. i + Len(s) - 1 < End
    <2>1. PICK n1 \in 1..3 : n1 = Len(s)
      BY <1>8
    <2>2. Char(i + n1 - 1) # "EOF"
      BY <1>8, <2>1
    <2>3. i + n1 - 1 \in Nat
      BY <1>9
    <2> QED
      BY <1>9, <2>1, <2>2, <2>3
  <1>11. \A q \in i..(i + Len(s) - 1) : Char(q) # "NL"
    <2> TAKE q \in i..(i + Len(s) - 1)
    <2>1. q - i + 1 \in 1..Len(s) /\ i + (q - i + 1) - 1 = q
      BY <1>8, <1>9
    <2> QED
      BY <1>8, <2>1
  <1>12. e[1][1] = Char(i)
    <2>1. i + 1 - 1 = i
      BY <1>9
    <2>2. PICK n1 \in 1..3 : n1 = Len(s)
      BY <1>8
    <2>4. 1 \in 1..n1
      OBVIOUS
    <2>3. Char(i + 1 - 1) = s[1]
      BY <1>8, <2>2, <2>4
    <2> QED
      BY <1>7, <2>1, <2>3
  <1> QED
    BY <1>7, <1>8, <1>9, <1>10, <1>11, <1>12 DEF OneLine

-----------------------------------------------------------------------------
(* The stack of open delimiters: how many parentheses are open on it.      *)
Opens(s) == Times(s, "LPAREN") + Times(s, "JULIA_ESCAPE_BEGIN")

LEMMA OpensNat ==
  ASSUME NEW s \in Seq(Delimiters) PROVE Opens(s) \in Nat
  BY OccurrencesFinite DEF Opens

LEMMA EmptyStack == << >> \in Seq(Delimiters) /\ Opens(<< >>) = 0
  BY TimesEmpty DEF Opens

LEMMA Pushed ==
  ASSUME NEW s \in Seq(Delimiters), NEW d \in Delimiters
  PROVE  /\ Append(s, d) \in Seq(Delimiters)
         /\ d \in {"LPAREN", "JULIA_ESCAPE_BEGIN"} => Opens(Append(s, d)) = Opens(s) + 1
         /\ d \notin {"LPAREN", "JULIA_ESCAPE_BEGIN"} => Opens(Append(s, d)) = Opens(s)
  <1>1. Append(s, d) \in Seq(Delimiters)
    OBVIOUS
  <1>2. Times(s, "LPAREN") \in Nat /\ Times(s, "JULIA_ESCAPE_BEGIN") \in Nat
    BY OccurrencesFinite
  <1>3. /\ "LPAREN" = d => Times(Append(s, d), "LPAREN") = Times(s, "LPAREN") + 1
        /\ "LPAREN" # d => Times(Append(s, d), "LPAREN") = Times(s, "LPAREN")
    BY TimesAppend
  <1>4. /\ "JULIA_ESCAPE_BEGIN" = d
             => Times(Append(s, d), "JULIA_ESCAPE_BEGIN") = Times(s, "JULIA_ESCAPE_BEGIN") + 1
        /\ "JULIA_ESCAPE_BEGIN" # d
             => Times(Append(s, d), "JULIA_ESCAPE_BEGIN") = Times(s, "JULIA_ESCAPE_BEGIN")
    BY TimesAppend
  <1>5. d \in {"LPAREN", "JULIA_ESCAPE_BEGIN"} => Opens(Append(s, d)) = Opens(s) + 1
    BY <1>2, <1>3, <1>4 DEF Opens
  <1>6. d \notin {"LPAREN", "JULIA_ESCAPE_BEGIN"} => Opens(Append(s, d)) = Opens(s)
    BY <1>2, <1>3, <1>4 DEF Opens
  <1> QED
    BY <1>1, <1>5, <1>6

LEMMA FrontOK ==
  ASSUME NEW s \in Seq(Delimiters), s # << >>
  PROVE  /\ Spice!Front(s) \in Seq(Delimiters)
         /\ Spice!Last(s) \in Delimiters
         /\ s = Append(Spice!Front(s), Spice!Last(s))
  <1>1. Len(s) \in Nat \ {0} /\ \A k \in 1..Len(s) : s[k] \in Delimiters
    BY LenProperties, ElementOfSeq, EmptySeq
  <1>2. /\ Spice!Front(s) \in Seq(Delimiters)
        /\ Len(Spice!Front(s)) = Len(s) - 1
        /\ \A k \in 1..(Len(s) - 1) : Spice!Front(s)[k] = s[k]
    <2>1. PICK n \in Int : n = Len(s) - 1 /\ n >= 0
      BY <1>1
    <2>2. \A k \in 1..n : s[k] \in Delimiters
      BY <1>1, <2>1
    <2>3. /\ SubSeq(s, 1, n) \in Seq(Delimiters)
          /\ Len(SubSeq(s, 1, n)) = IF 1 <= n THEN n - 1 + 1 ELSE 0
          /\ \A k \in 1..(n - 1 + 1) : SubSeq(s, 1, n)[k] = s[1 + k - 1]
      BY <2>2, SubSeqProperties
    <2>4. \A k \in 1..n : SubSeq(s, 1, n)[k] = s[k]
      <3> TAKE k \in 1..n
      <3>1. k \in 1..(n - 1 + 1) /\ 1 + k - 1 = k
        BY <2>1
      <3> QED
        BY <2>3, <3>1
    <2>5. Len(SubSeq(s, 1, n)) = n
      BY <2>1, <2>3
    <2> QED
      BY <2>1, <2>3, <2>4, <2>5 DEF Spice!Front
  <1>3. Spice!Last(s) = s[Len(s)] /\ Spice!Last(s) \in Delimiters
    BY <1>1 DEF Spice!Last
  <1> DEFINE t == Append(Spice!Front(s), Spice!Last(s))
  <1>4. /\ t \in Seq(Delimiters) /\ Len(t) = Len(s)
        /\ \A k \in 1..(Len(s) - 1) : t[k] = s[k]
        /\ t[Len(s)] = s[Len(s)]
    <2>1. /\ t \in Seq(Delimiters) /\ Len(t) = Len(Spice!Front(s)) + 1
          /\ \A k \in 1..Len(Spice!Front(s)) : t[k] = Spice!Front(s)[k]
          /\ t[Len(Spice!Front(s)) + 1] = Spice!Last(s)
      BY <1>2, <1>3, AppendProperties
    <2> HIDE DEF t
    <2> QED
      BY <1>1, <1>2, <1>3, <2>1
  <1>5. \A k \in 1..Len(s) : t[k] = s[k]
    <2> HIDE DEF t
    <2> QED
      BY <1>1, <1>4
  <1>6. s = t
    <2> HIDE DEF t
    <2> QED
      BY <1>4, <1>5, SeqEqual
  <1> QED
    BY <1>2, <1>3, <1>6

(* Taking a delimiter off closes one parenthesis, or none.                 *)
LEMMA Closed ==
  ASSUME NEW s \in Seq(Delimiters), s # << >>
  PROVE  /\ Spice!Front(s) \in Seq(Delimiters)
         /\ Spice!Last(s) \in {"LPAREN", "JULIA_ESCAPE_BEGIN"}
              => Opens(Spice!Front(s)) + 1 = Opens(s)
         /\ Opens(Spice!Front(s)) <= Opens(s)
  <1>1. PICK t, d : /\ t = Spice!Front(s) /\ d = Spice!Last(s)
                    /\ t \in Seq(Delimiters) /\ d \in Delimiters /\ s = Append(t, d)
    BY FrontOK
  <1>2. Opens(t) \in Nat
    BY <1>1, OpensNat
  <1> QED
    BY <1>1, <1>2, Pushed

LEMMA PoppedOK ==
  ASSUME NEW s \in Seq(Delimiters), NEW d
  PROVE  Spice!Popped(s, d) \in Seq(Delimiters) /\ Opens(Spice!Popped(s, d)) <= Opens(s)
  <1>1. Opens(s) \in Nat
    BY OpensNat
  <1> QED
    BY <1>1, Closed DEF Spice!Popped, Spice!TopIs

-----------------------------------------------------------------------------
(* What a step of either lexer that begins at p turns into a token,        *)
(* encrypted blocks aside.                                                 *)
ReadAt(p, kind, to) ==
  /\ to \in p..End
  /\ p < to \/ (kind = "ENDMARKER" /\ p = End) \/ kind = "TITLE_LINE"
  /\ kind = "ENDMARKER" => p = End
  /\ kind = "EOF_STRING" => to = End
  /\ kind = "COMMENT" => Char(to) \in {"NL", "EOF"}
  /\ kind = "TITLE_LINE" => Char(to) \in {"NL", "CR", "EOF"}
  /\ \/ kind \in {"NEWLINE", "ESCD_NEWLINE", "STRING", "EOF_STRING"}
     \/ kind = "IDENTIFIER" /\ Char(p) = "BACKSLASH"
     \/ OneLine(p, to)
  /\ kind # "TITLE_LINE" =>
       /\ Char(p) = "NL" => kind = "NEWLINE"
       /\ Char(p) = "EOF" => kind = "ENDMARKER"
       /\ Char(p) = "SP" => kind = "WHITESPACE"

Read(kind, to) == ReadAt(i, kind, to)

(* What it does to the stack: a closing parenthesis takes one from it that *)
(* is open, and only an opening one puts one there.                        *)
Balanced(kind, stack) ==
  /\ stack \in Seq(Delimiters)
  /\ kind = "RPAREN" => Opens(stack) + 1 <= Opens(Spice!Stack)
  /\ kind \in {"LPAREN", "JULIA_ESCAPE_BEGIN"} => Opens(stack) <= Opens(Spice!Stack) + 1
  /\ kind \notin {"RPAREN", "LPAREN", "JULIA_ESCAPE_BEGIN"} => Opens(stack) <= Opens(Spice!Stack)

PathKinds == {"INCLUDE", "LIB", "HDL"}

(* Where it stands in its line.                                            *)
Placed(kind) ==
  /\ (kind = "TITLE_LINE") <=> (last_nontriv_token = "TITLE")
  /\ (~lexed_nontriv_token_line /\ kind \notin Triv \cup {"PLUS"}) => Spice!Stack = << >>
  /\ (~lexed_nontriv_token_line /\ Char(i) = "*")
       => kind \in {"COMMENT", "TITLE_LINE"} \/ last_nontriv_token \in PathKinds

SpiceStep ==
  \E kind, to, stack :
    Spice!Emit(kind, to, stack) /\ Read(kind, to) /\ Balanced(kind, stack) /\ Placed(kind)

Ready ==
  /\ IsText(text)
  /\ i \in 1..End
  /\ lexing_expression_stack \in Seq(Delimiters)
  /\ lexed_nontriv_token_line \in BOOLEAN
  /\ protected \in BOOLEAN
  /\ last_nontriv_token = "TITLE"
       => lexed_nontriv_token_line \/ lexing_expression_stack = << >>

LEMMA StackOK ==
  ASSUME Ready
  PROVE  /\ Spice!Stack \in Seq(Delimiters)
         /\ Opens(Spice!Stack) \in Nat
         /\ Opens(Spice!Stack) <= Opens(lexing_expression_stack)
  <1>1. Opens(lexing_expression_stack) \in Nat
    BY OpensNat DEF Ready
  <1>2. Spice!Stack \in {<< >>, lexing_expression_stack}
    BY Zenon DEF Spice!Stack
  <1>3. lexing_expression_stack \in Seq(Delimiters)
    BY DEF Ready
  <1>4. CASE Spice!Stack = << >>
    BY <1>1, <1>4, EmptyStack
  <1>5. CASE Spice!Stack = lexing_expression_stack
    BY <1>1, <1>3, <1>5
  <1> QED
    BY <1>2, <1>4, <1>5

LEMMA StackCleared ==
  ASSUME Char(i) \notin {"SP", "CR", "+"}, ~lexed_nontriv_token_line
  PROVE  Spice!Stack = << >>
  <1>1. Spice!c \notin Spice!Blanks \cup {"+"}
    BY SameCursor DEF Spice!c, Spice!Blanks
  <1> QED
    BY <1>1 DEF Spice!Stack

LEMMA KeepsBalance ==
  ASSUME Ready, NEW kind, kind \notin {"RPAREN", "LPAREN", "JULIA_ESCAPE_BEGIN"}
  PROVE  Balanced(kind, Spice!Stack)
  BY StackOK DEF Balanced

(* A text that has not been read to its end has a next character.          *)
LEMMA NextChar ==
  ASSUME IsText(text), i \in 1..End
  PROVE  /\ i \in Nat /\ End \in Nat
         /\ (Char(i) = "EOF") <=> (i = End)
         /\ Char(i) # "EOF" => i + 1 \in 1..End /\ i + 1 \in (i + 1)..End
         /\ (Char(i) # "EOF" /\ Char(i + 1) # "EOF")
              => i + 2 \in 1..End /\ i + 2 \in (i + 1)..End
         /\ (Char(i) # "EOF" /\ Char(i + 1) # "EOF" /\ Char(i + 2) # "EOF")
              => i + 3 \in 1..End /\ i + 3 \in (i + 1)..End
  BY CharFacts

(* A token that begins with an ordinary character and stays in its line.   *)
LEMMA PlainRead ==
  ASSUME Ready, NEW kind, NEW to, Ordinary(kind),
         Char(i) \notin {"NL", "EOF", "SP"} \/ (Char(i) = "SP" /\ kind = "WHITESPACE"),
         to \in (i + 1)..End, OneLine(i, to)
  PROVE  Read(kind, to)
  BY NextChar DEF Read, ReadAt, Ready, Ordinary

(* Characters that every token stops at.                                   *)
LEMMA SpiceSets ==
  /\ \A S \in {Spice!Separators, Spice!Blanks, Spice!InstanceChars, Spice!IdentifierChars,
               Spice!LogicChars, Spice!Digits} : "NL" \notin S /\ "EOF" \notin S
  /\ "EOF" \notin Chars /\ "EOF" \notin Chars \ {"NL", "CR"}
  /\ "NL" \notin Spice!Latin
  BY DEF Spice!Separators, Spice!Blanks, Spice!InstanceChars, Spice!InstanceStart,
     Spice!IdentifierChars, Spice!LogicChars, Spice!Digits, Spice!Letters, Spice!Latin,
     Chars, Letters, Latin, Digits, Blanks

(* A token that follows the separators.                                    *)
Begun == Spice!Reading /\ ~Spice!Separates

LEMMA BegunChar ==
  ASSUME Ready, Begun
  PROVE  /\ last_nontriv_token # "TITLE"
         /\ Char(i) \notin {"SP", "CR", "NL", "EOF"}
         /\ i \in Nat /\ End \in Nat
         /\ i + 1 \in 1..End /\ i + 1 \in (i + 1)..End
         /\ Char(i) # "+" /\ ~lexed_nontriv_token_line => Spice!Stack = << >>
  <1>1. last_nontriv_token # "TITLE"
    BY DEF Begun, Spice!Reading, Spice!TitleLine
  <1>2. Char(i) \notin {"SP", "CR", "NL", "EOF"}
    BY SameCursor DEF Begun, Spice!Separates, Spice!c, Spice!Separators, Spice!Blanks
  <1> QED
    BY <1>1, <1>2, NextChar, StackCleared DEF Ready

LEMMA TokenStep ==
  ASSUME Ready, Begun, NEW kind, NEW to, NEW stack,
         Spice!Emit(kind, to, stack), Ordinary(kind),
         to \in (i + 1)..End, OneLine(i, to), Balanced(kind, stack),
         Char(i) # "+" \/ kind = "PLUS" \/ Spice!Stack = << >>,
         \/ Char(i) # "*"
         \/ lexed_nontriv_token_line
         \/ last_nontriv_token \in PathKinds
  PROVE  SpiceStep
  <1>1. Read(kind, to)
    BY BegunChar, PlainRead
  <1>2. Placed(kind)
    BY BegunChar DEF Placed, Ordinary
  <1> QED
    BY <1>1, <1>2 DEF SpiceStep

LEMMA OneChar ==
  ASSUME Ready, Char(i) \notin {"NL", "EOF"}
  PROVE  /\ i + 1 \in (i + 1)..End
         /\ OneLine(i, i + 1)
  BY NextChar DEF OneLine, Ready

LEMMA TwoChars ==
  ASSUME Ready, Char(i) \notin {"NL", "EOF"}, Char(i + 1) \notin {"NL", "EOF"}
  PROVE  /\ i + 2 \in (i + 1)..End
         /\ OneLine(i, i + 2)
  <1>1. i \in Nat /\ End \in Nat /\ i + 2 \in (i + 1)..End
    BY NextChar DEF Ready
  <1>2. \A q \in i..(i + 2 - 1) : q = i \/ q = i + 1
    BY <1>1
  <1> QED
    BY <1>1, <1>2 DEF OneLine

LEMMA ThreeChars ==
  ASSUME Ready, Char(i) \notin {"NL", "EOF"}, Char(i + 1) \notin {"NL", "EOF"},
         Char(i + 2) \notin {"NL", "EOF"}
  PROVE  /\ i + 3 \in (i + 1)..End
         /\ OneLine(i, i + 3)
  <1>1. i \in Nat /\ End \in Nat /\ i + 3 \in (i + 1)..End
    BY NextChar DEF Ready
  <1>2. \A q \in i..(i + 3 - 1) : q = i \/ q = i + 1 \/ q = i + 2
    BY <1>1
  <1> QED
    BY <1>1, <1>2 DEF OneLine

(* One character and all that follow it and are in a set.                  *)
LEMMA Run ==
  ASSUME Ready, Char(i) \notin {"NL", "EOF"}, NEW S, "NL" \notin S, "EOF" \notin S
  PROVE  Past(i + 1, S) \in (i + 1)..End /\ OneLine(i, Past(i + 1, S))
  <1>1. i \in Nat /\ End \in Nat /\ i + 1 \in 1..End /\ IsText(text)
    BY NextChar DEF Ready
  <1>2. PICK to : to = Past(i + 1, S)
    OBVIOUS
  <1>3. to \in (i + 1)..End /\ OneLine(i + 1, to)
    BY <1>1, <1>2, PastOneLine
  <1>4. \A q \in i..(to - 1) : q = i \/ q \in (i + 1)..(to - 1)
    BY <1>1, <1>3
  <1> QED
    BY <1>2, <1>3, <1>4 DEF OneLine

(* The rest of the line.                                                   *)
LEMMA BehindLineOK ==
  ASSUME Ready, Char(i) \notin {"NL", "EOF"}
  PROVE  /\ BehindLine(i) \in (i + 1)..End
         /\ OneLine(i, BehindLine(i))
         /\ Char(BehindLine(i)) \in {"NL", "EOF"}
  <1>1. IsText(text) /\ i \in 1..End /\ i \in Nat /\ End \in Nat
    BY NextChar DEF Ready
  <1>2. /\ \A q \in 1..(End - 1) : Char(q) \in Chars
        /\ Char(End) = "EOF" /\ "EOF" \notin Chars
    BY <1>1, CharFacts, SpiceSets
  <1>3. PICK to : to = BehindLine(i)
    OBVIOUS
  <1>4. /\ to \in i..End /\ Char(to) \notin Chars \ {"NL"}
        /\ \A q \in i..(to - 1) : Char(q) \in Chars \ {"NL"}
    BY <1>1, <1>2, <1>3, PastOK DEF BehindLine
  <1>5. Char(to) \in {"NL", "EOF"}
    BY <1>1, <1>2, <1>4
  <1>6. to # i
    BY <1>5
  <1> QED
    BY <1>1, <1>3, <1>4, <1>5, <1>6 DEF OneLine

-----------------------------------------------------------------------------
(* The steps of the SPICE lexer.                                           *)
LEMMA CommentStep ==
  ASSUME Ready, Begun, Spice!Comment
  PROVE  SpiceStep
  <1>1. Spice!Emit("COMMENT", BehindLine(i), Spice!Stack)
    BY SameCursor DEF Spice!Comment
  <1>2. Char(i) \notin {"SP", "CR", "NL", "EOF"} /\ last_nontriv_token # "TITLE"
    BY BegunChar
  <1>3. Read("COMMENT", BehindLine(i))
    BY <1>2, BehindLineOK, NextChar DEF Read, ReadAt, Ready
  <1>4. Balanced("COMMENT", Spice!Stack) /\ Placed("COMMENT")
    BY <1>2, KeepsBalance DEF Placed, Triv
  <1> QED
    BY <1>1, <1>3, <1>4 DEF SpiceStep

LEMMA WhitespaceStep ==
  ASSUME Ready, Spice!Reading, Char(i) \notin {"NL", "EOF", "*"},
         NEW s \in Seq(Delimiters), Opens(s) <= Opens(Spice!Stack), Spice!Whitespace(s)
  PROVE  SpiceStep
  <1>1. last_nontriv_token # "TITLE"
    BY DEF Spice!Reading, Spice!TitleLine
  <1>2. Opens(s) \in Nat /\ Opens(Spice!Stack) \in Nat
    BY OpensNat, StackOK
  <1>3. Placed("WHITESPACE")
    BY <1>1 DEF Placed, Triv
  <1>4. CASE s = << >>
    <2>1. Spice!Emit("WHITESPACE", Past(i + 1, Spice!Separators), s)
      BY <1>4, SameCursor DEF Spice!Whitespace
    <2>2. /\ Past(i + 1, Spice!Separators) \in (i + 1)..End
          /\ OneLine(i, Past(i + 1, Spice!Separators))
      BY SpiceSets, Run
    <2>3. Read("WHITESPACE", Past(i + 1, Spice!Separators))
      BY <2>2, PlainRead DEF Ordinary
    <2>4. Balanced("WHITESPACE", s)
      BY DEF Balanced
    <2> QED
      BY <1>3, <2>1, <2>3, <2>4 DEF SpiceStep
  <1>5. CASE s # << >>
    <2> DEFINE t == IF last_nontriv_token # "EQ" THEN Spice!Popped(s, "EQ") ELSE s
    <2>1. Spice!Emit("WHITESPACE", Past(i + 1, Spice!Blanks), t)
      BY <1>5, SameCursor DEF Spice!Whitespace
    <2>2. /\ Past(i + 1, Spice!Blanks) \in (i + 1)..End
          /\ OneLine(i, Past(i + 1, Spice!Blanks))
      BY SpiceSets, Run
    <2>3. Read("WHITESPACE", Past(i + 1, Spice!Blanks))
      BY <2>2, PlainRead DEF Ordinary
    <2>4. t \in Seq(Delimiters) /\ Opens(t) \in Nat /\ Opens(t) <= Opens(s)
      BY <1>2, PoppedOK, OpensNat
    <2> HIDE DEF t
    <2>5. Balanced("WHITESPACE", t)
      BY <1>2, <2>4 DEF Balanced
    <2> QED
      BY <1>3, <2>1, <2>3, <2>5 DEF SpiceStep
  <1> QED
    BY <1>4, <1>5

LEMMA QuoteStep ==
  ASSUME Ready, Begun, Char(i) \notin {"*", "+"}, Spice!Quote
  PROVE  SpiceStep
  <1> DEFINE to == StringEnd(i + 1, {"QUOTE", "'"})
  <1>1. /\ last_nontriv_token # "TITLE" /\ Char(i) \notin {"SP", "CR", "NL", "EOF"}
        /\ i \in Nat /\ End \in Nat /\ i + 1 \in 1..End
        /\ ~lexed_nontriv_token_line => Spice!Stack = << >>
    BY BegunChar
  <1>2. to = 0 \/ to \in (i + 2)..End
    <2>1. to = 0 \/ to \in (i + 1 + 1)..End
      BY <1>1, StringEndOK DEF Ready
    <2> HIDE DEF to
    <2> QED
      BY <1>1, <2>1
  <1>3. \/ to = 0 /\ Spice!Emit("EOF_STRING", End, Spice!Stack)
        \/ to # 0 /\ Spice!Emit("STRING", to, Spice!Stack)
    BY SameCursor, SameEnds DEF Spice!Quote
  <1> HIDE DEF to
  <1>4. CASE to = 0
    <2>1. Read("EOF_STRING", End)
      BY <1>1, NextChar DEF Read, ReadAt, Ready
    <2>2. Balanced("EOF_STRING", Spice!Stack) /\ Placed("EOF_STRING")
      BY <1>1, KeepsBalance DEF Placed
    <2> QED
      BY <1>3, <1>4, <2>1, <2>2 DEF SpiceStep
  <1>5. CASE to # 0
    <2>1. Read("STRING", to)
      BY <1>1, <1>2, <1>5 DEF Read, ReadAt, Ready
    <2>2. Balanced("STRING", Spice!Stack) /\ Placed("STRING")
      BY <1>1, KeepsBalance DEF Placed
    <2> QED
      BY <1>3, <1>5, <2>1, <2>2 DEF SpiceStep
  <1> QED
    BY <1>4, <1>5

LEMMA NumberStep ==
  ASSUME Ready, Begun, Char(i) \notin {"*", "+"}, Spice!Number
  PROVE  SpiceStep
  <1> DEFINE more == IF Spice!Stack = << >> THEN Spice!InstanceChars ELSE Spice!IdentifierChars
             to == NumberEnd(i + 1, Spice!LogicChars, more)
  <1>1. /\ Char(i) \notin {"SP", "CR", "NL", "EOF"}
        /\ i \in Nat /\ End \in Nat /\ i + 1 \in 1..End
        /\ Char(i) # "+" /\ ~lexed_nontriv_token_line => Spice!Stack = << >>
    BY BegunChar
  <1>2. "NL" \notin more /\ "EOF" \notin more
    BY SpiceSets
  <1>3. Spice!Emit("NUMBER", to, Spice!Stack)
    BY SameEnds DEF Spice!Number
  <1> HIDE DEF more
  <1>4. to \in (i + 1)..End /\ OneLine(i + 1, to)
    BY <1>1, <1>2, SpiceSets, NumberEndOK DEF Ready
  <1> HIDE DEF to
  <1>5. OneLine(i, to)
    <2>1. \A q \in i..(to - 1) : q = i \/ q \in (i + 1)..(to - 1)
      BY <1>1, <1>4
    <2> QED
      BY <1>1, <1>4, <2>1 DEF OneLine
  <1>6. Read("NUMBER", to)
    BY <1>1, <1>4, <1>5, PlainRead DEF Ordinary
  <1>7. Balanced("NUMBER", Spice!Stack) /\ Placed("NUMBER")
    BY <1>1, KeepsBalance, BegunChar DEF Placed
  <1> QED
    BY <1>3, <1>6, <1>7 DEF SpiceStep

(* The end of the text is reached, or the end of the line.                 *)
LEMMA PastLine ==
  ASSUME IsText(text), NEW q \in 1..End
  PROVE  /\ Past(q, Chars \ {"NL", "CR"}) \in q..End
         /\ OneLine(q, Past(q, Chars \ {"NL", "CR"}))
         /\ Char(Past(q, Chars \ {"NL", "CR"})) \in {"NL", "CR", "EOF"}
  <1>1. /\ End \in Nat /\ \A p \in 1..(End - 1) : Char(p) \in Chars
        /\ Char(End) = "EOF" /\ "EOF" \notin Chars
    BY CharFacts, SpiceSets
  <1>2. PICK to : to = Past(q, Chars \ {"NL", "CR"})
    OBVIOUS
  <1>3. /\ to \in q..End /\ Char(to) \notin Chars \ {"NL", "CR"}
        /\ \A p \in q..(to - 1) : Char(p) \in Chars \ {"NL", "CR"}
    BY <1>1, <1>2, PastOK
  <1>4. Char(to) \in {"NL", "CR", "EOF"}
    BY <1>1, <1>3
  <1> QED
    BY <1>2, <1>3, <1>4 DEF OneLine

LEMMA TitleLineStep == ASSUME Ready, Spice!lex_title_line PROVE SpiceStep
  <1> DEFINE to == Past(i, Chars \ {"NL", "CR"})
  <1>1. last_nontriv_token = "TITLE"
    BY DEF Spice!lex_title_line, Spice!TitleLine
  <1>2. Spice!Stack = lexing_expression_stack
    BY <1>1, Zenon DEF Spice!Stack, Ready
  <1>3. Spice!Emit("TITLE_LINE", to, Spice!Stack)
    BY <1>2, SameCursor DEF Spice!lex_title_line
  <1>4. /\ to \in i..End /\ OneLine(i, to)
        /\ Char(to) \in {"NL", "CR", "EOF"}
    BY PastLine DEF Ready
  <1> HIDE DEF to
  <1>5. Read("TITLE_LINE", to)
    BY <1>4 DEF Read, ReadAt, Ready
  <1>6. ~lexed_nontriv_token_line => Spice!Stack = << >>
    BY <1>1, <1>2 DEF Ready
  <1>7. Balanced("TITLE_LINE", Spice!Stack) /\ Placed("TITLE_LINE")
    BY <1>1, <1>6, KeepsBalance DEF Placed
  <1> QED
    BY <1>3, <1>5, <1>7 DEF SpiceStep

LEMMA EndMarkerStep == ASSUME Ready, Spice!EndMarker PROVE SpiceStep
  <1>1. /\ last_nontriv_token # "TITLE" /\ Char(i) = "EOF"
        /\ Spice!Emit("ENDMARKER", i, Spice!Stack)
    BY SameCursor DEF Spice!EndMarker, Spice!Reading, Spice!TitleLine, Spice!c
  <1>2. i = End /\ i \in Nat /\ End \in Nat
    BY <1>1, NextChar DEF Ready
  <1>3. Read("ENDMARKER", i)
    BY <1>1, <1>2 DEF Read, ReadAt, Ready, OneLine
  <1>4. Balanced("ENDMARKER", Spice!Stack) /\ Placed("ENDMARKER")
    BY <1>1, KeepsBalance, StackCleared DEF Placed
  <1> QED
    BY <1>1, <1>3, <1>4 DEF SpiceStep

LEMMA NewlineStep == ASSUME Ready, Spice!lex_newline PROVE SpiceStep
  <1> DEFINE stack == Spice!Popped(Spice!Stack, "EQ")
  <1>1. last_nontriv_token # "TITLE" /\ i \in Nat /\ End \in Nat
    BY NextChar DEF Spice!lex_newline, Spice!Reading, Spice!TitleLine, Ready
  <1>2. stack \in Seq(Delimiters) /\ Opens(stack) <= Opens(Spice!Stack)
    BY StackOK, PoppedOK
  <1>3. \/ Char(i) = "NL" /\ Spice!Emit("NEWLINE", i + 1, stack)
        \/ Char(i) = "CR" /\ Char(i + 1) = "NL" /\ Spice!Emit("NEWLINE", i + 2, stack)
        \/ Char(i) = "CR" /\ Spice!Emit("WHITESPACE", i + 1, stack)
    <2>1. Spice!Reads(i, <<"CR", "NL">>) => Char(i) = "CR" /\ Char(i + 1) = "NL"
      <3>1. SUFFICES ASSUME Spice!Reads(i, <<"CR", "NL">>)
                     PROVE  Char(i) = "CR" /\ Char(i + 1) = "NL"
        OBVIOUS
      <3>2. \A k \in 1..2 : Char(i + k - 1) = <<"CR", "NL">>[k]
        BY <3>1, SameCursor DEF Reads
      <3>3. Char(i + 1 - 1) = "CR" /\ Char(i + 2 - 1) = "NL"
        BY <3>2
      <3>4. i + 1 - 1 = i /\ i + 2 - 1 = i + 1
        BY <1>1
      <3> QED
        BY <3>3, <3>4
    <2> QED
      BY <2>1, SameCursor DEF Spice!lex_newline, Spice!c
  <1> HIDE DEF stack
  <1>4. Placed("NEWLINE") /\ Placed("WHITESPACE")
    BY <1>1, <1>3 DEF Placed, Triv
  <1>5. Balanced("NEWLINE", stack) /\ Balanced("WHITESPACE", stack)
    BY <1>2 DEF Balanced
  <1>6. CASE Char(i) = "NL" /\ Spice!Emit("NEWLINE", i + 1, stack)
    <2>1. Read("NEWLINE", i + 1)
      BY <1>1, <1>6, NextChar DEF Read, ReadAt, Ready
    <2> QED
      BY <1>4, <1>5, <1>6, <2>1 DEF SpiceStep
  <1>7. CASE Char(i) = "CR" /\ Char(i + 1) = "NL" /\ Spice!Emit("NEWLINE", i + 2, stack)
    <2>1. Read("NEWLINE", i + 2)
      BY <1>1, <1>7, NextChar DEF Read, ReadAt, Ready
    <2> QED
      BY <1>4, <1>5, <1>7, <2>1 DEF SpiceStep
  <1>8. CASE Char(i) = "CR" /\ Spice!Emit("WHITESPACE", i + 1, stack)
    <2>1. Read("WHITESPACE", i + 1)
      BY <1>1, <1>8, OneChar, PlainRead DEF Ordinary
    <2> QED
      BY <1>4, <1>5, <1>8, <2>1 DEF SpiceStep
  <1> QED
    BY <1>3, <1>6, <1>7, <1>8

LEMMA SpaceStep == ASSUME Ready, Spice!lex_whitespace PROVE SpiceStep
  <1>1. Char(i) \notin {"NL", "EOF", "*"}
    BY SameCursor DEF Spice!lex_whitespace, Spice!Separates, Spice!c, Spice!Separators,
       Spice!Blanks
  <1>2. Spice!Reading /\ Spice!Whitespace(Spice!Stack)
    BY DEF Spice!lex_whitespace
  <1> QED
    BY <1>1, <1>2, StackOK, WhitespaceStep

LEMMA PathStep == ASSUME Ready, Spice!lex_path PROVE SpiceStep
  <1>1. Begun /\ last_nontriv_token \in PathKinds /\ Spice!Stack = << >>
    BY DEF Spice!lex_path, Begun, Spice!PathMode, PathKinds
  <1>2. CASE Char(i) \in {"QUOTE", "'"}
    <2>1. Spice!Quote
      BY <1>2, SameCursor DEF Spice!lex_path, Spice!c
    <2> QED
      BY <1>1, <1>2, <2>1, QuoteStep
  <1>3. CASE Char(i) \notin {"QUOTE", "'"}
    <2> DEFINE S == Chars \ ({"NL"} \cup Spice!Blanks)
    <2>1. Spice!Emit("IDENTIFIER", Past(i + 1, S), Spice!Stack)
      BY <1>3, SameCursor DEF Spice!lex_path, Spice!c
    <2>2. "NL" \notin S /\ "EOF" \notin S
      BY SpiceSets
    <2>3. Char(i) \notin {"NL", "EOF"}
      BY <1>1, BegunChar
    <2>4. Past(i + 1, S) \in (i + 1)..End /\ OneLine(i, Past(i + 1, S))
      BY <2>2, <2>3, Run
    <2>5. Balanced("IDENTIFIER", Spice!Stack)
      BY KeepsBalance
    <2> HIDE DEF S
    <2> QED
      BY <1>1, <2>1, <2>4, <2>5, TokenStep DEF Ordinary
  <1> QED
    BY <1>2, <1>3

(* A step on what neither separates tokens nor is a path.                  *)
LEMMA SeesBegun ==
  ASSUME NEW S, Spice!Sees(S)
  PROVE  Begun /\ Char(i) \in S
  BY SameCursor DEF Spice!Sees, Spice!Unread, Begun, Spice!c

LEMMA InstanceStep == ASSUME Ready, Spice!lex_instance PROVE SpiceStep
  <1>1. Begun
    BY DEF Spice!lex_instance, Spice!Unread, Begun
  <1>2. Char(i) \notin {"NL", "EOF", "+", "*"}
    BY SameCursor DEF Spice!lex_instance, Spice!c, Spice!Latin
  <1> DEFINE to == Past(i + 1, Spice!InstanceChars)
  <1>3. \/ Spice!Emit("ERROR", i + 1, Spice!Stack)
        \/ Spice!Emit("SIMULATOR", to, Spice!Stack)
        \/ Spice!Emit("INSTANCE", to, Spice!Stack)
    BY SameCursor DEF Spice!lex_instance
  <1>4. to \in (i + 1)..End /\ OneLine(i, to)
    BY <1>2, SpiceSets, Run
  <1>5. i + 1 \in (i + 1)..End /\ OneLine(i, i + 1)
    BY <1>2, OneChar
  <1>6. /\ Balanced("ERROR", Spice!Stack) /\ Balanced("SIMULATOR", Spice!Stack)
        /\ Balanced("INSTANCE", Spice!Stack)
    BY KeepsBalance
  <1> HIDE DEF to
  <1> QED
    BY <1>1, <1>2, <1>3, <1>4, <1>5, <1>6, TokenStep DEF Ordinary

LEMMA SlashStep == ASSUME Ready, Spice!lex_slash PROVE SpiceStep
  <1>1. Begun /\ Char(i) = "/"
    BY SeesBegun DEF Spice!lex_slash
  <1>2. Spice!Comment \/ Spice!Emit("SLASH", i + 1, Spice!Stack)
    BY DEF Spice!lex_slash
  <1>3. i + 1 \in (i + 1)..End /\ OneLine(i, i + 1) /\ Balanced("SLASH", Spice!Stack)
    BY <1>1, OneChar, KeepsBalance
  <1> QED
    BY <1>1, <1>2, <1>3, CommentStep, TokenStep DEF Ordinary

LEMMA SemicolonStep == ASSUME Ready, Spice!lex_semicolon PROVE SpiceStep
  BY SeesBegun, CommentStep DEF Spice!lex_semicolon

LEMMA DollarStep == ASSUME Ready, Spice!lex_dollar PROVE SpiceStep
  <1>1. Begun /\ Char(i) = "$"
    BY SeesBegun DEF Spice!lex_dollar
  <1> DEFINE stack == Append(Spice!Stack, "JULIA_ESCAPE_BEGIN")
  <1>2. \/ Char(i + 1) = "(" /\ Spice!Emit("JULIA_ESCAPE_BEGIN", i + 2, stack)
        \/ Spice!Comment
    BY SameCursor DEF Spice!lex_dollar
  <1>3. CASE Char(i + 1) = "(" /\ Spice!Emit("JULIA_ESCAPE_BEGIN", i + 2, stack)
    <2>1. i + 2 \in (i + 1)..End /\ OneLine(i, i + 2)
      BY <1>1, <1>3, TwoChars
    <2>2. Balanced("JULIA_ESCAPE_BEGIN", stack)
      <3>1. "JULIA_ESCAPE_BEGIN" \in Delimiters
        BY DEF Delimiters
      <3>2. stack \in Seq(Delimiters) /\ Opens(stack) = Opens(Spice!Stack) + 1
            /\ Opens(Spice!Stack) \in Nat
        BY <3>1, StackOK, Pushed
      <3> QED
        BY <3>2 DEF Balanced
    <2> HIDE DEF stack
    <2> QED
      BY <1>1, <1>3, <2>1, <2>2, TokenStep DEF Ordinary
  <1> QED
    BY <1>1, <1>2, <1>3, CommentStep

LEMMA StarStep == ASSUME Ready, Spice!lex_star PROVE SpiceStep
  <1>1. Begun /\ Char(i) = "*"
    BY SeesBegun DEF Spice!lex_star
  <1>2. CASE ~lexed_nontriv_token_line
    <2>1. Spice!Comment
      BY <1>2, Zenon DEF Spice!lex_star
    <2> QED
      BY <1>1, <2>1, CommentStep
  <1>3. CASE lexed_nontriv_token_line
    <2>1. \/ Spice!Char(i + 1) = "*" /\ Spice!Emit("STAR_STAR", i + 2, Spice!Stack)
          \/ Spice!Emit("STAR", i + 1, Spice!Stack)
      BY <1>3, Zenon DEF Spice!lex_star
    <2>2. \/ Char(i + 1) = "*" /\ Spice!Emit("STAR_STAR", i + 2, Spice!Stack)
          \/ Spice!Emit("STAR", i + 1, Spice!Stack)
      BY <2>1, SameCursor
    <2>3. Balanced("STAR", Spice!Stack) /\ Balanced("STAR_STAR", Spice!Stack)
      BY KeepsBalance
    <2>4. CASE Char(i + 1) = "*" /\ Spice!Emit("STAR_STAR", i + 2, Spice!Stack)
      <3>1. i + 2 \in (i + 1)..End /\ OneLine(i, i + 2)
        BY <1>1, <2>4, TwoChars
      <3> QED
        BY <1>1, <1>3, <2>3, <2>4, <3>1, TokenStep DEF Ordinary
    <2>5. CASE Spice!Emit("STAR", i + 1, Spice!Stack)
      <3>1. i + 1 \in (i + 1)..End /\ OneLine(i, i + 1)
        BY <1>1, OneChar
      <3> QED
        BY <1>1, <1>3, <2>3, <2>5, <3>1, TokenStep DEF Ordinary
    <2> QED
      BY <2>2, <2>4, <2>5
  <1> QED
    BY <1>2, <1>3

LEMMA ReadsReturn ==
  ASSUME NEW p \in Nat, Reads(p, <<"CR", "NL">>)
  PROVE  Char(p) = "CR" /\ Char(p + 1) = "NL"
  <1>1. \A k \in 1..2 : Char(p + k - 1) = <<"CR", "NL">>[k]
    BY DEF Reads
  <1>2. Char(p + 1 - 1) = "CR" /\ Char(p + 2 - 1) = "NL"
    BY <1>1
  <1>3. p + 1 - 1 = p /\ p + 2 - 1 = p + 1
    OBVIOUS
  <1> QED
    BY <1>2, <1>3

(* A backslash: whatever it escapes is read with it.                       *)
LEMMA EscapeRead ==
  ASSUME Ready, Char(i) = "BACKSLASH", NEW to \in (i + 1)..End
  PROVE  Read("IDENTIFIER", to) /\ Read("ESCD_NEWLINE", to)
  BY NextChar DEF Read, ReadAt, Ready

LEMMA EscapeStep ==
  ASSUME Ready, Begun, Char(i) = "BACKSLASH", NEW to \in (i + 1)..End,
         \/ Spice!Emit("IDENTIFIER", to, Spice!Stack)
         \/ Spice!Emit("ESCD_NEWLINE", to, Spice!Stack)
  PROVE  SpiceStep
  <1>1. Read("IDENTIFIER", to) /\ Read("ESCD_NEWLINE", to)
    BY EscapeRead
  <1>2. Balanced("IDENTIFIER", Spice!Stack) /\ Balanced("ESCD_NEWLINE", Spice!Stack)
    BY KeepsBalance
  <1>3. Placed("IDENTIFIER") /\ Placed("ESCD_NEWLINE")
    BY BegunChar DEF Placed
  <1> QED
    BY <1>1, <1>2, <1>3 DEF SpiceStep

LEMMA BackslashStep == ASSUME Ready, Spice!lex_backslash PROVE SpiceStep
  <1>1. Begun /\ Char(i) = "BACKSLASH"
    BY SeesBegun DEF Spice!lex_backslash
  <1>2. IsText(text) /\ i \in Nat /\ End \in Nat /\ i + 1 \in 1..End
    BY <1>1, BegunChar DEF Ready
  <1> DEFINE p == IF Char(i + 1) = "CR" /\ Char(i + 2) # "NL" THEN i + 2 ELSE i + 1
             b == Past(p, {"SP"})
             name == Chars \ (IF Spice!Stack = << >> THEN Spice!Separators ELSE Spice!Blanks)
  <1>3. \/ Char(b) = "NL" /\ Spice!Emit("ESCD_NEWLINE", b + 1, Spice!Stack)
        \/ Reads(b, <<"CR", "NL">>) /\ Spice!Emit("ESCD_NEWLINE", b + 2, Spice!Stack)
        \/ Spice!Emit("IDENTIFIER", Past(p, name), Spice!Stack)
    BY SameCursor DEF Spice!lex_backslash
  <1>4. "EOF" \notin name
    BY SpiceSets
  <1>5. p \in (i + 1)..End
    BY <1>2, ReadOn
  <1> HIDE DEF p, name
  <1>6. Past(p, name) \in p..End /\ b \in p..End
    BY <1>2, <1>4, <1>5, PastOK
  <1> HIDE DEF b
  <1>7. /\ Past(p, name) \in (i + 1)..End /\ b \in Nat
        /\ Char(b) # "EOF" => b + 1 \in (i + 1)..End
        /\ (Char(b) # "EOF" /\ Char(b + 1) # "EOF") => b + 2 \in (i + 1)..End
    BY <1>2, <1>5, <1>6, CharFacts
  <1>8. Reads(b, <<"CR", "NL">>) => b + 2 \in (i + 1)..End
    BY <1>7, ReadsReturn
  <1> QED
    BY <1>1, <1>3, <1>7, <1>8, EscapeStep

LEMMA OpenStep == ASSUME Ready, Spice!lex_open PROVE SpiceStep
  <1>1. Begun /\ Char(i) \in Spice!Spellings(Spice!Openers)
    BY SeesBegun DEF Spice!lex_open
  <1> DEFINE kind == KindOf(Spice!Openers, Char(i))
             stack == Append(Spice!Stack, kind)
  <1>2. Spice!Emit(kind, i + 1, stack)
    BY SameCursor DEF Spice!lex_open, Spice!c
  <1>3. \E e \in Spice!Openers : e[1] = Char(i)
    BY <1>1 DEF Spice!Spellings
  <1>4. PICK e \in Spice!Openers : e[1] = Char(i) /\ kind = e[2]
    BY <1>3 DEF KindOf
  <1> HIDE DEF kind
  <1>5. kind \in {"LSQUARE", "LBRACE", "LPAREN"} /\ Char(i) \in {"[", "lbrace", "("}
    BY <1>4 DEF Spice!Openers
  <1>6. kind \in Delimiters /\ kind # "JULIA_ESCAPE_BEGIN" /\ kind # "RPAREN"
    BY <1>5 DEF Delimiters
  <1>7. Balanced(kind, stack)
    <2>1. /\ stack \in Seq(Delimiters) /\ Opens(Spice!Stack) \in Nat
          /\ kind = "LPAREN" => Opens(stack) = Opens(Spice!Stack) + 1
          /\ kind # "LPAREN" => Opens(stack) = Opens(Spice!Stack)
      BY <1>6, StackOK, Pushed
    <2> HIDE DEF stack
    <2> QED
      BY <1>6, <2>1 DEF Balanced
  <1>8. i + 1 \in (i + 1)..End /\ OneLine(i, i + 1)
    BY <1>5, OneChar
  <1>9. Ordinary(kind)
    BY <1>5 DEF Ordinary
  <1> HIDE DEF stack
  <1> QED
    BY <1>1, <1>2, <1>5, <1>7, <1>8, <1>9, TokenStep

LEMMA SquareStep == ASSUME Ready, Spice!lex_rsquare PROVE SpiceStep
  <1>1. Begun /\ Char(i) = "]"
    BY SeesBegun DEF Spice!lex_rsquare
  <1>2. Spice!Emit("RSQUARE", i + 1, Spice!Popped(Spice!Stack, "LSQUARE"))
    BY DEF Spice!lex_rsquare
  <1>3. Balanced("RSQUARE", Spice!Popped(Spice!Stack, "LSQUARE"))
    BY StackOK, PoppedOK DEF Balanced
  <1>4. i + 1 \in (i + 1)..End /\ OneLine(i, i + 1)
    BY <1>1, OneChar
  <1> QED
    BY <1>1, <1>2, <1>3, <1>4, TokenStep DEF Ordinary

LEMMA BraceStep == ASSUME Ready, Spice!lex_rbrace PROVE SpiceStep
  <1> DEFINE inner == Spice!Popped(Spice!Stack, "LBRACE")
             stack == Spice!Popped(inner, "EQ")
  <1>1. Begun /\ Char(i) = "rbrace"
    BY SeesBegun DEF Spice!lex_rbrace
  <1>2. Spice!Emit("RBRACE", i + 1, stack)
    BY DEF Spice!lex_rbrace
  <1>3. inner \in Seq(Delimiters) /\ Opens(inner) \in Nat /\ Opens(inner) <= Opens(Spice!Stack)
    BY StackOK, PoppedOK, OpensNat
  <1> HIDE DEF inner
  <1>4. stack \in Seq(Delimiters) /\ Opens(stack) \in Nat /\ Opens(stack) <= Opens(inner)
    BY <1>3, PoppedOK, OpensNat
  <1> HIDE DEF stack
  <1>5. Balanced("RBRACE", stack)
    BY <1>3, <1>4, StackOK DEF Balanced
  <1>6. i + 1 \in (i + 1)..End /\ OneLine(i, i + 1)
    BY <1>1, OneChar
  <1> QED
    BY <1>1, <1>2, <1>5, <1>6, TokenStep DEF Ordinary

LEMMA ParenStep == ASSUME Ready, Spice!lex_rparen PROVE SpiceStep
  <1>1. Begun /\ Char(i) = ")"
    BY SeesBegun DEF Spice!lex_rparen
  <1>2. /\ Spice!Stack \in Seq(Delimiters) /\ Opens(Spice!Stack) \in Nat
        /\ Spice!Reading
    BY <1>1, StackOK DEF Begun
  <1>3. CASE Spice!TopIs(Spice!Stack, "LPAREN") \/ Spice!TopIs(Spice!Stack, "JULIA_ESCAPE_BEGIN")
    <2>1. Spice!Emit("RPAREN", i + 1, Spice!Front(Spice!Stack))
      BY <1>3 DEF Spice!lex_rparen
    <2>2. /\ Spice!Stack # << >>
          /\ Spice!Last(Spice!Stack) \in {"LPAREN", "JULIA_ESCAPE_BEGIN"}
      BY <1>3 DEF Spice!TopIs
    <2>3. Balanced("RPAREN", Spice!Front(Spice!Stack))
      BY <1>2, <2>2, Closed DEF Balanced
    <2>4. i + 1 \in (i + 1)..End /\ OneLine(i, i + 1)
      BY <1>1, OneChar
    <2> QED
      BY <1>1, <2>1, <2>3, <2>4, TokenStep DEF Ordinary
  <1>4. CASE ~(\/ Spice!TopIs(Spice!Stack, "LPAREN")
               \/ Spice!TopIs(Spice!Stack, "JULIA_ESCAPE_BEGIN"))
    <2>1. Spice!Whitespace(Spice!Stack)
      BY <1>4 DEF Spice!lex_rparen
    <2> QED
      BY <1>1, <1>2, <2>1, WhitespaceStep
  <1> QED
    BY <1>3, <1>4

LEMMA CommaStep == ASSUME Ready, Spice!lex_comma PROVE SpiceStep
  <1>1. Begun /\ Char(i) = "comma"
    BY SeesBegun DEF Spice!lex_comma
  <1>2. /\ Spice!Stack \in Seq(Delimiters) /\ Opens(Spice!Stack) \in Nat
        /\ Spice!Reading
    BY <1>1, StackOK DEF Begun
  <1>3. CASE Spice!TopIs(Spice!Stack, "EQ")
    <2>1. Spice!Whitespace(Spice!Front(Spice!Stack))
      BY <1>3 DEF Spice!lex_comma
    <2>2. Spice!Front(Spice!Stack) \in Seq(Delimiters)
          /\ Opens(Spice!Front(Spice!Stack)) <= Opens(Spice!Stack)
      BY <1>2, <1>3, Closed DEF Spice!TopIs
    <2> QED
      BY <1>1, <1>2, <2>1, <2>2, WhitespaceStep
  <1>4. CASE ~Spice!TopIs(Spice!Stack, "EQ")
    <2>1. Spice!Emit("COMMA", i + 1, Spice!Stack)
      BY <1>4 DEF Spice!lex_comma
    <2>2. i + 1 \in (i + 1)..End /\ OneLine(i, i + 1) /\ Balanced("COMMA", Spice!Stack)
      BY <1>1, OneChar, KeepsBalance
    <2> QED
      BY <1>1, <2>1, <2>2, TokenStep DEF Ordinary
  <1> QED
    BY <1>3, <1>4

LEMMA EqualStep == ASSUME Ready, Spice!lex_equal PROVE SpiceStep
  <1>1. Begun /\ Char(i) = "="
    BY SeesBegun DEF Spice!lex_equal
  <1> DEFINE stack == IF Spice!Stack = << >> THEN <<"EQ">> ELSE Spice!Stack
  <1>2. \/ Spice!Emit("EQ", i + 1, stack)
        \/ /\ Char(i + 1) = "=" /\ Char(i + 2) = "="
           /\ Spice!Emit("EQEQEQ", i + 3, Spice!Stack)
        \/ Char(i + 1) = "=" /\ Spice!Emit("EQEQ", i + 2, Spice!Stack)
    BY SameCursor DEF Spice!lex_equal
  <1>3. Balanced("EQEQEQ", Spice!Stack) /\ Balanced("EQEQ", Spice!Stack)
    BY KeepsBalance
  <1>4. Balanced("EQ", stack)
    <2>1. CASE Spice!Stack = << >>
      <3>1. /\ "EQ" \in Delimiters /\ << >> \in Seq(Delimiters) /\ Opens(<< >>) = 0
            /\ Append(<< >>, "EQ") = <<"EQ">>
        BY EmptyStack DEF Delimiters
      <3>2. <<"EQ">> \in Seq(Delimiters) /\ Opens(<<"EQ">>) = 0
        BY <3>1, Pushed
      <3> QED
        BY <2>1, <3>1, <3>2 DEF Balanced
    <2>2. CASE Spice!Stack # << >>
      BY <2>2, KeepsBalance
    <2> QED
      BY <2>1, <2>2
  <1> HIDE DEF stack
  <1>5. CASE Spice!Emit("EQ", i + 1, stack)
    <2>1. i + 1 \in (i + 1)..End /\ OneLine(i, i + 1)
      BY <1>1, OneChar
    <2> QED
      BY <1>1, <1>4, <1>5, <2>1, TokenStep DEF Ordinary
  <1>6. CASE Char(i + 1) = "=" /\ Char(i + 2) = "=" /\ Spice!Emit("EQEQEQ", i + 3, Spice!Stack)
    <2>1. i + 3 \in (i + 1)..End /\ OneLine(i, i + 3)
      BY <1>1, <1>6, ThreeChars
    <2> QED
      BY <1>1, <1>3, <1>6, <2>1, TokenStep DEF Ordinary
  <1>7. CASE Char(i + 1) = "=" /\ Spice!Emit("EQEQ", i + 2, Spice!Stack)
    <2>1. i + 2 \in (i + 1)..End /\ OneLine(i, i + 2)
      BY <1>1, <1>7, TwoChars
    <2> QED
      BY <1>1, <1>3, <1>7, <2>1, TokenStep DEF Ordinary
  <1> QED
    BY <1>2, <1>5, <1>6, <1>7

LEMMA PrimeStep == ASSUME Ready, Spice!lex_prime PROVE SpiceStep
  <1>1. Begun /\ Char(i) \in {"'", "QUOTE"}
    BY SeesBegun DEF Spice!lex_prime
  <1> DEFINE stack == IF Spice!TopIs(Spice!Stack, "PRIME")
                      THEN Spice!Popped(Spice!Front(Spice!Stack), "EQ")
                      ELSE Append(Spice!Stack, "PRIME")
  <1>2. Spice!Number \/ Spice!Quote \/ Spice!Emit("PRIME", i + 1, stack)
    BY DEF Spice!lex_prime
  <1>3. CASE Spice!Emit("PRIME", i + 1, stack)
    <2>1. Spice!Stack \in Seq(Delimiters) /\ Opens(Spice!Stack) \in Nat
      BY StackOK
    <2>2. stack \in Seq(Delimiters) /\ Opens(stack) <= Opens(Spice!Stack)
      <3>1. CASE Spice!TopIs(Spice!Stack, "PRIME")
        <4>1. PICK front : /\ front = Spice!Front(Spice!Stack) /\ front \in Seq(Delimiters)
                           /\ Opens(front) <= Opens(Spice!Stack)
          BY <2>1, <3>1, Closed DEF Spice!TopIs
        <4>2. /\ Spice!Popped(front, "EQ") \in Seq(Delimiters)
              /\ Opens(Spice!Popped(front, "EQ")) <= Opens(front)
              /\ Opens(Spice!Popped(front, "EQ")) \in Nat /\ Opens(front) \in Nat
          BY <4>1, PoppedOK, OpensNat
        <4>3. stack = Spice!Popped(front, "EQ")
          BY <3>1, <4>1
        <4> HIDE DEF stack
        <4> QED
          BY <2>1, <4>1, <4>2, <4>3
      <3>2. CASE ~Spice!TopIs(Spice!Stack, "PRIME")
        <4>1. "PRIME" \in Delimiters
          BY DEF Delimiters
        <4>2. stack = Append(Spice!Stack, "PRIME")
          BY <3>2
        <4> HIDE DEF stack
        <4> QED
          BY <2>1, <4>1, <4>2, Pushed
      <3> QED
        BY <3>1, <3>2
    <2> HIDE DEF stack
    <2>3. Balanced("PRIME", stack)
      BY <2>2 DEF Balanced
    <2>4. i + 1 \in (i + 1)..End /\ OneLine(i, i + 1)
      BY <1>1, OneChar
    <2> QED
      BY <1>1, <1>3, <2>3, <2>4, TokenStep DEF Ordinary
  <1> QED
    BY <1>1, <1>2, <1>3, NumberStep, QuoteStep

LEMMA NumberActionStep == ASSUME Ready, Spice!lex_number PROVE SpiceStep
  <1>1. Begun /\ Char(i) \in Spice!Digits /\ Spice!Number
    BY SeesBegun DEF Spice!lex_number
  <1>2. Char(i) \notin {"*", "+"}
    BY <1>1 DEF Spice!Digits
  <1> QED
    BY <1>1, <1>2, NumberStep

LEMMA DotStep == ASSUME Ready, Spice!lex_dot PROVE SpiceStep
  <1>1. Begun /\ Char(i) = "."
    BY SeesBegun DEF Spice!lex_dot
  <1>2. Spice!Number \/ Spice!Emit("DOT", i + 1, Spice!Stack)
    BY DEF Spice!lex_dot
  <1>3. i + 1 \in (i + 1)..End /\ OneLine(i, i + 1) /\ Balanced("DOT", Spice!Stack)
    BY <1>1, OneChar, KeepsBalance
  <1> QED
    BY <1>1, <1>2, <1>3, NumberStep, TokenStep DEF Ordinary

LEMMA SpiceLookup ==
  \A word : /\ Ordinary(Spice!Lookup(word))
            /\ Spice!Lookup(word) \notin {"RPAREN", "LPAREN", "JULIA_ESCAPE_BEGIN"}
  <1> TAKE word
  <1> DEFINE all == {w \in Spice!Spellings(Spice!Keywords) : Spice!IsPrefix(word, w)}
             common == {w \in all : \A v \in all : Spice!IsPrefix(w, v)}
             found == CHOOSE w \in common : TRUE
  <1>1. Spice!Lookup(word) =
          IF common = {} THEN "IDENTIFIER" ELSE Spice!KindOf(Spice!Keywords, found)
    BY DEF Spice!Lookup
  <1>2. common # {} => found \in Spice!Spellings(Spice!Keywords)
    <2>1. common # {} => found \in common
      OBVIOUS
    <2> QED
      BY <2>1
  <1> HIDE DEF common, found
  <1>3. common # {} => \E e \in Spice!Keywords : Spice!KindOf(Spice!Keywords, found) = e[2]
    BY <1>2 DEF Spice!Spellings, Spice!KindOf
  <1>4. \A e \in Spice!Keywords : Ordinary(e[2]) /\ e[2] \notin {"RPAREN", "LPAREN", "JULIA_ESCAPE_BEGIN"}
    BY DEF Spice!Keywords, Ordinary
  <1>5. Ordinary("IDENTIFIER")
    BY DEF Ordinary
  <1> QED
    BY <1>1, <1>3, <1>4, <1>5

LEMMA IdentifierStep == ASSUME Ready, Spice!lex_identifier PROVE SpiceStep
  <1>1. Begun /\ Char(i) \in Spice!IdentifierStart
    BY SeesBegun DEF Spice!lex_identifier
  <1>2. Char(i) \notin {"+", "*", "NL", "EOF"}
    BY <1>1 DEF Spice!IdentifierStart, Spice!Letters, Spice!Latin
  <1> DEFINE S == IF Spice!Stack = << >> THEN Spice!InstanceChars ELSE Spice!IdentifierChars
             to == Past(i + 1, S)
             kind == Spice!Lookup(SubSeq(text.chars, i, to - 1))
             deeper == last_nontriv_token = "DOT" /\ kind \in {"PARAMETERS", "IC", "IF"}
             stack == IF deeper THEN Append(Spice!Stack, kind) ELSE Spice!Stack
  <1>3. Spice!Emit(kind, to, stack)
    BY SameCursor DEF Spice!lex_identifier
  <1>4. "NL" \notin S /\ "EOF" \notin S
    BY SpiceSets
  <1> HIDE DEF S
  <1>5. to \in (i + 1)..End /\ OneLine(i, to)
    BY <1>2, <1>4, Run
  <1> HIDE DEF to
  <1>6. Ordinary(kind) /\ kind \notin {"RPAREN", "LPAREN", "JULIA_ESCAPE_BEGIN"}
    BY SpiceLookup
  <1> HIDE DEF kind
  <1>7. Spice!Stack \in Seq(Delimiters) /\ Opens(Spice!Stack) \in Nat
    BY StackOK
  <1>8. Balanced(kind, stack)
    <2>1. CASE deeper
      <3>1. kind \in Delimiters
        BY <2>1 DEF Delimiters
      <3>2. stack = Append(Spice!Stack, kind)
        BY <2>1
      <3> HIDE DEF stack
      <3> QED
        BY <1>6, <1>7, <3>1, <3>2, Pushed DEF Balanced
    <2>2. CASE ~deeper
      <3>1. stack = Spice!Stack
        BY <2>2
      <3> HIDE DEF stack
      <3> QED
        BY <1>6, <3>1, KeepsBalance
    <2> QED
      BY <2>1, <2>2
  <1> HIDE DEF stack
  <1> QED
    BY <1>1, <1>2, <1>3, <1>5, <1>6, <1>8, TokenStep

LEMMA OperatorStep == ASSUME Ready, Spice!lex_operator PROVE SpiceStep
  <1> DEFINE s == Longest(Spellings(Spice!Operators))
             kind == KindOf(Spice!Operators, s)
  <1>1. Begun /\ Char(i) \in {Head(t) : t \in Spellings(Spice!Operators)}
    BY SeesBegun, SameCursor DEF Spice!lex_operator
  <1>2. Spice!Emit(kind, i + Len(s), Spice!Stack)
    BY SameCursor DEF Spice!lex_operator
  <1>3. /\ i + Len(s) \in (i + 1)..End
        /\ OneLine(i, i + Len(s))
        /\ \E e \in Spice!Operators : kind = e[2] /\ e[1][1] = Char(i)
    BY <1>1, SpiceOperators, LongestOK DEF Ready
  <1>4. PICK e \in Spice!Operators : kind = e[2] /\ e[1][1] = Char(i)
    BY <1>3
  <1> HIDE DEF s, kind
  <1>5. /\ Ordinary(kind) /\ kind \notin {"LPAREN", "RPAREN", "JULIA_ESCAPE_BEGIN"}
        /\ Char(i) = "+" => kind = "PLUS"
        /\ Char(i) # "*"
    <2>1. SpelledOut(e) /\ e[2] \notin {"LPAREN", "RPAREN", "JULIA_ESCAPE_BEGIN"}
      BY SpiceOperators
    <2>2. e[1][1] # "*"
      BY <2>1 DEF SpelledOut
    <2> QED
      BY <1>4, <2>1, <2>2 DEF SpelledOut
  <1>6. Balanced(kind, Spice!Stack)
    BY <1>5, KeepsBalance
  <1> QED
    BY <1>1, <1>2, <1>3, <1>5, <1>6, TokenStep

(* Every step of the SPICE lexer.                                          *)
LEMMA SpiceTokenStep ==
  ASSUME Ready, SpiceToken
  PROVE  SpiceStep /\ Spice!Running
  <1>1. Spice!Running
    BY DEF SpiceToken, Spice!lex_title_line, Spice!EndMarker, Spice!lex_newline,
       Spice!lex_whitespace, Spice!lex_path, Spice!lex_instance, Spice!lex_slash,
       Spice!lex_semicolon, Spice!lex_dollar, Spice!lex_star, Spice!lex_backslash,
       Spice!lex_open, Spice!lex_rsquare, Spice!lex_rbrace, Spice!lex_rparen,
       Spice!lex_comma, Spice!lex_equal, Spice!lex_prime, Spice!lex_number, Spice!lex_dot,
       Spice!lex_identifier, Spice!lex_operator, Spice!Sees, Spice!Unread, Spice!Reading
  <1>2. SpiceStep
    BY TitleLineStep, EndMarkerStep, NewlineStep, SpaceStep, PathStep, InstanceStep,
       SlashStep, SemicolonStep, DollarStep, StarStep, BackslashStep, OpenStep, SquareStep,
       BraceStep, ParenStep, CommaStep, EqualStep, PrimeStep, NumberActionStep, DotStep,
       IdentifierStep, OperatorStep DEF SpiceToken
  <1> QED
    BY <1>1, <1>2

-----------------------------------------------------------------------------
(* The steps of the Spectre lexer: outside an encrypted block, which only  *)
(* a line comment opens, and inside one, which a line closes.              *)
Phrase(phrase, to) == \E p \in i..(to - 1) : Char(p) = phrase

SpectreStep ==
  \E kind, to :
    /\ Emitted(kind, to) /\ Read(kind, to) /\ kind # "TITLE_LINE"
    /\ UNCHANGED spice_vars
    /\ ~protected
    /\ protected' \in BOOLEAN
    /\ protected' <=> (kind = "COMMENT" /\ Char(i) = "/" /\ Phrase("sealing", to))
    /\ Char(i) = "*" /\ last_token = "NEWLINE" => kind = "COMMENT"

BlockStep ==
  \E kind, to :
    /\ Emitted(kind, to)
    /\ UNCHANGED spice_vars
    /\ protected
    /\ protected' \in BOOLEAN
    /\ \/ kind = "ENDMARKER" /\ i = End /\ to = i /\ ~protected'
       \/ /\ kind = "COMMENT" /\ Char(i) # "EOF" /\ to \in (i + 1)..End
          /\ protected' <=> ~Phrase("unsealing", to)
          /\ Char(i) = "NL" => to = i + 1

LEMMA SpectreEmits ==
  ASSUME Ready, NEW kind, NEW to, Spectre!Emit(kind, to), Spectre!Running, ~protected,
         Read(kind, to), kind # "TITLE_LINE",
         kind # "COMMENT" \/ Char(i) = "*",
         Char(i) = "*" /\ last_token = "NEWLINE" => kind = "COMMENT"
  PROVE  SpectreStep
  <1>1. Emitted(kind, to) /\ UNCHANGED <<spice_vars, protected>>
    BY SameCursor DEF Spectre!Emit, Spectre!spice_vars, spice_vars
  <1>2. ~protected'
    BY <1>1, Zenon
  <1>3. protected' \in BOOLEAN
    <2>1. protected \in BOOLEAN
      BY DEF Ready
    <2> QED
      BY <1>1, <2>1, Zenon
  <1>4. ~(kind = "COMMENT" /\ Char(i) = "/" /\ Phrase("sealing", to))
    OBVIOUS
  <1> QED
    BY <1>1, <1>2, <1>3, <1>4, Zenon DEF SpectreStep

LEMMA SpectreSees ==
  ASSUME NEW S, Spectre!Sees(S)
  PROVE  Spectre!Running /\ ~protected /\ Char(i) \in S
  BY SameCursor DEF Spectre!Sees, Spectre!c

LEMMA SpectrePlain ==
  ASSUME Ready, NEW kind, NEW to, NEW S, Spectre!Sees(S), Spectre!Emit(kind, to),
         Ordinary(kind), to \in (i + 1)..End, OneLine(i, to),
         Char(i) \notin {"NL", "EOF", "SP"} \/ (Char(i) = "SP" /\ kind = "WHITESPACE"),
         Char(i) # "*" \/ last_token # "NEWLINE"
  PROVE  SpectreStep
  <1>1. Read(kind, to)
    BY PlainRead
  <1> QED
    BY <1>1, SpectreSees, SpectreEmits DEF Ordinary

LEMMA SpectreSets ==
  /\ \A S \in {Spectre!Blanks, Spectre!IdentifierChars, {}} : "NL" \notin S /\ "EOF" \notin S
  /\ "EOF" \notin Chars /\ "EOF" \notin Chars \ {"NL", "CR"}
  BY SpiceSets DEF Spectre!Blanks, Spectre!IdentifierChars, Spectre!Letters, Spectre!Latin,
     Spectre!Digits

LEMMA SpectreEndMarker == ASSUME Ready, Spectre!EndMarker PROVE SpectreStep
  <1>1. Char(i) = "EOF" /\ Spectre!Emit("ENDMARKER", i) /\ Spectre!Running /\ ~protected
    BY SpectreSees DEF Spectre!EndMarker
  <1>2. i = End /\ i \in Nat /\ End \in Nat
    BY <1>1, NextChar DEF Ready
  <1>3. Read("ENDMARKER", i)
    BY <1>1, <1>2 DEF Read, ReadAt, Ready, OneLine
  <1> QED
    BY <1>1, <1>3, SpectreEmits

LEMMA SpectreNewline == ASSUME Ready, Spectre!lex_newline PROVE SpectreStep
  <1>1. Spectre!Running /\ ~protected /\ i \in Nat /\ End \in Nat /\ Spectre!Sees({"NL", "CR"})
    BY SpectreSees, NextChar DEF Spectre!lex_newline, Ready
  <1>2. \/ Char(i) = "NL" /\ Spectre!Emit("NEWLINE", i + 1)
        \/ Char(i) = "CR" /\ Char(i + 1) = "NL" /\ Spectre!Emit("NEWLINE", i + 2)
        \/ Char(i) = "CR" /\ Spectre!Emit("WHITESPACE", i + 1)
    <2>1. Spectre!Reads(i, <<"CR", "NL">>) => Char(i) = "CR" /\ Char(i + 1) = "NL"
      BY <1>1, SameCursor, ReadsReturn
    <2> QED
      BY <2>1, SameCursor DEF Spectre!lex_newline, Spectre!c
  <1>3. CASE Char(i) = "NL" /\ Spectre!Emit("NEWLINE", i + 1)
    <2>1. Read("NEWLINE", i + 1)
      BY <1>1, <1>3, NextChar DEF Read, ReadAt, Ready
    <2> QED
      BY <1>1, <1>3, <2>1, SpectreEmits
  <1>4. CASE Char(i) = "CR" /\ Char(i + 1) = "NL" /\ Spectre!Emit("NEWLINE", i + 2)
    <2>1. Read("NEWLINE", i + 2)
      BY <1>1, <1>4, NextChar DEF Read, ReadAt, Ready
    <2> QED
      BY <1>1, <1>4, <2>1, SpectreEmits
  <1>5. CASE Char(i) = "CR" /\ Spectre!Emit("WHITESPACE", i + 1)
    <2>1. i + 1 \in (i + 1)..End /\ OneLine(i, i + 1)
      BY <1>5, OneChar
    <2> QED
      BY <1>1, <1>5, <2>1, SpectrePlain DEF Ordinary
  <1> QED
    BY <1>2, <1>3, <1>4, <1>5

LEMMA SpectreSpace == ASSUME Ready, Spectre!lex_whitespace PROVE SpectreStep
  <1>1. /\ Char(i) = "SP" /\ Spectre!Sees({"SP"})
        /\ Spectre!Emit("WHITESPACE", Past(i + 1, Spectre!Blanks))
    BY SpectreSees, SameCursor DEF Spectre!lex_whitespace
  <1>2. /\ Past(i + 1, Spectre!Blanks) \in (i + 1)..End
        /\ OneLine(i, Past(i + 1, Spectre!Blanks))
    BY <1>1, SpectreSets, Run
  <1> QED
    BY <1>1, <1>2, SpectrePlain DEF Ordinary

LEMMA SpectreQuote == ASSUME Ready, Spectre!lex_quote PROVE SpectreStep
  <1> DEFINE to == StringEnd(i + 1, {"QUOTE"})
  <1>1. Char(i) = "QUOTE" /\ Spectre!Running /\ ~protected /\ IsText(text)
    BY SpectreSees DEF Spectre!lex_quote, Ready
  <1>2. i \in Nat /\ End \in Nat /\ i + 1 \in 1..End
    BY <1>1, NextChar DEF Ready
  <1>3. to = 0 \/ to \in (i + 2)..End
    <2>1. to = 0 \/ to \in (i + 1 + 1)..End
      BY <1>1, <1>2, StringEndOK
    <2> HIDE DEF to
    <2> QED
      BY <1>2, <2>1
  <1>4. \/ to = 0 /\ Spectre!Emit("EOF_STRING", End)
        \/ to # 0 /\ Spectre!Emit("STRING", to)
    BY SameCursor, SameEnds DEF Spectre!lex_quote
  <1> HIDE DEF to
  <1>5. Read("EOF_STRING", End)
    BY <1>1, <1>2 DEF Read, ReadAt, Ready
  <1>6. to # 0 => Read("STRING", to)
    BY <1>1, <1>2, <1>3 DEF Read, ReadAt, Ready
  <1> QED
    BY <1>1, <1>4, <1>5, <1>6, SpectreEmits

LEMMA SpectreComment ==
  ASSUME Ready, ~protected, Char(i) \in {"/", "*"}
  PROVE  Read("COMMENT", BehindLine(i))
  BY BehindLineOK, NextChar DEF Read, ReadAt, Ready

LEMMA SpectreSlash == ASSUME Ready, Spectre!lex_slash PROVE SpectreStep
  <1>1. Char(i) = "/" /\ Spectre!Running /\ ~protected /\ Spectre!Sees({"/"})
    BY SpectreSees DEF Spectre!lex_slash
  <1>2. CASE Char(i + 1) # "/"
    <2>1. Spectre!Emit("SLASH", i + 1)
      BY <1>2, SameCursor DEF Spectre!lex_slash
    <2>2. i + 1 \in (i + 1)..End /\ OneLine(i, i + 1)
      BY <1>1, OneChar
    <2> QED
      BY <1>1, <2>1, <2>2, SpectrePlain DEF Ordinary
  <1>3. CASE Char(i + 1) = "/"
    <2>1. /\ Emitted("COMMENT", BehindLine(i))
          /\ protected' = Spectre!Holds("sealing", BehindLine(i))
          /\ UNCHANGED spice_vars
      BY <1>3, SameCursor DEF Spectre!lex_slash, Spectre!spice_vars, spice_vars
    <2>2. Spectre!Holds("sealing", BehindLine(i)) <=> Phrase("sealing", BehindLine(i))
      BY SameCursor DEF Spectre!Holds, Phrase
    <2>3. Spectre!Holds("sealing", BehindLine(i)) \in BOOLEAN
      BY DEF Spectre!Holds
    <2>4. protected' \in BOOLEAN /\ (protected' <=> Phrase("sealing", BehindLine(i)))
      BY <2>1, <2>2, <2>3, Zenon
    <2>5. Read("COMMENT", BehindLine(i))
      BY <1>1, SpectreComment
    <2> QED
      BY <1>1, <2>1, <2>4, <2>5, Zenon DEF SpectreStep
  <1> QED
    BY <1>2, <1>3

LEMMA SpectreStar == ASSUME Ready, Spectre!lex_star PROVE SpectreStep
  <1>1. Char(i) = "*" /\ Spectre!Running /\ ~protected /\ Spectre!Sees({"*"})
    BY SpectreSees DEF Spectre!lex_star
  <1>2. \/ last_token = "NEWLINE" /\ Spectre!Emit("COMMENT", BehindLine(i))
        \/ /\ last_token # "NEWLINE" /\ Char(i + 1) = "*"
           /\ Spectre!Emit("STAR_STAR", i + 2)
        \/ last_token # "NEWLINE" /\ Spectre!Emit("STAR", i + 1)
    BY SameCursor DEF Spectre!lex_star
  <1>3. CASE last_token = "NEWLINE" /\ Spectre!Emit("COMMENT", BehindLine(i))
    <2>1. Read("COMMENT", BehindLine(i))
      BY <1>1, SpectreComment
    <2> QED
      BY <1>1, <1>3, <2>1, SpectreEmits
  <1>4. CASE /\ last_token # "NEWLINE" /\ Char(i + 1) = "*"
             /\ Spectre!Emit("STAR_STAR", i + 2)
    <2>1. i + 2 \in (i + 1)..End /\ OneLine(i, i + 2)
      BY <1>1, <1>4, TwoChars
    <2> QED
      BY <1>1, <1>4, <2>1, SpectrePlain DEF Ordinary
  <1>5. CASE last_token # "NEWLINE" /\ Spectre!Emit("STAR", i + 1)
    <2>1. i + 1 \in (i + 1)..End /\ OneLine(i, i + 1)
      BY <1>1, OneChar
    <2> QED
      BY <1>1, <1>5, <2>1, SpectrePlain DEF Ordinary
  <1> QED
    BY <1>2, <1>3, <1>4, <1>5

LEMMA SpectreBackslash == ASSUME Ready, Spectre!lex_backslash PROVE SpectreStep
  <1>1. Char(i) = "BACKSLASH" /\ Spectre!Running /\ ~protected
    BY SpectreSees DEF Spectre!lex_backslash
  <1>2. IsText(text) /\ i \in Nat /\ End \in Nat /\ i + 1 \in 1..End /\ i + 1 \in Nat
    BY <1>1, NextChar DEF Ready
  <1> DEFINE p == IF Char(i + 1) = "CR" THEN i + 2 ELSE i + 1
             S == Chars \ Spectre!Blanks
             to == Past(p, S)
  <1>3. \/ Char(i + 1) = "NL" /\ Spectre!Emit("ESCD_NEWLINE", i + 2)
        \/ Reads(i + 1, <<"CR", "NL">>) /\ Spectre!Emit("ESCD_NEWLINE", i + 3)
        \/ Spectre!Emit("IDENTIFIER", to)
    BY SameCursor DEF Spectre!lex_backslash
  <1>4. p \in (i + 1)..End
    BY <1>2, ReadOn
  <1>5. "EOF" \notin S
    BY SpectreSets
  <1> HIDE DEF p, S
  <1>6. to \in (i + 1)..End
    <2>1. to \in p..End
      BY <1>2, <1>4, <1>5, PastOK
    <2> HIDE DEF to
    <2> QED
      BY <1>2, <1>4, <2>1
  <1> HIDE DEF to
  <1>7. CASE Char(i + 1) = "NL" /\ Spectre!Emit("ESCD_NEWLINE", i + 2)
    <2>1. i + 2 \in (i + 1)..End
      BY <1>1, <1>2, <1>7, NextChar DEF Ready
    <2> QED
      BY <1>1, <1>7, <2>1, EscapeRead, SpectreEmits
  <1>8. CASE Reads(i + 1, <<"CR", "NL">>) /\ Spectre!Emit("ESCD_NEWLINE", i + 3)
    <2>1. Char(i + 1) = "CR" /\ Char(i + 1 + 1) = "NL" /\ i + 1 + 1 = i + 2
      BY <1>2, <1>8, ReadsReturn
    <2>2. i + 3 \in (i + 1)..End
      BY <1>1, <1>2, <2>1, NextChar DEF Ready
    <2> QED
      BY <1>1, <1>8, <2>2, EscapeRead, SpectreEmits
  <1>9. CASE Spectre!Emit("IDENTIFIER", to)
    BY <1>1, <1>6, <1>9, EscapeRead, SpectreEmits
  <1> QED
    BY <1>3, <1>7, <1>8, <1>9

LEMMA SpectreLookup == \A word : Ordinary(Spectre!Lookup(word))
  <1> TAKE word
  <1>1. \A e \in Spectre!Keywords : Ordinary(e[2])
    BY DEF Spectre!Keywords, Ordinary
  <1>2. CASE word \in Spectre!Spellings(Spectre!Keywords)
    <2>1. \E e \in Spectre!Keywords : e[1] = word
      BY <1>2 DEF Spectre!Spellings
    <2>2. \E e \in Spectre!Keywords : Spectre!KindOf(Spectre!Keywords, word) = e[2]
      BY <2>1 DEF Spectre!KindOf
    <2> QED
      BY <1>1, <1>2, <2>2 DEF Spectre!Lookup
  <1>3. CASE word \notin Spectre!Spellings(Spectre!Keywords)
    BY <1>3 DEF Spectre!Lookup, Ordinary
  <1> QED
    BY <1>2, <1>3

LEMMA SpectreIdentifier == ASSUME Ready, Spectre!lex_identifier PROVE SpectreStep
  <1> DEFINE to == Past(i + 1, Spectre!IdentifierChars)
             kind == Spectre!Lookup(SubSeq(text.chars, i, to - 1))
             S == Spectre!IdentifierStart \cup {"$"}
  <1>1. Char(i) \in S /\ Spectre!Sees(S)
    BY SpectreSees DEF Spectre!lex_identifier
  <1>2. Char(i) \notin {"*", "NL", "EOF", "SP"}
    BY <1>1 DEF Spectre!IdentifierStart, Spectre!Letters, Spectre!Latin
  <1>3. Spectre!Emit(kind, to)
    BY SameCursor DEF Spectre!lex_identifier
  <1>4. to \in (i + 1)..End /\ OneLine(i, to)
    BY <1>2, SpectreSets, Run
  <1>5. Ordinary(kind)
    BY SpectreLookup
  <1> HIDE DEF to, kind, S
  <1> QED
    BY <1>1, <1>2, <1>3, <1>4, <1>5, SpectrePlain

LEMMA SpectreNumber ==
  ASSUME Ready, NEW S, Spectre!Sees(S), Char(i) \notin {"*", "NL", "EOF", "SP"},
         Spectre!Number
  PROVE  SpectreStep
  <1> DEFINE to == NumberEnd(i + 1, {}, Spectre!IdentifierChars)
  <1>1. i \in Nat /\ End \in Nat /\ i + 1 \in 1..End
    BY NextChar DEF Ready
  <1>2. Spectre!Emit("NUMBER", to)
    BY SameEnds DEF Spectre!Number
  <1>3. to \in (i + 1)..End /\ OneLine(i + 1, to)
    BY <1>1, SpectreSets, NumberEndOK DEF Ready
  <1> HIDE DEF to
  <1>4. OneLine(i, to)
    <2>1. \A q \in i..(to - 1) : q = i \/ q \in (i + 1)..(to - 1)
      BY <1>1, <1>3
    <2> QED
      BY <1>3, <2>1 DEF OneLine
  <1> QED
    BY <1>2, <1>3, <1>4, SpectrePlain DEF Ordinary

LEMMA SpectreDigit == ASSUME Ready, Spectre!lex_number PROVE SpectreStep
  <1>1. Spectre!Sees(Spectre!Digits) /\ Char(i) \in Spectre!Digits /\ Spectre!Number
    BY SpectreSees DEF Spectre!lex_number
  <1>2. Char(i) \notin {"*", "NL", "EOF", "SP"}
    BY <1>1 DEF Spectre!Digits
  <1> QED
    BY <1>1, <1>2, SpectreNumber

LEMMA SpectreDot == ASSUME Ready, Spectre!lex_dot PROVE SpectreStep
  <1>1. Spectre!Sees({"."}) /\ Char(i) = "."
    BY SpectreSees DEF Spectre!lex_dot
  <1>2. Spectre!Number \/ Spectre!Emit("DOT", i + 1)
    BY DEF Spectre!lex_dot
  <1>3. i + 1 \in (i + 1)..End /\ OneLine(i, i + 1)
    BY <1>1, OneChar
  <1> QED
    BY <1>1, <1>2, <1>3, SpectreNumber, SpectrePlain DEF Ordinary

LEMMA SpectreOperator == ASSUME Ready, Spectre!lex_operator PROVE SpectreStep
  <1> DEFINE s == Longest(Spellings(Spectre!Operators))
             kind == KindOf(Spectre!Operators, s)
             S == {Head(t) : t \in Spellings(Spectre!Operators)}
  <1>1. Char(i) \in S /\ Spectre!Sees(S)
    BY SpectreSees, SameCursor DEF Spectre!lex_operator
  <1>2. Spectre!Emit(kind, i + Len(s))
    BY SameCursor DEF Spectre!lex_operator
  <1>3. /\ i + Len(s) \in (i + 1)..End
        /\ OneLine(i, i + Len(s))
        /\ \E e \in Spectre!Operators : kind = e[2] /\ e[1][1] = Char(i)
    BY <1>1, SpectreOperators, LongestOK DEF Ready
  <1>4. PICK e \in Spectre!Operators : kind = e[2] /\ e[1][1] = Char(i)
    BY <1>3
  <1> HIDE DEF s, kind, S
  <1>5. SpelledOut(e)
    BY SpectreOperators
  <1>6. Ordinary(kind) /\ Char(i) \notin {"*", "NL", "EOF", "SP"}
    <2>1. 1 \in 1..Len(e[1])
      BY <1>5 DEF SpelledOut
    <2> QED
      BY <1>4, <1>5, <2>1 DEF SpelledOut
  <1> QED
    BY <1>1, <1>2, <1>3, <1>6, SpectrePlain

LEMMA LineOfBlockOK ==
  ASSUME Ready, Char(i) # "EOF"
  PROVE  /\ Spectre!LineOfBlock \in (i + 1)..End
         /\ Char(i) = "NL" => Spectre!LineOfBlock = i + 1
  <1> DEFINE S == Chars \ {"NL", "CR"}
             q == Past(i, S)
             r == IF Char(q) = "CR" THEN q + 1 ELSE q
             to == IF Char(r) = "NL" THEN r + 1 ELSE r
  <1>1. IsText(text) /\ i \in 1..End /\ i \in Nat /\ End \in Nat
    BY NextChar DEF Ready
  <1>2. Spectre!LineOfBlock = to
    BY SameCursor DEF Spectre!LineOfBlock
  <1>3. q \in i..End /\ Char(q) \in {"NL", "CR", "EOF"} /\ \A p \in i..(q - 1) : Char(p) \in S
    BY <1>1, PastLine, PastOK, SpiceSets
  <1>4. Char(End) = "EOF" /\ \A p \in 1..(End - 1) : Char(p) # "EOF"
    BY <1>1, CharFacts
  <1>5. "NL" \notin S /\ "CR" \notin S
    OBVIOUS
  <1> HIDE DEF q, S
  <1>6. Char(q) = "EOF" => q # i
    OBVIOUS
  <1>7. /\ r \in i..End
        /\ r = i => Char(i) = "NL"
        /\ Char(i) = "NL" => r = i
    <2>1. CASE Char(q) = "CR"
      <3>1. q # End
        BY <1>4, <2>1
      <3>2. Char(i) = "NL" => q = i
        BY <1>1, <1>3, <1>5
      <3> QED
        BY <1>1, <1>3, <2>1, <3>1, <3>2
    <2>2. CASE Char(q) # "CR"
      <3>1. Char(i) = "NL" => q = i
        BY <1>1, <1>3, <1>5
      <3> QED
        BY <1>1, <1>3, <1>6, <2>2, <3>1
    <2> QED
      BY <2>1, <2>2
  <1> HIDE DEF r
  <1>8. to \in (i + 1)..End /\ (Char(i) = "NL" => to = i + 1)
    <2>1. Char(r) = "NL" => r # End
      BY <1>4
    <2> QED
      BY <1>1, <1>7, <2>1
  <1> QED
    BY <1>2, <1>8

LEMMA SpectreBlock == ASSUME Ready, Spectre!lex_protected_line PROVE BlockStep
  <1>1. Spectre!Running /\ protected /\ UNCHANGED spice_vars
    BY DEF Spectre!lex_protected_line, Spectre!spice_vars, spice_vars
  <1>2. CASE Char(i) = "EOF"
    <2>1. Emitted("ENDMARKER", i) /\ protected' = FALSE
      BY <1>2, SameCursor DEF Spectre!lex_protected_line, Spectre!c
    <2>2. i = End
      BY <1>2, NextChar DEF Ready
    <2> QED
      BY <1>1, <2>1, <2>2, Zenon DEF BlockStep
  <1>3. CASE Char(i) # "EOF"
    <2> DEFINE to == Spectre!LineOfBlock
    <2>1. Emitted("COMMENT", to) /\ protected' = ~Spectre!Holds("unsealing", to)
      BY <1>3, SameCursor DEF Spectre!lex_protected_line, Spectre!c
    <2>2. Spectre!Holds("unsealing", to) <=> Phrase("unsealing", to)
      BY SameCursor DEF Spectre!Holds, Phrase
    <2>3. Spectre!Holds("unsealing", to) \in BOOLEAN
      BY DEF Spectre!Holds
    <2>4. to \in (i + 1)..End /\ (Char(i) = "NL" => to = i + 1)
      BY <1>3, LineOfBlockOK
    <2> HIDE DEF to
    <2>5. protected' \in BOOLEAN /\ (protected' <=> ~Phrase("unsealing", to))
      BY <2>1, <2>2, <2>3, Zenon
    <2> QED
      BY <1>1, <1>3, <2>1, <2>4, <2>5, Zenon DEF BlockStep
  <1> QED
    BY <1>2, <1>3

(* Every step of the Spectre lexer.                                        *)
LEMMA SpectreTokenStep ==
  ASSUME Ready, SpectreToken
  PROVE  (SpectreStep \/ BlockStep) /\ Spectre!Running
  <1>1. Spectre!Running
    BY DEF SpectreToken, Spectre!EndMarker, Spectre!lex_newline, Spectre!lex_whitespace,
       Spectre!lex_quote, Spectre!lex_slash, Spectre!lex_protected_line, Spectre!lex_star,
       Spectre!lex_backslash, Spectre!lex_identifier, Spectre!lex_number, Spectre!lex_dot,
       Spectre!lex_operator, Spectre!Sees
  <1>2. SpectreStep \/ BlockStep
    BY SpectreEndMarker, SpectreNewline, SpectreSpace, SpectreQuote, SpectreSlash,
       SpectreBlock, SpectreStar, SpectreBackslash, SpectreIdentifier, SpectreDigit,
       SpectreDot, SpectreOperator DEF SpectreToken
  <1> QED
    BY <1>1, <1>2

-----------------------------------------------------------------------------
(* Sequences of anything.                                                  *)
IsSequence(s) == \E S : s \in Seq(S)

LEMMA SequenceFacts ==
  ASSUME NEW s, IsSequence(s)
  PROVE  /\ Len(s) \in Nat
         /\ DOMAIN s = 1..Len(s)
         /\ (s = << >>) <=> (Len(s) = 0)
         /\ Last(s) = s[Len(s)]
  <1>1. PICK S : s \in Seq(S)
    BY DEF IsSequence
  <1>2. Len(s) \in Nat /\ DOMAIN s = 1..Len(s)
    BY <1>1, LenProperties
  <1>3. (s = << >>) <=> (Len(s) = 0)
    BY <1>1, EmptySeq
  <1> QED
    BY <1>2, <1>3 DEF Last

LEMMA AppendFacts ==
  ASSUME NEW s, IsSequence(s), NEW e
  PROVE  /\ IsSequence(Append(s, e))
         /\ Len(Append(s, e)) = Len(s) + 1
         /\ \A k \in 1..Len(s) : Append(s, e)[k] = s[k]
         /\ Append(s, e)[Len(s) + 1] = e
         /\ Append(s, e) # << >>
         /\ Last(Append(s, e)) = e
  <1>1. PICK S : s \in Seq(S)
    BY DEF IsSequence
  <1> DEFINE T == S \cup {e}
             t == Append(s, e)
  <1>2. s \in Seq(T)
    <2>1. Len(s) \in Nat /\ \A k \in 1..Len(s) : s[k] \in T
      BY <1>1, LenProperties, ElementOfSeq
    <2>2. s = [k \in 1..Len(s) |-> s[k]]
      BY <1>1, LenProperties
    <2> HIDE DEF T
    <2> QED
      BY <2>1, <2>2
  <1>3. /\ t \in Seq(T) /\ Len(t) = Len(s) + 1
        /\ \A k \in 1..Len(s) : t[k] = s[k]
        /\ t[Len(s) + 1] = e
    <2>1. e \in T
      OBVIOUS
    <2> HIDE DEF T
    <2> QED
      BY <1>2, <2>1, AppendProperties
  <1> HIDE DEF t, T
  <1>4. IsSequence(t)
    BY <1>3 DEF IsSequence
  <1>5. Len(s) \in Nat /\ Len(t) # 0
    BY <1>1, <1>3, LenProperties
  <1>6. t # << >> /\ Last(t) = t[Len(t)]
    BY <1>4, <1>5, SequenceFacts
  <1> QED
    BY <1>3, <1>4, <1>6 DEF t

-----------------------------------------------------------------------------
(* Whether an encrypted block is open behind a token: the function the     *)
(* tokens define is there for every sequence of them.                      *)
Opener(k) == toks[k].kind = "COMMENT" /\ Char(toks[k].from) = "/" /\ Mentions(k, "sealing")

BlocksUpto(f, n) ==
  f = [k \in 0..n |->
         IF k = 0 THEN FALSE
         ELSE IF f[k - 1] THEN ~Mentions(k, "unsealing")
         ELSE Opener(k)]

LEMMA BlocksExist ==
  \A n \in Nat : \E f : BlocksUpto(f, n)
  <1> DEFINE Bad == {n \in Nat : ~\E f : BlocksUpto(f, n)}
  <1>1. SUFFICES ASSUME Bad # {} PROVE FALSE
    OBVIOUS
  <1>2. PICK x \in Bad : \A y \in Bad : x <= y
    <2>1. Bad \in SUBSET Nat
      OBVIOUS
    <2> HIDE DEF Bad
    <2> QED
      BY <1>1, <2>1, LeastExists
  <1>3. x \in Nat /\ ~\E f : BlocksUpto(f, x)
    OBVIOUS
  <1>4. x # 0
    <2> DEFINE f == [k \in 0..0 |-> FALSE]
    <2>1. f = [k \in 0..0 |->
                 IF k = 0 THEN FALSE
                 ELSE IF f[k - 1] THEN ~Mentions(k, "unsealing")
                 ELSE Opener(k)]
      <3>1. \A k \in 0..0 : k = 0
        OBVIOUS
      <3>2. \A k \in 0..0 : FALSE = (IF k = 0 THEN FALSE
                 ELSE IF f[k - 1] THEN ~Mentions(k, "unsealing")
                 ELSE Opener(k))
        BY <3>1, Zenon
      <3> QED
        BY <3>2, Zenon
    <2>2. BlocksUpto(f, 0)
      BY <2>1, Zenon DEF BlocksUpto
    <2> HIDE DEF f
    <2> QED
      BY <1>3, <2>2
  <1>5. x - 1 \in Nat /\ x - 1 \notin Bad
    BY <1>2, <1>3, <1>4
  <1>6. PICK g : BlocksUpto(g, x - 1)
    BY <1>5
  <1> DEFINE last == IF g[x - 1] THEN ~Mentions(x, "unsealing") ELSE Opener(x)
             f == [k \in 0..x |-> IF k = x THEN last ELSE g[k]]
  <1> HIDE DEF Bad
  <1>7. \A k \in 0..x :
          f[k] = (IF k = 0 THEN FALSE
                  ELSE IF f[k - 1] THEN ~Mentions(k, "unsealing")
                  ELSE Opener(k))
    <2> TAKE k \in 0..x
    <2>1. CASE k = x
      <3>1. k # 0 /\ f[k] = last
        BY <1>3, <1>4, <2>1
      <3>2. f[k - 1] = g[x - 1]
        <4>1. x - 1 \in 0..x /\ x - 1 # x /\ k - 1 = x - 1
          BY <1>3, <1>4, <2>1
        <4> QED
          BY <4>1, Zenon
      <3> HIDE DEF f
      <3> QED
        BY <2>1, <3>1, <3>2, Zenon
    <2>2. CASE k # x
      <3>1. k \in 0..(x - 1) /\ f[k] = g[k]
        BY <1>3, <2>2
      <3>2. k # 0 => f[k - 1] = g[k - 1]
        BY <1>3, <2>2
      <3>3. g[k] = (IF k = 0 THEN FALSE
                    ELSE IF g[k - 1] THEN ~Mentions(k, "unsealing")
                    ELSE Opener(k))
        BY <1>6, <3>1, Zenon DEF BlocksUpto
      <3> HIDE DEF f
      <3> QED
        BY <3>1, <3>2, <3>3, Zenon
    <2> QED
      BY <2>1, <2>2
  <1>8. DOMAIN f = 0..x
    OBVIOUS
  <1>9. f = [k \in 0..x |-> f[k]]
    OBVIOUS
  <1>10. BlocksUpto(f, x)
    <2> HIDE DEF f
    <2> QED
      BY <1>7, <1>9, Zenon DEF BlocksUpto
  <1> QED
    BY <1>3, <1>10

LEMMA BlockOpenFacts ==
  IsSequence(toks) =>
    /\ ~BlockOpen[0]
    /\ \A k \in 1..Len(toks) :
         BlockOpen[k] <=> \/ BlockOpen[k - 1] /\ ~Mentions(k, "unsealing")
                          \/ ~BlockOpen[k - 1] /\ Opener(k)
  <1> SUFFICES ASSUME IsSequence(toks)
      PROVE  /\ ~BlockOpen[0]
             /\ \A k \in 1..Len(toks) :
                  BlockOpen[k] <=> \/ BlockOpen[k - 1] /\ ~Mentions(k, "unsealing")
                                   \/ ~BlockOpen[k - 1] /\ Opener(k)
    OBVIOUS
  <1>1. Len(toks) \in Nat
    BY SequenceFacts
  <1>2. BlockOpen = CHOOSE f : BlocksUpto(f, Len(toks))
    BY Zenon DEF BlockOpen, BlocksUpto, Opener
  <1>3. BlocksUpto(BlockOpen, Len(toks))
    BY <1>1, <1>2, BlocksExist, Zenon
  <1>4. \A k \in 0..Len(toks) :
          BlockOpen[k] = (IF k = 0 THEN FALSE
                          ELSE IF BlockOpen[k - 1] THEN ~Mentions(k, "unsealing")
                          ELSE Opener(k))
    BY <1>3, Zenon DEF BlocksUpto
  <1>5. 0 \in 0..Len(toks) /\ \A k \in 1..Len(toks) : k \in 0..Len(toks) /\ k # 0
    BY <1>1
  <1>6. ~BlockOpen[0]
    BY <1>4, <1>5, Zenon
  <1>7. \A k \in 1..Len(toks) :
          BlockOpen[k] = (IF BlockOpen[k - 1] THEN ~Mentions(k, "unsealing") ELSE Opener(k))
    BY <1>4, <1>5, Zenon
  <1> QED
    BY <1>6, <1>7, Zenon

(* What a token says does not change when the next is emitted.             *)
LEMMA SameText ==
  ASSUME text' = text
  PROVE  /\ End' = End
         /\ \A p : Char(p)' = Char(p)
         /\ \A p, to : OneLine(p, to)' <=> OneLine(p, to)
         /\ \A p, kind, to : ReadAt(p, kind, to)' <=> ReadAt(p, kind, to)
  <1>1. End' = End
    BY DEF End
  <1>2. \A p : Char(p)' = Char(p)
    BY <1>1 DEF Char
  <1>3. \A p, to : OneLine(p, to)' <=> OneLine(p, to)
    BY <1>2 DEF OneLine
  <1>4. \A p, kind, to : ReadAt(p, kind, to)' <=> ReadAt(p, kind, to)
    BY <1>1, <1>2, <1>3 DEF ReadAt
  <1> QED
    BY <1>1, <1>2, <1>3, <1>4

BlockFacts ==
  /\ ~BlockOpen[0]
  /\ \A k \in 1..Len(toks) :
       BlockOpen[k] <=> \/ BlockOpen[k - 1] /\ ~Mentions(k, "unsealing")
                        \/ ~BlockOpen[k - 1] /\ Opener(k)

LEMMA BlockFactsHold == IsSequence(toks) => BlockFacts
  BY BlockOpenFacts DEF BlockFacts

(* The tokens that are there stay, of the same text.                       *)
Extends ==
  /\ IsSequence(toks) /\ IsSequence(toks')
  /\ Len(toks) <= Len(toks')
  /\ \A k \in 1..Len(toks) : toks'[k] = toks[k]
  /\ text' = text

LEMMA BlocksKept ==
  ASSUME Extends
  PROVE  /\ BlockFacts /\ BlockFacts'
         /\ \A k \in 0..Len(toks) : BlockOpen'[k] <=> BlockOpen[k]
         /\ \A k \in 1..Len(toks) : IsSealed(k)' <=> IsSealed(k)
  <1>1. BlockFacts
    BY BlockFactsHold DEF Extends
  <1>2. (IsSequence(toks) => BlockFacts)'
    BY BlockFactsHold, PTL
  <1>3. /\ IsSequence(toks') /\ Len(toks) \in Nat /\ Len(toks') \in Nat
        /\ Len(toks) <= Len(toks') /\ text' = text
        /\ \A k \in 1..Len(toks) : toks'[k] = toks[k]
    BY SequenceFacts DEF Extends
  <1>4. BlockFacts'
    BY <1>2, <1>3 DEF IsSequence
  <1>5. \A k \in 1..Len(toks) :
          /\ Mentions(k, "unsealing")' <=> Mentions(k, "unsealing")
          /\ Opener(k)' <=> Opener(k)
    BY <1>3, SameText DEF Mentions, Opener
  <1> DEFINE n == Len(toks)
             Bad == {k \in 0..n : ~(BlockOpen'[k] <=> BlockOpen[k])}
  <1>6. Bad = {}
    <2>1. SUFFICES ASSUME Bad # {} PROVE FALSE
      OBVIOUS
    <2>2. PICK x \in Bad : \A y \in Bad : x <= y
      <3>1. Bad \in SUBSET Nat
        BY <1>3
      <3> HIDE DEF Bad
      <3> QED
        BY <2>1, <3>1, LeastExists
    <2>3. x \in 0..n /\ ~(BlockOpen'[x] <=> BlockOpen[x])
      OBVIOUS
    <2>4. x # 0
      BY <1>1, <1>4, <2>3 DEF BlockFacts
    <2>5. x \in 1..n /\ x \in 1..Len(toks)' /\ x - 1 \in 0..n /\ ~(x <= x - 1)
      BY <1>3, <2>3, <2>4
    <2>6. BlockOpen'[x - 1] <=> BlockOpen[x - 1]
      <3>1. x - 1 \notin Bad
        BY <2>2, <2>5
      <3> QED
        BY <2>5, <3>1
    <2>7. BlockOpen[x] <=> \/ BlockOpen[x - 1] /\ ~Mentions(x, "unsealing")
                           \/ ~BlockOpen[x - 1] /\ Opener(x)
      BY <1>1, <2>5, Zenon DEF BlockFacts
    <2>8. BlockOpen'[x] <=> \/ BlockOpen'[x - 1] /\ ~Mentions(x, "unsealing")'
                            \/ ~BlockOpen'[x - 1] /\ Opener(x)'
      BY <1>4, <2>5, Zenon DEF BlockFacts
    <2>9. /\ Mentions(x, "unsealing")' <=> Mentions(x, "unsealing")
          /\ Opener(x)' <=> Opener(x)
      BY <1>5, <2>5
    <2> QED
      BY <2>3, <2>6, <2>7, <2>8, <2>9, Zenon
  <1>7. \A k \in 0..Len(toks) : BlockOpen'[k] <=> BlockOpen[k]
    BY <1>6
  <1>8. \A k \in 1..Len(toks) : k - 1 \in 0..Len(toks)
    BY <1>3
  <1>9. \A k \in 1..Len(toks) : IsSealed(k)' <=> IsSealed(k)
    BY <1>3, <1>7, <1>8 DEF IsSealed
  <1> QED
    BY <1>1, <1>4, <1>7, <1>9

-----------------------------------------------------------------------------
(* The inductive invariant: how every token was read, and where the block  *)
(* and the title that rule the next one come from.                         *)
SealedAt(p, to) == to \in (p + 1)..End /\ (Char(p) = "NL" => to = p + 1)

Held(k) ==
  /\ toks[k].from \in 1..End
  /\ IF IsSealed(k) THEN SealedAt(toks[k].from, toks[k].to)
     ELSE ReadAt(toks[k].from, toks[k].kind, toks[k].to)
  /\ (text.lang = "spectre" /\ BlockOpen[k - 1]) => toks[k].kind \in {"COMMENT", "ENDMARKER"}
  /\ toks[k].kind = "TITLE_LINE"
       => text.lang = "spice" /\ (k = 1 \/ toks[k - 1].kind = "TITLE")
  /\ toks[k].from = IF k = 1 THEN 1 ELSE toks[k - 1].to

Scanned ==
  /\ Ready
  /\ IsSequence(toks)
  /\ \A k \in 1..Len(toks) : Held(k)
  /\ \A k \in 1..Len(toks) : toks[k].kind = "ENDMARKER" => k = Len(toks)
  /\ i = IF toks = << >> THEN 1 ELSE Last(toks).to
  /\ protected => text.lang = "spectre"
  /\ ~Done => (protected <=> (text.lang = "spectre" /\ BlockOpen[Len(toks)]))
  /\ (text.lang = "spice" /\ last_nontriv_token = "TITLE")
       => toks = << >> \/ Last(toks).kind = "TITLE"

(* One token more, of the text there was.                                  *)
LEMMA HeldOn ==
  ASSUME Extends, NEW k \in 1..Len(toks), Held(k)
  PROVE  Held(k)'
  <1>1. /\ Len(toks) \in Nat /\ text' = text
        /\ \A j \in 1..Len(toks) : toks'[j] = toks[j]
    BY SequenceFacts DEF Extends
  <1>2. toks'[k] = toks[k] /\ (k = 1 \/ toks'[k - 1] = toks[k - 1]) /\ k - 1 \in 0..Len(toks)
    BY <1>1
  <1>3. /\ IsSealed(k)' <=> IsSealed(k)
        /\ BlockOpen'[k - 1] <=> BlockOpen[k - 1]
    BY <1>2, BlocksKept
  <1>4. /\ toks[k].from \in 1..End' 
        /\ IF IsSealed(k)' THEN SealedAt(toks[k].from, toks[k].to)'
           ELSE ReadAt(toks[k].from, toks[k].kind, toks[k].to)'
    BY <1>1, <1>2, <1>3, SameText DEF Held, SealedAt, ReadAt, OneLine
  <1> QED
    BY <1>1, <1>2, <1>3, <1>4 DEF Held

(* What either lexer's step does, as far as the invariant can tell.        *)
Grows(kind, to) ==
  /\ Emitted(kind, to) /\ ~Done
  /\ lexing_expression_stack' \in Seq(Delimiters)
  /\ lexed_nontriv_token_line' \in BOOLEAN
  /\ protected' \in BOOLEAN
  /\ last_nontriv_token' = "TITLE"
       => lexed_nontriv_token_line' \/ lexing_expression_stack' = << >>
  /\ (text.lang = "spice" /\ last_nontriv_token' = "TITLE") => kind = "TITLE"
  /\ \/ ~protected /\ Read(kind, to)
     \/ protected /\ kind = "COMMENT" /\ SealedAt(i, to)
     \/ protected /\ kind = "ENDMARKER" /\ i = End /\ to = i
  /\ kind = "TITLE_LINE" => text.lang = "spice" /\ last_nontriv_token = "TITLE"
  /\ protected' => text.lang = "spectre"
  /\ kind # "ENDMARKER" =>
       (protected' <=> /\ text.lang = "spectre"
                       /\ \/ protected /\ ~Phrase("unsealing", to)
                          \/ /\ ~protected /\ kind = "COMMENT" /\ Char(i) = "/"
                             /\ Phrase("sealing", to))

LEMMA NewToken ==
  ASSUME IsSequence(toks), NEW kind, NEW to, Emitted(kind, to)
  PROVE  /\ IsSequence(toks') /\ Len(toks) \in Nat /\ Len(toks') = Len(toks) + 1
         /\ \A k \in 1..Len(toks) : toks'[k] = toks[k]
         /\ toks'[Len(toks) + 1] = [kind |-> kind, from |-> i, to |-> to]
         /\ toks' = Append(toks, [kind |-> kind, from |-> i, to |-> to])
         /\ toks' # << >> /\ Last(toks') = [kind |-> kind, from |-> i, to |-> to]
         /\ text' = text /\ i' = to
         /\ Extends
  <1>1. /\ IsSequence(toks') /\ Len(toks) \in Nat /\ Len(toks') = Len(toks) + 1
        /\ \A k \in 1..Len(toks) : toks'[k] = toks[k]
        /\ text' = text
    BY AppendFacts, SequenceFacts DEF Emitted
  <1>2. Extends
    BY <1>1 DEF Extends
  <1> QED
    BY <1>1, <1>2, AppendFacts DEF Emitted

LEMMA NewHeld ==
  ASSUME Scanned, NEW kind, NEW to, Grows(kind, to), NEW n, n = Len(toks)
  PROVE  Held(n + 1)'
  <1>1. /\ n \in Nat /\ Len(toks') = n + 1 /\ text' = text /\ IsSequence(toks) /\ Extends
        /\ \A k \in 1..n : toks'[k] = toks[k]
        /\ toks'[n + 1] = [kind |-> kind, from |-> i, to |-> to]
        /\ toks' = Append(toks, [kind |-> kind, from |-> i, to |-> to])
    BY NewToken DEF Scanned, Grows
  <1>2. /\ \A k \in 0..n : BlockOpen'[k] <=> BlockOpen[k]
        /\ n \in 0..n /\ n + 1 - 1 = n
    BY <1>1, BlocksKept
  <1>3. protected <=> (text.lang = "spectre" /\ BlockOpen[n])
    BY Zenon DEF Scanned, Grows
  <1>4. protected <=> (text.lang = "spectre" /\ BlockOpen'[n])
    BY <1>2, <1>3, Zenon
  <1>5. IsSealed(n + 1)' <=> (kind = "COMMENT" /\ protected)
    <2>1. IsSealed(n + 1)' <=> (text.lang = "spectre" /\ kind = "COMMENT" /\ BlockOpen'[n])
      BY <1>1, <1>2 DEF IsSealed
    <2> QED
      BY <1>4, <2>1, Zenon
  <1>6. i \in 1..End /\ i \in Nat /\ End \in Nat
    BY NextChar DEF Scanned, Ready
  <1>7. IF IsSealed(n + 1)' THEN SealedAt(i, to) ELSE ReadAt(i, kind, to)
    <2>1. (i = End /\ to = i) => ReadAt(i, "ENDMARKER", to)
      <3>1. Char(End) = "EOF"
        BY CharFacts DEF Scanned, Ready
      <3> QED
        BY <1>6, <3>1 DEF ReadAt, OneLine
    <2>2. CASE ~protected /\ Read(kind, to)
      BY <1>5, <2>2, Zenon DEF Read
    <2>3. CASE protected /\ kind = "COMMENT" /\ SealedAt(i, to)
      BY <1>5, <2>3, Zenon
    <2>4. CASE protected /\ kind = "ENDMARKER" /\ i = End /\ to = i
      BY <1>5, <2>1, <2>4
    <2> QED
      BY <2>2, <2>3, <2>4 DEF Grows
  <1>8. (text.lang = "spectre" /\ BlockOpen'[n]) => kind \in {"COMMENT", "ENDMARKER"}
    <2>1. protected => kind \in {"COMMENT", "ENDMARKER"}
      BY DEF Grows
    <2> QED
      BY <1>4, <2>1, Zenon
  <1>9. n > 0 => toks # << >> /\ Last(toks) = toks[n] /\ n + 1 # 1
    BY <1>1, SequenceFacts
  <1>10. n = 0 => toks = << >>
    BY <1>1, SequenceFacts
  <1>11. kind = "TITLE_LINE"
           => text.lang = "spice" /\ (n + 1 = 1 \/ toks'[n + 1 - 1].kind = "TITLE")
    <2>1. n > 0 => toks'[n + 1 - 1] = toks[n]
      BY <1>1
    <2> QED
      BY <1>1, <1>9, <2>1 DEF Grows, Scanned
  <1>12. i = IF n + 1 = 1 THEN 1 ELSE toks'[n + 1 - 1].to
    <2>1. n > 0 => toks'[n + 1 - 1] = toks[n]
      BY <1>1
    <2>2. i = IF toks = << >> THEN 1 ELSE Last(toks).to
      BY DEF Scanned
    <2> QED
      BY <1>1, <1>9, <1>10, <2>1, <2>2
  <1>13. PICK p : p = i
    OBVIOUS
  <1>14. IF IsSealed(n + 1)' THEN SealedAt(p, to)' ELSE ReadAt(p, kind, to)'
    BY <1>1, <1>7, <1>13, SameText DEF SealedAt
  <1> QED
    BY <1>1, <1>2, <1>6, <1>8, <1>11, <1>12, <1>13, <1>14, SameText DEF Held

LEMMA StillScanned ==
  ASSUME Scanned, NEW kind, NEW to, Grows(kind, to)
  PROVE  Scanned'
  <1>1. PICK n : n = Len(toks)
    OBVIOUS
  <1>2. /\ n \in Nat /\ Len(toks') = n + 1 /\ text' = text /\ i' = to
        /\ IsSequence(toks) /\ IsSequence(toks') /\ Extends
        /\ \A k \in 1..n : toks'[k] = toks[k]
        /\ toks'[n + 1] = [kind |-> kind, from |-> i, to |-> to]
        /\ toks' = Append(toks, [kind |-> kind, from |-> i, to |-> to])
        /\ toks' # << >> /\ Last(toks') = [kind |-> kind, from |-> i, to |-> to]
    BY <1>1, NewToken DEF Scanned, Grows
  <1>3. \A k \in 1..(n + 1) : k \in 1..n \/ k = n + 1
    BY <1>2
  <1>4. ASSUME NEW k \in 1..(n + 1) PROVE Held(k)'
    <2>1. CASE k \in 1..n
      BY <1>1, <1>2, <2>1, HeldOn DEF Scanned
    <2>2. CASE k = n + 1
      BY <1>1, <2>2, NewHeld
    <2> QED
      BY <1>3, <2>1, <2>2
  <1>5. \A k \in 1..n : toks[k].kind # "ENDMARKER"
    <2>1. n > 0 => Last(toks) = toks[n] /\ toks # << >>
      BY <1>1, <1>2, SequenceFacts
    <2>2. \A k \in 1..n : toks[k].kind = "ENDMARKER" => k = n
      BY <1>1 DEF Scanned
    <2>3. toks # << >> => Last(toks).kind # "ENDMARKER"
      BY DEF Grows, Done, last_token
    <2> QED
      BY <1>2, <2>1, <2>2, <2>3
  <1>6. \A k \in 1..(n + 1) : toks'[k].kind = "ENDMARKER" => k = n + 1
    BY <1>2, <1>3, <1>5
  <1>7. Done' <=> kind = "ENDMARKER"
    BY <1>2 DEF Done, last_token
  <1>8. kind # "ENDMARKER" => (protected' <=> (text.lang = "spectre" /\ BlockOpen'[n + 1]))
    <2>1. /\ BlockFacts'
          /\ \A k \in 0..n : BlockOpen'[k] <=> BlockOpen[k]
      BY <1>1, <1>2, BlocksKept
    <2>2. n \in 0..n
      BY <1>2
    <2>3. BlockOpen'[n + 1] <=> \/ BlockOpen'[n] /\ ~Mentions(n + 1, "unsealing")'
                                \/ ~BlockOpen'[n] /\ Opener(n + 1)'
      <3>1. PICK m : m = n + 1
        OBVIOUS
      <3>2. m \in 1..Len(toks)' /\ m - 1 = n
        BY <1>2, <3>1
      <3>3. BlockOpen'[m] <=> \/ BlockOpen'[m - 1] /\ ~Mentions(m, "unsealing")'
                              \/ ~BlockOpen'[m - 1] /\ Opener(m)'
        BY <2>1, <3>2, Zenon DEF BlockFacts
      <3> QED
        BY <3>1, <3>2, <3>3, Zenon
    <2>4. \A phrase : Mentions(n + 1, phrase)' <=> Phrase(phrase, to)
      BY <1>2, SameText DEF Mentions, Phrase
    <2>5. Opener(n + 1)'
            <=> (kind = "COMMENT" /\ Char(i) = "/" /\ Phrase("sealing", to))
      BY <1>2, <2>4, SameText DEF Opener
    <2>6. protected <=> (text.lang = "spectre" /\ BlockOpen[n])
      BY <1>1, Zenon DEF Scanned, Grows
    <2>7. BlockOpen'[n] <=> BlockOpen[n]
      BY <2>1, <2>2
    <2>8. kind # "ENDMARKER" =>
            (protected' <=> /\ text.lang = "spectre"
                            /\ \/ protected /\ ~Phrase("unsealing", to)
                               \/ /\ ~protected /\ kind = "COMMENT" /\ Char(i) = "/"
                                  /\ Phrase("sealing", to))
      BY Zenon DEF Grows
    <2>9. Mentions(n + 1, "unsealing")' <=> Phrase("unsealing", to)
      BY <2>4
    <2> QED
      BY <2>3, <2>5, <2>6, <2>7, <2>8, <2>9, Zenon
  <1>9. Ready'
    <2>1. IsText(text)'
      BY <1>2 DEF Scanned, Ready, IsText
    <2>2. to \in 1..End
      <3>1. i \in 1..End /\ i \in Nat /\ End \in Nat
        BY NextChar DEF Scanned, Ready
      <3>2. to \in i..End
        BY <3>1 DEF Grows, Read, ReadAt, SealedAt
      <3> QED
        BY <3>1, <3>2
    <2>3. i' \in 1..End'
      BY <1>2, <2>2, SameText
    <2> QED
      BY <2>1, <2>3 DEF Grows, Ready
  <1>10. protected' => text'.lang = "spectre"
    BY <1>2 DEF Grows
  <1>11. (~Done => (protected <=> (text.lang = "spectre" /\ BlockOpen[Len(toks)])))'
    BY <1>2, <1>7, <1>8
  <1>12. (text'.lang = "spice" /\ last_nontriv_token' = "TITLE")
            => toks' = << >> \/ Last(toks').kind = "TITLE"
    BY <1>2 DEF Grows
  <1>13. i' = IF toks' = << >> THEN 1 ELSE Last(toks').to
    BY <1>2
  <1>14. \A k \in 1..Len(toks') : Held(k)'
    BY <1>2, <1>4
  <1>15. \A k \in 1..Len(toks') : toks'[k].kind = "ENDMARKER" => k = Len(toks')
    BY <1>2, <1>6
  <1> QED
    BY <1>2, <1>9, <1>10, <1>11, <1>12, <1>13, <1>14, <1>15 DEF Scanned

(* Both lexers take such steps.                                            *)
LEMMA SpiceGrows ==
  ASSUME Scanned, SpiceToken
  PROVE  \E kind, to : Grows(kind, to)
  <1>1. SpiceStep /\ text.lang = "spice" /\ ~Done /\ Ready
    BY SpiceTokenStep, SameCursor DEF Scanned, Spice!Running, Spice!Done, Done,
       Spice!last_token, last_token
  <1>2. PICK kind, to, stack : /\ Spice!Emit(kind, to, stack)
                               /\ Read(kind, to) /\ Balanced(kind, stack) /\ Placed(kind)
    BY <1>1 DEF SpiceStep
  <1>3. /\ Emitted(kind, to)
        /\ last_nontriv_token' = (IF kind \in Triv THEN last_nontriv_token ELSE kind)
        /\ lexed_nontriv_token_line'
             = (kind # "NEWLINE" /\ (lexed_nontriv_token_line \/ kind \notin Triv))
        /\ lexing_expression_stack' = stack
        /\ protected' = protected
    BY <1>2, SameCursor DEF Spice!Emit, Spice!Triv, Triv
  <1>4. ~protected
    BY <1>1 DEF Scanned
  <1>5. ~protected' /\ protected' \in BOOLEAN
    <2>1. protected \in BOOLEAN
      BY <1>1 DEF Ready
    <2> QED
      BY <1>3, <1>4, <2>1, Zenon
  <1>6. lexed_nontriv_token_line' \in BOOLEAN
    BY <1>3, Zenon
  <1>7. last_nontriv_token' = "TITLE" => kind = "TITLE"
    BY <1>2, <1>3 DEF Placed, Triv
  <1>8. kind = "TITLE" => lexed_nontriv_token_line'
    BY <1>3 DEF Triv
  <1>9. stack \in Seq(Delimiters) /\ (kind = "TITLE_LINE" => last_nontriv_token = "TITLE")
    BY <1>2 DEF Balanced, Placed
  <1>10. Grows(kind, to)
    BY <1>1, <1>2, <1>3, <1>4, <1>5, <1>6, <1>7, <1>8, <1>9 DEF Grows
  <1> QED
    BY <1>10

LEMMA SpectreGrows ==
  ASSUME Scanned, SpectreToken
  PROVE  \E kind, to : Grows(kind, to)
  <1>1. (SpectreStep \/ BlockStep) /\ text.lang = "spectre" /\ ~Done /\ Ready
    BY SpectreTokenStep, SameCursor DEF Scanned, Spectre!Running, Spectre!Done, Done,
       Spectre!last_token, last_token
  <1>2. UNCHANGED spice_vars =>
          /\ lexing_expression_stack' \in Seq(Delimiters)
          /\ lexed_nontriv_token_line' \in BOOLEAN
          /\ last_nontriv_token' = "TITLE"
               => lexed_nontriv_token_line' \/ lexing_expression_stack' = << >>
    <2> SUFFICES ASSUME UNCHANGED spice_vars
        PROVE  /\ lexing_expression_stack' \in Seq(Delimiters)
               /\ lexed_nontriv_token_line' \in BOOLEAN
               /\ last_nontriv_token' = "TITLE"
                    => lexed_nontriv_token_line' \/ lexing_expression_stack' = << >>
      OBVIOUS
    <2>1. /\ lexing_expression_stack' = lexing_expression_stack
          /\ lexed_nontriv_token_line' = lexed_nontriv_token_line
          /\ last_nontriv_token' = last_nontriv_token
      BY DEF spice_vars
    <2> QED
      BY <1>1, <2>1, Zenon DEF Ready
  <1>3. CASE SpectreStep
    <2>1. PICK kind, to :
            /\ Emitted(kind, to) /\ Read(kind, to) /\ kind # "TITLE_LINE"
            /\ UNCHANGED spice_vars
            /\ ~protected
            /\ protected' \in BOOLEAN
            /\ protected' <=> (kind = "COMMENT" /\ Char(i) = "/" /\ Phrase("sealing", to))
      BY <1>3, Zenon DEF SpectreStep
    <2>2. Grows(kind, to)
      BY <1>1, <1>2, <2>1 DEF Grows
    <2> QED
      BY <2>2
  <1>4. CASE BlockStep
    <2>1. PICK kind, to :
            /\ Emitted(kind, to)
            /\ UNCHANGED spice_vars
            /\ protected
            /\ protected' \in BOOLEAN
            /\ \/ kind = "ENDMARKER" /\ i = End /\ to = i /\ ~protected'
               \/ /\ kind = "COMMENT" /\ Char(i) # "EOF" /\ to \in (i + 1)..End
                  /\ protected' <=> ~Phrase("unsealing", to)
                  /\ Char(i) = "NL" => to = i + 1
      BY <1>4, Zenon DEF BlockStep
    <2>2. Grows(kind, to)
      BY <1>1, <1>2, <2>1 DEF Grows, SealedAt
    <2> QED
      BY <2>2
  <1> QED
    BY <1>1, <1>3, <1>4

LEMMA ScannedInit == Init => Scanned
  <1> SUFFICES ASSUME Init PROVE Scanned
    OBVIOUS
  <1>1. IsText(text)
    BY TextsAssumption DEF Init
  <1>2. /\ i = 1 /\ toks = << >>
        /\ lexed_nontriv_token_line = FALSE /\ lexing_expression_stack = << >>
        /\ protected = FALSE
    BY DEF Init, Spice!Init, Spectre!Init
  <1>3. Ready
    <2>1. End \in Nat \ {0}
      BY <1>1, CharFacts
    <2>2. i \in 1..End
      BY <1>2, <2>1
    <2> QED
      BY <1>1, <1>2, <2>2, EmptyStack, Zenon DEF Ready
  <1>4. IsSequence(toks) /\ Len(toks) = 0
    <2>1. << >> \in Seq({})
      OBVIOUS
    <2> QED
      BY <1>2, <2>1 DEF IsSequence
  <1>5. ~BlockOpen[0]
    BY <1>4, BlockFactsHold DEF BlockFacts
  <1>6. ~(protected <=> TRUE) /\ ~protected
    BY <1>2
  <1> QED
    BY <1>2, <1>3, <1>4, <1>5, <1>6 DEF Scanned

LEMMA ScannedStutters == Scanned /\ UNCHANGED vars => Scanned'
  <1> SUFFICES ASSUME Scanned, UNCHANGED vars PROVE Scanned'
    OBVIOUS
  <1>1. /\ text' = text /\ i' = i /\ toks' = toks
        /\ last_nontriv_token' = last_nontriv_token
        /\ lexed_nontriv_token_line' = lexed_nontriv_token_line
        /\ lexing_expression_stack' = lexing_expression_stack
        /\ protected' = protected
    BY DEF vars
  <1>2. End' = End /\ \A p : Char(p)' = Char(p)
    BY <1>1, SameText
  <1>3. Extends /\ Len(toks) \in 0..Len(toks)
    BY <1>1, SequenceFacts DEF Extends, Scanned
  <1>4. BlockOpen'[Len(toks)] <=> BlockOpen[Len(toks)]
    BY <1>3, BlocksKept
  <1>5. \A k \in 1..Len(toks) : Held(k)'
    BY <1>3, HeldOn DEF Scanned
  <1>6. Ready'
    BY <1>1, <1>2, Zenon DEF Scanned, Ready, IsText
  <1>7. Done' <=> Done
    BY <1>1, Zenon DEF Done, last_token, Last
  <1>8. (~Done => (protected <=> (text.lang = "spectre" /\ BlockOpen[Len(toks)])))'
    <2>1. BlockOpen'[Len(toks')] <=> BlockOpen[Len(toks)]
      BY <1>1, <1>4
    <2>2. ~Done => (protected <=> (text.lang = "spectre" /\ BlockOpen[Len(toks)]))
      BY Zenon DEF Scanned
    <2> QED
      BY <1>1, <1>7, <2>1, <2>2, Zenon
  <1> QED
    BY <1>1, <1>5, <1>6, <1>8, Zenon DEF Scanned, Last

LEMMA AlwaysScanned == Spec => []Scanned
  <1>1. Scanned /\ [Next]_vars => Scanned'
    BY SpiceGrows, SpectreGrows, StillScanned, ScannedStutters DEF Next
  <1> QED
    BY <1>1, ScannedInit, PTL DEF Spec

LEMMA ScannedFacts ==
  ASSUME Scanned
  PROVE  /\ IsSequence(toks) /\ Len(toks) \in Nat /\ DOMAIN toks = 1..Len(toks)
         /\ \A k \in DOMAIN toks : k \in 1..Len(toks) /\ Held(k)
         /\ (toks = << >>) <=> (Len(toks) = 0)
         /\ Len(toks) > 0 => Last(toks) = toks[Len(toks)]
         /\ End \in Nat /\ Char(End) = "EOF"
         /\ \A q \in 1..(End - 1) : Char(q) # "EOF"
  BY SequenceFacts, CharFacts DEF Scanned, Ready

LEMMA TypeImplied == Scanned => TypeOK
  <1> SUFFICES ASSUME Scanned PROVE TypeOK
    OBVIOUS
  <1>1. /\ IsSequence(toks) /\ Len(toks) \in Nat /\ DOMAIN toks = 1..Len(toks)
        /\ \A k \in DOMAIN toks : k \in 1..Len(toks) /\ Held(k)
    BY ScannedFacts
  <1>2. ASSUME NEW k \in DOMAIN toks
        PROVE  /\ toks[k].from = IF k = 1 THEN 1 ELSE toks[k - 1].to
               /\ \/ toks[k].from < toks[k].to
                  \/ toks[k].kind = "ENDMARKER" /\ toks[k].from = End /\ k = Len(toks)
                  \/ toks[k].kind = "TITLE_LINE"
    <2>1. Held(k) /\ (toks[k].kind = "ENDMARKER" => k = Len(toks))
      BY <1>1 DEF Scanned
    <2>2. IsSealed(k) => toks[k].from < toks[k].to
      BY <2>1, ScannedFacts DEF Held, SealedAt
    <2>3. ~IsSealed(k) => \/ toks[k].from < toks[k].to
                          \/ toks[k].kind = "ENDMARKER" /\ toks[k].from = End
                          \/ toks[k].kind = "TITLE_LINE"
      BY <2>1 DEF Held, ReadAt
    <2> QED
      BY <2>1, <2>2, <2>3 DEF Held
  <1> QED
    BY <1>2 DEF TypeOK, Scanned, Ready

LEMMA NewlinesImplied == Scanned => NewlinesAreTokens
  <1> SUFFICES ASSUME Scanned, NEW k \in DOMAIN toks,
                      \E p \in toks[k].from..(toks[k].to - 1) : Char(p) = "NL"
      PROVE  \/ toks[k].kind \in {"NEWLINE", "ESCD_NEWLINE", "STRING", "EOF_STRING"}
             \/ IsSealed(k)
             \/ Escaped(toks[k])
    BY DEF NewlinesAreTokens
  <1>1. Held(k)
    BY ScannedFacts
  <1>2. ~OneLine(toks[k].from, toks[k].to)
    BY DEF OneLine
  <1> QED
    BY <1>1, <1>2 DEF Held, ReadAt, Escaped

(* The stream the token layer sees: where a comment ends, and what follows *)
(* it there.                                                               *)
LEMMA AbstractFacts ==
  ASSUME Scanned, NEW k \in DOMAIN toks
  PROVE  /\ Abstract(k) \in Parsers!Kind
         /\ (Abstract(k) = "end") <=> (toks[k].kind = "ENDMARKER")
         /\ (Abstract(k) = "nl") <=> (toks[k].kind = "NEWLINE")
         /\ (Abstract(k) = "sealed") <=> IsSealed(k)
         /\ (Abstract(k) = "comment") <=> (toks[k].kind = "COMMENT" /\ ~IsSealed(k))
  BY DEF Abstract, IsSealed, Parsers!Kind, Parsers!Trivia, Parsers!Comment

LEMMA CommentEnds ==
  ASSUME Scanned, NEW k \in DOMAIN toks, k + 1 \in DOMAIN toks, Abstract(k) = "comment"
  PROVE  Abstract(k + 1) \in {"nl", "sealed", "end"}
  <1>1. /\ k \in 1..Len(toks) /\ Len(toks) \in Nat /\ Held(k) /\ Held(k + 1)
        /\ toks[k].kind = "COMMENT" /\ ~IsSealed(k)
    BY ScannedFacts, AbstractFacts
  <1>2. Char(toks[k].to) \in {"NL", "EOF"}
    BY <1>1 DEF Held, ReadAt
  <1>3. toks[k + 1].from = toks[k].to /\ toks[k + 1].kind # "TITLE_LINE"
    <2>1. PICK m : m = k + 1
      OBVIOUS
    <2>2. m - 1 = k /\ m # 1 /\ Held(m)
      BY <1>1, <2>1
    <2>3. toks[m].from = toks[k].to /\ toks[m].kind # "TITLE_LINE"
      BY <1>1, <2>2 DEF Held
    <2> QED
      BY <2>1, <2>3
  <1>4. CASE IsSealed(k + 1)
    BY <1>4, AbstractFacts
  <1>5. CASE ~IsSealed(k + 1)
    <2>1. ReadAt(toks[k + 1].from, toks[k + 1].kind, toks[k + 1].to)
      BY <1>1, <1>5 DEF Held
    <2>2. toks[k + 1].kind \in {"NEWLINE", "ENDMARKER"}
      BY <1>2, <1>3, <2>1 DEF ReadAt
    <2> QED
      BY <2>2, AbstractFacts
  <1> QED
    BY <1>4, <1>5

LEMMA BlockBegins ==
  ASSUME Scanned, NEW k \in DOMAIN toks, Abstract(k) = "sealed"
  PROVE  /\ k > 1 /\ k - 1 \in DOMAIN toks
         /\ Abstract(k - 1) \in {"comment", "sealed"}
         /\ (Abstract(k - 1) = "comment" /\ k + 1 \in DOMAIN toks)
              => Abstract(k + 1) \in {"sealed", "end"}
  <1>1. /\ k \in 1..Len(toks) /\ k \in Nat /\ Len(toks) \in Nat /\ Held(k)
        /\ DOMAIN toks = 1..Len(toks) /\ BlockFacts
        /\ End \in Nat /\ Char(End) = "EOF" /\ \A q \in 1..(End - 1) : Char(q) # "EOF"
    BY ScannedFacts, BlockFactsHold
  <1>2. IsSealed(k) /\ text.lang = "spectre" /\ BlockOpen[k - 1]
    BY AbstractFacts DEF IsSealed
  <1>3. k # 1
    BY <1>1, <1>2 DEF BlockFacts
  <1>4. k - 1 \in 1..Len(toks) /\ k - 1 \in DOMAIN toks /\ Held(k - 1)
    BY <1>1, <1>3, ScannedFacts
  <1>5. toks[k - 1].kind = "COMMENT"
    <2>1. toks[k - 1].kind # "ENDMARKER"
      <3>1. toks[k - 1].kind = "ENDMARKER" => k - 1 = Len(toks)
        BY <1>4 DEF Scanned
      <3> QED
        BY <1>1, <3>1
    <2>2. CASE BlockOpen[k - 1 - 1]
      BY <1>2, <1>4, <2>1, <2>2 DEF Held
    <2>3. CASE ~BlockOpen[k - 1 - 1]
      BY <1>1, <1>2, <1>4, <2>3, Zenon DEF BlockFacts, Opener
    <2> QED
      BY <2>2, <2>3
  <1>6. Abstract(k - 1) \in {"comment", "sealed"}
    BY <1>4, <1>5, AbstractFacts
  <1>7. ASSUME Abstract(k - 1) = "comment", k + 1 \in DOMAIN toks
        PROVE  Abstract(k + 1) \in {"sealed", "end"}
    <2>1. ~IsSealed(k - 1)
      BY <1>4, <1>7, AbstractFacts
    <2>2. Char(toks[k].from) \in {"NL", "EOF"}
      BY <1>1, <1>3, <1>4, <1>5, <2>1 DEF Held, ReadAt
    <2>3. SealedAt(toks[k].from, toks[k].to) /\ toks[k].from \in 1..End
      BY <1>1, <1>2 DEF Held
    <2>4. Char(toks[k].from) = "NL"
      BY <1>1, <2>2, <2>3 DEF SealedAt
    <2>5. \A p \in toks[k].from..(toks[k].to - 1) : Char(p) = "NL"
      BY <1>1, <2>3, <2>4 DEF SealedAt
    <2>6. ~Mentions(k, "unsealing")
      BY <2>5 DEF Mentions
    <2>7. BlockOpen[k]
      BY <1>1, <1>2, <2>6, Zenon DEF BlockFacts
    <2>8. PICK m : m = k + 1
      OBVIOUS
    <2>9. Held(m) /\ m - 1 = k /\ m \in DOMAIN toks
      BY <1>1, <1>7, <2>8, ScannedFacts
    <2>10. BlockOpen[m - 1]
      BY <2>7, <2>9, Zenon
    <2>11. toks[m].kind \in {"COMMENT", "ENDMARKER"}
      BY <1>2, <2>9, <2>10, Zenon DEF Held
    <2>12. toks[m].kind = "COMMENT" => IsSealed(m)
      BY <1>2, <2>10, Zenon DEF IsSealed
    <2> QED
      BY <2>8, <2>9, <2>11, <2>12, AbstractFacts
  <1> QED
    BY <1>1, <1>3, <1>4, <1>6, <1>7

LEMMA AssumptionImplied == Scanned => ParsersAssumption
  <1> SUFFICES ASSUME Scanned, Done
               PROVE Parsers!Lexed([k \in DOMAIN toks |-> Abstract(k)])
    BY DEF ParsersAssumption
  <1>1. PICK n : n = Len(toks)
    OBVIOUS
  <1>2. PICK r : r = [k \in DOMAIN toks |-> Abstract(k)]
    OBVIOUS
  <1>3. n \in Nat /\ DOMAIN toks = 1..n
    BY <1>1, ScannedFacts
  <1>4. \A k \in 1..n : r[k] = Abstract(k)
    BY <1>2, <1>3
  <1>5. r \in Seq(Parsers!Kind)
    <2>1. r = [k \in 1..n |-> Abstract(k)] /\ \A k \in 1..n : Abstract(k) \in Parsers!Kind
      BY <1>2, <1>3, AbstractFacts
    <2> QED
      BY <1>3, <2>1
  <1>6. Len(r) = n
    BY <1>2, <1>3, <1>5, LenProperties
  <1>7. n > 0 /\ toks[n].kind = "ENDMARKER"
    BY <1>1, <1>3, ScannedFacts DEF Done, last_token
  <1>8. \A k \in 1..n : (r[k] = "end") <=> (k = n)
    BY <1>1, <1>3, <1>4, <1>7, AbstractFacts DEF Scanned
  <1>9. ASSUME NEW k \in 1..n, r[k] # "end" PROVE k + 1 \in 1..n
    BY <1>3, <1>8, <1>9
  <1>10. ASSUME NEW k \in 1..n, r[k] = "comment"
         PROVE  r[k + 1] \in {"nl", "sealed", "end"}
    <2>1. k + 1 \in 1..n
      BY <1>9, <1>10
    <2> QED
      BY <1>3, <1>4, <1>10, <2>1, CommentEnds
  <1>11. ASSUME NEW k \in 1..n, r[k] = "sealed"
         PROVE  /\ k > 1
                /\ r[k - 1] \in Parsers!Comment
                /\ r[k - 1] = "comment" => r[k + 1] \in {"sealed", "end"}
    <2>1. k + 1 \in 1..n
      BY <1>9, <1>11
    <2>2. /\ k > 1 /\ k - 1 \in 1..n /\ Abstract(k - 1) \in {"comment", "sealed"}
          /\ Abstract(k - 1) = "comment" => Abstract(k + 1) \in {"sealed", "end"}
      BY <1>3, <1>4, <1>11, <2>1, BlockBegins
    <2> QED
      BY <1>4, <2>1, <2>2 DEF Parsers!Comment
  <1>12. r # << >>
    BY <1>5, <1>6, <1>7, EmptySeq
  <1> QED
    BY <1>2, <1>5, <1>6, <1>8, <1>10, <1>11, <1>12 DEF Parsers!Lexed

-----------------------------------------------------------------------------
(* The tokens of every text tile it, and the lexers get on.                *)
THEOREM TypeCorrect == Spec => []TypeOK
  BY AlwaysScanned, TypeImplied, PTL

(* Of every text, both lexers guarantee the token layer what it assumes.   *)
THEOREM ParsersAssumptionHolds == Spec => []ParsersAssumption
  BY AlwaysScanned, AssumptionImplied, PTL

(* In no text does a statement lose the newline that ends it.              *)
THEOREM NewlinesAlwaysTokens == Spec => []NewlinesAreTokens
  BY AlwaysScanned, NewlinesImplied, PTL

-----------------------------------------------------------------------------
(* Lines and the parentheses in them, in SPICE: something has been read in *)
(* the line behind token k; the line goes on from token s to token k.      *)
Started(k) ==
  \E j \in 1..k : Nontrivial(j) /\ \A l \in (j + 1)..k : toks[l].kind # "NEWLINE"

LineFrom(s, k) ==
  /\ s = 1 \/ (s <= k /\ BeginsLine(s))
  /\ \A r \in (s + 1)..k : ~BeginsLine(r)

Rights == {"RPAREN"}
Lefts == {"LPAREN", "JULIA_ESCAPE_BEGIN"}

LinesUpto(k) ==
  /\ lexed_nontriv_token_line <=> Started(k)
  /\ \A l \in 1..k : toks[l].kind = "RPAREN" =>
       \E s \in 1..l : LineFrom(s, l) /\ Count(Rights, s, l) <= Count(Lefts, s, l)
  /\ \E s \in 1..(k + 1) :
       /\ LineFrom(s, k)
       /\ Opens(lexing_expression_stack) + Count(Rights, s, k) <= Count(Lefts, s, k)

InLines == text.lang = "spice" => \E k \in Nat : k = Len(toks) /\ LinesUpto(k)

LEMMA BeginsUnlessStarted ==
  \A k \in Nat : BeginsLine(k) <=> (toks[k].kind \notin Triv \cup {"PLUS"} /\ ~Started(k - 1))
  <1> TAKE k \in Nat
  <1>1. Started(k - 1) <=>
          ~\A j \in 1..(k - 1) :
             toks[j].kind \notin Triv => \E n \in (j + 1)..(k - 1) : toks[n].kind = "NEWLINE"
    BY DEF Started, Nontrivial
  <1> QED
    BY <1>1 DEF BeginsLine

LEMMA CountFinite ==
  \A K, s, k : (s \in Nat /\ k \in Nat) =>
    /\ IsFiniteSet({l \in s..k : toks[l].kind \in K})
    /\ Count(K, s, k) \in Nat
  <1> TAKE K, s, k
  <1> SUFFICES ASSUME s \in Nat, k \in Nat
      PROVE  /\ IsFiniteSet({l \in s..k : toks[l].kind \in K})
             /\ Count(K, s, k) \in Nat
    OBVIOUS
  <1>1. IsFiniteSet(s..k)
    BY FS_Interval
  <1>2. IsFiniteSet({l \in s..k : toks[l].kind \in K})
    BY <1>1, FS_Subset
  <1> QED
    BY <1>2, FS_CardinalityType DEF Count

(* What is told of the tokens that are there stays so.                     *)
LEMMA LinesKept ==
  ASSUME Extends, NEW k \in 0..Len(toks)
  PROVE  /\ Started(k)' <=> Started(k)
         /\ k > 0 => (BeginsLine(k)' <=> BeginsLine(k))
         /\ \A s \in 1..(k + 1) : LineFrom(s, k)' <=> LineFrom(s, k)
         /\ \A K : \A s \in 1..(k + 1) : Count(K, s, k)' = Count(K, s, k)
  <1>1. /\ Len(toks) \in Nat
        /\ \A j \in 1..Len(toks) : toks'[j] = toks[j]
    BY SequenceFacts DEF Extends
  <1>2. ASSUME NEW m \in 0..Len(toks) PROVE Started(m)' <=> Started(m)
    BY <1>1 DEF Started, Nontrivial
  <1>3. ASSUME NEW m \in 1..Len(toks) PROVE BeginsLine(m)' <=> BeginsLine(m)
    BY <1>1 DEF BeginsLine
  <1>4. ASSUME NEW s \in 1..(k + 1) PROVE LineFrom(s, k)' <=> LineFrom(s, k)
    <2>1. \A r \in (s + 1)..k : r \in 1..Len(toks)
      BY <1>1
    <2>2. s <= k => s \in 1..Len(toks)
      BY <1>1
    <2> QED
      BY <1>3, <2>1, <2>2 DEF LineFrom
  <1>5. ASSUME NEW K, NEW s \in 1..(k + 1) PROVE Count(K, s, k)' = Count(K, s, k)
    <2>1. \A l \in s..k : toks'[l] = toks[l]
      BY <1>1
    <2>2. {l \in s..k : toks'[l].kind \in K} = {l \in s..k : toks[l].kind \in K}
      BY <2>1
    <2> QED
      BY <2>2, Zenon DEF Count
  <1> QED
    BY <1>1, <1>2, <1>3, <1>4, <1>5

LEMMA CountOn ==
  ASSUME Extends, NEW k, k = Len(toks), k + 1 = Len(toks'), NEW K, NEW s \in 1..(k + 1)
  PROVE  /\ Count(K, s, k) \in Nat /\ Count(K, s, k + 1)' \in Nat
         /\ toks'[k + 1].kind \in K => Count(K, s, k + 1)' = Count(K, s, k) + 1
         /\ toks'[k + 1].kind \notin K => Count(K, s, k + 1)' = Count(K, s, k)
  <1> DEFINE A == {l \in s..k : toks[l].kind \in K}
             B == {l \in s..(k + 1) : toks'[l].kind \in K}
  <1>1. k \in Nat /\ \A j \in 1..k : toks'[j] = toks[j]
    BY SequenceFacts DEF Extends
  <1>2. IsFiniteSet(A) /\ Cardinality(A) \in Nat
    <2>1. s \in Nat /\ k \in Nat
      BY <1>1
    <2>2. IsFiniteSet(A)
      BY <2>1, CountFinite, Zenon
    <2> QED
      BY <2>2, FS_CardinalityType
  <1>3. toks'[k + 1].kind \in K => B = A \cup {k + 1}
    BY <1>1
  <1>4. toks'[k + 1].kind \notin K => B = A
    BY <1>1
  <1>5. k + 1 \notin A
    BY <1>1
  <1>6. Count(K, s, k) = Cardinality(A) /\ Count(K, s, k + 1)' = Cardinality(B)
    BY DEF Count
  <1> HIDE DEF A, B
  <1>7. Cardinality(A \cup {k + 1}) = Cardinality(A) + 1
    BY <1>2, <1>5, FS_AddElement
  <1>8. toks'[k + 1].kind \in K => Count(K, s, k + 1)' = Count(K, s, k) + 1
    BY <1>3, <1>6, <1>7, Zenon
  <1>9. toks'[k + 1].kind \notin K => Count(K, s, k + 1)' = Count(K, s, k)
    BY <1>4, <1>6, Zenon
  <1>10. Count(K, s, k) \in Nat
    BY <1>2, <1>6, Zenon
  <1> QED
    BY <1>8, <1>9, <1>10

LEMMA CountNone == \A K, s, k : (s \in Nat /\ k \in Nat /\ s > k) => Count(K, s, k) = 0
  <1> TAKE K, s, k
  <1> SUFFICES ASSUME s \in Nat, k \in Nat, s > k PROVE Count(K, s, k) = 0
    OBVIOUS
  <1>1. {l \in s..k : toks[l].kind \in K} = {}
    OBVIOUS
  <1> QED
    BY <1>1, FS_EmptySet, Zenon DEF Count

(* A token of the SPICE lexer.                                             *)
SpiceEmits(kind, to, stack) ==
  /\ Spice!Emit(kind, to, stack) /\ Read(kind, to) /\ Balanced(kind, stack) /\ Placed(kind)
  /\ text.lang = "spice" /\ ~Done

LEMMA SpiceEmission ==
  ASSUME Scanned, SpiceToken
  PROVE  \E kind, to, stack : SpiceEmits(kind, to, stack)
  BY SpiceTokenStep, SameCursor DEF Scanned, SpiceStep, SpiceEmits, Spice!Running,
     Spice!Done, Done, Spice!last_token, last_token

LEMMA SpiceEmitted ==
  ASSUME Scanned, NEW kind, NEW to, NEW stack, SpiceEmits(kind, to, stack),
         NEW m, m = Len(toks) + 1
  PROVE  /\ Extends /\ Len(toks) \in Nat /\ Len(toks') = m
         /\ toks'[m] = [kind |-> kind, from |-> i, to |-> to]
         /\ i' = to
         /\ last_nontriv_token' = (IF kind \in Triv THEN last_nontriv_token ELSE kind)
         /\ lexed_nontriv_token_line'
              = (kind # "NEWLINE" /\ (lexed_nontriv_token_line \/ kind \notin Triv))
         /\ lexing_expression_stack' = stack
         /\ Started(m)' <=> (kind # "NEWLINE" /\ (Started(Len(toks)) \/ kind \notin Triv))
         /\ BeginsLine(m)' <=> (kind \notin Triv \cup {"PLUS"} /\ ~Started(Len(toks)))
  <1>1. /\ Emitted(kind, to)
        /\ last_nontriv_token' = (IF kind \in Triv THEN last_nontriv_token ELSE kind)
        /\ lexed_nontriv_token_line'
             = (kind # "NEWLINE" /\ (lexed_nontriv_token_line \/ kind \notin Triv))
        /\ lexing_expression_stack' = stack
    BY SameCursor DEF SpiceEmits, Spice!Emit, Spice!Triv, Triv
  <1>2. PICK n : n = Len(toks)
    OBVIOUS
  <1>3. /\ Extends /\ n \in Nat /\ Len(toks') = m /\ m = n + 1
        /\ \A k \in 1..n : toks'[k] = toks[k]
        /\ toks'[m] = [kind |-> kind, from |-> i, to |-> to]
        /\ i' = to
    BY <1>1, <1>2, NewToken DEF Scanned
  <1>4. Started(n)' <=> Started(n)
    BY <1>2, <1>3, LinesKept
  <1>5. Started(m)' <=> (kind # "NEWLINE" /\ (Started(n) \/ kind \notin Triv))
    <2>1. ASSUME Started(m)' PROVE kind # "NEWLINE" /\ (Started(n) \/ kind \notin Triv)
      <3>1. PICK j \in 1..m : /\ toks'[j].kind \notin Triv
                              /\ \A l \in (j + 1)..m : toks'[l].kind # "NEWLINE"
        BY <2>1 DEF Started, Nontrivial
      <3>2. CASE j = m
        BY <1>3, <3>1, <3>2 DEF Triv
      <3>3. CASE j # m
        <4>1. j \in 1..n /\ m \in (j + 1)..m /\ \A l \in (j + 1)..n : l \in (j + 1)..m
          BY <1>3, <3>3
        <4>2. kind # "NEWLINE"
          BY <1>3, <3>1, <4>1
        <4>3. Started(n)
          BY <1>3, <3>1, <4>1 DEF Started, Nontrivial
        <4> QED
          BY <4>2, <4>3
      <3> QED
        BY <3>2, <3>3
    <2>2. ASSUME kind # "NEWLINE", Started(n) PROVE Started(m)'
      <3>1. PICK j \in 1..n : /\ toks[j].kind \notin Triv
                              /\ \A l \in (j + 1)..n : toks[l].kind # "NEWLINE"
        BY <2>2 DEF Started, Nontrivial
      <3>2. j \in 1..m /\ \A l \in (j + 1)..m : l = m \/ l \in (j + 1)..n
        BY <1>3
      <3>3. \A l \in (j + 1)..m : toks'[l].kind # "NEWLINE"
        BY <1>3, <2>2, <3>1, <3>2
      <3> QED
        BY <1>3, <3>1, <3>2, <3>3 DEF Started, Nontrivial
    <2>3. ASSUME kind \notin Triv PROVE Started(m)'
      <3>1. m \in 1..m /\ \A l \in (m + 1)..m : FALSE
        BY <1>3
      <3> QED
        BY <1>3, <2>3, <3>1 DEF Started, Nontrivial
    <2> QED
      BY <2>1, <2>2, <2>3
  <1>6. BeginsLine(m)' <=> (kind \notin Triv \cup {"PLUS"} /\ ~Started(n))
    <2>1. (\A k \in Nat : BeginsLine(k)
             <=> (toks[k].kind \notin Triv \cup {"PLUS"} /\ ~Started(k - 1)))'
      BY BeginsUnlessStarted, PTL
    <2>2. m \in Nat /\ m - 1 = n
      BY <1>3
    <2>3. BeginsLine(m)' <=> (toks'[m].kind \notin Triv \cup {"PLUS"} /\ ~Started(m - 1)')
      BY <2>1, <2>2, Zenon
    <2>4. Started(m - 1)' <=> Started(n)'
      BY <2>2, Zenon
    <2> QED
      BY <1>3, <1>4, <2>3, <2>4
  <1> QED
    BY <1>1, <1>2, <1>3, <1>5, <1>6

(* How the parentheses of the line stand behind the new token.             *)
LEMMA LineGoesOn ==
  ASSUME Scanned, InLines, NEW kind, NEW to, NEW stack, SpiceEmits(kind, to, stack),
         NEW m, m = Len(toks) + 1
  PROVE  /\ Opens(stack) \in Nat
         /\ \E s \in 1..m :
              /\ LineFrom(s, m)'
              /\ Count(Rights, s, m)' \in Nat /\ Count(Lefts, s, m)' \in Nat
              /\ Opens(stack) + Count(Rights, s, m)' <= Count(Lefts, s, m)'
  <1>1. PICK n : n = Len(toks)
    OBVIOUS
  <1>2. /\ Extends /\ n \in Nat /\ Len(toks') = m /\ m = n + 1
        /\ toks'[m] = [kind |-> kind, from |-> i, to |-> to]
        /\ BeginsLine(m)' <=> (kind \notin Triv \cup {"PLUS"} /\ ~Started(n))
    BY <1>1, SpiceEmitted
  <1>3. /\ lexed_nontriv_token_line <=> Started(n)
        /\ Opens(stack) \in Nat /\ Opens(Spice!Stack) \in Nat
        /\ Opens(lexing_expression_stack) \in Nat
        /\ Opens(Spice!Stack) <= Opens(lexing_expression_stack)
        /\ kind = "RPAREN" => Opens(stack) + 1 <= Opens(Spice!Stack)
        /\ kind \in Lefts => Opens(stack) <= Opens(Spice!Stack) + 1
        /\ kind \notin Rights \cup Lefts => Opens(stack) <= Opens(Spice!Stack)
    <2>1. lexed_nontriv_token_line <=> Started(n)
      BY <1>1, Zenon DEF InLines, LinesUpto, SpiceEmits
    <2>2. Ready /\ stack \in Seq(Delimiters) /\ lexing_expression_stack \in Seq(Delimiters)
      BY DEF Scanned, Ready, SpiceEmits, Balanced
    <2>3. Opens(stack) \in Nat /\ Opens(lexing_expression_stack) \in Nat
      BY <2>2, OpensNat
    <2>4. Opens(Spice!Stack) \in Nat /\ Opens(Spice!Stack) <= Opens(lexing_expression_stack)
      BY <2>2, StackOK
    <2>5. Balanced(kind, stack)
      BY DEF SpiceEmits
    <2> QED
      BY <2>1, <2>3, <2>4, <2>5 DEF Balanced, Rights, Lefts
  <1>4. CASE BeginsLine(m)'
    <2>1. kind \notin Triv \cup {"PLUS"} /\ ~lexed_nontriv_token_line
      BY <1>2, <1>3, <1>4, Zenon
    <2>2. Spice!Stack = << >>
      BY <2>1 DEF SpiceEmits, Placed
    <2>3. Opens(Spice!Stack) = 0
      BY <2>2, EmptyStack
    <2>4. m \in 1..(n + 1) /\ m \in Nat /\ m > n /\ m \in 1..m
      BY <1>2
    <2>5. Count(Rights, m, n) = 0 /\ Count(Lefts, m, n) = 0
      BY <1>2, <2>4, CountNone
    <2>6. \A K : /\ Count(K, m, n + 1)' \in Nat
                 /\ toks'[n + 1].kind \in K => Count(K, m, n + 1)' = Count(K, m, n) + 1
                 /\ toks'[n + 1].kind \notin K => Count(K, m, n + 1)' = Count(K, m, n)
      BY <1>1, <1>2, <2>4, CountOn
    <2>7. kind = "RPAREN" => FALSE
      BY <1>3, <2>3
    <2>8. /\ Count(Rights, m, m)' \in Nat /\ Count(Lefts, m, m)' \in Nat
          /\ Count(Rights, m, m)' = 0
          /\ kind \in Lefts => Count(Lefts, m, m)' = 1
      BY <1>2, <2>5, <2>6, <2>7 DEF Rights
    <2>9. LineFrom(m, m)'
      BY <1>2, <1>4 DEF LineFrom
    <2>10. Opens(stack) + Count(Rights, m, m)' <= Count(Lefts, m, m)'
      BY <1>3, <2>3, <2>7, <2>8 DEF Rights
    <2> QED
      BY <1>3, <2>4, <2>8, <2>9, <2>10
  <1>5. CASE ~BeginsLine(m)'
    <2>1. PICK s \in 1..(n + 1) :
            /\ LineFrom(s, n)
            /\ Opens(lexing_expression_stack) + Count(Rights, s, n) <= Count(Lefts, s, n)
      BY <1>1 DEF InLines, LinesUpto, SpiceEmits
    <2>2. \A K : /\ Count(K, s, n) \in Nat /\ Count(K, s, n + 1)' \in Nat
                 /\ toks'[n + 1].kind \in K => Count(K, s, n + 1)' = Count(K, s, n) + 1
                 /\ toks'[n + 1].kind \notin K => Count(K, s, n + 1)' = Count(K, s, n)
      BY <1>1, <1>2, CountOn
    <2>3. /\ Count(Rights, s, m)' \in Nat /\ Count(Lefts, s, m)' \in Nat
          /\ Count(Rights, s, n) \in Nat /\ Count(Lefts, s, n) \in Nat
          /\ kind \in Rights => Count(Rights, s, m)' = Count(Rights, s, n) + 1
          /\ kind \notin Rights => Count(Rights, s, m)' = Count(Rights, s, n)
          /\ kind \in Lefts => Count(Lefts, s, m)' = Count(Lefts, s, n) + 1
          /\ kind \notin Lefts => Count(Lefts, s, m)' = Count(Lefts, s, n)
      BY <1>2, <2>2
    <2>4. Opens(stack) + Count(Rights, s, m)' <= Count(Lefts, s, m)'
      <3>1. CASE kind \in Rights
        <4>1. kind \notin Lefts /\ kind = "RPAREN"
          BY <3>1 DEF Rights, Lefts
        <4> QED
          BY <1>3, <2>1, <2>3, <3>1, <4>1
      <3>2. CASE kind \in Lefts
        <4>1. kind \notin Rights
          BY <3>2 DEF Rights, Lefts
        <4> QED
          BY <1>3, <2>1, <2>3, <3>2, <4>1
      <3>3. CASE kind \notin Rights \cup Lefts
        BY <1>3, <2>1, <2>3, <3>3
      <3> QED
        BY <3>1, <3>2, <3>3
    <2>5. LineFrom(s, n)'
      BY <1>1, <1>2, <2>1, LinesKept
    <2>6. \A r \in (s + 1)..m : r \in (s + 1)..n \/ r = m
      BY <1>2
    <2>7. LineFrom(s, m)'
      BY <1>2, <1>5, <2>5, <2>6 DEF LineFrom
    <2> QED
      BY <1>2, <1>3, <2>3, <2>4, <2>7
  <1> QED
    BY <1>4, <1>5

LEMMA LinesGrow ==
  ASSUME Scanned, InLines, SpiceToken
  PROVE  InLines'
  <1>1. PICK kind, to, stack : SpiceEmits(kind, to, stack)
    BY SpiceEmission
  <1>2. PICK n : n = Len(toks)
    OBVIOUS
  <1>3. PICK m : m = n + 1
    OBVIOUS
  <1>4. /\ Extends /\ n \in Nat /\ Len(toks') = m /\ text' = text
        /\ \A k \in 1..n : toks'[k] = toks[k]
        /\ toks'[m] = [kind |-> kind, from |-> i, to |-> to]
        /\ lexed_nontriv_token_line'
             = (kind # "NEWLINE" /\ (lexed_nontriv_token_line \/ kind \notin Triv))
        /\ lexing_expression_stack' = stack
        /\ Started(m)' <=> (kind # "NEWLINE" /\ (Started(n) \/ kind \notin Triv))
    BY <1>1, <1>2, <1>3, SpiceEmitted DEF Extends
  <1>5. /\ lexed_nontriv_token_line <=> Started(n)
        /\ \A k \in 1..n : toks[k].kind = "RPAREN" =>
             \E s \in 1..k : LineFrom(s, k) /\ Count(Rights, s, k) <= Count(Lefts, s, k)
    BY <1>1, <1>2, Zenon DEF InLines, LinesUpto, SpiceEmits
  <1>6. PICK s \in 1..m :
          /\ LineFrom(s, m)'
          /\ Count(Rights, s, m)' \in Nat /\ Count(Lefts, s, m)' \in Nat
          /\ Opens(stack) \in Nat
          /\ Opens(stack) + Count(Rights, s, m)' <= Count(Lefts, s, m)'
    BY <1>1, <1>2, <1>3, LineGoesOn
  <1>7. lexed_nontriv_token_line' <=> Started(m)'
    BY <1>4, <1>5, Zenon
  <1>8. ASSUME NEW k \in 1..m, toks'[k].kind = "RPAREN"
        PROVE  \E r \in 1..k : LineFrom(r, k)' /\ Count(Rights, r, k)' <= Count(Lefts, r, k)'
    <2>1. CASE k = m
      <3>1. Count(Rights, s, m)' <= Count(Lefts, s, m)'
        BY <1>6
      <3> QED
        BY <1>6, <2>1, <3>1
    <2>2. CASE k # m
      <3>1. k \in 1..n /\ k \in 0..n
        BY <1>3, <1>4, <2>2
      <3>2. PICK r \in 1..k : LineFrom(r, k) /\ Count(Rights, r, k) <= Count(Lefts, r, k)
        BY <1>4, <1>5, <1>8, <3>1
      <3>3. r \in 1..(k + 1)
        BY <3>1
      <3>4. /\ LineFrom(r, k)'
            /\ Count(Rights, r, k)' = Count(Rights, r, k)
            /\ Count(Lefts, r, k)' = Count(Lefts, r, k)
        BY <1>2, <1>4, <3>1, <3>2, <3>3, LinesKept
      <3>5. Count(Rights, r, k)' <= Count(Lefts, r, k)'
        BY <3>2, <3>4
      <3> QED
        BY <3>4, <3>5
    <2> QED
      BY <2>1, <2>2
  <1>9. Opens(lexing_expression_stack)' = Opens(stack)
    BY <1>4
  <1>10. s \in 1..(m + 1)
    BY <1>3, <1>4
  <1>11. LinesUpto(m)'
    BY <1>6, <1>7, <1>8, <1>9, <1>10 DEF LinesUpto
  <1>12. m \in Nat
    BY <1>3, <1>4
  <1> QED
    BY <1>4, <1>11, <1>12 DEF InLines

LEMMA Unchanged ==
  ASSUME Scanned, UNCHANGED vars
  PROVE  /\ Extends /\ toks' = toks /\ text' = text
         /\ lexed_nontriv_token_line' = lexed_nontriv_token_line
         /\ lexing_expression_stack' = lexing_expression_stack
         /\ last_nontriv_token' = last_nontriv_token
  <1>1. toks' = toks /\ text' = text
    BY DEF vars
  <1>2. IsSequence(toks) /\ Len(toks) \in Nat
    BY SequenceFacts DEF Scanned
  <1> QED
    BY <1>1, <1>2 DEF Extends, vars

LEMMA LinesStutter ==
  ASSUME Scanned, InLines, UNCHANGED vars
  PROVE  InLines'
  <1> SUFFICES ASSUME text.lang = "spice" PROVE InLines'
    BY Unchanged DEF InLines
  <1>1. PICK k \in Nat : k = Len(toks) /\ LinesUpto(k)
    BY DEF InLines
  <1>2. /\ Extends /\ toks' = toks /\ text' = text /\ k \in 0..Len(toks)
        /\ lexed_nontriv_token_line' = lexed_nontriv_token_line
        /\ lexing_expression_stack' = lexing_expression_stack
    BY <1>1, Unchanged
  <1>3. /\ Started(k)' <=> Started(k)
        /\ \A l \in 1..k : \A s \in 1..(l + 1) :
             /\ LineFrom(s, l)' <=> LineFrom(s, l)
             /\ \A K : Count(K, s, l)' = Count(K, s, l)
        /\ \A s \in 1..(k + 1) :
             /\ LineFrom(s, k)' <=> LineFrom(s, k)
             /\ \A K : Count(K, s, k)' = Count(K, s, k)
    <2>1. \A l \in 1..k : l \in 0..Len(toks)
      BY <1>1
    <2> QED
      BY <1>2, <2>1, LinesKept
  <1>4. \A l \in 1..k : \A s \in 1..l : s \in 1..(l + 1)
    OBVIOUS
  <1>5. /\ Started(k)' <=> lexed_nontriv_token_line'
        /\ \A l \in 1..k : toks'[l].kind = "RPAREN" =>
             \E s \in 1..l : LineFrom(s, l)' /\ Count(Rights, s, l)' <= Count(Lefts, s, l)'
    <2>1. Started(k)' <=> lexed_nontriv_token_line'
      BY <1>1, <1>2, <1>3, Zenon DEF LinesUpto
    <2>2. ASSUME NEW l \in 1..k, toks'[l].kind = "RPAREN"
          PROVE  \E s \in 1..l : /\ LineFrom(s, l)'
                                 /\ Count(Rights, s, l)' <= Count(Lefts, s, l)'
      <3>1. PICK s \in 1..l : LineFrom(s, l) /\ Count(Rights, s, l) <= Count(Lefts, s, l)
        BY <1>1, <1>2, <2>2 DEF LinesUpto
      <3>2. /\ LineFrom(s, l)' /\ Count(Rights, s, l)' = Count(Rights, s, l)
            /\ Count(Lefts, s, l)' = Count(Lefts, s, l)
        BY <1>3, <1>4, <3>1
      <3> QED
        BY <3>1, <3>2
    <2> QED
      BY <2>1, <2>2
  <1>6. PICK s \in 1..(k + 1) :
          /\ LineFrom(s, k)
          /\ Opens(lexing_expression_stack) + Count(Rights, s, k) <= Count(Lefts, s, k)
    BY <1>1 DEF LinesUpto
  <1>7. /\ LineFrom(s, k)' /\ Count(Rights, s, k)' = Count(Rights, s, k)
        /\ Count(Lefts, s, k)' = Count(Lefts, s, k)
        /\ Opens(lexing_expression_stack)' = Opens(lexing_expression_stack)
    BY <1>2, <1>3, <1>6
  <1>8. LinesUpto(k)'
    BY <1>5, <1>6, <1>7 DEF LinesUpto
  <1> QED
    BY <1>1, <1>2, <1>8 DEF InLines

LEMMA LinesInit == Init => InLines
  <1> SUFFICES ASSUME Init, text.lang = "spice" PROVE \E k \in Nat : k = Len(toks) /\ LinesUpto(k)
    BY DEF InLines
  <1>1. /\ toks = << >> /\ lexed_nontriv_token_line = FALSE /\ lexing_expression_stack = << >>
    BY DEF Init, Spice!Init
  <1>2. Len(toks) = 0 /\ 0 \in Nat
    BY <1>1
  <1>3. ~Started(0)
    BY DEF Started
  <1>4. Opens(lexing_expression_stack) = 0
    BY <1>1, EmptyStack
  <1>5. Count(Rights, 1, 0) = 0 /\ Count(Lefts, 1, 0) = 0
    BY CountNone
  <1>6. 1 \in 1..(0 + 1) /\ LineFrom(1, 0)
    BY DEF LineFrom
  <1>7. lexed_nontriv_token_line <=> Started(0)
    BY <1>1, <1>3, Zenon
  <1>8. Opens(lexing_expression_stack) + Count(Rights, 1, 0) <= Count(Lefts, 1, 0)
    BY <1>4, <1>5
  <1>9. LinesUpto(0)
    BY <1>6, <1>7, <1>8 DEF LinesUpto
  <1> QED
    BY <1>2, <1>9

LEMMA AlwaysInLines == Spec => []InLines
  <1>1. ASSUME Scanned, InLines, [Next]_vars PROVE InLines'
    <2>1. CASE SpiceToken
      BY <1>1, <2>1, LinesGrow
    <2>2. CASE SpectreToken
      <3>1. text.lang = "spectre"
        BY <1>1, <2>2, SpectreTokenStep DEF Scanned, Spectre!Running
      <3>2. text' = text
        BY <1>1, <2>2, SpectreGrows DEF Grows, Emitted
      <3> QED
        BY <3>1, <3>2 DEF InLines
    <2>3. CASE UNCHANGED vars
      BY <1>1, <2>3, LinesStutter
    <2> QED
      BY <1>1, <2>1, <2>2, <2>3 DEF Next
  <1>2. Scanned /\ InLines /\ [Next]_vars => InLines'
    BY <1>1
  <1> QED
    BY <1>2, LinesInit, AlwaysScanned, PTL DEF Spec

LEMMA ParensImplied == Scanned /\ InLines => ParensMatchInLine
  <1> SUFFICES ASSUME Scanned, InLines, text.lang = "spice",
                      NEW k \in DOMAIN toks, toks[k].kind = "RPAREN"
      PROVE  \E s \in 1..k :
               /\ s = 1 \/ BeginsLine(s)
               /\ \A r \in (s + 1)..k : ~BeginsLine(r)
               /\ Count({"RPAREN"}, s, k) <= Count({"LPAREN", "JULIA_ESCAPE_BEGIN"}, s, k)
    BY DEF ParensMatchInLine
  <1>1. k \in 1..Len(toks)
    BY ScannedFacts
  <1>2. PICK s \in 1..k : LineFrom(s, k) /\ Count(Rights, s, k) <= Count(Lefts, s, k)
    BY <1>1 DEF InLines, LinesUpto
  <1> QED
    BY <1>2 DEF LineFrom, Rights, Lefts

(* In no text does a closing parenthesis close what another line opened.   *)
THEOREM ParensAlwaysMatch == Spec => []ParensMatchInLine
  BY AlwaysScanned, AlwaysInLines, ParensImplied, PTL

-----------------------------------------------------------------------------
(* Lines that begin with a star.  What can keep the next token k + 1 from  *)
(* being a comment there: a command still owes its path, or a token from   *)
(* the line before goes on or took the newline along.                      *)
Owing(k) ==
  \E j \in 1..k : toks[j].kind \in PathKinds /\ \A l \in (j + 1)..k : ~Nontrivial(l)

RunsOn(k) ==
  \E j \in 1..k :
    /\ \/ Escaped(toks[j])
       \/ toks[j].kind \in {"ESCD_NEWLINE", "STRING"}
       \/ IsSealed(j)
    /\ \A l \in (j + 1)..k : toks[l].kind = "WHITESPACE"

Starred(k) ==
  StarLine(toks[k].from) =>
    \/ toks[k].kind \in {"COMMENT", "TITLE_LINE"}
    \/ text.lang = "spice" /\ Owing(k - 1)
    \/ RunsOn(k - 1)

CommentsUpto(k) ==
  /\ (text.lang = "spice" /\ last_nontriv_token \in PathKinds) => Owing(k)
  /\ \A l \in 1..k : Starred(l)

Comments == \E k \in Nat : k = Len(toks) /\ CommentsUpto(k)

(* No token reaches beyond the cursor.                                     *)
LEMMA BehindCursor ==
  ASSUME Scanned, NEW k \in 1..Len(toks)
  PROVE  /\ toks[k].from \in 1..End /\ toks[k].to \in 1..End
         /\ toks[k].from <= toks[k].to /\ toks[k].to <= i
  <1>1. PICK n : n = Len(toks)
    OBVIOUS
  <1>2. /\ n \in Nat /\ End \in Nat /\ i \in 1..End /\ i \in Nat /\ k \in 1..n
        /\ \A j \in 1..n : Held(j)
        /\ n > 0 => i = toks[n].to
    BY <1>1, ScannedFacts DEF Scanned, Ready
  <1>3. \A j \in 1..n : /\ toks[j].from \in 1..End /\ toks[j].to \in 1..End
                        /\ toks[j].from <= toks[j].to
    <2> TAKE j \in 1..n
    <2>1. Held(j)
      BY <1>2
    <2>2. IsSealed(j) => toks[j].to \in (toks[j].from + 1)..End
      BY <2>1 DEF Held, SealedAt
    <2>3. ~IsSealed(j) => toks[j].to \in toks[j].from..End
      BY <2>1 DEF Held, ReadAt
    <2>4. toks[j].from \in 1..End
      BY <2>1 DEF Held
    <2> QED
      BY <1>2, <2>2, <2>3, <2>4
  <1> DEFINE Bad == {j \in 1..n : ~(toks[j].to <= i)}
  <1>4. Bad = {}
    <2>1. SUFFICES ASSUME Bad # {} PROVE FALSE
      OBVIOUS
    <2>2. PICK x \in Bad : \A y \in Bad : y <= x
      <3>1. Bad \in SUBSET (0..n)
        OBVIOUS
      <3> HIDE DEF Bad
      <3> QED
        BY <1>2, <2>1, <3>1, GreatestExists
    <2>3. x \in 1..n /\ ~(toks[x].to <= i)
      OBVIOUS
    <2>4. x # n
      BY <1>2, <1>3, <2>3
    <2>5. PICK y : y = x + 1
      OBVIOUS
    <2>6. y \in 1..n /\ y # 1 /\ y - 1 = x /\ ~(y <= x)
      BY <1>2, <2>3, <2>4, <2>5
    <2>7. toks[y].from = toks[x].to
      BY <1>2, <2>6 DEF Held
    <2>8. ~(toks[y].to <= i)
      BY <1>2, <1>3, <2>3, <2>6, <2>7
    <2>9. y \in Bad
      BY <2>6, <2>8
    <2> QED
      BY <2>2, <2>6, <2>9
  <1> QED
    BY <1>2, <1>3, <1>4

(* Only blanks lie between the beginning of the line and its star.         *)
LEMMA BlanksBefore ==
  ASSUME Scanned, ~Done, NEW b \in 1..i, Char(i) = "*",
         \A q \in b..(i - 1) : text.lang = "spice" /\ Char(q) = "SP",
         NEW k \in 1..Len(toks), toks[k].from >= b
  PROVE  text.lang = "spice" /\ toks[k].kind = "WHITESPACE"
  <1>1. PICK from, to : from = toks[k].from /\ to = toks[k].to
    OBVIOUS
  <1>2. /\ from \in 1..End /\ to \in 1..End /\ from <= to /\ to <= i
        /\ End \in Nat /\ i \in Nat /\ i \in 1..End /\ b \in Nat /\ from >= b
        /\ i # End /\ Held(k)
    BY <1>1, BehindCursor, ScannedFacts DEF Scanned, Ready
  <1>3. Char(to) \in {"SP", "*"}
    <2>1. to = i \/ to \in b..(i - 1)
      BY <1>2
    <2> QED
      BY <2>1
  <1>4. IF IsSealed(k) THEN SealedAt(from, to) ELSE ReadAt(from, toks[k].kind, to)
    BY <1>1, <1>2 DEF Held
  <1>5. ~IsSealed(k) => toks[k].kind # "TITLE_LINE"
    BY <1>3, <1>4 DEF ReadAt
  <1>6. from # i
    <2>1. IsSealed(k) => from < to
      BY <1>2, <1>4 DEF SealedAt
    <2>2. ~IsSealed(k) => from < to
      BY <1>2, <1>4, <1>5 DEF ReadAt
    <2> QED
      BY <1>2, <2>1, <2>2
  <1>7. from \in b..(i - 1)
    BY <1>2, <1>6
  <1>8. text.lang = "spice" /\ Char(from) = "SP"
    BY <1>7
  <1>9. ~IsSealed(k)
    BY <1>8 DEF IsSealed
  <1> QED
    BY <1>4, <1>5, <1>8, <1>9 DEF ReadAt

(* At a star that begins a line, nothing has been read in it, or a token   *)
(* from the line before it runs on.                                        *)
LEMMA AtStar ==
  ASSUME Scanned, InLines, ~Done, StarLine(i), NEW n, n = Len(toks)
  PROVE  \/ text.lang = "spice" /\ ~lexed_nontriv_token_line
         \/ text.lang = "spectre" /\ last_token = "NEWLINE"
         \/ RunsOn(n)
  <1>1. /\ n \in Nat /\ DOMAIN toks = 1..n /\ End \in Nat /\ i \in Nat /\ i \in 1..End
        /\ \A j \in 1..n : Held(j)
        /\ n > 0 => toks # << >> /\ Last(toks) = toks[n] /\ i = toks[n].to
        /\ n = 0 => i = 1
    BY ScannedFacts DEF Scanned, Ready
  <1>2. PICK b \in 1..i :
          /\ Char(i) = "*"
          /\ \A q \in b..(i - 1) : text.lang = "spice" /\ Char(q) = "SP"
          /\ IF b = 1 THEN text.lang = "spice" ELSE Char(b - 1) = "NL"
    BY DEF StarLine
  <1>3. \A k \in 1..n : toks[k].from >= b => text.lang = "spice" /\ toks[k].kind = "WHITESPACE"
    BY <1>2, BlanksBefore
  <1>4. \A k \in 1..n : /\ toks[k].from \in 1..End /\ toks[k].to \in 1..End
                        /\ toks[k].from <= toks[k].to /\ toks[k].to <= i
    BY BehindCursor
  <1>5. i # End /\ b \in Nat
    BY <1>1, <1>2, ScannedFacts
  <1>6. text.lang = "spice" => (lexed_nontriv_token_line <=> Started(n))
    BY Zenon DEF InLines, LinesUpto
  <1>7. text.lang \in {"spice", "spectre"}
    BY DEF Scanned, Ready, IsText
  <1> DEFINE M == {k \in 1..n : toks[k].from < b}
  <1>8. CASE M = {}
    <2>1. \A k \in 1..n : toks[k].from >= b
      BY <1>4, <1>5, <1>8
    <2>2. b = 1
      <3>1. n > 0 => 1 \in 1..n /\ toks[1].from = 1
        BY <1>1 DEF Held
      <3>2. n > 0 => b = 1
        BY <1>5, <2>1, <3>1
      <3> QED
        BY <1>1, <1>2, <1>5, <3>2
    <2>3. text.lang = "spice"
      BY <1>2, <2>2
    <2>4. \A k \in 1..n : toks[k].kind = "WHITESPACE"
      BY <1>3, <2>1
    <2>5. ~Started(n)
      BY <2>4 DEF Started, Nontrivial, Triv
    <2> QED
      BY <1>6, <2>3, <2>5, Zenon
  <1>9. CASE M # {}
    <2>1. PICK m \in M : \A y \in M : y <= m
      <3>1. M \in SUBSET (0..n)
        BY <1>1
      <3> HIDE DEF M
      <3> QED
        BY <1>1, <1>9, <3>1, GreatestExists
    <2>2. m \in 1..n /\ toks[m].from < b
      OBVIOUS
    <2>3. \A k \in (m + 1)..n : k \in 1..n /\ toks[k].from >= b
      <3> TAKE k \in (m + 1)..n
      <3>1. k \in 1..n /\ ~(k <= m)
        BY <1>1, <2>2
      <3>2. k \notin M
        BY <2>1, <3>1
      <3> QED
        BY <1>4, <1>5, <3>1, <3>2
    <2> HIDE DEF M
    <2>4. toks[m].to >= b
      <3>1. CASE m = n
        BY <1>1, <1>5, <2>2, <3>1
      <3>2. CASE m # n
        <4>1. PICK y : y = m + 1
          OBVIOUS
        <4>2. y \in (m + 1)..n /\ y \in 1..n /\ y # 1 /\ y - 1 = m
          BY <1>1, <2>2, <3>2, <4>1
        <4>3. toks[y].from = toks[m].to
          BY <1>1, <4>2 DEF Held
        <4> QED
          BY <2>3, <4>2, <4>3
      <3> QED
        BY <3>1, <3>2
    <2>5. b # 1 /\ Char(b - 1) = "NL" /\ b - 1 \in toks[m].from..(toks[m].to - 1)
      BY <1>2, <1>4, <1>5, <2>2, <2>4
    <2>6. \/ toks[m].kind \in {"NEWLINE", "ESCD_NEWLINE", "STRING", "EOF_STRING"}
          \/ IsSealed(m)
          \/ Escaped(toks[m])
      BY <1>1, <2>2, <2>5, NewlinesImplied DEF NewlinesAreTokens
    <2>7. toks[m].kind # "EOF_STRING"
      <3>1. SUFFICES ASSUME toks[m].kind = "EOF_STRING" PROVE FALSE
        OBVIOUS
      <3>2. ~IsSealed(m)
        BY <3>1 DEF IsSealed
      <3>3. toks[m].to = End
        BY <1>1, <2>2, <3>1, <3>2 DEF Held, ReadAt
      <3> QED
        BY <1>1, <1>4, <1>5, <2>2, <3>3
    <2>8. \A k \in (m + 1)..n : toks[k].kind = "WHITESPACE" /\ text.lang = "spice"
      BY <1>3, <2>3
    <2>9. CASE toks[m].kind = "NEWLINE"
      <3>1. CASE text.lang = "spice"
        <4>1. ~Started(n)
          <5>1. SUFFICES ASSUME NEW j \in 1..n, Nontrivial(j),
                                \A l \in (j + 1)..n : toks[l].kind # "NEWLINE"
                         PROVE FALSE
            BY DEF Started
          <5>2. j # m /\ j \notin (m + 1)..n
            BY <2>8, <2>9, <5>1 DEF Nontrivial, Triv
          <5>3. m \in (j + 1)..n
            BY <1>1, <2>2, <5>2
          <5> QED
            BY <2>9, <5>1, <5>3
        <4> QED
          BY <1>6, <3>1, <4>1, Zenon
      <3>2. CASE text.lang = "spectre"
        <4>1. m = n
          <5>1. ~(n \in (m + 1)..n)
            BY <2>8, <3>2
          <5> QED
            BY <1>1, <2>2, <5>1
        <4> QED
          BY <1>1, <2>2, <2>9, <3>2, <4>1 DEF last_token
      <3> QED
        BY <1>7, <3>1, <3>2
    <2>10. CASE toks[m].kind # "NEWLINE"
      <3>1. \/ Escaped(toks[m])
            \/ toks[m].kind \in {"ESCD_NEWLINE", "STRING"}
            \/ IsSealed(m)
        BY <2>6, <2>7, <2>10
      <3>2. RunsOn(n)
        BY <2>2, <2>8, <3>1 DEF RunsOn
      <3> QED
        BY <3>2
    <2> QED
      BY <2>9, <2>10
  <1> QED
    BY <1>8, <1>9

(* What is told of the tokens that are there stays so.                     *)
LEMMA CommentsKept ==
  ASSUME Extends, NEW k \in 0..Len(toks)
  PROVE  /\ Owing(k)' <=> Owing(k)
         /\ RunsOn(k)' <=> RunsOn(k)
         /\ \A p : StarLine(p)' <=> StarLine(p)
  <1>1. /\ Len(toks) \in Nat /\ text' = text
        /\ \A j \in 1..Len(toks) : toks'[j] = toks[j]
    BY SequenceFacts DEF Extends
  <1>2. Owing(k)' <=> Owing(k)
    BY <1>1 DEF Owing, Nontrivial
  <1>3. \A j \in 1..k : j \in 1..Len(toks) /\ (IsSealed(j)' <=> IsSealed(j))
    BY <1>1, BlocksKept
  <1>4. \A p : Char(p)' = Char(p)
    BY <1>1, SameText
  <1>5. \A p : StarLine(p)' <=> StarLine(p)
    BY <1>1, <1>4 DEF StarLine
  <1>6. \A j \in 1..k : Escaped(toks[j])' <=> Escaped(toks[j])
    BY <1>1, <1>3, <1>4 DEF Escaped
  <1>7. \A j \in 1..k : toks'[j] = toks[j]
    BY <1>1, <1>3
  <1>8. RunsOn(k)' <=> RunsOn(k)
    BY <1>1, <1>3, <1>6, <1>7 DEF RunsOn
  <1> QED
    BY <1>2, <1>5, <1>8

LEMMA StarredKept ==
  ASSUME Extends, NEW k \in 1..Len(toks), Starred(k)
  PROVE  Starred(k)'
  <1>1. PICK h : h = k - 1
    OBVIOUS
  <1>2. Len(toks) \in Nat /\ text' = text /\ toks'[k] = toks[k]
    BY SequenceFacts DEF Extends
  <1>3. h \in 0..Len(toks)
    BY <1>1, <1>2
  <1>4. /\ Owing(h)' <=> Owing(h)
        /\ RunsOn(h)' <=> RunsOn(h)
        /\ \A p : StarLine(p)' <=> StarLine(p)
    BY <1>3, CommentsKept
  <1>5. /\ Owing(k - 1)' <=> Owing(k - 1)
        /\ RunsOn(k - 1)' <=> RunsOn(k - 1)
    BY <1>1, <1>4, Zenon
  <1> QED
    BY <1>2, <1>4, <1>5, Zenon DEF Starred

(* The new token.                                                          *)
NewStar(kind) ==
  StarLine(i) =>
    \/ kind \in {"COMMENT", "TITLE_LINE"}
    \/ text.lang = "spice" /\ last_nontriv_token \in PathKinds
    \/ RunsOn(Len(toks))

LEMMA SpiceStar ==
  ASSUME Scanned, InLines, NEW kind, NEW to, NEW stack, SpiceEmits(kind, to, stack)
  PROVE  NewStar(kind)
  <1>1. text.lang = "spice" /\ ~Done /\ Placed(kind)
    BY DEF SpiceEmits
  <1>2. StarLine(i) => Char(i) = "*"
    BY DEF StarLine
  <1>3. StarLine(i) => ~lexed_nontriv_token_line \/ RunsOn(Len(toks))
    BY <1>1, AtStar
  <1> QED
    BY <1>1, <1>2, <1>3 DEF NewStar, Placed

LEMMA SpectreStarLine ==
  ASSUME Scanned, InLines, SpectreToken
  PROVE  \E kind, to : Emitted(kind, to) /\ UNCHANGED spice_vars /\ NewStar(kind)
  <1>1. (SpectreStep \/ BlockStep) /\ text.lang = "spectre" /\ ~Done /\ IsText(text)
    BY SpectreTokenStep, SameCursor DEF Scanned, Ready, Spectre!Running, Spectre!Done, Done,
       Spectre!last_token, last_token
  <1>2. StarLine(i) => Char(i) = "*"
    BY DEF StarLine
  <1>3. StarLine(i) => last_token = "NEWLINE" \/ RunsOn(Len(toks))
    BY <1>1, AtStar
  <1>4. CASE SpectreStep
    <2>1. PICK kind, to :
            /\ Emitted(kind, to) /\ UNCHANGED spice_vars
            /\ Char(i) = "*" /\ last_token = "NEWLINE" => kind = "COMMENT"
      BY <1>4, Zenon DEF SpectreStep
    <2>2. NewStar(kind)
      BY <1>2, <1>3, <2>1 DEF NewStar
    <2> QED
      BY <2>1, <2>2
  <1>5. CASE BlockStep
    <2>1. PICK kind, to :
            /\ Emitted(kind, to) /\ UNCHANGED spice_vars
            /\ kind = "COMMENT" \/ i = End
      BY <1>5, Zenon DEF BlockStep
    <2>2. Char(End) = "EOF"
      BY <1>1, CharFacts
    <2>3. NewStar(kind)
      BY <1>2, <2>1, <2>2 DEF NewStar
    <2> QED
      BY <2>1, <2>3
  <1> QED
    BY <1>1, <1>4, <1>5

LEMMA NewStarred ==
  ASSUME Scanned, NEW kind, NEW to, Emitted(kind, to), NewStar(kind),
         NEW n, n = Len(toks), CommentsUpto(n)
  PROVE  \A l \in 1..(n + 1) : Starred(l)'
  <1>1. /\ n \in Nat /\ Extends /\ text' = text
        /\ toks'[n + 1] = [kind |-> kind, from |-> i, to |-> to]
    BY NewToken DEF Scanned
  <1>2. ASSUME NEW l \in 1..(n + 1) PROVE Starred(l)'
    <2>1. CASE l \in 1..n
      <3>1. Starred(l)
        BY <2>1 DEF CommentsUpto
      <3> QED
        BY <1>1, <2>1, <3>1, StarredKept
    <2>2. CASE l \notin 1..n
      <3>1. l = n + 1 /\ l - 1 = n
        BY <1>1, <2>2
      <3>2. /\ Owing(n)' <=> Owing(n)
            /\ RunsOn(n)' <=> RunsOn(n)
            /\ \A p : StarLine(p)' <=> StarLine(p)
        <4>1. n \in 0..Len(toks)
          BY <1>1
        <4> QED
          BY <1>1, <4>1, CommentsKept
      <3>3. PICK p : p = i
        OBVIOUS
      <3>4. toks'[l].from = p /\ toks'[l].kind = kind
        BY <1>1, <3>1, <3>3
      <3>5. StarLine(p) =>
              \/ kind \in {"COMMENT", "TITLE_LINE"}
              \/ text.lang = "spice" /\ Owing(n)
              \/ RunsOn(n)
        BY <3>3 DEF NewStar, CommentsUpto
      <3>6. /\ Owing(l - 1)' <=> Owing(n)
            /\ RunsOn(l - 1)' <=> RunsOn(n)
        BY <3>1, <3>2, Zenon
      <3>7. StarLine(p)' <=> StarLine(p)
        BY <3>2
      <3> QED
        BY <1>1, <3>4, <3>5, <3>6, <3>7, Zenon DEF Starred
    <2> QED
      BY <2>1, <2>2
  <1> QED
    BY <1>2

(* A command that has not had its path is the last token that is not       *)
(* trivia.                                                                 *)
LEMMA StillOwing ==
  ASSUME Scanned, NEW kind, NEW to, NEW stack, SpiceEmits(kind, to, stack),
         NEW n, n = Len(toks), CommentsUpto(n), last_nontriv_token' \in PathKinds
  PROVE  Owing(n + 1)'
  <1>1. PICK m : m = n + 1
    OBVIOUS
  <1>2. /\ n \in Nat /\ Extends
        /\ toks'[m] = [kind |-> kind, from |-> i, to |-> to]
        /\ last_nontriv_token' = (IF kind \in Triv THEN last_nontriv_token ELSE kind)
    BY <1>1, SpiceEmitted
  <1>3. \A k \in 1..n : toks'[k] = toks[k]
    BY <1>2 DEF Extends
  <1>4. CASE kind \in Triv
    <2>1. Owing(n)
      BY <1>2, <1>4 DEF CommentsUpto, SpiceEmits
    <2>2. PICK j \in 1..n : /\ toks[j].kind \in PathKinds
                            /\ \A l \in (j + 1)..n : toks[l].kind \in Triv
      BY <2>1 DEF Owing, Nontrivial
    <2>3. j \in 1..m /\ \A l \in (j + 1)..m : l = m \/ (l \in (j + 1)..n /\ l \in 1..n)
      BY <1>1, <1>2
    <2>4. \A l \in (j + 1)..m : toks'[l].kind \in Triv
      BY <1>2, <1>3, <1>4, <2>2, <2>3
    <2>5. toks'[j].kind \in PathKinds
      BY <1>3, <2>2
    <2>6. Owing(m)'
      BY <2>3, <2>4, <2>5 DEF Owing, Nontrivial
    <2> QED
      BY <1>1, <2>6, Zenon
  <1>5. CASE kind \notin Triv
    <2>1. m \in 1..m /\ \A l \in (m + 1)..m : FALSE
      BY <1>1, <1>2
    <2>2. toks'[m].kind \in PathKinds
      BY <1>2, <1>5
    <2>3. Owing(m)'
      BY <2>1, <2>2 DEF Owing
    <2> QED
      BY <1>1, <2>3, Zenon
  <1> QED
    BY <1>4, <1>5

LEMMA CommentsGrow ==
  ASSUME Scanned, InLines, Comments, Next
  PROVE  Comments'
  <1>1. PICK n \in Nat : n = Len(toks) /\ CommentsUpto(n)
    BY DEF Comments
  <1>2. PICK m : m = n + 1 /\ m \in Nat
    BY <1>1
  <1>3. CASE SpiceToken
    <2>1. PICK kind, to, stack : SpiceEmits(kind, to, stack)
      BY <1>3, SpiceEmission
    <2>2. Emitted(kind, to) /\ NewStar(kind)
      BY <2>1, SpiceStar, SameCursor DEF SpiceEmits, Spice!Emit
    <2>3. \A l \in 1..(n + 1) : Starred(l)'
      BY <1>1, <2>2, NewStarred
    <2>4. last_nontriv_token' \in PathKinds => Owing(n + 1)'
      BY <1>1, <2>1, StillOwing
    <2>5. CommentsUpto(m)'
      <3>1. \A l \in 1..m : Starred(l)'
        BY <1>2, <2>3
      <3>2. last_nontriv_token' \in PathKinds => Owing(m)'
        BY <1>2, <2>4, Zenon
      <3> QED
        BY <3>1, <3>2, Zenon DEF CommentsUpto
    <2>6. Len(toks') = m
      BY <1>1, <1>2, <2>1, SpiceEmitted
    <2> QED
      BY <1>2, <2>5, <2>6 DEF Comments
  <1>4. CASE SpectreToken
    <2>1. PICK kind, to : Emitted(kind, to) /\ UNCHANGED spice_vars /\ NewStar(kind)
      BY <1>4, SpectreStarLine
    <2>2. \A l \in 1..(n + 1) : Starred(l)'
      BY <1>1, <2>1, NewStarred
    <2>3. text'.lang = "spectre" /\ Len(toks') = m
      BY <1>1, <1>2, <1>4, <2>1, NewToken, SpectreTokenStep DEF Scanned, Spectre!Running
    <2>4. CommentsUpto(m)'
      <3>1. \A l \in 1..m : Starred(l)'
        BY <1>2, <2>2
      <3> QED
        BY <2>3, <3>1 DEF CommentsUpto
    <2> QED
      BY <1>2, <2>3, <2>4 DEF Comments
  <1> QED
    BY <1>3, <1>4 DEF Next

LEMMA CommentsStutter ==
  ASSUME Scanned, Comments, UNCHANGED vars
  PROVE  Comments'
  <1>1. PICK n \in Nat : n = Len(toks) /\ CommentsUpto(n)
    BY DEF Comments
  <1>2. /\ Extends /\ toks' = toks /\ text' = text /\ n \in 0..Len(toks)
        /\ last_nontriv_token' = last_nontriv_token
    BY <1>1, Unchanged
  <1>3. \A l \in 1..n : Starred(l)'
    BY <1>1, <1>2, StarredKept DEF CommentsUpto
  <1>4. Owing(n)' <=> Owing(n)
    BY <1>2, CommentsKept
  <1>5. CommentsUpto(n)'
    BY <1>1, <1>2, <1>3, <1>4, Zenon DEF CommentsUpto
  <1> QED
    BY <1>1, <1>2, <1>5 DEF Comments

LEMMA CommentsInit == Init => Comments
  <1> SUFFICES ASSUME Init PROVE Comments
    OBVIOUS
  <1>1. Len(toks) = 0
    BY DEF Init, Spice!Init, Spectre!Init
  <1>2. text.lang = "spice" => last_nontriv_token \notin PathKinds
    BY DEF Init, Spice!Init, PathKinds
  <1>3. CommentsUpto(0)
    BY <1>2 DEF CommentsUpto
  <1> QED
    BY <1>1, <1>3 DEF Comments

LEMMA AlwaysComments == Spec => []Comments
  <1>1. Scanned /\ InLines /\ Comments /\ [Next]_vars => Comments'
    BY CommentsGrow, CommentsStutter
  <1> QED
    BY <1>1, CommentsInit, AlwaysScanned, AlwaysInLines, PTL DEF Spec

LEMMA CommentsImplied == Scanned /\ Comments => CommentLines
  <1> SUFFICES ASSUME Scanned, Comments, NEW k \in DOMAIN toks, StarLine(toks[k].from)
      PROVE  \/ toks[k].kind \in {"COMMENT", "TITLE_LINE"}
             \/ text.lang = "spice" /\ Owes(k)
             \/ \E j \in 1..(k - 1) :
                  /\ \/ Escaped(toks[j])
                     \/ toks[j].kind \in {"ESCD_NEWLINE", "STRING"}
                     \/ IsSealed(j)
                  /\ \A l \in (j + 1)..(k - 1) : toks[l].kind = "WHITESPACE"
    BY DEF CommentLines
  <1>1. k \in 1..Len(toks)
    BY ScannedFacts
  <1>2. Starred(k)
    BY <1>1 DEF Comments, CommentsUpto
  <1>3. Owing(k - 1) => Owes(k)
    BY DEF Owing, Owes, PathKinds
  <1> QED
    BY <1>2, <1>3 DEF Starred, RunsOn

(* In every text, a line that begins with a star is a comment, but where   *)
(* the property says it is not.                                            *)
THEOREM CommentsAlwaysRecognised == Spec => []CommentLines
  BY AlwaysScanned, AlwaysComments, CommentsImplied, PTL
=============================================================================
