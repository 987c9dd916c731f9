--------------------------- MODULE ExprParserProofs ---------------------------
(***************************************************************************)
(* Whatever the expression, the climbing builds nodes of two operands,     *)
(* wraps a failure once per waiting call, and groups by precedence unless  *)
(* there is a relapse.  Nothing is assumed but that the texts are          *)
(* expressions.                                                            *)
(***************************************************************************)
EXTENDS ExprParser, Counting, TLAPS

FrameSet == [cp : 1..N, op : Nat, opterm : Nat \cup {None}]
NodeSet == [kind : {"binary", "incomplete"}, from : 1..N, to : 1..N]

(* From operand a to operand b there is one operand or one finished node.  *)
Whole(a, b) == a = b \/ \E h \in Binaries : nodes[h].from = a /\ nodes[h].to = b

(* Each running call began after a whole left operand of the one around it.*)
Rising ==
  \A j, k \in 1..Len(frames) : j < k => frames[j].cp < frames[k].cp

Chained ==
  \A k \in 1..(Len(frames) - 1) : Whole(frames[k].cp, frames[k + 1].cp - 1)

Started == pc = "expression" => frames = << >> /\ nodes = << >> /\ at = 1

Outermost == frames # << >> => frames[1].cp = 1

(* The innermost call has a whole left operand and its operator, and every *)
(* node made so far lies in it or before it.                               *)
Reading ==
  pc \in {"operand", "next"} =>
    /\ frames # << >>
    /\ Top.cp < at
    /\ Whole(Top.cp, at - 1)
    /\ \A k \in Binaries : nodes[k].to < at

(* A call that returns left a whole right operand, which begins at c.      *)
Returning ==
  pc = "returned" /\ frames # << >> =>
    \E c \in (Top.cp + 1)..at :
      /\ Whole(Top.cp, c - 1)
      /\ Whole(c, at)
      /\ \A k \in Binaries :
           nodes[k].to < at \/ (nodes[k].to = at /\ nodes[k].from >= c)

(* No finished node reaches over the beginning of a running call.          *)
NoStraddling ==
  \A h \in Binaries, j \in 1..Len(frames) :
    nodes[h].from >= frames[j].cp \/ nodes[h].to < frames[j].cp

(* What the wraps of a failure have made of it so far.                     *)
Failing ==
  /\ pc \notin {"unwind", "error"} => Incompletes = {}
  /\ pc = "unwind" =>
       /\ text.bad = at
       /\ at > 1
       /\ \A k \in Binaries : nodes[k].to < at
       /\ \A k \in Incompletes : nodes[k].to = at
       /\ \A h, k \in Incompletes : h < k => nodes[k].from < nodes[h].from
       /\ \A k \in Incompletes, j \in 1..Len(frames) : frames[j].cp < nodes[k].from
       /\ frames = << >> => nodes[Len(nodes)] = Node("incomplete", 1, at)
       /\ \A h \in Binaries, k \in Incompletes :
            nodes[h].from >= nodes[k].from \/ nodes[h].to < nodes[k].from

IInv ==
  /\ text \in Texts
  /\ TypeOK
  /\ Started
  /\ Outermost
  /\ Rising
  /\ Chained
  /\ Reading
  /\ Returning
  /\ NoStraddling
  /\ Failing
  /\ TwoOperands
  /\ FailureContained

-----------------------------------------------------------------------------
(* What Append does to the elements of a sequence.                         *)
LEMMA Appended ==
  ASSUME NEW S, NEW s \in Seq(S), NEW e \in S
  PROVE  /\ Append(s, e) \in Seq(S)
         /\ Len(s) \in Nat
         /\ Len(Append(s, e)) = Len(s) + 1
         /\ Append(s, e)[Len(s) + 1] = e
         /\ \A k \in 1..Len(s) : Append(s, e)[k] = s[k]
OBVIOUS

(* An expression has an operand more than it has operators.                *)
LEMMA Operands ==
  ASSUME text \in Texts
  PROVE  /\ ops \in Seq(Nat)
         /\ Len(ops) = N - 1
         /\ N \in Nat /\ N >= 1
         /\ text.bad \in 0..N
<1>1. ops \in Seq(Nat) /\ text.bad \in 0..(Len(ops) + 1)
  BY TextsAssumption DEF Expression, ops
<1>2. Len(ops) \in Nat
  BY <1>1
<1> QED
  BY <1>1, <1>2 DEF N

(* The last call is Top, and Front takes it away.                          *)
LEMMA TopFrame ==
  ASSUME TypeOK, frames # << >>
  PROVE  /\ Len(frames) \in Nat
         /\ Len(frames) > 0
         /\ Top = frames[Len(frames)]
         /\ Top \in FrameSet
         /\ Front(frames) \in Seq(FrameSet)
         /\ Len(Front(frames)) = Len(frames) - 1
         /\ \A k \in 1..(Len(frames) - 1) : Front(frames)[k] = frames[k]
<1>1. frames \in Seq(FrameSet)
  BY DEF TypeOK, FrameSet
<1>2. Len(frames) \in Nat /\ Len(frames) > 0
  BY <1>1
<1>3. Top = frames[Len(frames)] /\ Top \in FrameSet
  BY <1>1, <1>2 DEF Top, Last
<1> DEFINE n == Len(frames) - 1
<1>4. n \in Nat /\ n <= Len(frames)
  BY <1>2
<1>5. Front(frames) = SubSeq(frames, 1, n)
  BY DEF Front
<1> HIDE DEF n
<1>6. /\ Front(frames) \in Seq(FrameSet)
      /\ Len(Front(frames)) = n
      /\ \A k \in 1..n : Front(frames)[k] = frames[k]
  BY <1>1, <1>4, <1>5
<1> QED
  BY <1>2, <1>3, <1>6 DEF n

(* A wrap adds one node and leaves the others.                             *)
LEMMA Wrapped ==
  ASSUME TypeOK, NEW kind \in {"binary", "incomplete"},
         NEW a \in 1..N, NEW b \in 1..N,
         nodes' = Append(nodes, Node(kind, a, b))
  PROVE  /\ Len(nodes) \in Nat
         /\ nodes' \in Seq(NodeSet)
         /\ Len(nodes') = Len(nodes) + 1
         /\ \A k \in 1..Len(nodes) : nodes'[k] = nodes[k]
         /\ nodes'[Len(nodes) + 1] = Node(kind, a, b)
         /\ kind = "binary" =>
              Binaries' = Binaries \cup {Len(nodes) + 1} /\ Incompletes' = Incompletes
         /\ kind = "incomplete" =>
              Binaries' = Binaries /\ Incompletes' = Incompletes \cup {Len(nodes) + 1}
<1>1. nodes \in Seq(NodeSet) /\ Len(nodes) \in Nat
  BY DEF TypeOK, NodeSet
<1>2. Node(kind, a, b) \in NodeSet /\ Node(kind, a, b).kind = kind
  BY DEF NodeSet, Node
<1> DEFINE e == Node(kind, a, b)
<1> HIDE DEF e
<1>3. /\ nodes' \in Seq(NodeSet)
      /\ Len(nodes') = Len(nodes) + 1
      /\ \A k \in 1..Len(nodes) : nodes'[k] = nodes[k]
      /\ nodes'[Len(nodes) + 1] = e
  <2>1. nodes' = Append(nodes, e) /\ e \in NodeSet
    BY <1>2 DEF e
  <2> QED
    BY <2>1, <1>1
<1>4. \A k : k \in 1..(Len(nodes) + 1) <=> k \in 1..Len(nodes) \/ k = Len(nodes) + 1
  BY <1>1
<1>5. e.kind = kind
  BY <1>2 DEF e
<1>6. kind = "binary" =>
        Binaries' = Binaries \cup {Len(nodes) + 1} /\ Incompletes' = Incompletes
  BY <1>1, <1>3, <1>4, <1>5 DEF Binaries, Incompletes
<1>7. kind = "incomplete" =>
        Binaries' = Binaries /\ Incompletes' = Incompletes \cup {Len(nodes) + 1}
  BY <1>1, <1>3, <1>4, <1>5 DEF Binaries, Incompletes
<1> QED
  BY <1>1, <1>3, <1>6, <1>7 DEF e

(* A whole piece stays whole when a node is added.                         *)
LEMMA WholeKept ==
  ASSUME TypeOK, NEW kind \in {"binary", "incomplete"},
         NEW a \in 1..N, NEW b \in 1..N,
         nodes' = Append(nodes, Node(kind, a, b)),
         NEW x, NEW y, Whole(x, y)
  PROVE  Whole(x, y)'
<1>1. CASE x = y
  BY <1>1 DEF Whole
<1>2. CASE \E h \in Binaries : nodes[h].from = x /\ nodes[h].to = y
  <2>1. PICK h \in Binaries : nodes[h].from = x /\ nodes[h].to = y
    BY <1>2
  <2>2. h \in Binaries' /\ nodes'[h] = nodes[h]
    BY Wrapped DEF Binaries
  <2> QED
    BY <2>1, <2>2 DEF Whole
<1> QED
  BY <1>1, <1>2 DEF Whole

(* Where a call closes its node: its left operand and a right operand that *)
(* begins at c are whole, and no node ends behind operand at or begins     *)
(* before c and ends there.                                                *)
Closing(c) ==
  /\ frames # << >>
  /\ c \in (Top.cp + 1)..at
  /\ Whole(Top.cp, c - 1)
  /\ Whole(c, at)
  /\ \A k \in Binaries :
       nodes[k].to < at \/ (nodes[k].to = at /\ nodes[k].from >= c)

LEMMA BinaryWrapped ==
  ASSUME IInv, NEW c, Closing(c), nodes' = Binary, text' = text,
         pc \notin {"unwind", "error"},
         NEW a, a = Top.cp, NEW b, b = at
  PROVE  /\ nodes' \in Seq(NodeSet)
         /\ a \in 1..N /\ b \in 1..N /\ a < b
         /\ TwoOperands'
         /\ Whole(a, b)'
         /\ \A x, y : Whole(x, y) => Whole(x, y)'
         /\ \A k \in Binaries' :
              nodes'[k].to < b \/ (nodes'[k].to = b /\ nodes'[k].from >= a)
         /\ \A h \in Binaries', j \in 1..Len(frames) :
              nodes'[h].from >= frames[j].cp \/ nodes'[h].to < frames[j].cp
         /\ Incompletes' = {}
<1>0. TypeOK /\ at \in 1..N /\ N \in Nat
  BY Operands DEF IInv, TypeOK
<1>1. /\ Top.cp \in 1..N
      /\ frames # << >>
      /\ Len(frames) \in Nat /\ Len(frames) > 0
      /\ Top = frames[Len(frames)]
  BY <1>0, TopFrame DEF Closing, FrameSet
<1>2. Top.cp < at /\ c \in Int /\ Top.cp < c /\ c <= at
  BY <1>0, <1>1 DEF Closing
<1>3. nodes' = Append(nodes, Node("binary", a, b))
  BY DEF Binary
<1>4. a \in 1..N /\ b \in 1..N /\ a < b /\ a < c /\ c <= b
  BY <1>0, <1>1, <1>2
<1>5. Whole(a, c - 1) /\ Whole(c, b)
  BY DEF Closing
<1>6. frames[Len(frames)].cp = a
  BY <1>1
<1> PICK n : n = Len(nodes) + 1
  OBVIOUS
<1>7. /\ Len(nodes) \in Nat
      /\ nodes' \in Seq(NodeSet)
      /\ Len(nodes') = n
      /\ \A k \in 1..Len(nodes) : nodes'[k] = nodes[k]
      /\ nodes'[n] = Node("binary", a, b)
      /\ Binaries' = Binaries \cup {n}
      /\ Incompletes' = Incompletes
  BY <1>0, <1>3, <1>4, Wrapped
<1>8. nodes'[n].from = a /\ nodes'[n].to = b
  BY <1>7 DEF Node
<1>9. \A k \in Binaries : /\ k \in Int /\ k < n /\ nodes'[k] = nodes[k]
                           /\ nodes[k].from \in 1..N /\ nodes[k].to \in 1..N
  <2>1. nodes \in Seq(NodeSet)
    BY <1>0 DEF TypeOK, NodeSet
  <2>2. \A k \in Binaries : k \in 1..Len(nodes) /\ nodes[k] \in NodeSet
    BY <2>1, <1>7 DEF Binaries
  <2> QED
    BY <2>2, <1>7 DEF NodeSet
<1>10. \A x, y : Whole(x, y) => Whole(x, y)'
  BY <1>0, <1>3, <1>4, WholeKept
<1>11. Whole(a, b)'
  BY <1>7, <1>8 DEF Whole
<1>12. \A k \in Binaries' :
         nodes'[k].to < b \/ (nodes'[k].to = b /\ nodes'[k].from >= a)
  <2>1. \A k \in Binaries :
          nodes[k].to < at \/ (nodes[k].to = at /\ nodes[k].from >= c)
    BY DEF Closing
  <2> QED
    BY <2>1, <1>0, <1>2, <1>4, <1>7, <1>8, <1>9
<1>13. ASSUME NEW h \in Binaries', NEW j \in 1..Len(frames)
       PROVE  nodes'[h].from >= frames[j].cp \/ nodes'[h].to < frames[j].cp
  <2>1. CASE h \in Binaries
    BY <2>1, <1>9, <1>13 DEF IInv, NoStraddling
  <2>2. CASE h = n
    <3>1. j < Len(frames) => frames[j].cp < frames[Len(frames)].cp
      BY <1>1, <1>13 DEF IInv, Rising
    <3>2. frames[j] \in FrameSet
      <4>1. frames \in Seq(FrameSet)
        BY <1>0 DEF TypeOK, FrameSet
      <4> QED
        BY <4>1, <1>1, <1>13
    <3>3. frames[j].cp \in Int
      BY <3>2 DEF FrameSet
    <3> QED
      BY <2>2, <3>1, <3>3, <1>1, <1>4, <1>6, <1>8, <1>13
  <2> QED
    BY <2>1, <2>2, <1>7
<1>14. Incompletes' = {}
  BY <1>7 DEF IInv, Failing
<1>15. TwoOperands'
  <2>1. \A k \in Binaries' : \A x, y :
          k \in Binaries => (WholeBefore(k, x, y) <=> WholeBefore(k, x, y)')
    <3> SUFFICES ASSUME NEW k \in Binaries, NEW x, NEW y
                 PROVE  WholeBefore(k, x, y) <=> WholeBefore(k, x, y)'
      OBVIOUS
    <3>1. \A h : h \in Binaries /\ h < k <=> h \in Binaries' /\ h < k
      BY <1>7, <1>9
    <3> QED
      BY <3>1, <1>9 DEF WholeBefore
  <2>2. \A x, y : Whole(x, y) => WholeBefore(n, x, y)'
    BY <1>7, <1>9 DEF Whole, WholeBefore
  <2>3. ASSUME NEW k \in Binaries, NEW x, NEW y,
               x = nodes[k].from, y = nodes[k].to
        PROVE  /\ \E i \in x..(y - 1) : WholeBefore(k, x, i)' /\ WholeBefore(k, i + 1, y)'
               /\ ~WholeBefore(k, x, y)'
    <3>1. /\ \E i \in x..(y - 1) : WholeBefore(k, x, i) /\ WholeBefore(k, i + 1, y)
          /\ ~WholeBefore(k, x, y)
      BY <2>3 DEF IInv, TwoOperands
    <3>2. k \in Binaries'
      BY <1>7
    <3> QED
      BY <2>1, <3>1, <3>2
  <2>4. /\ \E i \in a..(b - 1) : WholeBefore(n, a, i)' /\ WholeBefore(n, i + 1, b)'
        /\ ~WholeBefore(n, a, b)'
    <3>1. PICK i : i = c - 1
      OBVIOUS
    <3>2. i \in a..(b - 1) /\ i + 1 = c
      BY <3>1, <1>0, <1>2, <1>4
    <3>3. WholeBefore(n, a, i)' /\ WholeBefore(n, i + 1, b)'
      BY <2>2, <3>1, <3>2, <1>5
    <3>4. ~WholeBefore(n, a, b)'
      <4>1. \A h \in Binaries : ~(nodes[h].from = a /\ nodes[h].to = b)
        <5>1. \A k \in Binaries :
                nodes[k].to < at \/ (nodes[k].to = at /\ nodes[k].from >= c)
          BY DEF Closing
        <5> QED
          BY <5>1, <1>0, <1>2, <1>4, <1>9
      <4>2. \A h \in Binaries' : h < n => h \in Binaries
        BY <1>7
      <4> QED
        BY <4>1, <4>2, <1>4, <1>9 DEF WholeBefore
    <3> QED
      BY <3>2, <3>3, <3>4
  <2>5. ASSUME NEW k \in Binaries'
        PROVE  /\ \E i \in nodes'[k].from..(nodes'[k].to - 1) :
                    WholeBefore(k, nodes[k].from, i)' /\ WholeBefore(k, i + 1, nodes[k].to)'
               /\ ~WholeBefore(k, nodes[k].from, nodes[k].to)'
    <3>1. PICK x, y : x = nodes'[k].from /\ y = nodes'[k].to
      OBVIOUS
    <3>2. /\ \E i \in x..(y - 1) : WholeBefore(k, x, i)' /\ WholeBefore(k, i + 1, y)'
          /\ ~WholeBefore(k, x, y)'
      <4>1. CASE k = n
        BY <4>1, <3>1, <2>4, <1>8
      <4>2. CASE k \in Binaries
        <5>1. x = nodes[k].from /\ y = nodes[k].to
          BY <4>2, <3>1, <1>9
        <5> QED
          BY <4>2, <5>1, <2>3
      <4> QED
        BY <4>1, <4>2, <1>7
    <3> QED
      BY <3>1, <3>2
  <2> QED
    BY <2>5 DEF TwoOperands
<1> QED
  BY <1>4, <1>7, <1>10, <1>11, <1>12, <1>13, <1>14, <1>15

(* The calls that stay running when the innermost one returns.             *)
LEMMA Popped ==
  ASSUME TypeOK, Outermost, Rising, frames # << >>, frames' = Front(frames)
  PROVE  /\ frames' \in Seq(FrameSet)
         /\ Len(frames') = Len(frames) - 1
         /\ \A k \in 1..Len(frames') : k \in 1..Len(frames) /\ frames'[k] = frames[k]
         /\ Outermost'
         /\ Rising'
         /\ frames' # << >> =>
              /\ Len(frames') \in 1..(Len(frames) - 1)
              /\ Top' = frames[Len(frames')]
              /\ Top'.cp \in 1..N
              /\ Top'.cp < Top.cp
<1> DEFINE n == Len(frames) - 1
<1>1. /\ Len(frames) \in Nat /\ Len(frames) > 0
      /\ Top = frames[Len(frames)]
      /\ Front(frames) \in Seq(FrameSet)
      /\ Len(Front(frames)) = n
      /\ \A k \in 1..n : Front(frames)[k] = frames[k]
  BY TopFrame
<1>2. frames' \in Seq(FrameSet) /\ Len(frames') = Len(frames) - 1
  BY <1>1
<1>3. \A k \in 1..Len(frames') : k \in 1..Len(frames) /\ frames'[k] = frames[k]
  BY <1>1, <1>2
<1>4. frames' # << >> => Len(frames') \in 1..(Len(frames) - 1)
  BY <1>1, <1>2
<1>5. Outermost'
  BY <1>1, <1>2, <1>3, <1>4 DEF Outermost
<1>6. Rising'
  <2>1. \A j, k \in 1..Len(frames') : j < k => frames'[j].cp < frames'[k].cp
    BY <1>3 DEF Rising
  <2> QED
    BY <2>1 DEF Rising
<1>7. ASSUME frames' # << >>
      PROVE  /\ Top' = frames[Len(frames')]
             /\ Top'.cp \in 1..N
             /\ Top'.cp < Top.cp
  <2>1. PICK m : m = Len(frames')
    OBVIOUS
  <2>2. m \in 1..(Len(frames) - 1) /\ m \in 1..Len(frames) /\ m < Len(frames)
    BY <2>1, <1>1, <1>4, <1>7
  <2>3. Top' = frames'[m] /\ frames'[m] \in FrameSet
    BY <2>1, <2>2, <1>2 DEF Top, Last
  <2>4. Top' = frames[m]
    BY <2>1, <2>2, <2>3, <1>3
  <2>5. frames[m].cp < frames[Len(frames)].cp
    BY <2>2, <1>1 DEF Rising
  <2>6. Top'.cp \in 1..N
    BY <2>3 DEF FrameSet
  <2> QED
    BY <2>1, <2>4, <2>5, <2>6, <1>1
<1> QED
  BY <1>2, <1>3, <1>4, <1>5, <1>6, <1>7

(* Whole pieces that stay whole keep the calls chained.                    *)
LEMMA ChainKept ==
  ASSUME Chained, Len(frames) \in Nat, Len(frames') \in Nat,
         Len(frames') <= Len(frames),
         \A k \in 1..Len(frames') : frames'[k].cp = frames[k].cp,
         \A x, y : Whole(x, y) => Whole(x, y)'
  PROVE  Chained'
<1> SUFFICES ASSUME NEW k \in 1..(Len(frames') - 1)
             PROVE  Whole(frames[k].cp, frames[k + 1].cp - 1)'
  BY DEF Chained
<1>1. PICK x, y : x = frames[k].cp /\ y = frames[k + 1].cp - 1
  OBVIOUS
<1>2. /\ k \in 1..(Len(frames) - 1)
      /\ k \in 1..Len(frames') /\ k + 1 \in 1..Len(frames')
  OBVIOUS
<1>3. x = frames'[k].cp /\ y = frames'[k + 1].cp - 1
  BY <1>1, <1>2
<1>4. Whole(x, y)
  BY <1>1, <1>2 DEF Chained
<1> QED
  BY <1>3, <1>4

(* A call closes its node and returns.                                     *)
LEMMA CallCloses ==
  ASSUME IInv, NEW c, Closing(c), nodes' = Binary, frames' = Front(frames),
         text' = text, at' = at, pc \in {"next", "returned"}, pc' = "returned"
  PROVE  IInv'
<1>0. /\ TypeOK /\ Outermost /\ Rising /\ frames # << >>
      /\ at \in 1..N /\ N' = N /\ ops' = ops
  BY DEF IInv, TypeOK, Closing, N, ops
<1>1. PICK a, b : a = Top.cp /\ b = at
  OBVIOUS
<1>2. /\ nodes' \in Seq(NodeSet)
      /\ a \in 1..N /\ b \in 1..N /\ a < b
      /\ TwoOperands'
      /\ Whole(a, b)'
      /\ \A x, y : Whole(x, y) => Whole(x, y)'
      /\ \A k \in Binaries' :
           nodes'[k].to < b \/ (nodes'[k].to = b /\ nodes'[k].from >= a)
      /\ \A h \in Binaries', j \in 1..Len(frames) :
           nodes'[h].from >= frames[j].cp \/ nodes'[h].to < frames[j].cp
      /\ Incompletes' = {}
  BY <1>1, BinaryWrapped
<1>3. /\ frames' \in Seq(FrameSet)
      /\ Len(frames') = Len(frames) - 1
      /\ \A k \in 1..Len(frames') : k \in 1..Len(frames) /\ frames'[k] = frames[k]
      /\ Outermost'
      /\ Rising'
      /\ frames' # << >> =>
           /\ Len(frames') \in 1..(Len(frames) - 1)
           /\ Top' = frames[Len(frames')]
           /\ Top'.cp \in 1..N
           /\ Top'.cp < Top.cp
  BY <1>0, Popped
<1>4. /\ Len(frames) \in Nat /\ Len(frames) > 0 /\ Top = frames[Len(frames)]
  BY <1>0, TopFrame
<1>5. TypeOK'
  BY <1>0, <1>2, <1>3 DEF TypeOK, FrameSet, NodeSet
<1>6. Chained'
  BY <1>2, <1>3, <1>4, ChainKept DEF IInv
<1>7. Returning'
  <2> SUFFICES ASSUME frames' # << >>
               PROVE  \E d \in (Top'.cp + 1)..at' :
                        /\ Whole(Top.cp, d - 1)'
                        /\ Whole(d, at)'
                        /\ \A k \in Binaries' :
                             nodes'[k].to < at' \/ (nodes'[k].to = at' /\ nodes'[k].from >= d)
    BY DEF Returning
  <2>1. PICK m, z : m = Len(frames') /\ z = Top'.cp
    OBVIOUS
  <2>2. m \in 1..(Len(frames) - 1) /\ m + 1 = Len(frames)
    BY <2>1, <1>3, <1>4
  <2>3. z = frames[m].cp /\ z \in 1..N /\ z < a
    BY <2>1, <1>1, <1>3
  <2>4. Whole(z, a - 1)
    <3>1. Whole(frames[m].cp, frames[m + 1].cp - 1)
      BY <2>2 DEF IInv, Chained
    <3> QED
      BY <3>1, <2>2, <2>3, <1>1, <1>4
  <2>5. Whole(z, a - 1)' /\ Whole(a, b)'
    BY <2>4, <1>2
  <2>6. a \in (z + 1)..b
    BY <2>3, <1>0, <1>2
  <2>7. \A k \in Binaries' :
          nodes'[k].to < at' \/ (nodes'[k].to = at' /\ nodes'[k].from >= a)
    BY <1>1, <1>2
  <2>8. Whole(Top.cp, a - 1)' /\ Whole(a, at)' /\ a \in (Top'.cp + 1)..at'
    BY <2>1, <2>5, <2>6, <1>1
  <2> QED
    BY <2>7, <2>8
<1>8. NoStraddling'
  BY <1>2, <1>3 DEF NoStraddling
<1>9. text' \in Texts
  BY DEF IInv
<1> QED
  BY <1>2, <1>3, <1>5, <1>6, <1>7, <1>8, <1>9
     DEF IInv, Started, Reading, Failing, FailureContained

(* The calls stay as they are but for the operator of the innermost one.   *)
LEMMA SameCalls ==
  ASSUME TypeOK, Outermost, Rising, frames # << >>, at < N, ops \in Seq(Nat),
         frames' = Append(Front(frames), Frame(Top.cp, ops[at], Top.opterm)), text' = text
  PROVE  /\ frames' \in Seq(FrameSet)
         /\ Len(frames') = Len(frames)
         /\ frames' # << >>
         /\ \A k \in 1..Len(frames) : frames'[k].cp = frames[k].cp
         /\ Top'.cp = Top.cp
         /\ Outermost'
         /\ Rising'
<1>1. PICK n, f, e : /\ n = Len(frames)
                     /\ f = Front(frames)
                     /\ e = Frame(Top.cp, ops[at], Top.opterm)
  OBVIOUS
<1>2. /\ n \in Nat /\ n > 0
      /\ Top = frames[n] /\ Top \in FrameSet
      /\ f \in Seq(FrameSet)
      /\ Len(f) = n - 1
      /\ \A k \in 1..(n - 1) : f[k] = frames[k]
  BY <1>1, TopFrame
<1>3. ops[at] \in Nat
  BY DEF TypeOK, N
<1>4. e \in FrameSet /\ e.cp = Top.cp
  BY <1>1, <1>2, <1>3 DEF FrameSet, Frame
<1>5. frames' = Append(f, e)
  BY <1>1
<1>6. /\ frames' \in Seq(FrameSet)
      /\ Len(frames') = n
      /\ frames'[n] = e
      /\ \A k \in 1..(n - 1) : frames'[k] = f[k]
  <2>1. f \in Seq(FrameSet) /\ e \in FrameSet /\ Len(f) = n - 1 /\ Len(f) + 1 = n
    BY <1>2, <1>4
  <2>2. /\ Append(f, e) \in Seq(FrameSet)
        /\ Len(Append(f, e)) = Len(f) + 1
        /\ Append(f, e)[Len(f) + 1] = e
        /\ \A k \in 1..Len(f) : Append(f, e)[k] = f[k]
    BY ONLY <2>1
  <2> QED
    BY <2>1, <2>2, <1>5, Zenon
<1>7. \A k \in 1..n : frames'[k].cp = frames[k].cp
  BY <1>2, <1>4, <1>6
<1>8. Top'.cp = Top.cp /\ frames' # << >>
  <2>1. Top' = frames'[Len(frames')]
    BY DEF Top, Last
  <2>2. frames' # << >>
    BY <1>2, <1>6
  <2> QED
    BY <2>1, <2>2, <1>4, <1>6
<1> QED
  BY <1>1, <1>2, <1>6, <1>7, <1>8 DEF Outermost, Rising

(* A call closes its node and goes on with the next operator.              *)
LEMMA CallGoesOn ==
  ASSUME IInv, NEW c, Closing(c), nodes' = Binary, TakeOperator, at < N,
         text' = text, pc \in {"next", "returned"}
  PROVE  IInv'
<1>0. /\ TypeOK /\ Outermost /\ Rising /\ frames # << >>
      /\ at \in 1..N /\ N' = N /\ N \in Nat /\ at' = at + 1
      /\ pc' = "operand"
      /\ ops \in Seq(Nat)
      /\ frames' = Append(Front(frames), Frame(Top.cp, ops[at], Top.opterm))
  BY Operands DEF IInv, TypeOK, Closing, N, ops, TakeOperator
<1>1. PICK a, b : a = Top.cp /\ b = at
  OBVIOUS
<1>2. /\ nodes' \in Seq(NodeSet)
      /\ a \in 1..N /\ b \in 1..N /\ a < b
      /\ TwoOperands'
      /\ Whole(a, b)'
      /\ \A x, y : Whole(x, y) => Whole(x, y)'
      /\ \A k \in Binaries' :
           nodes'[k].to < b \/ (nodes'[k].to = b /\ nodes'[k].from >= a)
      /\ \A h \in Binaries', j \in 1..Len(frames) :
           nodes'[h].from >= frames[j].cp \/ nodes'[h].to < frames[j].cp
      /\ Incompletes' = {}
  BY <1>1, BinaryWrapped
<1>3. /\ frames' \in Seq(FrameSet)
      /\ Len(frames') = Len(frames)
      /\ frames' # << >>
      /\ \A k \in 1..Len(frames) : frames'[k].cp = frames[k].cp
      /\ Top'.cp = Top.cp
      /\ Outermost'
      /\ Rising'
  BY <1>0, SameCalls
<1>4. Len(frames) \in Nat /\ Len(frames) > 0
  BY <1>0, TopFrame
<1>5. TypeOK'
  BY <1>0, <1>2, <1>3 DEF TypeOK, FrameSet, NodeSet
<1>6. Chained'
  BY <1>2, <1>3, <1>4, ChainKept DEF IInv
<1>7. Reading'
  <2>1. \A k \in Binaries' : nodes'[k].to < at'
    <3>1. \A k \in Binaries' : nodes'[k].to \in 1..N
      <4>1. \A k \in Binaries' : k \in 1..Len(nodes')
        BY DEF Binaries
      <4>2. \A k \in Binaries' : nodes'[k] \in NodeSet
        BY <4>1, <1>2
      <4> QED
        BY <4>2 DEF NodeSet
    <3>2. \A k \in Binaries' : nodes'[k].to <= b
      BY <3>1, <1>2
    <3> QED
      BY <3>1, <3>2, <1>0, <1>1
  <2>2. Top'.cp = a /\ at' - 1 = b /\ a < at'
    BY <1>0, <1>1, <1>2, <1>3
  <2>3. Whole(Top.cp, at - 1)'
    BY <2>2, <1>2
  <2> QED
    BY <2>1, <2>2, <2>3, <1>3 DEF Reading
<1>8. NoStraddling'
  BY <1>2, <1>3 DEF NoStraddling
<1>9. text' \in Texts
  BY DEF IInv
<1> QED
  BY <1>0, <1>2, <1>3, <1>5, <1>6, <1>7, <1>8, <1>9
     DEF IInv, Started, Returning, Failing, FailureContained

(* The next operator binds tighter: a call begins at operand at.           *)
LEMMA DescendKeeps ==
  ASSUME IInv, Descend
  PROVE  IInv'
<1>0. /\ TypeOK /\ Outermost /\ Rising /\ frames # << >> /\ pc = "next"
      /\ at \in 1..N /\ N' = N /\ N \in Nat /\ at' = at + 1 /\ at < N
      /\ pc' = "operand" /\ text' = text /\ nodes' = nodes
      /\ ops \in Seq(Nat) /\ Len(ops) = N - 1
  BY Operands DEF IInv, TypeOK, N, ops, Descend, Comparing, Reading
<1>1. PICK n, e : n = Len(frames) /\ e = Frame(at, ops[at], Top.op)
  OBVIOUS
<1>2. /\ n \in Nat /\ n > 0
      /\ Top = frames[n] /\ Top \in FrameSet
      /\ frames \in Seq(FrameSet)
  BY <1>0, <1>1, TopFrame DEF TypeOK, FrameSet
<1>3. ops[at] \in Nat
  BY <1>0
<1>4. e \in FrameSet /\ e.cp = at
  BY <1>0, <1>1, <1>2, <1>3 DEF FrameSet, Frame
<1>5. frames' = Append(frames, e)
  BY <1>1 DEF Descend
<1>6. /\ frames' \in Seq(FrameSet)
      /\ Len(frames') = n + 1
      /\ frames'[n + 1] = e
      /\ \A k \in 1..n : frames'[k] = frames[k]
  BY <1>1, <1>2, <1>4, <1>5, Appended
<1>7. /\ Top.cp \in 1..N /\ Top.cp < at
      /\ Whole(Top.cp, at - 1)
      /\ \A k \in Binaries : nodes[k].to < at
  BY <1>0, <1>2 DEF IInv, Reading, FrameSet
<1>8. Top' = e /\ frames' # << >>
  <2>1. Top' = frames'[Len(frames')]
    BY DEF Top, Last
  <2>2. frames' # << >>
    BY <1>2, <1>6
  <2> QED
    BY <2>1, <2>2, <1>6
<1>9. Binaries' = Binaries /\ Incompletes' = Incompletes
  BY <1>0 DEF Binaries, Incompletes
<1>10. \A x, y : Whole(x, y)' <=> Whole(x, y)
  BY <1>0, <1>9 DEF Whole
<1>11. TypeOK'
  BY <1>0, <1>6 DEF TypeOK, FrameSet, NodeSet
<1>12. Outermost'
  BY <1>0, <1>1, <1>2, <1>6 DEF Outermost
<1>13. Rising'
  <2> SUFFICES ASSUME NEW j \in 1..(n + 1), NEW k \in 1..(n + 1), j < k
               PROVE  frames'[j].cp < frames'[k].cp
    BY <1>6 DEF Rising
  <2>1. j \in 1..n /\ frames'[j] = frames[j] /\ frames[j] \in FrameSet
    BY <1>1, <1>2, <1>6
  <2>2. CASE k \in 1..n
    BY <2>1, <2>2, <1>0, <1>1, <1>6 DEF Rising
  <2>3. CASE k = n + 1
    <3>1. j = n \/ frames[j].cp < frames[n].cp
      BY <2>1, <1>0, <1>1, <1>2 DEF Rising
    <3>2. frames[j].cp \in Int /\ frames[n].cp \in Int /\ frames[n].cp < at
      BY <2>1, <1>2, <1>7 DEF FrameSet
    <3>3. frames[j].cp < at
      BY <3>1, <3>2, <1>0
    <3> QED
      BY <3>3, <2>1, <2>3, <1>4, <1>6
  <2> QED
    BY <2>2, <2>3, <1>2
<1>14. Chained'
  <2> SUFFICES ASSUME NEW k \in 1..(Len(frames') - 1)
               PROVE  Whole(frames[k].cp, frames[k + 1].cp - 1)'
    BY DEF Chained
  <2>1. PICK x, y : x = frames'[k].cp /\ y = frames'[k + 1].cp - 1
    OBVIOUS
  <2>2. k \in 1..n /\ frames'[k] = frames[k]
    BY <1>2, <1>6
  <2>3. Whole(x, y)
    <3>1. CASE k = n
      BY <3>1, <2>1, <2>2, <1>2, <1>4, <1>6, <1>7
    <3>2. CASE k < n
      <4>1. k \in 1..(Len(frames) - 1) /\ k + 1 \in 1..n
        BY <3>2, <2>2, <1>1, <1>2
      <4>2. Whole(frames[k].cp, frames[k + 1].cp - 1)
        BY <4>1 DEF IInv, Chained
      <4>3. frames'[k + 1] = frames[k + 1]
        BY <4>1, <1>6
      <4> QED
        BY <4>2, <4>3, <2>1, <2>2
    <3> QED
      BY <3>1, <3>2, <2>2, <1>2
  <2> QED
    BY <2>1, <2>3, <1>10
<1>15. Reading'
  <2>1. \A k \in Binaries' : nodes'[k].to < at'
    <3>1. \A k \in Binaries : nodes[k].to \in Int
      <4>1. \A k \in Binaries : k \in 1..Len(nodes)
        BY DEF Binaries
      <4>2. \A k \in Binaries : nodes[k] \in NodeSet
        <5>1. nodes \in Seq(NodeSet)
          BY <1>0 DEF TypeOK, NodeSet
        <5> QED
          BY <4>1, <5>1
      <4> QED
        BY <4>2 DEF NodeSet
    <3> QED
      BY <3>1, <1>0, <1>7, <1>9
  <2>2. Top'.cp = at /\ at' - 1 = at /\ at < at'
    BY <1>0, <1>4, <1>8
  <2>3. Whole(at, at)
    BY DEF Whole
  <2>4. Whole(Top.cp, at - 1)'
    BY <2>2, <2>3, <1>10
  <2> QED
    BY <2>1, <2>2, <2>4, <1>8 DEF Reading
<1>16. NoStraddling'
  <2> SUFFICES ASSUME NEW h \in Binaries, NEW j \in 1..(n + 1)
               PROVE  nodes[h].from >= frames'[j].cp \/ nodes[h].to < frames'[j].cp
    BY <1>0, <1>6, <1>9 DEF NoStraddling
  <2>1. CASE j = n + 1
    BY <2>1, <1>4, <1>6, <1>7
  <2>2. CASE j \in 1..n
    BY <2>2, <1>1, <1>6 DEF IInv, NoStraddling
  <2> QED
    BY <2>1, <2>2, <1>2
<1>17. TwoOperands'
  <2>1. \A k, x, y : WholeBefore(k, x, y)' <=> WholeBefore(k, x, y)
    BY <1>0, <1>9 DEF WholeBefore
  <2> QED
    BY <2>1, <1>0, <1>9 DEF IInv, TwoOperands
<1>18. Incompletes' = {} /\ text' \in Texts
  BY <1>0, <1>9 DEF IInv, Failing
<1> QED
  BY <1>0, <1>11, <1>12, <1>13, <1>14, <1>15, <1>16, <1>17, <1>18
     DEF IInv, Started, Returning, Failing, FailureContained

(* An Incomplete changes nothing for the binary nodes.                     *)
LEMMA IncompleteWrapped ==
  ASSUME TypeOK, TwoOperands, NEW a \in 1..N, NEW b \in 1..N,
         nodes' = Append(nodes, Node("incomplete", a, b))
  PROVE  /\ nodes' \in Seq(NodeSet)
         /\ Len(nodes) \in Nat
         /\ Len(nodes') = Len(nodes) + 1
         /\ nodes'[Len(nodes) + 1] = Node("incomplete", a, b)
         /\ Binaries' = Binaries
         /\ Incompletes' = Incompletes \cup {Len(nodes) + 1}
         /\ \A k \in Binaries : nodes'[k] = nodes[k]
         /\ \A k \in Incompletes : k \in 1..Len(nodes) /\ nodes'[k] = nodes[k]
         /\ \A x, y : Whole(x, y)' <=> Whole(x, y)
         /\ TwoOperands'
<1>1. /\ nodes' \in Seq(NodeSet)
      /\ Len(nodes) \in Nat
      /\ Len(nodes') = Len(nodes) + 1
      /\ nodes'[Len(nodes) + 1] = Node("incomplete", a, b)
      /\ \A k \in 1..Len(nodes) : nodes'[k] = nodes[k]
      /\ Binaries' = Binaries
      /\ Incompletes' = Incompletes \cup {Len(nodes) + 1}
  BY Wrapped
<1>2. \A k \in Binaries : nodes'[k] = nodes[k]
  BY <1>1 DEF Binaries
<1>3. \A k \in Incompletes : k \in 1..Len(nodes) /\ nodes'[k] = nodes[k]
  BY <1>1 DEF Incompletes
<1>4. \A x, y : Whole(x, y)' <=> Whole(x, y)
  BY <1>1, <1>2 DEF Whole
<1>5. TwoOperands'
  <2>1. \A k, x, y : WholeBefore(k, x, y)' <=> WholeBefore(k, x, y)
    BY <1>1, <1>2 DEF WholeBefore
  <2> QED
    BY <2>1, <1>1, <1>2 DEF TwoOperands
<1> QED
  BY <1>1, <1>2, <1>3, <1>4, <1>5

(* The innermost call is the one furthest to the right.                    *)
LEMMA TopIsLast ==
  ASSUME TypeOK, Rising, frames # << >>, NEW j \in 1..Len(frames)
  PROVE  frames[j].cp \in 1..N /\ Top.cp \in 1..N /\ frames[j].cp <= Top.cp
<1>1. /\ Len(frames) \in Nat /\ Len(frames) > 0
      /\ Top = frames[Len(frames)] /\ Top \in FrameSet
      /\ frames \in Seq(FrameSet)
  BY TopFrame DEF TypeOK, FrameSet
<1>2. frames[j].cp \in 1..N /\ Top.cp \in 1..N
  <2>1. frames[j] \in FrameSet
    BY <1>1
  <2> QED
    BY <2>1, <1>1 DEF FrameSet
<1>3. j = Len(frames) \/ frames[j].cp < frames[Len(frames)].cp
  BY <1>1 DEF Rising
<1> QED
  BY <1>1, <1>2, <1>3

(* An operand fails: it is wrapped on its own.                             *)
LEMMA OperandFailsKeeps ==
  ASSUME IInv, OperandFails
  PROVE  IInv'
<1>0. /\ TypeOK /\ TwoOperands /\ Outermost /\ Rising /\ Chained /\ NoStraddling
      /\ frames # << >> /\ pc = "operand" /\ pc' = "unwind"
      /\ at \in 1..N /\ N' = N /\ N \in Nat
      /\ at' = at /\ text' = text /\ frames' = frames /\ text.bad = at
      /\ Top.cp < at
      /\ \A k \in Binaries : nodes[k].to < at
      /\ Incompletes = {}
      /\ text' \in Texts
  BY Operands DEF IInv, TypeOK, N, ops, OperandFails, Reading, Failing
<1>1. nodes' = Append(nodes, Node("incomplete", at, at))
  BY DEF OperandFails
<1> PICK a, n : a = at /\ n = Len(nodes) + 1
  OBVIOUS
<1>2. /\ nodes' \in Seq(NodeSet)
      /\ nodes'[n].from = at /\ nodes'[n].to = at
      /\ Binaries' = Binaries
      /\ Incompletes' = {n} /\ n \in Nat
      /\ \A k \in Binaries : nodes'[k] = nodes[k]
      /\ \A x, y : Whole(x, y)' <=> Whole(x, y)
      /\ TwoOperands'
  <2>1. /\ nodes' \in Seq(NodeSet)
        /\ Len(nodes) \in Nat
        /\ nodes'[n] = Node("incomplete", a, a)
        /\ Binaries' = Binaries
        /\ Incompletes' = Incompletes \cup {n}
        /\ \A k \in Binaries : nodes'[k] = nodes[k]
        /\ \A x, y : Whole(x, y)' <=> Whole(x, y)
        /\ TwoOperands'
    <3>1. a \in 1..N /\ nodes' = Append(nodes, Node("incomplete", a, a))
      BY <1>0, <1>1
    <3> QED
      BY <3>1, <1>0, IncompleteWrapped
  <2>2. nodes'[n].from = at /\ nodes'[n].to = at
    BY <2>1 DEF Node
  <2> QED
    BY <2>1, <2>2, <1>0
<1>3. \A j \in 1..Len(frames) : frames[j].cp < at /\ at > 1
  <2>1. \A j \in 1..Len(frames) :
          frames[j].cp \in 1..N /\ Top.cp \in 1..N /\ frames[j].cp <= Top.cp
    BY <1>0, TopIsLast
  <2> QED
    BY <2>1, <1>0
<1>4. Len(frames) \in Nat /\ Len(frames) > 0
  BY <1>0, TopFrame
<1>5. at > 1
  BY <1>3, <1>4
<1>6. TypeOK'
  BY <1>0, <1>2 DEF TypeOK, NodeSet
<1>7. Chained'
  BY <1>0, <1>2, <1>4, ChainKept
<1>8. Outermost' /\ Rising' /\ NoStraddling'
  BY <1>0, <1>2 DEF Outermost, Rising, NoStraddling
<1>9. Failing'
  <2>1. \A k \in Binaries' : nodes'[k].to < at'
    BY <1>0, <1>2
  <2>2. \A k \in Incompletes' : nodes'[k].to = at' /\ nodes'[k].from = at'
    BY <1>0, <1>2
  <2>3. \A h, k \in Incompletes' : ~(h < k)
    BY <1>2
  <2> QED
    BY <2>1, <2>2, <2>3, <1>0, <1>3, <1>5 DEF Failing
<1> QED
  BY <1>0, <1>2, <1>6, <1>7, <1>8, <1>9
     DEF IInv, Started, Reading, Returning, FailureContained

(* A waiting call returns the error and is wrapped by its caller.          *)
LEMMA UnwindKeeps ==
  ASSUME IInv, Unwind
  PROVE  IInv'
<1>0. /\ TypeOK /\ TwoOperands /\ Outermost /\ Rising /\ Chained /\ NoStraddling
      /\ frames # << >> /\ pc = "unwind" /\ pc' = "unwind"
      /\ at \in 1..N /\ N' = N /\ N \in Nat
      /\ at' = at /\ text' = text /\ frames' = Front(frames)
      /\ text' \in Texts
  BY Operands DEF IInv, TypeOK, N, ops, Unwind
<1>1. /\ text.bad = at /\ at > 1
      /\ \A k \in Binaries : nodes[k].to < at
      /\ \A k \in Incompletes : nodes[k].to = at
      /\ \A h, k \in Incompletes : h < k => nodes[k].from < nodes[h].from
      /\ \A k \in Incompletes, j \in 1..Len(frames) : frames[j].cp < nodes[k].from
      /\ \A h \in Binaries, k \in Incompletes :
           nodes[h].from >= nodes[k].from \/ nodes[h].to < nodes[k].from
  BY <1>0 DEF IInv, Failing
<1>2. /\ Len(frames) \in Nat /\ Len(frames) > 0
      /\ Top = frames[Len(frames)] /\ Top \in FrameSet
  BY <1>0, TopFrame
<1>3. PICK a, n : a = Top.cp /\ n = Len(nodes) + 1
  OBVIOUS
<1>4. a \in 1..N
  BY <1>2, <1>3 DEF FrameSet
<1>5. nodes' = Append(nodes, Node("incomplete", a, at))
  BY <1>3 DEF Unwind
<1>6. /\ nodes' \in Seq(NodeSet)
      /\ Len(nodes) \in Nat
      /\ Len(nodes') = n
      /\ nodes'[n] = Node("incomplete", a, at)
      /\ Binaries' = Binaries
      /\ Incompletes' = Incompletes \cup {n}
      /\ \A k \in Binaries : nodes'[k] = nodes[k]
      /\ \A k \in Incompletes : k \in 1..Len(nodes) /\ nodes'[k] = nodes[k]
      /\ \A x, y : Whole(x, y)' <=> Whole(x, y)
      /\ TwoOperands'
  BY <1>0, <1>3, <1>4, <1>5, IncompleteWrapped
<1>7. nodes'[n].from = a /\ nodes'[n].to = at
  BY <1>6 DEF Node
<1>8. /\ frames' \in Seq(FrameSet)
      /\ Len(frames') = Len(frames) - 1
      /\ \A k \in 1..Len(frames') : k \in 1..Len(frames) /\ frames'[k] = frames[k]
      /\ Outermost'
      /\ Rising'
  BY <1>0, Popped
<1>9. TypeOK'
  BY <1>0, <1>6, <1>8 DEF TypeOK, NodeSet, FrameSet
<1>10. Chained'
  <2>1. Len(frames') \in Nat /\ Len(frames') <= Len(frames)
    BY <1>2, <1>8
  <2>2. \A k \in 1..Len(frames') : frames'[k].cp = frames[k].cp
    BY <1>8
  <2>3. \A x, y : Whole(x, y) => Whole(x, y)'
    BY <1>6
  <2> QED
    BY <2>1, <2>2, <2>3, <1>0, <1>2, ChainKept
<1>11. NoStraddling'
  BY <1>0, <1>6, <1>8 DEF NoStraddling
<1>12. ASSUME NEW j \in 1..Len(frames')
       PROVE  frames'[j].cp < a
  <2>1. j \in 1..Len(frames) /\ Len(frames) \in 1..Len(frames) /\ j < Len(frames)
    BY <1>2, <1>8
  <2>2. frames[j].cp < frames[Len(frames)].cp
    BY <2>1, <1>0 DEF Rising
  <2> QED
    BY <2>2, <1>2, <1>3, <1>8
<1>13. Failing'
  <2>1. \A k \in Binaries' : nodes'[k].to < at'
    BY <1>0, <1>1, <1>6
  <2>2. \A k \in Incompletes' : nodes'[k].to = at'
    BY <1>0, <1>1, <1>6, <1>7
  <2>3. \A k \in Incompletes : a < nodes[k].from
    BY <1>1, <1>2, <1>3
  <2>4. ASSUME NEW h \in Incompletes', NEW k \in Incompletes', h < k
        PROVE  nodes'[k].from < nodes'[h].from
    <3>1. h \in Incompletes
      BY <2>4, <1>3, <1>6
    <3> QED
      BY <3>1, <2>3, <2>4, <1>1, <1>6, <1>7
  <2>5. ASSUME NEW k \in Incompletes', NEW j \in 1..Len(frames')
        PROVE  frames'[j].cp < nodes'[k].from
    BY <2>5, <1>1, <1>6, <1>7, <1>8, <1>12
  <2>6. ASSUME frames' = << >>
        PROVE  nodes'[Len(nodes')] = Node("incomplete", 1, at)'
    <3>1. Len(frames) = 1
      BY <2>6, <1>2, <1>8
    <3>2. a = 1
      BY <3>1, <1>0, <1>2, <1>3 DEF Outermost
    <3> QED
      BY <3>2, <1>0, <1>6 DEF Node
  <2>7. ASSUME NEW h \in Binaries', NEW k \in Incompletes'
        PROVE  nodes'[h].from >= nodes'[k].from \/ nodes'[h].to < nodes'[k].from
    <3>1. CASE k = n
      <4>1. nodes[h].from >= a \/ nodes[h].to < a
        BY <1>0, <1>2, <1>3, <1>6 DEF NoStraddling
      <4> QED
        BY <3>1, <4>1, <1>6, <1>7
    <3>2. CASE k \in Incompletes
      BY <3>2, <1>1, <1>6
    <3> QED
      BY <3>1, <3>2, <1>6
  <2> QED
    BY <2>1, <2>2, <2>4, <2>5, <2>6, <2>7, <1>0, <1>1 DEF Failing
<1> QED
  BY <1>0, <1>6, <1>8, <1>9, <1>10, <1>11, <1>13
     DEF IInv, Started, Reading, Returning, FailureContained

-----------------------------------------------------------------------------
LEMMA InitHolds == Init => IInv
<1> SUFFICES ASSUME Init
             PROVE  IInv
  OBVIOUS
<1>1. text \in Texts /\ at = 1 /\ frames = << >> /\ nodes = << >> /\ pc = "expression"
  BY DEF Init
<1>2. N \in Nat /\ N >= 1
  BY <1>1, Operands
<1>3. Len(frames) = 0 /\ Len(nodes) = 0
  BY <1>1
<1>4. Binaries = {} /\ Incompletes = {}
  BY <1>3 DEF Binaries, Incompletes
<1>5. TypeOK
  BY <1>1, <1>2 DEF TypeOK
<1>6. Rising /\ Chained
  BY <1>3 DEF Rising, Chained
<1> QED
  BY <1>1, <1>4, <1>5, <1>6
     DEF IInv, Started, Outermost, Reading, Returning, NoStraddling, Failing,
         TwoOperands, FailureContained

(* Where parse_binop is about to wrap its left operand and its right one.  *)
LEMMA ClosesAfterOperand ==
  ASSUME IInv, pc = "next"
  PROVE  Closing(at)
<1>1. /\ frames # << >> /\ Top.cp < at /\ Whole(Top.cp, at - 1)
      /\ \A k \in Binaries : nodes[k].to < at
  BY DEF IInv, Reading
<1>2. at \in Nat /\ Top.cp \in Int
  <2>1. TypeOK /\ N \in Nat
    BY Operands DEF IInv
  <2>2. Top \in FrameSet
    BY <2>1, <1>1, TopFrame
  <2> QED
    BY <2>1, <2>2 DEF FrameSet, TypeOK
<1>3. at \in (Top.cp + 1)..at
  BY <1>1, <1>2
<1>4. Whole(at, at)
  BY DEF Whole
<1> QED
  BY <1>1, <1>3, <1>4 DEF Closing

LEMMA ClosesAfterCall ==
  ASSUME IInv, pc = "returned", frames # << >>
  PROVE  \E c : Closing(c)
BY DEF IInv, Returning, Closing

(* The first operator starts the outermost call.                           *)
LEMMA StartKeeps ==
  ASSUME IInv, StartBinop
  PROVE  IInv'
<1>1. /\ TypeOK /\ text \in Texts /\ N \in Nat /\ N > 1 /\ ops \in Seq(Nat)
      /\ Len(ops) = N - 1
      /\ N' = N /\ ops' = ops /\ text' = text
      /\ pc = "expression" /\ pc' = "operand" /\ at' = 2
      /\ nodes = << >> /\ nodes' = << >>
  BY Operands DEF IInv, Started, StartBinop, N, ops
<1>2. PICK f : f = Frame(1, ops[1], None)
  OBVIOUS
<1>3. f \in FrameSet /\ f.cp = 1
  <2>1. ops[1] \in Nat
    BY <1>1
  <2> QED
    BY <2>1, <1>1, <1>2 DEF Frame, FrameSet
<1>4. frames' = <<f>>
  BY <1>2 DEF StartBinop
<1>5. /\ frames' \in Seq(FrameSet) /\ Len(frames') = 1 /\ frames'[1] = f
      /\ frames' # << >>
  BY <1>3, <1>4
<1>6. Top'.cp = 1
  BY <1>3, <1>5 DEF Top, Last
<1>7. Binaries' = {} /\ Incompletes' = {}
  BY <1>1 DEF Binaries, Incompletes
<1>8. TypeOK'
  BY <1>1, <1>5 DEF TypeOK, FrameSet
<1>9. Rising' /\ Chained' /\ Outermost'
  BY <1>3, <1>5 DEF Rising, Chained, Outermost
<1>10. Reading'
  <2>1. Top'.cp < at' /\ at' - 1 = 1
    BY <1>1, <1>6
  <2>2. Whole(Top.cp, at - 1)'
    BY <2>1, <1>6 DEF Whole
  <2> QED
    BY <2>1, <2>2, <1>5, <1>7 DEF Reading
<1> QED
  BY <1>1, <1>7, <1>8, <1>9, <1>10
     DEF IInv, Started, Returning, NoStraddling, Failing, TwoOperands, FailureContained

(* Steps that only move on.                                                *)
LEMMA QuietKeeps ==
  ASSUME IInv, UNCHANGED <<text, at, frames, nodes>>,
         \/ pc' = pc
         \/ FirstOperandFails \/ LoneOperand \/ Operand \/ Panic
         \/ ReturnOk \/ ReturnError
  PROVE  IInv'
<1>1. /\ N' = N /\ ops' = ops /\ Binaries' = Binaries /\ Incompletes' = Incompletes
      /\ Top' = Top
  BY DEF N, ops, Binaries, Incompletes, Top
<1>2. \A x, y : Whole(x, y)' <=> Whole(x, y)
  BY <1>1 DEF Whole
<1>3. \A k, x, y : WholeBefore(k, x, y)' <=> WholeBefore(k, x, y)
  BY <1>1 DEF WholeBefore
<1>4. TwoOperands'
  BY <1>1, <1>3 DEF IInv, TwoOperands
<1>5. Outermost' /\ Rising' /\ NoStraddling'
  BY <1>1 DEF IInv, Outermost, Rising, NoStraddling
<1>6. Chained'
  BY <1>2 DEF IInv, Chained
<1>7. CASE pc' = pc
  <2>1. TypeOK' /\ Started'
    BY <1>1, <1>7 DEF IInv, TypeOK, Started
  <2>2. Reading'
    BY <1>1, <1>2, <1>7 DEF IInv, Reading
  <2>3. Returning'
    BY <1>1, <1>2, <1>7 DEF IInv, Returning
  <2>4. Failing' /\ FailureContained'
    BY <1>1, <1>7 DEF IInv, Failing, FailureContained
  <2> QED
    BY <2>1, <2>2, <2>3, <2>4, <1>4, <1>5, <1>6 DEF IInv
<1>8. CASE Operand
  <2>1. pc = "operand" /\ pc' = "next"
    BY <1>8 DEF Operand
  <2>2. TypeOK' /\ Started'
    BY <2>1, <1>1 DEF IInv, TypeOK, Started
  <2>3. Reading'
    BY <2>1, <1>1, <1>2 DEF IInv, Reading
  <2>4. Returning' /\ Failing' /\ FailureContained'
    BY <2>1, <1>1 DEF IInv, Returning, Failing, FailureContained
  <2> QED
    BY <2>2, <2>3, <2>4, <1>4, <1>5, <1>6 DEF IInv
<1>9. CASE FirstOperandFails \/ LoneOperand \/ Panic \/ ReturnOk \/ ReturnError
  <2>1. pc' \in {"ok", "error", "panicked"}
    BY <1>9 DEF FirstOperandFails, LoneOperand, Panic, ReturnOk, ReturnError
  <2>2. TypeOK' /\ Started' /\ Reading' /\ Returning'
    BY <2>1, <1>1 DEF IInv, TypeOK, Started, Reading, Returning
  <2>3. Failing' /\ FailureContained'
    <3>1. CASE FirstOperandFails
      BY <3>1, <1>1 DEF FirstOperandFails, IInv, Failing, FailureContained
    <3>2. CASE LoneOperand \/ Panic \/ ReturnOk
      BY <3>2, <1>1
         DEF LoneOperand, Panic, ReturnOk, IInv, Failing, FailureContained
    <3>3. CASE ReturnError
      BY <3>3, <1>1 DEF ReturnError, IInv, Failing, FailureContained
    <3> QED
      BY <3>1, <3>2, <3>3, <1>9
  <2> QED
    BY <2>2, <2>3, <1>4, <1>5, <1>6 DEF IInv
<1> QED
  BY <1>7, <1>8, <1>9

LEMMA StepKeeps == IInv /\ [Next]_vars => IInv'
<1> SUFFICES ASSUME IInv, [Next]_vars
             PROVE  IInv'
  OBVIOUS
<1>1. CASE FirstOperandFails \/ LoneOperand \/ Operand \/ Panic \/ ReturnOk \/ ReturnError
  BY <1>1, QuietKeeps
     DEF FirstOperandFails, LoneOperand, Operand, Panic, ReturnOk, ReturnError
<1>2. CASE StartBinop
  BY <1>2, StartKeeps
<1>3. CASE OperandFails
  BY <1>3, OperandFailsKeeps
<1>4. CASE NoMoreOperators
  BY <1>4, ClosesAfterOperand, CallCloses DEF NoMoreOperators
<1>5. CASE ReduceAndReturn
  BY <1>5, ClosesAfterOperand, CallCloses DEF ReduceAndReturn, Comparing
<1>6. CASE ReduceAndGoOn
  BY <1>6, ClosesAfterOperand, CallGoesOn DEF ReduceAndGoOn, Comparing
<1>7. CASE Descend
  BY <1>7, DescendKeeps
<1>8. CASE Rejoin
  <2>1. PICK c : Closing(c)
    BY <1>8, ClosesAfterCall DEF Rejoin
  <2> QED
    BY <2>1, <1>8, CallGoesOn DEF Rejoin
<1>9. CASE RejoinAtEnd
  <2>1. PICK c : Closing(c)
    BY <1>9, ClosesAfterCall DEF RejoinAtEnd
  <2> QED
    BY <2>1, <1>9, CallCloses DEF RejoinAtEnd
<1>10. CASE Unwind
  BY <1>10, UnwindKeeps
<1>11. CASE Finished \/ UNCHANGED vars
  BY <1>11, QuietKeeps DEF Finished, vars
<1> QED
  BY <1>1, <1>2, <1>3, <1>4, <1>5, <1>6, <1>7, <1>8, <1>9, <1>10, <1>11
     DEF Next, Step

(* The invariant holds of every expression.                                *)
THEOREM ClimbingInvariant == Spec => []IInv
BY InitHolds, StepKeeps, PTL DEF Spec

(* The stack of calls and the nodes are what TypeOK says, with all spans   *)
(* inside the expression (parse_expression, parse_binop).                  *)
THEOREM TypeCorrect == Spec => []TypeOK
<1>1. IInv => TypeOK
  BY DEF IInv
<1> QED
  BY <1>1, ClimbingInvariant, PTL

(* Every BinaryExpression of every expression has two operands, with or    *)
(* without a relapse, and whether or not the text parses (parse_binop).    *)
THEOREM TwoOperandsAlways == Spec => []TwoOperands
<1>1. IInv => TwoOperands
  BY DEF IInv
<1> QED
  BY <1>1, ClimbingInvariant, PTL

(* A malformed operand costs what was waiting for it and nothing else,     *)
(* however deep the calls are nested (parse_binop, parse_expression).      *)
THEOREM FailureAlwaysContained == Spec => []FailureContained
<1>1. IInv => FailureContained
  BY DEF IInv
<1> QED
  BY <1>1, ClimbingInvariant, PTL

-----------------------------------------------------------------------------
(* Operator i, and operator k at which its node is closed too late.        *)
RelapseOf(i, k) ==
  /\ i < k
  /\ ops[k] <= ops[i]
  /\ \A j \in (i + 1)..(k - 1) : ops[j] > ops[i]
  /\ \E j \in (i + 1)..(k - 2) : ops[j] < ops[k - 1]

(* Operator h has the node that precedence gives it.                       *)
Placed(S, h) == \E s \in S : s[1] <= h /\ h < s[2] /\ IsNodeOf(h, s[1], s[2])

(* With operand n just read, call f waits for the right operand of         *)
(* operator q: what it has read before q binds at least as tight, and what *)
(* it has read behind, tighter.                                            *)
Waits(f, q, n) ==
  /\ q \in f.cp..(n - 1)
  /\ f.op = ops[q]
  /\ \A h \in f.cp..(q - 1) : ops[h] >= ops[q]
  /\ \A h \in (q + 1)..(n - 1) : ops[h] > ops[q]

(* Every call waits with the operator before the next call, the innermost  *)
(* with operator q, and knows the operator of its caller.                  *)
Ladder(calls, q, n) ==
  /\ calls[1].opterm = None
  /\ \A k \in 1..(Len(calls) - 1) :
       /\ calls[k + 1].opterm = calls[k].op
       /\ Waits(calls[k], calls[k + 1].cp - 1, n)
  /\ Waits(calls[Len(calls)], q, n)

(* Every operator that no call waits with has its node.                    *)
Built(S, calls, q, n) ==
  \A h \in 1..(n - 1) :
    h = q \/ (\E k \in 1..Len(calls) : h = calls[k].cp - 1) \/ Placed(S, h)

(* An inner call comes back with an operator for its caller, and what it   *)
(* read ends with one it could not bind tighter.                           *)
Handed(q, n) ==
  n < N =>
    /\ q < n - 1
    /\ ops[n] <= ops[q]
    /\ \A h \in (q + 1)..(n - 2) : ops[h] >= ops[n - 1]

Unlapsed(n) == \A i, k \in 1..(N - 1) : k < n => ~RelapseOf(i, k)

ClimbingAt(calls, n, p, S) ==
  /\ Unlapsed(n)
  /\ p \in {"operand", "next"} => Ladder(calls, n - 1, n) /\ Built(S, calls, n - 1, n)
  /\ p = "returned" =>
       \E q \in 0..(n - 1) :
         /\ Built(S, calls, q, n)
         /\ calls = << >> => q = 0 /\ n = N
         /\ calls # << >> => Ladder(calls, q, n) /\ Handed(q, n)
  /\ p = "ok" => n = N /\ \A h \in 1..(N - 1) : Placed(S, h)

(* An operator has been passed whose node could only have ended there.     *)
LapsedAt(n, S) ==
  \E i, k \in 1..(N - 1) :
    /\ RelapseOf(i, k)
    /\ k < n
    /\ \A s \in S : s[1] <= i => s[2] # k

Climbing == ClimbingAt(frames, at, pc, Spans)
Lapsed == LapsedAt(at, Spans)

Grouping == Climbing \/ Lapsed

-----------------------------------------------------------------------------
(* The kinds of everything this is about.                                  *)
LEMMA Shape ==
  ASSUME IInv
  PROVE  /\ N \in Nat /\ at \in 1..N
         /\ \A h \in 1..(N - 1) : ops[h] \in Nat
         /\ Len(frames) \in Nat
         /\ \A k \in 1..Len(frames) :
              /\ frames[k].cp \in 1..N
              /\ frames[k].op \in Nat
              /\ frames[k].opterm \in Nat \cup {None}
         /\ frames # << >> => Len(frames) > 0 /\ Top = frames[Len(frames)] /\ frames[1].cp = 1
         /\ \A j, k \in 1..Len(frames) : j < k => frames[j].cp < frames[k].cp
<1>1. /\ TypeOK /\ N \in Nat /\ ops \in Seq(Nat) /\ Len(ops) = N - 1
      /\ frames # << >> => frames[1].cp = 1
      /\ \A j, k \in 1..Len(frames) : j < k => frames[j].cp < frames[k].cp
  BY Operands DEF IInv, Outermost, Rising
<1>2. at \in 1..N /\ frames \in Seq(FrameSet)
  BY <1>1 DEF TypeOK, FrameSet
<1>3. \A h \in 1..(N - 1) : ops[h] \in Nat
  BY <1>1
<1>4. Len(frames) \in Nat /\ \A k \in 1..Len(frames) : frames[k] \in FrameSet
  BY <1>2
<1>5. frames # << >> => Len(frames) > 0 /\ Top = frames[Len(frames)]
  BY <1>1, TopFrame
<1> QED
  BY <1>1, <1>2, <1>3, <1>4, <1>5 DEF FrameSet

(* Every operator up to q is in the left operand of a call, or waiting.    *)
LEMMA Covering ==
  ASSUME IInv, frames # << >>, NEW q \in Nat, NEW h \in 1..q
  PROVE  \E k \in 1..Len(frames) :
           /\ frames[k].cp <= h
           /\ k = Len(frames) \/ (k < Len(frames) /\ h < frames[k + 1].cp)
<1>1. /\ Len(frames) \in Nat /\ Len(frames) > 0 /\ frames[1].cp = 1
      /\ \A k \in 1..Len(frames) : frames[k].cp \in Nat
  BY Shape
<1> DEFINE S == {k \in 1..Len(frames) : frames[k].cp <= h}
<1>2. S \in SUBSET (0..Len(frames)) /\ 1 \in S
  BY <1>1
<1>3. PICK k \in S : \A j \in S : j <= k
  <2> HIDE DEF S
  <2> QED
    BY <1>1, <1>2, GreatestExists
<1>4. k \in 1..Len(frames) /\ frames[k].cp <= h
  BY <1>3
<1>5. CASE k = Len(frames)
  BY <1>4, <1>5
<1>6. CASE k # Len(frames)
  <2>1. k + 1 \in 1..Len(frames) /\ k < Len(frames)
    BY <1>1, <1>4, <1>6
  <2>2. k + 1 \notin S
    BY <1>1, <1>3, <1>4
  <2>3. h < frames[k + 1].cp
    BY <1>1, <2>1, <2>2
  <2> QED
    BY <1>4, <2>1, <2>3
<1> QED
  BY <1>5, <1>6

(* A caller waits with a looser operator than the calls inside it.         *)
LEMMA Callers ==
  ASSUME IInv, frames # << >>, NEW q, Ladder(frames, q, at)
  PROVE  /\ q \in 1..(at - 1) /\ Top.cp <= q /\ Top.op = ops[q] /\ Top.cp \in 1..N
         /\ Len(frames) = 1 => Top.cp = 1 /\ Top.opterm = None
         /\ Len(frames) > 1 => /\ Top.opterm = frames[Len(frames) - 1].op
                               /\ Top.opterm < ops[q]
                               /\ Top.cp > 1
                               /\ Top.opterm = ops[Top.cp - 1]
         /\ \A k \in 1..(Len(frames) - 1) :
              /\ frames[k].op <= Top.opterm
              /\ frames[k].op < ops[q]
              /\ frames[k].op = ops[frames[k + 1].cp - 1]
              /\ frames[k + 1].cp - 1 \in 1..(at - 1)
              /\ frames[k + 1].cp - 1 < q
<1> DEFINE m == Len(frames)
<1>1. /\ N \in Nat /\ at \in 1..N
      /\ \A h \in 1..(N - 1) : ops[h] \in Nat
      /\ m \in Nat /\ m > 0 /\ Top = frames[m] /\ frames[1].cp = 1
      /\ \A k \in 1..m : frames[k].cp \in 1..N /\ frames[k].op \in Nat
      /\ \A j, k \in 1..m : j < k => frames[j].cp < frames[k].cp
  BY Shape
<1>2. /\ frames[1].opterm = None
      /\ \A k \in 1..(m - 1) :
           /\ frames[k + 1].opterm = frames[k].op
           /\ Waits(frames[k], frames[k + 1].cp - 1, at)
      /\ Waits(Top, q, at)
  BY <1>1 DEF Ladder
<1> HIDE DEF m
<1>3. q \in 1..(at - 1) /\ Top.cp <= q /\ Top.op = ops[q] /\ Top.cp \in 1..N
  BY <1>1, <1>2 DEF Waits
<1>4. ASSUME NEW k \in 1..(m - 1)
      PROVE  /\ frames[k].op = ops[frames[k + 1].cp - 1]
             /\ frames[k + 1].cp - 1 \in 1..(at - 1)
             /\ frames[k + 1].cp - 1 < q
             /\ frames[k].op < ops[q]
             /\ frames[k].op <= frames[m - 1].op
  <2>1. k \in 1..m /\ k + 1 \in 1..m /\ k < k + 1
    BY <1>1
  <2>2. PICK p : p = frames[k + 1].cp - 1
    OBVIOUS
  <2>3. /\ p \in 1..(at - 1) /\ frames[k].op = ops[p]
        /\ \A h \in (p + 1)..(at - 1) : ops[h] > ops[p]
    <3>1. Waits(frames[k], p, at)
      BY <1>2, <2>2
    <3>2. p \in frames[k].cp..(at - 1) /\ frames[k].cp \in 1..N
      BY <1>1, <2>1, <3>1 DEF Waits
    <3> QED
      BY <1>1, <3>1, <3>2 DEF Waits
  <2>4. frames[k + 1].cp <= Top.cp
    BY <1>1, <2>1
  <2>5. p < q
    BY <1>1, <1>3, <2>1, <2>2, <2>4
  <2>6. frames[k].op < ops[q]
    BY <1>1, <1>3, <2>3, <2>5
  <2>7. frames[k].op <= frames[m - 1].op
    <3>1. CASE k = m - 1
      BY <1>1, <2>1, <3>1
    <3>2. CASE k # m - 1
      <4>1. m - 1 \in 1..(m - 1) /\ m - 1 \in 1..m /\ k < m - 1 /\ k + 1 < m
        <5>1. m \in Nat /\ k \in 1..(m - 1) /\ k # m - 1
          BY <1>1, <3>2
        <5> QED
          BY ONLY <5>1
      <4>2. PICK r : r = frames[m].cp - 1
        OBVIOUS
      <4>3. r \in 1..(at - 1) /\ frames[m - 1].op = ops[r]
        <5>1. Waits(frames[m - 1], frames[(m - 1) + 1].cp - 1, at)
          BY <1>2, <4>1
        <5>2. (m - 1) + 1 = m
          BY <1>1
        <5> QED
          BY <1>1, <4>1, <4>2, <5>1, <5>2 DEF Waits
      <4>4. p < r
        <5>1. m \in 1..m
          BY <1>1
        <5>2. frames[k + 1].cp < frames[m].cp
          BY <1>1, <2>1, <4>1, <5>1
        <5> QED
          BY <1>1, <2>1, <2>2, <4>2, <5>1, <5>2
      <4> QED
        BY <1>1, <2>3, <4>3, <4>4
    <3> QED
      BY <3>1, <3>2
  <2> QED
    BY <2>2, <2>3, <2>5, <2>6, <2>7
<1>5. m = 1 => Top.cp = 1 /\ Top.opterm = None
  BY <1>1, <1>2
<1>6. ASSUME m > 1
      PROVE  /\ Top.opterm = frames[m - 1].op
             /\ Top.opterm < ops[q] /\ Top.cp > 1 /\ Top.opterm = ops[Top.cp - 1]
  <2>1. m - 1 \in 1..(m - 1) /\ (m - 1) + 1 = m
    BY <1>1, <1>6
  <2>2. frames[(m - 1) + 1].opterm = frames[m - 1].op
    BY <1>2, <2>1
  <2>3. /\ frames[m - 1].op = ops[frames[(m - 1) + 1].cp - 1]
        /\ frames[(m - 1) + 1].cp - 1 \in 1..(at - 1)
        /\ frames[m - 1].op < ops[q]
    BY <1>4, <2>1
  <2> QED
    BY <1>1, <2>1, <2>2, <2>3
<1>7. \A k \in 1..(m - 1) : frames[k].op <= Top.opterm
  BY <1>1, <1>4, <1>6
<1> QED
  BY <1>3, <1>4, <1>5, <1>6, <1>7 DEF m

(* The next operator is late for none of those before it, unless it is for *)
(* the caller's.                                                           *)
LEMMA NotLate ==
  ASSUME IInv, frames # << >>, NEW q, Ladder(frames, q, at), at < N,
         \A h \in (q + 1)..(at - 2) : ops[h] >= ops[at - 1],
         \A k \in 1..(Len(frames) - 1) : frames[k].op < ops[at],
         NEW i \in 1..(N - 1)
  PROVE  ~RelapseOf(i, at)
<1> SUFFICES ASSUME RelapseOf(i, at) PROVE FALSE
  OBVIOUS
<1>1. /\ N \in Nat /\ at \in 1..N
      /\ \A h \in 1..(N - 1) : ops[h] \in Nat
      /\ Len(frames) \in Nat /\ Len(frames) > 0 /\ Top = frames[Len(frames)]
      /\ \A k \in 1..Len(frames) : frames[k].cp \in 1..N
  BY Shape
<1>2. /\ q \in 1..(at - 1)
      /\ \A k \in 1..(Len(frames) - 1) :
           /\ frames[k].op = ops[frames[k + 1].cp - 1]
           /\ frames[k + 1].cp - 1 \in 1..(at - 1)
  BY Callers
<1>3. /\ \A k \in 1..(Len(frames) - 1) : Waits(frames[k], frames[k + 1].cp - 1, at)
      /\ Waits(Top, q, at)
  BY <1>1 DEF Ladder
<1>4. /\ i \in 1..(at - 1)
      /\ ops[at] <= ops[i]
      /\ \A j \in (i + 1)..(at - 1) : ops[j] > ops[i]
      /\ \E j \in (i + 1)..(at - 2) : ops[j] < ops[at - 1]
  BY <1>1 DEF RelapseOf
<1>5. CASE i >= q
  <2>1. PICK j \in (i + 1)..(at - 2) : ops[j] < ops[at - 1]
    BY <1>4
  <2>2. j \in (q + 1)..(at - 2) /\ j \in 1..(N - 1) /\ at - 1 \in 1..(N - 1)
    BY <1>1, <1>2, <1>4, <1>5, <2>1
  <2> QED
    BY <1>1, <2>1, <2>2
<1>6. CASE i < q
  <2>1. q \in Nat /\ i \in 1..q
    BY <1>2, <1>4, <1>6
  <2>2. PICK k \in 1..Len(frames) :
          /\ frames[k].cp <= i
          /\ k = Len(frames) \/ (k < Len(frames) /\ i < frames[k + 1].cp)
    BY <2>1, Covering
  <2>3. ASSUME NEW p \in 1..(at - 1), Waits(frames[k], p, at), i < p
        PROVE  FALSE
    <3>1. i \in frames[k].cp..(p - 1) /\ p \in (i + 1)..(at - 1)
      BY <1>1, <1>4, <2>2, <2>3
    <3>2. ops[i] >= ops[p]
      BY <2>3, <3>1 DEF Waits
    <3>3. ops[p] > ops[i] /\ ops[p] \in Nat /\ ops[i] \in Nat
      <4>1. p \in 1..(N - 1) /\ i \in 1..(N - 1)
        BY <1>1
      <4> QED
        BY <1>1, <1>4, <3>1, <4>1
    <3> QED
      BY <3>2, <3>3
  <2>4. CASE k = Len(frames)
    BY <1>1, <1>2, <1>3, <1>6, <2>3, <2>4
  <2>5. CASE k # Len(frames)
    <3>1. k \in 1..(Len(frames) - 1) /\ i < frames[k + 1].cp
      BY <1>1, <2>2, <2>5
    <3>2. PICK p : p = frames[k + 1].cp - 1
      OBVIOUS
    <3>3. p \in 1..(at - 1) /\ frames[k].op = ops[p] /\ Waits(frames[k], p, at)
      BY <1>2, <1>3, <3>1, <3>2
    <3>4. k + 1 \in 1..Len(frames) /\ frames[k + 1].cp \in 1..N
      BY <1>1, <3>1
    <3>5. CASE i < p
      BY <2>3, <3>3, <3>5
    <3>6. CASE i = p
      <4>1. frames[k].op < ops[at]
        BY <3>1
      <4>2. ops[at] \in Nat /\ ops[i] \in Nat
        BY <1>1, <1>4
      <4> QED
        BY <1>4, <3>3, <3>6, <4>1, <4>2
    <3> QED
      BY <1>4, <3>1, <3>2, <3>4, <3>5, <3>6
  <2> QED
    BY <2>4, <2>5
<1> QED
  BY <1>1, <1>2, <1>4, <1>5, <1>6

(* A call that closes its node gives it to the operator it waits with.     *)
LEMMA Fits ==
  ASSUME IInv, frames # << >>, NEW q, Ladder(frames, q, at), at = N \/ ops[at] <= ops[q]
  PROVE  Top.cp <= q /\ q < at /\ IsNodeOf(q, Top.cp, at)
<1>1. /\ q \in 1..(at - 1) /\ Top.cp <= q /\ Top.cp \in 1..N
      /\ Len(frames) = 1 => Top.cp = 1
      /\ Len(frames) > 1 => Top.opterm < ops[q] /\ Top.opterm = ops[Top.cp - 1]
  BY Callers
<1>2. /\ N \in Nat /\ at \in 1..N /\ Len(frames) \in Nat /\ Len(frames) > 0
      /\ Top = frames[Len(frames)]
      /\ \A h \in 1..(N - 1) : ops[h] \in Nat
  BY Shape
<1>3. /\ \A h \in Top.cp..(q - 1) : ops[h] >= ops[q]
      /\ \A h \in (q + 1)..(at - 1) : ops[h] > ops[q]
  BY <1>2 DEF Ladder, Waits
<1>4. Top.cp = 1 \/ ops[Top.cp - 1] < ops[q]
  <2>1. Len(frames) = 1 \/ Len(frames) > 1
    <3>1. \A m \in Nat : m > 0 => m = 1 \/ m > 1
      OBVIOUS
    <3> QED
      BY <1>2, <3>1
  <2> QED
    BY <1>1, <2>1
<1> QED
  BY <1>1, <1>2, <1>3, <1>4 DEF IsNodeOf

(* A call waits on when a tighter operator is read.                        *)
LEMMA WaitsOn ==
  ASSUME N \in Nat, \A h \in 1..(N - 1) : ops[h] \in Nat,
         NEW f, f.cp \in 1..N, NEW n \in 1..(N - 1), NEW p \in 1..(n - 1),
         Waits(f, p, n), ops[p] < ops[n]
  PROVE  Waits(f, p, n + 1)
<1>1. /\ p \in f.cp..(n - 1) /\ f.op = ops[p]
      /\ \A h \in f.cp..(p - 1) : ops[h] >= ops[p]
      /\ \A h \in (p + 1)..(n - 1) : ops[h] > ops[p]
  BY DEF Waits
<1>2. p \in f.cp..((n + 1) - 1)
  BY <1>1
<1>3. ASSUME NEW h \in (p + 1)..((n + 1) - 1) PROVE ops[h] > ops[p]
  <2>1. h \in (p + 1)..(n - 1) \/ h = n
    OBVIOUS
  <2>2. ops[n] \in Nat /\ ops[p] \in Nat
    OBVIOUS
  <2> QED
    BY <1>1, <2>1, <2>2
<1> QED
  BY <1>1, <1>2, <1>3 DEF Waits

(* The innermost call takes the next operator.                             *)
LEMMA LadderTakes ==
  ASSUME IInv, frames # << >>, NEW q, Ladder(frames, q, at), at < N, ops[at] <= ops[q],
         Top.opterm = None \/ Top.opterm < ops[at],
         NEW calls, calls = Append(Front(frames), Frame(Top.cp, ops[at], Top.opterm))
  PROVE  Ladder(calls, at, at + 1)
<1> PICK m, e : m = Len(frames) /\ e = Frame(Top.cp, ops[at], Top.opterm)
  OBVIOUS
<1>1. /\ N \in Nat /\ at \in 1..(N - 1)
      /\ \A h \in 1..(N - 1) : ops[h] \in Nat
      /\ m \in Nat /\ m > 0 /\ Top = frames[m]
      /\ \A k \in 1..m : frames[k].cp \in 1..N /\ frames[k].op \in Nat
  BY Shape
<1>2. /\ Len(calls) = m
      /\ \A k \in 1..(m - 1) : calls[k] = frames[k]
      /\ calls[m] = e
  <2>1. /\ Front(frames) \in Seq(FrameSet) /\ Len(Front(frames)) = m - 1
        /\ \A k \in 1..(m - 1) : Front(frames)[k] = frames[k]
    BY TopFrame DEF IInv
  <2>2. PICK s : s = Front(frames)
    OBVIOUS
  <2>3. e \in FrameSet
    <3>1. Top \in FrameSet
      BY TopFrame DEF IInv
    <3>2. ops[at] \in Nat
      BY <1>1
    <3> QED
      BY <3>1, <3>2 DEF FrameSet, Frame
  <2>4. calls = Append(s, e)
    BY <2>2
  <2>5. s \in Seq(FrameSet) /\ Len(s) = m - 1 /\ \A k \in 1..(m - 1) : s[k] = frames[k]
    BY <2>1, <2>2
  <2>6. /\ Len(calls) = Len(s) + 1
        /\ calls[Len(s) + 1] = e
        /\ \A k \in 1..Len(s) : calls[k] = s[k]
    BY <2>3, <2>4, <2>5, Appended
  <2>7. Len(s) + 1 = m
    BY <1>1, <2>5
  <2> QED
    BY <2>5, <2>6, <2>7
<1>3. /\ e.cp = Top.cp /\ e.op = ops[at] /\ e.opterm = Top.opterm
  BY DEF Frame
<1>4. /\ q \in 1..(at - 1) /\ Top.cp <= q /\ Top.op = ops[q] /\ Top.cp \in 1..N
      /\ m = 1 => Top.opterm = None
      /\ m > 1 => Top.opterm = frames[m - 1].op
      /\ \A k \in 1..(m - 1) :
           /\ frames[k].op <= Top.opterm
           /\ frames[k].op = ops[frames[k + 1].cp - 1]
           /\ frames[k + 1].cp - 1 \in 1..(at - 1)
  BY Callers
<1>5. ASSUME NEW k \in 1..(m - 1)
      PROVE  /\ calls[k + 1].opterm = calls[k].op
             /\ Waits(calls[k], calls[k + 1].cp - 1, at + 1)
  <2>1. /\ k \in 1..m /\ k + 1 \in 1..m /\ m > 1 /\ calls[k] = frames[k]
        /\ calls[k + 1].cp = frames[k + 1].cp
        /\ calls[k + 1].opterm = frames[k + 1].opterm
    <3>1. k + 1 \in 1..(m - 1) \/ k + 1 = m
      BY <1>1
    <3>2. k \in 1..m /\ k + 1 \in 1..m /\ m > 1
      BY <1>1
    <3> QED
      BY <1>1, <1>2, <1>3, <3>1, <3>2
  <2>2. frames[k + 1].opterm = frames[k].op /\ Waits(frames[k], frames[k + 1].cp - 1, at)
    BY DEF Ladder
  <2>3. PICK p, f : p = frames[k + 1].cp - 1 /\ f = frames[k]
    OBVIOUS
  <2>4. ops[p] < ops[at]
    <3>1. Top.opterm = frames[m - 1].op /\ m - 1 \in 1..m
      BY <1>1, <1>4, <2>1
    <3>2. Top.opterm \in Nat /\ Top.opterm # None
      BY <1>1, <3>1 DEF None
    <3>3. frames[k].op \in Nat /\ ops[at] \in Nat /\ Top.opterm < ops[at]
      BY <1>1, <2>1, <3>2
    <3>4. frames[k].op <= Top.opterm /\ frames[k].op = ops[p]
      BY <1>4, <2>3
    <3> QED
      BY <3>2, <3>3, <3>4
  <2>5. Waits(f, p, at + 1)
    <3>1. f.cp \in 1..N /\ p \in 1..(at - 1) /\ Waits(f, p, at)
      BY <1>1, <1>4, <2>1, <2>2, <2>3
    <3> QED
      BY <1>1, <2>4, <3>1, WaitsOn
  <2> QED
    BY <2>1, <2>2, <2>3, <2>5
<1>6. calls[1].opterm = None
  <2>1. CASE m = 1
    BY <1>2, <1>3, <1>4, <2>1
  <2>2. CASE m # 1
    <3>1. 1 \in 1..(m - 1)
      BY <1>1, <2>2
    <3> QED
      BY <1>2, <3>1 DEF Ladder
  <2> QED
    BY <2>1, <2>2
<1>7. Waits(e, at, at + 1)
  <2>1. /\ \A h \in Top.cp..(q - 1) : ops[h] >= ops[q]
        /\ \A h \in (q + 1)..(at - 1) : ops[h] > ops[q]
    BY <1>1 DEF Ladder, Waits
  <2>2. \A h \in Top.cp..(at - 1) : ops[h] >= ops[at]
    <3> SUFFICES ASSUME NEW h \in Top.cp..(at - 1) PROVE ops[h] >= ops[at]
      OBVIOUS
    <3>1. h \in Top.cp..(q - 1) \/ h = q \/ h \in (q + 1)..(at - 1)
      BY <1>1, <1>4
    <3>2. h \in 1..(N - 1) /\ q \in 1..(N - 1)
      BY <1>1, <1>4
    <3>3. ops[h] \in Nat /\ ops[q] \in Nat /\ ops[at] \in Nat
      BY <1>1, <3>2
    <3> QED
      BY <2>1, <3>1, <3>3
  <2>3. at \in Top.cp..((at + 1) - 1) /\ (at + 1) - 1 = at
    BY <1>1, <1>4
  <2>4. \A h \in (at + 1)..at : ops[h] > ops[at]
    BY <1>1
  <2> QED
    BY <1>3, <2>2, <2>3, <2>4 DEF Waits
<1> QED
  BY <1>2, <1>5, <1>6, <1>7 DEF Ladder

(* A call begins behind a tighter operator.                                *)
LEMMA LadderDescends ==
  ASSUME IInv, frames # << >>, Ladder(frames, at - 1, at), at < N, Top.op < ops[at],
         NEW calls, calls = Append(frames, Frame(at, ops[at], Top.op))
  PROVE  Ladder(calls, at, at + 1)
<1> PICK m, e : m = Len(frames) /\ e = Frame(at, ops[at], Top.op)
  OBVIOUS
<1>1. /\ N \in Nat /\ at \in 1..(N - 1)
      /\ \A h \in 1..(N - 1) : ops[h] \in Nat
      /\ m \in Nat /\ m > 0 /\ Top = frames[m]
      /\ \A k \in 1..m : frames[k].cp \in 1..N /\ frames[k].op \in Nat
  BY Shape
<1>2. /\ Len(calls) = m + 1
      /\ \A k \in 1..m : calls[k] = frames[k]
      /\ calls[m + 1] = e
  <2>1. frames \in Seq(FrameSet) /\ Top \in FrameSet
    BY TopFrame DEF IInv, TypeOK, FrameSet
  <2>2. at \in 1..N /\ ops[at] \in Nat
    BY <1>1
  <2>3. e \in FrameSet
    BY <2>1, <2>2 DEF FrameSet, Frame
  <2> QED
    BY <2>1, <2>3, Appended
<1>3. /\ e.cp = at /\ e.op = ops[at] /\ e.opterm = Top.op
  BY DEF Frame
<1>4. /\ at - 1 \in 1..(at - 1) /\ Top.op = ops[at - 1] /\ Top.cp \in 1..N
      /\ \A k \in 1..(m - 1) :
           /\ frames[k].op < ops[at - 1]
           /\ frames[k].op = ops[frames[k + 1].cp - 1]
           /\ frames[k + 1].cp - 1 \in 1..(at - 1)
  BY Callers
<1>5. ops[at - 1] \in Nat /\ ops[at] \in Nat /\ ops[at - 1] < ops[at]
  <2>1. at - 1 \in 1..(N - 1)
    BY <1>1, <1>4
  <2> QED
    BY <1>1, <1>4, <2>1
<1>6. ASSUME NEW k \in 1..((m + 1) - 1)
      PROVE  /\ calls[k + 1].opterm = calls[k].op
             /\ Waits(calls[k], calls[k + 1].cp - 1, at + 1)
  <2>1. k \in 1..m /\ calls[k] = frames[k]
    BY <1>1, <1>2
  <2>2. CASE k = m
    <3>1. Waits(Top, at - 1, at)
      BY <1>1 DEF Ladder
    <3>2. Waits(Top, at - 1, at + 1)
      BY <1>1, <1>4, <1>5, <3>1, WaitsOn
    <3> QED
      BY <1>1, <1>2, <1>3, <2>1, <2>2, <3>2
  <2>3. CASE k # m
    <3>1. k \in 1..(m - 1) /\ k + 1 \in 1..m /\ calls[k + 1] = frames[k + 1]
      BY <1>1, <1>2, <2>1, <2>3
    <3>2. frames[k + 1].opterm = frames[k].op /\ Waits(frames[k], frames[k + 1].cp - 1, at)
      BY <3>1 DEF Ladder
    <3>3. PICK p, f : p = frames[k + 1].cp - 1 /\ f = frames[k]
      OBVIOUS
    <3>4. /\ p \in 1..(at - 1) /\ f.cp \in 1..N /\ Waits(f, p, at)
          /\ frames[k].op \in Nat /\ frames[k].op < ops[at - 1] /\ frames[k].op = ops[p]
      BY <1>1, <1>4, <2>1, <3>1, <3>2, <3>3
    <3>5. ops[p] < ops[at]
      BY <1>5, <3>4
    <3>6. Waits(f, p, at + 1)
      BY <1>1, <3>4, <3>5, WaitsOn
    <3> QED
      BY <2>1, <3>1, <3>2, <3>3, <3>6
  <2> QED
    BY <2>2, <2>3
<1>7. calls[1].opterm = None
  <2>1. 1 \in 1..m
    BY <1>1
  <2> QED
    BY <1>2, <2>1 DEF Ladder
<1>8. Waits(e, at, at + 1)
  <2>1. /\ at \in at..((at + 1) - 1)
        /\ \A h \in at..(at - 1) : ops[h] >= ops[at]
        /\ \A h \in (at + 1)..((at + 1) - 1) : ops[h] > ops[at]
    BY <1>1
  <2> QED
    BY <1>3, <2>1 DEF Waits
<1> QED
  BY <1>2, <1>6, <1>7, <1>8 DEF Ladder

(* A call returns: its caller waits with the operator before it.           *)
LEMMA LadderPops ==
  ASSUME IInv, frames # << >>, NEW q, Ladder(frames, q, at), Len(frames) > 1
  PROVE  Ladder(Front(frames), Top.cp - 1, at)
<1> PICK m : m = Len(frames)
  OBVIOUS
<1>1. m \in Nat /\ m > 1 /\ Top = frames[m]
  BY Shape
<1>2. /\ Len(Front(frames)) = m - 1
      /\ \A k \in 1..(m - 1) : Front(frames)[k] = frames[k]
  BY TopFrame DEF IInv
<1>3. PICK calls : calls = Front(frames)
  OBVIOUS
<1>4. /\ frames[1].opterm = None
      /\ \A k \in 1..(m - 1) :
           /\ frames[k + 1].opterm = frames[k].op
           /\ Waits(frames[k], frames[k + 1].cp - 1, at)
  BY DEF Ladder
<1>5. Waits(calls[m - 1], Top.cp - 1, at) /\ calls[1].opterm = None
  <2>1. m - 1 \in 1..(m - 1) /\ 1 \in 1..(m - 1) /\ (m - 1) + 1 = m
    BY <1>1
  <2>2. Waits(frames[m - 1], frames[(m - 1) + 1].cp - 1, at)
    BY <1>4, <2>1
  <2> QED
    BY <1>1, <1>2, <1>3, <1>4, <2>1, <2>2
<1>6. ASSUME NEW k \in 1..((m - 1) - 1)
      PROVE  /\ calls[k + 1].opterm = calls[k].op
             /\ Waits(calls[k], calls[k + 1].cp - 1, at)
  <2>1. k \in 1..(m - 1) /\ k + 1 \in 1..(m - 1)
    BY <1>1
  <2>2. calls[k] = frames[k] /\ calls[k + 1] = frames[k + 1]
    BY <1>2, <1>3, <2>1
  <2> QED
    BY <1>4, <2>1, <2>2
<1> QED
  BY <1>2, <1>3, <1>5, <1>6 DEF Ladder

(* In the next state the same is said of the same calls and nodes.         *)
LEMMA Moved ==
  ASSUME text' = text, NEW c, c = frames', NEW n, n = at', NEW p, p = pc', NEW S, S = Spans'
  PROVE  /\ ClimbingAt(c, n, p, S) => Climbing'
         /\ LapsedAt(n, S) => Lapsed'
<1>1. ops' = ops /\ N' = N
  BY DEF ops, N
<1>2. \A i, k : RelapseOf(i, k)' <=> RelapseOf(i, k)
  BY <1>1 DEF RelapseOf
<1>3. \A f, q, m : Waits(f, q, m)' <=> Waits(f, q, m)
  BY <1>1 DEF Waits
<1>4. \A d, q, m : Ladder(d, q, m)' <=> Ladder(d, q, m)
  BY <1>3 DEF Ladder
<1>5. \A h, a, b : IsNodeOf(h, a, b)' <=> IsNodeOf(h, a, b)
  BY <1>1 DEF IsNodeOf
<1>6. \A R, h : Placed(R, h)' <=> Placed(R, h)
  BY <1>5 DEF Placed
<1>7. \A R, d, q, m : Built(R, d, q, m)' <=> Built(R, d, q, m)
  BY <1>6 DEF Built
<1>8. \A q, m : Handed(q, m)' <=> Handed(q, m)
  BY <1>1 DEF Handed
<1>9. \A m : Unlapsed(m)' <=> Unlapsed(m)
  BY <1>1, <1>2 DEF Unlapsed
<1>10. ClimbingAt(c, n, p, S)' <=> ClimbingAt(c, n, p, S)
  BY <1>1, <1>4, <1>6, <1>7, <1>8, <1>9 DEF ClimbingAt
<1>11. LapsedAt(n, S)' <=> LapsedAt(n, S)
  BY <1>1, <1>2 DEF LapsedAt
<1>12. ClimbingAt(c, n, p, S)' => Climbing'
  BY DEF Climbing, ClimbingAt, Ladder, Built
<1>13. LapsedAt(n, S)' => Lapsed'
  BY DEF Lapsed, LapsedAt
<1> QED
  BY <1>10, <1>11, <1>12, <1>13

(* A node begins and ends at operands.                                     *)
LEMMA NodeBounds ==
  ASSUME IInv, NEW k \in Binaries
  PROVE  nodes[k].from \in 1..N /\ nodes[k].to \in 1..N
<1>1. nodes \in Seq(NodeSet) /\ k \in 1..Len(nodes)
  BY DEF IInv, TypeOK, NodeSet, Binaries
<1>2. nodes[k] \in NodeSet
  BY <1>1
<1> QED
  BY <1>2 DEF NodeSet

(* A wrap adds the span from the innermost call to the operand read last.  *)
LEMMA SpansGrow ==
  ASSUME IInv, frames # << >>, nodes' = Binary
  PROVE  Spans' = Spans \cup {<<Top.cp, at>>}
<1>1. PICK a, b, m : a = Top.cp /\ b = at /\ m = Len(nodes) + 1
  OBVIOUS
<1>2. TypeOK /\ a \in 1..N /\ b \in 1..N
  BY <1>1, TopFrame DEF IInv, TypeOK, FrameSet
<1>3. nodes' = Append(nodes, Node("binary", a, b))
  BY <1>1 DEF Binary
<1>4. /\ Len(nodes) \in Nat
      /\ \A k \in 1..Len(nodes) : nodes'[k] = nodes[k]
      /\ nodes'[m] = Node("binary", a, b)
      /\ Binaries' = Binaries \cup {m}
  BY <1>1, <1>2, <1>3, Wrapped
<1>5. nodes'[m].from = a /\ nodes'[m].to = b
  BY <1>4 DEF Node
<1>6. \A k \in Binaries : nodes'[k] = nodes[k]
  BY <1>4 DEF Binaries
<1>7. Spans' = {<<nodes'[k].from, nodes'[k].to>> : k \in Binaries'}
  BY DEF Spans
<1>8. Spans = {<<nodes[k].from, nodes[k].to>> : k \in Binaries}
  BY DEF Spans
<1> QED
  BY <1>1, <1>4, <1>5, <1>6, <1>7, <1>8

(* What has lapsed stays so.                                               *)
LEMMA LapsedStays ==
  ASSUME IInv, Lapsed, NEW n \in Int, n >= at, NEW S,
         \A s \in S : s \in Spans \/ s[2] = at
  PROVE  LapsedAt(n, S)
<1>1. PICK i, k \in 1..(N - 1) :
        RelapseOf(i, k) /\ k < at /\ \A s \in Spans : s[1] <= i => s[2] # k
  BY DEF Lapsed, LapsedAt
<1>2. N \in Nat /\ at \in 1..N
  BY Shape
<1>3. k < n /\ k # at
  BY <1>1, <1>2
<1>4. \A s \in S : s[1] <= i => s[2] # k
  BY <1>1, <1>3
<1> QED
  BY <1>1, <1>3, <1>4 DEF LapsedAt

(* The operator that a call waits with is placed by its wrap.              *)
LEMMA PlacedByWrap ==
  ASSUME IInv, frames # << >>, NEW q, Ladder(frames, q, at), at = N \/ ops[at] <= ops[q],
         Built(Spans, frames, q, at),
         NEW S, S = Spans \cup {<<Top.cp, at>>}, NEW h \in 1..(at - 1)
  PROVE  (\E k \in 1..Len(frames) : h = frames[k].cp - 1) \/ Placed(S, h)
<1>1. Top.cp <= q /\ q < at /\ IsNodeOf(q, Top.cp, at)
  BY Fits
<1>2. h = q \/ (\E k \in 1..Len(frames) : h = frames[k].cp - 1) \/ Placed(Spans, h)
  BY DEF Built
<1>3. Placed(S, q)
  <2>1. <<Top.cp, at>> \in S
    OBVIOUS
  <2>2. <<Top.cp, at>>[1] = Top.cp /\ <<Top.cp, at>>[2] = at
    OBVIOUS
  <2> QED
    BY <1>1, <2>1, <2>2 DEF Placed
<1>4. Placed(Spans, h) => Placed(S, h)
  BY DEF Placed
<1> QED
  BY <1>2, <1>3, <1>4

(* A call wraps and returns.                                               *)
LEMMA WrapsAndReturns ==
  ASSUME IInv, frames # << >>, NEW q, Ladder(frames, q, at), at = N \/ ops[at] <= ops[q],
         Built(Spans, frames, q, at),
         NEW S, S = Spans \cup {<<Top.cp, at>>}, NEW calls, calls = Front(frames)
  PROVE  /\ Top.cp - 1 \in 0..(at - 1)
         /\ Built(S, calls, Top.cp - 1, at)
         /\ calls = << >> => Len(frames) = 1 /\ Top.cp - 1 = 0
         /\ calls # << >> => Len(frames) > 1 /\ Ladder(calls, Top.cp - 1, at)
<1> PICK m, r : m = Len(frames) /\ r = Top.cp - 1
  OBVIOUS
<1>1. m \in Nat /\ m > 0 /\ Top = frames[m] /\ N \in Nat /\ at \in 1..N
  BY Shape
<1>2. /\ calls \in Seq(FrameSet)
      /\ Len(calls) = m - 1
      /\ \A k \in 1..(m - 1) : calls[k] = frames[k]
  BY TopFrame DEF IInv
<1>3. /\ Top.cp \in 1..N /\ Top.cp <= q /\ q \in 1..(at - 1)
      /\ m = 1 => Top.cp = 1
  BY Callers
<1>4. r \in 0..(at - 1)
  BY <1>1, <1>3
<1>5. ASSUME NEW h \in 1..(at - 1)
      PROVE  h = r \/ (\E k \in 1..Len(calls) : h = calls[k].cp - 1) \/ Placed(S, h)
  <2>1. (\E k \in 1..m : h = frames[k].cp - 1) \/ Placed(S, h)
    BY PlacedByWrap
  <2>2. CASE \E k \in 1..m : h = frames[k].cp - 1
    <3>1. PICK k \in 1..m : h = frames[k].cp - 1
      BY <2>2
    <3>2. k = m \/ k \in 1..(m - 1)
      BY <1>1
    <3>3. CASE k = m
      BY <1>1, <3>1, <3>3
    <3>4. CASE k \in 1..(m - 1)
      BY <1>2, <3>1, <3>4
    <3> QED
      BY <3>2, <3>3, <3>4
  <2> QED
    BY <2>1, <2>2
<1>6. calls = << >> => m = 1
  <2>1. calls = << >> => Len(calls) = 0
    OBVIOUS
  <2>2. m \in Int /\ Len(calls) = m - 1
    BY <1>1, <1>2
  <2>3. Len(calls) = 0 => m = 1
    BY ONLY <2>2
  <2> QED
    BY <2>1, <2>3
<1>7. calls # << >> => m > 1
  <2>1. calls # << >> => Len(calls) > 0
    BY <1>2
  <2> QED
    BY <1>1, <1>2, <2>1
<1>8. m > 1 => Ladder(calls, r, at)
  BY LadderPops
<1>9. Built(S, calls, r, at)
  BY <1>5 DEF Built
<1>10. m = 1 => r = 0
  BY <1>3
<1> QED
  BY <1>4, <1>6, <1>7, <1>8, <1>9, <1>10

(* A call wraps and takes the next operator.                               *)
LEMMA WrapsAndGoesOn ==
  ASSUME IInv, frames # << >>, NEW q, Ladder(frames, q, at), at < N, ops[at] <= ops[q],
         Built(Spans, frames, q, at),
         NEW S, S = Spans \cup {<<Top.cp, at>>},
         NEW calls, calls = Append(Front(frames), Frame(Top.cp, ops[at], Top.opterm))
  PROVE  Built(S, calls, at, at + 1)
<1> PICK m, e : m = Len(frames) /\ e = Frame(Top.cp, ops[at], Top.opterm)
  OBVIOUS
<1>1. /\ m \in Nat /\ m > 0 /\ Top = frames[m] /\ N \in Nat /\ at \in 1..(N - 1)
      /\ ops[at] \in Nat
  BY Shape
<1>2. /\ Front(frames) \in Seq(FrameSet) /\ Len(Front(frames)) = m - 1
      /\ \A k \in 1..(m - 1) : Front(frames)[k] = frames[k]
      /\ Top \in FrameSet
  BY TopFrame DEF IInv
<1>3. PICK s : s = Front(frames)
  OBVIOUS
<1>4. e \in FrameSet /\ e.cp = Top.cp
  BY <1>1, <1>2 DEF FrameSet, Frame
<1>5. /\ Len(calls) = m
      /\ \A k \in 1..m : calls[k].cp = frames[k].cp
  <2>1. calls = Append(s, e)
    BY <1>3
  <2>2. s \in Seq(FrameSet) /\ Len(s) = m - 1 /\ \A k \in 1..(m - 1) : s[k] = frames[k]
    BY <1>2, <1>3
  <2>3. /\ Len(calls) = Len(s) + 1
        /\ calls[Len(s) + 1] = e
        /\ \A k \in 1..Len(s) : calls[k] = s[k]
    BY <1>4, <2>1, <2>2, Appended
  <2>4. Len(s) + 1 = m /\ \A k \in 1..m : k = m \/ k \in 1..(m - 1)
    BY <1>1, <2>2
  <2> QED
    BY <1>1, <1>4, <2>2, <2>3, <2>4
<1>6. ASSUME NEW h \in 1..((at + 1) - 1)
      PROVE  h = at \/ (\E k \in 1..Len(calls) : h = calls[k].cp - 1) \/ Placed(S, h)
  <2>1. h = at \/ h \in 1..(at - 1)
    BY <1>1
  <2>2. ASSUME h \in 1..(at - 1)
        PROVE  (\E k \in 1..m : h = frames[k].cp - 1) \/ Placed(S, h)
    BY <2>2, PlacedByWrap
  <2> QED
    BY <1>5, <2>1, <2>2
<1> QED
  BY <1>6 DEF Built

(* One more operator that is late for none.                                *)
LEMMA UnlapsedGrows ==
  ASSUME IInv, Unlapsed(at), at < N, \A i \in 1..(N - 1) : ~RelapseOf(i, at)
  PROVE  Unlapsed(at + 1)
<1>1. N \in Nat /\ at \in 1..N
  BY Shape
<1>2. \A k \in 1..(N - 1) : k < at + 1 => k < at \/ k = at
  BY <1>1
<1> QED
  BY <1>2 DEF Unlapsed

-----------------------------------------------------------------------------
(* Every step moves forward, and a wrap ends at the operand read last.     *)
LEMMA SpansMove ==
  ASSUME IInv, Next
  PROVE  /\ text' = text /\ at' \in Int /\ at' >= at
         /\ \A s \in Spans' : s \in Spans \/ s[2] = at
<1>1. TypeOK /\ TwoOperands /\ N \in Nat /\ at \in 1..N
  BY Shape DEF IInv
<1>2. text' = text /\ at' \in Int /\ at' >= at
  <2>1. pc = "expression" => at = 1
    BY DEF IInv, Started
  <2> QED
    BY <1>1, <2>1
       DEF Next, Step, Finished, vars, FirstOperandFails, LoneOperand, StartBinop, Operand,
           OperandFails, NoMoreOperators, Panic, ReduceAndReturn, ReduceAndGoOn, TakeOperator,
           Descend, Rejoin, RejoinAtEnd, ReturnOk, Unwind, ReturnError
<1>3. CASE nodes' = nodes
  BY <1>2, <1>3 DEF Spans, Binaries
<1>4. CASE frames # << >> /\ nodes' = Binary
  <2>1. Spans' = Spans \cup {<<Top.cp, at>>}
    BY <1>4, SpansGrow
  <2>2. <<Top.cp, at>>[2] = at
    OBVIOUS
  <2> QED
    BY <1>2, <2>1, <2>2
<1>5. ASSUME NEW a \in 1..N, NEW b \in 1..N, nodes' = Append(nodes, Node("incomplete", a, b))
      PROVE  Spans' = Spans
  <2>1. Binaries' = Binaries /\ \A k \in Binaries : nodes'[k] = nodes[k]
    BY <1>1, <1>5, IncompleteWrapped
  <2> QED
    BY <2>1 DEF Spans
<1>6. CASE OperandFails
  BY <1>1, <1>2, <1>5, <1>6 DEF OperandFails
<1>7. CASE Unwind
  <2>1. Top.cp \in 1..N
    BY <1>1, <1>7, TopFrame DEF Unwind, FrameSet
  <2> QED
    BY <1>1, <1>2, <1>5, <1>7, <2>1 DEF Unwind
<1>8. pc \in {"operand", "next"} => frames # << >>
  BY DEF IInv, Reading
<1>9. CASE NoMoreOperators \/ ReduceAndReturn \/ ReduceAndGoOn \/ Rejoin \/ RejoinAtEnd
  BY <1>4, <1>8, <1>9
     DEF NoMoreOperators, ReduceAndReturn, ReduceAndGoOn, Comparing, Rejoin, RejoinAtEnd
<1>10. CASE \/ FirstOperandFails \/ LoneOperand \/ StartBinop \/ Operand \/ Panic \/ Descend
            \/ ReturnOk \/ ReturnError \/ Finished
  BY <1>3, <1>10
     DEF FirstOperandFails, LoneOperand, StartBinop, Operand, Panic, Descend, ReturnOk,
         ReturnError, Finished, vars
<1> QED
  BY <1>6, <1>7, <1>9, <1>10 DEF Next, Step

LEMMA LapsedKept ==
  ASSUME IInv, Lapsed, Next
  PROVE  Lapsed'
<1>1. /\ text' = text /\ at' \in Int /\ at' >= at
      /\ \A s \in Spans' : s \in Spans \/ s[2] = at
  BY SpansMove
<1>2. PICK c, n, p, S : c = frames' /\ n = at' /\ p = pc' /\ S = Spans'
  OBVIOUS
<1>3. LapsedAt(n, S)
  BY <1>1, <1>2, LapsedStays
<1> QED
  BY <1>1, <1>2, <1>3, Moved

(* Steps that wrap nothing and call nothing.                               *)
LEMMA QuietClimbs ==
  ASSUME IInv, Climbing, UNCHANGED <<text, at, frames, nodes>>,
         \/ pc' = pc
         \/ pc' \in {"unwind", "error", "panicked"}
         \/ pc = "operand" /\ pc' = "next"
  PROVE  Climbing'
<1>1. PICK c, n, p, S : c = frames' /\ n = at' /\ p = pc' /\ S = Spans'
  OBVIOUS
<1>2. c = frames /\ n = at /\ S = Spans
  BY <1>1 DEF Spans, Binaries
<1>3. ClimbingAt(c, n, p, S)
  BY <1>1, <1>2 DEF Climbing, ClimbingAt
<1> QED
  BY <1>1, <1>3, Moved

(* An error is on its way: nothing more is asked of the grouping.          *)
LEMMA FailureClimbs ==
  ASSUME IInv, Climbing, text' = text, at' = at, pc' \in {"unwind", "error", "panicked"}
  PROVE  Climbing'
<1>1. PICK c, n, p, S : c = frames' /\ n = at' /\ p = pc' /\ S = Spans'
  OBVIOUS
<1>2. ClimbingAt(c, n, p, S)
  BY <1>1 DEF Climbing, ClimbingAt
<1> QED
  BY <1>1, <1>2, Moved

(* The first operator starts the outermost call.                           *)
LEMMA StartClimbs ==
  ASSUME IInv, StartBinop
  PROVE  Climbing'
<1>1. PICK c, n, p, S : c = frames' /\ n = at' /\ p = pc' /\ S = Spans'
  OBVIOUS
<1>2. PICK e : e = Frame(1, ops[1], None)
  OBVIOUS
<1>3. /\ text' = text /\ c = <<e>> /\ n = 2 /\ p = "operand" /\ N > 1
  BY <1>1, <1>2 DEF StartBinop
<1>4. e.cp = 1 /\ e.op = ops[1] /\ e.opterm = None
  BY <1>2 DEF Frame
<1>5. Waits(e, 1, 2)
  <2>1. 1 \in 1..(2 - 1) /\ (\A h \in 1..(1 - 1) : FALSE) /\ (\A h \in (1 + 1)..(2 - 1) : FALSE)
    OBVIOUS
  <2> QED
    BY <1>4, <2>1 DEF Waits
<1>6. Ladder(c, n - 1, n)
  <2>1. Len(c) = 1 /\ c[1] = e /\ n - 1 = 1 /\ n = 2
    BY <1>3
  <2>2. \A k \in 1..(1 - 1) : FALSE
    OBVIOUS
  <2> QED
    BY <1>4, <1>5, <2>1, <2>2 DEF Ladder
<1>7. Built(S, c, n - 1, n)
  <2>1. \A h \in 1..(n - 1) : h = n - 1
    BY <1>3
  <2> QED
    BY <2>1 DEF Built
<1>8. Unlapsed(n)
  <2>1. N \in Nat
    BY Shape
  <2>2. \A i, k \in 1..(N - 1) : k < n => ~(i < k)
    BY <1>3, <2>1
  <2> QED
    BY <2>2 DEF Unlapsed, RelapseOf
<1>9. ClimbingAt(c, n, p, S)
  BY <1>3, <1>6, <1>7, <1>8 DEF ClimbingAt
<1> QED
  BY <1>1, <1>3, <1>9, Moved

(* A lone operand has no operator.                                         *)
LEMMA LoneClimbs ==
  ASSUME IInv, LoneOperand
  PROVE  Climbing'
<1>1. PICK c, n, p, S : c = frames' /\ n = at' /\ p = pc' /\ S = Spans'
  OBVIOUS
<1>2. text' = text /\ n = 1 /\ p = "ok" /\ N = 1
  BY <1>1 DEF LoneOperand, IInv, Started
<1>3. ClimbingAt(c, n, p, S)
  <2>1. \A h \in 1..(N - 1) : FALSE
    BY <1>2
  <2> QED
    BY <1>2, <2>1 DEF ClimbingAt, Unlapsed
<1> QED
  BY <1>1, <1>2, <1>3, Moved

(* When the outermost call has returned, every operator has its node.      *)
LEMMA ReturnClimbs ==
  ASSUME IInv, Climbing, ReturnOk
  PROVE  Climbing'
<1>1. PICK c, n, p, S : c = frames' /\ n = at' /\ p = pc' /\ S = Spans'
  OBVIOUS
<1>2. /\ text' = text /\ c = << >> /\ n = at /\ p = "ok" /\ S = Spans
      /\ pc = "returned" /\ frames = << >>
  BY <1>1 DEF ReturnOk, Spans, Binaries
<1>3. Unlapsed(n) /\ n = N /\ Built(S, c, 0, n)
  BY <1>2 DEF Climbing, ClimbingAt
<1>4. \A h \in 1..(N - 1) : Placed(S, h)
  <2>1. \A h \in 1..(N - 1) : h # 0
    BY <1>2, Shape
  <2>2. \A k \in 1..Len(c) : FALSE
    <3>1. Len(c) = 0
      BY <1>2
    <3> QED
      BY <3>1
  <2> QED
    BY <1>3, <2>1, <2>2 DEF Built
<1>5. ClimbingAt(c, n, p, S)
  BY <1>2, <1>3, <1>4 DEF ClimbingAt
<1> QED
  BY <1>1, <1>2, <1>5, Moved

(* A call returns with the expression read, or with an operator for its    *)
(* caller.                                                                 *)
LEMMA LeaveClimbs ==
  ASSUME IInv, Unlapsed(at), frames # << >>, NEW q, Ladder(frames, q, at),
         Built(Spans, frames, q, at),
         \/ at = N
         \/ at < N /\ q = at - 1 /\ ops[at] <= ops[q] /\ Top.opterm # None /\ ops[at] <= Top.opterm,
         nodes' = Binary, frames' = Front(frames), UNCHANGED <<text, at>>, pc' = "returned"
  PROVE  Climbing'
<1>1. PICK c, n, p, S : c = frames' /\ n = at' /\ p = pc' /\ S = Spans'
  OBVIOUS
<1>2. /\ text' = text /\ c = Front(frames) /\ n = at /\ p = "returned"
      /\ S = Spans \cup {<<Top.cp, at>>}
  BY <1>1, SpansGrow
<1>3. /\ Top.cp - 1 \in 0..(at - 1)
      /\ Built(S, c, Top.cp - 1, at)
      /\ c = << >> => Len(frames) = 1 /\ Top.cp - 1 = 0
      /\ c # << >> => Len(frames) > 1 /\ Ladder(c, Top.cp - 1, at)
  BY <1>2, WrapsAndReturns
<1>4. /\ q \in 1..(at - 1) /\ Top.cp <= q /\ Top.cp \in 1..N
      /\ Len(frames) = 1 => Top.opterm = None
      /\ Len(frames) > 1 => Top.opterm = ops[Top.cp - 1]
  BY Callers
<1>5. /\ N \in Nat /\ at \in 1..N /\ Len(frames) \in Nat /\ Len(frames) > 0
      /\ Top = frames[Len(frames)]
  BY Shape
<1>6. c = << >> => at = N
  BY <1>3, <1>4, <1>5
<1>7. c # << >> => Handed(Top.cp - 1, at)
  <2> SUFFICES ASSUME c # << >>, at < N
               PROVE  /\ Top.cp - 1 < at - 1
                      /\ ops[at] <= ops[Top.cp - 1]
                      /\ \A h \in ((Top.cp - 1) + 1)..(at - 2) : ops[h] >= ops[at - 1]
    BY DEF Handed
  <2>1. Top.cp - 1 < at - 1
    BY <1>4, <1>5
  <2>2. ops[at] <= ops[Top.cp - 1]
    BY <1>3, <1>4, <1>5
  <2>3. \A h \in ((Top.cp - 1) + 1)..(at - 2) : ops[h] >= ops[at - 1]
    <3>1. Waits(Top, at - 1, at)
      BY <1>5 DEF Ladder
    <3>2. \A h \in Top.cp..((at - 1) - 1) : ops[h] >= ops[at - 1]
      BY <3>1 DEF Waits
    <3>3. (Top.cp - 1) + 1 = Top.cp /\ (at - 1) - 1 = at - 2
      BY <1>4, <1>5
    <3> QED
      BY <3>2, <3>3
  <2> QED
    BY <2>1, <2>2, <2>3
<1>8. ClimbingAt(c, n, p, S)
  BY <1>2, <1>3, <1>6, <1>7 DEF ClimbingAt
<1> QED
  BY <1>1, <1>2, <1>8, Moved

(* A call takes an operator that is not its caller's.                      *)
LEMMA GoOnClimbs ==
  ASSUME IInv, Unlapsed(at), frames # << >>, NEW q, Ladder(frames, q, at),
         Built(Spans, frames, q, at), at < N, ops[at] <= ops[q],
         Top.opterm = None \/ Top.opterm < ops[at],
         \A h \in (q + 1)..(at - 2) : ops[h] >= ops[at - 1],
         nodes' = Binary, TakeOperator, text' = text
  PROVE  Climbing'
<1>1. PICK c, n, p, S : c = frames' /\ n = at' /\ p = pc' /\ S = Spans'
  OBVIOUS
<1>2. /\ c = Append(Front(frames), Frame(Top.cp, ops[at], Top.opterm))
      /\ n = at + 1 /\ p = "operand"
      /\ S = Spans \cup {<<Top.cp, at>>}
  BY <1>1, SpansGrow DEF TakeOperator
<1>3. N \in Nat /\ at \in 1..N /\ Len(frames) \in Nat
  BY Shape
<1>4. ASSUME NEW k \in 1..(Len(frames) - 1)
      PROVE  frames[k].op < ops[at]
  <2>1. Len(frames) > 1 /\ k \in 1..Len(frames) /\ at \in 1..(N - 1)
    BY <1>3
  <2>2. Top.opterm = ops[Top.cp - 1] /\ Top.cp - 1 \in 1..(N - 1) /\ frames[k].op <= Top.opterm
    BY <1>3, <2>1, Callers
  <2>3. Top.opterm \in Nat /\ ops[at] \in Nat /\ frames[k].op \in Nat
    BY <2>1, <2>2, Shape
  <2>4. Top.opterm < ops[at]
    BY <2>3 DEF None
  <2> QED
    BY <2>2, <2>3, <2>4
<1>5. \A i \in 1..(N - 1) : ~RelapseOf(i, at)
  BY <1>4, NotLate
<1>6. Unlapsed(n)
  BY <1>2, <1>5, UnlapsedGrows
<1>7. Ladder(c, at, at + 1)
  BY <1>2, LadderTakes
<1>8. Built(S, c, at, at + 1)
  BY <1>2, WrapsAndGoesOn
<1>9. n - 1 = at
  BY <1>2, <1>3
<1>10. ClimbingAt(c, n, p, S)
  BY <1>2, <1>6, <1>7, <1>8, <1>9 DEF ClimbingAt
<1> QED
  BY <1>1, <1>10, Moved

(* A call begins at the operand before a tighter operator.                 *)
LEMMA DescendClimbs ==
  ASSUME IInv, Climbing, Descend, ops[at] > Top.op
  PROVE  Climbing'
<1>1. PICK c, n, p, S : c = frames' /\ n = at' /\ p = pc' /\ S = Spans'
  OBVIOUS
<1>2. /\ text' = text /\ c = Append(frames, Frame(at, ops[at], Top.op))
      /\ n = at + 1 /\ p = "operand" /\ S = Spans /\ at < N /\ pc = "next"
  BY <1>1 DEF Descend, Comparing, Spans, Binaries
<1>3. /\ frames # << >> /\ Unlapsed(at)
      /\ Ladder(frames, at - 1, at) /\ Built(Spans, frames, at - 1, at)
  BY <1>2 DEF Climbing, ClimbingAt, IInv, Reading
<1> PICK m, e : m = Len(frames) /\ e = Frame(at, ops[at], Top.op)
  OBVIOUS
<1>4. /\ N \in Nat /\ at \in 1..(N - 1) /\ m \in Nat /\ m > 0 /\ Top = frames[m]
      /\ \A h \in 1..(N - 1) : ops[h] \in Nat
      /\ \A k \in 1..m : frames[k].op \in Nat
  <2>1. /\ N \in Nat /\ at \in 1..N
        /\ \A h \in 1..(N - 1) : ops[h] \in Nat
        /\ m \in Nat /\ \A k \in 1..m : frames[k].op \in Nat
    BY Shape
  <2>2. m > 0 /\ Top = frames[m]
    BY <1>3, Shape
  <2>3. at \in 1..(N - 1)
    BY <1>2, <2>1
  <2> QED
    BY <2>1, <2>2, <2>3
<1>5. Top.op = ops[at - 1] /\ \A k \in 1..(m - 1) : frames[k].op < ops[at - 1]
  BY <1>3, Callers
<1>6. Top.op \in Nat /\ ops[at] \in Nat /\ Top.op < ops[at]
  BY <1>4
<1>7. \A k \in 1..(m - 1) : frames[k].op < ops[at]
  <2>1. ASSUME NEW k \in 1..(m - 1)
        PROVE  frames[k].op < ops[at]
    <3>1. frames[k].op \in Nat /\ frames[k].op < Top.op
      BY <1>4, <1>5
    <3> QED
      BY <1>6, <3>1
  <2> QED
    BY <2>1
<1>8. \A h \in ((at - 1) + 1)..(at - 2) : ops[h] >= ops[at - 1]
  BY <1>4
<1>9. \A i \in 1..(N - 1) : ~RelapseOf(i, at)
  BY <1>2, <1>3, <1>7, <1>8, NotLate
<1>10. Unlapsed(n)
  BY <1>2, <1>3, <1>9, UnlapsedGrows
<1>11. Ladder(c, at, at + 1)
  BY <1>2, <1>3, <1>6, LadderDescends
<1>12. Built(S, c, at, at + 1)
  <2>1. Len(c) = m + 1 /\ c[m + 1] = e /\ \A k \in 1..m : c[k] = frames[k]
    <3>1. frames \in Seq(FrameSet) /\ Top \in FrameSet /\ at \in 1..N
      BY <1>3, TopFrame DEF IInv, TypeOK, FrameSet
    <3>2. e \in FrameSet
      BY <1>6, <3>1 DEF FrameSet, Frame
    <3> QED
      BY <1>2, <3>1, <3>2, Appended
  <2>2. c[m + 1].cp = at
    BY <2>1 DEF Frame
  <2>3. ASSUME NEW h \in 1..((at + 1) - 1)
        PROVE  h = at \/ (\E k \in 1..Len(c) : h = c[k].cp - 1) \/ Placed(S, h)
    <3>1. h = at \/ h = at - 1 \/ h \in 1..(at - 1)
      BY <1>4
    <3>2. CASE h = at - 1
      <4>1. m + 1 \in 1..Len(c)
        BY <1>4, <2>1
      <4> QED
        BY <2>2, <3>2, <4>1
    <3>3. CASE h \in 1..(at - 1) /\ h # at - 1
      <4>1. (\E k \in 1..m : h = frames[k].cp - 1) \/ Placed(S, h)
        BY <1>2, <1>3, <3>3 DEF Built
      <4>2. \A k \in 1..m : k \in 1..Len(c) /\ c[k] = frames[k]
        BY <1>4, <2>1
      <4> QED
        BY <4>1, <4>2
    <3> QED
      BY <3>1, <3>2, <3>3
  <2> QED
    BY <2>3 DEF Built
<1>13. n - 1 = at
  BY <1>2, <1>4
<1>14. ClimbingAt(c, n, p, S)
  BY <1>2, <1>10, <1>11, <1>12, <1>13 DEF ClimbingAt
<1> QED
  BY <1>1, <1>2, <1>14, Moved

(* After an inner call, the operator taken closes the caller's node too    *)
(* late.                                                                   *)
LEMMA RejoinLapses ==
  ASSUME IInv, Rejoin, NEW q, Ladder(frames, q, at), Handed(q, at),
         Top.opterm # None, ops[at] <= Top.opterm
  PROVE  Lapsed'
<1>1. PICK c, n, p, S : c = frames' /\ n = at' /\ p = pc' /\ S = Spans'
  OBVIOUS
<1>2. /\ text' = text /\ n = at + 1 /\ at < N /\ frames # << >> /\ pc = "returned"
      /\ S = Spans \cup {<<Top.cp, at>>}
  BY <1>1, SpansGrow DEF Rejoin, TakeOperator
<1> PICK m, i : m = Len(frames) /\ i = Top.cp - 1
  OBVIOUS
<1>3. /\ N \in Nat /\ at \in 1..(N - 1) /\ m \in Nat /\ m > 0 /\ Top = frames[m]
      /\ \A h \in 1..(N - 1) : ops[h] \in Nat
  BY <1>2, Shape
<1>4. /\ q \in 1..(at - 1) /\ Top.cp <= q /\ Top.cp \in 1..N
      /\ m = 1 => Top.opterm = None
      /\ m > 1 => Top.opterm = ops[i] /\ Top.cp > 1
  BY <1>2, Callers
<1>5. m > 1 /\ Top.opterm = ops[i] /\ Top.cp > 1
  <2>1. m = 1 \/ m > 1
    BY <1>3
  <2> QED
    BY <1>4, <2>1
<1>6. i \in 1..(at - 1) /\ i < at /\ i + 1 = Top.cp
  <2>1. /\ Top.cp \in Int /\ q \in Int /\ at \in Int
        /\ Top.cp > 1 /\ Top.cp <= q /\ q <= at - 1 /\ i = Top.cp - 1
    BY <1>3, <1>4, <1>5
  <2> QED
    BY ONLY <2>1
<1>7. \A j \in (i + 1)..(at - 1) : ops[j] > ops[i]
  <2>1. m - 1 \in 1..(m - 1) /\ (m - 1) + 1 = m
    BY <1>3, <1>5
  <2>2. Waits(frames[m - 1], frames[(m - 1) + 1].cp - 1, at)
    BY <2>1 DEF Ladder
  <2>3. PICK f : f = frames[m - 1]
    OBVIOUS
  <2>4. Waits(f, i, at)
    BY <1>3, <2>1, <2>2, <2>3
  <2> QED
    BY <2>4 DEF Waits
<1>8. \E j \in (i + 1)..(at - 2) : ops[j] < ops[at - 1]
  <2>1. q < at - 1
    BY <1>2 DEF Handed
  <2>2. q \in (i + 1)..(at - 2) /\ at - 1 \in (q + 1)..(at - 1)
    BY <1>3, <1>4, <1>6, <2>1
  <2>3. Waits(Top, q, at)
    BY <1>3 DEF Ladder
  <2>4. ops[at - 1] > ops[q]
    BY <2>2, <2>3 DEF Waits
  <2>5. ops[q] < ops[at - 1]
    <3>1. q \in 1..(N - 1) /\ at - 1 \in 1..(N - 1)
      BY <1>3, <1>4, <2>2
    <3> QED
      BY <1>3, <2>4, <3>1
  <2> QED
    BY <2>2, <2>5
<1>9. RelapseOf(i, at)
  BY <1>5, <1>6, <1>7, <1>8 DEF RelapseOf
<1>10. ASSUME NEW s \in S, s[1] <= i
       PROVE  s[2] # at
  <2>1. CASE s = <<Top.cp, at>>
    <3>1. s[1] = Top.cp
      BY <2>1
    <3> QED
      BY <1>4, <1>6, <1>10, <3>1
  <2>2. CASE s \in Spans
    <3>1. PICK k \in Binaries : s = <<nodes[k].from, nodes[k].to>>
      BY <2>2 DEF Spans
    <3>2. s[1] = nodes[k].from /\ s[2] = nodes[k].to
      BY <3>1
    <3>3. PICK b \in (Top.cp + 1)..at :
            nodes[k].to < at \/ (nodes[k].to = at /\ nodes[k].from >= b)
      BY <1>2, <3>1 DEF IInv, Returning
    <3>4. PICK x, y : x = nodes[k].from /\ y = nodes[k].to
      OBVIOUS
    <3>5. x \in 1..N /\ y \in 1..N
      BY <3>4, NodeBounds
    <3>6. y < at \/ (y = at /\ x >= Top.cp + 1)
      <4>1. /\ Top.cp \in Int /\ at \in Int /\ b \in (Top.cp + 1)..at
            /\ x \in Int /\ y \in Int
            /\ y < at \/ (y = at /\ x >= b)
        BY <1>3, <1>4, <3>3, <3>4, <3>5
      <4> QED
        BY ONLY <4>1
    <3>7. x <= i /\ s[2] = y
      BY <1>10, <3>2, <3>4
    <3>8. y # at
      <4>1. /\ x \in Int /\ y \in Int /\ at \in Int /\ i \in Int
            /\ x <= i /\ i + 1 = Top.cp
            /\ y < at \/ x >= Top.cp + 1
        BY <1>3, <1>6, <3>5, <3>6, <3>7
      <4> QED
        BY ONLY <4>1
    <3> QED
      BY <3>7, <3>8
  <2> QED
    BY <1>2, <2>1, <2>2
<1>11. LapsedAt(n, S)
  <2>1. at < n /\ i \in 1..(N - 1)
    BY <1>2, <1>3, <1>6
  <2> QED
    BY <1>3, <1>9, <1>10, <2>1 DEF LapsedAt
<1> QED
  BY <1>1, <1>2, <1>11, Moved

-----------------------------------------------------------------------------
LEMMA GroupingInit == Init => Grouping
<1> SUFFICES ASSUME Init PROVE Climbing
  BY DEF Grouping
<1>1. pc = "expression" /\ at = 1
  BY DEF Init
<1>2. Unlapsed(at)
  <2>1. N \in Nat
    BY Operands DEF Init
  <2>2. \A k \in 1..(N - 1) : ~(k < 1)
    BY <2>1
  <2> QED
    BY <1>1, <2>2 DEF Unlapsed
<1> QED
  BY <1>1, <1>2 DEF Climbing, ClimbingAt

LEMMA GroupingStep == IInv /\ Grouping /\ [Next]_vars => Grouping'
<1> SUFFICES ASSUME IInv, Grouping, [Next]_vars PROVE Climbing' \/ Lapsed'
  BY DEF Grouping
<1>1. CASE UNCHANGED vars
  <2>1. UNCHANGED <<text, at, frames, nodes>> /\ pc' = pc
    BY <1>1 DEF vars
  <2>2. CASE Climbing
    BY <2>1, <2>2, QuietClimbs
  <2>3. CASE Lapsed
    <3>2. PICK n, S : n = at' /\ S = Spans'
      OBVIOUS
    <3>3. n = at /\ S = Spans /\ at \in Int
      BY <2>1, <3>2, Shape DEF Spans, Binaries
    <3>4. LapsedAt(n, S)
      BY <2>3, <3>3 DEF Lapsed
    <3> QED
      BY <2>1, <3>2, <3>4, Moved
  <2> QED
    BY <2>2, <2>3 DEF Grouping
<1>2. CASE Next /\ Lapsed
  BY <1>2, LapsedKept
<1> SUFFICES ASSUME Next, Climbing PROVE Climbing' \/ Lapsed'
  BY <1>1, <1>2 DEF Grouping
<1>3. Unlapsed(at)
  BY DEF Climbing, ClimbingAt
<1>4. pc \in {"operand", "next"} =>
        frames # << >> /\ Ladder(frames, at - 1, at) /\ Built(Spans, frames, at - 1, at)
  BY DEF Climbing, ClimbingAt, IInv, Reading
<1>5. pc = "returned" /\ frames # << >> =>
        \E q \in 0..(at - 1) :
          Built(Spans, frames, q, at) /\ Ladder(frames, q, at) /\ Handed(q, at)
  BY DEF Climbing, ClimbingAt
<1>6. /\ N \in Nat /\ at \in 1..N
      /\ \A h \in 1..(N - 1) : ops[h] \in Nat
      /\ frames # << >> => Top.opterm \in Nat \cup {None} /\ Top.op \in Nat
  <2>1. frames # << >> => Len(frames) \in 1..Len(frames) /\ Top = frames[Len(frames)]
    BY Shape
  <2> QED
    BY <2>1, Shape
<1>7. CASE Operand \/ Panic \/ ReturnError \/ FirstOperandFails \/ Finished
  BY <1>7, QuietClimbs
     DEF Operand, Panic, ReturnError, FirstOperandFails, Finished, vars
<1>8. CASE OperandFails \/ Unwind
  BY <1>8, FailureClimbs DEF OperandFails, Unwind
<1>9. CASE LoneOperand
  BY <1>9, LoneClimbs
<1>10. CASE StartBinop
  BY <1>10, StartClimbs
<1>11. CASE ReturnOk
  BY <1>11, ReturnClimbs
<1>12. CASE NoMoreOperators
  BY <1>3, <1>4, <1>12, LeaveClimbs DEF NoMoreOperators
<1>13. CASE ReduceAndReturn
  <2>1. /\ pc = "next" /\ at < N /\ Top.op >= ops[at]
        /\ Top.opterm # None /\ Top.opterm >= ops[at]
    BY <1>13 DEF ReduceAndReturn, Comparing, Reduces, Guarded
  <2>2. Top.op = ops[at - 1]
    BY <1>4, <2>1, Callers
  <2>3. ops[at] <= ops[at - 1] /\ ops[at] <= Top.opterm
    BY <1>4, <1>6, <2>1, <2>2
  <2> QED
    BY <1>3, <1>4, <1>13, <2>1, <2>3, LeaveClimbs DEF ReduceAndReturn
<1>14. CASE ReduceAndGoOn
  <2>1. /\ pc = "next" /\ at < N /\ Top.op >= ops[at]
        /\ Top.opterm = None \/ ~(Top.opterm >= ops[at])
    BY <1>14 DEF ReduceAndGoOn, Comparing, Reduces, Guarded
  <2>2. Top.op = ops[at - 1]
    BY <1>4, <2>1, Callers
  <2>3. ops[at] <= ops[at - 1] /\ (Top.opterm = None \/ Top.opterm < ops[at])
    <3>1. ops[at] \in Nat
      BY <1>6, <2>1
    <3> QED
      BY <1>4, <1>6, <2>1, <2>2, <3>1
  <2>4. \A h \in ((at - 1) + 1)..(at - 2) : ops[h] >= ops[at - 1]
    BY <1>6
  <2> QED
    BY <1>3, <1>4, <1>14, <2>1, <2>3, <2>4, GoOnClimbs DEF ReduceAndGoOn
<1>15. CASE Descend
  <2>1. ops[at] > Top.op
    <3>1. pc = "next" /\ at < N /\ ~(Top.op >= ops[at])
      BY <1>15 DEF Descend, Comparing, Reduces
    <3>2. ops[at] \in Nat /\ Top.op \in Nat
      BY <1>4, <1>6, <3>1
    <3> QED
      BY <3>1, <3>2
  <2> QED
    BY <1>15, <2>1, DescendClimbs
<1>16. CASE Rejoin
  <2>1. pc = "returned" /\ frames # << >> /\ at < N
    BY <1>16 DEF Rejoin
  <2>2. PICK q \in 0..(at - 1) :
          Built(Spans, frames, q, at) /\ Ladder(frames, q, at) /\ Handed(q, at)
    BY <1>5, <2>1
  <2>3. ops[at] <= ops[q] /\ \A h \in (q + 1)..(at - 2) : ops[h] >= ops[at - 1]
    BY <2>1, <2>2 DEF Handed
  <2>4. CASE Top.opterm # None /\ ops[at] <= Top.opterm
    BY <1>16, <2>2, <2>4, RejoinLapses
  <2>5. CASE Top.opterm = None \/ Top.opterm < ops[at]
    BY <1>3, <1>16, <2>1, <2>2, <2>3, <2>5, GoOnClimbs DEF Rejoin
  <2>6. \/ Top.opterm # None /\ ops[at] <= Top.opterm
        \/ Top.opterm = None \/ Top.opterm < ops[at]
    <3>1. ops[at] \in Nat
      BY <1>6, <2>1
    <3> QED
      BY <1>6, <2>1, <3>1
  <2> QED
    BY <2>4, <2>5, <2>6
<1>17. CASE RejoinAtEnd
  <2>1. pc = "returned" /\ frames # << >> /\ at = N
    BY <1>17 DEF RejoinAtEnd
  <2>2. PICK q \in 0..(at - 1) : Built(Spans, frames, q, at) /\ Ladder(frames, q, at)
    BY <1>5, <2>1
  <2> QED
    BY <1>3, <1>17, <2>1, <2>2, LeaveClimbs DEF RejoinAtEnd
<1> QED
  BY <1>7, <1>8, <1>9, <1>10, <1>11, <1>12, <1>13, <1>14, <1>15, <1>16, <1>17 DEF Next, Step

(* What was passed too late is in no node that precedence asks for.        *)
LEMMA GroupingDecides == IInv /\ Grouping => GroupedUnlessRelapse
<1> SUFFICES ASSUME IInv, Grouping, pc = "ok" PROVE WellGrouped <=> ~Relapse
  BY DEF GroupedUnlessRelapse
<1>1. N \in Nat /\ at \in 1..N /\ \A h \in 1..(N - 1) : ops[h] \in Nat
  BY Shape
<1>2. Relapse <=> \E i, k \in 1..(N - 1) : RelapseOf(i, k)
  BY DEF Relapse, RelapseOf
<1>3. WellGrouped <=> \A h \in 1..(N - 1) : Placed(Spans, h)
  BY DEF WellGrouped, Placed
<1>4. CASE Climbing
  <2>1. Unlapsed(N) /\ \A h \in 1..(N - 1) : Placed(Spans, h)
    BY <1>4 DEF Climbing, ClimbingAt
  <2>2. \A k \in 1..(N - 1) : k < N
    BY <1>1
  <2> QED
    BY <1>2, <1>3, <2>1, <2>2 DEF Unlapsed
<1>5. CASE Lapsed
  <2>1. PICK i, k \in 1..(N - 1) : RelapseOf(i, k) /\ \A s \in Spans : s[1] <= i => s[2] # k
    BY <1>5 DEF Lapsed, LapsedAt
  <2>2. SUFFICES ASSUME Placed(Spans, i) PROVE FALSE
    BY <1>2, <1>3, <2>1
  <2>3. PICK s \in Spans : s[1] <= i /\ i < s[2] /\ IsNodeOf(i, s[1], s[2])
    BY <2>2 DEF Placed
  <2>4. s[1] \in 1..N /\ s[2] \in 1..N
    <3>1. PICK h \in Binaries : s = <<nodes[h].from, nodes[h].to>>
      BY <2>3 DEF Spans
    <3>2. nodes[h].from \in 1..N /\ nodes[h].to \in 1..N
      BY NodeBounds
    <3> QED
      BY <3>1, <3>2
  <2>5. PICK b : b = s[2]
    OBVIOUS
  <2>6. /\ b \in 1..N /\ i < b /\ b # k /\ i < k
        /\ ops[k] <= ops[i]
        /\ \A j \in (i + 1)..(k - 1) : ops[j] > ops[i]
        /\ \A j \in (i + 1)..(b - 1) : ops[j] > ops[i]
        /\ b = N \/ ops[b] <= ops[i]
    BY <2>1, <2>3, <2>4, <2>5 DEF RelapseOf, IsNodeOf
  <2>7. CASE b < k
    <3>1. b \in (i + 1)..(k - 1) /\ b # N /\ b \in 1..(N - 1)
      BY <1>1, <2>6, <2>7
    <3> QED
      BY <1>1, <2>6, <3>1
  <2>8. CASE k < b
    <3>1. k \in (i + 1)..(b - 1)
      BY <1>1, <2>6, <2>8
    <3> QED
      BY <1>1, <2>6, <3>1
  <2> QED
    BY <1>1, <2>6, <2>7, <2>8
<1> QED
  BY <1>4, <1>5 DEF Grouping

(* Whatever the precedences and however deep the calls, an expression that *)
(* parses is grouped by precedence unless it has a relapse, and grouped    *)
(* wrongly whenever it has one (parse_binop).                              *)
THEOREM GroupedExactly == Spec => []GroupedUnlessRelapse
<1>1. Spec => []Grouping
  BY ClimbingInvariant, GroupingInit, GroupingStep, PTL DEF Spec
<1> QED
  BY <1>1, ClimbingInvariant, GroupingDecides, PTL
=============================================================================
