--------------------------- MODULE TokenLayerProofs ---------------------------
(***************************************************************************)
(* The token layer keeps its promises for every stream and every grammar:  *)
(* the inductive invariant, one lemma per kind of step, and the theorems.  *)
(***************************************************************************)
EXTENDS TokenLayer, TLAPS

(* Reading at token e, the lookahead is i then j, and scanning goes on at  *)
(* q.                                                                      *)
Look(e, i, j, q) ==
  /\ IF e > Last THEN i = Last ELSE IsNextSig(raw, origin, e, i)
  /\ IsNextSig(raw, origin, After(raw, i), j)
  /\ q = After(raw, j)

CursorInv ==
  /\ Lexed(raw)
  /\ origin \in 1..Last
  /\ p \in 1..Last
  /\ nt \in 1..Last
  /\ nnt \in 1..Last
  /\ emit \in 1..(Last + 1)
  /\ Look(emit, nt, nnt, p)

Pieces ==
  [from : 1..Last, to : 1..Last, kind : {"trivia", "token", "node", "region"}]

(* Pieces s tile the text up to token e.  That none ends past e, and that  *)
(* a token or a run of trivia is not empty, is what makes it inductive.    *)
Tiled(s, e) ==
  /\ s = << >> => e = 1
  /\ s # << >> => s[1].from = 1 /\ s[Len(s)].to = e
  /\ \A k \in 1..Len(s) :
       /\ s[k].from <= s[k].to
       /\ s[k].to <= e
       /\ s[k].kind \in {"token", "trivia"} => s[k].from < s[k].to
  /\ \A k \in 1..(Len(s) - 1) : s[k].to = s[k + 1].from

(* What piece x holds of the text read since the origin.                   *)
Holds(x) ==
  x.from >= origin =>
    /\ x.kind = "token" => x.to = x.from + 1 /\ Significant(raw, origin, x.from)
    /\ x.kind = "trivia" =>
         \A h \in x.from..(x.to - 1) : ~Significant(raw, origin, h)

Tree(s, e) ==
  /\ s \in Seq(Pieces)
  /\ e \in 1..Last
  /\ Tiled(s, e)
  /\ \A k \in 1..Len(s) : Holds(s[k])

TreeInv == Tree(pieces, Emitted)

CpsInv == cps \in Seq(Nat) /\ CheckpointsValid

ModeInv == mode \in Modes /\ from \in 0..Last /\ dry \in BOOLEAN

SavedInv ==
  dry =>
    /\ saved \in [p : 1..Last, nt : 1..Last, nnt : 1..Last,
                  emit : 1..(Last + 1), open : 0..Len(cps)]
    /\ Look(saved.emit, saved.nt, saved.nnt, saved.p)

LayerInv == CursorInv /\ TreeInv /\ CpsInv /\ ModeInv /\ SavedInv

-----------------------------------------------------------------------------
(* Facts about the lookahead and the tree.                                 *)

LEMMA EndIsLast ==
  ASSUME Lexed(raw), NEW i \in 1..Last
  PROVE  /\ Last \in Nat /\ Last >= 1
         /\ raw[i] = "end" <=> i = Last
         /\ After(raw, i) = IF i = Last THEN i ELSE i + 1
         /\ After(raw, i) \in 1..Last
  BY DEF Lexed, After, Last

(* The text not emitted yet starts at or before nt, unless all is emitted. *)
LEMMA EmitBeforeNt ==
  ASSUME CursorInv
  PROVE  /\ emit <= nt \/ (emit = Last + 1 /\ nt = Last)
         /\ emit <= nt => /\ Significant(raw, origin, nt)
                          /\ \A h \in emit..(nt - 1) : ~Significant(raw, origin, h)
  <1>1. Last \in Nat
    BY DEF CursorInv, Lexed, Last
  <1>2. CASE emit > Last
    BY <1>1, <1>2 DEF CursorInv, Look
  <1>3. CASE ~(emit > Last)
    BY <1>1, <1>3 DEF CursorInv, Look, IsNextSig, Last
  <1>4. QED BY <1>2, <1>3

(* One more piece at the end of the tree.                                  *)
LEMMA TreeAppend ==
  ASSUME CursorInv, NEW s, NEW a, NEW b \in 1..Last, Tree(s, a), a <= b,
         NEW k \in {"trivia", "token", "node", "region"},
         k \in {"token", "trivia"} => a < b,
         Holds(Piece(a, b, k))
  PROVE  Tree(Append(s, Piece(a, b, k)), b)
  <1>0. Last \in Nat
    BY DEF CursorInv, Lexed, Last
  <1> DEFINE x == Piece(a, b, k)
             t == Append(s, x)
  <1>1. s \in Seq(Pieces) /\ a \in 1..Last
    BY DEF Tree
  <1>2. x \in Pieces /\ x.from = a /\ x.to = b /\ x.kind = k
    BY <1>1 DEF Piece, Pieces
  <1> HIDE DEF x
  <1>3. t \in Seq(Pieces) /\ Len(t) = Len(s) + 1 /\ t[Len(s) + 1] = x
    BY <1>1, <1>2
  <1>4. \A i \in 1..Len(s) : t[i] = s[i]
    BY <1>1, <1>2
  <1> HIDE DEF t
  <1>5. Len(s) \in Nat /\ (s = << >> <=> Len(s) = 0)
    BY <1>1
  <1>6. t # << >>
    BY <1>3, <1>5
  <1>7. \A i \in 1..Len(s) :
          s[i].from \in Int /\ s[i].to \in Int /\ s[i].to <= a
    <2>1. ASSUME NEW i \in 1..Len(s)
          PROVE  s[i].from \in Int /\ s[i].to \in Int /\ s[i].to <= a
      <3>1. s[i] \in Pieces
        BY <1>1
      <3>2. s[i].to <= a
        BY DEF Tree, Tiled
      <3>3. QED BY <1>0, <3>1, <3>2 DEF Pieces
    <2>2. QED BY <2>1
  <1>8. t[1].from = 1
    BY <1>1, <1>2, <1>3, <1>4, <1>5 DEF Tree, Tiled
  <1>9. t[Len(t)].to = b
    BY <1>2, <1>3
  <1>10. \A i \in 1..Len(t) :
           /\ t[i].from <= t[i].to
           /\ t[i].to <= b
           /\ t[i].kind \in {"token", "trivia"} => t[i].from < t[i].to
    <2>1. ASSUME NEW i \in 1..Len(s)
          PROVE  /\ t[i].from <= t[i].to
                 /\ t[i].to <= b
                 /\ t[i].kind \in {"token", "trivia"} => t[i].from < t[i].to
      BY <1>0, <1>1, <1>4, <1>7 DEF Tree, Tiled
    <2>2. /\ x.from <= x.to
          /\ x.to <= b
          /\ x.kind \in {"token", "trivia"} => x.from < x.to
      BY <1>2, <1>0
    <2>3. \A i \in 1..Len(t) : i \in 1..Len(s) \/ i = Len(s) + 1
      BY <1>3, <1>5
    <2>4. QED BY <2>1, <2>2, <2>3, <1>3
  <1>11. \A i \in 1..(Len(t) - 1) : t[i].to = t[i + 1].from
    <2>1. ASSUME NEW i \in 1..(Len(s) - 1) PROVE t[i].to = t[i + 1].from
      <3>1. i \in 1..Len(s) /\ i + 1 \in 1..Len(s)
        BY <1>5
      <3>2. s[i].to = s[i + 1].from
        BY DEF Tree, Tiled
      <3>3. QED BY <3>1, <3>2, <1>4
    <2>2. Len(s) > 0 => t[Len(s)].to = x.from
      BY <1>2, <1>4, <1>5 DEF Tree, Tiled
    <2>3. \A i \in 1..(Len(t) - 1) : i \in 1..(Len(s) - 1) \/ (i = Len(s) /\ Len(s) > 0)
      BY <1>3, <1>5
    <2>4. QED BY <2>1, <2>2, <2>3, <1>3
  <1>12. Tiled(t, b)
    BY <1>6, <1>8, <1>9, <1>10, <1>11 DEF Tiled
  <1>13. \A i \in 1..Len(t) : Holds(t[i])
    <2>1. \A i \in 1..Len(s) : Holds(t[i])
      BY <1>4 DEF Tree
    <2>2. Holds(t[Len(s) + 1])
      BY <1>3 DEF x
    <2>3. \A i \in 1..Len(t) : i \in 1..Len(s) \/ i = Len(s) + 1
      BY <1>3, <1>5
    <2>4. QED BY <2>1, <2>2, <2>3
  <1>14. QED BY <1>3, <1>12, <1>13 DEF Tree, t, x

(* flush_trivia up to nt.                                                  *)
LEMMA FlushTree ==
  ASSUME CursorInv, TreeInv, ~dry
  PROVE  /\ Tree(Put(pieces, emit, nt, "trivia"), nt)
         /\ Len(Put(pieces, emit, nt, "trivia")) >= Len(pieces)
         /\ Len(pieces) \in Nat
  <1>0. Last \in Nat /\ nt \in 1..Last /\ emit \in 1..(Last + 1)
    BY DEF CursorInv, Lexed, Last
  <1>1. Tree(pieces, Upto(emit)) /\ pieces \in Seq(Pieces) /\ Len(pieces) \in Nat
    BY DEF TreeInv, Emitted, Tree
  <1>2. CASE emit < nt
    <2>1. Upto(emit) = emit /\ emit \in 1..Last
      BY <1>0, <1>2 DEF Upto
    <2>2. \A h \in emit..(nt - 1) : ~Significant(raw, origin, h)
      BY EmitBeforeNt, <1>0, <1>2
    <2>3. Holds(Piece(emit, nt, "trivia"))
      BY <2>2 DEF Holds, Piece
    <2>4. Tree(Append(pieces, Piece(emit, nt, "trivia")), nt)
      BY TreeAppend, <1>0, <1>1, <1>2, <2>1, <2>3
    <2>5. Len(Append(pieces, Piece(emit, nt, "trivia"))) = Len(pieces) + 1
      BY <1>1
    <2>6. QED BY <1>1, <1>2, <2>4, <2>5 DEF Put
  <1>3. CASE ~(emit < nt)
    <2>1. Upto(emit) = nt
      BY EmitBeforeNt, <1>0, <1>3 DEF Upto
    <2>2. QED BY <1>1, <1>3, <2>1 DEF Put
  <1>4. QED BY <1>2, <1>3

(* Everything from the c-th piece on becomes one node.                     *)
LEMMA WrapTree ==
  ASSUME CursorInv, TreeInv, ~dry, NEW c \in 0..Len(pieces)
  PROVE  Tree(Wrapped(c), Upto(emit)) /\ Len(Wrapped(c)) = c + 1
  <1>0. Last \in Nat /\ Last >= 1 /\ emit \in 1..(Last + 1)
    BY DEF CursorInv, Lexed, Last
  <1> DEFINE e == Upto(emit)
             s == SubSeq(pieces, 1, c)
             a == IF c < Len(pieces) THEN pieces[c + 1].from ELSE e
  <1>1. Tree(pieces, e) /\ pieces \in Seq(Pieces) /\ Len(pieces) \in Nat
    BY DEF TreeInv, Emitted, Tree
  <1>2. e \in 1..Last
    BY <1>0 DEF Upto
  <1> HIDE DEF e
  <1>3. s \in Seq(Pieces) /\ Len(s) = c /\ c \in Nat
    BY <1>1
  <1>4. \A i \in 1..c : s[i] = pieces[i] /\ pieces[i] \in Pieces
    BY <1>1
  <1>5. a \in 1..Last /\ a <= e
    <2>1. CASE c < Len(pieces)
      <3>1. c + 1 \in 1..Len(pieces) /\ pieces[c + 1] \in Pieces
        BY <1>1, <2>1
      <3>2. pieces[c + 1].from <= pieces[c + 1].to /\ pieces[c + 1].to <= e
        BY <1>1, <3>1 DEF Tree, Tiled
      <3>3. QED BY <1>0, <1>2, <2>1, <3>1, <3>2 DEF Pieces
    <2>2. CASE ~(c < Len(pieces))
      BY <1>0, <1>2, <2>2
    <2>3. QED BY <2>1, <2>2
  <1> DEFINE x == Piece(a, e, "node")
             t == Append(s, x)
  <1>6. x \in Pieces /\ x.from = a /\ x.to = e /\ x.kind = "node"
    BY <1>2, <1>5 DEF Piece, Pieces
  <1> HIDE DEF a, x
  <1>7. /\ t \in Seq(Pieces) /\ Len(t) = c + 1 /\ t[c + 1] = x
        /\ \A i \in 1..c : t[i] = pieces[i] /\ i \in 1..Len(pieces)
    BY <1>1, <1>3, <1>4, <1>6
  <1> HIDE DEF t
  <1>8. c = 0 => a = 1
    <2>1. Len(pieces) = 0 => e = 1
      BY <1>1 DEF Tree, Tiled
    <2>2. Len(pieces) # 0 => pieces[1].from = 1
      BY <1>1 DEF Tree, Tiled
    <2>3. QED BY <1>1, <2>1, <2>2 DEF a
  <1>9. c # 0 => pieces[c].to = a
    <2>1. c # 0 /\ c < Len(pieces) => pieces[c].to = pieces[c + 1].from
      <3>1. c # 0 /\ c < Len(pieces) => c \in 1..(Len(pieces) - 1)
        BY <1>1, <1>3
      <3>2. QED BY <1>1, <3>1 DEF Tree, Tiled
    <2>2. c # 0 /\ c = Len(pieces) => pieces[c].to = e
      BY <1>1 DEF Tree, Tiled
    <2>3. QED BY <1>1, <1>3, <2>1, <2>2 DEF a
  <1>10. t # << >>
    BY <1>3, <1>7
  <1>11. t[1].from = 1 /\ t[Len(t)].to = e
    <2>1. c # 0 => pieces[1].from = 1
      BY <1>1, <1>3 DEF Tree, Tiled
    <2>2. c # 0 => t[1] = pieces[1]
      BY <1>3, <1>7
    <2>3. QED BY <1>3, <1>6, <1>7, <1>8, <2>1, <2>2
  <1>12. \A i \in 1..Len(t) : i \in 1..c \/ i = c + 1
    BY <1>3, <1>7
  <1>13. \A i \in 1..Len(t) :
           /\ t[i].from <= t[i].to
           /\ t[i].to <= e
           /\ t[i].kind \in {"token", "trivia"} => t[i].from < t[i].to
    <2>1. ASSUME NEW i \in 1..c
          PROVE  /\ t[i].from <= t[i].to
                 /\ t[i].to <= e
                 /\ t[i].kind \in {"token", "trivia"} => t[i].from < t[i].to
      BY <1>1, <1>7 DEF Tree, Tiled
    <2>2. x.from <= x.to /\ x.to <= e /\ x.kind \notin {"token", "trivia"}
      BY <1>0, <1>2, <1>5, <1>6
    <2>3. QED BY <1>7, <1>12, <2>1, <2>2
  <1>14. \A i \in 1..(Len(t) - 1) : t[i].to = t[i + 1].from
    <2>1. ASSUME NEW i \in 1..(c - 1) PROVE t[i].to = t[i + 1].from
      <3>1. i \in 1..c /\ i + 1 \in 1..c
        BY <1>3
      <3>2. i \in 1..(Len(pieces) - 1)
        BY <1>1, <1>3
      <3>3. pieces[i].to = pieces[i + 1].from
        BY <1>1, <3>2 DEF Tree, Tiled
      <3>4. QED BY <3>1, <3>3, <1>7
    <2>2. c # 0 => t[c].to = x.from
      BY <1>3, <1>6, <1>7, <1>9
    <2>3. \A i \in 1..(Len(t) - 1) : i \in 1..(c - 1) \/ (i = c /\ c # 0)
      BY <1>3, <1>7
    <2>4. QED BY <1>7, <2>1, <2>2, <2>3
  <1>15. Tiled(t, e)
    BY <1>10, <1>11, <1>13, <1>14 DEF Tiled
  <1>16. \A i \in 1..Len(t) : Holds(t[i])
    <2>1. \A i \in 1..c : Holds(t[i])
      BY <1>1, <1>7 DEF Tree
    <2>2. Holds(x)
      BY <1>6 DEF Holds
    <2>3. QED BY <1>7, <1>12, <2>1, <2>2
  <1>17. Wrapped(c) = t
    BY DEF Wrapped, t, x, a, s, e
  <1>18. QED BY <1>2, <1>7, <1>15, <1>16, <1>17 DEF Tree, e

-----------------------------------------------------------------------------
(* What the steps that emit or advance do to the cursor and the tree.      *)

Stays == raw' = raw /\ origin' = origin

LEMMA TreeStays ==
  ASSUME Stays, NEW e, Tree(pieces', e), Emitted' = e
  PROVE  TreeInv'
  BY DEF Stays, TreeInv, Tree, Pieces, Tiled, Holds, Last

LEMMA AdvanceLook ==
  ASSUME CursorInv, Stays, Advance, emit' = nt + 1
  PROVE  CursorInv'
  <1>0. Last \in Nat /\ Last >= 1 /\ Lexed(raw) /\ Last' = Last
    BY DEF CursorInv, Lexed, Last, Stays
  <1>1. nt \in 1..Last /\ nnt \in 1..Last /\ p \in 1..Last
    BY DEF CursorInv
  <1>2. /\ IsNextSig(raw, origin, After(raw, nt), nnt)
        /\ p = After(raw, nnt)
    BY DEF CursorInv, Look
  <1>3. PICK j \in p..Last :
          /\ nnt' = j
          /\ IsNextSig(raw, origin, p, j)
          /\ p' = After(raw, j)
    BY DEF Advance, NextToken
  <1>4. j \in 1..Last
    BY <1>1, <1>3
  <1>5. After(raw, j) \in 1..Last
    BY <1>0, <1>4, EndIsLast
  <1>6. nt' = nnt
    BY DEF Advance
  <1>7. /\ nt' \in 1..Last /\ nnt' \in 1..Last /\ p' \in 1..Last
        /\ emit' \in 1..(Last + 1)
    BY <1>0, <1>1, <1>3, <1>4, <1>5, <1>6
  <1>8. IF nt + 1 > Last THEN nnt = Last ELSE IsNextSig(raw, origin, nt + 1, nnt)
    <2>1. CASE nt = Last
      <3>1. After(raw, nt) = Last
        BY <1>0, <2>1 DEF After, Last
      <3>2. nnt \in Last..Len(raw)
        BY <1>2, <3>1 DEF IsNextSig
      <3>3. QED BY <1>0, <1>1, <2>1, <3>2 DEF Last
    <2>2. CASE nt # Last
      <3>1. After(raw, nt) = nt + 1 /\ ~(nt + 1 > Last)
        BY <1>0, <1>1, <2>2 DEF After, Last
      <3>2. QED BY <1>2, <3>1
    <2>3. QED BY <2>1, <2>2
  <1>9. Look(nt + 1, nnt, j, p')
    BY <1>2, <1>3, <1>8 DEF Look
  <1>10. Look(emit, nt, nnt, p)'
    BY <1>3, <1>6, <1>9, <1>0 DEF Look, Stays
  <1>11. QED BY <1>0, <1>7, <1>10 DEF CursorInv, Stays

LEMMA BumpStep ==
  ASSUME LayerInv, Bump, Stays, dry' = dry, saved' = saved
  PROVE  CursorInv' /\ TreeInv' /\ Len(pieces') >= Len(pieces)
  <1>0. /\ Last \in Nat /\ Last >= 1 /\ Lexed(raw) /\ nt \in 1..Last
        /\ Last' = Last
    BY DEF LayerInv, CursorInv, Lexed, Last, Stays
  <1>1. CursorInv'
    BY AdvanceLook DEF LayerInv, Bump
  <1>2. pieces \in Seq(Pieces) /\ Len(pieces) \in Nat
    BY DEF LayerInv, TreeInv, Tree
  <1>3. emit' = nt + 1
    BY DEF Bump
  <1>4. CASE dry
    <2>1. pieces' = pieces
      BY <1>4 DEF Bump, Flushed
    <2>2. Tree(pieces', Emitted)
      BY <2>1 DEF LayerInv, TreeInv
    <2>3. Emitted' = Emitted
      BY <1>0, <1>4 DEF Emitted, Upto
    <2>4. QED BY <1>1, <1>2, <2>1, <2>2, <2>3, TreeStays
  <1>5. CASE ~dry /\ raw[nt] = "end"
    <2>1. pieces' = Put(pieces, emit, nt, "trivia")
      BY <1>5 DEF Bump, Flushed
    <2>2. Tree(pieces', nt) /\ Len(pieces') >= Len(pieces)
      BY <1>5, <2>1, FlushTree DEF LayerInv
    <2>3. nt = Last
      BY <1>0, <1>5, EndIsLast
    <2>4. Emitted' = nt
      BY <1>0, <1>3, <1>5, <2>3 DEF Emitted, Upto
    <2>5. QED BY <1>1, <2>2, <2>4, TreeStays
  <1>6. CASE ~dry /\ raw[nt] # "end"
    <2> DEFINE s == Put(pieces, emit, nt, "trivia")
    <2>1. pieces' = Append(s, Piece(nt, nt + 1, "token"))
      BY <1>6 DEF Bump, Flushed
    <2>2. Tree(s, nt) /\ Len(s) >= Len(pieces)
      BY <1>6, FlushTree DEF LayerInv
    <2> HIDE DEF s
    <2>3. nt + 1 \in 1..Last
      BY <1>0, <1>6, EndIsLast
    <2>4. emit <= nt
      BY <1>0, <2>3, EmitBeforeNt DEF LayerInv
    <2>5. Significant(raw, origin, nt)
      BY <2>4, EmitBeforeNt DEF LayerInv
    <2>6. Holds(Piece(nt, nt + 1, "token"))
      BY <2>5 DEF Holds, Piece
    <2>7. nt <= nt + 1 /\ nt < nt + 1
      BY <1>0
    <2>8. Tree(pieces', nt + 1)
      BY <2>1, <2>2, <2>3, <2>6, <2>7, TreeAppend DEF LayerInv
    <2>9. Len(pieces') = Len(s) + 1 /\ Len(s) \in Nat
      BY <2>1, <2>2 DEF Tree
    <2>10. Emitted' = nt + 1
      BY <1>0, <1>3, <1>6, <2>3 DEF Emitted, Upto
    <2>11. QED BY <1>1, <1>2, <2>2, <2>8, <2>9, <2>10, TreeStays
  <1>7. QED BY <1>4, <1>5, <1>6

LEMMA FlushStep ==
  ASSUME LayerInv, Flush(nt), Stays, UNCHANGED cursor, dry' = dry, saved' = saved
  PROVE  CursorInv' /\ TreeInv' /\ Len(pieces') >= Len(pieces)
  <1>0. /\ Last \in Nat /\ Last >= 1 /\ Lexed(raw) /\ nt \in 1..Last
        /\ emit \in 1..(Last + 1) /\ Last' = Last
    BY DEF LayerInv, CursorInv, Lexed, Last, Stays
  <1>1. p' = p /\ nt' = nt /\ nnt' = nnt
    BY DEF cursor
  <1>2. emit' = IF emit < nt THEN nt ELSE emit
    BY DEF Flush
  <1>3. emit' \in 1..(Last + 1)
    BY <1>0, <1>2
  <1>4. Look(emit', nt, nnt, p)
    <2>1. Look(emit, nt, nnt, p)
      BY DEF LayerInv, CursorInv
    <2>2. CASE emit < nt
      <3>1. Significant(raw, origin, nt)
        BY <1>0, <2>2, EmitBeforeNt DEF LayerInv
      <3>2. IsNextSig(raw, origin, nt, nt)
        BY <1>0, <3>1 DEF IsNextSig, Last
      <3>3. ~(nt > Last) /\ emit' = nt
        BY <1>0, <1>2, <2>2
      <3>4. QED BY <2>1, <3>2, <3>3 DEF Look
    <2>3. CASE ~(emit < nt)
      BY <1>2, <2>1, <2>3
    <2>4. QED BY <2>2, <2>3
  <1>5. CursorInv'
    <2>1. Look(emit, nt, nnt, p)'
      BY <1>0, <1>1, <1>4 DEF Look, Stays
    <2>2. QED BY <1>0, <1>1, <1>3, <2>1 DEF LayerInv, CursorInv, Stays
  <1>6. pieces \in Seq(Pieces) /\ Len(pieces) \in Nat
    BY DEF LayerInv, TreeInv, Tree
  <1>7. CASE dry
    <2>1. pieces' = pieces
      BY <1>7 DEF Flush, Flushed
    <2>2. Tree(pieces', Emitted)
      BY <2>1 DEF LayerInv, TreeInv
    <2>3. Emitted' = Emitted
      BY <1>0, <1>7 DEF Emitted, Upto
    <2>4. QED BY <1>5, <1>6, <2>1, <2>2, <2>3, TreeStays
  <1>8. CASE ~dry
    <2>1. pieces' = Put(pieces, emit, nt, "trivia")
      BY <1>8 DEF Flush, Flushed
    <2>2. Tree(pieces', nt) /\ Len(pieces') >= Len(pieces)
      BY <1>8, <2>1, FlushTree DEF LayerInv
    <2>3. Emitted' = nt
      BY <1>0, <1>2, <1>8, EmitBeforeNt DEF Emitted, Upto, LayerInv
    <2>4. QED BY <1>5, <2>2, <2>3, TreeStays
  <1>9. QED BY <1>7, <1>8

LEMMA CpsStay ==
  ASSUME LayerInv, cps' = cps, Len(pieces') \in Nat, Len(pieces') >= Len(pieces)
  PROVE  CpsInv'
  <1>1. Len(pieces) \in Nat
    BY DEF LayerInv, TreeInv, Tree
  <1>2. \A c \in 1..Len(cps) : cps[c] \in 0..Len(pieces')
    BY <1>1 DEF LayerInv, CpsInv, CheckpointsValid
  <1>3. QED BY <1>2 DEF LayerInv, CpsInv, CheckpointsValid

LEMMA SavedStay ==
  ASSUME LayerInv, Stays, cps' = cps, dry' = dry, saved' = saved
  PROVE  SavedInv'
  BY DEF LayerInv, SavedInv, Look, Stays, Last

LEMMA ModeStays ==
  ASSUME LayerInv, Stays, mode' \in Modes, from' \in 0..Last, dry' = dry
  PROVE  ModeInv'
  BY DEF LayerInv, ModeInv, Stays, Last

LEMMA CursorStays ==
  ASSUME LayerInv, Stays, UNCHANGED cursor, emit' = emit
  PROVE  CursorInv'
  BY DEF LayerInv, CursorInv, cursor, Look, Stays, Last

(* The actions that take a token, and the ones that flush.                 *)
LEMMA TakesToken ==
  ASSUME LayerInv, Bump, UNCHANGED <<raw, origin, cps, dry, saved>>,
         mode' \in Modes, from' \in 0..Last
  PROVE  LayerInv'
  <1>1. Stays /\ cps' = cps /\ dry' = dry /\ saved' = saved
    BY DEF Stays
  <1>2. CursorInv' /\ TreeInv' /\ Len(pieces') >= Len(pieces)
    BY <1>1, BumpStep
  <1>3. Len(pieces') \in Nat
    BY <1>2 DEF TreeInv, Tree
  <1>4. QED BY <1>1, <1>2, <1>3, CpsStay, SavedStay, ModeStays DEF LayerInv

LEMMA Flushes ==
  ASSUME LayerInv, Flush(nt), UNCHANGED <<raw, origin, cursor, cps, dry, saved>>,
         mode' \in Modes, from' \in 0..Last
  PROVE  LayerInv'
  <1>1. Stays /\ cps' = cps /\ dry' = dry /\ saved' = saved /\ UNCHANGED cursor
    BY DEF Stays
  <1>2. CursorInv' /\ TreeInv' /\ Len(pieces') >= Len(pieces)
    BY <1>1, FlushStep
  <1>3. Len(pieces') \in Nat
    BY <1>2 DEF TreeInv, Tree
  <1>4. QED BY <1>1, <1>2, <1>3, CpsStay, SavedStay, ModeStays DEF LayerInv

(* The checkpoint taken last points to the end of the tree.                *)
LEMMA CheckpointTaken ==
  ASSUME LayerInv, TakeCheckpoint
  PROVE  LayerInv'
  <1>1. /\ Stays /\ dry' = dry /\ saved' = saved /\ UNCHANGED cursor
        /\ mode' = mode /\ from' = from
    BY DEF TakeCheckpoint, Stays
  <1>2. CursorInv' /\ TreeInv' /\ Len(pieces') >= Len(pieces)
    BY <1>1, FlushStep DEF TakeCheckpoint
  <1>3. Len(pieces') \in Nat /\ Len(pieces) \in Nat
    BY <1>2 DEF LayerInv, TreeInv, Tree
  <1>4. cps' = Append(cps, Len(pieces')) /\ cps \in Seq(Nat)
    BY DEF TakeCheckpoint, LayerInv, CpsInv
  <1>5. /\ cps' \in Seq(Nat) /\ Len(cps') = Len(cps) + 1
        /\ cps'[Len(cps) + 1] = Len(pieces')
        /\ \A c \in 1..Len(cps) : cps'[c] = cps[c]
        /\ Len(cps) \in Nat
    BY <1>3, <1>4
  <1>6. \A c \in 1..Len(cps) : cps[c] \in 0..Len(pieces) /\ cps'[c] \in 0..Len(pieces')
    <2>1. \A c \in 1..Len(cps) : cps[c] \in 0..Len(pieces)
      BY DEF LayerInv, CpsInv, CheckpointsValid
    <2>2. \A c \in 1..Len(cps) : cps'[c] = cps[c]
      BY <1>5
    <2> QED
      BY <1>2, <1>3, <2>1, <2>2
  <1>7. \A c \in 1..Len(cps') : c \in 1..Len(cps) \/ c = Len(cps) + 1
    BY <1>5
  <1>8. \A c \in 1..Len(cps') : cps'[c] \in 0..Len(pieces')
    BY <1>3, <1>5, <1>6, <1>7
  <1>9. \A c, d \in 1..Len(cps') : c <= d => cps'[c] <= cps'[d]
    <2>1. ASSUME NEW c \in 1..Len(cps'), NEW d \in 1..Len(cps'), c <= d
          PROVE  cps'[c] <= cps'[d]
      <3>1. CASE d = Len(cps) + 1
        BY <1>3, <1>5, <1>8, <3>1
      <3>2. CASE d \in 1..Len(cps)
        <4>1. c \in 1..Len(cps)
          BY <1>5, <2>1, <3>2
        <4>2. cps[c] <= cps[d]
          BY <2>1, <3>2, <4>1 DEF LayerInv, CpsInv, CheckpointsValid
        <4>3. QED BY <1>5, <3>2, <4>1, <4>2
      <3>3. QED BY <1>7, <3>1, <3>2
    <2>2. QED BY <2>1
  <1>10. CpsInv'
    BY <1>5, <1>8, <1>9 DEF CpsInv, CheckpointsValid
  <1>11. SavedInv'
    <2>1. dry => saved.open \in 0..Len(cps')
      BY <1>5 DEF LayerInv, SavedInv
    <2>2. QED BY <1>1, <2>1 DEF LayerInv, SavedInv, Look, Stays, Last
  <1>12. ModeInv'
    BY <1>1 DEF LayerInv, ModeInv, Stays, Last
  <1>13. QED BY <1>2, <1>10, <1>11, <1>12 DEF LayerInv

(* A production gives up its checkpoint.                                   *)
Popped == SubSeq(cps, 1, Len(cps) - 1)

LEMMA PoppedFacts ==
  ASSUME LayerInv, MayClose
  PROVE  /\ Popped \in Seq(Nat) /\ Len(Popped) = Len(cps) - 1
         /\ \A c \in 1..Len(Popped) : Popped[c] = cps[c] /\ c \in 1..Len(cps)
         /\ Len(cps) \in Nat /\ Len(cps) >= 1
         /\ dry => saved.open \in 0..Len(Popped)
  <1>1. cps \in Seq(Nat) /\ cps # << >>
    BY DEF LayerInv, CpsInv, MayClose
  <1>2. Len(cps) \in Nat /\ Len(cps) >= 1
    BY <1>1
  <1>3. Popped \in Seq(Nat) /\ Len(Popped) = Len(cps) - 1
    <2> DEFINE n == Len(cps) - 1
    <2>1. n \in 0..Len(cps) /\ Popped = SubSeq(cps, 1, n)
      BY <1>2 DEF Popped
    <2> HIDE DEF n
    <2>2. Popped \in Seq(Nat) /\ Len(Popped) = n
      BY <1>1, <2>1
    <2>3. QED BY <2>2 DEF n
  <1>4. \A c \in 1..Len(Popped) : Popped[c] = cps[c] /\ c \in 1..Len(cps)
    BY <1>1, <1>2, <1>3 DEF Popped
  <1>5. dry => saved.open \in 0..Len(Popped)
    <2>1. dry => saved.open \in 0..Len(cps) /\ Len(cps) > saved.open
      BY DEF LayerInv, SavedInv, MayClose
    <2>2. QED BY <1>2, <1>3, <2>1
  <1>6. QED BY <1>2, <1>3, <1>4, <1>5

(* Dropping the last checkpoint keeps those before it in order.            *)
LEMMA CpsPopped ==
  ASSUME LayerInv, MayClose, cps' = Popped, Len(pieces') \in Nat,
         \A c \in 1..Len(Popped) : cps[c] <= Len(pieces')
  PROVE  CpsInv'
  <1>1. \A c \in 1..Len(cps) : cps[c] \in 0..Len(pieces)
    BY DEF LayerInv, CpsInv, CheckpointsValid
  <1>2. \A c \in 1..Len(cps') : cps'[c] \in 0..Len(pieces')
    BY <1>1, PoppedFacts DEF LayerInv, TreeInv, Tree
  <1>3. \A c, d \in 1..Len(cps') : c <= d => cps'[c] <= cps'[d]
    BY PoppedFacts DEF LayerInv, CpsInv, CheckpointsValid
  <1>4. cps' \in Seq(Nat)
    BY PoppedFacts
  <1>5. QED BY <1>2, <1>3, <1>4 DEF CpsInv, CheckpointsValid

LEMMA NodeClosed ==
  ASSUME LayerInv, NEW again \in BOOLEAN, CloseNode(again)
  PROVE  LayerInv'
  <1>1. /\ Stays /\ dry' = dry /\ saved' = saved /\ UNCHANGED cursor
        /\ mode' = mode /\ from' = from /\ emit' = emit /\ MayClose
        /\ pieces' = IF dry THEN pieces ELSE Wrapped(cps[Len(cps)])
        /\ cps' = IF again THEN cps ELSE Popped
    BY DEF CloseNode, Stays, Popped
  <1> DEFINE last == cps[Len(cps)]
  <1>2. Len(cps) \in Nat /\ Len(cps) >= 1 /\ Len(pieces) \in Nat
    BY <1>1, PoppedFacts DEF LayerInv, TreeInv, Tree
  <1>3. last \in 0..Len(pieces) /\ \A c \in 1..Len(cps) : cps[c] \in Nat /\ cps[c] <= last
    BY <1>2 DEF LayerInv, CpsInv, CheckpointsValid
  <1>4. Emitted' = Emitted
    BY <1>1 DEF Emitted, Upto, Last, Stays
  <1>5. /\ Tree(pieces', Emitted)
        /\ Len(pieces') = IF dry THEN Len(pieces) ELSE last + 1
    <2>1. CASE dry
      BY <1>1, <2>1 DEF LayerInv, TreeInv
    <2>2. CASE ~dry
      <3>1. Tree(Wrapped(last), Upto(emit)) /\ Len(Wrapped(last)) = last + 1
        BY <1>3, <2>2, WrapTree DEF LayerInv
      <3>2. Emitted = Upto(emit)
        BY <2>2 DEF Emitted
      <3>3. QED BY <1>1, <2>2, <3>1, <3>2
    <2>3. QED BY <2>1, <2>2
  <1>6. TreeInv'
    BY <1>1, <1>4, <1>5, TreeStays
  <1>7. /\ Len(pieces') \in Nat
        /\ \A c \in 1..Len(cps) : cps[c] \in 0..Len(pieces')
    <2>1. last + 1 \in Nat /\ last \in Nat
      BY <1>2, <1>3
    <2>2. \A c \in 1..Len(cps) : cps[c] \in 0..Len(pieces)
      BY DEF LayerInv, CpsInv, CheckpointsValid
    <2> HIDE DEF last
    <2>3. QED BY <1>2, <1>3, <1>5, <2>1, <2>2
  <1>8. CASE again
    <2>1. cps' = cps
      BY <1>1, <1>8
    <2>2. CpsInv'
      BY <1>7, <2>1 DEF LayerInv, CpsInv, CheckpointsValid
    <2>3. QED BY <1>1, <1>6, <2>1, <2>2, CursorStays, SavedStay, ModeStays
              DEF LayerInv, ModeInv
  <1>9. CASE ~again
    <2>1. cps' = Popped
      BY <1>1, <1>9
    <2>2. \A c \in 1..Len(Popped) : cps[c] <= Len(pieces')
      BY <1>1, <1>7, PoppedFacts
    <2>3. CpsInv'
      BY <1>1, <1>7, <2>1, <2>2, CpsPopped
    <2>4. SavedInv'
      BY <1>1, <2>1, PoppedFacts DEF LayerInv, SavedInv, Look, Stays, Last
    <2>5. QED BY <1>1, <1>6, <2>3, <2>4, CursorStays, ModeStays DEF LayerInv, ModeInv
  <1>10. QED BY <1>8, <1>9

LEMMA CheckpointDropped ==
  ASSUME LayerInv, DropCheckpoint
  PROVE  LayerInv'
  <1>1. /\ Stays /\ dry' = dry /\ saved' = saved /\ UNCHANGED cursor
        /\ mode' = mode /\ from' = from /\ emit' = emit /\ MayClose
        /\ pieces' = pieces /\ cps' = Popped
    BY DEF DropCheckpoint, Stays, Popped
  <1>2. Tree(pieces', Emitted) /\ Emitted' = Emitted
    BY <1>1 DEF LayerInv, TreeInv, Emitted, Upto, Last, Stays
  <1>3. TreeInv'
    BY <1>1, <1>2, TreeStays
  <1>4. Len(pieces') \in Nat
    BY <1>1 DEF LayerInv, TreeInv, Tree
  <1>5. \A c \in 1..Len(Popped) : cps[c] <= Len(pieces')
    BY <1>1, <1>4, PoppedFacts DEF LayerInv, CpsInv, CheckpointsValid
  <1>6. CpsInv'
    BY <1>1, <1>4, <1>5, CpsPopped
  <1>7. SavedInv'
    BY <1>1, PoppedFacts DEF LayerInv, SavedInv, Look, Stays, Last
  <1>8. QED BY <1>1, <1>3, <1>6, <1>7, CursorStays, ModeStays DEF LayerInv, ModeInv

LEMMA LenientBegun ==
  ASSUME LayerInv, LenientIdentifier
  PROVE  LayerInv'
  <1>1. /\ Stays /\ dry' = dry /\ saved' = saved /\ UNCHANGED cursor
        /\ mode' \in Modes /\ from' = nt /\ emit' = emit
        /\ pieces' = pieces /\ cps' = cps
    BY DEF LenientIdentifier, Stays, Modes
  <1>2. from' \in 0..Last
    BY <1>1 DEF LayerInv, CursorInv
  <1>3. Tree(pieces', Emitted) /\ Emitted' = Emitted
    BY <1>1 DEF LayerInv, TreeInv, Emitted, Upto, Last, Stays
  <1>4. TreeInv'
    BY <1>1, <1>3, TreeStays
  <1>5. Len(pieces') \in Nat /\ Len(pieces') >= Len(pieces)
    BY <1>1 DEF LayerInv, TreeInv, Tree
  <1>6. QED BY <1>1, <1>2, <1>4, <1>5, CursorStays, CpsStay, SavedStay, ModeStays
            DEF LayerInv

(* The dry run saves a cursor that is exact, and gives it back.            *)
LEMMA DryBegun ==
  ASSUME LayerInv, DryBegin
  PROVE  LayerInv'
  <1>1. /\ Stays /\ dry = FALSE /\ dry' = TRUE /\ UNCHANGED cursor
        /\ saved' = [p |-> p, nt |-> nt, nnt |-> nnt, emit |-> emit, open |-> Len(cps)]
        /\ mode' = mode /\ from' = from /\ emit' = emit
        /\ pieces' = pieces /\ cps' = cps
    BY DEF DryBegin, Stays
  <1>2. Tree(pieces', Emitted) /\ Emitted' = Emitted
    BY <1>1 DEF LayerInv, TreeInv, Emitted, Upto, Last, Stays
  <1>3. TreeInv'
    BY <1>1, <1>2, TreeStays
  <1>4. Len(pieces') \in Nat /\ Len(pieces') >= Len(pieces)
    BY <1>1 DEF LayerInv, TreeInv, Tree
  <1>5. SavedInv'
    <2>1. Len(cps) \in 0..Len(cps)
      BY DEF LayerInv, CpsInv
    <2>2. QED BY <1>1, <2>1 DEF LayerInv, CursorInv, SavedInv, Look, Stays, Last
  <1>6. dry' \in BOOLEAN
    BY <1>1
  <1>7. ModeInv'
    BY <1>1, <1>6 DEF LayerInv, ModeInv, Stays, Last
  <1>8. QED BY <1>1, <1>3, <1>4, <1>5, <1>7, CursorStays, CpsStay DEF LayerInv

LEMMA DryEnded ==
  ASSUME LayerInv, DryEnd
  PROVE  LayerInv'
  <1>1. /\ Stays /\ dry = TRUE /\ dry' = FALSE
        /\ p' = saved.p /\ nt' = saved.nt /\ nnt' = saved.nnt /\ emit' = saved.emit
        /\ mode' = mode /\ from' = from /\ pieces' = pieces /\ cps' = cps
    BY DEF DryEnd, Stays
  <1>2. /\ saved \in [p : 1..Last, nt : 1..Last, nnt : 1..Last,
                      emit : 1..(Last + 1), open : 0..Len(cps)]
        /\ Look(saved.emit, saved.nt, saved.nnt, saved.p)
    BY <1>1 DEF LayerInv, SavedInv
  <1>3. CursorInv'
    <2>1. /\ saved.p \in 1..Last /\ saved.nt \in 1..Last /\ saved.nnt \in 1..Last
          /\ saved.emit \in 1..(Last + 1)
      BY <1>2
    <2>2. Look(emit, nt, nnt, p)'
      BY <1>1, <1>2 DEF Look, Stays, Last
    <2>3. QED BY <1>1, <2>1, <2>2 DEF LayerInv, CursorInv, Stays, Last
  <1>4. Tree(pieces', Emitted) /\ Emitted' = Emitted
    BY <1>1 DEF LayerInv, TreeInv, Emitted, Upto, Last, Stays
  <1>5. TreeInv'
    BY <1>1, <1>4, TreeStays
  <1>6. Len(pieces') \in Nat /\ Len(pieces') >= Len(pieces)
    BY <1>1 DEF LayerInv, TreeInv, Tree
  <1>7. dry' \in BOOLEAN
    BY <1>1
  <1>8. ModeInv'
    BY <1>1, <1>7 DEF LayerInv, ModeInv, Stays, Last
  <1>9. SavedInv'
    BY <1>1 DEF SavedInv
  <1>10. QED BY <1>1, <1>3, <1>5, <1>6, <1>8, <1>9, CpsStay DEF LayerInv

(* After a SPICE region everything emitted lies before the new origin.     *)
LEMMA HandedOff ==
  ASSUME LayerInv, NEW o \in 1..Last, Handoff(o)
  PROVE  LayerInv'
  <1>0. /\ Last \in Nat /\ Last >= 1 /\ Lexed(raw) /\ emit \in 1..(Last + 1)
        /\ raw' = raw /\ Last' = Last
    BY DEF LayerInv, CursorInv, Lexed, Last, Handoff
  <1>1. /\ dry = FALSE /\ dry' = dry /\ saved' = saved /\ cps' = cps
        /\ mode' = mode /\ from' = from /\ emit' = o /\ origin' = o
        /\ o >= Upto(emit)
        /\ pieces' = Append(pieces, Piece(Upto(emit), o, "region"))
    BY DEF Handoff
  <1>2. CursorInv'
    <2>1. PICK i \in o..Last, j \in o..Last, q \in o..Last :
            /\ IsNextSig(raw, o, o, i) /\ q = After(raw, i) /\ nt' = i
            /\ IsNextSig(raw, o, q, j) /\ p' = After(raw, j) /\ nnt' = j
      BY DEF Handoff, Lookahead, NextToken
    <2>2. i \in 1..Last /\ j \in 1..Last
      BY <2>1
    <2>3. p' \in 1..Last
      BY <1>0, <2>1, <2>2, EndIsLast
    <2>4. ~(o > Last) /\ o \in 1..(Last + 1)
      BY <1>0
    <2>5. Look(emit, nt, nnt, p)'
      BY <1>0, <1>1, <2>1, <2>4 DEF Look
    <2>6. QED BY <1>0, <1>1, <2>1, <2>2, <2>3, <2>4, <2>5 DEF CursorInv
  <1>3. Tree(pieces, Upto(emit)) /\ pieces \in Seq(Pieces) /\ Len(pieces) \in Nat
    BY <1>1 DEF LayerInv, TreeInv, Emitted, Tree
  <1>4. Holds(Piece(Upto(emit), o, "region"))
    BY DEF Holds, Piece
  <1>5. Tree(pieces', o)
    <2>1. Upto(emit) <= o
      BY <1>0, <1>1 DEF Upto
    <2>2. QED BY <1>1, <1>3, <1>4, <2>1, TreeAppend DEF LayerInv
  <1>6. ASSUME NEW k \in 1..Len(pieces')
        PROVE  Holds(pieces[k])'
    <2>1. pieces'[k] \in Pieces
      BY <1>5 DEF Tree
    <2>2. /\ pieces'[k].to <= o
          /\ pieces'[k].kind \in {"token", "trivia"} => pieces'[k].from < pieces'[k].to
      BY <1>5 DEF Tree, Tiled
    <2>3. pieces'[k].kind \in {"token", "trivia"} => ~(pieces'[k].from >= o)
      BY <1>0, <2>1, <2>2 DEF Pieces
    <2>4. QED BY <1>1, <2>3 DEF Holds
  <1>7. Emitted' = o
    BY <1>0, <1>1 DEF Emitted, Upto
  <1>8. TreeInv'
    <2>1. pieces' \in Seq(Pieces) /\ Tiled(pieces', o)
      BY <1>5 DEF Tree
    <2>2. (pieces \in Seq(Pieces) /\ Tiled(pieces, Emitted))'
      BY <1>0, <1>7, <2>1 DEF Pieces, Tiled
    <2>3. (\A k \in 1..Len(pieces) : Holds(pieces[k]))'
      BY <1>6
    <2>4. (Emitted \in 1..Last)'
      BY <1>0, <1>7
    <2>5. QED BY <2>2, <2>3, <2>4 DEF TreeInv, Tree
  <1>9. Len(pieces') \in Nat /\ Len(pieces') >= Len(pieces)
    BY <1>1, <1>3
  <1>10. SavedInv'
    BY <1>1 DEF SavedInv
  <1>11. ModeInv'
    BY <1>0, <1>1 DEF LayerInv, ModeInv
  <1>12. QED BY <1>1, <1>2, <1>8, <1>9, <1>10, <1>11, CpsStay DEF LayerInv

LEMMA FileFinished ==
  ASSUME LayerInv, Finish
  PROVE  LayerInv'
  <1>1. /\ Stays /\ dry = FALSE /\ dry' = dry /\ saved' = saved /\ cps' = cps
        /\ UNCHANGED cursor /\ mode' = "done" /\ from' = from
        /\ emit' = Last + 1 /\ raw[nt] = "end"
        /\ pieces' = Put(pieces, emit, Last, "trivia")
    BY DEF Finish, Stays
  <1>2. Last \in Nat /\ Last >= 1 /\ Lexed(raw) /\ nt \in 1..Last /\ Last' = Last
    BY <1>1 DEF LayerInv, CursorInv, Lexed, Last, Stays
  <1>3. nt = Last
    BY <1>1, <1>2, EndIsLast
  <1>4. Tree(pieces', Last) /\ Len(pieces') >= Len(pieces)
    BY <1>1, <1>3, FlushTree DEF LayerInv
  <1>5. Emitted' = Last
    BY <1>1, <1>2 DEF Emitted, Upto
  <1>6. TreeInv'
    BY <1>1, <1>4, <1>5, TreeStays
  <1>7. CursorInv'
    <2>1. Look(Last + 1, nt, nnt, p)
      <3>1. Last + 1 > Last
        BY <1>2
      <3>2. QED BY <1>3, <3>1 DEF LayerInv, CursorInv, Look
    <2>2. Look(emit, nt, nnt, p)'
      BY <1>1, <1>2, <2>1 DEF Look, Stays, cursor
    <2>3. emit' \in 1..(Last' + 1)
      BY <1>1, <1>2
    <2>4. QED BY <1>1, <1>2, <2>2, <2>3 DEF LayerInv, CursorInv, Stays, cursor
  <1>8. Len(pieces') \in Nat
    BY <1>4 DEF Tree
  <1>9. ModeInv'
    <2>1. mode' \in Modes
      BY <1>1 DEF Modes
    <2>2. from' \in 0..Last
      BY <1>1 DEF LayerInv, ModeInv
    <2>3. QED BY <1>1, <2>1, <2>2, ModeStays
  <1>10. QED BY <1>1, <1>4, <1>6, <1>7, <1>8, <1>9, CpsStay, SavedStay DEF LayerInv

LEMMA RegionLeft ==
  ASSUME LayerInv, LeaveRegion
  PROVE  LayerInv'
  <1>1. /\ Stays /\ dry' = dry /\ saved' = saved /\ UNCHANGED cursor
        /\ mode' \in Modes /\ from' = from /\ emit' = emit
        /\ pieces' = pieces /\ cps' = cps
    BY DEF LeaveRegion, Stays, Modes
  <1>2. Tree(pieces', Emitted) /\ Emitted' = Emitted
    BY <1>1 DEF LayerInv, TreeInv, Emitted, Upto, Last, Stays
  <1>3. TreeInv'
    BY <1>1, <1>2, TreeStays
  <1>4. Len(pieces') \in Nat /\ Len(pieces') >= Len(pieces)
    BY <1>1 DEF LayerInv, TreeInv, Tree
  <1>5. QED BY <1>1, <1>3, <1>4, CursorStays, CpsStay, SavedStay, ModeStays
            DEF LayerInv, ModeInv

LEMMA NothingHappens ==
  ASSUME LayerInv, UNCHANGED vars
  PROVE  LayerInv'
  <1>1. /\ Stays /\ dry' = dry /\ saved' = saved /\ UNCHANGED cursor
        /\ mode' = mode /\ from' = from /\ emit' = emit
        /\ pieces' = pieces /\ cps' = cps
    BY DEF vars, Stays
  <1>2. Tree(pieces', Emitted) /\ Emitted' = Emitted
    BY <1>1 DEF LayerInv, TreeInv, Emitted, Upto, Last, Stays
  <1>3. TreeInv'
    BY <1>1, <1>2, TreeStays
  <1>4. Len(pieces') \in Nat /\ Len(pieces') >= Len(pieces)
    BY <1>1 DEF LayerInv, TreeInv, Tree
  <1>5. QED BY <1>1, <1>3, <1>4, CursorStays, CpsStay, SavedStay, ModeStays
            DEF LayerInv, ModeInv

-----------------------------------------------------------------------------
LEMMA LayerInit ==
  ASSUME Init
  PROVE  LayerInv
  <1>1. Lexed(raw) /\ Last \in Nat /\ Last >= 1
    BY StreamsAssumption DEF Init, Lexed, Last
  <1>2. /\ origin = 1 /\ emit = 1 /\ pieces = << >> /\ cps = << >>
        /\ mode = "parse" /\ from = 0 /\ dry = FALSE
    BY DEF Init
  <1>3. PICK i \in 1..Last, j \in 1..Last, q \in 1..Last :
          /\ IsNextSig(raw, 1, 1, i) /\ q = After(raw, i) /\ nt = i
          /\ IsNextSig(raw, 1, q, j) /\ p = After(raw, j) /\ nnt = j
    BY DEF Init, NextToken
  <1>4. CursorInv
    <2>1. p \in 1..Last
      BY <1>1, <1>3, EndIsLast
    <2>2. ~(emit > Last) /\ emit \in 1..(Last + 1) /\ origin \in 1..Last
      BY <1>1, <1>2
    <2>3. Look(emit, nt, nnt, p)
      BY <1>2, <1>3, <2>2 DEF Look
    <2>4. QED BY <1>1, <1>3, <2>1, <2>2, <2>3 DEF CursorInv
  <1>5. TreeInv
    <2>1. Emitted = 1 /\ Len(pieces) = 0
      BY <1>1, <1>2 DEF Emitted, Upto
    <2>2. pieces \in Seq(Pieces)
      BY <1>2
    <2>3. QED BY <1>1, <1>2, <2>1, <2>2 DEF TreeInv, Tree, Tiled
  <1>6. CpsInv
    BY <1>2 DEF CpsInv, CheckpointsValid
  <1>7. ModeInv
    <2>1. dry \in BOOLEAN
      BY <1>2
    <2>2. QED BY <1>1, <1>2, <2>1 DEF ModeInv, Modes
  <1>8. SavedInv
    BY <1>2 DEF SavedInv
  <1>9. QED BY <1>4, <1>5, <1>6, <1>7, <1>8 DEF LayerInv

LEMMA LayerStep ==
  ASSUME LayerInv, [Next]_vars
  PROVE  LayerInv'
  <1>0. from \in 0..Last /\ mode \in Modes /\ nt \in 1..Last /\ 0 \in 0..Last
    BY DEF LayerInv, ModeInv, CursorInv, Lexed, Last
  <1>1. CASE Take
    BY <1>0, <1>1, TakesToken DEF Take
  <1>2. CASE AtEnd
    BY <1>0, <1>2, Flushes DEF AtEnd
  <1>3. CASE ErrorInLine
    <2>1. nt \in 0..Last
      BY <1>0
    <2>2. mode' \in Modes /\ from' \in 0..Last
      BY <1>3, <2>1 DEF ErrorInLine, Modes
    <2>3. QED BY <1>3, <2>2, TakesToken DEF ErrorInLine
  <1>4. CASE LenientIdentifier
    BY <1>4, LenientBegun
  <1>5. CASE EatLine
    BY <1>0, <1>5, TakesToken DEF EatLine
  <1>6. CASE EatNewline
    <2>1. mode' \in Modes /\ from' \in 0..Last
      BY <1>0, <1>6 DEF EatNewline, Modes
    <2>2. QED BY <1>6, <2>1, TakesToken DEF EatNewline
  <1>7. CASE StopAtEnd
    <2>1. mode' \in Modes /\ from' \in 0..Last
      BY <1>0, <1>7 DEF StopAtEnd, Modes
    <2>2. QED BY <1>7, <2>1, Flushes DEF StopAtEnd
  <1>8. CASE TakeAnything
    <2>1. mode' \in Modes /\ from' \in 0..Last
      BY <1>0, <1>8 DEF TakeAnything, Modes
    <2>2. QED BY <1>8, <2>1, TakesToken DEF TakeAnything
  <1>9. CASE TakeCheckpoint
    BY <1>9, CheckpointTaken
  <1>10. CASE CloseNode(TRUE)
    BY <1>10, NodeClosed
  <1>11. CASE CloseNode(FALSE)
    BY <1>11, NodeClosed
  <1>12. CASE DropCheckpoint
    BY <1>12, CheckpointDropped
  <1>13. CASE DryBegin
    BY <1>13, DryBegun
  <1>14. CASE DryEnd
    BY <1>14, DryEnded
  <1>15. CASE \E o \in 1..Last : Handoff(o)
    BY <1>15, HandedOff
  <1>16. CASE Finish
    BY <1>16, FileFinished
  <1>17. CASE LeaveRegion
    BY <1>17, RegionLeft
  <1>18. CASE Finished \/ UNCHANGED vars
    BY <1>18, NothingHappens DEF Finished
  <1>19. QED
    BY <1>1, <1>2, <1>3, <1>4, <1>5, <1>6, <1>7, <1>8, <1>9, <1>10, <1>11,
       <1>12, <1>13, <1>14, <1>15, <1>16, <1>17, <1>18 DEF Next, Recovery

(* The inductive invariant of the token layer.                             *)
THEOREM LayerInvariant == Spec => []LayerInv
  <1>1. Init => LayerInv
    BY LayerInit
  <1>2. LayerInv /\ [Next]_vars => LayerInv'
    BY LayerStep
  <1>3. QED BY <1>1, <1>2, PTL DEF Spec

(* The variables of the token layer have their types: every index is that  *)
(* of a raw token, so no access to Parser.raw is out of bounds.            *)
THEOREM TypeCorrect == Spec => []TypeOK
  <1>1. LayerInv => TypeOK
    <2> SUFFICES ASSUME LayerInv PROVE TypeOK
      OBVIOUS
    <2>1. Lexed(raw) /\ {origin, p, nt, nnt} \subseteq 1..Last /\ emit \in 1..(Last + 1)
      BY DEF LayerInv, CursorInv
    <2>2. pieces \in Seq(Pieces)
      BY DEF LayerInv, TreeInv, Tree
    <2>3. cps \in Seq(Nat) /\ mode \in Modes /\ from \in 0..Last /\ dry \in BOOLEAN
      BY DEF LayerInv, CpsInv, ModeInv
    <2>4. dry => saved \in [p : 1..Last, nt : 1..Last, nnt : 1..Last,
                           emit : 1..(Last + 1), open : 0..Len(cps)]
      BY DEF LayerInv, SavedInv
    <2>5. QED BY <2>1, <2>2, <2>3, <2>4 DEF TypeOK, Pieces
  <1>2. QED BY <1>1, LayerInvariant, PTL

(* The tree tiles the text emitted so far, whatever the grammar does.      *)
THEOREM TreeAlwaysTiles == Spec => []TreeTiles
  <1>1. LayerInv => TreeTiles
    BY DEF LayerInv, TreeInv, Tree, Tiled, TreeTiles
  <1>2. QED BY <1>1, LayerInvariant, PTL

(* The lookahead is never stale.                                           *)
THEOREM LookaheadAlwaysExact == Spec => []LookaheadExact
  <1>1. LayerInv => LookaheadExact
    BY DEF LayerInv, CursorInv, Look, LookaheadExact
  <1>2. QED BY <1>1, LayerInvariant, PTL

(* No significant token is flushed as trivia.                              *)
THEOREM LeavesAlwaysSignificant == Spec => []LeavesAreSignificant
  <1>1. LayerInv => LeavesAreSignificant
    BY DEF LayerInv, TreeInv, Tree, Holds, LeavesAreSignificant
  <1>2. QED BY <1>1, LayerInvariant, PTL

(* No checkpoint is ever past the end of the tree: start_node_at cannot    *)
(* panic.                                                                  *)
THEOREM CheckpointsAlwaysValid == Spec => []CheckpointsValid
  <1>1. LayerInv => CheckpointsValid
    BY DEF LayerInv, CpsInv
  <1>2. QED BY <1>1, LayerInvariant, PTL

-----------------------------------------------------------------------------
(* While error recovers, it has eaten the token it began at, and since     *)
(* then no newline that ends a line.                                       *)
RecoveryInv ==
  mode = "error" =>
    /\ from < emit
    /\ \A h \in from..(emit - 1) : raw[h] = "nl" => ~Significant(raw, origin, h)

(* What is eaten next: up to nt nothing is significant.                    *)
LEMMA NextEaten ==
  ASSUME LayerInv, RecoveryInv, mode = "error"
  PROVE  /\ nt \in 1..Last /\ emit \in 1..(Last + 1) /\ from \in 0..Last /\ Last \in Nat
         /\ from < emit
         /\ nt # Last => emit <= nt /\ Significant(raw, origin, nt)
         /\ \A h \in from..(nt - 1) : raw[h] = "nl" => ~Significant(raw, origin, h)
         /\ raw[nt] = "end" <=> nt = Last
  <1>1. /\ CursorInv /\ Lexed(raw) /\ nt \in 1..Last /\ emit \in 1..(Last + 1)
        /\ from \in 0..Last
    BY DEF LayerInv, CursorInv, ModeInv
  <1>2. Last \in Nat /\ (raw[nt] = "end" <=> nt = Last)
    BY <1>1, EndIsLast
  <1>3. /\ from < emit
        /\ \A h \in from..(emit - 1) : raw[h] = "nl" => ~Significant(raw, origin, h)
    BY DEF RecoveryInv
  <1>4. /\ emit <= nt \/ (emit = Last + 1 /\ nt = Last)
        /\ emit <= nt => /\ Significant(raw, origin, nt)
                         /\ \A h \in emit..(nt - 1) : ~Significant(raw, origin, h)
    BY <1>1, EmitBeforeNt
  <1>5. ASSUME NEW h \in from..(nt - 1), raw[h] = "nl"
        PROVE  ~Significant(raw, origin, h)
    <2>1. h \in from..(emit - 1) \/ (emit <= nt /\ h \in emit..(nt - 1))
      BY <1>1, <1>2, <1>4
    <2> QED
      BY <1>3, <1>4, <1>5, <2>1
  <1> QED
    BY <1>1, <1>2, <1>3, <1>4, <1>5

LEMMA RecoveryStep ==
  ASSUME LayerInv, RecoveryInv, [Next]_vars
  PROVE  RecoveryInv' /\ (Recovered("error") => OneLine(from, emit'))
  <1>1. CASE EatLine /\ mode = "error"
    <2>1. /\ emit' = nt + 1 /\ raw' = raw /\ origin' = origin /\ mode' = "error"
          /\ from' = from /\ raw[nt] # "nl" /\ raw[nt] # "end"
      BY <1>1 DEF EatLine, Bump, Eol
    <2>2. \A h \in from..nt : raw[h] = "nl" => ~Significant(raw, origin, h)
      BY <1>1, <2>1, NextEaten
    <2>3. from < nt + 1
      BY <1>1, <2>1, NextEaten
    <2>4. RecoveryInv'
      BY <1>1, <2>1, <2>2, <2>3, NextEaten DEF RecoveryInv
    <2> QED
      BY <2>1, <2>4 DEF Recovered
  <1>2. CASE EatNewline /\ mode = "error"
    <2>1. /\ emit' = nt + 1 /\ mode' = "parse" /\ raw[nt] = "nl" /\ raw[nt] # "end"
      BY <1>2 DEF EatNewline, Bump
    <2>2. /\ Significant(raw, origin, nt) /\ nt \in Nat
          /\ \A h \in from..(nt - 1) : raw[h] = "nl" => ~Significant(raw, origin, h)
      BY <1>2, <2>1, NextEaten
    <2>3. emit' - 2 = nt - 1 /\ emit' - 1 = nt
      BY <2>1, <2>2
    <2> QED
      BY <2>1, <2>2, <2>3 DEF RecoveryInv, OneLine
  <1>3. CASE StopAtEnd
    <2>1. mode = "error" /\ mode' = "parse" /\ raw[nt] = "end"
      BY <1>3 DEF StopAtEnd, Eol
    <2>2. emit' = IF emit < nt THEN nt ELSE emit
      BY <1>3 DEF StopAtEnd, Flush
    <2>3. nt = Last /\ emit' \in {Last, Last + 1} /\ Last \in Nat
      BY <2>1, <2>2, NextEaten
    <2>4. \A h \in from..(emit' - 2) : raw[h] = "nl" => ~Significant(raw, origin, h)
      <3>1. \A h \in from..(nt - 1) : raw[h] = "nl" => ~Significant(raw, origin, h)
        BY <2>1, NextEaten
      <3>2. from \in Nat
        BY <2>1, <2>3, NextEaten
      <3>3. PICK e, n \in Nat : e = emit' /\ n = nt /\ e <= n + 1
        BY <2>3
      <3>4. e <= n + 1
        BY <3>3
      <3>5. \A f \in Nat : \A h \in f..(e - 2) : h \in f..(n - 1)
        BY ONLY <3>4, e \in Nat, n \in Nat
      <3> QED
        BY <3>1, <3>2, <3>3, <3>5
    <2>5. Upto(emit') = Last
      BY <2>3 DEF Upto
    <2> QED
      BY <2>1, <2>4, <2>5 DEF RecoveryInv, OneLine
  <1>4. CASE ErrorInLine
    <2>1. /\ emit' = nt + 1 /\ raw' = raw /\ origin' = origin /\ mode = "parse"
          /\ from' = nt /\ raw[nt] # "nl"
      BY <1>4 DEF ErrorInLine, Bump, Eol, InGrammar
    <2>2. nt \in Nat
      BY DEF LayerInv, CursorInv
    <2> QED
      BY <2>1, <2>2 DEF RecoveryInv, Recovered
  <1>5. CASE mode' = mode /\ emit' = emit /\ raw' = raw /\ origin' = origin /\ from' = from
    BY <1>5 DEF RecoveryInv, Recovered
  <1>6. CASE mode # "error" /\ mode' # "error"
    BY <1>6 DEF RecoveryInv, Recovered
  <1>7. \/ EatLine /\ mode = "error"
        \/ EatNewline /\ mode = "error"
        \/ StopAtEnd
        \/ ErrorInLine
        \/ mode' = mode /\ emit' = emit /\ raw' = raw /\ origin' = origin /\ from' = from
        \/ mode # "error" /\ mode' # "error"
    BY DEF Next, Recovery, Take, AtEnd, LenientIdentifier, EatLine, EatNewline, TakeAnything,
           TakeCheckpoint, CloseNode, DropCheckpoint, DryBegin, DryEnd, Handoff, Finish,
           LeaveRegion, Finished, InGrammar, MayClose, vars
  <1> QED
    BY <1>1, <1>2, <1>3, <1>4, <1>5, <1>6, <1>7

(* Whatever the grammar does and wherever the error is met, error eats     *)
(* what is left of one logical line, and nothing of the next (error).      *)
THEOREM ErrorAlwaysEatsOneLine == Spec => ErrorEatsOneLine
  <1>1. Init => RecoveryInv
    BY DEF Init, RecoveryInv
  <1>2. LayerInv /\ RecoveryInv /\ [Next]_vars
          => RecoveryInv' /\ [Recovered("error") => OneLine(from, emit')]_mode
    BY RecoveryStep
  <1> QED
    BY <1>1, <1>2, LayerInvariant, PTL DEF Spec, ErrorEatsOneLine
=============================================================================
