--------------------------- MODULE SigStreamProofs ---------------------------
(***************************************************************************)
(* For every stream of tokens: the type invariant of SigStream, and that   *)
(* the loop implements LogicalLines.                                       *)
(***************************************************************************)
EXTENDS SigStream, Counting

(* What the loop knows.  Between calls and in the first loop everything    *)
(* between the last delivery and p is insignificant; while a newline is    *)
(* held back it is the only exception, and only indentation follows it.    *)
StartedOK ==
  /\ Opened(raw, origin, p) => started
  /\ started => Opened(raw, origin, p) \/ raw[p] = "end"

BehindOK ==
  /\ origin <= last + 1
  /\ last < p \/ p = Len(raw)
  /\ pc # "newline" =>
       \A h \in (last + 1)..(p - 1) : ~Significant(raw, origin, h)

(* No "+" that continues a line is met outside the second loop.            *)
NoStrayPlus ==
  pc # "newline" =>
    \A h \in origin..(p - 1) :
      ( /\ raw[h] = "nl"
        /\ Opened(raw, origin, h)
        /\ \A g \in (h + 1)..(p - 1) : raw[g] = "ws" )
      => raw[p] \notin {"ws", "plus"}

HeldOK ==
  pc = "newline" =>
    /\ idx \in origin..(p - 1)
    /\ last < idx
    /\ raw[idx] = "nl"
    /\ Opened(raw, origin, idx)
    /\ \A g \in (idx + 1)..(p - 1) : raw[g] = "ws"
    /\ \A h \in (last + 1)..(p - 1) : h # idx => ~Significant(raw, origin, h)

ScanInv == TypeOK /\ StartedOK /\ BehindOK /\ NoStrayPlus /\ HeldOK

-----------------------------------------------------------------------------
(* The shape of a stream: its last token, and only it, is the ENDMARKER.   *)
LEMMA StreamShape ==
  ASSUME NEW r, Lexed(r)
  PROVE  /\ Len(r) \in Nat \ {0}
         /\ \A i \in 1..Len(r) : r[i] \in Kind
         /\ r[Len(r)] = "end"
         /\ \A i \in 1..Len(r) : r[i] = "end" => i = Len(r)
  BY DEF Lexed

LEMMA InitInv == Init => ScanInv
  <1> SUFFICES ASSUME Init PROVE ScanInv
    OBVIOUS
  <1>1. Lexed(raw)
    BY StreamsAssumption DEF Init
  <1>2. Len(raw) \in Nat \ {0} /\ raw[Len(raw)] = "end"
    BY <1>1, StreamShape
  <1>3. TypeOK
    <2>1. started \in BOOLEAN
      BY DEF Init
    <2> QED
      BY <1>1, <1>2, <2>1 DEF Init, TypeOK
  <1>4. StartedOK
    BY <1>2 DEF Init, StartedOK, Opened
  <1>5. BehindOK /\ NoStrayPlus /\ HeldOK
    BY <1>2 DEF Init, BehindOK, NoStrayPlus, HeldOK
  <1> QED
    BY <1>3, <1>4, <1>5 DEF ScanInv

LEMMA TypeStep == ScanInv /\ [Next]_vars => TypeOK'
  <1> SUFFICES ASSUME ScanInv, [Next]_vars PROVE TypeOK'
    OBVIOUS
  <1> TypeOK
    BY DEF ScanInv
  <1>0. Len(raw) \in Nat \ {0}
    BY StreamShape DEF TypeOK
  <1>1. CASE Ask
    BY <1>1 DEF TypeOK, Ask
  <1>2. CASE SkipTrivia
    BY <1>0, <1>2 DEF TypeOK, SkipTrivia, After
  <1>3. CASE Deliver
    <2>1. started' \in BOOLEAN
      BY <1>3 DEF Deliver
    <2> QED
      BY <1>0, <1>3, <2>1 DEF TypeOK, Deliver, After
  <1>4. CASE HoldNewline
    <2>1. started' \in BOOLEAN
      BY <1>4 DEF HoldNewline
    <2> QED
      BY <1>0, <1>4, <2>1 DEF TypeOK, HoldNewline, After
  <1>5. CASE SkipIndent
    BY <1>0, <1>5 DEF TypeOK, SkipIndent, After
  <1>6. CASE FoldContinuation
    BY <1>0, <1>6 DEF TypeOK, FoldContinuation, After
  <1>7. CASE DropNewline
    BY <1>7 DEF TypeOK, DropNewline
  <1>8. CASE KeepNewline
    BY <1>0, <1>8 DEF TypeOK, KeepNewline, ScanInv, HeldOK
  <1>9. ASSUME NEW o \in 1..Len(raw), Resync(o) PROVE TypeOK'
    <2>1. started' \in BOOLEAN
      BY <1>9 DEF Resync
    <2> QED
      BY <1>0, <1>9, <2>1 DEF TypeOK, Resync
  <1>10. CASE UNCHANGED vars
    BY <1>10 DEF TypeOK, vars
  <1> QED
    BY <1>1, <1>2, <1>3, <1>4, <1>5, <1>6, <1>7, <1>8, <1>9, <1>10
    DEF Next, Scan

(* Stepping over one token adds that token to what has been read.          *)
LEMMA OpenedStep ==
  ASSUME NEW r, NEW o \in Nat, NEW i \in Nat, o <= i
  PROVE  Opened(r, o, i + 1) <=> Opened(r, o, i) \/ r[i] \notin Trivia \cup {"nl"}
  BY DEF Opened

(* Facts about the token at p that every step uses.                        *)
LEMMA AtP ==
  ASSUME TypeOK
  PROVE  /\ Len(raw) \in Nat \ {0}
         /\ origin \in Nat /\ origin >= 1 /\ origin <= p
         /\ p \in Nat /\ p <= Len(raw)
         /\ last \in Nat /\ last <= Len(raw)
         /\ raw[p] \in Kind
         /\ raw[p] = "end" <=> p = Len(raw)
         /\ p # Len(raw) => After(raw, p) = p + 1
         /\ p = Len(raw) => After(raw, p) = p
  BY StreamShape DEF TypeOK, After

(* What the first loop passes over is insignificant.                       *)
LEMMA SkippedInsignificant ==
  ASSUME TypeOK, StartedOK, Skippable(raw[p])
  PROVE  /\ ~Significant(raw, origin, p)
         /\ p # Len(raw)
         /\ Opened(raw, origin, p + 1) <=> Opened(raw, origin, p)
  <1>1. p # Len(raw)
    BY AtP DEF Skippable, Trivia, Comment
  <1>2. Opened(raw, origin, p + 1) <=> Opened(raw, origin, p)
    BY AtP, OpenedStep DEF Skippable
  <1>3. CASE raw[p] \in Trivia
    BY <1>1, <1>2, <1>3 DEF Significant
  <1>4. CASE raw[p] = "nl" /\ ~started
    BY <1>1, <1>2, <1>4 DEF Significant, EndsLine, StartedOK
  <1> QED
    BY <1>3, <1>4, <1>1, <1>2 DEF Skippable

LEMMA StartedStep == ScanInv /\ [Next]_vars => StartedOK'
  <1> SUFFICES ASSUME ScanInv, [Next]_vars PROVE StartedOK'
    OBVIOUS
  <1> TypeOK /\ StartedOK
    BY DEF ScanInv
  <1>a. Opened(raw, origin, p + 1) <=>
          Opened(raw, origin, p) \/ raw[p] \notin Trivia \cup {"nl"}
    BY AtP, OpenedStep
  <1>1. CASE SkipTrivia
    BY <1>1, AtP, SkippedInsignificant DEF StartedOK, SkipTrivia
  <1>2. CASE Deliver
    BY <1>2, <1>a, AtP DEF StartedOK, Deliver, Skippable
  <1>3. CASE HoldNewline
    BY <1>3, <1>a, AtP DEF StartedOK, HoldNewline, Skippable
  <1>4. CASE SkipIndent
    BY <1>4, <1>a, AtP DEF StartedOK, SkipIndent, Trivia
  <1>5. CASE FoldContinuation
    <2>1. Opened(raw, origin, p)
      BY <1>5, AtP DEF FoldContinuation, ScanInv, HeldOK, Opened
    <2> QED
      BY <1>5, <1>a, <2>1, AtP DEF StartedOK, FoldContinuation
  <1>6. CASE Ask \/ DropNewline \/ KeepNewline \/ UNCHANGED vars
    BY <1>6 DEF StartedOK, Ask, DropNewline, KeepNewline, vars
  <1>7. ASSUME NEW o \in 1..Len(raw), Resync(o) PROVE StartedOK'
    BY <1>7, AtP DEF StartedOK, Resync, Opened
  <1> QED
    BY <1>1, <1>2, <1>3, <1>4, <1>5, <1>6, <1>7 DEF Next, Scan

LEMMA BehindStep == ScanInv /\ [Next]_vars => BehindOK'
  <1> SUFFICES ASSUME ScanInv, [Next]_vars PROVE BehindOK'
    OBVIOUS
  <1> TypeOK /\ StartedOK /\ BehindOK /\ HeldOK
    BY DEF ScanInv
  <1>1. CASE SkipTrivia
    BY <1>1, AtP, SkippedInsignificant DEF BehindOK, SkipTrivia
  <1>2. CASE Deliver
    BY <1>2, AtP DEF BehindOK, Deliver
  <1>3. CASE HoldNewline
    BY <1>3, AtP DEF BehindOK, HoldNewline
  <1>4. CASE SkipIndent
    BY <1>4, AtP DEF BehindOK, SkipIndent
  <1>5. CASE FoldContinuation
    <2>0. FollowedBy(raw, idx, {"plus", "nl"} \cup Comment)
      <3>1. raw[p] \in {"plus", "nl"} \cup Comment /\ p \in (idx + 1)..Len(raw)
        BY <1>5, AtP DEF FoldContinuation, HeldOK
      <3>2. \A g \in (idx + 1)..(p - 1) : raw[g] = "ws"
        BY <1>5 DEF FoldContinuation, HeldOK
      <3> QED
        BY <3>1, <3>2 DEF FollowedBy
    <2>1. ~Significant(raw, origin, idx)
      BY <1>5, <2>0 DEF FoldContinuation, HeldOK, Significant, EndsLine
    <2>2. ~Significant(raw, origin, p)
      BY <1>5, AtP DEF FoldContinuation, HeldOK, Significant, Continues
    <2>3. p' = p + 1 /\ raw' = raw /\ origin' = origin /\ last' = last
      BY <1>5, AtP DEF FoldContinuation
    <2>4. pc = "newline"
      BY <1>5 DEF FoldContinuation
    <2>5. \A h \in (last + 1)..p : ~Significant(raw, origin, h)
      BY <2>1, <2>2, <2>4, AtP DEF HeldOK
    <2> QED
      BY <2>3, <2>4, <2>5, AtP DEF BehindOK, HeldOK
  <1>6. CASE DropNewline
    <2>0. FollowedBy(raw, idx, {"plus", "nl"} \cup Comment)
      <3>1. raw[p] \in {"plus", "nl"} \cup Comment /\ p \in (idx + 1)..Len(raw)
        BY <1>6, AtP DEF DropNewline, HeldOK
      <3>2. \A g \in (idx + 1)..(p - 1) : raw[g] = "ws"
        BY <1>6 DEF DropNewline, HeldOK
      <3> QED
        BY <3>1, <3>2 DEF FollowedBy
    <2>1. ~Significant(raw, origin, idx)
      BY <1>6, <2>0 DEF DropNewline, HeldOK, Significant, EndsLine
    <2> QED
      BY <1>6, <2>1, AtP DEF BehindOK, HeldOK, DropNewline
  <1>7. CASE KeepNewline
    <2>1. /\ last' = idx /\ pc' = "idle" /\ raw' = raw /\ origin' = origin /\ p' = p
          /\ idx \in origin..(p - 1) /\ last < idx
          /\ \A h \in (last + 1)..(p - 1) : h # idx => ~Significant(raw, origin, h)
      BY <1>7 DEF HeldOK, KeepNewline
    <2>2. /\ origin <= idx + 1 /\ idx < p
          /\ \A h \in (idx + 1)..(p - 1) : ~Significant(raw, origin, h)
      BY <2>1, AtP
    <2> QED
      BY <2>1, <2>2 DEF BehindOK
  <1>8. CASE Ask \/ UNCHANGED vars
    BY <1>8 DEF BehindOK, Ask, vars
  <1>9. ASSUME NEW o \in 1..Len(raw), Resync(o) PROVE BehindOK'
    BY <1>9, AtP DEF BehindOK, Resync
  <1> QED
    BY <1>1, <1>2, <1>3, <1>4, <1>5, <1>6, <1>7, <1>8, <1>9 DEF Next, Scan

LEMMA PlusStep == ScanInv /\ [Next]_vars => NoStrayPlus'
  <1> SUFFICES ASSUME ScanInv, [Next]_vars PROVE NoStrayPlus'
    OBVIOUS
  <1> TypeOK /\ StartedOK /\ NoStrayPlus /\ HeldOK
    BY DEF ScanInv
  <1>1. CASE SkipTrivia
    <2>1. p' = p + 1 /\ raw' = raw /\ origin' = origin /\ pc' = pc /\ pc = "skip"
      BY <1>1, AtP, SkippedInsignificant DEF SkipTrivia
    <2>2. ASSUME NEW h \in origin..p, raw[h] = "nl", Opened(raw, origin, h),
                 \A g \in (h + 1)..p : raw[g] = "ws"
          PROVE  FALSE
      <3>1. CASE h = p
        BY <1>1, <2>2, <3>1 DEF SkipTrivia, Skippable, StartedOK, Trivia, Comment
      <3>2. CASE h # p
        BY <2>1, <2>2, <3>2, AtP DEF NoStrayPlus
      <3> QED
        BY <3>1, <3>2
    <2> QED
      BY <2>1, <2>2, AtP DEF NoStrayPlus
  <1>2. CASE Deliver
    BY <1>2, AtP DEF NoStrayPlus, Deliver, Skippable, Trivia
  <1>3. CASE HoldNewline \/ SkipIndent
    BY <1>3 DEF NoStrayPlus, HoldNewline, SkipIndent
  <1>5. CASE FoldContinuation
    BY <1>5, AtP DEF NoStrayPlus, FoldContinuation
  <1>6. CASE DropNewline
    BY <1>6, AtP DEF NoStrayPlus, DropNewline, Comment
  <1>7. CASE KeepNewline
    BY <1>7, AtP DEF NoStrayPlus, KeepNewline
  <1>8. CASE Ask \/ UNCHANGED vars
    BY <1>8 DEF NoStrayPlus, Ask, vars
  <1>9. ASSUME NEW o \in 1..Len(raw), Resync(o) PROVE NoStrayPlus'
    BY <1>9, AtP DEF NoStrayPlus, Resync
  <1> QED
    BY <1>1, <1>2, <1>3, <1>5, <1>6, <1>7, <1>8, <1>9 DEF Next, Scan

LEMMA HeldStep == ScanInv /\ [Next]_vars => HeldOK'
  <1> SUFFICES ASSUME ScanInv, [Next]_vars PROVE HeldOK'
    OBVIOUS
  <1> TypeOK /\ StartedOK /\ BehindOK /\ HeldOK
    BY DEF ScanInv
  <1>1. CASE HoldNewline
    BY <1>1, AtP DEF HeldOK, HoldNewline, Skippable, StartedOK, BehindOK
  <1>2. CASE SkipIndent
    <2>1. ~Significant(raw, origin, p)
      BY <1>2 DEF SkipIndent, Significant, Trivia
    <2> QED
      BY <1>2, <2>1, AtP DEF HeldOK, SkipIndent
  <1>3. CASE SkipTrivia \/ Deliver \/ FoldContinuation \/ DropNewline \/ KeepNewline
    BY <1>3 DEF HeldOK, SkipTrivia, Deliver, FoldContinuation, DropNewline, KeepNewline
  <1>4. CASE Ask \/ UNCHANGED vars
    BY <1>4 DEF HeldOK, Ask, vars
  <1>5. ASSUME NEW o \in 1..Len(raw), Resync(o) PROVE HeldOK'
    BY <1>5 DEF HeldOK, Resync
  <1> QED
    BY <1>1, <1>2, <1>3, <1>4, <1>5 DEF Next, Scan

-----------------------------------------------------------------------------
(* The type invariant and NothingSkipped hold for every set of streams the *)
(* lexers can produce: get_next_action never runs off the stream, and at   *)
(* every point of its loop the only significant token behind the scan      *)
(* position is the newline it holds back.                                  *)
THEOREM ScanInvariant == Spec => []ScanInv
  <1>1. Init => ScanInv
    BY InitInv
  <1>2. ScanInv /\ [Next]_vars => ScanInv'
    BY TypeStep, StartedStep, BehindStep, PlusStep, HeldStep DEF ScanInv
  <1> QED
    BY <1>1, <1>2, PTL DEF Spec

(* Every index is that of a raw token: no access to Parser.raw is out of   *)
(* bounds (get_next_action).                                               *)
THEOREM TypeCorrect == Spec => []TypeOK
  <1>1. ScanInv => TypeOK
    BY DEF ScanInv
  <1> QED
    BY <1>1, ScanInvariant, PTL

(* No significant token is skipped: what lies behind the last one          *)
(* delivered is trivia, or the newline held back (get_next_action).        *)
THEOREM NothingSkippedHolds == Spec => []NothingSkipped
  <1>1. ScanInv => NothingSkipped
    <2> SUFFICES ASSUME ScanInv,
                        NEW h \in (last + 1)..(p - 1), Significant(raw, origin, h)
                 PROVE  h \in Pending
      BY DEF NothingSkipped
    <2> QED
      BY DEF ScanInv, BehindOK, HeldOK, Pending
  <1> QED
    BY <1>1, ScanInvariant, PTL

-----------------------------------------------------------------------------
(* LogicalLines reads the streams with the same definitions.               *)
LEMMA SameReading ==
  ASSUME NEW r, NEW o, NEW i, NEW j
  PROVE  /\ Lines!IsNextSig(r, o, i, j) <=> IsNextSig(r, o, i, j)
         /\ Lines!After(r, i) = After(r, i)
  BY DEF IsNextSig, Significant, EndsLine, Continues, FollowedBy, Opened, After,
         Trivia, Comment,
         Lines!IsNextSig, Lines!Significant, Lines!EndsLine, Lines!Continues,
         Lines!FollowedBy, Lines!Opened, Lines!After, Lines!Trivia, Lines!Comment

(* A step of the loop delivers the next significant token or nothing.      *)
LEMMA DeliverReads == ScanInv /\ Deliver => Lines!Read
  <1> SUFFICES ASSUME ScanInv, Deliver PROVE Lines!Read
    OBVIOUS
  <1> TypeOK /\ StartedOK /\ BehindOK /\ NoStrayPlus
    BY DEF ScanInv
  <1>1. Significant(raw, origin, p)
    <2>1. raw[p] \notin Trivia /\ raw[p] # "nl" /\ pc = "skip"
      BY DEF Deliver, Skippable
    <2>2. ~Continues(raw, origin, p)
      BY <2>1 DEF Continues, NoStrayPlus
    <2> QED
      BY <2>1, <2>2 DEF Significant
  <1>2. p \in After(raw, last)..Len(raw)
    BY AtP DEF BehindOK, After
  <1>3. \A h \in After(raw, last)..(p - 1) : ~Significant(raw, origin, h)
    BY AtP DEF BehindOK, After, Deliver
  <1>4. IsNextSig(raw, origin, After(raw, last), p)
    BY <1>1, <1>2, <1>3 DEF IsNextSig
  <1> QED
    BY <1>4, SameReading DEF Lines!Read, Deliver

LEMMA KeepReads == ScanInv /\ KeepNewline => Lines!Read
  <1> SUFFICES ASSUME ScanInv, KeepNewline PROVE Lines!Read
    OBVIOUS
  <1> TypeOK /\ BehindOK /\ HeldOK
    BY DEF ScanInv
  <1>0. pc = "newline" /\ raw[p] \notin {"ws"} /\ raw[p] \notin {"plus", "nl"} \cup Comment
    BY DEF KeepNewline
  <1>1. Significant(raw, origin, idx)
    <2>1. ~FollowedBy(raw, idx, {"plus", "nl"} \cup Comment)
      <3> SUFFICES ASSUME NEW j \in (idx + 1)..Len(raw),
                          raw[j] \in {"plus", "nl"} \cup Comment,
                          \A h \in (idx + 1)..(j - 1) : raw[h] = "ws"
                   PROVE  FALSE
        BY DEF FollowedBy
      <3>1. CASE j < p
        <4>1. raw[j] = "ws"
          BY <1>0, <3>1, AtP DEF HeldOK
        <4> QED
          BY <4>1 DEF Comment
      <3>2. CASE j = p
        BY <1>0, <3>2
      <3>3. CASE j > p
        BY <1>0, <3>3, AtP DEF HeldOK
      <3> QED
        BY <3>1, <3>2, <3>3, AtP
    <2>2. raw[idx] = "nl" /\ Opened(raw, origin, idx)
      BY <1>0 DEF HeldOK
    <2> QED
      BY <2>1, <2>2 DEF Significant, EndsLine, Continues, Trivia, Comment
  <1>2. After(raw, last) = last + 1
    BY <1>0, AtP DEF After, HeldOK
  <1>3. IsNextSig(raw, origin, last + 1, idx)
    <2>1. last \in Nat /\ idx \in Nat /\ p \in 1..Len(raw) /\ last < idx /\ idx < p
      BY <1>0, AtP DEF HeldOK
    <2>2. idx \in (last + 1)..Len(raw)
      BY <2>1
    <2>3. ASSUME NEW h \in (last + 1)..(idx - 1)
          PROVE  ~Significant(raw, origin, h)
      <3>1. h \in (last + 1)..(p - 1) /\ h # idx
        BY <2>1
      <3>2. QED BY <1>0, <3>1 DEF HeldOK
    <2>4. QED BY <1>1, <2>2, <2>3 DEF IsNextSig
  <1> QED
    BY <1>2, <1>3, SameReading DEF Lines!Read, KeepNewline

(* get_next_action implements the logical lines: every behaviour of the    *)
(* loop is one of LogicalLines, for every set of streams.                  *)
THEOREM ImplementsLogicalLines == Spec => DeliversLogicalLines
  <1>1. Init => Lines!Init
    BY DEF Init, Lines!Init
  <1>2. ScanInv /\ [Next]_vars => [Lines!Next]_(Lines!vars)
    <2> SUFFICES ASSUME ScanInv, [Next]_vars PROVE [Lines!Next]_(Lines!vars)
      OBVIOUS
    <2>1. CASE Deliver
      BY <2>1, DeliverReads DEF Lines!Next
    <2>2. CASE KeepNewline
      BY <2>2, KeepReads DEF Lines!Next
    <2>3. ASSUME NEW o \in 1..Len(raw), Resync(o) PROVE Lines!Next
      BY <2>3 DEF Resync, Lines!Next, Lines!Restart
    <2>4. CASE Ask \/ SkipTrivia \/ HoldNewline \/ SkipIndent \/ FoldContinuation
               \/ DropNewline \/ UNCHANGED vars
      BY <2>4 DEF Ask, SkipTrivia, HoldNewline, SkipIndent, FoldContinuation,
                  DropNewline, vars, Lines!vars
    <2> QED
      BY <2>1, <2>2, <2>3, <2>4 DEF Next, Scan
  <1> QED
    BY <1>1, <1>2, ScanInvariant, PTL DEF Spec, DeliversLogicalLines

-----------------------------------------------------------------------------
(* Once something was read since the last restart, the token read last is  *)
(* no trivia.                                                              *)
ReadOK == last >= origin => raw[last] \notin Trivia

LEMMA ReadInvariant == Spec => []ReadOK
  <1>1. Init => ReadOK
    BY DEF Init, ReadOK
  <1>2. ScanInv /\ ReadOK /\ [Next]_vars => ReadOK'
    <2> SUFFICES ASSUME ScanInv, ReadOK, [Next]_vars PROVE ReadOK'
      OBVIOUS
    <2>1. CASE Deliver
      BY <2>1 DEF ReadOK, Deliver, Skippable
    <2>2. CASE KeepNewline
      BY <2>2 DEF ReadOK, KeepNewline, ScanInv, HeldOK, Trivia, Comment
    <2>3. ASSUME NEW o \in 1..Len(raw), Resync(o) PROVE ReadOK'
      BY <2>3 DEF ReadOK, Resync
    <2>4. CASE Ask \/ SkipTrivia \/ HoldNewline \/ SkipIndent \/ FoldContinuation
               \/ DropNewline \/ UNCHANGED vars
      BY <2>4 DEF ReadOK, Ask, SkipTrivia, HoldNewline, SkipIndent, FoldContinuation,
                  DropNewline, vars
    <2> QED
      BY <2>1, <2>2, <2>3, <2>4 DEF Next, Scan
  <1> QED
    BY <1>1, <1>2, ScanInvariant, PTL DEF Spec

(* A newline between two significant tokens is insignificant because of    *)
(* what follows it.                                                        *)
LEMMA InsignificantNewline ==
  ASSUME NEW r, NEW o \in Nat, NEW a \in Nat, NEW j \in Nat,
         o <= a, a < j, r[a] \notin Trivia \cup {"nl"},
         r[j] = "nl", ~Significant(r, o, j)
  PROVE  FollowedBy(r, j, {"plus", "nl"} \cup Comment)
  <1>1. Opened(r, o, j)
    BY DEF Opened
  <1> QED
    BY <1>1 DEF Significant, EndsLine, Continues, Trivia, Comment

(* Between two words of one logical line, the last newline is followed by  *)
(* a "+", unless there are lines of an encrypted block.                    *)
LEMMA LastNewlineJoined ==
  ASSUME NEW r, Lexed(r), NEW o \in Nat, NEW a \in Nat, NEW b \in 1..Len(r),
         o <= a, r[a] \notin Trivia \cup {"nl"},
         \A h \in (a + 1)..(b - 1) : ~Significant(r, o, h) /\ r[h] # "sealed",
         Significant(r, o, b), r[b] \notin {"nl", "end"},
         NEW j \in (a + 1)..(b - 1), r[j] = "nl",
         \A h \in (j + 1)..(b - 1) : r[h] # "nl"
  PROVE  FollowedBy(r, j, {"plus"})
  <1>1. Len(r) \in Nat
    BY StreamShape
  <1>2. FollowedBy(r, j, {"plus", "nl"} \cup Comment)
    <2>1. j \in Nat /\ a < j /\ ~Significant(r, o, j)
      OBVIOUS
    <2> QED
      BY <2>1, InsignificantNewline
  <1>3. PICK k \in (j + 1)..Len(r) :
             r[k] \in {"plus", "nl"} \cup Comment /\ \A h \in (j + 1)..(k - 1) : r[h] = "ws"
    BY <1>2 DEF FollowedBy
  <1>4. r[b] \notin Trivia
    BY DEF Significant
  <1>5. k <= b
    BY <1>1, <1>3, <1>4 DEF Trivia
  <1>6. r[k] # "nl" /\ r[k] # "sealed"
    <2>1. CASE k = b
      BY <1>4, <2>1 DEF Trivia, Comment
    <2>2. CASE k # b
      BY <1>3, <1>5, <2>2
    <2> QED
      BY <2>1, <2>2
  <1>7. r[k] # "comment"
    <2> SUFFICES ASSUME r[k] = "comment" PROVE FALSE
      OBVIOUS
    <2>1. k # b
      BY <1>4 DEF Trivia, Comment
    <2>2. r[k + 1] \in {"nl", "sealed", "end"}
      BY <1>1, <1>3 DEF Lexed
    <2>3. k + 1 \in (j + 1)..b
      BY <1>3, <1>5, <2>1
    <2>4. CASE k + 1 = b
      BY <1>4, <2>2, <2>4 DEF Trivia, Comment
    <2>5. CASE k + 1 # b
      <3>1. r[k + 1] = "end"
        BY <2>2, <2>3, <2>5
      <3> QED
        BY <1>1, <2>3, <2>5, <3>1, StreamShape
    <2> QED
      BY <2>4, <2>5
  <1>8. r[k] = "plus"
    BY <1>3, <1>6, <1>7 DEF Comment
  <1> QED
    BY <1>3, <1>8 DEF FollowedBy

(* Two words on different lines are in different logical lines unless a    *)
(* "+" joins them, for every set of streams (get_next_action).             *)
THEOREM LinesAlwaysStayApart == Spec => LinesStayApart
  <1> DEFINE Apart ==
        ( /\ pc # "idle"
          /\ last \in origin..Len(raw)
          /\ {raw[last], raw[last']} \cap {"nl", "end"} = {} )
        => \/ \E i \in (last + 1)..(last' - 1) : raw[i] = "sealed"
           \/ \A i \in (last + 1)..(last' - 1) :
                LineEndAt(i) => \E j \in i..(last' - 1) : LineEndAt(j) /\ JoinedAt(j)
  <1>1. ScanInv /\ ReadOK /\ [Next]_vars => [Apart]_last
    <2> SUFFICES ASSUME ScanInv, ReadOK, [Next]_vars, last' # last, pc # "idle",
                        last \in origin..Len(raw),
                        {raw[last], raw[last']} \cap {"nl", "end"} = {},
                        \A i \in (last + 1)..(last' - 1) : raw[i] # "sealed",
                        NEW i \in (last + 1)..(last' - 1), LineEndAt(i)
                 PROVE  \E j \in i..(last' - 1) : LineEndAt(j) /\ JoinedAt(j)
      OBVIOUS
    <2>1. Lines!Read
      <3>1. Deliver \/ KeepNewline
        BY DEF Next, Scan, Ask, SkipTrivia, HoldNewline, SkipIndent, FoldContinuation,
               DropNewline, Resync, vars
      <3> QED
        BY <3>1, DeliverReads, KeepReads
    <2>2. PICK a, b : a = last /\ b = last'
      OBVIOUS
    <2>3. /\ Lexed(raw) /\ Len(raw) \in Nat /\ origin \in Nat /\ a \in Nat
          /\ origin <= a /\ a < Len(raw)
      <3>1. /\ Lexed(raw) /\ Len(raw) \in Nat \ {0} /\ raw[Len(raw)] = "end"
            /\ origin \in Nat /\ last \in Nat
        BY AtP, StreamShape DEF ScanInv, TypeOK
      <3>2. last # Len(raw)
        BY <3>1
      <3>3. last >= origin /\ last <= Len(raw)
        BY <3>1
      <3> QED
        BY <2>2, <3>1, <3>2, <3>3
    <2>4. IsNextSig(raw, origin, a + 1, b)
      BY <2>1, <2>2, <2>3, SameReading DEF Lines!Read, After
    <2>5. /\ b \in 1..Len(raw) /\ Significant(raw, origin, b) /\ b \in Nat
          /\ \A h \in (a + 1)..(b - 1) : ~Significant(raw, origin, h) /\ raw[h] # "sealed"
          /\ raw[a] \notin Trivia \cup {"nl"} /\ raw[b] \notin {"nl", "end"}
      <3>1. /\ b \in (a + 1)..Len(raw) /\ Significant(raw, origin, b)
            /\ \A h \in (a + 1)..(b - 1) : ~Significant(raw, origin, h)
        BY <2>4 DEF IsNextSig
      <3>2. raw[a] \notin Trivia /\ raw[a] # "nl" /\ raw[b] \notin {"nl", "end"}
        BY <2>2, <2>3 DEF ReadOK
      <3>3. \A h \in (a + 1)..(b - 1) : raw[h] # "sealed"
        BY <2>2
      <3>4. b \in 1..Len(raw) /\ b \in Nat
        BY <2>3, <3>1
      <3> QED
        BY <3>1, <3>2, <3>3, <3>4
    <2>6. i \in (a + 1)..(b - 1) /\ raw[i] = "nl"
      BY <2>2 DEF LineEndAt
    <2> DEFINE N == {h \in i..(b - 1) : raw[h] = "nl"}
    <2>7. N \in SUBSET (0..b) /\ N # {}
      BY <2>3, <2>5, <2>6
    <2>8. PICK j \in N : \A h \in N : h <= j
      <3> HIDE DEF N
      <3> QED
        BY <2>5, <2>7, GreatestExists
    <2>9. /\ j \in (a + 1)..(b - 1) /\ j \in i..(b - 1) /\ raw[j] = "nl"
          /\ \A h \in (j + 1)..(b - 1) : raw[h] # "nl"
      BY <2>3, <2>5, <2>6, <2>8
    <2>10. FollowedBy(raw, j, {"plus"})
      BY <2>3, <2>5, <2>9, LastNewlineJoined
    <2> QED
      BY <2>2, <2>9, <2>10 DEF LineEndAt, JoinedAt
  <1> QED
    BY <1>1, ScanInvariant, ReadInvariant, PTL DEF Spec, LinesStayApart
=============================================================================
