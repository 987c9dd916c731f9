------------------------------ MODULE ExprParser ------------------------------
(***************************************************************************)
(* parse_expression and parse_binop, the precedence climbing both parsers  *)
(* share, on an expression of operands and binary operators.  An operand   *)
(* is what parse_primary_or_unary takes, parentheses, calls and arrays     *)
(* included.  An operator is its precedence; prec panics on those it has   *)
(* no arm for, which are 0 here.  Operator i stands between operands i and *)
(* i + 1.  The ternary and the quoted form wrap what is parsed here.       *)
(***************************************************************************)
EXTENDS Integers, Sequences, SequencesExt

CONSTANT Texts

Expression(t) ==
  /\ t.ops \in Seq(Nat)
  /\ t.bad \in 0..(Len(t.ops) + 1)

ASSUME TextsAssumption == \A t \in Texts : Expression(t)

VARIABLES
  text,    \* the operators, and the operand that does not parse (0: none)
  at,      \* the operand being parsed, or parsed last
  frames,  \* the running calls of parse_binop, the innermost last
  nodes,   \* what was wrapped so far, as spans of operands
  pc

vars == <<text, at, frames, nodes, pc>>

ops == text.ops
N == Len(ops) + 1

None == -1    \* opterm of the outermost parse_binop

Init ==
  /\ text \in Texts
  /\ at = 1
  /\ frames = << >>
  /\ nodes = << >>
  /\ pc = "expression"

Frame(c, o, t) == [cp |-> c, op |-> o, opterm |-> t]
Top == Last(frames)

Node(k, a, b) == [kind |-> k, from |-> a, to |-> b]

(* wrap_at(cp_ex, BinaryExpression)                                        *)
Binary == Append(nodes, Node("binary", Top.cp, at))

HasArm(o) == o # 0

(* Mutant: equal operators group to the right.                             *)
ReducesStrictly(o, next) == o > next

Reduces(o, next) == o >= next

-----------------------------------------------------------------------------
(* parse_expression                                                        *)

FirstOperandFails ==
  /\ pc = "expression"
  /\ text.bad = 1
  /\ pc' = "error"
  /\ UNCHANGED <<text, at, frames, nodes>>

LoneOperand ==
  /\ pc = "expression"
  /\ text.bad # 1
  /\ N = 1
  /\ pc' = "ok"
  /\ UNCHANGED <<text, at, frames, nodes>>

StartBinop ==
  /\ pc = "expression"
  /\ text.bad # 1
  /\ N > 1
  /\ frames' = <<Frame(1, ops[1], None)>>
  /\ at' = 2
  /\ pc' = "operand"
  /\ UNCHANGED <<text, nodes>>

-----------------------------------------------------------------------------
(* parse_binop                                                             *)

Operand ==
  /\ pc = "operand"
  /\ at # text.bad
  /\ pc' = "next"
  /\ UNCHANGED <<text, at, frames, nodes>>

(* Mutant: the failure of the operand is not looked at.                    *)
OperandRetried ==
  /\ pc = "operand"
  /\ at = text.bad
  /\ UNCHANGED vars

(* The right operand on its own becomes an Incomplete.                     *)
OperandFails ==
  /\ pc = "operand"
  /\ at = text.bad
  /\ nodes' = Append(nodes, Node("incomplete", at, at))
  /\ pc' = "unwind"
  /\ UNCHANGED <<text, at, frames>>

NoMoreOperators ==
  /\ pc = "next"
  /\ at = N
  /\ nodes' = Binary
  /\ frames' = Front(frames)
  /\ pc' = "returned"
  /\ UNCHANGED <<text, at>>

Panic ==
  /\ pc = "next"
  /\ at < N
  /\ ~HasArm(ops[at]) \/ ~HasArm(Top.op)
  /\ pc' = "panicked"
  /\ UNCHANGED <<text, at, frames, nodes>>

Comparing ==
  /\ pc = "next"
  /\ at < N
  /\ HasArm(ops[at]) /\ HasArm(Top.op)

(* The precedence guard: the next operator is the caller's.                *)
Guarded == Top.opterm # None /\ Reduces(Top.opterm, ops[at])

ReduceAndReturn ==
  /\ Comparing
  /\ Reduces(Top.op, ops[at])
  /\ Guarded
  /\ nodes' = Binary
  /\ frames' = Front(frames)
  /\ pc' = "returned"
  /\ UNCHANGED <<text, at>>

(* The operator after operand at is taken, with the left operand unchanged.*)
TakeOperator ==
  /\ frames' = Append(Front(frames), Frame(Top.cp, ops[at], Top.opterm))
  /\ at' = at + 1
  /\ pc' = "operand"

ReduceAndGoOn ==
  /\ Comparing
  /\ Reduces(Top.op, ops[at])
  /\ ~Guarded
  /\ nodes' = Binary
  /\ TakeOperator
  /\ UNCHANGED text

(* The next operator binds tighter: it and what follows are parsed first.  *)
Descend ==
  /\ Comparing
  /\ ~Reduces(Top.op, ops[at])
  /\ frames' = Append(frames, Frame(at, ops[at], Top.op))
  /\ at' = at + 1
  /\ pc' = "operand"
  /\ UNCHANGED <<text, nodes>>

(* Mutant: the operands of the caller are not wrapped.                     *)
RejoinUnwrapped ==
  /\ pc = "returned"
  /\ frames # << >>
  /\ at < N
  /\ TakeOperator
  /\ UNCHANGED <<text, nodes>>

(* After the inner call the node is closed and the next operator taken.    *)
Rejoin ==
  /\ pc = "returned"
  /\ frames # << >>
  /\ at < N
  /\ nodes' = Binary
  /\ TakeOperator
  /\ UNCHANGED text

RejoinAtEnd ==
  /\ pc = "returned"
  /\ frames # << >>
  /\ at = N
  /\ nodes' = Binary
  /\ frames' = Front(frames)
  /\ UNCHANGED <<text, at, pc>>

ReturnOk ==
  /\ pc = "returned"
  /\ frames = << >>
  /\ pc' = "ok"
  /\ UNCHANGED <<text, at, frames, nodes>>

(* Mutant: the offending token is counted in the node.                     *)
UnwindFurther ==
  /\ pc = "unwind"
  /\ frames # << >>
  /\ nodes' = Append(nodes, Node("incomplete", Top.cp, at + 1))
  /\ frames' = Front(frames)
  /\ UNCHANGED <<text, at, pc>>

(* Mutant: only the innermost caller wraps.                                *)
UnwindOnce ==
  /\ pc = "unwind"
  /\ frames # << >>
  /\ nodes' = Append(nodes, Node("incomplete", Top.cp, at))
  /\ frames' = << >>
  /\ UNCHANGED <<text, at, pc>>

(* A call that returns an error is wrapped from its first operand by its   *)
(* caller, parse_binop or parse_expression.                                *)
Unwind ==
  /\ pc = "unwind"
  /\ frames # << >>
  /\ nodes' = Append(nodes, Node("incomplete", Top.cp, at))
  /\ frames' = Front(frames)
  /\ UNCHANGED <<text, at, pc>>

ReturnError ==
  /\ pc = "unwind"
  /\ frames = << >>
  /\ pc' = "error"
  /\ UNCHANGED <<text, at, frames, nodes>>

Ended == pc \in {"ok", "error", "panicked"}

Finished == Ended /\ UNCHANGED vars

Step ==
  \/ FirstOperandFails \/ LoneOperand \/ StartBinop
  \/ Operand \/ OperandFails \/ NoMoreOperators \/ Panic
  \/ ReduceAndReturn \/ ReduceAndGoOn \/ Descend
  \/ Rejoin \/ RejoinAtEnd \/ ReturnOk
  \/ Unwind \/ ReturnError

Next == Step \/ Finished

(* Sequential code that nothing interrupts.                                *)
Spec == Init /\ [][Next]_vars /\ WF_vars(Step)

-----------------------------------------------------------------------------
TypeOK ==
  /\ at \in 1..N
  /\ frames \in Seq([cp : 1..N, op : Nat, opterm : Nat \cup {None}])
  /\ nodes \in Seq([kind : {"binary", "incomplete"}, from : 1..N, to : 1..N])
  /\ pc \in {"expression", "operand", "next", "returned", "unwind",
             "ok", "error", "panicked"}

(* The tree precedence and left associativity define: the node of operator *)
(* i reaches left over what binds at least as tight, right over what binds *)
(* tighter.                                                                *)
IsNodeOf(i, a, b) ==
  /\ \A j \in a..(i - 1) : ops[j] >= ops[i]
  /\ \A j \in (i + 1)..(b - 1) : ops[j] > ops[i]
  /\ a = 1 \/ ops[a - 1] < ops[i]
  /\ b = N \/ ops[b] <= ops[i]
Binaries == {k \in 1..Len(nodes) : nodes[k].kind = "binary"}
Spans == {<<nodes[k].from, nodes[k].to>> : k \in Binaries}
WellGrouped ==
  \A i \in 1..(N - 1) : \E s \in Spans : s[1] <= i /\ i < s[2] /\ IsNodeOf(i, s[1], s[2])

(* Expressions are grouped by precedence, operators of equal precedence    *)
(* from the left ("precedence climbing", parse_binop).                     *)
Grouped == pc = "ok" => WellGrouped

(* An operator follows one that had been waiting for a tighter one with a  *)
(* tighter one of its own, and closes the first of them.                   *)
Relapse ==
  \E i, k \in 1..(N - 1) :
    /\ i < k
    /\ ops[k] <= ops[i]
    /\ \A j \in (i + 1)..(k - 1) : ops[j] > ops[i]
    /\ \E j \in (i + 1)..(k - 2) : ops[j] < ops[k - 1]

(* Exactly the expressions with a relapse are grouped wrongly: after the   *)
(* inner call parse_binop takes the next operator without the guard that   *)
(* it checks everywhere else (parse_binop).                                *)
GroupedUnlessRelapse == pc = "ok" => (WellGrouped <=> ~Relapse)

(* However calls nest and return, every BinaryExpression has two operands  *)
(* around an operator, each an operand of the text or a node finished      *)
(* before, and no node is wrapped twice: the accessors of the tree rely on *)
(* it (parse_binop, wrap_at).                                              *)
WholeBefore(k, a, b) ==
  a = b \/ \E h \in Binaries : h < k /\ nodes[h].from = a /\ nodes[h].to = b
TwoOperands ==
  \A k \in Binaries :
    /\ \E i \in nodes[k].from..(nodes[k].to - 1) :
         WholeBefore(k, nodes[k].from, i) /\ WholeBefore(k, i + 1, nodes[k].to)
    /\ ~WholeBefore(k, nodes[k].from, nodes[k].to)

(* An operand that does not parse is in no BinaryExpression, and all that  *)
(* was waiting for it ends up in Incomplete nodes, each around the one     *)
(* before, the outermost around the whole expression; none of them cuts a  *)
(* finished node in two (parse_binop, parse_expression).                   *)
Incompletes == {k \in 1..Len(nodes) : nodes[k].kind = "incomplete"}
FailureContained ==
  pc = "error" /\ text.bad > 1 =>
    /\ \A k \in Binaries : nodes[k].to < text.bad
    /\ \A k \in Incompletes : nodes[k].to = text.bad
    /\ \A h, k \in Incompletes : h < k => nodes[k].from < nodes[h].from
    /\ nodes[Len(nodes)] = Node("incomplete", 1, text.bad)
    /\ \A h \in Binaries, k \in Incompletes :
         nodes[h].from >= nodes[k].from \/ nodes[h].to < nodes[k].from

(* What README.md:129-130 and tests/robustness.rs say of every input: it   *)
(* parses without panicking (prec, parse_binop).                           *)
NoPanic == pc # "panicked"

(* The climbing ends on every expression, and NoPanic fails exactly if an  *)
(* operator that prec has no arm for meets another one before the operand  *)
(* that does not parse: one alone does no harm (parse_binop, prec).        *)
ReadUpTo(i) == text.bad = 0 \/ i < text.bad
Meets(i) == (i > 1 /\ ReadUpTo(i)) \/ (i + 1 < N /\ ReadUpTo(i + 1))
Panics == \E i \in 1..(N - 1) : ~HasArm(ops[i]) /\ Meets(i)
Terminates == <>(Ended /\ (pc = "panicked" <=> Panics))
=============================================================================
