----------------------------- MODULE Productions -----------------------------
(***************************************************************************)
(* The vocabulary the productions of both grammars are written in.  A      *)
(* production is the sequence of what its function does: tokens taken,     *)
(* choices made on the two tokens of lookahead, loops, nodes wrapped around*)
(* what a body parses, and bodies whose failure is not passed on.  The     *)
(* recursive productions are called by name.                               *)
(***************************************************************************)
EXTENDS Sequences

(* Tests of the lookahead: nt is the next significant token, nnt the one   *)
(* after it.  A test is a sequence of conjuncts; S holds token kinds and   *)
(* the names of predicates such as "is_ident".                             *)
nt_in(S)      == <<[ahead |-> 0, is |-> TRUE, of |-> S]>>
nt_not_in(S)  == <<[ahead |-> 0, is |-> FALSE, of |-> S]>>
nnt_in(S)     == <<[ahead |-> 1, is |-> TRUE, of |-> S]>>
nnt_not_in(S) == <<[ahead |-> 1, is |-> FALSE, of |-> S]>>
Always        == << >>

Eol    == {"NEWLINE", "ENDMARKER"}
NotEol == nt_not_in(Eol)

(* take, and the other take_ helpers that fail on any other token.         *)
Take(S) == <<[op |-> "take", of |-> S]>>

take_kw_any == Take({"is_kw"})
take_literal == Take({"is_literal"})
take_string == Take({"STRING"})
take_operator == Take({"is_operator"})

(* At the end of the file the newline is empty: the ENDMARKER stays.       *)
accept_newline == Take(Eol)

(* error(): the rest of the line is eaten, and the production fails.       *)
Error == <<[op |-> "error"]>>

(* Err without an error() of its own.                                      *)
Raise == <<[op |-> "raise"]>>

IfElse(test, yes, no) == <<[op |-> "if", test |-> test, yes |-> yes, no |-> no]>>
If(test, yes) == IfElse(test, yes, << >>)
While(test, body) == <<[op |-> "while", any |-> <<test>>, is |-> TRUE, body |-> body]>>
Until(test, body) == <<[op |-> "while", any |-> <<test>>, is |-> FALSE, body |-> body]>>
UntilEither(test1, test2, body) ==
  <<[op |-> "while", any |-> <<test1, test2>>, is |-> FALSE, body |-> body]>>

Call(name) == <<[op |-> "call", name |-> name]>>

(* A call that begins a statement of the file or of a block.               *)
Statement(name) == <<[op |-> "statement", name |-> name]>>

(* wrapped: the node has kind k, or is Incomplete if the body fails.       *)
Wrap(k, body) == <<[op |-> "wrap", kind |-> k, body |-> body]>>

(* wrapped_on_err: a node only if the body fails.                          *)
WrapOnErr(body) == Wrap("list", body)

(* The failure of the body is not passed on: as "statement" by the loops   *)
(* over statements, as "ignored" where a result is never looked at.        *)
Contained(as, body, judged) ==
  <<[op |-> "contain", as |-> as, judged |-> judged, body |-> body]>>
Contain(body) == Contained("statement", body, FALSE)
Ignore(body)  == Contained("ignored", body, FALSE)

(* Noted, the failure of the body fails the Judged production around it,   *)
(* once that has come to its end.                                          *)
Note(as, body) == Contained(as, body, TRUE)
Judged(kind, body) == <<[op |-> "judge", kind |-> kind, body |-> body]>>

(* One arm of a dispatch.                                                  *)
Arm(test, do) == [test |-> test, do |-> do]
=============================================================================
