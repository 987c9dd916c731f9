---------------------------- MODULE MCSigStream ----------------------------
(* Every stream of at most MaxTokens tokens; those of MaxTokens have no    *)
(* escaped newlines.                                                       *)
EXTENDS SigStream

CONSTANT MaxTokens

MCStreams ==
  {r \in UNION {[1..n -> Kind] : n \in 1..MaxTokens} :
     Lexed(r) /\ (Len(r) = MaxTokens => \A i \in 1..MaxTokens : r[i] # "escd")}
=============================================================================
