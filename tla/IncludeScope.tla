---------------------------- MODULE IncludeScope ----------------------------
(***************************************************************************)
(* How the C++ projection decides which references to the ambient          *)
(* temperature (temp in Spectre, temper in SPICE) are rewritten to $temp   *)
(* and which are left to a declaration of that name: crates/netlist-cxx.   *)
(* A deck is several files that include one another.  The consumer projects *)
(* one file at a time with the include graph, and merges each file where   *)
(* it is included; collect_scope walks the statements of one file.         *)
(*                                                                         *)
(* A deck is a sequence of scopes.  A scope says its kind, the scope that  *)
(* holds it (0 for a file), the names it declares and the files it         *)
(* includes.  Scope 1 is the file the consumer starts from.  Every scope   *)
(* also holds one reference to the temperature of its dialect.  The names  *)
(* are those dialect_key leaves: SPICE's are folded to lower case.         *)
(***************************************************************************)
EXTENDS Naturals, Sequences, FiniteSets, SequencesExt, FiniteSetsExt

CONSTANT Decks  \* the decks, as a sequence of sets

VARIABLES deck,       \* the deck that is projected
          jobs,       \* the files the consumer has still to have projected
          job,        \* the one being projected
          calls,      \* the activations of collect_scope and its SPICE twin
          walk,       \* the targets add_unconditional_closure has to visit
          visited,    \* those it has visited
          projected   \* what each scope of the merged deck was projected to

scopeVars == <<deck, jobs, job, calls, walk, visited, projected>>

Scopes == DOMAIN deck
IsSpice(s) == deck[s].kind \in {"spice_block", "spice_subckt", "spice_clause"}
Children(s) == SetToSortSeq({t \in Scopes : deck[t].parent = s}, <)

RECURSIVE Within(_)
Within(s) == {s} \cup (IF deck[s].parent = 0 THEN {} ELSE Within(deck[s].parent))

(***************************************************************************)
(* The include graph, which the consumer supplies.                         *)
(***************************************************************************)
Inside(s, kind) == \E t \in Within(s) : deck[t].kind = kind
File(s) == CHOOSE t \in Within(s) : deck[t].parent = 0

Edges(file) ==
    UNION {{[target |-> t, gated |-> Inside(s, "clause"), nested |-> Inside(s, "subckt")] :
               t \in deck[s].includes} : s \in {s \in Scopes : File(s) = file}}

(***************************************************************************)
(* The projection.                                                         *)
(***************************************************************************)
rewrite_temp(spice, names) ==
    LET needle == IF spice THEN "temper" ELSE "temp"
    IN IF needle \in names THEN needle ELSE "$temp"

project_param(name) == name
project_param_clause_gated(name) == IF name = "temp" THEN "$temp" ELSE name

\* An activation of collect_scope, past the names the scope declares itself.
collect_scope(s, inherited, clause_gated) ==
    [scope |-> s, clause_gated |-> clause_gated, inner |-> Children(s),
     names |-> IF clause_gated THEN inherited ELSE inherited \cup deck[s].declares,
     includes |-> IF clause_gated THEN {} ELSE deck[s].includes]

RECURSIVE collect_spice_param_names(_)
collect_spice_param_names(s) ==
    deck[s].declares \cup
        UNION {collect_spice_param_names(t) :
                  t \in {t \in Scopes : deck[t].parent = s /\ deck[t].kind = "spice_clause"}}

\* An activation of project_spice_block_children.
project_spice_block_children(s, inherited) ==
    [scope |-> s, clause_gated |-> FALSE, inner |-> Children(s),
     names |-> inherited \cup collect_spice_param_names(s), includes |-> {}]

frame == Last(calls)
Position(s) == [via |-> job.via, at |-> s]
Walked == calls # <<>> /\ frame.includes = {} /\ walk = {}
Collected == Walked /\ Position(frame.scope) \in DOMAIN projected

ScopeInit ==
        /\ \E k \in DOMAIN Decks : deck \in Decks[k]
        /\ jobs = <<[root |-> 1, inherited |-> {}, root_gated |-> FALSE, via |-> <<>>]>>
        /\ job = Head(jobs)
        /\ calls = <<>>
        /\ walk = {} /\ visited = {}
        /\ projected = <<>>

parse_netlist_with_includes ==
    /\ calls = <<>> /\ jobs # <<>> /\ deck[Head(jobs).root].kind = "netlist"
    /\ job' = Head(jobs) /\ jobs' = Tail(jobs)
    /\ calls' = <<collect_scope(job'.root, job'.inherited, job'.root_gated)>>
    /\ UNCHANGED <<deck, walk, visited, projected>>

\* The statements of the section a library include names.
parse_spectre_lib ==
    /\ calls = <<>> /\ jobs # <<>> /\ deck[Head(jobs).root].kind = "section"
    /\ job' = Head(jobs) /\ jobs' = Tail(jobs)
    /\ calls' = <<collect_scope(job'.root, job'.inherited, job'.root_gated)>>
    /\ UNCHANGED <<deck, walk, visited, projected>>

\* A definition-level include statement whose target the graph knows.
graph_root_include_target ==
    /\ calls # <<>> /\ walk = {}
    /\ \E target \in frame.includes :
          /\ \E edge \in Edges(job.root) : edge.target = target
          /\ walk' = {target} /\ visited' = {}
          /\ calls' = [calls EXCEPT ![Len(calls)].includes = @ \ {target}]
    /\ UNCHANGED <<deck, jobs, job, projected>>

\* Mutant: the closure follows the includes of subcircuits.
FollowedInside(edge) == ~edge.gated

Followed(edge) == ~edge.gated /\ ~edge.nested

Targets(file) == {edge.target : edge \in {e \in Edges(file) : Followed(e)}}

\* Mutant: the closure keeps no note of its visits.
Unmarked(target) == visited

Mark(target) == visited \cup {target}

\* The order of the visits does not matter to the names: any is taken.
add_unconditional_closure ==
    /\ \E target \in walk :
          IF target \in visited
          THEN /\ walk' = walk \ {target}
               /\ UNCHANGED <<visited, calls>>
          ELSE /\ walk' = (walk \ {target}) \cup Targets(target)
               /\ visited' = Mark(target)
               /\ calls' = [calls EXCEPT ![Len(calls)].names = @ \cup deck[target].declares]
    /\ UNCHANGED <<deck, jobs, job, projected>>

Parameter(f, name) == IF f.clause_gated THEN project_param_clause_gated(name)
                                        ELSE project_param(name)
Projection(f) == [declares |-> {Parameter(f, name) : name \in deck[f.scope].declares},
                  reference |-> rewrite_temp(IsSpice(f.scope), f.names)]

\* The consumer has the included files projected in turn, with the names and
\* the gating of the place where it merges them, and no file inside itself.
Merging(f) ==
    LET open == {File(s) : s \in Range(job.via) \cup {f.scope}}
        Job(t) == [root |-> t, inherited |-> f.names, root_gated |-> f.clause_gated,
                   via |-> Append(job.via, f.scope)]
    IN SetToSeq({Job(t) : t \in deck[f.scope].includes \ open})

\* The statements of a scope that hold no scope of their own.
Collect ==
    /\ Walked /\ Position(frame.scope) \notin DOMAIN projected
    /\ projected' = projected @@ (Position(frame.scope) :> Projection(frame))
    /\ jobs' = jobs \o Merging(frame)
    /\ UNCHANGED <<deck, job, calls, walk, visited>>

Inner == Head(frame.inner)
Meets(kind) == Collected /\ frame.inner # <<>> /\ deck[Inner].kind = kind

Passed == [calls EXCEPT ![Len(calls)].inner = Tail(frame.inner)]
Enter(activation) ==
    /\ calls' = Append(Passed, activation)
    /\ UNCHANGED <<deck, jobs, job, walk, visited, projected>>

project_subckt == Meets("subckt") /\ Enter(collect_scope(Inner, frame.names, FALSE))
project_block == Meets("clause") /\ Enter(collect_scope(Inner, frame.names, TRUE))
project_spice_block ==
    Meets("spice_block") /\ Enter(project_spice_block_children(Inner, frame.names))
project_spice_subckt ==
    /\ Meets("spice_subckt")
    /\ Enter(project_spice_block_children(
                Inner, frame.names \cup collect_spice_param_names(Inner)))
project_spice_conditional ==
    Meets("spice_clause") /\ Enter(project_spice_block_children(Inner, frame.names))

project_function ==
    /\ Meets("function")
    /\ LET args == deck[Inner].declares
       IN projected' = projected @@ (Position(Inner) :>
              [declares |-> args, reference |-> rewrite_temp(FALSE, frame.names \cup args)])
    /\ calls' = Passed
    /\ UNCHANGED <<deck, jobs, job, walk, visited>>

Return == /\ Collected /\ frame.inner = <<>>
          /\ calls' = Front(calls)
          /\ UNCHANGED <<deck, jobs, job, walk, visited, projected>>

Done == calls = <<>> /\ jobs = <<>>

Project ==
        \/ parse_netlist_with_includes \/ parse_spectre_lib
        \/ graph_root_include_target \/ add_unconditional_closure
        \/ Collect \/ Return
        \/ project_subckt \/ project_block \/ project_function
        \/ project_spice_block \/ project_spice_subckt \/ project_spice_conditional

\* The projection by itself; Bridge has it order the parameter lists as well.
ScopeSpec == ScopeInit /\ [][Project]_scopeVars /\ WF_scopeVars(Project)

-----------------------------------------------------------------------------
(***************************************************************************)
(* What a reference means.  A position is a scope of the merged deck.  A   *)
(* subcircuit, a function, a SPICE block and the deck itself are           *)
(* definitions: clauses and included files put their declarations into the *)
(* definition that holds them, those of a clause only where it is active.  *)
(***************************************************************************)
Positions == DOMAIN projected
NoWhere == [via |-> <<>>, at |-> 0]
Kind(p) == deck[p.at].kind

RECURSIVE Chain(_)
Chain(p) == IF deck[p.at].parent # 0
            THEN <<p>> \o Chain([p EXCEPT !.at = deck[p.at].parent])
            ELSE IF p.via = <<>> THEN <<p>>
            ELSE <<p>> \o Chain([via |-> Front(p.via), at |-> Last(p.via)])

IsDefinition(p) == Kind(p) \in {"subckt", "function", "spice_block", "spice_subckt"}
                   \/ p = [via |-> <<>>, at |-> 1]
IsClause(p) == Kind(p) \in {"clause", "spice_clause"}
Definitions(p) == SelectSeq(Chain(p), IsDefinition)
Home(p) == Head(Definitions(p))
Gated(p) == \E q \in Range(Chain(p)) : IsClause(q) /\ Home(q) = Home(p)
Live(p, active) == \A q \in Range(Chain(p)) : IsClause(q) => q \in active
Declares(q, p) == (IF IsSpice(p.at) THEN "temper" ELSE "temp") \in deck[q.at].declares

\* The declarations the innermost definition around p that has any shows.
Innermost(p, Shows(_)) ==
    LET ds == Definitions(p)
        hits == {k \in DOMAIN ds : \E q \in Positions : Home(q) = ds[k] /\ Shows(q)}
    IN IF hits = {} THEN {} ELSE {q \in Positions : Home(q) = ds[Min(hits)] /\ Shows(q)}

\* The declarations a reference of the source names; none is the ambient one.
Source(p, active) == Innermost(p, LAMBDA q : Live(q, active) /\ Declares(q, p))

\* Those it names after the projection; NoWhere is an undefined name.
Target(p, active) ==
    LET ref == projected[p].reference
        found == Innermost(p, LAMBDA q : Live(q, active) /\ ref \in projected[q].declares)
    IN IF found = {} /\ ref # "$temp" THEN {NoWhere} ELSE found

\* The declarations in the definitions around p, those of idle clauses too.
Around(p) == {q \in Positions : Home(q) \in Range(Definitions(p)) /\ Declares(q, p)}

\* A Spectre clause declares temp where a definition around it does outside any
\* clause: the clause's is renamed to $temp and the reference is not.
Hidden(p, active) == /\ ~IsSpice(p.at)
                     /\ \E q \in Around(p) : ~Gated(q)
                     /\ \E q \in Source(p, active) : Gated(q)

\* Only idle SPICE clauses declare temper: the reference is left without one.
Dangling(p, active) == /\ IsSpice(p.at) /\ Source(p, active) = {}
                       /\ \E q \in Around(p) : IsSpice(q.at)

\* Only Spectre clauses declare temper, and a SPICE reference is rewritten.
Missed(p, active) == /\ IsSpice(p.at) /\ Source(p, active) # {}
                     /\ \A q \in Around(p) : ~IsSpice(q.at) /\ Gated(q)

\* When the deck is projected and merged, whichever clauses are active, every
\* reference to the temperature names the declaration it names in the source,
\* or the ambient temperature where it names that, in every file and through
\* every include; but for the three cases above, and in each of them.
BindsAsInSource ==
    Done => \A active \in SUBSET {p \in Positions : IsClause(p)} :
               \A p \in {p \in Positions : Live(p, active)} :
                  (Target(p, active) # Source(p, active)) <=>
                     (Hidden(p, active) \/ Dangling(p, active) \/ Missed(p, active))

\* A projection ends, also when files include one another: the closure visits
\* no file twice.
ProjectionEnds == <>Done
=============================================================================
