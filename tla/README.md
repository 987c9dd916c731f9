# NetlistParse.rs in TLA+

A verification development for the parsers of this repository. It models the
control of the program, the state each part keeps and the order in which it
changes; characters appear as classes, in the lexers only. TLC checks the models
on small instances. TLAPS proves for every value of their constants what the models
of seven components, all but the C++ scopes, guarantee: every safety property but
two of the grammars, which speak of the texts the run is made of.

Run a configuration with `tlc -workers 2 -config X.cfg M` and a proof with
`tlapm M.tla`; `PROJECT.json` says which module goes with which configuration,
which line of the source each definition stands for, and which change of the
code each property would notice.

## The system

The repository is a family of Rust crates around `crates/netlist-syntax`, a
lossless parser of circuit netlists in two languages, SPICE (four dialects) and
Spectre. Everything is sequential: there is no thread, no network and nothing
that outlives a call. What is hard is the state that long sequences of calls
share: cursors that read ahead, an emission index, checkpoints, flags that
survive a statement, and two parsers that take turns on one text.

Components, the state they keep, and what makes them right:

- **Lexers** (`lexer.rs`, `spectre_lexer.rs`): a cursor over characters, the
  last token, the title machinery, the stack of open delimiters that decides what
  separates tokens in SPICE, the flag of an encrypted block. They turn a
  text into raw tokens that tile it, ending in one `ENDMARKER`. The Spectre
  lexer runs once over the whole file; the SPICE lexer runs again for each
  region, from the byte the region starts at. Hard: tokens that run over line
  ends (strings, encrypted blocks, escaped names), modes that outlive the line
  they were meant for, and that the two lexers disagree on where
  tokens begin.
- **Significant-token lookahead** (`get_next_raw`, `get_next_action`,
  `next_sig` in both parsers): the scan position `p` and the flag `started`. It
  skips trivia, folds `+` continuations and decides which newlines end a
  statement. Right when it delivers exactly the significant tokens in order and
  returns from every call.
- **Token layer** (`advance`, `flush_trivia`, `bump`, `checkpoint`, `wrap*`,
  `error`, `take*`, and for Spectre `recover_then_identifier`, `save_state`,
  `restore_state`, `resync_at`): two tokens of lookahead, `emit_idx`, the tree
  builder, the dry flag. Every production is written on it. Right when the tree
  tiles the text, no decision is taken on a stale token, checkpoints stay valid
  and an error costs one logical line.
- **Grammar productions** (the rest of `parser.rs` and `spectre_parser.rs`):
  recursive descent; the state is the call stack and its checkpoints. Hard: what
  happens after one of several steps fails, loops that rely on every iteration
  consuming something, block structure after an error.
- **Language switch** (`parse_toplevel`, `handoff_to_spice`, `resync_at` in
  `spectre_parser.rs`; `parse_region`, `parse_spice_region` in `parser.rs`; both
  `parse_simulator`): one `lang_swapped` flag per parser, the byte handed over.
  The Spectre driver is always the outer one; it moves the builder to a fresh
  SPICE parser and takes it back. Right when every line is parsed in the language
  selected for it, nothing is lost or emitted twice, and the parse ends.
- **Expression parsers**: precedence climbing on the token layer, with error
  wrapping. Right when grouping follows precedence and associativity and no
  operator meets a missing case of `prec`.
- **Keyword tries, syntax kinds, dump, typed accessors** (`keywords.rs`,
  `spectre_keywords.rs`, `syntax_kind.rs`, `spectre_syntax_kind.rs`, `dump.rs`,
  `ast.rs`, `spectre_ast.rs`): static tables and pure reads of a finished tree.
- **C++ bridge** (`crates/netlist-cxx`): projects the tree into structures for a
  simulator. It has three algorithms of its own: the dependency order of a
  parameter list (`param_order`, `ordered`, `checked_source_order`), the scopes
  in which a declaration hides the `temp` builtin (`collect_scope`), and the
  closure over an include graph (`add_unconditional_closure`). Right when the
  order respects references and is stable, exactly the cyclic lists are
  reported, and clause-gated or nested declarations never leak.
- **C ABI, Python bindings, command-line tools**: conversions and printing.

## The modules

| module | models | state and actions |
| --- | --- | --- |
| `Tokens` | what the lexers promise of a raw stream, and its reading as logical lines | no state: `Lexed`, `Significant`, `IsNextSig` |
| `LogicalLines` | the abstract lookahead: the significant tokens, each once and in order | `Read`, `Restart` |
| `SigStream` | `get_next_action`, one action per raw token examined, and `Resync` for `resync_at` | `p`, `started`, the newline held back (`idx`), the program counter |
| `TokenLayer` | the helpers of the token layer, both parsers at once | `p`, `nt`, `nnt`, `emit`, the children of the open node, the checkpoints on the call stack, the running recovery, the saved state of a dry run |
| `LangSwitch` | the driver, the regions and the flags | position, owner of each half of a line, language, nesting, both flags, the title |
| `Cursor` | what the two lexers share: the text, the cursor, the tokens emitted | helpers named after the batches they read |
| `SpiceLexer`, `SpectreLexer` | `next_token`, one action per `lex_` function | the last tokens, the flag of the line, the stack of delimiters, the encrypted block |
| `Lexers` | the two on one text, and their properties | the union of their actions |
| `Productions` | the vocabulary of the grammars: tests of the lookahead, tokens, choices, loops, nodes, contained failures | no state |
| `SpiceGrammar`, `SpectreGrammar` | every production of `parser.rs` and `spectre_parser.rs`, written in that vocabulary | no state |
| `Statements` | how productions run: one action per token taken, choice, loop turn, node closed, failure and statement begun | the position, the stack of what is left to do, what was begun and parsed, where a failure was dropped |
| `DependencyOrder` | the abstract order: always place the first parameter whose references are all placed | `Place`, `Conclude` |
| `ParamOrder` | Kahn's algorithm as written, with the heap, and its callers | `succ`, `indeg`, `ready`, `order` and a program counter |
| `ExprParser` | `parse_expression` and `parse_binop`, which the two parsers share line for line | the operand reached, the stack of running `parse_binop` calls with the checkpoint, operator and caller's operator of each, the nodes wrapped so far |
| `IncludeScope` | `collect_scope`, its SPICE twin and the closure over the include graph, with the consumer that merges the files | the activations with their sets of names, the closure's work and visited sets, what each scope was projected to |
| `Bridge` | a call of the C++ bridge: where a definition returns, its list goes through `ParamOrder` | `Order`, `CollectScope` |
| `Counting` | facts about least elements and about how often something occurs in a sequence | no state: lemmas |
| `SigStreamProofs`, `TokenLayerProofs`, `ExprParserProofs`, `LangSwitchProofs`, `ParamOrderProofs`, `LexersProofs`, `StatementsProofs` | the theorems about the module each is named after | |
| `StatementTexts`, `LexerTexts`, `MC...` | the bounded inputs of the runs | |

How they compose. `SigStream` implements `LogicalLines` and `ParamOrder`
implements `DependencyOrder`, each by an `INSTANCE` and with the abstract
specification as a property. `Lexers` establishes, for every text, the predicate
`Lexed` that `Tokens` assumes of the raw streams of `SigStream` and `TokenLayer`
(`ParsersAssumption`). `TokenLayer` takes `next_sig` as one step whose result is
what `SigStream` is shown to deliver (`IsNextSig`). `Statements` runs on
significant tokens, takes `error` as `TokenLayer` shows it to work (the rest of
one logical line), and instantiates both grammars. `LangSwitch` takes from
`TokenLayer` that each statement emits its text in one piece, and is about which
parser emits it. `Bridge` runs `IncludeScope` and, where a definition returns whose
list is to be ordered, `ParamOrder`.

Abstractions worth knowing:

- A raw token is its kind as far as the token layer can tell: whitespace,
  comment, escaped newline, newline, plus, `ENDMARKER`, or a word. `sealed` is
  the comment of an encrypted line, which has the newline inside.
- The grammar is free in `TokenLayer`: any helper may be called whenever it can
  be called, so the invariants hold for the productions of both languages and
  for any that will be added. `Take` stands for all helpers that bump one token,
  for `accept_newline` on a newline and for `error` on one. The only discipline
  assumed of the grammar is the one of a call stack: a production closes its own
  nodes before those of its callers, a dry run returns at the depth it began at
  and does not nest, and a hand-over happens between statements.
- A run of trivia flushed in one go is one piece of the tree. `errored` is
  written and never read by any caller, so it is not modelled. `started` in
  `save_state` is not modelled in `TokenLayer`: it is always true once the
  lookahead has been filled, which `SigStream` shows on each call.
- A text in `LangSwitch` is a sequence of logical lines, each with a middle, so
  that a token may begin or end inside a line. A statement may parse well or not
  (`ok`). A malformed statement costs one line, as `TokenLayer` shows of
  `error`; what some productions lose beyond that is `ErrorsAreLocal`. The
  strings stand for every Spectre token that runs over line ends.
- In the lexers a character is a member of a class the code tests for; letters
  stand for both cases, two digits for ten, and one symbol for each of the two
  phrases that open and close an encrypted block. The keywords are those whose
  prefixes the texts use, all that share a beginning with them included, because
  a SPICE word is completed along its only continuation.
- A production in the grammar modules is a sequence of what its function does.
  Texts of names and numbers are gone, except for the commands `.step`, `.func`
  and the like, which the code tells apart by their text. `"func"` stands for
  both spellings of it. The tree is kept to the kind of the node closed last: it
  decides whether a statement was parsed as what it is.
- In `Statements` a function that discards a result has the mark of its caller
  on the stack (`caught`), and a body that notes failures and raises them at its
  end has a `verdict`. A failure unwinds to the nearest `caught`.
- In `ParamOrder` the free identifiers of a value are an input; the scan of the
  expression text is not modelled. The early return for lists of at most one
  parameter gives what the loop gives (a lone parameter has no edge) and is not
  a step of its own.
- In `ExprParser` an operator is its precedence, 0 for one `prec` has no arm for,
  and an operand is anything `parse_primary_or_unary` takes; one operand of the
  text may fail to parse. A checkpoint is the operand it was taken before, a node
  is a span of operands. The ternary and the quoted form wrap the result and are
  in the grammar modules.
- In `IncludeScope` a scope has at most one name to declare, the one that
  matters, and one reference. The consumer, which is not in this repository, is
  taken from the documentation of the bridge and the way its entry points are
  used: it hands over one graph per file and merges what it gets where the
  `include` stands. A deck never includes a file inside itself; the graph may
  still have cycles, since the closure does not know about merging. A
  `graph.inherited` has the names visible at the include.

## The runs

| run | shows | bounds |
| --- | --- | --- |
| `SigStream` | `DeliversLogicalLines`, `NothingSkipped`, `CallReturns`, `LinesStayApart`, `TypeOK` | streams of at most 6 tokens, encrypted blocks included, restart at every token: a held newline, indentation, a comment or blank line, and a continuation fit in five; streams of exactly six have no escaped newline, which is whitespace to the loop |
| `TokenLayer` | `TreeTiles`, `LookaheadExact`, `LeavesAreSignificant`, `CheckpointsValid`, `ErrorEatsOneLine`, `RecoveryEnds`, `TypeOK` | files of two lines from six kinds of line, two nested nodes, nodes opened or wrapped again while the tree has at most three pieces; the theorems need no bound |
| `LangSwitch` | `RightUntilReturn`, `OnlyCutTokensAreLost`, `EmittedOnce`, `Terminates`, `TypeOK` | four lines of all kinds, which is a switch, a line, the switch back and a line; strings over up to three lines |
| `SwitchBack` | `AllToTheirParser` fails | one file: a switch to SPICE, the switch back with a string that begins in its line, and three lines |
| `Lexers` | `ParsersAssumption`, `NewlinesAreTokens`, `ParensMatchInLine`, `CommentLines`, `TypeOK` | every text of at most two characters in both languages; all sequences of three of 17 pieces and of four of 11 for SPICE, of four of 12 for Spectre and of four of six lines that open, close or leave an encrypted block; two pieces under a title, in other dialects and with Julia escapes. A bracket, a line end, an indentation and a closing bracket make four |
| `CommentedLines` | `StackOutlivesComments` fails | one character less |
| `Statements` | `ErrorsAreLocal`, `StatementsStartLines`, `NestingIsByLine`, `Terminates`, `TypeOK` | for each production one or more statements that use all of it: whole, without the newline of the last line, cut behind each token, and with each token replaced by one that nothing takes, followed by a good statement; a block opener with nothing behind it, with and without its newline; and every sequence of four block lines that begins with an opener and has no other, or of three, so that any two blocks can be nested and closed in any order |
| `MalformedLines` | `RestStaysIntact` fails | one file: a malformed `.ic`, a good line, a `.data` without columns, a good line |
| `Bridge` | of the ordering `KeepsPromise`, `InDegreesExact`, `CyclesReported`, `DefinitionsSurvive`, `Terminates`, `TypeOK`; of the projection `BindsAsInSource`, `ProjectionEnds` | lists of three parameters over the names a, A, b, with values that refer to nothing, one name, one name twice, two names: enough for cycles, self references, duplicates and multiple edges. Fourteen arrangements of two, four or five scopes (file, library section, subcircuit, clause, function, SPICE block, SPICE subcircuit and clause); in each, every choice of which scopes declare the temperature and of up to three include statements (two for five scopes), cycles included; a clause in a subcircuit in a clause, a file included twice, and one included from a clause and from a definition all fit. Every list is ordered in a file with a SPICE block, as the list of either, and every deck is projected with an empty list: the two share no state but the place where a definition returns |
| `ExprParser` | `TwoOperands`, `GroupedUnlessRelapse`, `FailureContained`, `Terminates`, `TypeOK` | up to six operators of three precedences or without an arm, every position of the malformed operand; a relapse takes four operators and three precedences |
| `Relapse` | `Grouped` fails | up to five operators |
| `UnknownOperator` | `NoPanic` fails | up to two operators |

Fairness. Each model is weakly fair for the steps of the loop it is about
(`Scan`, `Recovery`, `Step`), or for all its steps where the model is one call
from beginning to end (`Lexers`, `Statements`, `Bridge`), because that is
sequential code nothing interrupts. What a client asks next is never assumed to
happen. Deadlock is checked except in `Lexers` and `Statements`, which stop when
the call has returned.

### Exceptions that are part of a property

Several properties hold with exceptions. Each is written as an exact condition
on the input, so that the run shows both that the exception is real and that
there is no other. Where the repository's documentation promises the property without the
exception, a failing run states the promise as it stands: `SwitchBack`,
`MalformedLines`, `UnknownOperator`, `Relapse`, `CommentedLines`.

- `LinesStayApart`: a protected line is a comment with its newline inside. The
  newline before it is dropped, as before any comment, and no other follows the
  block, so the statements around an encrypted block are read as one.
- `OnlyCutTokensAreLost`: the driver has tokenized the SPICE part of the file as
  Spectre too. When one of those tokens crosses the end of the region,
  `resync_at` goes on at the next token start and the bytes between are in no
  node (`SwitchBack`).
- `NewlinesAreTokens`: the identifier behind a backslash ends at a blank, and a
  newline is none.
- `CommentLines`: a line that begins with a star is no comment behind an escaped
  newline or a string, behind `.include`, `.lib` or `.hdl` without a path, and,
  in Spectre, at the beginning of the file and behind an encrypted block.
- `ErrorsAreLocal`: a well-formed statement is parsed if and only if it is in none of
  these cases. A `.data` table without its `.enddata`, or a Spectre function without
  the rest of its body, goes on in the next line as long as it was whole so far, and
  that line shares its error. The failure of `.ic` behind a colon, of a lenient
  identifier and of the tail of an instance is not looked at where it happens, and
  the production goes on in the next line. `RestStaysIntact` has none of these
  exceptions, and `MalformedLines` shows it fail. `ic`,
  `nodeset` and function declarations of Spectre fail on the last line of a file that
  has no newline there, where every other statement takes the end of the file for one.
- `StatementsStartLines`: behind a brace a statement may stand in the same line,
  and a block opened in the last line of a file that has no newline there has
  the `ENDMARKER` for its first statement, which fails at it.
- `NestingIsByLine`: a SPICE block contains what is bad in it; in Spectre one bad
  statement ends every subcircuit, library and section around it, up to the
  nearest braces, whose own failure shows when they close: the `else` behind
  them is then no `else`.
- `Terminates` of `Statements`: a `.data` with values and without columns
  (`MalformedLines`).
- `Terminates` of `ExprParser`: `prec` panics on an operator token without an
  arm. It is called only when a second operator follows, so `a ! b` parses and
  `a ! b + c` does not (`UnknownOperator`).
- `GroupedUnlessRelapse`: exactly the expressions where an operator returns to
  the level of one still waiting, out of a run that had risen twice, come out
  wrong.
- `DefinitionsSurvive`: references mean the last definition of a name, and the
  order is computed for it, but an earlier definition that waits for something
  behind the last one is moved behind it. The list `b=a a=b a=1` leaves as
  `a=1 b=a a=b`.
- `BindsAsInSource`: `Hidden`, a clause declares `temp` inside a definition that
  declares it too; the declaration is renamed to `$temp` and the reference is
  not. `Dangling`, only idle SPICE clauses declare `temper`, and the reference is
  left without a declaration. `Missed`, only a Spectre clause declares `temper`,
  and a SPICE reference inside is rewritten, since what a clause declares is kept
  out of the names its scopes inherit.

### What the failing runs show

- `SwitchBack`: two things go wrong on the way back from SPICE. README.md:22 and
  129-132 promise a tree that tiles the source exactly, for malformed input too; but a
  quote in a SPICE comment on the line that switches back opens a string for the
  driver, and all text up to the end of that string, or of the file, is in no node (the
  third line of the run). And `lang_swapped` of the Spectre parser is never cleared:
  one Spectre statement is parsed, and then everything up to the next switch back is
  parsed as SPICE (the fifth line). The comment at the flag calls the repeated hand-over
  "possibly empty, and thus invisible"; it is empty only at the end of the file or
  where a switch back follows.
- `UnknownOperator`: README.md:129-130 and tests/robustness.rs promise that no input
  panics. `prec` panics on `{a ! b + c}`: `is_operator` takes `!`, which `prec`
  has no arm for.
- `MalformedLines`: README.md:25-26 says that malformed lines leave the rest of the
  tree intact, and tests/robustness.rs that every input parses. `.ic` does not look at
  the failure of the identifier behind its colon, which has eaten the line, goes on in
  the next one and takes the good statement there along. `parse_data` counts the column
  names and then, until the end of the line, takes as many literals as there are: with
  `.data name 1 2` it takes none and never gets to the end of the line, nor to the
  statement behind it.
- `Relapse`: when the inner call of `parse_binop` returns, the caller closes its
  node and takes the next operator without comparing it with its own caller's
  operator, as the other branch does. `a - b*c**d - e` is read as
  `a - ((b*c**d) - e)`.
- `CommentedLines`: the comment in `next_token` says that the first token of a
  line that is not trivia clears the stack of open delimiters. The code looks at
  the first character that is not a blank, and a comment has one: an expression
  continued behind a comment line is lexed as if it were over.

## The proofs

Each component's theorems are in a module of its own. They assume what the module
assumes of its constants and nothing else: that the streams are ones the lexers
produce, that a list is a list, that a text is a text.

`SigStreamProofs` assumes only `StreamsAssumption`, that the streams are ones
the lexers produce. The inductive invariant `ScanInv` adds to `TypeOK` what the
program counter means: what lies between the last token delivered and the scan
position is not significant, `started` tells whether something was read since the
restart, and in the state `newline` everything since the held newline is
whitespace. With it each step of the loop is a stutter of `LogicalLines` or one
`Read`, and `Resync` is a `Restart`: that is `ImplementsLogicalLines`, the
refinement the run `SigStream` checks. `TypeCorrect` and `NothingSkippedHolds`
come from the same invariant. `LinesAlwaysStayApart`
looks at the last newline between the two tokens: it is not significant, so
something is read before it, and of what may stand behind such a newline only a
`+` leaves the second token where it is.

`TokenLayerProofs` proves `LayerInvariant`, the conjunction of `TypeOK`,
`TreeTiles`, `LookaheadExact`, `LeavesAreSignificant`, `CheckpointsValid` and the
strengthening they need: the saved state of a dry run satisfies the same facts
about the lookahead as the current one (otherwise `DryEnd` could not restore
them), checkpoints taken outside the dry run stay below those taken inside, and
emission never passes the lookahead except at the `ENDMARKER`. The proof has a
step per action and under it one per conjunct; lemmas state what flushing,
bumping, wrapping and reading ahead do to the pieces. The bounds `MaxOpen` and
`MaxPieces` play no part in it. `TypeCorrect`, `TreeAlwaysTiles`,
`LookaheadAlwaysExact`, `LeavesAlwaysSignificant` and `CheckpointsAlwaysValid`
follow. `ErrorAlwaysEatsOneLine` needs one fact more, `RecoveryInv`: while
`error` runs, it has emitted the token it began at and no significant newline.

`ExprParserProofs` assumes only `TextsAssumption`: any number of operators of any
precedences, and an operand that may fail. `TwoOperands` is not inductive by
itself. `IInv` adds what each running call relies on: calls begin further and
further to the right (`Rising`), each after a whole left operand of the call
around it (`Chained`); while reading, everything behind the innermost call's
left operand is still open (`Reading`); a call that returns leaves a whole right
operand and nothing that ends there begins before it (`Returning`); no finished
node reaches over the beginning of a running call (`NoStraddling`); and, for a
failure, what the wraps have closed so far (`Failing`). The three places that
close a binary node share one lemma, `BinaryWrapped`, and their two ways to go on
one each, `CallCloses` and `CallGoesOn`. `TwoOperandsAlways` holds with a relapse
too: the tree is then a different one, but still one of binary nodes.

`GroupedExactly` has an invariant of its own, `Grouping`: the climbing is as it
should be (`Climbing`), or it has gone wrong for good (`Lapsed`). In the first case
every call waits for the right operand of one operator: what it has read before
that binds at least as tight, what it has read behind, tighter (`Waits`); an inner
call began behind the operator its caller waits with (`Ladder`), and every other
operator has the node precedence gives it (`Built`). An operator that closes a
node is one that the node may end at (`Fits`), and is late for no other node
(`NotLate`), as long as it is tighter than the one the caller waits with. Every
branch of `parse_binop` sees to that but `Rejoin`, and where it is not so there,
the caller's operator and the one taken are a relapse, and the caller's node
can no longer end where it should (`RejoinLapses`): the second case, which no later
step undoes.

`LexersProofs` is about every text and both lexers. A first part says what each
`lex_` function does, as far as anything later depends on it: `Read` (its token is
not empty, does not pass the end, has a newline in it only if it is of a kind that
may), `Balanced` (what it does to the stack of delimiters) and, for SPICE, `Placed`
(where in a line it may stand). There is one lemma for each action, over the tables
of operators, keywords and character classes as the code has them. Where a token
ends is defined by recursive functions; that they have the value their equation
gives is shown by taking the least counterexample, because induction is out of the
prover's reach. The same argument gives the function `BlockOpen`, which reads off
the tokens whether an encrypted block is open. Then there are three inductive
invariants:
  - `Scanned` says of every token so far that it was read as its kind allows, where
    the last one ended, and that the flag of the encrypted block agrees with the
    tokens. `TypeCorrect`, `NewlinesAlwaysTokens` and `ParsersAssumptionHolds` follow;
    the last joins this proof to those of `SigStream` and `TokenLayer`: it is what
    they assume of a stream.
  - `InLines` says that since the beginning of the line the opening parentheses
    exceed the closing ones by at least those open on the stack. It is
    inductive because the first token of a line that counts clears the stack.
    `ParensAlwaysMatch` follows.
  - `Comments` says that a path the last command still owes is owed in the tokens
    too. With it a step at a star either makes a comment, or `RunsOn` tells which
    token before it took the line end along. `CommentsAlwaysRecognised` follows.

`ParamOrderProofs` shows that each list of successors holds a parameter as often as
that refers to it (`SuccExact`), that an in-degree counts the references to
parameters not placed, plus those that the relaxation under way has still to do
(`CountExact`), and that the heap is where the count is zero (`HeapExact`).
`InDegreesAlwaysExact` is what is left of that between two pops, and the subtraction
never underflows. `Greedy` says that at each place stands the first parameter that
could, and gives `ImplementsPromise`, the refinement of `DependencyOrder` step by
step. No member of a set each of which needs another is ever placed
(`CyclesUnplaced`); with the heap empty, what is left over is such a set:
`CyclesAlwaysReported`. `DefinitionsAlwaysSurvive` takes both: of a definition that
left behind the last one, and all it waits for, something needed nothing else when
the last one was placed, and `Greedy` would have placed that first.

`LangSwitchProofs` shows of any file that what lies behind the cursor has no owner,
and what lies before it and has none is the middle of a token (`EmissionOK`). That
gives `NothingEmittedTwice` and `OnlyCutTokensEverLost`. `AlwaysRightUntilReturn`
needs `WholeInv`, what the flags remember in a file of switches that stand by
themselves: `lang_swapped` a switch to SPICE that was parsed, `swapped_back` the
switch back that was parsed last, and that a Spectre parser with its flag set is one
that was returned to. That is the point where `SwitchBack` breaks, and up to there
the driver selects what the file does (`SelectionOK`).

`StatementsProofs` assumes only that a text is tokens that end in an `ENDMARKER`, in
one of the two languages. The productions call each other, so what they do cannot be
had without induction, which the prover does not have. They are typed instead. A
label (`Label`) says what is known between two commands of a production: whether the
position begins a line or stands behind the dot of one (`place`), the least it can be
(`least`), and whether it is before the end (`inside`). A set of commands, each with
a label before it and one behind it, is `Consistent` if every command does what its
labels say as long as those inside it do, and it is enough to name such a set:
`Laid` and `Good` type a sequence by one, and two of them can always be joined. The
proof has these parts:
  - one lemma per way to put commands together (`GoodConcat`, `GoodWeaker` and those
    for choices, loops, nodes and contained failures), and from them one line or
    a few for each production: it keeps the position or moves it, ends a line, or is a
    statement (`Keeps`, `Moves`, `EndsLine`, `IsStatement`, `KeepsLine`);
  - `SpiceRulesHold` and `SpectreRulesHold`: every rule has an arm for
    whatever the lookahead is, and each arm does what the callers of the rule take for
    granted (`Result`): a statement that succeeds has taken a token and ends behind a
    newline or a brace or at the end. Some arms do so only because their test excludes the
    `ENDMARKER` (`Fenced`);
  - the invariant `Inv`. `Holds` is a label the position is at; from it the stack
    of what is left to do runs to its end (`Runs`), marks of running nodes,
    statements and contained failures included; and under all of it lies the
    loop of `parse_toplevel` with its mark (`Based`), so that every failure is caught
    by something. `Recorded` says it of what was begun, parsed and dropped. There
    is one lemma for each action.
`TypeCorrect` then says that no statement succeeds without a token of its own, which
is what every loop over statements relies on to come to an end.
`StatementsAlwaysStartLines` had to be corrected by the attempt to prove it: the
exception of the block opened at the very end was missing, since no text of the run
ended there. Those texts are in the run now.

Model-checked only:
  - the liveness properties (`CallReturns`, `RecoveryEnds`, `Terminates`), which are
    out of the prover's reach;
  - `ErrorsAreLocal` and `NestingIsByLine` of `Statements`: they compare what is
    parsed with what each chunk of a text was written to be, which is known of the
    texts of the run and of no other;
  - `BindsAsInSource` of `IncludeScope`, whose recursion over scopes is written with
    `RECURSIVE` operators, in modules that hold which nothing can be proved.

## Not modelled

- Reading trees: the typed accessors (`ast.rs`, `spectre_ast.rs`) and the printer
  of the dump walk a finished, immutable tree; they have no state and no order of
  steps to get wrong.
- The projections of instances, devices, models and analyses in the C++ bridge
  copy fields of that tree. The scanner that finds free identifiers in the text
  of an expression works character by character and is taken as an input by
  `ParamOrder` and `IncludeScope`. `parse_spice_lib` selects sections by name and
  calls the projection that is modelled.
- The nodes of the keyword tries, of which only what `lookup` returns is
  modelled; the table of `prec`, which is abstracted to levels; names that differ
  in case, which `dialect_key` has folded before `IncludeScope` sees them.
- The C ABI, the Python bindings and the tools convert and print.
- Stack depth, byte offsets beyond 32 bits and memory are outside the models.
- `LangSwitch` does not run the grammars: a statement in it parses well or not,
  freely. The grammars of `Statements` are each run on a whole file, not on the
  regions a switch leaves them.

## Plan

Done: all modules of the first plan, the grammars, the lexers and the projection that
followed, and the proofs of seven of the components. What would add most now:

1. The scopes of `IncludeScope` with functions for its recursion, in a form that can
   be proved about.
2. A composition of `LangSwitch` with the grammars, in which a region ends where
   the statements of `Statements` say, blocks left open included.
