--------------------------- MODULE StatementTexts ---------------------------
(***************************************************************************)
(* The texts the statement parsers are run on: for every production a      *)
(* statement, or several, that use all of it; the same cut short or with   *)
(* one token replaced, followed by a statement that is well formed; and    *)
(* sequences of the lines blocks are made of.                              *)
(***************************************************************************)
EXTENDS Sequences, SequencesExt, FiniteSetsExt, Integers

I == "IDENTIFIER"
N == "NUMBER"
NL == "NEWLINE"

(* A chunk: its tokens, the kind its statement has, and, in a text about   *)
(* blocks, what it does to them.                                           *)
Chunk(as, toks) == [as |-> as, toks |-> Append(toks, NL), does |-> "none", block |-> ""]

Dot(as, toks) == Chunk(as, <<"DOT">> \o toks)
Dev(as, letter, toks) == Chunk(as, <<"IDENTIFIER_" \o letter>> \o toks)

SpiceStatements ==
  {Chunk("Simulator", <<"SIMULATOR", "LANG", "EQ", "SPICE">>),
   Dot("Model", <<"MODEL", I, I, I, "EQ", N>>),
   Dot("Model", <<"MODEL", I, "DOT", I, N, I, "DEV", "SLASH", I, "EQ", N>>),
   Dot("ParamStatement", <<"PARAMETERS", I, "EQ", "LBRACE", N, "PLUS", N, "RBRACE">>),
   Dot("ParamStatement", <<"PARAMETERS", I, "EQ", "PRIME", N, "PRIME">>),
   Dot("ParamStatement", <<"CSPARAM", I, "EQ", N>>),
   Dot("EndStatement", <<"END">>),
   Dot("Title", <<"TITLE", "TITLE_LINE">>),
   Dot("DCStatement", <<"DC", I, "MINUS", N, N, N>>),
   Dot("ACStatement", <<"AC", I, N, N, N>>),
   Dot("Tran", <<"TRAN", N, N, N, N, I>>),
   Dot("GlobalStatement", <<"GLOBAL", I, N>>),
   Dot("TempStatement", <<"TEMP", N>>),
   Dot("WidthStatement", <<"WIDTH", I, "EQ", N>>),
   Dot("OptionStatement", <<"OPTIONS", I, I, "EQ", N>>),
   Dot("IncludeStatement", <<"INCLUDE", "STRING">>),
   Dot("HDLStatement", <<"HDL", I>>),
   Dot("PrintStatement",
       <<"PRINT", "TRAN", I, "LPAREN", I, "COMMA", N, "RPAREN">>),
   Dot("PrintStatement", <<"PRINT", "LSQUARE", I, N, "RSQUARE">>),
   Dot("DataStatement", <<"DATA", I, I, I, N, N, NL, "DOT", "ENDDATA">>),
   Dot("DataStatement", <<"DATA", I, NL, "DOT", "ENDDATA">>),
   Dot("", <<"DATA", I, N, N>>),    \* values, but no columns
   Dot("ICStatement",
       <<"IC", I, "LPAREN", I, "COLON", I, "RPAREN", "EQ", N>>),
   Dot("ICStatement",
       <<"IC", I, "LPAREN", "STAR", "RPAREN", "EQ", N,
         I, "LPAREN", N, "STAR", "RPAREN", "EQ", N>>),
   Dot("LibInclude", <<"LIB", "STRING", I>>),
   Dot("EndlStatement", <<"ENDL", I>>),
   Dot("MeasurePointStatement",
       <<"MEASURE", "TRAN", I, "FIND", I, "WHEN", I, "EQ", N, "RISE", "EQ", "LAST",
         "TD", "EQ", N>>),
   Dot("MeasurePointStatement", <<"MEASURE", "AC", "STRING", "AT", "EQ", N>>),
   Dot("MeasureRangeStatement",
       <<"MEASURE", "TRAN", I, "AVG", I, "TRIG", I, "VAL", "EQ", N, "TD", "EQ", N,
         "FALL", "EQ", N, "TARG", I>>),
   Dot("StepStatement", <<"step", I, N, N>>),
   Dot("FuncStatement", <<"func", I, "LBRACE", I, "STAR", N, "RBRACE">>),
   Dot("GlobalParamStatement", <<"global_param", I, "EQ", N>>),
   Dot("NodeSetStatement", <<"nodeset", I, N, "EQ", N>>),
   Dot("ConvertPortStatement", <<"convert_port", I, "EQ", I>>),
   Dev("Resistor", "RESISTOR", <<I, N, N>>),
   Dev("Resistor", "RESISTOR", <<I, N, I, "EQ", N>>),
   Dev("Capacitor", "CAPACITOR", <<I, N, "LBRACE", I, "RBRACE", I, "EQ", N>>),
   Dev("Inductor", "LINEAR_INDUCTOR", <<I, N, "PRIME", I, "SLASH", N, "PRIME">>),
   Dev("Voltage", "VOLTAGE", <<I, N, "DC", "EQ", N, "AC", N, N, "PULSE", N, N>>),
   Dev("Current", "CURRENT", <<I, N, N>>),
   Dev("SubcktCall", "SUBCIRCUIT_CALL", <<I, N, I, I, "EQ", N>>),
   Dev("SubcktCall", "SUBCIRCUIT_CALL", <<I, I, "EQ", N, I>>),
   Dev("OSDIDevice", "OSDI", <<I, I>>),
   Dev("ControlledSource", "VOLTAGE_CONTROLLED_VOLTAGE", <<I, N, I, N, N>>),
   Dev("ControlledSource", "VOLTAGE_CONTROLLED_CURRENT", <<I, N, I, "EQ", N>>),
   Dev("ControlledSource", "CURRENT_CONTROLLED_CURRENT", <<I, N, I, N>>),
   Dev("ControlledSource", "CURRENT_CONTROLLED_VOLTAGE", <<I, N, "POLY", N, I, N>>),
   Dev("ControlledSource", "VOLTAGE_CONTROLLED_VOLTAGE",
       <<I, N, "TABLE", "LBRACE", I, "RBRACE", "EQ", N, N>>),
   Dev("Switch", "SWITCH", <<I, N, I, N, I, "ON">>),
   Dev("Diode", "DIODE", <<I, N, I, I, "EQ", N>>),
   Dev("MOSFET", "MOSFET", <<I, N, I, N, I, I, "EQ", "MINUS", N>>),
   Dev("BipolarTransistor", "BIPOLAR_TRANSISTOR", <<I, N, I, N, I, I, "EQ", N>>),
   Dev("BipolarTransistor", "BIPOLAR_TRANSISTOR", <<I, N, I, I>>),
   Dev("Behavioral", "BEHAVIORAL",
       <<I, N, I, "EQ", I, "CONDITIONAL", N, "COLON", N>>),
   Dev("MutualInductor", "LINEAR_MUTUAL_INDUCTOR", <<I, I, N>>),
   Dev("JFET", "JFET", <<I, I, N, I, N, "OFF">>),
   Dev("Mesfet", "HFET_MESA", <<I, I, N, I, I, "EQ", N>>),
   Dev("TransmissionLine", "TRANSMISSION_LINE", <<I, N, I, N, I, "EQ", N>>),
   Dev("XspiceDevice", "XSPICE", <<I, N, I>>)}

SpectreStatements ==
  {Chunk("Simulator", <<"SIMULATOR", "LANG", "EQ", "SPECTRE">>),
   Chunk("Model", <<"MODEL", I, I, I, "EQ", N, "SEMICOLON">>),
   Chunk("Parameters", <<"PARAMETERS", I, "EQ", "LPAREN", N, "PLUS", "M_PI", "RPAREN", I>>),
   Chunk("Parameters",
         <<"PARAMETERS", I, "EQ", I, "GREATER", N, "CONDITIONAL", "MINUS", N, "COLON",
           "SIN", "LPAREN", I, "COMMA", N, "RPAREN">>),
   Chunk("Parameters",
         <<"PARAMETERS", I, "EQ", "LSQUARE", N, I, "MINUS", N, "LPAREN", N, "RPAREN", "RSQUARE">>),
   Chunk("Vary", <<"VARY", I, I, "EQ", I>>),
   Chunk("Save", <<"SAVE", I, "DOT", I, "COLON", "CURRENTS", I, "COLON", N, I>>),
   Chunk("Ic", <<"IC", I, "DOT", N, "EQ", N>>),
   Chunk("NodeSet", <<"NODESET", I, "EQ", N>>),
   Chunk("Global", <<"GLOBAL", N, I>>),
   Chunk("Include", <<"INCLUDE", "STRING", "SECTION", "EQ", I>>),
   Chunk("AHDLInclude", <<"AHDL_INCLUDE", "STRING">>),
   Chunk("FunctionDecl",
         <<"REAL", I, "LPAREN", "REAL", I, "COMMA", "REAL", I, "RPAREN", "LBRACE", NL,
           "RETURN", I, "STAR", I, "SEMICOLON", NL, "RBRACE">>),
   Chunk("Instance", <<I, "LPAREN", I, N, "RPAREN", I, I, "EQ", N>>),
   Chunk("Instance", <<I, I, "DOT", I, N, I, I, "EQ", N>>),
   Chunk("Analysis", <<I, "TRAN", I, "EQ", N>>),
   Chunk("Analysis", <<I, "LPAREN", I, N, "RPAREN", "AC", I, "EQ", N>>),
   Chunk("Info", <<I, "INFO", I, "EQ", I>>),
   Chunk("Options", <<I, "OPTIONS", I, "EQ", N>>),
   Chunk("Subckt",
         <<"INLINE", "SUBCKT", I, "LPAREN", I, N, "RPAREN", NL,
           "PARAMETERS", I, NL, "ENDS", I>>),
   Chunk("Library",
         <<"LIBRARY", I, NL, "SECTION", I, NL, I, "SET", NL, "ENDSECTION", NL,
           "ENDLIBRARY", I>>),
   Chunk("Statistics",
         <<"STATISTICS", "LBRACE", NL, I, "LBRACE", NL, "VARY", I, I, "EQ", N, NL,
           "RBRACE", NL, "VARY", I, NL, "RBRACE">>),
   Chunk("AlterGroup",
         <<I, "ALTERGROUP", "LBRACE", NL, "PARAMETERS", I, NL, "RBRACE">>),
   Chunk("ConditionalBlock",
         <<"IF", "LPAREN", I, "RPAREN", NL, "LBRACE", NL, I, I, NL,
           "RBRACE", "ELSE", "IF", "LPAREN", N, "RPAREN", "LBRACE", NL,
           "RBRACE", "ELSE", "LBRACE", NL, "GLOBAL", I, NL, "RBRACE">>)}
  \cup {Chunk(k.as, <<I, k.kw, I, "EQ", N>>) :
          k \in {[as |-> "Alter", kw |-> "ALTER"], [as |-> "Check", kw |-> "CHECK"],
                 [as |-> "CheckLimit", kw |-> "CHECKLIMIT"], [as |-> "Set", kw |-> "SET"],
                 [as |-> "Shell", kw |-> "SHELL"], [as |-> "ParamTest", kw |-> "PARAMTEST"],
                 [as |-> "Assert", kw |-> "ASSERT"]}}

-----------------------------------------------------------------------------
(* A text of the chunks c.                                                 *)
TextOf(language, c, nesting) ==
  LET LengthUpTo(n) == FoldLeft(LAMBDA sum, k : sum + Len(k.toks), 0, SubSeq(c, 1, n))
  IN [lang |-> language,
      toks |-> Append(FlattenSeq([i \in DOMAIN c |-> c[i].toks]), "ENDMARKER"),
      starts |-> [i \in 1..(Len(c) + 1) |-> 1 + LengthUpTo(i - 1)],
      chunks |-> [i \in DOMAIN c |->
                    [as |-> c[i].as, does |-> c[i].does, block |-> c[i].block]],
      nesting |-> nesting]

(* The last line may lack its newline.                                     *)
Unended(c) == [c EXCEPT !.toks = Front(@)]

(* What is left of a statement whose end is missing, or that has a token   *)
(* no production takes.                                                    *)
Broken(c) ==
  LET Line(toks) == [c EXCEPT !.as = "", !.toks = Append(toks, NL)]
      body == Front(c.toks)
  IN {Line(SubSeq(body, 1, k)) : k \in 1..(Len(body) - 1)}
       \cup {Line([body EXCEPT ![k] = "UNKNOWN"]) : k \in {j \in DOMAIN body : body[j] # NL}}

AloneAndBroken(language, statements, probe) ==
  {TextOf(language, <<c>>, FALSE) : c \in statements \cup {Unended(d) : d \in statements}}
    \cup UNION {{TextOf(language, <<b, probe>>, FALSE) : b \in Broken(c)} : c \in statements}

-----------------------------------------------------------------------------
(* The lines of blocks.                                                    *)
BlockLine(what, kind, toks) ==
  [as |-> "", toks |-> Append(toks, NL), does |-> what, block |-> kind]

SpiceProbe == Dot("EndStatement", <<"END">>)

SpiceOpeners ==
  {BlockLine("open", "Subckt", <<"DOT", "SUBCKT", I, I>>),
   BlockLine("open", "IfElseCase", <<"DOT", "IF", "LPAREN", I, "RPAREN">>),
   BlockLine("open", "LibStatement", <<"DOT", "LIB", I>>)}

SpiceOthers ==
  {SpiceProbe,
   BlockLine("bad", "", <<"UNKNOWN">>),
   BlockLine("bad", "", <<"DOT", "SUBCKT">>),
   BlockLine("shut", "Subckt", <<"DOT", "ENDS">>),
   BlockLine("shut", "Subckt", <<"DOT", "ENDS", I, I>>),
   BlockLine("else", "", <<"DOT", "ELSE">>),
   BlockLine("badelse", "", <<"DOT", "ELSE", I>>),
   BlockLine("shut", "IfElseCase", <<"DOT", "ENDIF">>),
   BlockLine("shut", "LibStatement", <<"DOT", "ENDL">>)}

SpectreProbe == Chunk("Vary", <<"VARY", I>>)

SpectreOpeners ==
  {BlockLine("open", "Subckt", <<"SUBCKT", I, I>>),
   BlockLine("open", "Library", <<"LIBRARY", I>>),
   BlockLine("open", "Section", <<"SECTION", I>>),
   BlockLine("open", "If", <<"IF", "LPAREN", I, "RPAREN", "LBRACE">>)}

SpectreOthers ==
  {SpectreProbe,
   BlockLine("bad", "", <<"UNKNOWN">>),
   BlockLine("shut", "Subckt", <<"ENDS">>),
   BlockLine("shut", "Library", <<"ENDLIBRARY", I>>),
   BlockLine("shut", "Section", <<"ENDSECTION">>),
   BlockLine("else", "", <<"RBRACE", "ELSE", "LBRACE">>),
   BlockLine("shut", "If", <<"RBRACE">>)}

(* A block is opened; up to n lines follow, or n + 1 that open no other.   *)
Nested(language, openers, others, n) ==
  {TextOf(language, <<o>> \o c, TRUE) :
     o \in openers,
     c \in UNION {[1..k -> openers \cup others] : k \in 1..n} \cup [1..(n + 1) -> others]}
=============================================================================
