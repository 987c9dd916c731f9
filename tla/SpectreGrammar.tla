--------------------------- MODULE SpectreGrammar ---------------------------
(***************************************************************************)
(* The productions of the Spectre parser, each under the name of the       *)
(* function it stands for.                                                 *)
(***************************************************************************)
EXTENDS Productions

-----------------------------------------------------------------------------
(* The token kinds and their predicates.                                   *)

Analyses ==
  {"DC", "AC", "NOISE", "XF", "SP", "TRAN", "TDR", "PZ", "ENVLP", "PAC",
   "PDISTO", "PNOISE", "PSS", "PXF", "SENS", "FOURIER", "DCMATCH", "STB",
   "SWEEP", "MONTECARLO"}

Constants ==
  {"M_1_PI", "M_2_PI", "M_2_SQRTP", "M_DEGPERRAD", "M_E", "M_LN10", "M_LN2",
   "M_LOG10E", "M_LOG2E", "M_PI", "M_PI_2", "M_PI_4", "M_SQRT1_2", "M_SQRT2",
   "M_TWO_PI", "P_C", "P_CELSIUS0", "P_EPS0", "P_H", "P_K", "P_Q", "P_U0"}

Functions_ ==
  {"ABS", "ACOS", "ACOSH", "ASIN", "ASINH", "ATAN", "ATAN2", "ATANH", "CEIL",
   "COS", "COSH", "EXP", "FLOOR", "FMOD", "HYPOT", "INT", "LOG", "LOG10",
   "NINT", "MAX", "MIN", "POW", "SIN", "SINH", "SQRT", "TAN", "TANH",
   "TRUNCATE"}

SaveKeywords ==
  {"CURRENTS", "STATIC", "DISPLACEMENT", "DYNAMIC", "OPPOINT", "PROBE",
   "PWR", "ALL"}

Controls ==
  {"ALTER", "CHECK", "CHECKLIMIT", "INFO", "OPTIONS", "SET", "SHELL", "PARAMTEST", "ASSERT"}

Keywords ==
  Analyses \cup Constants \cup Functions_ \cup SaveKeywords \cup Controls \cup
  {"CORRELATE", "ELSE", "END", "ENDS", "EXPORT", "FOR", "FUNCTION", "GLOBAL",
   "IF", "INLINE", "LIBRARY", "LOCAL", "MARCH", "MODEL", "PARAMETERS",
   "PLOT", "PRINT", "REAL", "RETURN", "SUBCKT", "TO", "VARY", "SIMULATOR",
   "LANG", "SPECTRE", "SPICE", "INCLUDE", "AHDL_INCLUDE", "ALTERGROUP",
   "PARAMSET", "IC", "NODESET", "SAVE", "STATISTICS", "SECTION",
   "ENDSECTION", "ENDLIBRARY"}

Operators ==
  {"OP", "PLUS", "MINUS", "STAR", "SLASH", "STAR_STAR", "PERCENT", "GREATER",
   "LESS", "GREATER_EQ", "LESS_EQ", "EQEQ", "NOT_EQ", "EQEQEQ", "NOT_EQEQ",
   "NOT", "LAZY_AND", "LAZY_OR", "TILDE", "AND", "OR", "XOR", "XOR_TILDE",
   "TILDE_XOR", "TILDE_AND", "TILDE_OR", "LBITSHIFT", "RBITSHIFT",
   "LBITSHIFT_A", "RBITSHIFT_A", "EVENT_OR", "CASSIGN", "RRBITSHIFT_A",
   "NOT_IS"}

(* t, and the predicates that hold of it.                                  *)
Kinds(t) ==
  {t}
    \cup {x \in {"is_kw"} : t \in Keywords}
    \cup {x \in {"is_ident"} : t = "IDENTIFIER" \/ t \in Keywords}
    \cup {x \in {"is_literal"} : t \in {"LITERAL", "NUMBER", "STRING"}}
    \cup {x \in {"is_operator"} : t \in Operators}
    \cup {x \in {"is_analysis"} : t \in Analyses}
    \cup {x \in {"is_builtin_const"} : t \in Constants}
    \cup {x \in {"is_save_kw"} : t \in SaveKeywords}

(* take_identifier is lenient: on any other token it eats the line and     *)
(* takes whatever comes next as the identifier.                            *)
take_identifier == <<[op |-> "lenient"]>>

accept_identifier == Take({"IDENTIFIER"})

take_node == Take({"NUMBER", "is_ident"})

take_builtin_const == Take({"is_builtin_const"})

accept_newline_opt == If(nt_in({"NEWLINE"}), Take({"NEWLINE"}))

(* Mutant: a failed item fails the body at once.                           *)
BraceBodyPropagates(kind, item) ==
  Judged(kind,
    Take({"LBRACE"}) \o accept_newline_opt
    \o While(nt_not_in({"RBRACE", "ENDMARKER"}), Statement(item))
    \o Take({"RBRACE"}))

(* The items of a brace body are parsed whether or not those before them   *)
(* failed; the body fails after its end.                                   *)
parse_brace_body(kind, item) ==
  Judged(kind,
    Take({"LBRACE"}) \o accept_newline_opt
    \o While(nt_not_in({"RBRACE", "ENDMARKER"}), Note("statement", Statement(item)))
    \o Take({"RBRACE"}))

-----------------------------------------------------------------------------
(* Expressions.  The shape precedence gives them is another module's.      *)

parse_expression == Call("expression")

parse_comma_list(item) ==
  Wrap("FunctionArgs", item)
  \o While(nt_in({"COMMA"}), Wrap("FunctionArgs", Take({"COMMA"}) \o item))

parse_function_call ==
  Wrap("FunctionCall",
    Take({"LPAREN"})
    \o If(nt_not_in({"RPAREN"}), parse_comma_list(parse_expression))
    \o Take({"RPAREN"}))

parse_paren == Wrap("Parens", Take({"LPAREN"}) \o parse_expression \o Take({"RPAREN"}))

parse_unary_op == Wrap("UnaryOp", take_operator \o Call("primary"))

(* Mutant: what is no element is not looked at.                            *)
ArrayWithoutError ==
  Wrap("SpectreArray",
    Take({"LSQUARE"})
    \o While(nt_not_in({"RSQUARE"}),
         IfElse(nt_in({"LPAREN"}), parse_paren,
         IfElse(nt_in({"PLUS", "MINUS"}), parse_unary_op,
         IfElse(nt_in({"is_ident"}), take_identifier,
         If(nt_in({"is_literal"}), take_literal)))))
    \o Take({"RSQUARE"}))

parse_array ==
  Wrap("SpectreArray",
    Take({"LSQUARE"})
    \o While(nt_not_in({"RSQUARE"}),
         IfElse(nt_in({"LPAREN"}), parse_paren,
         IfElse(nt_in({"PLUS", "MINUS"}), parse_unary_op,
         IfElse(nt_in({"is_ident"}), take_identifier, take_literal))))
    \o Take({"RSQUARE"}))

parse_primary ==
  <<Arm(nt_in({"is_literal"}), take_literal),
    Arm(nt_in({"is_builtin_const"}), take_builtin_const),
    Arm(nt_in({"is_ident"}),
      take_identifier \o If(nt_in({"LPAREN"}), parse_function_call)),
    Arm(nt_in({"LSQUARE"}), parse_array),
    Arm(nt_in({"LPAREN"}), parse_paren),
    Arm(Always, Error)>>

parse_primary_or_unary ==
  IfElse(nt_in({"PLUS", "MINUS"}), parse_unary_op, Call("primary"))

parse_binop == While(nt_in({"is_operator"}), take_operator \o parse_primary_or_unary)

Expression ==
  <<Arm(Always,
      parse_primary_or_unary
      \o WrapOnErr(parse_binop)
      \o If(nt_in({"CONDITIONAL"}),
           Wrap("TernaryExpr",
             Take({"CONDITIONAL"}) \o parse_expression
             \o Take({"COLON"}) \o parse_expression)))>>

-----------------------------------------------------------------------------
(* Statements of one line                                                  *)

parse_parameter ==
  Wrap("Parameter",
    take_identifier
    \o If(nt_in({"EQ"}), Take({"EQ"}) \o parse_expression)
    \o If(nt_in({"SEMICOLON"}), Take({"SEMICOLON"})))

parse_parameter_list == WrapOnErr(While(NotEol, parse_parameter))

Params == parse_parameter_list \o accept_newline

parse_simulator ==
  Wrap("Simulator",
    Take({"SIMULATOR"}) \o Take({"LANG"}) \o Take({"EQ"})
    \o Take({"SPECTRE", "SPICE"}) \o Params)

parse_model ==
  Wrap("Model", Take({"MODEL"}) \o take_identifier \o take_identifier \o Params)

parse_parameters == Wrap("Parameters", Take({"PARAMETERS"}) \o Params)

parse_node ==
  Wrap("SNode", take_node \o While(nt_in({"DOT"}), Take({"DOT"}) \o take_node))

parse_nodes == WrapOnErr(While(nt_not_in(Eol \cup {"RPAREN"}), parse_node))

parse_vary == Wrap("Vary", Take({"VARY"}) \o take_identifier \o Params)

parse_save_signal ==
  Wrap("SaveSignal",
    If(nt_not_in({"COLON"}), parse_node)
    \o If(nt_in({"COLON"}),
         Take({"COLON"})
         \o IfElse(nt_in({"is_save_kw"}), take_kw_any,
            IfElse(nt_in({"NUMBER"}), take_literal,
            IfElse(nt_in({"is_ident"}), take_identifier, Error)))))

parse_save_list == WrapOnErr(While(NotEol, parse_save_signal))

parse_save == Wrap("Save", take_kw_any \o parse_save_list \o accept_newline)

parse_ic_parameter == Wrap("ICParameter", parse_node \o Take({"EQ"}) \o parse_expression)

parse_ic_parameter_list == WrapOnErr(While(NotEol, parse_ic_parameter))

(* The newline is required here, even at the end of the file.              *)
parse_ic == Wrap("Ic", Take({"IC"}) \o parse_ic_parameter_list \o Take({"NEWLINE"}))

parse_nodeset ==
  Wrap("NodeSet", Take({"NODESET"}) \o parse_parameter_list \o Take({"NEWLINE"}))

parse_global ==
  Wrap("Global", Take({"GLOBAL"}) \o While(NotEol, parse_node) \o accept_newline)

parse_include_section ==
  Wrap("IncludeSection", Take({"SECTION"}) \o Take({"EQ"}) \o take_identifier)

parse_include ==
  Wrap("Include",
    Take({"INCLUDE"}) \o take_string
    \o If(nt_in({"SECTION"}), parse_include_section) \o accept_newline)

parse_ahdl_include ==
  Wrap("AHDLInclude", Take({"AHDL_INCLUDE"}) \o take_string \o accept_newline)

parse_function_decl_arg == Wrap("FunctionDeclArg", Take({"REAL"}) \o take_identifier)

(* Three lines.                                                            *)
parse_function_decl ==
  Wrap("FunctionDecl",
    Take({"REAL"}) \o take_identifier
    \o Take({"LPAREN"})
    \o If(nt_not_in({"RPAREN"}), parse_comma_list(parse_function_decl_arg))
    \o Take({"RPAREN"}) \o Take({"LBRACE"}) \o Take({"NEWLINE"})
    \o Take({"RETURN"}) \o parse_expression
    \o If(nt_in({"SEMICOLON"}), Take({"SEMICOLON"})) \o Take({"NEWLINE"})
    \o Take({"RBRACE"}) \o Take({"NEWLINE"}))

-----------------------------------------------------------------------------
(* Named statements, their name taken already                              *)

parse_analysis_tail == Wrap("Analysis", take_kw_any \o Params)

parse_named_control(k) == Wrap(k, Take(Controls) \o Params)

(* The results of the tail are dropped: the dry run has told whether it    *)
(* parses, and the instance is made Incomplete, and fails, if not.         *)
parse_instance ==
  WrapOnErr(Take({"LPAREN"}) \o parse_nodes \o Take({"RPAREN"}))
  \o IfElse(nt_in({"is_analysis"}), parse_analysis_tail,
       Wrap("Instance",
         Judged("tail",
           take_identifier
           \o Note("ignored", parse_parameter_list)
           \o Note("ignored", accept_newline))))

(* One node less than the dry run counts units, and then the master.       *)
parse_bare_instance ==
  Wrap("Instance",
    <<[op |-> "units", body |-> parse_node]>> \o take_identifier \o Params)

parse_altergroup ==
  Wrap("AlterGroup",
    Take({"ALTERGROUP"}) \o parse_brace_body("AlterGroup", "source") \o accept_newline)

(* The name decides here only whether a bare instance may follow.          *)
parse_other(is_name) ==
  <<Arm(nt_in({"is_analysis"}), parse_analysis_tail),
    Arm(nt_in({"LPAREN"}), parse_instance),
    Arm(nt_in({"ALTERGROUP"}), parse_altergroup),
    Arm(nt_in({"ALTER"}), parse_named_control("Alter")),
    Arm(nt_in({"CHECK"}), parse_named_control("Check")),
    Arm(nt_in({"CHECKLIMIT"}), parse_named_control("CheckLimit")),
    Arm(nt_in({"INFO"}), parse_named_control("Info")),
    Arm(nt_in({"OPTIONS"}), parse_named_control("Options")),
    Arm(nt_in({"SET"}), parse_named_control("Set")),
    Arm(nt_in({"SHELL"}), parse_named_control("Shell")),
    Arm(nt_in({"PARAMTEST"}), parse_named_control("ParamTest")),
    Arm(nt_in({"ASSERT"}), parse_named_control("Assert")),
    Arm(nt_in({"ENDS", "ENDSECTION", "ENDLIBRARY"}), Error)>>
  \o (IF is_name THEN <<Arm(nt_in({"is_ident", "NUMBER"}), parse_bare_instance)>>
                 ELSE << >>)
  \o <<Arm(Always, Error)>>

-----------------------------------------------------------------------------
(* Blocks.  A failure in the body of a subcircuit, a library or a section  *)
(* ends the block.                                                         *)

parse_subckt(has_inline) ==
  Wrap("Subckt",
    (IF has_inline THEN Take({"INLINE"}) ELSE << >>)
    \o Take({"SUBCKT"}) \o accept_identifier
    \o IfElse(nt_in({"LPAREN"}),
         Take({"LPAREN"}) \o parse_nodes \o Take({"RPAREN"}),
         If(NotEol, parse_nodes))
    \o accept_newline
    \o Until(nt_in({"ENDS"}), Statement("source"))
    \o Take({"ENDS"})
    \o If(nt_in({"IDENTIFIER"}), take_identifier)
    \o accept_newline)

Block(k, open, close) ==
  Wrap(k,
    Take({open}) \o take_identifier \o accept_newline
    \o While(nt_not_in({close, "ENDMARKER"}), Statement("source"))
    \o Take({close}) \o If(NotEol, take_identifier) \o accept_newline)

parse_library == Block("Library", "LIBRARY", "ENDLIBRARY")

parse_section == Block("Section", "SECTION", "ENDSECTION")

parse_statistics ==
  Wrap("Statistics",
    Take({"STATISTICS"}) \o parse_brace_body("Statistics", "stat_statement")
    \o accept_newline)

parse_stat_group ==
  Wrap("StatGroup",
    take_identifier \o parse_brace_body("StatGroup", "stat_statement") \o accept_newline)

parse_stat_statement ==
  <<Arm(nt_in({"VARY"}), parse_vary),
    Arm(nt_in({"is_ident"}), parse_stat_group),
    Arm(Always, Call("source"))>>

parse_conditional_body(form) ==
  If(nt_in({"NEWLINE"}) \o nnt_in({"LBRACE"}), Take({"NEWLINE"}))
  \o parse_brace_body(form, "source")

Condition ==
  Take({"IF"}) \o Take({"LPAREN"}) \o parse_expression \o Take({"RPAREN"})

parse_if == Wrap("If", Condition \o parse_conditional_body("If"))

parse_elseif == Wrap("ElseIf", Condition \o parse_conditional_body("If"))

parse_else == Wrap("Else", parse_conditional_body("Else"))

(* An else ends the chain.                                                 *)
parse_conditional_block ==
  Wrap("ConditionalBlock",
    parse_if
    \o While(nt_in({"ELSE"}) \o nnt_in({"IF"}), Take({"ELSE"}) \o parse_elseif)
    \o If(nt_in({"ELSE"}), Take({"ELSE"}) \o parse_else)
    \o accept_newline)

-----------------------------------------------------------------------------
(* Dispatch                                                                *)

parse_source ==
  <<Arm(nt_in({"SIMULATOR"}), parse_simulator),
    Arm(nt_in({"MODEL"}), parse_model),
    Arm(nt_in({"INCLUDE"}), parse_include),
    Arm(nt_in({"AHDL_INCLUDE"}), parse_ahdl_include),
    Arm(nt_in({"GLOBAL"}), parse_global),
    Arm(nt_in({"PARAMETERS"}), parse_parameters),
    Arm(nt_in({"INLINE"}), parse_subckt(TRUE)),
    Arm(nt_in({"SUBCKT"}), parse_subckt(FALSE)),
    Arm(nt_in({"SAVE"}), parse_save),
    Arm(nt_in({"IC"}), parse_ic),
    Arm(nt_in({"NODESET"}), parse_nodeset),
    Arm(nt_in({"REAL"}), parse_function_decl),
    Arm(nt_in({"IF"}), parse_conditional_block),
    Arm(nt_in({"LIBRARY"}), parse_library),
    Arm(nt_in({"SECTION"}), parse_section),
    Arm(nt_in({"STATISTICS"}), parse_statistics),
    Arm(nt_in({"VARY"}), parse_vary),
    Arm(nt_in({"IDENTIFIER"}), take_identifier \o Call("named")),
    Arm(nt_in({"is_ident"}), take_identifier \o Call("keyword_named")),
    Arm(Always, Error)>>

parse_toplevel ==
  While(nt_not_in({"ENDMARKER"}), Contain(Statement("source")))

Rules ==
  [source         |-> parse_source,
   stat_statement |-> parse_stat_statement,
   named          |-> parse_other(TRUE),
   keyword_named  |-> parse_other(FALSE),
   expression     |-> Expression,
   primary        |-> parse_primary]
=============================================================================
