---------------------------- MODULE SpiceGrammar ----------------------------
(***************************************************************************)
(* The productions of the SPICE parser, each under the name of the         *)
(* function it stands for.                                                 *)
(***************************************************************************)
EXTENDS Productions

-----------------------------------------------------------------------------
(* The token kinds and their predicates.                                   *)

Sources ==
  {"PULSE", "SIN", "EXP", "PWL", "SFFM", "AM", "TRNOISE", "TRRANDOM", "POLY",
   "TABLE"}

Devices ==
  {"IDENTIFIER_BEHAVIORAL", "IDENTIFIER_CAPACITOR", "IDENTIFIER_DIODE",
   "IDENTIFIER_VOLTAGE_CONTROLLED_VOLTAGE",
   "IDENTIFIER_VOLTAGE_CONTROLLED_CURRENT",
   "IDENTIFIER_CURRENT_CONTROLLED_VOLTAGE",
   "IDENTIFIER_CURRENT_CONTROLLED_CURRENT", "IDENTIFIER_CURRENT",
   "IDENTIFIER_JFET", "IDENTIFIER_HFET_MESA",
   "IDENTIFIER_LINEAR_MUTUAL_INDUCTOR", "IDENTIFIER_LINEAR_INDUCTOR",
   "IDENTIFIER_MOSFET", "IDENTIFIER_OSDI", "IDENTIFIER_PORT",
   "IDENTIFIER_BIPOLAR_TRANSISTOR", "IDENTIFIER_RESISTOR",
   "IDENTIFIER_S_PARAMETER_ELEMENT", "IDENTIFIER_SWITCH",
   "IDENTIFIER_VOLTAGE", "IDENTIFIER_TRANSMISSION_LINE",
   "IDENTIFIER_SUBCIRCUIT_CALL", "IDENTIFIER_UNKNOWN_INSTANCE",
   "IDENTIFIER_XSPICE"}

Analyses == {"DC", "AC", "TRAN", "IC", "TF", "NOISE"}

Keywords ==
  Sources \cup Analyses \cup
  {"PRINT", "PLOT", "MEASURE", "IF", "ELSE", "ELSEIF", "ENDIF", "MODEL",
   "LIB", "INCLUDE", "SUBCKT", "END", "ENDL", "ENDS", "PARAMETERS",
   "CSPARAM", "OPTIONS", "TEMP", "WIDTH", "GLOBAL", "DEV", "LOT",
   "SIMULATOR", "LANG", "SPECTRE", "SPICE", "TITLE", "DATA", "ENDDATA", "ON",
   "OFF", "HDL", "FIND", "DERIV", "WHEN", "AT", "TD", "RISE", "FALL",
   "CROSS", "LAST", "AVG", "MAX", "MIN", "PP", "RMS", "INTEG", "TRIG", "VAL",
   "TARG"}

(* Command words that are plain identifiers to the lexer, told apart by    *)
(* their text; "func" stands for "function", too.                          *)
Commands == {"step", "func", "global_param", "nodeset", "convert_port"}

Identifiers == {"IDENTIFIER"} \cup Devices \cup Commands

Operators ==
  {"OP", "PLUS", "MINUS", "STAR", "SLASH", "STAR_STAR", "PERCENT", "GREATER",
   "LESS", "GREATER_EQ", "LESS_EQ", "EQ", "EQEQ", "NOT_EQ", "EQEQEQ",
   "NOT_EQEQ", "NOT", "LAZY_AND", "LAZY_OR", "TILDE", "AND", "OR", "XOR",
   "XOR_TILDE", "TILDE_XOR", "TILDE_AND", "TILDE_OR", "LBITSHIFT",
   "RBITSHIFT", "LBITSHIFT_A", "RBITSHIFT_A", "EVENT_OR", "CASSIGN",
   "RRBITSHIFT_A", "NOT_IS", "TILD_OR"}

(* t, and the predicates that hold of it.                                  *)
Kinds(t) ==
  {t}
    \cup {x \in {"is_kw"} : t \in Keywords}
    \cup {x \in {"is_ident"} : t \in Identifiers \cup Keywords}
    \cup {x \in {"is_literal"} : t \in {"LITERAL", "NUMBER", "STRING"}}
    \cup {x \in {"is_operator"} : t \in Operators}
    \cup {x \in {"is_source_type"} : t \in Sources}

take_identifier == Take({"is_ident"})
take_identifier_or_number == Take({"is_ident", "NUMBER"})
take_path == Take({"is_ident", "STRING"})

-----------------------------------------------------------------------------
(* Expressions.  The shape precedence gives them is another module's.      *)

parse_expression == Call("expression")

parse_function_call ==
  Wrap("FunctionCall",
    Take({"LPAREN"})
    \o If(nt_not_in({"RPAREN"}),
         Wrap("FunctionArgs", parse_expression)
         \o While(nt_in({"COMMA"}),
              Wrap("FunctionArgs", Take({"COMMA"}) \o parse_expression)))
    \o Take({"RPAREN"}))

parse_array ==
  Wrap("Square",
    Take({"LSQUARE"})
    \o While(nt_not_in({"RSQUARE"}), If(nt_in(Eol), Error) \o parse_expression)
    \o Take({"RSQUARE"}))

parse_node == Wrap("NodeName", Take({"NUMBER", "is_ident"}))

parse_subnodes ==
  While(nt_in({"DOT"}), Wrap("SubNode", Take({"DOT"}) \o parse_node))

parse_hierarchial_node == Wrap("HierarchialNode", parse_node \o parse_subnodes)

Enclosed(k, open, close) ==
  Wrap(k, Take({open}) \o parse_expression \o Take({close}))

parse_primary ==
  <<Arm(nt_in({"is_literal"}), take_literal),
    Arm(nt_in({"is_ident"}),
      take_identifier
      \o IfElse(nt_in({"LPAREN"}), parse_function_call,
           If(nt_in({"DOT"}), Wrap("HierarchialNode", parse_subnodes)))),
    Arm(nt_in({"LSQUARE"}), parse_array),
    Arm(nt_in({"LBRACE"}), Enclosed("Brace", "LBRACE", "RBRACE")),
    Arm(nt_in({"LPAREN"}), Enclosed("Parens", "LPAREN", "RPAREN")),
    Arm(nt_in({"PRIME"}), Enclosed("Prime", "PRIME", "PRIME")),
    Arm(Always, Error)>>

parse_primary_or_unary ==
  IfElse(nt_in({"PLUS", "MINUS", "TILDE", "NOT"}),
    Wrap("UnaryOp", take_operator \o Call("primary")),
    Call("primary"))

parse_binop == While(nt_in({"is_operator"}), take_operator \o parse_primary_or_unary)

Expression ==
  <<Arm(nt_in({"PRIME"}), Enclosed("Prime", "PRIME", "PRIME")),
    Arm(Always,
      parse_primary_or_unary
      \o WrapOnErr(parse_binop)
      \o If(nt_in({"CONDITIONAL"}),
           Wrap("TernaryExpr",
             Take({"CONDITIONAL"}) \o parse_expression
             \o Take({"COLON"}) \o parse_expression)))>>

-----------------------------------------------------------------------------
(* Parameters                                                              *)

parse_parameter_mod ==
  Wrap("DevMod",
    Take({"DEV"})
    \o If(nt_in({"SLASH"}), Take({"SLASH"}) \o take_identifier)
    \o Take({"EQ"}) \o parse_expression)

Parameter ==
  Wrap("Parameter",
    take_identifier
    \o If(nt_in({"EQ"}), Take({"EQ"}) \o parse_expression)
    \o If(nt_in({"DEV"}), parse_parameter_mod))

parse_parameter_list ==
  WrapOnErr(While(nt_not_in(Eol \cup {"RPAREN"}), Parameter))

Params == parse_parameter_list \o accept_newline

-----------------------------------------------------------------------------
(* Dot commands of one line                                                *)

parse_simulator ==
  Wrap("Simulator",
    Take({"SIMULATOR"}) \o Take({"LANG"}) \o Take({"EQ"})
    \o Take({"SPECTRE", "SPICE"}) \o Params)

parse_title_implicit == Wrap("Title", Take({"TITLE_LINE"}) \o accept_newline)

parse_named_param_list(k) == Wrap(k, take_identifier \o Params)

parse_nodeset ==
  Wrap("NodeSetStatement",
    take_identifier
    \o While(NotEol,
         Wrap("NodeSetEntry",
           take_identifier \o parse_node \o Take({"EQ"}) \o parse_expression))
    \o accept_newline)

parse_named_expr_list(k) ==
  Wrap(k, take_identifier \o While(NotEol, parse_expression) \o accept_newline)

parse_title_dot ==
  Wrap("Title",
    Take({"TITLE"}) \o If(nt_in({"TITLE_LINE"}), Take({"TITLE_LINE"})) \o accept_newline)

(* Mutant: what follows .end on its line is left to the next statement.    *)
EndAlone == Wrap("EndStatement", Take({"END"}))

parse_end == Wrap("EndStatement", Take({"END"}) \o accept_newline)

parse_param == Wrap("ParamStatement", take_kw_any \o Params)

parse_model ==
  Wrap("Model",
    Take({"MODEL"}) \o parse_hierarchial_node \o take_identifier_or_number \o Params)

parse_dc ==
  Wrap("DCStatement",
    Take({"DC"})
    \o While(NotEol,
         Wrap("DCCommand",
           take_identifier \o parse_expression \o parse_expression \o parse_expression))
    \o accept_newline)

parse_ac ==
  Wrap("ACStatement",
    Take({"AC"})
    \o Wrap("ACCommand",
         take_identifier \o parse_expression \o parse_expression \o parse_expression)
    \o accept_newline)

(* At most three more literals.                                            *)
parse_tran ==
  LET More(rest) == If(nt_in({"is_literal"}), take_literal \o rest)
  IN Wrap("Tran",
       Take({"TRAN"}) \o take_literal
       \o More(More(More(<< >>)))
       \o If(nt_in({"is_ident"}), take_identifier)
       \o accept_newline)

parse_global ==
  Wrap("GlobalStatement",
    Take({"GLOBAL"}) \o While(NotEol, parse_hierarchial_node) \o accept_newline)

parse_temp == Wrap("TempStatement", take_kw_any \o parse_expression \o accept_newline)

parse_width == Wrap("WidthStatement", Take({"WIDTH"}) \o Params)

parse_options == Wrap("OptionStatement", Take({"OPTIONS"}) \o Params)

parse_convert_port == Wrap("ConvertPortStatement", take_identifier \o Params)

parse_include == Wrap("IncludeStatement", Take({"INCLUDE"}) \o take_path \o accept_newline)

parse_hdl == Wrap("HDLStatement", Take({"HDL"}) \o take_path \o accept_newline)

parse_print ==
  Wrap("PrintStatement",
    Take({"PRINT"}) \o While(NotEol, parse_expression) \o accept_newline)

parse_endl ==
  Wrap("EndlStatement",
    Take({"ENDL"}) \o If(nt_in({"is_ident"}), take_identifier) \o accept_newline)

-----------------------------------------------------------------------------
(* Tables and initial conditions                                           *)

(* .data: the columns are counted, then read row by row until the line     *)
(* ends.  The count is the parser's n_rows.                                *)
Columns ==
  <<[op |-> "reset"]>>
  \o While(nt_in({"is_ident"}), take_identifier \o <<[op |-> "tally"]>>)

Rows == While(NotEol, <<[op |-> "repeat", body |-> take_literal]>>)

parse_data ==
  Wrap("DataStatement",
    Take({"DATA"}) \o take_identifier \o Columns \o Rows \o accept_newline
    \o Take({"DOT"}) \o Take({"ENDDATA"}) \o accept_newline)

(* The argument of an entry.  The identifier after a colon is taken, or    *)
(* its failure is dropped.                                                 *)
parse_ic_statement ==
  IfElse(nt_in({"STAR"}), Take({"STAR"}),
    IfElse(nt_in({"NUMBER"}),
      take_literal \o If(nt_in({"STAR"}), Take({"STAR"})),
      IfElse(nt_in({"is_ident"}),
        take_identifier
        \o If(nt_in({"COLON"}), Take({"COLON"}) \o Ignore(take_identifier)),
        Error)))

(* Mutant: a failed argument is dropped as the one after a colon is.       *)
IcIgnoringArguments ==
  Wrap("ICStatement",
    Take({"IC"})
    \o While(NotEol,
         take_identifier \o Take({"LPAREN"}) \o Contain(parse_ic_statement)
         \o Take({"RPAREN"}) \o Take({"EQ"}) \o parse_expression)
    \o accept_newline)

parse_ic ==
  Wrap("ICStatement",
    Take({"IC"})
    \o While(NotEol,
         take_identifier \o Take({"LPAREN"}) \o parse_ic_statement
         \o Take({"RPAREN"}) \o Take({"EQ"}) \o parse_expression)
    \o accept_newline)

-----------------------------------------------------------------------------
(* .measure                                                                *)

parse_measure_name == Take({"STRING", "is_ident"})

(* Kw [=] or = expression                                                  *)
Valued(k, kws) == Wrap(k, Take(kws) \o Take({"EQ"}) \o parse_expression)

parse_td == Valued("TD_", {"TD"})

Edges == {"RISE", "FALL", "CROSS"}

parse_risefallcross ==
  Wrap("RiseFallCross",
    Take(Edges) \o Take({"EQ"})
    \o IfElse(nt_in({"LAST"}), take_kw_any, take_literal))

parse_trig_targ ==
  Wrap("TrigTarg",
    Take({"TRIG", "TARG"}) \o parse_expression
    \o If(nt_in({"VAL"}), Valued("Val_", {"VAL"}))
    \o If(nt_in({"TD"}), parse_td)
    \o If(nt_in(Edges), parse_risefallcross))

Found == {"FIND", "DERIV", "PARAMETERS"}

parse_measure_point ==
  Wrap("MeasurePointStatement",
    If(nt_in(Found),
      Wrap("FindDerivParam",
        Take(Found) \o If(nt_in({"EQ"}), Take({"EQ"})) \o parse_expression))
    \o IfElse(nt_in({"AT"}), Valued("At", {"AT"}),
         If(nt_in({"WHEN"}), Wrap("When", Take({"WHEN"}) \o parse_expression)))
    \o If(nt_in(Edges), parse_risefallcross)
    \o If(nt_in({"TD"}), parse_td)
    \o accept_newline)

Reductions == {"AVG", "MAX", "MIN", "PP", "RMS", "INTEG"}

parse_measure_range ==
  Wrap("MeasureRangeStatement",
    If(nt_in(Reductions), Wrap("AvgMaxMinPPRmsInteg", take_kw_any \o parse_expression))
    \o If(nt_in({"TRIG"}), parse_trig_targ)
    \o If(nt_in({"TARG"}), parse_trig_targ)
    \o accept_newline)

parse_measure ==
  WrapOnErr(Take({"MEASURE"}) \o Take({"AC", "DC", "OP", "TRAN", "TF", "NOISE"}) \o parse_measure_name)
  \o IfElse(nt_in(Found \cup {"WHEN", "AT"}), parse_measure_point, parse_measure_range)

-----------------------------------------------------------------------------
(* Instances                                                               *)

Hier == parse_hierarchial_node
Hier3 == Hier \o Hier \o Hier

(* R, C, L *)
parse_rcl(k) ==
  Wrap(k, Hier3 \o If(nnt_not_in({"EQ"}), parse_expression) \o Params)

(* V, I *)
parse_v_or_i(k) ==
  LET Value == If(nt_in({"EQ"}), Take({"EQ"})) \o parse_expression
      AndNoKw == NotEol \o nt_not_in({"is_kw"})
  IN Wrap(k,
       Hier3
       \o While(NotEol,
            IfElse(nt_in({"DC"}), Wrap("DCSource", Take({"DC"}) \o Value),
            IfElse(nt_in({"AC"}),
              Wrap("ACSource",
                Take({"AC"}) \o Value \o If(AndNoKw, parse_expression)),
            IfElse(nt_in({"is_source_type"}),
              Wrap("TranSource", take_kw_any \o While(AndNoKw, parse_expression)),
              Wrap("DCSource", parse_expression)))))
       \o accept_newline)

(* X, N: at least one node, then parameters and perhaps a bare model name. *)
parse_subckt_call(k) ==
  LET IsNode == nnt_not_in({"EQ"}) \o nt_not_in(Eol \cup {"JULIA_ESCAPE_BEGIN"})
      IsModel == nt_in({"is_ident"}) \o nnt_in(Eol)
  IN Wrap(k,
       Hier
       \o IfElse(IsNode, While(IsNode, Hier), Error)
       \o While(nt_not_in(Eol \cup {"RPAREN"}),
            IfElse(IsModel, take_identifier, Parameter))
       \o accept_newline)

(* E, F, G, H *)
parse_controlled(in_is_voltage) ==
  LET Unless_EQ(body) == If(nnt_not_in({"EQ"}), body)
      Numbers == While(NotEol, parse_expression)
  IN Wrap("ControlledSource",
       Hier3
       \o IfElse(nt_in({"POLY"}),
            Wrap("PolyControl", Take({"POLY"}) \o take_literal \o Numbers),
          IfElse(nt_in({"TABLE"}),
            Wrap("TableControl",
              Take({"TABLE"}) \o parse_expression
              \o If(nt_in({"EQ"}), Take({"EQ"})) \o Numbers),
          IF in_is_voltage
          THEN Wrap("VoltageControl",
                 Unless_EQ(Hier) \o Unless_EQ(Hier) \o Unless_EQ(parse_expression)
                 \o parse_parameter_list)
          ELSE Wrap("CurrentControl",
                 Unless_EQ(Hier) \o Unless_EQ(parse_expression)
                 \o parse_parameter_list)))
       \o accept_newline)

parse_switch == Wrap("Switch", Hier3 \o Hier3 \o take_kw_any \o accept_newline)

parse_diode == Wrap("Diode", Hier3 \o Hier \o Params)

parse_mosfet == Wrap("MOSFET", Hier3 \o Hier3 \o Params)

parse_behavioral == Wrap("Behavioral", Hier3 \o Params)

(* Q: one to three of substrate, temperature and model.                    *)
parse_bipolar_transistor ==
  LET More(rest) ==
        Hier \o If(nt_in({"is_ident"}) \o nnt_not_in({"EQ"}), rest)
  IN Wrap("BipolarTransistor",
       Hier3 \o Hier
       \o More(More(More(<< >>)))
       \o If(nt_in({"is_ident"}) \o nnt_in({"EQ"}), parse_parameter_list)
       \o accept_newline)

(* K: inductors until the last token, which is the coupling.               *)
parse_mutual_inductor ==
  Wrap("MutualInductor",
    Hier \o While(NotEol \o nnt_not_in(Eol), Hier)
    \o parse_expression \o accept_newline)

(* J, Z *)
parse_fet(k) ==
  Wrap(k,
    Hier3 \o Hier \o Hier
    \o If(nt_not_in(Eol \cup {"OFF"}) \o nnt_not_in({"EQ"}), parse_expression)
    \o If(nt_in({"OFF"}), Take({"OFF"}))
    \o Params)

parse_generic_device(k) ==
  Wrap(k, Hier \o While(NotEol \o nnt_not_in({"EQ"}), Hier) \o Params)

parse_instance ==
  <<Arm(nt_in({"IDENTIFIER_RESISTOR"}), parse_rcl("Resistor")),
    Arm(nt_in({"IDENTIFIER_CAPACITOR"}), parse_rcl("Capacitor")),
    Arm(nt_in({"IDENTIFIER_LINEAR_INDUCTOR"}), parse_rcl("Inductor")),
    Arm(nt_in({"IDENTIFIER_VOLTAGE"}), parse_v_or_i("Voltage")),
    Arm(nt_in({"IDENTIFIER_CURRENT"}), parse_v_or_i("Current")),
    Arm(nt_in({"IDENTIFIER_SUBCIRCUIT_CALL"}), parse_subckt_call("SubcktCall")),
    Arm(nt_in({"IDENTIFIER_OSDI"}), parse_subckt_call("OSDIDevice")),
    Arm(nt_in({"IDENTIFIER_VOLTAGE_CONTROLLED_VOLTAGE",
               "IDENTIFIER_VOLTAGE_CONTROLLED_CURRENT"}), parse_controlled(TRUE)),
    Arm(nt_in({"IDENTIFIER_CURRENT_CONTROLLED_CURRENT",
               "IDENTIFIER_CURRENT_CONTROLLED_VOLTAGE"}), parse_controlled(FALSE)),
    Arm(nt_in({"IDENTIFIER_SWITCH"}), parse_switch),
    Arm(nt_in({"IDENTIFIER_DIODE"}), parse_diode),
    Arm(nt_in({"IDENTIFIER_MOSFET"}), parse_mosfet),
    Arm(nt_in({"IDENTIFIER_BIPOLAR_TRANSISTOR"}), parse_bipolar_transistor),
    Arm(nt_in({"IDENTIFIER_BEHAVIORAL"}), parse_behavioral),
    Arm(nt_in({"IDENTIFIER_LINEAR_MUTUAL_INDUCTOR"}), parse_mutual_inductor),
    Arm(nt_in({"IDENTIFIER_JFET"}), parse_fet("JFET")),
    Arm(nt_in({"IDENTIFIER_HFET_MESA"}), parse_fet("Mesfet")),
    Arm(nt_in({"IDENTIFIER_TRANSMISSION_LINE"}), parse_generic_device("TransmissionLine")),
    Arm(nt_in({"IDENTIFIER_XSPICE"}), parse_generic_device("XspiceDevice")),
    Arm(Always, Error)>>

-----------------------------------------------------------------------------
(* Blocks.  A block contains the failures of its body, and ends at its own *)
(* terminator only.                                                        *)

(* A statement of a block.  The dot has been looked past to find the       *)
(* terminator, so the command is parsed behind it.                         *)
BodyStatement ==
  IfElse(nt_in({"DOT"}),
    Take({"DOT"}) \o Contain(Statement("dot_body")),
    Contain(Statement("toplevel")))

parse_subckt ==
  Wrap("Subckt",
    Take({"SUBCKT"}) \o take_identifier_or_number
    \o While(NotEol, IfElse(nnt_in({"EQ"}), parse_parameter_list, Hier))
    \o accept_newline
    \o Until(nt_in({"DOT"}) \o nnt_in({"ENDS"}),
         If(nt_in({"ENDMARKER"}), Error) \o BodyStatement)
    \o Take({"DOT"}) \o Take({"ENDS"})
    \o If(NotEol, take_identifier_or_number)
    \o accept_newline)

(* .lib name starts a section; with an identifier behind the name or path  *)
(* it refers to one.                                                       *)
parse_lib ==
  Take({"LIB"})
  \o IfElse(nnt_not_in({"is_ident"}),
       Wrap("LibStatement",
         take_identifier \o accept_newline
         \o Until(nt_in({"DOT"}) \o nnt_in({"ENDL"}),
              If(nt_in({"ENDMARKER"}), Raise) \o BodyStatement)
         \o Take({"DOT"}) \o parse_endl),
       Wrap("LibInclude", take_path \o take_identifier \o accept_newline))

parse_condition == Enclosed("Condition", "LPAREN", "RPAREN")

CaseEnds == nt_in({"DOT"}) \o nnt_in({"ELSE", "ELSEIF", "ENDIF"})

(* One case, from its keyword to the dot of the next or to the end.        *)
parse_ifelse_block(kws) ==
  Wrap("IfElseCase",
    IfElse(nt_in({"IF", "ELSEIF"}), Take(kws) \o parse_condition, Take(kws))
    \o accept_newline
    \o UntilEither(CaseEnds, nt_in({"ENDMARKER"}), Contain(Statement("toplevel"))))

parse_if ==
  Wrap("IfBlock",
    parse_ifelse_block({"IF"})
    \o Until(nt_in({"DOT"}) \o nnt_in({"ENDIF"}),
         If(nt_not_in({"DOT"}), Error)
         \o Take({"DOT"}) \o parse_ifelse_block({"ELSE", "ELSEIF"}))
    \o Take({"DOT"}) \o Take({"ENDIF"}) \o accept_newline)

-----------------------------------------------------------------------------
(* Dispatch                                                                *)

parse_dot_body ==
  <<Arm(nt_in({"MODEL"}), parse_model),
    Arm(nt_in({"PARAMETERS", "CSPARAM"}), parse_param),
    Arm(nt_in({"SUBCKT"}), parse_subckt),
    Arm(nt_in({"END"}), parse_end),
    Arm(nt_in({"TITLE"}), parse_title_dot),
    Arm(nt_in({"DC"}), parse_dc),
    Arm(nt_in({"AC"}), parse_ac),
    Arm(nt_in({"TRAN"}), parse_tran),
    Arm(nt_in({"GLOBAL"}), parse_global),
    Arm(nt_in({"TEMP"}), parse_temp),
    Arm(nt_in({"WIDTH"}), parse_width),
    Arm(nt_in({"OPTIONS"}), parse_options),
    Arm(nt_in({"INCLUDE"}), parse_include),
    Arm(nt_in({"HDL"}), parse_hdl),
    Arm(nt_in({"PRINT"}), parse_print),
    Arm(nt_in({"DATA"}), parse_data),
    Arm(nt_in({"IC"}), parse_ic),
    Arm(nt_in({"IF"}), parse_if),
    Arm(nt_in({"LIB"}), parse_lib),
    Arm(nt_in({"ENDL"}), parse_endl),
    Arm(nt_in({"MEASURE"}), parse_measure),
    Arm(nt_in({"step"}), parse_named_expr_list("StepStatement")),
    Arm(nt_in({"func"}), parse_named_expr_list("FuncStatement")),
    Arm(nt_in({"global_param"}), parse_named_param_list("GlobalParamStatement")),
    Arm(nt_in({"nodeset"}), parse_nodeset),
    Arm(nt_in({"convert_port"}), parse_convert_port),
    Arm(Always, Error)>>

parse_dot == Take({"DOT"}) \o Call("dot_body")

parse_spice_toplevel ==
  <<Arm(nt_in({"SIMULATOR"}), parse_simulator),
    Arm(nt_in({"DOT"}), parse_dot),
    Arm(nt_in({"TITLE_LINE"}), parse_title_implicit),
    Arm(nt_in({"NEWLINE"}), Error),
    Arm(nt_in({"is_ident"}), Call("instance")),
    Arm(Always, Error)>>

parse_toplevel ==
  While(nt_not_in({"ENDMARKER"}), Contain(Statement("toplevel")))

Rules ==
  [toplevel   |-> parse_spice_toplevel,
   dot_body   |-> parse_dot_body,
   instance   |-> parse_instance,
   expression |-> Expression,
   primary    |-> parse_primary]
=============================================================================
