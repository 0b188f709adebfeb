------------------------------ MODULE Grammar ------------------------------
(***************************************************************************)
(* The grammar (vm/parser.lm): its tokens, their precedences and, in the   *)
(* order of the file, its rules.  Every upper-case word of a right-hand    *)
(* side is a token, and of names the values that go to the action.         *)
(***************************************************************************)
EXTENDS Integers, Sequences, SequencesExt

\* vm/parser_tokens.h, which lemon writes: a token's number is its index.
Tokens ==
  <<"AND", "OP0", "LT", "CAST", "NEQUAL", "OP1", "PIPE", "OP2", "NOT", "DOT", "DCOLON",
    "DOT_DOLLAR", "LSB", "NL", "SEMI", "EOF", "COMMA", "CLASS", "END", "ID", "TRAIT", "DEF",
    "EQUAL", "LP", "RP", "SQUARE", "SELF", "NUM", "NIL", "TRUE", "FALSE", "IVAR", "LITSTR",
    "RSB", "TUPLE_START", "LIST", "DICT_START", "RB", "LB", "IF", "ELSE", "RETURN", "RAISE",
    "UNLESS", "WHILE", "IMPORT", "DOT_NAME", "AS", "TRY", "RESCUE", "OP2_SET", "OP1_SET",
    "OP0_SET">>
\* The end of the input, token 0 of lemon.
End == "$"
Terminals == ToSet(Tokens) \cup {End}

\* The %left lines, the loosest first.
Lefts == <<{"AND"}, {"OP0", "LT", "CAST", "NEQUAL"}, {"OP1", "PIPE"}, {"OP2"}, {"NOT"},
           {"DOT", "DCOLON", "DOT_DOLLAR"}, {"LSB"}>>

Rule(lhs, rhs, act, of) == [lhs |-> lhs, rhs |-> rhs, act |-> act, of |-> of]
\* { A = B; } with B the k-th symbol, and a rule that has no action.
Value(lhs, rhs, k) == Rule(lhs, rhs, "value", <<k>>)
Empty_(lhs, rhs) == Rule(lhs, rhs, "none", <<>>)

ProgramRules ==
  <<Rule("program", <<"opt_fin", "l1", "last_fin">>, "set_top", <<2>>),
    Rule("l1", <<"l1", "fin", "l1e">>, "seq", <<1, 3>>),
    Value("l1", <<"l1e">>, 1),
    Value("l1e", <<"class">>, 1), Value("l1e", <<"trait">>, 1),
    Value("l1e", <<"def">>, 1), Value("l1e", <<"stmt">>, 1),
    Empty_("fin_m", <<"NL">>), Empty_("fin_m", <<"SEMI">>),
    Empty_("opt_fin", <<>>), Empty_("opt_fin", <<"fin">>),
    Empty_("last_fin", <<"EOF">>), Empty_("last_fin", <<"fin", "EOF">>),
    Empty_("fin", <<"fin", "fin_m">>), Empty_("fin", <<"fin_m">>),
    Empty_("comma", <<"COMMA", "NL">>), Empty_("comma", <<"COMMA">>),
    Rule("seq", <<"seq", "fin", "stmt">>, "seq", <<1, 3>>),
    Value("seq", <<"stmt">>, 1),
    Value("delim_seq", <<"seq", "opt_fin">>, 1)>>

ClassRules ==
  <<Rule("class_start", <<"CLASS">>, "start_class", <<>>),
    Value("class_body", <<"l1", "fin", "END">>, 1),
    Rule("class", <<"class_start", "ID", "fin", "class_body">>, "ast_class", <<2, 4>>),
    Rule("class", <<"class_start", "ID", "LT", "s2", "fin", "class_body">>,
         "ast_class_of", <<2, 4, 6>>),
    Rule("trait_start", <<"TRAIT">>, "start_trait", <<>>),
    Value("trait_body", <<"l1", "fin", "END">>, 1),
    Rule("trait", <<"trait_start", "ID", "fin", "trait_body">>, "trait", <<2, 4>>)>>

DefRules ==
  <<Rule("def_start", <<"DEF">>, "start_def", <<>>),
    Value("def_body", <<"seq", "fin", "END">>, 1),
    Rule("arg", <<"ID">>, "def_arg", <<1>>),
    Rule("arg", <<"ID", "CAST", "np_recv">>, "def_arg_cast", <<1, 3>>),
    Empty_("id_list", <<"id_list", "comma", "arg">>), Empty_("id_list", <<"arg">>),
    Rule("opt_arg", <<"ID", "EQUAL", "np_recv">>, "def_opt_arg", <<1, 3>>),
    Empty_("opt_arg_list", <<"opt_arg_list", "comma", "opt_arg">>),
    Empty_("opt_arg_list", <<"opt_arg">>),
    Empty_("def_args", <<>>), Empty_("def_args", <<"LP", "id_list", "RP">>),
    Empty_("def_args", <<"LP", "id_list", "comma", "opt_arg_list", "RP">>),
    Value("def_name", <<"ID">>, 1), Value("def_name", <<"OP0">>, 1),
    Value("def_name", <<"LT">>, 1), Value("def_name", <<"OP1">>, 1),
    Value("def_name", <<"OP2">>, 1), Value("def_name", <<"SQUARE">>, 1),
    Value("def_scope", <<"ID">>, 1), Rule("def_scope", <<"SELF">>, "string_self", <<>>),
    Rule("def", <<"def_start", "def_name", "def_args", "fin", "def_body">>,
         "ast_def", <<2, 5>>),
    Rule("def", <<"def_start", "def_name", "def_args", "fin", "END">>, "ast_def_nil", <<2>>),
    Rule("def", <<"def_start", "def_scope", "DOT", "def_args", "fin", "def_body">>,
         "ast_def_spec", <<2, 3, 6>>),
    Rule("def", <<"def_start", "def_scope", "DOT", "def_args", "fin", "END">>,
         "ast_def_spec_nil", <<2, 3>>)>>

LiteralRules ==
  <<Rule("lit", <<"NUM">>, "number", <<1>>), Rule("lit", <<"NIL">>, "ast_nil", <<>>),
    Rule("lit", <<"TRUE">>, "ast_true", <<>>), Rule("lit", <<"FALSE">>, "ast_false", <<>>),
    Rule("lit", <<"SELF">>, "self", <<>>), Rule("lit", <<"ID">>, "named", <<1>>),
    Rule("lit", <<"IVAR">>, "ivar_read", <<1>>), Rule("lit", <<"LITSTR">>, "lit_str", <<1>>)>>

\* nt op nt and nt op ( s2 ): the operator's name is O.s.
Binary(lhs, left, op) ==
  <<Rule(lhs, <<left, op, "np_arg">>, "ast_binop", <<2, 1, 3>>),
    Rule(lhs, <<left, op, "LP", "s2", "RP">>, "ast_binop", <<2, 1, 4>>)>>
\* The rules of OP2 in an argument take O.cs, the other member of the union.
BinaryCs(lhs, left, op) ==
  [i \in 1 .. 2 |-> [Binary(lhs, left, op)[i] EXCEPT !.act = "ast_binop_cs"]]

\* The sends a receiver nt can be given, and those whose receiver is self.
SendRules(nt) ==
  <<Rule(nt, <<nt, "DOT">>, "send_attr", <<1, 2>>),
    Rule(nt, <<nt, "DOT", "LP", "RP">>, "send", <<1, 2>>),
    Rule(nt, <<nt, "DOT", "LP", "np_arg_list", "RP">>, "send_args", <<1, 2>>)>>
SelfSendRules(nt) ==
  <<Rule(nt, <<"ID", "LP", "RP">>, "self_send", <<1>>),
    Rule(nt, <<"ID", "LP", "np_arg_list", "RP">>, "self_send_args", <<1>>)>>
IndirectRules(nt) ==
  <<Rule(nt, <<nt, "DCOLON", "ID">>, "dcolon", <<1, 2, 3>>),
    Rule(nt, <<nt, "DOT_DOLLAR", "lit">>, "send_indirect", <<1, 3>>),
    Rule(nt, <<nt, "DOT_DOLLAR", "lit", "LP", "RP">>, "send_indirect", <<1, 3>>),
    Rule(nt, <<nt, "DOT_DOLLAR", "lit", "LP", "np_arg_list", "RP">>,
         "send_indirect_args", <<1, 3>>)>>
IndexRule(nt) == Rule(nt, <<nt, "LSB", "np_arg_list", "RSB">>, "send_args_index", <<1>>)
CollectionRules(nt) ==
  <<Rule(nt, <<"TUPLE_START", "np_arg_list", "RP">>, "tuple", <<>>),
    Rule(nt, <<"LIST", "np_arg_list", "RSB">>, "list", <<>>),
    Rule(nt, <<"DICT_START", "np_arg_list", "RB">>, "dict", <<>>)>>

ArgRules ==
  <<Value("np_arg", <<"lit">>, 1)>> \o Binary("np_arg", "np_arg", "OP0")
    \o Binary("np_arg", "np_arg", "LT") \o Binary("np_arg", "np_arg", "OP1")
    \o Binary("np_arg", "np_arg", "PIPE") \o BinaryCs("np_arg", "np_arg", "OP2")
    \o <<Rule("np_arg", <<"np_arg", "CAST", "np_arg">>, "cast", <<1, 3>>),
         Rule("np_arg", <<"np_arg", "NEQUAL", "np_arg">>, "not_equal", <<1, 3>>)>>
    \o SendRules("np_arg") \o SelfSendRules("np_arg") \o IndirectRules("np_arg")
    \o <<Rule("np_arg", <<"NOT", "np_arg">>, "not_", <<2>>),
         Value("np_arg", <<"lambda">>, 1), IndexRule("np_arg")>>
    \o CollectionRules("np_arg")

ArgListRules ==
  <<Rule("np_arg_list_start", <<>>, "start_arg_list", <<>>),
    Rule("np_arg_list_elems", <<"np_arg_list_elems", "comma", "np_arg">>, "add_arg", <<3>>),
    Rule("np_arg_list_elems", <<"np_arg">>, "add_arg", <<1>>),
    Rule("np_kw_arg", <<"ID", "EQUAL", "np_arg">>, "add_kw_arg", <<1, 3>>),
    Empty_("np_kw_arg_list_elems", <<"np_kw_arg_list_elems", "comma", "np_kw_arg">>),
    Empty_("np_kw_arg_list_elems", <<"np_kw_arg">>),
    Empty_("np_opt_kw_arg_list", <<>>),
    Empty_("np_opt_kw_arg_list", <<"comma", "np_kw_arg_list_elems">>),
    Empty_("np_arg_list", <<"np_arg_list_start", "np_arg_list_elems", "np_opt_kw_arg_list">>),
    Empty_("np_arg_list", <<"np_arg_list_start", "np_kw_arg_list_elems">>)>>

RecvRules ==
  <<Value("np_recv", <<"lit">>, 1)>> \o SelfSendRules("np_recv") \o SendRules("np_recv")
    \o IndirectRules("np_recv") \o <<Value("np_recv", <<"lambda">>, 1)>>
    \o CollectionRules("np_recv")
    \o <<IndexRule("np_recv"), Value("np_recv", <<"LP", "s2", "RP">>, 2)>>

ExpressionRules ==
  <<Rule("s2", <<"np_recv", "DOT", "np_arg_list">>, "send_args", <<1, 2>>),
    Rule("s2", <<"np_recv", "DOT_DOLLAR", "lit", "np_arg_list">>,
         "send_indirect_args", <<1, 3>>),
    Rule("s2", <<"ID", "np_arg_list">>, "self_send_args", <<1>>),
    Rule("s2", <<"np_recv", "CAST", "np_arg">>, "cast", <<1, 3>>)>>
    \o Binary("s2", "np_recv", "OP0") \o Binary("s2", "np_recv", "LT")
    \o Binary("s2", "np_recv", "OP1") \o Binary("s2", "np_recv", "PIPE")
    \o Binary("s2", "np_recv", "OP2")
    \o <<Rule("s2", <<"np_recv", "NEQUAL", "np_arg">>, "not_equal", <<1, 3>>),
         Value("s2", <<"np_recv">>, 1), Rule("s2", <<"NOT", "s2">>, "not_", <<2>>),
         Rule("s2", <<"np_recv", "AND", "np_arg">>, "and_", <<1, 3>>),
         Rule("s2", <<"np_recv", "DOT", "EQUAL", "s2">>, "send_set_attr", <<1, 2, 4>>),
         Value("stmt", <<"s2">>, 1)>>

LambdaRules ==
  <<Rule("lambda_start", <<"LB">>, "start_lambda", <<>>),
    Rule("lambda_args", <<"PIPE", "ID", "PIPE">>, "def_arg", <<2>>),
    Empty_("lambda_args", <<>>),
    Rule("lambda", <<"lambda_start", "lambda_args", "opt_fin", "delim_seq", "RB">>,
         "lambda", <<4>>)>>

ConditionRules ==
  <<Value("cond", <<"s2">>, 1),
    Rule("cond", <<"ID", "EQUAL", "s2">>, "assign", <<1, 3>>),
    Rule("stmt", <<"IF", "cond", "fin", "seq", "fin", "END">>, "if_cond", <<2, 4>>),
    Rule("stmt", <<"IF", "cond", "fin", "seq", "fin", "ELSE", "fin", "seq", "fin", "END">>,
         "if_else", <<2, 4, 8>>),
    Rule("stmt", <<"s2", "IF", "s2">>, "if_cond", <<3, 1>>),
    Rule("stmt", <<"RETURN", "s2", "IF", "s2">>, "if_ret", <<4, 2>>),
    Rule("stmt", <<"RAISE", "s2", "IF", "s2">>, "if_raise", <<4, 2>>),
    Rule("stmt", <<"UNLESS", "cond", "fin", "seq", "fin", "END">>, "unless", <<2, 4>>),
    Rule("stmt", <<"WHILE", "cond", "fin", "seq", "fin", "END">>, "while_", <<2, 4>>)>>

ImportRules ==
  <<Rule("stmt", <<"IMPORT", "DOT_NAME">>, "import", <<2>>),
    Rule("stmt", <<"IMPORT", "DOT_NAME", "AS", "ID">>, "import_as", <<2, 4>>),
    Rule("stmt", <<"IMPORT", "DOT_NAME", "DCOLON", "ID">>, "import_one", <<2, 4>>),
    Rule("stmt", <<"IMPORT", "DOT_NAME", "DCOLON", "ID", "AS", "ID">>,
         "import_one_as", <<2, 4, 6>>)>>

TryRules ==
  <<Rule("stmt", <<"TRY", "fin", "seq", "fin", "RESCUE", "fin", "seq", "fin", "END">>,
         "ast_try", <<3, 7>>),
    Rule("stmt", <<"TRY", "fin", "seq", "fin", "RESCUE", "ID", "CAST", "s2", "fin", "seq",
                   "fin", "END">>, "ast_try_of", <<3, 6, 8, 10>>)>>

Operate(var, op, act) == Rule("stmt", <<var, op, "s2">>, act, <<1, 2, 3>>)
AssignRules ==
  <<Rule("stmt", <<"ID", "EQUAL", "s2">>, "assign", <<1, 3>>),
    Operate("ID", "OP2_SET", "assign_op"), Operate("ID", "OP1_SET", "assign_op"),
    Operate("ID", "OP0_SET", "assign_op"),
    Rule("stmt", <<"IVAR", "EQUAL", "s2">>, "ivar_assign", <<1, 3>>),
    Operate("IVAR", "OP2_SET", "ivar_assign_op"),
    Operate("IVAR", "OP1_SET", "ivar_assign_op"),
    Operate("IVAR", "OP0_SET", "ivar_assign_op"),
    Rule("stmt", <<"RAISE", "s2">>, "raise", <<2>>),
    Rule("stmt", <<"RETURN", "s2">>, "ret", <<2>>)>>

Rules == ProgramRules \o ClassRules \o DefRules \o LiteralRules \o ArgRules \o ArgListRules
           \o RecvRules \o ExpressionRules \o LambdaRules \o ConditionRules \o ImportRules
           \o TryRules \o AssignRules

Nonterminals == {Rules[r].lhs : r \in DOMAIN Rules}
Start == Rules[1].lhs
Rhs(r) == Rules[r].rhs
=============================================================================
