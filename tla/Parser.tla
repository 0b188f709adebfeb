------------------------------- MODULE Parser -------------------------------
(***************************************************************************)
(* The actions of the grammar (vm/parser_state.cpp), the generated parser  *)
(* (tools/lempar.c with the tables of Lemon) and the loop that gives it    *)
(* the tokens of a text (Parser::parse).                                   *)
(*                                                                         *)
(* ParserState, which builds the tree, is a record.  `context` collects    *)
(* the parameters of the def or lambda being read and `arg_info` the       *)
(* arguments of the send being read; the ones around them wait in `stack`  *)
(* and `arg_infos`.  `line` is that of the Parser, which has already read  *)
(* the token that follows.                                                 *)
(***************************************************************************)
EXTENDS Grammar, Ast, FiniteSets, TLC

Context == [args |-> <<>>, arg_objs |-> <<>>]
ArgInfo == [nodes |-> <<>>, keywords |-> <<>>]
NewParserState ==
  [context |-> Context, stack |-> <<>>, arg_info |-> ArgInfo, arg_infos |-> <<>>,
   syntax_error |-> FALSE, top |-> Null, line |-> 1]

\* The value of a token is its text, or its number, and its line.
Lexeme(s, line) == [s |-> s, line |-> line]
\* What an action leaves: the state and the value of the left-hand side.
Gives(st, value) == [ps |-> st, value |-> value]

\* pos(n), pos(n, f)
Here(st, n) == AtLine(n, st.line)
LineOf(n, f) == AtLine(n, f.line)

-----------------------------------------------------------------------------
(* contexts                                                                *)
StartContext(st) == [st EXCEPT !.stack = Append(@, st.context), !.context = Context]
\* Faulty: the context set aside stays set aside.
EndContextKept(st) == [st EXCEPT !.context = Last(st.stack)]
EndContext(st) == [st EXCEPT !.context = Last(st.stack), !.stack = Front(@)]

SelfArgument == Argument("self", Null, -1, Null)
DefinedScope(st, body, self) == Scope(body, st.context.arg_objs, self)
\* Class and Trait take a Scope that has no parameters.
BodyScope(body) == Scope(body, <<>>, SelfArgument)

SetTop(st, b) == [st EXCEPT !.top = Here(st, BodyScope(b))]
AstClass(st, name, super, body) ==
  Gives(EndContext(st), Here(st, Class(name, super, BodyScope(body))))
ObjectName(st) == Here(st, Named("Object"))
AstTrait(st, name, body) == Gives(EndContext(st), Here(st, Trait(name, BodyScope(body))))
AstDefSpec(st, scope, name, b) ==
  Gives(EndContext(st),
        Here(st, Def(scope, name, DefinedScope(st, b, SelfArgument),
                     Cardinality(DOMAIN st.context.args))))
AstDef(st, name, b) == AstDefSpec(st, "", name, b)
AstLambda(st, b) == Gives(EndContext(st), Here(st, Lambda(DefinedScope(st, b, Null))))

\* Its position is the number of names so far: a name given twice counts once.
AddArgument(st, name, cast, opt_value) ==
  LET num == Cardinality(DOMAIN st.context.args)
  IN [st EXCEPT !.context =
        [args |-> (name :> num) @@ @.args,
         arg_objs |-> Append(@.arg_objs, Argument(name, cast, num, opt_value))]]

-----------------------------------------------------------------------------
(* argument lists                                                          *)
StartArgList(st) ==
  [st EXCEPT !.arg_infos = Append(@, st.arg_info), !.arg_info = ArgInfo]
AddArg(st, n) == [st EXCEPT !.arg_info.nodes = Append(@, n)]
\* Faulty: the place of a keyword argument is that of the one after it.
AddKwArgLate(st, name, n) ==
  [st EXCEPT !.arg_info =
     [nodes |-> Append(@.nodes, n), keywords |-> (name :> Len(@.nodes) + 1) @@ @.keywords]]
AddKwArg(st, name, n) ==
  [st EXCEPT !.arg_info =
     [nodes |-> Append(@.nodes, n), keywords |-> (name :> Len(@.nodes)) @@ @.keywords]]
EndArgList(st) == [st EXCEPT !.arg_info = Last(st.arg_infos), !.arg_infos = Front(@)]
Args(st) == Arguments(st.arg_info.nodes, st.arg_info.keywords)
\* send_args, self_send_args, send_indirect_args, tuple, list and dict.
\* Faulty: the line of a send is that of its last argument.
SendArgsLast(st, recv, id) ==
  Gives(EndArgList(st), LineOf(Send(id, recv, Args(st), "eNone"), Last(st.arg_info.nodes)))
SendArgs(st, recv, id) ==
  Gives(EndArgList(st), LineOf(Send(id, recv, Args(st), "eNone"), recv))
SelfSendArgs(st, id) ==
  Gives(EndArgList(st), Here(st, Send(id, Here(st, Self), Args(st), "eSelfLess")))
SendIndirectArgs(st, recv, name) ==
  Gives(EndArgList(st), Here(st, SendIndirect(name, recv, Args(st))))
EndTuple(st) == Gives(EndArgList(st), Here(st, Tuple(Args(st))))
EndList(st) == Gives(EndArgList(st), Here(st, List(Args(st))))
EndDict(st) == Gives(EndArgList(st), Here(st, Dictionary(Args(st))))

-----------------------------------------------------------------------------
(* sends without a list                                                    *)
Wrap(n) == Arguments(<<n>>, <<>>)
SendTo(recv, id) == LineOf(Send(id, recv, NoArguments, "eNone"), recv)
SendAttr(recv, id) == LineOf(Send(id, recv, NoArguments, "eAttr"), recv)
SendSetAttr(recv, id, val) == LineOf(Send(id, recv, Wrap(val), "eSetAttr"), recv)
SelfSend(st, id) == Here(st, Send(id, Here(st, Self), NoArguments, "eSelfLess"))
DColon(recv, id, arg) == LineOf(Send(id, recv, Wrap(LiteralString(arg)), "eNone"), recv)
AstBinop(op, a, b) == LineOf(Send(op, a, Wrap(b), "eNone"), a)
\* The operator of OP2 in an argument: the bytes of a String taken for its text.
Garbage == "bytes of a String"

\* import(path) takes the part after the last dot for the name.
ImportAs(st, path, name) == Here(st, Import(path, name))
ImportOneAs(st, path, elem, name) == Here(st, ImportOne(path, elem, name))

-----------------------------------------------------------------------------
\* The action `act` of a rule on the values a of the symbols it names.  For
\* a DOT_NAME the part after the last dot is in `last`.
Actions(act, a, st) ==
  LET node(n) == Gives(st, n)
      here(n) == node(Here(st, n))
      state(q) == Gives(q, Null)
  IN CASE act = "value" -> node(a[1])
       [] act = "none" -> node(Null)
       [] act = "set_top" -> state(SetTop(st, Here(st, Return(a[1]))))
       [] act = "seq" -> node(LineOf(Seq_(a[1], a[2]), a[1]))
       [] act \in {"start_class", "start_trait", "start_def", "start_lambda"} ->
            state(StartContext(st))
       [] act = "ast_class" -> AstClass(st, a[1].s, ObjectName(st), a[2])
       [] act = "ast_class_of" -> AstClass(st, a[1].s, a[2], a[3])
       [] act = "trait" -> AstTrait(st, a[1].s, a[2])
       [] act = "ast_def" -> AstDef(st, a[1].s, a[2])
       [] act = "ast_def_nil" -> AstDef(st, a[1].s, Here(st, Nil))
       [] act = "ast_def_spec" -> AstDefSpec(st, a[1].s, a[2].s, a[3])
       [] act = "ast_def_spec_nil" -> AstDefSpec(st, a[1].s, a[2].s, Here(st, Nil))
       [] act = "lambda" -> AstLambda(st, a[1])
       [] act = "def_arg" -> state(AddArgument(st, a[1].s, Null, Null))
       [] act = "def_arg_cast" -> state(AddArgument(st, a[1].s, a[2], Null))
       [] act = "def_opt_arg" -> state(AddArgument(st, a[1].s, Null, a[2]))
       [] act = "string_self" -> node(Lexeme("self", 0))
       [] act = "number" -> here(Number(a[1].i))
       [] act = "ast_nil" -> here(Nil)
       [] act = "ast_true" -> here(True_)
       [] act = "ast_false" -> here(False_)
       [] act = "self" -> here(Self)
       [] act = "named" -> node(AtLine(Named(a[1].s), a[1].line))
       [] act = "ivar_read" -> here(IvarRead(a[1].s))
       [] act = "lit_str" -> here(LiteralString(a[1].s))
       [] act = "ast_binop" -> node(AstBinop(a[1].s, a[2], a[3]))
       [] act = "ast_binop_cs" -> node(AstBinop(Garbage, a[2], a[3]))
       [] act = "not_equal" -> here(Not(AstBinop("==", a[1], a[2])))
       [] act = "cast" -> here(Cast(a[1], a[2]))
       [] act = "not_" -> here(Not(a[1]))
       [] act = "and_" -> here(And(a[1], a[2]))
       [] act = "send_attr" -> node(SendAttr(a[1], a[2].s))
       [] act = "send" -> node(SendTo(a[1], a[2].s))
       [] act = "send_args" -> SendArgs(st, a[1], a[2].s)
       [] act = "send_args_index" -> SendArgs(st, a[1], "[]")
       [] act = "send_set_attr" -> node(SendSetAttr(a[1], a[2].s, a[3]))
       [] act = "self_send" -> node(SelfSend(st, a[1].s))
       [] act = "self_send_args" -> SelfSendArgs(st, a[1].s)
       [] act = "dcolon" -> node(DColon(a[1], a[2].s, a[3].s))
       [] act = "send_indirect" -> here(SendIndirect(a[2], a[1], NoArguments))
       [] act = "send_indirect_args" -> SendIndirectArgs(st, a[1], a[2])
       [] act = "tuple" -> EndTuple(st)
       [] act = "list" -> EndList(st)
       [] act = "dict" -> EndDict(st)
       [] act = "start_arg_list" -> state(StartArgList(st))
       [] act = "add_arg" -> state(AddArg(st, a[1]))
       [] act = "add_kw_arg" -> state(AddKwArg(st, a[1].s, a[2]))
       [] act = "if_cond" -> here(IfCond(a[1], a[2], Null))
       [] act = "if_else" -> here(IfCond(a[1], a[2], a[3]))
       [] act = "if_ret" -> here(IfCond(a[1], Here(st, Return(a[2])), Null))
       [] act = "if_raise" -> here(IfCond(a[1], Here(st, Raise(a[2])), Null))
       [] act = "unless" -> here(Unless(a[1], a[2]))
       [] act = "while_" -> here(While(a[1], a[2]))
       [] act = "import" -> node(ImportAs(st, a[1].s, a[1].last))
       [] act = "import_as" -> node(ImportAs(st, a[1].s, a[2].s))
       [] act = "import_one" -> node(ImportOneAs(st, a[1].s, a[2].s, a[2].s))
       [] act = "import_one_as" -> node(ImportOneAs(st, a[1].s, a[2].s, a[3].s))
       [] act = "ast_try" -> here(Try(a[1], a[2], "", Null))
       [] act = "ast_try_of" -> here(Try(a[1], a[4], a[2].s, a[3]))
       [] act = "assign" -> node(AtLine(Assign(a[1].s, a[2]), a[1].line))
       [] act = "assign_op" -> node(LineOf(AssignOp(a[1].s, a[2].s, a[3]), a[3]))
       [] act = "ivar_assign" -> node(LineOf(IvarAssign(a[1].s, a[2]), a[2]))
       [] act = "ivar_assign_op" -> here(IvarAssignOp(a[1].s, a[2].s, a[3]))
       [] act = "raise" -> here(Raise(a[1]))
       [] act = "ret" -> here(Return(a[1]))

-----------------------------------------------------------------------------
(* The parser: a step is one turn of a loop.  The next token is taken, or  *)
(* shifted, or a rule is reduced.                                          *)
CONSTANTS
  YYSTACKDEPTH,
  ActionTable,   \* what a state does on a terminal: yy_action and yy_default
  GotoTable      \* where it goes on a nonterminal
ASSUME DepthAssumption == YYSTACKDEPTH \in Nat \ {0}

VARIABLES
  input,     \* the tokens that the lexer still has to give
  yymajor,   \* the token being fed to the parser, with its value; or NoCode
  yystack,   \* yystack[0 .. yyidx]; empty for yyidx < 0
  yyerrcnt,
  ps,        \* the ParserState
  outcome    \* what parse() returns: "" until then
vars == <<input, yymajor, yystack, yyerrcnt, ps, outcome>>

NoCode == "YYNOCODE"
Token(major, s, line) == [major |-> major, minor |-> Lexeme(s, line), end |-> line]
Fed(major, minor) == [major |-> major, minor |-> minor]
Entry(stateno, major, minor) == [stateno |-> stateno, major |-> major, minor |-> minor]
Bottom == Entry(1, End, Null)

Idle == yymajor.major = NoCode \/ yystack = <<>>
\* parse() goes on after neither an error nor a character that is no token.
MoreTokens == ~ps.syntax_error /\ input # <<>> /\ Head(input).major \in Terminals
Top == Last(yystack)
\* yy_find_shift_action
Action == ActionTable[Top.stateno][yymajor.major]

\* yy_pop_parser_stack, for as long as there is something on the stack.
PopAll == <<>>
\* yy_shift: on an overflow the whole stack is popped, and nothing is reported.
Pushed(stack, entry) == IF Len(stack) >= YYSTACKDEPTH THEN PopAll ELSE Append(stack, entry)
\* What the parser does at the end, and when it cannot go on.
yy_accept == PopAll
yy_parse_failed == PopAll
yy_syntax_error(st) == [st EXCEPT !.syntax_error = TRUE]

-----------------------------------------------------------------------------
\* parse() takes a token and calls r5Parser, which first resets an empty stack.
\* `end` is the line of the lexer after the token.
NextToken ==
  /\ outcome = "" /\ Idle /\ MoreTokens
  /\ input' = Tail(input)
  /\ yymajor' = Fed(Head(input).major, Head(input).minor)
  /\ ps' = [ps EXCEPT !.line = Head(input).end]
  /\ yystack' = IF yystack = <<>> THEN <<Bottom>> ELSE yystack
  /\ yyerrcnt' = IF yystack = <<>> THEN -1 ELSE yyerrcnt
  /\ UNCHANGED outcome

Shift ==
  /\ outcome = "" /\ ~Idle /\ Action.type = "SHIFT"
  /\ yystack' = Pushed(yystack, Entry(Action.arg, yymajor.major, yymajor.minor))
  /\ yyerrcnt' = yyerrcnt - 1
  /\ yymajor' = Fed(NoCode, Null)
  /\ UNCHANGED <<input, ps, outcome>>

\* yy_reduce: the action of the rule, the pops and the move to the next state.
\* Faulty: the state to move on from is that of the last symbol popped.
MoveFromPopped(stack, r) ==
  LET left == SubSeq(stack, 1, Len(stack) - Len(Rhs(r)))
      from == IF Rhs(r) = <<>> THEN Last(left) ELSE stack[Len(left) + 1]
  IN <<left, from>>
MoveFrom(stack, r) ==
  LET left == SubSeq(stack, 1, Len(stack) - Len(Rhs(r))) IN <<left, Last(left)>>
Reduce ==
  /\ outcome = "" /\ ~Idle /\ Action.type = "REDUCE"
  /\ LET r == Action.arg
         n == Len(Rhs(r))
         of == [i \in DOMAIN Rules[r].of |->
                  yystack[Len(yystack) - n + Rules[r].of[i]].minor]
         done == Actions(Rules[r].act, of, ps)
         move == MoveFrom(yystack, r)
         goto == GotoTable[move[2].stateno]
     IN /\ ps' = done.ps
        /\ yystack' = IF Rules[r].lhs = Start THEN yy_accept
                      ELSE Pushed(move[1], Entry(goto[Rules[r].lhs], Rules[r].lhs, done.value))
  /\ UNCHANGED <<input, yymajor, yyerrcnt, outcome>>

\* Faulty: the token in error stays the lookahead.
SyntaxErrorKeeping ==
  /\ outcome = "" /\ ~Idle /\ Action.type = "ERROR"
  /\ ps' = yy_syntax_error(ps)
  /\ yyerrcnt' = 3
  /\ UNCHANGED <<input, yymajor, yystack, outcome>>

\* Faulty: the token is dropped, and nobody is told.
SyntaxErrorUnreported ==
  /\ outcome = "" /\ ~Idle /\ Action.type = "ERROR"
  /\ yyerrcnt' = 3
  /\ yystack' = IF yymajor.major = End THEN yy_parse_failed ELSE yystack
  /\ yymajor' = Fed(NoCode, Null)
  /\ UNCHANGED <<input, ps, outcome>>

\* The token is dropped; at the end of the input the parse has failed.
SyntaxError ==
  /\ outcome = "" /\ ~Idle /\ Action.type = "ERROR"
  /\ ps' = IF yyerrcnt <= 0 THEN yy_syntax_error(ps) ELSE ps
  /\ yyerrcnt' = 3
  /\ yystack' = IF yymajor.major = End THEN yy_parse_failed ELSE yystack
  /\ yymajor' = Fed(NoCode, Null)
  /\ UNCHANGED <<input, outcome>>

\* The loop of parse() ends.
Return_ ==
  /\ outcome = "" /\ Idle /\ ~MoreTokens
  /\ outcome' = IF ps.syntax_error THEN "false" ELSE "true"
  /\ UNCHANGED <<input, yymajor, yystack, yyerrcnt, ps>>

\* parse() gives the parser the end of the input after an EOF.
InitWith(tokens) ==
  /\ input = Append(tokens, Token(End, "", Last(tokens).end))
  /\ yymajor = Fed(NoCode, Null)
  /\ yystack = <<>>
  /\ yyerrcnt = 0
  /\ ps = NewParserState
  /\ outcome = ""

\* Compiler::compile goes on with what parse() returned true of and left a tree.
Compiles == outcome = "true" /\ ps.top # Null

Finished == outcome # "" /\ UNCHANGED vars
Next == NextToken \/ Shift \/ Reduce \/ SyntaxError \/ Return_ \/ Finished
=============================================================================
