----------------------------- MODULE MCCompiler -----------------------------
(***************************************************************************)
(* What the compiler and the instructions of the virtual machine owe to a  *)
(* program (modules ScopeTracker, Compiler and Machine against Meaning),   *)
(* and the programs: those of vm-test and families of programs that nest   *)
(* what the language has.  Each family is the body of a method `go` that   *)
(* the program defines and calls.                                          *)
(***************************************************************************)
EXTENDS Meaning, MachineProps, Programs

-----------------------------------------------------------------------------
(* what the compiler and the instructions owe to a program                 *)
\* An execution that ended, as far as the world can tell.
Observed == [how |-> IF ret.how = "long" THEN "return" ELSE ret.how,
             v |-> ret.v, events |-> events]

\* The compiled program does what the tree says: it sends the world the same
\* messages, with the same receivers and arguments in the same order, and ends
\* in the same way, whatever the world answers.  (drive, ScopeTracker, VM::run)
RunsAsWritten == Finished => Observed = Meaning(tree, answers)

\* The registers the instruction at hand reads.
ReadBy ==
  CASE Insn \in {Op.MOVR, Op.NOT, Op.IVA} -> {Arg(1)}
    [] Insn \in {Op.RET, Op.LRET, Op.RAISE, Op.JMPIT, Op.JMPIF} -> {Arg(0)}
    [] Insn = Op.SVAR -> {SignedByte(Arg(2))}
    [] Insn \in {Op.TUPLE, Op.LIST} -> Arg(1) .. Arg(1) + Arg(2) - 1
    [] Insn \in {Op.SEND, Op.SEND_KW} -> Arg(2) .. Arg(2) + Arg(3)
    [] Insn = Op.SENDI -> (Arg(2) .. Arg(2) + Arg(3)) \cup {Arg(1)}
    [] OTHER -> {}
\* No instruction reads a register nobody has written since a call was free to
\* use it.  (the windows of VM::run overlap: temporaries live across a call only
\* below its receiver; Def, Lambda and Scope place locals below temporaries)
ReadsWhatWasWritten == InCode => \A r \in ReadBy : Reg(r) # JunkV

RECURSIVE NodesIn(_)
NodesIn(n) == {n} \cup UNION {NodesIn(n.kids[i]) : i \in DOMAIN n.kids}
\* A backtrace taken in a call names the line of the send that made it, however
\* the lines of arguments and bodies interleave.  (State::pos, Code::line,
\* main.cpp:192)
\* The messages the compiler sends of its own accord are left out.
OwnMessages == {"new", "new_subclass", "run_body", "add_method", "add_scope_method",
                "cast", "===", "current", "import", "::", "literal", "apply"}
LineOfSend ==
  Sending /\ Message.name \notin OwnMessages =>
    LET at == {n.line : n \in {m \in NodesIn(tree) :
                                m.type = "Send" /\ m.name = Message.name}}
    IN at = {} \/ LineAt(Cur, Top.ip) \in at

-----------------------------------------------------------------------------
(* the programs                                                            *)
\* StringMap compares lengths first and then bytes.
MCNameOrder == <<"A", "B", "F", "T", "a", "b", "c", "e", "h", "l", "m", "o", "p", "q",
                 "t", "w", "x", "y", "z", "Blah", "blah", "self", "Comparable">>
\* What the world may do, and how often: in a loop it could go on for ever.
Anything(n) == [may |-> {"nil", "object", "raise"}, asks |-> n]
OnlyObjects(n) == [may |-> {"object"}, asks |-> n]

InitWith(program, w) ==
  tree = program /\ world = w /\ code \in Runnable(Compile(program)) /\ Boot

InitFiles == \E i \in DOMAIN Files : InitWith(Files[i], Anything(9))

-----------------------------------------------------------------------------
(* conditions, loops, handlers and lambdas in each other                   *)
Go_(args, ns, given) == Main(<<DefOf("go", args, ns), Bare("go", given)>>)
Leaves == {Assign("x", Io("n", <<>>)), Return(Named("x")), Raise(Named("x"))}
\* Two statements in each of the forms that decide where control goes.
Forms(a, b) ==
  {IfCond(Io("c", <<>>), a, b), IfCond(Io("c", <<>>), a, Null), Unless(Io("c", <<>>), a),
   While(Io("c", <<>>), a), Try(a, b, "", Null), Try(a, b, "e", Named("Exception")),
   Attr("apply", LambdaOf(<<>>, <<a, b>>)), Seq_(a, b)}
Nested == UNION {UNION {Forms(f, b) \cup Forms(b, f) : f \in Forms(a, Io("m", <<>>))} :
                   a \in Leaves, b \in Leaves}
InitNested == \E n \in Nested :
  InitWith(Go_(<<"x">>, <<n, Io("last", <<Named("x")>>)>>, <<Oops>>), Anything(5))
-----------------------------------------------------------------------------
(* names in lambdas within lambdas                                         *)
Say(name, names) == Io(name, [i \in DOMAIN names |-> Named(names[i])])
Twice(l, params, ns, v) ==
  Stmts(<<Assign(l, LambdaOf(params, ns)),
          Ask_("apply", Named(l), [i \in DOMAIN params |-> Io("g", <<>>)]),
          Ask_("apply", Named(l), [i \in DOMAIN params |-> Named(v)])>>)
\* Variables: x is a parameter of the method, y and z its locals.  The outer
\* lambda assigns v and the inner w; p and q are their parameters.
Closures(v, w, p, q) ==
  <<Assign("y", Io("a", <<>>)), Assign("z", Io("b", <<>>)),
    Twice("l", p, <<Assign(v, Io("d", <<Named(v)>>)),
               Twice("m", q, <<Assign(w, Io("f", <<Self>>)), Say("inner", <<"x", w>>)>>, "z"),
               Say("outer", <<v, "y">> \o p)>>, "y"),
    Say("last", <<"x", "y", "z">>)>>
\* A lambda that has a captured parameter keeps no local in a register:
\* Lambda::drive would give the local's register to a temporary.
Captured(S, s, p) == \E o \in {S.map[Append(p, i)] : i \in 3 .. Len(s.kids)} :
                        S.objs[o].type = "eClosureOwn"
RECURSIVE ScopesIn(_, _)
ScopesIn(n, p) ==
  (IF n.type = "Lambda" THEN {Append(p, 1)} ELSE {})
    \cup UNION {ScopesIn(n.kids[i], Append(p, i)) : i \in DOMAIN n.kids}
RECURSIVE At_(_, _)
At_(n, p) == IF p = <<>> THEN n ELSE At_(n.kids[Head(p)], Tail(p))
KeepsArguments(program) ==
  LET S == CalculateLocals(program) IN
  \A p \in ScopesIn(program, <<>>) :
    Captured(S, At_(program, p), p) => S.scopes[p].locals = 0
ClosurePrograms ==
  {Go_(<<"x">>, Closures(v, w, p, q), <<Num7>>) :
     v \in {"x", "y"}, w \in {"x", "y", "z", "t"},
     p \in {<<>>, <<"t">>, <<"y">>}, q \in {<<>>, <<"w">>, <<"x">>}}
InitClosures ==
  \E n \in {m \in ClosurePrograms : KeepsArguments(m)} : InitWith(n, OnlyObjects(40))

-----------------------------------------------------------------------------
(* values in registers: what nests in an expression                        *)
Atoms == {Named("x"), Self, Io("m", <<>>)}
Kinds(a, b) ==
  {Io("f", <<a, b>>), Ask_("g", a, <<b>>), Tuple(Positional(<<a, b>>)),
   List(Positional(<<b, a>>)), Dictionary(Arguments(<<a, b>>, "k" :> 0 @@ "j" :> 1)),
   Cast(a, b), Not(a), And(a, b),
   SendIndirect(LiteralString("h"), a, Positional(<<b>>)),
   Send("two", Self, Arguments(<<a, b>>, "p" :> 1 @@ "q" :> 0), "eSelfLess"),
   Send("x", a, Positional(<<b>>), "eSetAttr")}
Values == UNION {UNION {Kinds(e, b) \cup Kinds(b, e) : e \in Kinds(a, b)} :
                   a \in Atoms, b \in {Io("n", <<>>)}}
Two == DefOf("two", <<"p", "q">>, <<Io("pq", <<Named("p"), Named("q")>>)>>)
InitValues == \E n \in Values :
  InitWith(Main(<<Two, DefOf("go", <<"x">>, <<Assign("y", Number(200)), Assign("z", n),
                                              Io("last", <<Named("z"), Named("y")>>)>>),
                  Bare("go", <<Num3>>)>>), OnlyObjects(8))
-----------------------------------------------------------------------------
(* the programs laid out with an argument, a body or a statement to a line  *)
\* A node and the line it ends in, given the line it starts in.  The parser
\* gives a send the line of its receiver and other nodes their last line.
RECURSIVE Lined(_, _)
Lined(n, l) ==
  LET step(acc, kid) ==
        IF kid = Null THEN [acc EXCEPT !.kids = Append(@, kid)]
        ELSE LET r == Lined(kid, IF acc.kids = <<>> THEN acc.end ELSE acc.end + 1)
             IN [kids |-> Append(acc.kids, r[1]), end |-> r[2]]
      all == FoldLeft(step, [kids |-> <<>>, end |-> l], n.kids)
      line == IF n.type = "Send" /\ ~SelfLess(n) THEN all.kids[1].line ELSE all.end
  IN <<[n EXCEPT !.kids = all.kids, !.line = line], all.end>>
Laid(n) == Lined(n, 1)[1]
InitLines ==
  \/ \E i \in DOMAIN Files : InitWith(Laid(Files[i]), OnlyObjects(9))
  \/ \E n \in UNION {Kinds(a, Io("n", <<>>)) : a \in Kinds(Io("m", <<>>), Named("x"))} :
       InitWith(Laid(Go_(<<"x">>, <<n, Io("last", <<n>>)>>, <<Num7>>)), OnlyObjects(9))

Init == InitFiles \/ InitNested \/ InitClosures \/ InitValues \/ InitLines
Spec == Init /\ [][Next]_vars

-----------------------------------------------------------------------------
(* programs that do not run as written                                     *)
SpecCapturedOp ==
  InitWith(Main(<<Assign("a", Num3), Attr("apply", LambdaOf(<<>>, <<AssignOp("a", "+", Num4)>>)),
                  Named("a")>>), Anything(9))
    /\ [][Next]_vars
=============================================================================
