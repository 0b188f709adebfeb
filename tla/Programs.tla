------------------------------ MODULE Programs ------------------------------
(***************************************************************************)
(* Programs as the parser builds them: the ones of vm-test, which the vm-test *)
(* target of the Makefile runs, and families of small ones.  In the         *)
(* families `io.<name>` stands for whatever the world may answer.           *)
(***************************************************************************)
EXTENDS Ast

SelfArg == Argument("self", Null, -1, Null)
Stmts(ns) == FoldLeft(Seq_, Head(ns), Tail(ns))
Main(ns) == Scope(Return(Stmts(ns)), <<>>, SelfArg)
ParamsOf(names) == [i \in DOMAIN names |-> Argument(names[i], Null, i - 1, Null)]
DefWith(name, args, ns) == Def("", name, Scope(Stmts(ns), args, SelfArg), Len(args))
DefOf(name, names, ns) == DefWith(name, ParamsOf(names), ns)
SelfDef(name, ns) == Def("self", name, Scope(Stmts(ns), <<>>, SelfArg), 0)
ClassFrom(name, super, ns) == Class(name, super, Scope(Stmts(ns), <<>>, SelfArg))
ClassOf(name, ns) == ClassFrom(name, Named("Object"), ns)
TraitOf(name, ns) == Trait(name, Scope(Stmts(ns), <<>>, SelfArg))
LambdaOf(names, ns) == Lambda(Scope(Stmts(ns), ParamsOf(names), Null))

Positional(ns) == Arguments(ns, <<>>)
Ask_(name, recv, ns) == Send(name, recv, Positional(ns), "eNone")
Attr(name, recv) == Send(name, recv, NoArguments, "eAttr")
Bare(name, ns) == Send(name, Self, Positional(ns), "eSelfLess")
Io(name, ns) == Ask_(name, Named("io"), ns)
Op_(a, op, b) == Ask_(op, a, <<b>>)
NewOf(name) == Attr("new", Named(name))
Num3 == Number(3)
Num4 == Number(4)
Num7 == Number(7)

\* vm-test, in the order of the files' names; two that only print are left out.
FilesAToC ==
  <<Main(<<Op_(Num3, "+", Op_(Num4, "+", Number(5)))>>),
    Main(<<ClassOf("Blah", <<DefOf("foo", <<"a">>, <<Op_(Named("a"), "+", Num4)>>)>>),
           Ask_("foo", NewOf("Blah"), <<Num3>>)>>),
    Main(<<Try(Io("puts", <<Num7, Number(6)>>), Io("puts", <<Num7>>), "", Null)>>),
    Main(<<Assign("a", Num3), AssignOp("a", "+", Num4), Named("a")>>),
    Main(<<ClassOf("Blah", <<DefOf("[]", <<"a">>, <<Op_(Named("a"), "+", Num4)>>)>>),
           Ask_("[]", NewOf("Blah"), <<Num3>>)>>),
    Main(<<Assign("b", Cast(Num7, Named("Integer"))), Io("puts", <<Named("b")>>)>>),
    Main(<<ClassOf("Blah", <<DefWith("foo", <<Argument("a", Named("Integer"), 0, Null)>>,
                                     <<Op_(Named("a"), "+", Num4)>>)>>),
           Ask_("foo", NewOf("Blah"), <<Num3>>)>>),
    Main(<<ClassOf("Blah", <<DefOf("initialize", <<"x">>, <<IvarAssign("x", Named("x"))>>),
                             DefOf("show", <<>>, <<Io("puts", <<IvarRead("x")>>)>>)>>),
           Assign("b", Bare("Blah", <<Num7>>)), Attr("show", Named("b"))>>),
    Main(<<ClassOf("Blah", <<SelfDef("foo", <<Num7>>)>>), Attr("foo", Named("Blah"))>>)>>
FilesDToK ==
  <<Main(<<Assign("h", Dictionary(Arguments(<<Num3, Num4>>, "a" :> 0 @@ "b" :> 1))),
           Op_(Ask_("::", Named("h"), <<LiteralString("a")>>), "+",
               Ask_("::", Named("h"), <<LiteralString("b")>>))>>),
    Main(<<ImportOne("impcls", "Blah", "Blah"), Attr("print", NewOf("Blah"))>>),
    Main(<<ImportOne("impcls", "Blah", "B"), Attr("print", NewOf("B"))>>),
    Main(<<IfCond(Num3, Num4, Null)>>),
    Main(<<IfCond(False_, Number(0), Num7)>>),
    Main(<<Import("blah", "blah"), Ask_("show", Named("blah"), <<>>)>>),
    Main(<<Import("blah", "blah"),
           ClassOf("T", <<DefOf("x", <<>>, <<Ask_("show", Named("blah"), <<>>)>>)>>),
           Attr("x", NewOf("T"))>>),
    Main(<<Import("blah.foo", "F"), Ask_("show", Named("F"), <<>>)>>),
    Main(<<ClassOf("Blah", <<DefOf("s", <<>>, <<IvarAssign("a", Num7)>>),
                             DefOf("r", <<>>, <<IvarRead("a")>>)>>),
           Assign("b", NewOf("Blah")), Attr("s", Named("b")),
           Io("puts", <<Attr("r", Named("b"))>>)>>),
    Main(<<ClassOf("Blah", <<DefOf("foo", <<>>, <<IvarAssign("blah", Num3),
             IvarAssignOp("blah", "+", Num4), IvarRead("blah")>>)>>),
           Attr("foo", NewOf("Blah"))>>),
    Main(<<ClassOf("Blah", <<DefOf("foo", <<"a", "b">>, <<Op_(Named("b"), "+", Num4)>>)>>),
           Send("foo", NewOf("Blah"),
                Arguments(<<Num3, Number(10)>>, "b" :> 0 @@ "a" :> 1), "eNone")>>),
    Main(<<ClassOf("Blah",
             <<DefOf("foo", <<"a", "b", "c">>, <<Op_(Named("b"), "+", Num4)>>)>>),
           Send("foo", NewOf("Blah"),
                Arguments(<<Number(10), Number(13), Num3>>, "c" :> 1 @@ "b" :> 2),
                "eNone")>>),
    Main(<<ClassOf("Blah",
             <<DefOf("foo", <<"a", "b">>, <<Op_(Named("b"), "+", Num4)>>),
               DefOf("run", <<>>, <<Send("foo", Self,
                 Arguments(<<Num3, Number(10)>>, "b" :> 0 @@ "a" :> 1), "eSelfLess")>>)>>),
           Attr("run", NewOf("Blah"))>>)>>
FilesLToM ==
  <<Main(<<ClassOf("Blah",
             <<DefOf("b", <<"a">>, <<LambdaOf(<<>>, <<Io("puts", <<Named("a")>>)>>)>>)>>),
           Attr("apply", Ask_("b", NewOf("Blah"), <<Num7>>))>>),
    Main(<<ClassOf("Blah",
             <<DefOf("three", <<>>, <<Num3>>),
               DefOf("b", <<"a">>, <<LambdaOf(<<>>,
                 <<Io("puts", <<Op_(Named("a"), "+", Ask_("three", Self, <<>>))>>)>>)>>)>>),
           Attr("apply", Ask_("b", NewOf("Blah"), <<Num4>>))>>),
    Main(<<Assign("l", LambdaOf(<<"t">>, <<Io("puts", <<Named("t")>>)>>)),
           Ask_("apply", Named("l"), <<Num7>>)>>),
    Main(<<ClassOf("Blah", <<DefOf("foo", <<>>, <<Assign("a", Op_(Num3, "+", Num4)),
                                                  Io("puts", <<Named("a")>>)>>)>>),
           Attr("foo", NewOf("Blah"))>>),
    Main(<<ClassOf("Blah",
             <<DefOf("blah", <<>>, <<Attr("apply", LambdaOf(<<>>, <<Return(Num7)>>)),
                                     Return(Number(0))>>)>>),
           Io("puts", <<Attr("blah", NewOf("Blah"))>>)>>),
    Main(<<ClassOf("Blah",
             <<DefOf("foo", <<"b">>, <<Attr("apply", Named("b"))>>),
               DefOf("blah", <<>>, <<Bare("foo", <<LambdaOf(<<>>, <<Return(Num7)>>)>>),
                                     Return(Number(0))>>)>>),
           Io("puts", <<Attr("blah", NewOf("Blah"))>>)>>),
    Main(<<Assign("b", LambdaOf(<<>>, <<Io("puts", <<Num7>>)>>)), Bare("b", <<>>)>>)>>
FilesNToT ==
  <<Main(<<ClassOf("Blah", <<DefOf("foo", <<>>, <<Bare("b", <<>>)>>),
                             DefOf("b", <<>>, <<Num7>>)>>),
           Ask_("foo", NewOf("Blah"), <<>>)>>),
    Main(<<ClassOf("Blah", <<DefOf("+@", <<"o">>, <<Op_(Num3, "+", Named("o"))>>)>>),
           Op_(NewOf("Blah"), "+@", Num4)>>),
    Main(<<ClassOf("Blah",
             <<DefWith("foo", <<Argument("a", Null, 0, Null), Argument("b", Null, 1, Num4)>>,
                       <<Op_(Named("a"), "+", Named("b"))>>)>>),
           Ask_("foo", NewOf("Blah"), <<Num3>>)>>),
    Main(<<ClassOf("Blah", <<DefOf("foo", <<>>, <<Op_(Num3, "+", Num4)>>)>>),
           Assign("m", LiteralString("foo")),
           SendIndirect(Named("m"), NewOf("Blah"), NoArguments)>>),
    Main(<<ClassOf("A", <<DefOf("a", <<>>, <<Io("puts", <<Num7>>)>>)>>),
           ClassFrom("B", Named("A"), <<DefOf("b", <<>>, <<Ask_("a", Self, <<>>)>>)>>),
           Attr("b", NewOf("B"))>>),
    Main(<<TraitOf("Comparable",
             <<DefOf("compare", <<"o">>, <<Op_(Self, "<=>", Named("o"))>>)>>),
           ClassOf("Blah", <<Bare("uses", <<Named("Comparable")>>),
                             DefOf("<=>", <<"o">>, <<Named("o")>>)>>),
           Assign("b", NewOf("Blah")),
           IfCond(Ask_("compare", Named("b"), <<Number(1)>>), Io("puts", <<Num7>>), Null)>>),
    Main(<<Try(Stmts(<<Import("bad", "bad"), Io("puts", <<Num3>>)>>), Io("puts", <<Num7>>),
               "", Null)>>),
    Main(<<Try(Attr("puts", Named("io")),
               IfCond(Op_(Attr("message", Named("e")), "==", LiteralString("one")),
                      Io("puts", <<Num7>>), Io("puts", <<Number(0)>>)),
               "e", Named("ArgumentError"))>>),
    Main(<<Try(Try(Attr("puts", Named("io")), Io("puts", <<Number(0)>>),
                   "e", Named("NoMethodError")),
               Io("puts", <<Num7>>), "e", Named("ArgumentError"))>>)>>
\* Not in vm-test: a method called with too few arguments, in a try and not.
TooFew ==
  LET def == DefOf("two", <<"a", "b">>, <<Named("a")>>)
      call == Bare("two", <<Num3>>)
  IN <<Main(<<def, Io("puts", <<Num7>>), call>>),
       Main(<<def, Try(call, Io("puts", <<Num7>>), "", Null)>>),
       Main(<<def, Try(Send("two", Self, Arguments(<<Num3>>, "b" :> 0), "eSelfLess"),
                       Io("puts", <<Num7>>), "", Null)>>)>>
\* Nor are these: what is raised, again and by what it was caught with, and what
\* stops the VM, a raise of anything else and a return no method is around.
Oops == LiteralString("oops")
Raising_ ==
  LET again == Try(Io("puts", <<Num7>>), Raise(Named("e")), "e", Named("Exception"))
      returns == Attr("apply", LambdaOf(<<>>, <<Return(Num7)>>))
      body == ClassOf("Blah", <<returns>>)
  IN <<Main(<<Try(Raise(Oops), Io("puts", <<Num7>>), "", Null)>>),
       Main(<<Try(again, Io("puts", <<Num3>>), "", Null)>>),
       Main(<<Try(Raise(Num7), Io("puts", <<Num7>>), "", Null)>>),
       Main(<<DefOf("foo", <<"a">>, <<Raise(Named("a"))>>), Io("puts", <<Bare("foo", <<Io("a", <<>>)>>)>>)>>),
       Main(<<Io("puts", <<returns>>)>>),
       Main(<<body, Io("puts", <<Num3>>)>>),
       Main(<<DefOf("foo", <<>>, <<LambdaOf(<<>>, <<Return(Num7)>>)>>),
              Attr("apply", Bare("foo", <<>>)), Io("puts", <<Num3>>)>>)>>
Files == FilesAToC \o FilesDToK \o FilesLToM \o FilesNToT \o TooFew \o Raising_
=============================================================================
