------------------------------ MODULE MCParser ------------------------------
(***************************************************************************)
(* Texts: the programs of vm-test, expressions and statements nested in    *)
(* each other, and texts that miss a token.  The text of a tree is made of *)
(* the tokens a programmer writes for it, by what the language means and   *)
(* not by the grammar's tables.  An argument has no parentheses of its     *)
(* own, so that not every tree has a text.  Where there is a choice,       *)
(* `open` says which: arguments without parentheses, `a if b`, `!=`, `;`.  *)
(***************************************************************************)
EXTENDS Lemon, ParserProps, Programs

Word(major, s) == [major |-> major, s |-> s]
Mark(major) == <<Word(major, "")>>
Fin(open) == IF open THEN Mark("SEMI") ELSE Mark("NL")
Joined(parts, sep) ==
  IF parts = <<>> THEN <<>> ELSE FoldLeft(LAMBDA text, p : text \o sep \o p,
                                          Head(parts), Tail(parts))

Operators == ("+" :> "OP1" @@ "-" :> "OP1" @@ "*" :> "OP2" @@ "/" :> "OP2" @@
              "==" :> "OP0" @@ "<=>" :> "OP0" @@ "+@" :> "OP1" @@ ">" :> "OP0" @@ "<" :> "LT" @@ "|" :> "PIPE")
SetOperators == [o \in {"+", "-", "*", "/", ">"} |-> Operators[o] \o "_SET"]
IsBinop(n) == n.type = "Send" /\ n.name \in DOMAIN Operators /\ Len(n.kids) = 2
IsNotEqual(n) == n.type = "Not" /\ n.kids[1].type = "Send" /\ n.kids[1].name = "=="
IsDColon(n) == n.type = "Send" /\ n.name = "::" /\ Len(n.kids) = 2
LiteralTypes == {"Number", "Nil", "True", "False", "Self", "Named", "IvarRead", "LiteralString"}

\* What can be given a send without parentheses around it, and what can be an
\* argument: that, or an operator, a cast or ! over such.
RECURSIVE IsArg(_)
IsRecv(n) ==
  \/ n.type \in LiteralTypes \cup {"Lambda", "Tuple", "List", "Dictionary", "SendIndirect"}
  \/ n.type = "Send" /\ ~IsBinop(n) /\ n.spec # "eSetAttr"
IsArg(n) ==
  \/ IsRecv(n) /\ (n.type \in {"SendIndirect", "Send"} /\ n.spec # "eSelfLess" =>
                     IsRecv(n.kids[IF n.type = "Send" THEN 1 ELSE 2])
                       /\ IsArg(n.kids[IF n.type = "Send" THEN 1 ELSE 2]))
  \/ IsBinop(n) /\ IsRecv(n.kids[1]) /\ IsArg(n.kids[1])
  \/ IsNotEqual(n) /\ IsRecv(n.kids[1].kids[1]) /\ IsArg(n.kids[1].kids[1])
       /\ IsRecv(n.kids[1].kids[2]) /\ IsArg(n.kids[1].kids[2])
  \/ n.type = "Cast" /\ \A i \in 1 .. 2 : IsRecv(n.kids[i]) /\ IsArg(n.kids[i])
  \/ n.type = "Not" /\ ~IsNotEqual(n) /\ IsRecv(n.kids[1]) /\ IsArg(n.kids[1])

RECURSIVE S2(_, _), Arg(_), Recv(_), Stmt(_, _)
\* The arguments after the first `skip` kids, the keywords last; those of a
\* send on a line each.
ArgList(n, skip) ==
  LET key(i) == {k \in DOMAIN n.keywords : n.keywords[k] = i - skip - 1}
      one(i) == (IF key(i) = {} THEN <<>>
                 ELSE <<Word("ID", CHOOSE k \in key(i) : TRUE)>> \o Mark("EQUAL"))
                  \o Arg(n.kids[i])
  IN Joined([i \in 1 .. Len(n.kids) - skip |-> one(i + skip)],
            Mark("COMMA") \o (IF n.type = "Send" THEN Mark("NL") ELSE <<>>))
InParens(text) == Mark("LP") \o text \o Mark("RP")
\* The right side of an operator.
Right(n) == IF IsRecv(n) /\ IsArg(n) THEN Arg(n) ELSE InParens(S2(n, FALSE))
Literal(n) ==
  CASE n.type = "Number" -> <<Word("NUM", n.val)>>
    [] n.type = "Nil" -> Mark("NIL")
    [] n.type = "True" -> Mark("TRUE")
    [] n.type = "False" -> Mark("FALSE")
    [] n.type = "Self" -> Mark("SELF")
    [] n.type = "Named" -> <<Word("ID", n.name)>>
    [] n.type = "IvarRead" -> <<Word("IVAR", n.name)>>
    [] n.type = "LiteralString" -> <<Word("LITSTR", n.str)>>
\* A send to what R writes for the receiver.
SendText(n, recv) ==
  CASE n.spec = "eSelfLess" -> <<Word("ID", n.name)>> \o InParens(ArgList(n, 1))
    [] n.spec = "eAttr" -> recv \o <<Word("DOT", n.name)>>
    [] n.name = "[]" -> recv \o Mark("LSB") \o ArgList(n, 1) \o Mark("RSB")
    [] IsDColon(n) -> recv \o <<Word("DCOLON", "::"), Word("ID", n.kids[2].str)>>
    [] OTHER -> recv \o <<Word("DOT", n.name)>> \o InParens(ArgList(n, 1))
Unit(n, recv) ==
  CASE n.type \in LiteralTypes -> Literal(n)
    [] n.type = "Send" -> SendText(n, recv)
    [] n.type = "SendIndirect" ->
         recv \o Mark("DOT_DOLLAR") \o Literal(n.kids[1])
           \o (IF Len(n.kids) = 2 THEN <<>> ELSE InParens(ArgList(n, 2)))
    [] n.type = "Tuple" -> Mark("TUPLE_START") \o ArgList(n, 0) \o Mark("RP")
    [] n.type = "List" -> Mark("LIST") \o ArgList(n, 0) \o Mark("RSB")
    [] n.type = "Dictionary" -> Mark("DICT_START") \o ArgList(n, 0) \o Mark("RB")
    [] n.type = "Lambda" ->
         LET sc == n.kids[1]
             params == [i \in 1 .. Len(sc.kids) - 2 |->
                          Mark("PIPE") \o <<Word("ID", sc.kids[i + 2].name)>> \o Mark("PIPE")]
         IN Mark("LB") \o Joined(params, <<>>) \o Stmt(sc.kids[1], FALSE) \o Mark("RB")
ReceiverOf(n) == n.kids[IF n.type = "SendIndirect" THEN 2 ELSE 1]
HasReceiver(n) == n.type = "SendIndirect" \/ (n.type = "Send" /\ n.spec # "eSelfLess")
Recv(n) ==
  IF IsRecv(n) THEN Unit(n, IF HasReceiver(n) THEN Recv(ReceiverOf(n)) ELSE <<>>)
  ELSE InParens(S2(n, FALSE))
Arg(n) ==
  CASE IsRecv(n) -> Unit(n, IF HasReceiver(n) THEN Arg(ReceiverOf(n)) ELSE <<>>)
    [] IsBinop(n) ->
         Arg(n.kids[1]) \o <<Word(Operators[n.name], n.name)>> \o Right(n.kids[2])
    [] IsNotEqual(n) -> Arg(n.kids[1].kids[1]) \o Mark("NEQUAL") \o Arg(n.kids[1].kids[2])
    [] n.type = "Cast" -> Arg(n.kids[1]) \o Mark("CAST") \o Arg(n.kids[2])
    [] n.type = "Not" -> Mark("NOT") \o Arg(n.kids[1])
S2(n, open) ==
  CASE IsBinop(n) ->
         Recv(n.kids[1]) \o <<Word(Operators[n.name], n.name)>> \o Right(n.kids[2])
    [] IsNotEqual(n) /\ open /\ IsArg(n.kids[1].kids[2]) ->
         Recv(n.kids[1].kids[1]) \o Mark("NEQUAL") \o Arg(n.kids[1].kids[2])
    [] n.type = "Not" -> Mark("NOT") \o S2(n.kids[1], open)
    [] n.type = "Cast" -> Recv(n.kids[1]) \o Mark("CAST") \o Arg(n.kids[2])
    [] n.type = "And" -> Recv(n.kids[1]) \o Mark("AND") \o Arg(n.kids[2])
    [] n.type = "Send" /\ n.spec = "eSetAttr" ->
         Recv(n.kids[1]) \o <<Word("DOT", n.name)>> \o Mark("EQUAL") \o S2(n.kids[2], open)
    [] open /\ n.type = "Send" /\ n.spec = "eNone" /\ n.name # "[]" /\ ~IsDColon(n)
         /\ Len(n.kids) > 1 -> Recv(n.kids[1]) \o <<Word("DOT", n.name)>> \o ArgList(n, 1)
    [] open /\ n.type = "Send" /\ n.spec = "eSelfLess" /\ Len(n.kids) > 1 ->
         <<Word("ID", n.name)>> \o ArgList(n, 1)
    [] open /\ n.type = "SendIndirect" /\ Len(n.kids) > 2 ->
         Recv(n.kids[2]) \o Mark("DOT_DOLLAR") \o Literal(n.kids[1]) \o ArgList(n, 2)
    [] OTHER -> Recv(n)

-----------------------------------------------------------------------------
ValueTypes == LiteralTypes \cup {"Lambda", "Tuple", "List", "Dictionary", "SendIndirect",
                                 "Send", "Not", "Cast", "And"}
Body(n, open) == Fin(open) \o Stmt(n, open) \o Fin(open) \o Mark("END")
Cond(n, open) == IF n.type = "Assign" THEN Stmt(n, open) ELSE S2(n, open)
Param(a) ==
  <<Word("ID", a.name)>>
    \o (IF a.kids[1] # Null THEN Mark("CAST") \o Recv(a.kids[1]) ELSE <<>>)
    \o (IF a.kids[2] # Null THEN Mark("EQUAL") \o Recv(a.kids[2]) ELSE <<>>)
DefText(n, open) ==
  LET sc == n.kids[1]
      params == Joined([i \in 1 .. Len(ArgObjs(sc)) |-> Param(ArgObjs(sc)[i])], Mark("COMMA"))
      name == IF n.str = "self" THEN Mark("SELF") \o <<Word("DOT", n.name)>>
              ELSE IF n.str # "" THEN <<Word("ID", n.str), Word("DOT", n.name)>>
              ELSE <<Word(IF n.name \in DOMAIN Operators THEN Operators[n.name]
                          ELSE IF n.name = "[]" THEN "SQUARE" ELSE "ID", n.name)>>
  IN Mark("DEF") \o name \o (IF params = <<>> THEN <<>> ELSE InParens(params))
       \o (IF open /\ sc.kids[1] = Nil THEN Fin(open) \o Mark("END") ELSE Body(sc.kids[1], open))
\* A path with what follows its last dot.
PathWord(path, last) == [Word("DOT_NAME", path) EXCEPT !.s = [s |-> path, last |-> last]]
ImportText(path, last) == Mark("IMPORT") \o <<PathWord(path, last)>>
AsText(name, last) == IF name = last THEN <<>> ELSE Mark("AS") \o <<Word("ID", name)>>
Stmt(n, open) ==
  CASE n.type = "Seq" -> Stmt(n.kids[1], open) \o Fin(open) \o Stmt(n.kids[2], open)
    [] n.type \in ValueTypes -> S2(n, open)
    [] n.type \in {"Assign", "IvarAssign"} ->
         <<Word(IF n.type = "Assign" THEN "ID" ELSE "IVAR", n.name)>> \o Mark("EQUAL")
           \o S2(n.kids[1], open)
    [] n.type \in {"AssignOp", "IvarAssignOp"} ->
         <<Word(IF n.type = "AssignOp" THEN "ID" ELSE "IVAR", n.name),
           Word(SetOperators[n.str], n.str)>> \o S2(n.kids[1], open)
    [] n.type = "Return" -> Mark("RETURN") \o S2(n.kids[1], open)
    [] n.type = "Raise" -> Mark("RAISE") \o S2(n.kids[1], open)
    [] n.type = "IfCond" /\ open /\ n.kids[3] = Null
         /\ n.kids[2].type \in ValueTypes \cup {"Return", "Raise"}
         /\ n.kids[1].type \in ValueTypes ->
         Stmt(n.kids[2], FALSE) \o Mark("IF") \o S2(n.kids[1], FALSE)
    [] n.type = "IfCond" ->
         Mark("IF") \o Cond(n.kids[1], open)
           \o (IF n.kids[3] = Null THEN Body(n.kids[2], open)
               ELSE Fin(open) \o Stmt(n.kids[2], open) \o Fin(open) \o Mark("ELSE")
                      \o Body(n.kids[3], open))
    [] n.type \in {"Unless", "While"} ->
         Mark(IF n.type = "While" THEN "WHILE" ELSE "UNLESS") \o Cond(n.kids[1], open)
           \o Body(n.kids[2], open)
    [] n.type = "Try" ->
         Mark("TRY") \o Fin(open) \o Stmt(n.kids[1], open) \o Fin(open) \o Mark("RESCUE")
           \o (IF n.kids[3] = Null THEN <<>>
               ELSE <<Word("ID", n.name)>> \o Mark("CAST") \o S2(n.kids[3], FALSE))
           \o Body(n.kids[2], open)
    [] n.type = "Import" ->
         LET last == IF n.str = "blah.foo" THEN "foo" ELSE n.str
         IN ImportText(n.str, last) \o AsText(n.name, last)
    [] n.type = "ImportOne" ->
         ImportText(n.str, n.str) \o <<Word("DCOLON", "::"), Word("ID", n.spec)>>
           \o AsText(n.name, n.spec)
    [] n.type = "Class" ->
         Mark("CLASS") \o <<Word("ID", n.name)>>
           \o (IF n.kids[1] = Named("Object") /\ ~open THEN <<>>
               ELSE Mark("LT") \o S2(n.kids[1], FALSE))
           \o Body(n.kids[2].kids[1], open)
    [] n.type = "Trait" -> Mark("TRAIT") \o <<Word("ID", n.name)>>
                             \o Body(n.kids[1].kids[1], open)
    [] n.type = "Def" -> DefText(n, open)

\* The file: the statements of the main scope's Return.
FileText(top, open) ==
  Stmt(top.kids[1].kids[1], open) \o Fin(open) \o Mark("EOF")

\* The lines of a text, which the newlines count; `end` is the line after it.
WithLines(text) ==
  FoldLeft(LAMBDA acc, w :
             LET line == IF acc = <<>> THEN 1 ELSE Last(acc).end
                 end == IF w.major = "NL" THEN line + 1 ELSE line
                 minor == CASE w.major = "DOT_NAME" ->
                                 [s |-> w.s.s, last |-> w.s.last, line |-> line]
                            [] w.major = "NUM" -> [i |-> w.s, line |-> line]
                            [] OTHER -> [s |-> w.s, line |-> line]
             IN Append(acc, [major |-> w.major, minor |-> minor, end |-> end]),
           <<>>, text)

-----------------------------------------------------------------------------

\* The tables lemon makes, each behind a LET: TLC then takes them as they are.
MCActionTable == LET table == LemonActions IN table
MCGotoTable == LET table == LemonGotos IN table
MCItems == LET items == Closures IN items

A_ == Named("a")

RECURSIVE Writable(_)
\* Whether every argument of n can be written as one.
Writable(n) ==
  /\ \A i \in DOMAIN n.kids : n.kids[i] # Null => Writable(n.kids[i])
  /\ LET first == CASE n.type = "Send" /\ ~IsBinop(n) /\ n.spec # "eSetAttr" /\ ~IsDColon(n) -> 2
                    [] n.type = "SendIndirect" -> 3
                    [] n.type \in {"Tuple", "List", "Dictionary"} -> 1
                    [] n.type \in {"And", "Cast"} -> 2
                    [] OTHER -> Len(n.kids) + 1
     IN \A i \in first .. Len(n.kids) : IsArg(n.kids[i])
Both(tree) == {Sample(WithLines(FileText(tree, open)), tree) : open \in BOOLEAN}
Whole(statements) == UNION {Both(Main(<<n, A_>>)) : n \in statements}

\* Expressions: every kind of one with every kind of one in either place.
Kinds(a, b) ==
  {Op_(a, "+", b), Op_(a, "<", b), Not(Op_(a, "==", b)), Not(a), Cast(a, b), And(a, b),
   Ask_("f", a, <<b>>), Ask_("f", a, <<>>), Attr("f", a), Ask_("[]", a, <<b, Num3>>),
   Ask_("::", a, <<LiteralString("k")>>), Bare("g", <<a, b>>), Bare("g", <<>>),
   Send("g", a, Arguments(<<b, Num7>>, "k" :> 1), "eNone"),
   SendIndirect(LiteralString("h"), a, Positional(<<b>>)),
   SendIndirect(Named("h"), a, NoArguments), Tuple(Positional(<<a, b>>)),
   List(Positional(<<b>>)), Dictionary(Arguments(<<a, b>>, "k" :> 0 @@ "j" :> 1)),
   LambdaOf(<<"p">>, <<a, b>>), LambdaOf(<<>>, <<b>>),
   Send("x", a, Positional(<<b>>), "eSetAttr")}
Nested == UNION {Kinds(e, IvarRead("i")) \cup Kinds(Number(1), e) : e \in Kinds(Named("x"), Num4)}
Expressions == {m \in Nested : Writable(m)}

\* Statements: the same.
C_ == Bare("c", <<A_>>)
Forms(s, t) ==
  {IfCond(C_, s, Null), IfCond(C_, s, t), Unless(C_, s), While(Assign("w", C_), s),
   Try(s, t, "", Null), Try(s, t, "e", Named("Error")), While(C_, Seq_(s, t))}
Definitions(s) ==
  {DefOf("d", <<>>, <<s>>), DefOf("+", <<"o">>, <<s>>), SelfDef("d", <<s>>),
   DefWith("d", <<Argument("p", A_, 0, Null), Argument("q", Null, 1, Null),
                  Argument("r", Null, 2, Num3)>>, <<s>>),
   ClassOf("K", <<DefOf("d", <<"p">>, <<s>>), s>>),
   ClassFrom("K", A_, <<TraitOf("T", <<s>>), DefOf("d", <<>>, <<Nil>>)>>)}
Simple ==
  {C_, Return(A_), Raise(A_), Assign("v", Op_(A_, "*", Num3)), AssignOp("v", "+", A_),
   AssignOp("v", "*", A_), AssignOp("v", ">", A_), IvarAssign("i", A_),
   IvarAssignOp("i", "-", A_), IvarAssignOp("i", "/", A_), IvarAssignOp("i", ">", A_),
   Import("lib", "lib"), Import("lib", "l"), ImportOne("lib", "E", "E"),
   ImportOne("lib", "E", "F"), IfCond(C_, Return(A_), Null), IfCond(C_, Raise(A_), Null),
   True_, Op_(A_, "/", False_)}
Around(s, t) == Forms(s, t) \cup Forms(t, s)
Statements ==
  UNION {Around(s, C_) \cup Definitions(s) : s \in Simple}
    \cup UNION {Around(f, A_) \cup Definitions(f) : f \in Forms(C_, Return(A_))}

\* Operators without parentheses.  In an argument one that binds more tightly goes
\* first and of two that bind alike the left one; but the first operator of a
\* statement takes all that follows for its right side.  \* has no name of its own
\* in an argument.
Tightness == [o \in {"+", "|", "==", "<", "!=", "*"} |->
                CASE o = "*" -> 3 [] o \in {"+", "|"} -> 2 [] OTHER -> 1]
Apply_(o, a, b) == IF o = "!=" THEN Not(Op_(a, "==", b)) ELSE Op_(a, o, b)
RECURSIVE Grouped(_, _)
Grouped(xs, os) ==
  IF os = <<>> THEN Head(xs)
  ELSE LET last == CHOOSE i \in DOMAIN os :
                     /\ \A j \in DOMAIN os : Tightness[os[i]] <= Tightness[os[j]]
                     /\ \A j \in i + 1 .. Len(os) : Tightness[os[i]] < Tightness[os[j]]
       IN Apply_(IF os[last] = "*" THEN Garbage ELSE os[last],
                 Grouped(SubSeq(xs, 1, last), SubSeq(os, 1, last - 1)),
                 Grouped(SubSeq(xs, last + 1, Len(xs)), SubSeq(os, last + 1, Len(os))))
OperatorWord(o) ==
  IF o = "!=" THEN Mark("NEQUAL") ELSE <<Word(Operators[o], o)>>
ChainText(xs, os) ==
  Arg(Head(xs)) \o Joined([i \in DOMAIN os |-> OperatorWord(os[i]) \o Arg(xs[i + 1])], <<>>)
Chained(statement, text) == Sample(WithLines(text \o Mark("NL") \o Mark("EOF")), Main(<<statement>>))
OperatorChains ==
  LET operands == {<<A_, Num3, IvarRead("i"), Attr("h", A_)>>,
                   <<Not(A_), Num3, Bare("g", <<Num4>>), Not(Num3)>>}
      plain == <<A_, Num3, IvarRead("i"), Attr("h", A_)>>
  IN UNION {{Chained(Bare("g", <<Grouped(xs, os)>>),
                     <<Word("ID", "g")>> \o InParens(ChainText(xs, os))) : xs \in operands} \cup
            {Chained(Apply_(os[1], A_, Grouped(Tail(plain), Tail(os))), ChainText(plain, os))} :
              os \in [1 .. 3 -> DOMAIN Tightness]}

\* Texts that miss a token, or have a character that is none.
Complete_ ==
  {Main(<<ClassOf("K", <<DefOf("d", <<"p">>, <<Bare("g", <<A_, Tuple(Positional(<<A_>>))>>)>>)>>)>>),
   Main(<<Try(Ask_("f", A_, <<LambdaOf(<<"p">>, <<Return(Num3)>>), Num4>>), C_, "e", A_)>>),
   Main(<<While(Op_(A_, "<", Num7), Assign("v", Op_(A_, "+", Attr("h", Num3)))),
          IvarAssignOp("i", "+", Not(Cast(A_, Named("T"))))>>),
   Main(<<ImportOne("lib", "E", "F"), Send("g", A_, Arguments(<<Num3, Num7>>, "k" :> 1), "eNone")>>)}
Missing(text) ==
  UNION {{Sample(WithLines(RemoveAt(text, i)), Null),
          Sample(WithLines([text EXCEPT ![i] = Word("none", "~")]), Null)} :
            i \in 1 .. Len(text) - 1}

MCSamples ==
  LET files == {Files[i] : i \in DOMAIN Files}
  IN UNION {Both(tree) : tree \in files} \cup Whole(Expressions) \cup Whole(Statements)
       \cup OperatorChains \cup UNION {Missing(FileText(tree, open)) : tree \in Complete_, open \in BOOLEAN}

-----------------------------------------------------------------------------
(* What a text means.                                                      *)
RECURSIVE NoLines(_)
NoLines(n) == [n EXCEPT !.line = 0, !.kids = [i \in DOMAIN @ |-> NoLines(@[i])]]

RECURSIVE NodesOf(_)
\* The nodes of a tree, each with its path.
NodesOf(n) ==
  {<<n, <<>>>>} \cup UNION {{<<m[1], <<i>> \o m[2]>> : m \in NodesOf(n.kids[i])} :
                              i \in DOMAIN n.kids}

\* A text written from a tree is accepted and gives that tree again: the rules,
\* their precedences and actions and the tables say together what a text means.
ParsesBack ==
  outcome # "" /\ written.tree # Null => Compiles /\ NoLines(ps.top) = written.tree

\* What compiles is the whole text and nothing else: a token that is missing, wrong
\* or one too many is never dropped without the compiler being told, and a tree is
\* only lacking when parse() came to a character that is no token.  Of the kinds
\* of tokens that a node is made of alone there are as many in the text as there
\* are such nodes in the tree; one Return is that of the file.
Makes ==
  {<<{"NUM"}, {"Number"}>>, <<{"IVAR"}, {"IvarRead", "IvarAssign", "IvarAssignOp"}>>,
   <<{"TRUE"}, {"True"}>>, <<{"FALSE"}, {"False"}>>, <<{"LB"}, {"Lambda"}>>,
   <<{"NOT", "NEQUAL"}, {"Not"}>>, <<{"AND"}, {"And"}>>, <<{"TUPLE_START"}, {"Tuple"}>>,
   <<{"LIST"}, {"List"}>>, <<{"DICT_START"}, {"Dictionary"}>>, <<{"DOT_DOLLAR"}, {"SendIndirect"}>>,
   <<{"IF"}, {"IfCond"}>>, <<{"UNLESS"}, {"Unless"}>>, <<{"WHILE"}, {"While"}>>, <<{"TRY"}, {"Try"}>>,
   <<{"RETURN", "EOF"}, {"Return"}>>, <<{"RAISE"}, {"Raise"}>>, <<{"CLASS"}, {"Class"}>>,
   <<{"TRAIT"}, {"Trait"}>>, <<{"DEF"}, {"Def"}>>, <<{"IMPORT"}, {"Import", "ImportOne"}>>,
   <<{"OP2_SET", "OP1_SET", "OP0_SET"}, {"AssignOp", "IvarAssignOp"}>>}
CompilesWhatIsWritten ==
  /\ Compiles =>
       /\ input = <<>>
       /\ LET nodes == NodesOf(ps.top)
          IN \A m \in Makes :
               Cardinality({i \in DOMAIN written.tokens : written.tokens[i].major \in m[1]})
                 = Cardinality({nd \in nodes : nd[1].type \in m[2]})
  /\ outcome = "true" /\ ps.top = Null => input # <<>> /\ Head(input).major \notin Terminals

\* The line a send gets, which a backtrace shows, is the line of the name that
\* its receiver begins with, however many lines its arguments take.
RECURSIVE Leftmost(_)
Leftmost(n) == IF n.type = "Send" /\ n.spec # "eSelfLess" THEN Leftmost(n.kids[1]) ELSE n
LineOfWord(s) ==
  LET at == {i \in DOMAIN written.tokens :
               written.tokens[i].major = "ID" /\ written.tokens[i].minor.s = s}
  IN {written.tokens[i].minor.line : i \in at}
SendsHaveTheLineOfTheirReceiver ==
  Compiles =>
    \A nd \in NodesOf(ps.top) :
      nd[1].type = "Send" /\ nd[1].spec # "eSelfLess" /\ Leftmost(nd[1]).type = "Named" =>
        nd[1].line \in LineOfWord(Leftmost(nd[1]).name)
=============================================================================
